SPECIFICATION Spec
CONSTANTS
    Locations <- MCLocations
    ErrorPages <- MCErrorPages
    Paths <- MCPaths
    Bodies <- MCBodies
    Fresh <- MCFresh
    Initially <- MCInitially
    Others <- MCOthers
    MaxCount = 4
INVARIANT AnswersTrue
INVARIANT StoredIsServed
CHECK_DEADLOCK FALSE
