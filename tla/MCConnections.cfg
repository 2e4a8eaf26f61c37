SPECIFICATION Spec
CONSTANTS
    c1 = c1
    c2 = c2
    Ptrs <- MCPtrs
    Fds <- MCFds
    Listener = 3
    MaxEvents = 3
    PeersWait = TRUE
    FreshFds = TRUE
INVARIANT TypeOK
INVARIANT TablesAgree
INVARIANT AnswersWatched
INVARIANT NothingEscapes
INVARIANT NothingPremature
PROPERTY StaleEventsHarmless
CHECK_DEADLOCK FALSE
