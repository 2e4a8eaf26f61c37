SPECIFICATION Spec
CONSTANTS
    c1 = c1
    c2 = c2
    Ptrs <- MCPtrs
    Fds <- MCFewFds
    Listener = 3
    MaxEvents = 3
    PeersWait = TRUE
    FreshFds = TRUE
INVARIANT SurvivesDisconnection
CHECK_DEADLOCK FALSE
