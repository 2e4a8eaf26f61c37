SPECIFICATION FairSpec
CONSTANTS
    c1 = c1
    c2 = c2
    Ptrs <- MCOnePtr
    Fds <- MCFewFds
    Listener = 3
    MaxEvents = 3
    PeersWait = TRUE
    FreshFds = TRUE
CHECK_DEADLOCK FALSE
PROPERTY GoneIsClosed
