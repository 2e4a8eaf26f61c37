SPECIFICATION Spec
CONSTANTS
    SizeMax = 65535
    IntMax = 32767
    Lexicon <- MCLexicon
    Files <- MCFiles
    Fds <- MCFds
    Headers <- MCHeaders
    CgiMinWorkers = 16
    CgiMaxWorkers = 256
    EventsMax = 60000
INVARIANT NeverMisread
INVARIANT NoScriptAsIndex
INVARIANT AllOrNothing
INVARIANT VhostsReachable
CHECK_DEADLOCK FALSE
