SPECIFICATION Spec
CONSTANTS
    c1 = c1
    c2 = c2
    w1 = w1
    w2 = w2
    Clients <- MCClients
    Workers <- MCWorkers
    MaxWorkers = 2
    Faults <- MCBadScripts
INVARIANT TypeOK
INVARIANT IndexesAgree
INVARIANT NoOrphans
INVARIANT NoEmptyAnswer
INVARIANT NoFault
CHECK_DEADLOCK FALSE
