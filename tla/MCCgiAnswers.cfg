SPECIFICATION FairSpec
CONSTANTS
    c1 = c1
    c2 = c2
    w1 = w1
    w2 = w2
    Clients <- MCClients
    Workers <- MCWorkers
    MaxWorkers = 1
    Faults <- MCExec
INVARIANT RequestHasWorker
INVARIANT EndedIsNotified
INVARIANT AnswerDependsOnScript
PROPERTY RequestAnswered
CHECK_DEADLOCK FALSE
