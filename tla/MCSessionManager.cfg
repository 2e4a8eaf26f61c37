SPECIFICATION Spec
CONSTANTS
    c1 = c1
    c2 = c2
    s1 = s1
    s2 = s2
    s3 = s3
    NoSession = NoSession
    Conns <- MCConns
    Ids <- MCIds
    Timeouts <- MCTimeouts
    MaxTime = 4
INVARIANT TypeOK
INVARIANT CleanupNotLate
INVARIANT SweepIsComplete
PROPERTY UnexpiredIsKept
