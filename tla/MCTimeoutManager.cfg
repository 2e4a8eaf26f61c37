SPECIFICATION FairSpec
CONSTANTS
    c1 = c1
    c2 = c2
    c3 = c3
    None = None
    Clients <- MCClients
    Delays <- MCDelays
    MaxTime = 3
    LongestSleep = 2
INVARIANT TypeOK
INVARIANT TimersConsistent
INVARIANT EveryConnectionTimed
INVARIANT SleepRespectsDeadlines
PROPERTY ImplementsDeadlines
PROPERTY OverdueIsHandled
PROPERTY ExpiredIsClosed
