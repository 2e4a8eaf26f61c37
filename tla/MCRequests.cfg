SPECIFICATION FairSpec
CONSTANTS
    Vhosts <- MCVhosts
    Default = "a"
    MaxBody <- MCMaxBody
    Kinds <- MCKinds
    MaxRequests = 3
    Ahead = 1
    Outcomes <- MCOutcomes
INVARIANT InSync
INVARIANT ExecutedOnce
PROPERTY ClosedAsAsked
PROPERTY ImplementsExchanges
PROPERTY EachAnswered
CHECK_DEADLOCK FALSE
