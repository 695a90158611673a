SPECIFICATION FairSpec
CONSTANTS
    lists = lists
    pages = pages
    keeper = keeper
    none = none
    Caller = {lists, pages}
    Keeper = keeper
    Ops <- Calls
    NoOne = none
    RouterIsNode = TRUE
    TTL = 1
    RetryInterval = 1
    MaxClock = 1
    MaxCalls = 3
    MaxFaults = 1
INVARIANTS
    SessionsClosed
PROPERTIES
    OnlyUnlockedRob
    FailuresExplained
    ImplementsSource
    CallsEnd
CHECK_DEADLOCK FALSE
