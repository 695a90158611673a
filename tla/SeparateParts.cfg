SPECIFICATION PartsSpec
CONSTANTS
    a1 = a1
    a2 = a2
    none = none
    r1 = r1
    r2 = r2
    c1 = c1
    d1 = d1
    e1 = e1
    e2 = e2
    s1 = s1
    t1 = t1
    Account = {a1, a2}
    None = none
    Call = {r1, r2}
    Environment <- Variables
    MaxControllers = 2
    MaxSaves = 2
    Code = {c1}
    Device = {d1}
    Endpoint = {e1, e2}
    Request = {r1, r2}
    MaxStarts = 2
    Configured = {s1}
    Stray = {t1}
    Place <- PortOrder
    Observer = {"task", "page"}
    Sampler = "task"
    RowsKept = 3
    MaxChanges = 2
    Asked <- Gains
    TTL = 2
    TopologyTTL = 2
    ViewTTL = 2
    Slow = 1
    MaxFaults = 3
    Last = 18
    Length <- Lengths
    Alters <- Columns
    MaxCrashes = 3
    Event = {e1}
    Days = 2
    Day = 3
    CleanupHour = 1
    MaxNow = 14
    MaxMissed = 1
INVARIANTS
    RecordTruthful
    FailureExplained
    AlertConsistent
    AgeBounded
    AccountAsGiven
    CodesExchangedOnce
    CompletedOnce
    ChainUnbroken
    AnswersRecent
    AgesStack
PROPERTIES
    KeptAtLeast
    CommandsForConfigured
    ChosenNamesKept
    ManualLinksKept
    MonitorSettles
    BoosterRecovers
CHECK_DEADLOCK FALSE
