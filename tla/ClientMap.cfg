SPECIFICATION FairSpec
CONSTANTS
    q1 = q1
    q2 = q2
    q3 = q3
    w1 = w1
    w2 = w2
    none = none
    Client = {q1, q2, q3}
    Worker = {w1, w2}
    NoWorker = none
    MaxBuilds = 3
INVARIANTS
    OneBuilder
PROPERTIES
    RequestsAnswered
    RefreshKept
CHECK_DEADLOCK FALSE
