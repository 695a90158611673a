SPECIFICATION JobsSpec
CONSTANTS
    c1 = c1
    Client = {c1}
    Capacity = 1
    MaxPublished = 3
INVARIANTS
    Gapless
    AbandonedBounded
    UsersStopFirst
    PauseQuiets
PROPERTIES
    Delivered
    ShutdownEnds
CHECK_DEADLOCK FALSE
