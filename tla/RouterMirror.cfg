SPECIFICATION FairSpec
CONSTANTS
    m1 = m1
    m2 = m2
    i1 = i1
    i2 = i2
    none = none
    nothing = nothing
    Mac = {m1, m2}
    Master = m1
    Default = i1
    Ip = {i1, i2}
    None = none
    Nothing = nothing
    MaxChanges = 1
    MaxTurns = 2
PROPERTIES
    ReservationsMirrored
    EndpointFollows
CHECK_DEADLOCK FALSE
