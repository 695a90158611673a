SPECIFICATION FairSpec
CONSTANTS
    record = record
    snapshot = snapshot
    scan = scan
    route = route
    NoCaller = nocaller
    Statements <- StatementCount
    Caller = {record, snapshot, scan, route}
    Locking = {record, snapshot}
    MaxErrors = 1
INVARIANTS
    Durable
    NothingStranded
PROPERTIES
    CallsEnd
CHECK_DEADLOCK FALSE
