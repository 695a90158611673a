SPECIFICATION Spec
CONSTANTS
    phone = phone
    node = node
    Mac = {phone, node}
    Node = {node}
    Gateway = phone
    Hostnamed = {phone}
    DecoNamed = {}
    Scanners = {"poller"}
    LoopScanners = {}
    MaxScans = 4
    MaxMishaps = 1
INVARIANTS
    DeparturesRecorded
    PresenceWitnessed
CHECK_DEADLOCK FALSE
VIEW NamelessView
