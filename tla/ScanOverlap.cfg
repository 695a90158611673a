SPECIFICATION Spec
CONSTANTS
    phone = phone
    node = node
    Mac = {phone, node}
    Node = {node}
    Gateway = phone
    Hostnamed = {}
    DecoNamed = {}
    Scanners = {"poller", "manual"}
    LoopScanners = {"manual"}
    MaxScans = 2
    MaxMishaps = 0
INVARIANTS
    ReferentialIntegrity
    AlertsComplete
    NewDevicesAnnounced
CHECK_DEADLOCK FALSE
VIEW NamelessView
