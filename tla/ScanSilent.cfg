SPECIFICATION Spec
CONSTANTS
    phone = phone
    node = node
    Mac = {phone, node}
    Node = {node}
    Gateway = phone
    Hostnamed = {}
    DecoNamed = {phone}
    Scanners = {"poller"}
    LoopScanners = {}
    MaxScans = 3
    MaxMishaps = 0
PROPERTIES
    SilentScanKeepsDevices
CHECK_DEADLOCK FALSE
