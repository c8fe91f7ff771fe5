SPECIFICATION Spec
CONSTANTS
    a = a
    b = b
    p = p
    o = o
    t = t
    u = u
    Own = Own
    NoText = NoText
    None = None
    Iface <- MCIface
    Child <- MCChild
    Opt <- MCOpt
    Text <- MCText
    Bundles <- MCTeardownBundles
    MaxFaults = 1
    MaxPublish = 1
PROPERTIES
    ZoneOwnedRecorded
