SPECIFICATION FairSpec
CONSTANTS
    a = a
    b = b
    p = p
    o = o
    t = t
    u = u
    Own = Own
    NoText = NoText
    None = None
    Iface <- MCIface
    Child <- MCChild
    Opt <- MCOpt
    Text <- MCText
    Bundles <- MCBundles
    MaxFaults = 2
    MaxPublish = 2
INVARIANTS
    TypeOK
    NoDuplicateEntries
    OperatorZoneUntouched
    NothingLeftStaged
    ForwardingsShareZoneLifecycle
    RecordedOnlyWhenRealised
PROPERTIES
    ImplementsAppliedBundle
    Converges
