SPECIFICATION FairSpec
CONSTANTS
    d = d
    o = o
    w = w
    t = t
    u = u
    NoWg = NoWg
    NoText = NoText
    None = None
    Daemon <- MCDaemon
    Oneshot <- MCOneshot
    Bundles <- MCBundles
    FullApply = TRUE
    MaxFaults = 2
    MaxPublish = 2
INVARIANTS
    TypeOK
    AtMostOneApp
    AppOnlyWhenRecorded
    
PROPERTIES
    EmbeddedFollows
    ImplementsAppliedBundle
