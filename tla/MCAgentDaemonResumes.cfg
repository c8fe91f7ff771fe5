SPECIFICATION FairSpec
CONSTANTS
    d = d
    o = o
    w = w
    t = t
    u = u
    NoWg = NoWg
    NoText = NoText
    None = None
    Daemon <- MCDaemon
    Oneshot <- MCOneshot
    Bundles <- MCOneBundle
    FullApply = FALSE
    MaxFaults = 1
    MaxPublish = 1
PROPERTIES
    EmbeddedResumes
