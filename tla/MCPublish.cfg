SPECIFICATION FairSpec
CONSTANTS
    x = x
    y = y
    A = A
    B = B
    k = k
    l = l
    NodeKey = k
    Broken = Broken
    Junk = Junk
    None = None
    First <- MCFirst
    Drafts <- MCDrafts
    Content <- MCContent
    Identity <- MCIdentity
    Proxies <- MCProxies
    ClockSteps = TRUE
    MaxEvents = 3
INVARIANTS
    TypeOK
    LatestPutIsSelected
PROPERTIES
    Delivered
    Available
CHECK_DEADLOCK FALSE
