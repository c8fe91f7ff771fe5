SPECIFICATION Spec
CONSTANTS
    x = x
    y = y
    A = A
    B = B
    k = k
    l = l
    NodeKey = k
    Broken = Broken
    Junk = Junk
    None = None
    First <- MCFirst
    Drafts <- MCDrafts
    Content <- MCContent
    Identity <- MCIdentity
    Proxies <- MCProxies
    ClockSteps = FALSE
    MaxEvents = 3
INVARIANTS
    RePutIsSelected
CHECK_DEADLOCK FALSE
