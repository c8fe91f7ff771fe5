SPECIFICATION FairSpec
CONSTANTS
    k = k
    l = l
    app = app
    full = full
    huge = huge
    Malformed = Malformed
    Empty = Empty
    Template = Template
    NoInterfaces = NoInterfaces
    NotAMap = NotAMap
    NullDoc = NullDoc
    Rejected = Rejected
    Nil = Nil
    Absent = Absent
    None = None
    MTUMin = 2
    PortMax = 4
    Int32Max = 6
    Word32Max = 9
    Int64Max = 12
    ControllerInt = 12
    AgentInt = 6
    maxDHTValueSize = 136
    naclBoxOverhead = 4
    Identity <- MCIdentity
    NodeKey = k
    WGText <- MCWGText
    Document <- MCDocument
    Drafts <- MCDrafts
    Stunmesh <- MCStunmesh
    Size <- MCSize
    Trees <- MCTrees
CHECK_DEADLOCK FALSE
INVARIANTS
    TypeOK
    OperatorFilesKept
    OnlySavedInterfaces
    AgentAccepts
    AgentConfiguresWhatWasWritten
    SameContentIsSame
    ValueFits
PROPERTIES
    Delivered
