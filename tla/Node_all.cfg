SPECIFICATION NodeSpec
CONSTANTS
    Parts = {"chain", "blocks", "sync", "addresses"}
    p1 = p1
    p2 = p2
    x1 = x1
    x2 = x2
    DlPeers = {p1, p2}
    DlBlocks = {gen, x1, x2}
    Origin = gen
    Height <- MCHeight
    Branch <- MCBranch
    Nobody = nobody
    NoBlock = noblock
    MaxInTransit = 2
    Window = 1
    MaxQueued = 2
    SyncPeers = {p1}
    WithBudget = TRUE
    Threshold = 2
    MaxSleeps = 1
    e1 = e1
    e2 = e2
    e3 = e3
    Addresses = {e1, e2, e3}
    Sources = {1, 2}
    NewBuckets = {1, 2}
    Positions = {1, 2}
    TriedSlots = {1, 2}
    NewBucket <- MCNewBucket
    NewPosition <- MCNewPosition
    TriedSlot <- MCTriedSlot
    Empty = empty
    Unreadable = unreadable
    MaxRefs = 2
    OlderFiles <- MCOlderFiles
    MaxCalls = 2
    gen = gen
    a1 = a1
    a2 = a2
    b1 = b1
    b2 = b2
    t1 = t1
    t2 = t2
    None = none
    Genesis = gen
    Blocks = {gen, a1, a2, b1}
    Parent <- MCParent
    Anc <- MCAnc
    Work <- MCWork
    Rank <- MCRank
    BadConnect = {a2}
    BadContext = {}
    Checkpointed = {}
    LockSensitive = {}
    Threads = {t1}
    Ops = {"invalidate", "reprocess"}
    MaxOps = 2
    MaxCrashes = 0
    ReprocessDepth = 1
INVARIANTS
    NodeTypeOK
    RequestsAgree
    TablesAgree
    DumpRestores
    ActiveChainSound
    FailureHasCause
PROPERTIES
    RequestsEnd
    SynchronisationEnds
    ChainActivationEnds
