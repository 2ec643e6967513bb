SPECIFICATION Spec
CONSTANTS
    gen = gen
    a1 = a1
    a2 = a2
    b1 = b1
    b2 = b2
    t1 = t1
    t2 = t2
    None = none
    Genesis = gen
    Blocks = {gen, a1, a2, b1}
    Parent <- MCParent
    Anc <- MCAnc
    Work <- MCWork
    Rank <- MCRank
    BadConnect = {a2}
    BadContext = {}
    Checkpointed = {}
    LockSensitive = {b1}
    Threads = {t1}
    Ops = {}
    MaxOps = 0
    MaxCrashes = 0
    ReprocessDepth = 0
INVARIANTS
    BestChainActive
