SPECIFICATION Spec
CONSTANTS
    gen = gen
    a1 = a1
    a2 = a2
    b1 = b1
    b2 = b2
    t1 = t1
    t2 = t2
    None = none
    Genesis = gen
    Blocks = {gen, a1, a2, b1}
    Parent <- MCParent
    Anc <- MCAnc
    Work <- MCWork
    Rank <- MCRank
    BadConnect = {}
    BadContext = {b1}
    Checkpointed = {a1}
    LockSensitive = {a2}
    Threads = {t1}
    Ops = {"invalidate", "reconsider", "reprocess", "flush failure", "stake", "crash"}
    MaxOps = 2
    MaxCrashes = 1
    ReprocessDepth = 1
INVARIANTS
    LinkedExact
    DiskCoinsBacked
