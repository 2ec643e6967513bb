SPECIFICATION Spec
CONSTANTS
    gen = gen
    a1 = a1
    a2 = a2
    b1 = b1
    b2 = b2
    t1 = t1
    t2 = t2
    None = none
    Genesis = gen
    Blocks = {gen, a1, a2, b1, b2}
    Parent <- MCParent
    Anc <- MCAnc
    Work <- MCWork
    Rank <- MCRank
    BadConnect = {a1}
    BadContext = {}
    Checkpointed = {}
    LockSensitive = {}
    Threads = {t1, t2}
    Ops = {"crash"}
    MaxOps = 0
    MaxCrashes = 1
    ReprocessDepth = 0
SYMMETRY Symmetry
CONSTRAINT OneThing
PROPERTIES
    ImplementsActiveChain
INVARIANTS
    BestChainActive
    CandidatesExact
    BlockCallsFindTheirCoins
