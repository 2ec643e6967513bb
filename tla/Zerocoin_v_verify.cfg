SPECIFICATION DaemonSpec
CONSTANTS
    Parts = {"zerocoin"}
    Master = "master"
    Workers = {"w1", "w2"}
    Checks = {"c1", "c2", "c3", "c4"}
    Bad = {"c4"}
    BatchSize = 2
    MaxInterrupts = 1
    SchThreads = {"s1", "s2"}
    SchTasks = {"k1", "k2"}
    Repeating = {"k2"}
    MaxTime = 2
    HttpWorkers = {"w1", "w2"}
    Requests = {"r1", "r2", "r3"}
    MaxDepth = 1
    Txids = {"t1", "t2"}
    Coins = {"c1", "c2"}
    Pruned = "pruned"
    Missing = "missing"
    NoTx = "notx"
    Hashes = {"h0", "h1", "h2", "h3"}
    NoHash = "nohash"
    After <- MCAfter
    Txs <- MCTxs
    Kind <- MCKind
    Vin <- MCVin
    Vout <- MCVout
    Unspendable <- MCUnspendable
    Blocks <- MCBlocks
    Maturity = 2
    MaxHeight = 6
    StakeSpentWhole = FALSE
    PoolTxs <- MCPoolTxs
    Spends <- MCSpends
    Makes <- MCMakes
    Minted = {"cb0", "cb1"}
    ZSpends = {"z"}
    BadScript = {"e"}
    Fussy = {"a"}
    PoolBlocks = {"g", "e1", "x2", "x3", "y2"}
    Contents <- MCContents
    BlockBefore <- MCBefore
    FirstBlock = "g"
    CoinMaturity = 2
    PoolPeers = {"q1", "q2"}
    MaxOrphans = 2
    NoTransaction = "nobody"
    Mine <- MCMine
    PayTxs = {"a", "b", "c"}
    TxOrder <- MCTxOrder
    AutoMint = TRUE
    MaxReloads = 1
    ZcBlocks <- MCZcBlocks
    ZcGenesis = "g"
    ZcBranch <- MCZcBranch
    ZcTxs = {"z1", "z2", "z3", "z4"}
    Serials = {"s1", "s2", "s3"}
    Reveals <- MCReveals
    NotRecorded = "nothing"
    CheckBlocks = 1
    RpcBlocks = 3
    DeepCuts = TRUE
INVARIANT
    SpendsKnown
