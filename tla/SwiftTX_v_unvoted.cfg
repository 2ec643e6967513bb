SPECIFICATION GossipSpec
CONSTANTS
  Parts = {"locks"}
  SporkNodes = {"s1", "s2"}
  Signers = {"s1", "s2"}
  NewSporkStart = 1
  RejectOldSporkKey = 2
  MaxSporkTime = 2
  MaxUpdates = 2
  MaxRestarts = 1
  hot = hot
  cold = cold
  ListNodes = {hot, cold}
  Hot = hot
  Cold = cold
  PingWindow = 1
  Expiration = 2
  Removal = 3
  MaxBroadcasts = 2
  MaxEvents = 1
  t1 = t1  t2 = t2  o1 = o1  o2 = o2  o3 = o3  n1 = n1  n2 = n2  n3 = n3
  y1 = y1  y2 = y2
  Voters = {n1, n2, n3}
  OwnVoter = n3
  Payees = {y1, y2}
  SignaturesRequired = 2
  VoteAhead = 1
  OwnAhead = 1
  VoteBack = 0
  KeepVotes = 0
  NoPayee = nopayee
  Missing = missing
  Broken = broken
  PayOps = {}
  StartHeight = 1
  MaxHeightSeen = 3
  HeardHeights = {2}
  MaxVotes = 3
  MaxPayRestarts = 1
  HashBlocks <- MCHashBlocks
  HashBranch <- MCHashBranch
  HashStart = "c1"
  AskedHeights <- MCAskedHeights
  None = None
  Txs = {t1, t2}
  Outpoints = {o1, o2, o3}
  Vin <- MCVin
  Nodes = {n1, n2, n3}
  Self = None
  Required = 2
  Ops = {"reject"}
SYMMETRY Symmetry
INVARIANT
  LocksAreComplete
CHECK_DEADLOCK FALSE
