# Lytix in TLA+

Specifications of the Lytix node (a PIVX-derived proof-of-stake full node with
masternodes, "maxnodes", SwiftTX transaction locks and zerocoin), the TLC runs
that check them and the TLAPS proofs about them. Paths are relative to
the repository's `src/`. The modules are checked with TLC on small instances and
proved with TLAPS (SMT, Zenon and LS4 back ends).

Contents: 1 the system, 2 the modules and their runs, 3 what is proved, 4 where
the code departs from what it says, 5 what is not modelled, 6 what could follow.

## 1. The system

### 1.1 Components

| component | state | operations | hard because | correct when |
|---|---|---|---|---|
| chain state (`main.cpp`, `chain.h`, `txdb.cpp`) | block index (`mapBlockIndex`, `nStatus`, `nChainTx`), `mapBlocksUnlinked`, `setBlockIndexCandidates`, `chainActive`, dirty sets, block tree database | headers and blocks arrive, `ActivateBestChain`, `InvalidateBlock`, `ReconsiderBlock`, `ReprocessBlocks`, `FlushStateToDisk`, `LoadBlockIndexDB` | threads that race for `cs_main` between the steps of an activation, data out of order, failures in the middle of a reorganisation, a flush that can be cut off anywhere | the best valid branch is active; links, candidates and failure marks are as `CheckBlockIndex` says; what is on disk can be loaded |
| coin caches (`coins.h`, `coins.cpp`, `txdb.cpp`) | entries with DIRTY and FRESH in a view over `pcoinsTip` over LevelDB | `FetchCoins`, `ModifyCoins`, `BatchWrite`, `Flush` | a wrong flag loses or resurrects a coin many steps later; writes fail, the process dies | each layer stands for one map of coins and one block |
| block connection (`main.cpp`, `undo.h`) | coins, undo records | `ConnectBlock`, `DisconnectBlock` | outputs spent within their block, transactions emptied and restored in reverse, metadata kept with the last output only | disconnecting restores what was; maturity is kept on every branch |
| script check queue (`checkqueue.h`) | queue, `nIdle`, `nTotal`, `nTodo`, `fAllOk` | `Add`, `Wait`, the workers' `Loop` | two condition variables, spurious wake-ups, interruption | the verdict is the conjunction of all checks, everybody wakes up |
| transaction locks (`swifttx.cpp`) | six maps of requests, votes, locks and locked inputs | `ProcessMessageSwiftTX`, `ProcessConsensusVote`, `CleanTransactionLocksList` | votes before requests, conflicts, expiry, maps cleaned by another thread | an input is locked only by consensus, and not for ever; a vote counts once |
| memory pool, orphans (`txmempool.cpp`, `main.cpp`) | `mapTx`, `mapNextTx`; `mapOrphanTransactions` and its index by parent | accept, remove with descendants, remove conflicts, evict | two maps that must mirror each other through reorganisations | no two pool transactions conflict; each index mirrors its map |
| block download (`main.cpp`) | `mapBlocksInFlight`, per-peer lists and counters, `nPreferredDownload` | mark in flight, mark received, time out, finalize a node | a block from another peer than the one asked, late answers | counters equal the sizes they summarise |
| masternode synchronisation (`master/node-sync.cpp`) | stage, attempts, times, fulfilled requests per peer | `Process`, `ProcessMessage`, `ClearFulfilledRequest` | timeouts that race answers, a lock that is only tried | every stage ends; a restart asks again |
| masternode list, payments, budget (`master/`), maxnodes (`max/`) | maps of nodes, broadcasts, pings, votes, finalised budgets | broadcasts, pings, votes, `CheckAndRemove`, cleaning | messages out of order and duplicated; seen-maps cleaned while others refer to them | a node's state is that of its newest message; a payee is refused only by enough votes |
| sporks (`spork.cpp`) | `mapSporks`, `mapSporksActive`, database | `ProcessSpork`, `UpdateSpork`, `LoadSporksFromDB` | replay, restart | the newest signed value wins and survives |
| scheduler (`scheduler.cpp`) | task queue, service threads, stop flags | `schedule`, `serviceQueue`, `stop` | the queue is unlocked while a task runs | stop with drain runs every task, and all threads leave |
| address manager (`addrman.cpp`, `addrman.h`, `net.cpp`) | new and tried tables, reference counts, `peers.dat` | `Add`, `Good`, `MakeTried`, `Delete`, dump and load | counts over several tables, a file that holds only a part of them | `Check_` finds nothing; a dump is read back |
| wallet (`wallet.cpp`) | `mapWallet`, `mapTxSpends`, cached balances, `wallet.dat` with a best block | signals of blocks and of the pool, `CommitTransaction`, rescan, `ReacceptWalletTransactions` | chain, pool and wallet move apart, in steps and in crashes | it offers and counts only coins that are there |
| work queue of the HTTP server (`httpserver.cpp`) | queue, worker count, running flag | `Enqueue`, `Run`, `Interrupt`, `WaitExit` | detached workers, an event thread that goes on during the shutdown | each request is answered once, the server stops |
| zerocoin (`zpivchain.cpp`, `txdb.cpp`) | `zerocoinDB`, accumulators, mint pool | spends and mints of a block, erasure at disconnection | written beside the coins and not through the view | the database is that of the active chain |
| obfuscation pool (`obfuscation.cpp`) | session, entries, state, timeouts | session messages, `CheckTimeout` | several clients and timeouts | nobody pays for a session that failed |

Pure I/O, display, cryptography, scripts and vendored libraries have no entry in
this table; `PROJECT.json` lists them with the reason they are left out.

### 1.2 How they interact

* The message thread, RPC threads, the importer and the staking miner call
  `ProcessNewBlock`. It checks the block without `cs_main`, takes `cs_main` to
  store it (`AcceptBlock`), releases it, and calls `ActivateBestChain`, which takes
  `cs_main` once per step.
* `ActivateBestChain` calls `ConnectBlock` and `DisconnectBlock` in a view over
  `pcoinsTip`. `ConnectBlock` hands its script checks to the check queue and waits
  for the verdict. The view is flushed into `pcoinsTip` as a whole, then
  `FlushStateToDisk` may write the index and `pcoinsTip`.
* SwiftTX reads and writes the memory pool, and through `CheckBlock` decides
  whether a block is valid *at the moment*; a lock that completes late calls
  `ReprocessBlocks`, which disconnects up to 16 blocks and activates again.
* Masternode lists give SwiftTX its voters and the payment votes theirs, ranked by
  the hash of a block (`GetBlockHash`); the votes give `CheckBlock` its payees.
* `ConnectTip` and `DisconnectTip` change the memory pool, then the tip, then signal
  each transaction to the wallet, whose coins depend on the chain, the pool and what
  it has been told. `UpdateTip`, between the two, may make the wallet mint.
* `ConnectBlock` and `DisconnectBlock` write and erase zerocoin records at once, beside
  the coins that wait for a flush.
* One thread (`ThreadCheckObfuScationPool`) runs both synchronisations and cleans the
  lists and locks; the scheduler dumps addresses; the shutdown dumps masternode
  payments while message threads still run.

### 1.3 The hazards

`PROJECT.json` lists them with their lines, and the properties that would be
violated. In short: `cs_main` released between steps; a verdict computed before the lock is taken; data
before headers of its ancestors; pruning of candidates that are needed later; a
flush cut off between two writes; a flush that fails in the middle of a block; a
verdict that depends on the moment recorded for good; flags of caches; undo
records that carry less than was erased; wake-ups; votes out of order; records
written beside the coins; peers that vanish with what was asked of them; stages
that wait for an answer nobody owes; files that hold a part of what they stand for;
a wallet told of a block after it was already asked what it can spend.

## 2. The modules

A component has a module of its own. Components that share no state are checked
in one TLC run by a module that sums them up: a behaviour is one of the part
chosen at the start (`part`, among `Parts`), the variables of the others keep their
initial values. `MCDaemon` has the parts of one process, `MCNode` what a node keeps
up with its peers and what its operator does to the chain, `MCGossip` what
nodes tell each other of masternodes, `MCChainState` the chain alone. Where
components do interact their module is one: `Wallet` extends `Mempool` and redoes its
actions on the chain with what the wallet is told.

A definition marked "Mutant" in a comment is a variant of the one after it
with a plausible bug; nothing uses it, and every property of a passing run is
violated when its mutant takes the place of the original. This is how we know
that the runs can fail.

| run | parts | properties | about |
|---|---|---|---|
| `Daemon_all` | checks, scheduler, http, caches, undo, zerocoin, pool, wallet | 17 | 170,000 states, 3 minutes |
| `Node_all` | chain (one thread), blocks, sync, addresses | 9 | 350,000 states, 3 minutes |
| `Gossip_any` | locks (with refused requests), sporks, payments, hashes | 5 | 1.7 million states, 2.5 minutes |
| `Gossip_fair` | locks (with local requests), list | 3, two of them under fairness | 190,000 states, 2 minutes |
| `ChainState_net` | the chain, two threads | 4 | 0.74 million states, 2 minutes |
| `ChainState_ops` | the chain, one thread, every operation and failure | 2 | 2.8 million states, 2 minutes |
| `*_v_*` | one part each | 1, violated | section 4 |

### 2.1 `CheckQueue` (`checkqueue.h`): `Daemon_all`

One action per stretch of code between two points where the mutex is released:
`Enter` (a thread enters `Loop`), `Execute` (the batch runs without the mutex),
`Finish` (the verdict is reported, the master notified), `Reacquire`, `Wake`,
`SpuriousWake`, `InterruptWorker`, and for the master `NewControl`, `Add`, `Wait`,
`InterruptMaster`. `LoopBody` is what follows every acquisition of the mutex: leave,
sleep or take a batch. `added` and `verdict` are ghosts.

Instance: two workers, four checks of which one fails, batches of at most two, one
interruption. Two workers and a master are the fewest for which one thread sleeps
while another finishes and a third takes; four checks make two batches. Fairness: a
thread that can take the mutex eventually does; `boost::condition_variable` gives no
fairness of notifications, and none is assumed: `notify_one` wakes *some* waiter.

### 2.2 `Scheduler` (`scheduler.cpp`): `Daemon_all`

One action per critical section of `serviceQueue` (`Enter`, look at the queue, wait
with or without a deadline, take a task), the task itself outside the mutex, which
may schedule itself again. `Schedule`, `Stop` with and without draining, interruption,
spurious returns, and a clock `now`. Two threads, two tasks of which one repeats,
times up to 2: two threads are needed for the wake-up that goes to the wrong one.
`ServiceIsSound`: the count of threads is exact however they left, and with one
thread, as init.cpp starts it, no task runs early. Fairness: threads and clock go on.

### 2.3 `WorkQueue` (`httpserver.cpp`): `Daemon_all`

The event thread (`ReceiveRequest`, `EventStep`), the detached workers (`WorkerStep`), and
the main thread's `InterruptHTTPServer` and `StopHTTPServer` (`SetRejectCallback`,
`Shutdown`). The queue may be used after the main thread has deleted it: `wrecked` is
set and the behaviour says nothing more. Two workers, three requests and a queue of
depth one: a request is refused, one queued and one handled at the same time.
Fairness: each of the three goes on as long as the process is not wrecked.

### 2.4 `CoinsView` and `CoinsCache` (`coins.h`, `coins.cpp`, `txdb.cpp`): `Daemon_all`

`CoinsView` is what the stack of caches promises: three maps, each with its block; a
view is committed or dropped as a whole; coins change only while a
`CCoinsModifier` exists. `CoinsCache` has the entries with their flags: `Fetched`,
`Created`, `Released`, `Merged` and `Written` are the five places where the code
decides by flags (`FetchCoins`, `ModifyCoins`, `~CCoinsModifier`, the two
`BatchWrite`s). `Implements` says that `CoinsCache` refines `CoinsView`, the maps being
what the caches answer. Two transactions that are created, changed, emptied and
created again over four blocks, flushes that fail, crashes: two transactions show
that entries do not disturb one another, four blocks let every entry take every
value from every other.

### 2.5 `BlockUndo` (`main.cpp`, `undo.h`): `Daemon_all`

`ConnectBlock` and `DisconnectBlock` as recursive functions over the block's
transactions and inputs (`Spendings`, `Connections`, `Restorings`, `Disconnections`): maturity, spending with undo records, their serialisation (height and
flags in one number), and the restoration in reverse. The blocks are built of eight
transactions: one spends an output of its own block, one two outputs of the same
transaction, one empties another; any sequence of connections and disconnections
up to height 8. The passing run has blocks that leave a coinstake's last output
alone (`StakesKept`, which TLC confirms of its constants); `BlockUndo_v_premature`
adds blocks that spend it (section 4).

### 2.6 `Zerocoin` (`main.cpp`, `zpivchain.cpp`, `txdb.cpp`, `init.cpp`): `Daemon_all`

Which serials are recorded as spent (`spends`, in zerocoinDB at once) and where the
transactions are (`txIndex`), beside the tip in memory and the one on disk. Blocks
are connected and disconnected; the process dies between or amid the writes; a start
verifies the last blocks (`VerifyDB`, whose disconnections erase records, and
whose level 4 writes them again); `verifychain`, `-reindexzerocoin`, shutdowns in
between. Seven blocks in two branches, four transactions, three serials, one of them
in both branches and one repeated in a branch. `CheckBlocks` is what the start
verifies and `RpcBlocks` what verifychain does. As in the code, whose defaults are 100
and 288, verifychain goes deeper: 1 and 3. `DeepCuts` says whether a verification may
be cut off (`CutOffDeep`) while a block that the next start does not look at is taken
off: TRUE in `Zerocoin_v_verify`, where this loses a record, and FALSE in the passing
run, in which verifychain goes as deep, is cut off elsewhere, fails or ends.
`-txindex` is on.

### 2.7 `Mempool` (`txmempool.cpp`, `main.cpp`): `Daemon_all`

`mapTx` and `mapNextTx`, the two maps of orphans, and a chain of blocks that comes and
goes. `Verdict` is `AcceptToMemoryPool` in the order of its checks, fees and policy
being a free choice; `RemoveConflicts`, `RemoveForBlock`, `RemoveCoinbaseSpends` and
`Resurrect` are the ways out. The tx message is `ReceiveTx`, then `VisitOrphan` per
orphan and `NextInQueue` per work item, then `FinishTx` (orphans are erased at the end
only). Nine transactions (a conflict, a chain of three, a bad script, a spend of a
coinbase, a zerocoin spend), five blocks in two branches, two peers, at most two
orphans. Two orphans are enough for an orphan of an orphan and for eviction. A block
that has a transaction of the chain again is not connected (BIP30). `OrphansResolved`
says of an orphan that is left that a parent is still missing; it may conflict with the
pool besides, which is what the code then refuses it for.

### 2.8 `Wallet` (`wallet.cpp`, `wallet.h`, `main.cpp`, `init.cpp`): `Daemon_all`

`mapWallet` with each transaction's block and its cached credit, `walletBest` (the
locator in wallet.dat) and `flushed` (the chain on disk), beside the chain and pool of
`Mempool`. `SyncTransaction` is what each signal does; `Depth`, `IsSpent`, `IsTrusted` and
`AvailableCoins` are computed from chain and pool as the code does. `WalletConnectTip`
and `WalletDisconnectTip` go through the pool, the flush with its locator,
`UpdateTip` with `AutoZeromint` (`AfterUpdateTip`) and the signals. `ProcessDies` leaves
what is in the files at any of these points, also when only the first signals were
written; `Restart` rescans from the locator and offers the rest to the pool in
order of hashes. A block's transactions, the blocks of a scan and the transactions
offered to the pool are gone through by recursive functions. Assumed of the constants
is what the code grants: `CreateTransaction` spends something, and no chain has a
block twice or a transaction without inputs twice. The wallet owns outputs of the coinbase, of both conflicting
transactions, one of which has a child, that comes before it by hash; one crash.
`WalletFollowsChain` and `CommitsSucceed` say that what it offers, and what a balance
that still stands has counted, is unspent and the pool takes it.

### 2.9 `ActiveChain` and `ChainState` (`main.cpp`, `txdb.cpp`, `spork.cpp`, `init.cpp`): `ChainState_net`, `ChainState_ops`, `Node_all`

The tree of blocks is a constant; which blocks arrive, when, as header or with
data, and how often is open. What `ContextualCheckBlock` and `ConnectBlock` say of a
block is a constant too (`BadContext`, `BadConnect`), except where the code makes it
depend on the moment (`conflicted`: a lock or a missing payee vote).

`op` says which thread holds `cs_main` and in the middle of what: a section is
several actions because the node may die between two writes. `pc` says where a
thread is between sections. The flush is `FlushIndexEntry`, once per dirty entry in
any order (the code's order is that of addresses), then `FlushCoins`. A crash may
come between any two actions; `Restart` is `LoadBlockIndexDB`. `tieUp` is the order
of addresses, by which equal blocks are compared when both have sequence id 0; it
changes with a restart. `Sequenced` gives ids as `ReceivedBlockTransactions` does.

`ActiveChain` is what all this promises, without index, candidates, threads or
flushes: the tip others see when they take `cs_main` (`shown`), the block of the coins
in memory and of those on disk, the blocks marked invalid, and why the chain is being
changed. Blocks of the shown chain are taken off, then blocks that are neither marked
nor on it are put on (`TakeOff`, `PutOn`), as long as the result is worth no more than
what is shown. It is shown when it is another chain worth at least as much (`Settle`),
or when the next block turns out invalid (`Refuse`). Only an operator, a lock or a
crash makes the tip worse otherwise. `ImplementsActiveChain` maps it: while
`ActivateBestChainStep` runs, `shown` is its `pindexOldTip`; a process that is down
shows what is on disk. Headers, arriving data, candidates and the entries of the
flush are not seen at all; `UpdateTip` is seen in `invalidateblock` and
`ReprocessBlocks`, where each block shows.

| run | instance | shows |
|---|---|---|
| `ChainState_net` | 5 blocks in two branches of equal work, the first of one failing, with its child waiting; 2 threads until something is done by the operator or crashes, then one at a time (`OneThing`); one crash anywhere | best branch active, candidates exact, every call finds its coins, `ActiveChain` implemented |
| `ChainState_ops` | 4 blocks, one refused by context, one that locks conflict with, a checkpoint; 2 of invalidate, reconsider, reprocess, a refused stake, a failing flush; a crash | links, what is on disk can be loaded |
| `Node_all` | 4 blocks, one failing; 2 of invalidate and reprocess | types, the active chain is sound, failure marks have a cause, activations end |
| `ChainState_v_lock` | 4 blocks, one failing, one that locks conflict with | section 4 |

Bounds: two branches with a tie at every height are the least in which a
reorganisation disconnects two blocks, fails in the middle and comes back; the
second thread is enough to take `cs_main` between any two steps of the first.
`MaxOps` and `MaxCrashes` count operator calls and crashes; `ReprocessDepth` is 1 where
the code has 15, the tree having two levels. Which operation is left out of which
run, and why, is in section 4.

Fairness: the holder of `cs_main` runs (`SectionStep`), and a thread that stays able to
take `cs_main` takes it (`ThreadStep`). Arrivals, operators, crashes and expiring
locks are never assumed to happen. Liveness is checked with one thread: with
several, the `TRY_LOCK` loop of `ActivateBestChain` may lose every race, and nothing in
the code excludes it.

### 2.10 `BlockDownload` (`main.cpp`): `Node_all`

`mapBlocksInFlight` as `holder`, each peer's list, best announced and last common block,
stalling and preference. `Announce` is an inv (or what a block tells of its sender),
`RequestBlocks` is `FindNextBlocksToDownload` and what `SendMessages` asks, `GiveUp` its
two timeouts, `ReceiveBlock` and `SubmitBlock` an arrival with any outcome,
`FinalizeNode` what a peer leaves behind. Headers-first is off in every network
of chainparams.cpp. Two peers, a chain of genesis and two blocks, two requests per
peer, a window of one: each peer can stall the other. Fairness: a stalling
or overdue peer is given up, and a peer that hung up is finalized; `Overdue` is the
clock. Nobody has to answer.

### 2.11 `NodeSync` (`master/node-sync.cpp`, `max/node-sync.cpp`): `Node_all`, `NodeSync_v_max`

`Process` with each lock it tries taken or not, `IsBlockchainSynced` with its static
memory, items that arrive, sleeps of an hour, `Reset`. Times are kept as what they are
compared with. `WithBudget` tells the two texts apart. One place for a peer, who is
asked once and replaced; threshold two. Fairness: `Process` with its locks, strong,
since the locks are only tried; time passes; a lost peer is replaced; the tip does
not stay recent for ever without moving.

### 2.12 `AddrMan` (`addrman.cpp`, `addrman.h`, `net.cpp`): `Node_all`

One action per public call, with the eviction each brings, and peers.dat:
`DumpAddresses`, `DumpWritten`, `Start` from the file, from a file of another version or
from none. Hashes are constants chosen so that three addresses want one place. The
tables after a load are made from the order of the entries, as
`Unserialize` does. The dump of `StopNode` may overlap the scheduler's, after which the
file is what one of them wrote or cannot be read. Three addresses, two sources, 2x2 new places, two tried ones, two
references at most, two calls between dumps: one address can hold several places,
lose one of them and be evicted to tried.

### 2.13 `SwiftTX` (`swifttx.cpp`): `Gossip_any`, `Gossip_fair`, `SwiftTX_v_unvoted`

The six maps as variables, one action per outcome of a handler. `Ops` says which
of the less usual things happen: votes before their request, requests that the
memory pool refuses, wallet requests that it refuses, an hour passing. Two
transactions share an input; two of three masternodes complete a lock. Heights of
votes are right or wrong; a lock without height counts -1. `Gossip_any` has refused
requests, `Gossip_fair` requests of the wallet instead, since with the former inputs
are neither locked by votes only nor released (section 4); this is why the two are
not one run. Fairness: the clock, and `CleanTransactionLocksList`, called every minute.
The system may stop (`CHECK_DEADLOCK FALSE`): when both transactions are settled
and all votes seen nothing need happen.

### 2.14 `Spork` (`spork.cpp`, `sporkdb.cpp`): `Gossip_any`

Messages with a time and one of two keys, in any order and more than once;
`ProcessSpork` in two steps, since neither map has a lock and `UpdateSpork`, from
RPC, may come between them; maps that are lost in a restart and the database that
`UpdateSpork` does not write. `SporksConverge`: with nothing under way, all nodes act on
the same value. `Ambiguous` names what the code leaves open: two messages of one
second, the race of the two functions, an old signature that only nodes that were
there took. Two nodes, both signers, two updates, one restart, three times of which
one is before the new key, one after the old is refused.

### 2.15 `MasternodeList` (`master/node.cpp`, `nodeman.cpp`, `activenode.cpp`): `Gossip_fair`

One masternode as its own daemon (`Hot`) and the wallet that starts it (`Cold`) see it:
broadcasts, pings, the maps of what was seen, `CheckAndRemove`, locks that are tried,
stops and starts, the collateral spent. Time is in units of ten minutes.
`ListsFollowMasternode`: a masternode that keeps pinging is in the lists again and
again, one whose collateral is spent leaves them for good. Two broadcasts and one
event besides are the least for a list that has removed, or never heard, what it
marked as seen. Fairness: time, cleaning, pings; broadcasts strongly, as they may be
lost and are asked for again.

### 2.16 `Payments` and `BlockHashes` (`master/node-payments.cpp`, `master/node.cpp`): `Gossip_any`, `BlockHashes_v_reorg`

Votes heard and cast, entered under the locks (`HearsVote`, `ProcessBlock`) and counted
after them (`AddPayee`), cleaned, dumped and read back. `TalliesMirrorVotes`: the two maps
agree but for votes about to be counted. `PeersPayeeAccepted`: two nodes with the same
votes, none of which is about to be counted, do not refuse each other's payees, whatever
order they came in. The height of `ProcessBlock` is remembered only once its vote
is counted, so that both threads may vote for one height (`ownHeight`). Three voters,
two payees, two signatures, three heights, three votes, one restart. `BlockHashes` is
`GetBlockHash` with its cache; six blocks in two branches.


## 3. What is proved

For every value of the constants that meets the assumptions named in the modules
(a tree of blocks with ancestors and growing work; distinct marks; positive batch
size; and so on). Each proof module has one inductive invariant, a conjunction of
named parts, and one step per action.

Chain and coins.

* `ChainStateProofs`: types; `DiskCoinsBacked` (`DiskSurvivesCrashes`); `LinkedExact`
  (`LinksCorrect`), with every operation, failure and crash. For the disk the
  invariant says that an entry that is not dirty is the same on disk as far as data
  and undo data go, that the coins in memory have them behind them, and that both
  stay: a flush then reaches `FlushCoins` only when no entry is dirty. For the links
  it says that data is linked or waits, and that genesis has its data; the
  breadth-first loop of `ReceivedBlockTransactions` is replaced by what it computes,
  and TLC checks the same operator. On top of these, each with an invariant of its
  own that is kept together with the ones before it:
  * `BlockCallsFindTheirCoins` (`CoinsMeetTheirBlock`): what each half-finished section
    means for coins and tip (`Coins`), and that the coins on disk are a block of the
    active chain or one step from it, so that `DisconnectBlocks` at a restart finds them;
  * `ActiveChainSound` (`ActiveChainCorrect`): the tip's branch and the one an activation
    is on its way to are unmarked, unless an invalidation is taking it back (`Marks`);
  * `FailureHasCause` (`MarksHaveCause`): each mark has an ancestor found or declared
    invalid (`CauseKept`);
  * `BestChainActive` (`BestChainActivated`) and `CandidatesExact` (`CandidatesCorrect`).
    The heart of it is `CandidateLeft`: some candidate can be connected to its end, and
    is better than every unmarked block that was pruned. Pruning throws away blocks
    worse than the tip, and a tip reached half-way may lie on a branch that fails
    later; there is then always this candidate to come back to. `Activity` adds that
    as long as the tip is not the end of the best branch, a thread holds or will take
    `cs_main` to go on, with the target that `FindMostWorkChain` chose;
  * `ImplementsActiveChain` (`ChainMovesForward`), one lemma for each group of steps
    that map to the same ones. It needs `Coins` and `Walk`: no candidate has less work
    than the tip (`Ahead`), so that a target is worth at least what it replaces; the
    coins of a step are on the old branch or on the target's, above the fork, and
    nothing on the way there is marked (`Way`), so that no block is put on that was just
    taken off; and nothing but `ReprocessBlocks` has blocks left to take off (`Budget`).

  The theorems assume of `Ops` what the code needs: no failing write (`WritesSucceed`,
  without which the coins move and the tip stays, until an assertion stops the node):
  `CoinsMeetTheirBlock` and `ChainMovesForward` need nothing else. `ActiveChainCorrect`
  needs no crash after an invalidation (`NoCrashAfterInvalidate`); `MarksHaveCause` no
  crash at all and no reconsideration (`NothingReconsidered`); `BestChainActivated` and
  `CandidatesCorrect` no crash after an invalidation, no reconsideration and no verdict
  that depends on the moment (`NoLockConflicts`). Section 4 has the behaviour that each
  of them leaves out.
* `CoinsProofs`, the caches: types, `BatchWrite`'s assertion, `DiskRepresentsItsBlock`, and
  that `CoinsCache` implements `CoinsView` (`CachesImplementViews`). The invariant says
  what each flag means: not DIRTY, the entry is the parent's; FRESH, the parent has
  nothing unspent; not FRESH, the parent holds an entry. The last clause is not
  obvious and is what makes the assertion hold: everything the view got from
  `pcoinsTip` is still there, even after a flush, because a flush never happens
  while there is a view.
* `CoinsProofs`, the undo data: `CoinsMatchChain` (`CoinsAlwaysMatchChain`) and
  `MaturityKept` (`MaturityAlwaysKept`), for any transactions, blocks, maturity and
  height. The chain alone determines the coins (`Determined`: the last place where a
  transaction is, less what is spent after it). The invariant says that the coins are
  those (`Matches`), and of each block of the chain and its undo record that on any
  view that matches the chain up to that block, `DisconnectBlock` is clean and leads
  to a view that matches the chain without it (`Revertible`): this makes it hold of the
  next block when the tip is taken off. To connect a block, each transaction is shown to
  keep the view determined by the chain so far; that its undo record brings the view
  back is shown from the last transaction and its last input to the first, a `Restore`
  against the `Spend` it undoes. Back is meant up to `Same`, by which an entry
  without outputs is as good as none: `DisconnectBlock` leaves such entries. Both
  theorems assume `StakesKept`: a restored entry is equal to the one that was there only
  if its `fCoinStake` was not lost, and `BlockUndo_v_premature` (section 4) has what
  happens otherwise.
* `DaemonProofs`, zerocoin. A block is refused, or fails a verification, only if it
  repeats a serial or a transaction of its own branch (`NoneRefusedForOldRecords`, for
  any depths and without hypothesis). The transaction index knows what the chain has
  (`AllIndexed`), every record belongs to a transaction of some block (`Genuine`), and
  of the blocks that a verification has taken off no record is left (`TakenOff`): a
  record that meets a block put on again is another transaction's, and the serial is
  repeated.
  Every spend of the active chain is recorded (`SerialsKnown`), for any depths, in
  every behaviour without a `CutOffDeep` step. `VerifyDB` erases the
  records of the blocks it takes off and writes them again: the invariant (`Records`)
  has all records of the blocks that are not taken off, except those within
  `CheckBlocks` of the tip while the next start has yet to verify them; a start
  brings back what was lost as long as it lies within `CheckBlocks`, and what lies
  deeper was kept (`KeptDeeper`). What a `CutOffDeep` step does is in section 4.

Pool and orphans.

* `MempoolProofs`: types, `PoolSound` (`PoolAlwaysSound`), `OrphansResolved`
  (`OrphansAlwaysResolved`), for any transactions, blocks, policy and limits. That the
  pool is sound is not inductive: connecting a block needs that no pool transaction
  is in the chain or spends what the chain has spent (`Clear`), since a block makes
  outputs that must not be spent already, and disconnecting needs that a
  resurrected transaction is not there twice. `Backed` (what is spent is in the pool or
  is a ripe coin) fails in the middle of a disconnection, and is restored by
  `RemoveCoinbaseSpends` at its end; the lemmas say for each of the loops what it
  keeps and what it completes. For the orphans, between two steps of the loop of the
  tx message each orphan with an accepted parent is done with, or is one that the
  loop has still to come to (`Reached`). Loops are recursive functions on `0..n`; the
  lemmas on them are in `StepLemmas`: they exist (`FoldExists`), and what each step keeps
  holds at the end (`StepByStep`), both shown by the least number at which it would fail.
* `MempoolProofs`, the wallet: types, `WalletFollowsChain` (`WalletAlwaysFollows`) and
  `CommitsSucceed` (`CommitsAlwaysSucceed`), on top of the pool's invariant. While the
  process runs the wallet *follows* the chain and the pool (`Follows`): it has what
  is its own of them, no standing credit counts an output that they spend, and each
  transaction of the chain has its block's hash. A signal keeps that for one
  transaction more; between the pool, the chain and the signals of one call it holds for
  a growing set only, and `Placed` speaks of the chain whose blocks were told already.
  That later blocks do not take a transaction's hash away needs that no transaction
  is in the chain twice (`SoundChain`), which BIP30 gives because the outputs of the
  earlier one could only be gone by a spend that is in the chain itself
  (`NewInBlock`). When the process is dead the wallet follows the chain on disk up to
  where the scan will start (`WalletStopped`), which needs that it has been told the
  blocks of the locator (`Remembers`). These two theorems assume `MaxReloads <= 1`:
  the process dies at most once. With two deaths the property is false (section 4).
  However often it dies, the types (`WalletTypeCorrect`) and the pool beside the wallet
  (`PoolSoundWithWallet`) hold. They rest on a weaker invariant, `WalletKept`: the chain
  is sound, the pool too, the flushed chain is a beginning of the chain, and each entry
  of the wallet is sound by itself, whatever chain it was told of; what a restart puts
  back into the pool (`ReacceptKnown`) passes the pool's checks all the same.

Node and network.

* `NodeProofs`, the address manager: types, `TablesAgree` (`TablesAlwaysAgree`),
  `DumpRestores` (`DumpAlwaysRestores`), for any addresses, sources, hashes, table and
  bucket sizes. The helpers of `CAddrMan` break the agreement and repair it within a call; `Whole(t, X)`
  is what each of them keeps, where the entries of `X` are on their way between the
  tables and counted in neither, and `Loose(t)` are the entries without a place, of which
  a call leaves none. A dump is read back because the order of its entries gives each
  of them a free place (the collision that `Unserialize` may meet drops a
  reference and never an entry).
* `NodeProofs`, block download: types, and `RequestsAgree` (`RequestsAlwaysAgree`), for any
  peers, blocks, tree, window and limit. The agreement of `mapBlocksInFlight` with the
  lists is nearly inductive; the work is in the two loops. What
  `FindNextBlocksToDownload` finds names only peers that are there, and is no more than
  the peer may still be asked (`Finds`, kept by each round); a block that is asked for
  leaves the list it was in, if any, before it enters another (`InFlightKeeps`), and no
  list holds a block twice, so that erasing one entry erases the block.
* `NodeProofs`, masternode synchronisation: types (`SyncTypeCorrect`). A stage counts the
  peers it asked against a threshold, and stops at three times that number: this is
  how the counts stay bounded, with any peers and both synchronisations.
* `GossipProofs`, what nodes tell each other:
  * transaction locks: types, `OneVoteEach` (`VotesCountOnce`), for any number of
    masternodes and any threshold. `mapTxLockVote` alone keeps a vote out of a second
    time, and cleaning forgets votes: the invariant adds that a vote in a lock is
    always remembered there, and the proof shows that `CleanTransactionLocksList`
    forgets only votes of locks it erases. `LocksAreComplete`
    (`InputsLockedByConsensus`) assumes that the pool refuses no request, which is
    what section 4 has against it otherwise;
  * sporks: types, `SporksConverge` (`SporksAgree`) for any number of nodes, values and
    messages. Convergence is about the end; the invariant says what holds on the way:
    what one node has in force, every other has as new or newer, or it is in flight
    to it, asked for by it, or checked and about to be entered there. The parts that
    say so are guarded by `raced`, the ghost of the race between `ProcessSpork` and
    `UpdateSpork`;
  * payees: types, `TalliesMirrorVotes` (`TalliesFollowVotes`), `PeersPayeeAccepted`
    (`PayeeAgreed`): for each height and payee, votes are those counted plus those a
    thread is about to count. Assumed is that no vote is being counted while the
    shutdown writes the file (`DumpsAlone`, section 4); the types
    (`PaymentsTypeCorrect`) hold without it;
  * masternode lists and block hashes: types (`ListTypeCorrect`, `HashTypeCorrect`).
    A node stores only what was broadcast, and every ping it stores is younger than
    what removes an entry (`PingWindow < Removal`), where its age is no longer counted.

Threads and queues.

* `ServiceProofs`, for any threads, tasks, requests and sizes:
  * script checks: types (`ChecksTypeCorrect`), the control object's assertion, the
    verdict, `nTodo` (`TodoCountsPending`, which no run repeats). The invariant `QInv`
    ties `nTodo` to the cardinality of the queue and of the batches in hand, `nTotal` and
    `nIdle` to the threads in `Loop` and asleep, and `fAllOk` with the `fOk` of threads that
    have not reported to the checks that are done. None of the properties is
    inductive alone: the verdict needs that `nTodo = 0` leaves no batch unreported,
    and that needs the counts;
  * the HTTP work queue: types, and that each request is answered once
    (`AnsweredOnce`). A request is in one place only (the callback, the queue or a
    worker's hands), it is there as long as it is not answered, and the stages of the
    shutdown say who may still hold one: `numThreads` counts the workers that serve, so
    that after `WaitExit` none does;
  * the scheduler: types, and `ServiceIsSound`: the thread count is that of the threads
    in `serviceQueue`, and a lone thread that waits with a deadline waits for the
    time of the queue's head, which is why it never runs a task early. With two
    threads that fails, and `OnTime` is stated for one.

The parts together.

The three compositions interleave parts that share no variable. `NodePartsAlone`,
`PartsAlone` and `DaemonPartsAlone` say that each behaviour of a composition is one of
each part (of `DaemonProofs`: of all but the pool, which runs either alone or with the
wallet), so that every theorem above holds in the composition too. From these and
the theorems on types follow `NodeTypeOK` (`NodeTypeCorrect`) and `GossipTypeOK`
(`GossipTypeCorrect`) and `DaemonTypeOK` (`DaemonTypeCorrect`), all without hypothesis.
For the pool of the daemon, which is that of one module or of two, `DaemonPool` has the
invariant `PoolPartInv`: `WalletKept` and no orphans with the wallet, the pool's own
invariant without. `NodeSound`, `GossipSound` and `DaemonSound` state the safety
invariants that need no hypothesis of the compositions themselves, the last one with
the refinement `Implements`, and `DaemonWallet` the two of the wallet, with
`MaxReloads <= 1`. Those with other hypotheses (`StakesKept`, `WritesSucceed`,
`DumpsAlone` and the like) carry over in the same way, and are stated of their part only.

Only model-checked:

* everything temporal other than safety: liveness under fairness and `ENABLED` are
  out of the prover's reach;
* the wallet after a second crash, where `WalletFollowsChain` is false in general
  (section 4), and the invariants of the violated runs, which do not hold.

## 4. Where the code departs from what it says

Six runs show a statement of the repository violated; `PROJECT.json` quotes it.

* `ChainState_v_lock`: `ConnectBlock` repeats `CheckBlock`, whose verdict depends on
  transaction locks and payee votes of the moment, and records it as
  `BLOCK_FAILED_VALID`. `setBlockIndexCandidates` was pruned of what was worse than
  the old tip, so that the node stays at the fork although a valid branch has more
  work.
* `BlockUndo_v_premature`: undo records do not carry `fCoinStake`, so that a
  coinstake whose last output was spent comes back as an ordinary transaction, and
  its outputs may be spent before they mature.
* `SwiftTX_v_unvoted`: a request that the memory pool refuses locks its inputs
  without a vote.
* `Zerocoin_v_verify`: `verifychain` disconnects up to 288 blocks in a view, and with
  them erases zerocoin records that are no part of the view. If the process dies before
  it writes them again, the next start verifies 100 blocks (500 according to the
  help, init.cpp:380), and older spends remain unrecorded.
* `NodeSync_v_max`: the synchronisation of maxnodes still has a budget stage but not
  what ends it (max/node-sync.cpp:109): it never reports itself finished.
* `BlockHashes_v_reorg`: `GetBlockHash` keeps a hash per height and forgets none, so
  that after a reorganisation two nodes compute ranks from different blocks.

Others are behaviours of the modules that no run checks. Each is reached by
the named setting, and is the reason why a passing run leaves that setting out of
the property's run:

| setting | behaviour |
|---|---|
| `ChainState`, `reconsider` after `invalidate` | `ReconsiderBlock` (main.cpp:3677) clears the marks of ancestors but not of their other descendants: a block stays `FAILED_CHILD` with no invalid ancestor, against `CheckBlockIndex` (main.cpp:5212). Nor does it put the ancestors back among the candidates: if the reconsidered block is then refused, the node may stay on a branch with less work |
| `crash` after a failed block | a `FAILED_CHILD` may reach the disk before the `FAILED_VALID` it comes from, so that after the restart `CheckBlockIndex` (main.cpp:5212) finds a mark without a cause |
| `invalidate` with `crash` | the index entry, marked invalid, is written before the coins are back: at the restart no candidate is left and `PruneBlockIndexCandidates` asserts (main.cpp:3475) |
| `crash` during a flush | entries are written one by one (txdb.cpp:83): a child may be on disk without its parent, and becomes a second root (action `RestartDangling`; main.cpp:4769 against 5171) |
| `reprocess` with locks | `DisconnectBlocksAndReprocess` (main.cpp:3330) puts no branch back among the candidates; if a disconnected block is then refused, a better branch stays inactive |
| `flush failure` | `ConnectTip` flushes its view, `FlushStateToDisk` fails and the tip does not move (main.cpp:3283): until the shutdown takes place the next block meets the assertion of `ConnectBlock` |
| `CoinsCache`, `FlushTipFails` then `FlushTip` | `CCoinsViewDB::BatchWrite` (txdb.cpp:57) empties the cache before the write fails; the flush of the shutdown (init.cpp:244) writes the best block without its coins |
| `SwiftTX`, `reject` with `expire` | inputs of a rejected request are never unlocked (swifttx.cpp:447) |
| `reject` with `early` | `mapTxLockReq[...]` makes an empty transaction (swifttx.cpp:365), so that two conflicting complete locks stay side by side, against swifttx.h:50 |
| `expire` with a conflict | cleaning erases an input that is locked for another transaction (swifttx.cpp:450) |
| `Payments`, `overlap` | `AddPayee` runs outside the locks (node-payments.cpp:524) and the dump of the shutdown (init.cpp:222) serialises without them: a vote is saved without its tally and never counted. In between, a peer's payee may be refused although it has the votes, since the tally lacks one |
| `Wallet`, `AutoMint` with `CommitsSucceed` stated at every step | `UpdateTip` calls `AutoZeromint` (main.cpp:3162) before the wallet has been told of the block: an output that a transaction of the block spends looks unspent, and the mint is refused by the pool, against "This must not fail" in `CommitTransaction`. The property is stated between calls |
| `Wallet`, `MaxReloads = 2`, two blocks of one height with a common transaction | the transaction's first block is connected and disconnected, which leaves it in the locator (main.cpp:3216); its rival is connected and the process dies when the wallet has been told and the coins are not flushed. The restart scans nothing, the first block is connected again and flushed without a new locator (main.cpp:3136, when the cache is full), and the process dies before the wallet is told. The next scan starts after that block, since the old locator has it (init.cpp:1702): the transaction keeps the rival's hash, its depth is -1, and the coins it spent are offered |
| `Spork`, `raced` | `UpdateSpork` between the two steps of `ProcessSpork` may leave an older spork in force on one node; two sporks signed in the same second are kept in the order of arrival |
| `BlockDownload` | `FinalizeNode` leaves the peer's blocks in `nQueuedValidatedHeaders` (main.cpp:378-395), against `QueuedCountExact`, which no run checks; a block known as a header is "already processed" when it arrives (main.cpp:6419) and stays in flight |
| `WorkQueue` | the queue is deleted while the event thread may still enqueue (httpserver.cpp:105; `DeletedUnused`, which no run checks) |
| `Zerocoin`, `DeepCuts` | the run `Zerocoin_v_verify` |

Further remarks, made while the modules were written:

* `NotifyTransactionLock` (swifttx.cpp:97) is called only when the count *equals* the
  required number, so that a request that comes after more votes than that is locked
  without notice, against doc/swifttx.md:9; notices are outputs and have no variable.
* Wallet. `ReacceptWalletTransactions` goes in order of hashes, so that a child may come
  before its parent, is refused and its inputs then count as unspent. What leaves the pool by
  `removeCoinbaseSpends`, locks or a failed block is not told to the wallet, whose
  cached credits stay too low. `GetAvailableCredit` looks at maturity for coinbases only.
* Payments. `CanVote` remembers the last height in memory only, and before the vote is
  known to be well signed; a vote for height 0 without a payee is entered where
  nobody is found; a vote whose turn comes while `cs_main` is taken is dropped.
* Budgets. Every maker of blocks pays by `FillMaxBlockPayee` (wallet.cpp:3159,
  miner.cpp:449), whose budget branch is commented out (max/node-payments.cpp:280-284),
  so that a winning budget is not paid, against doc/masternode-budget.md:13.
  `IsPaidAlready` records what it sees while `CheckBlock` runs, which main.h:486
  calls independent of context.
* Addresses. `DumpAddresses` opens peers.dat itself (net.cpp:1992; the temporary name is
  unused), so that a crash during a dump loses all addresses. The same when
  the dump of `StopNode` overlaps the scheduler's (init.cpp:217): both write to one file.
* Masternodes. A broadcast is marked as seen before it is checked (nodeman.cpp:741);
  `CheckInputsAndAdd` removes the old entry before it tries the lock that may be taken;
  an entry that is `PRE_ENABLED` refuses pings (node.cpp:784); nodeman.cpp:321-323 uses an iterator
  after it was erased.
* Synchronisation. `masternodeSync` and `maxnodeSync` share the marks "getspork" and
  "busync" of a peer, so that one is not asked for the other.
* Pool. `removeCoinbaseSpends` drops every zerocoin spend at each disconnection, and
  `check()` would assert on one under -checkmempool.

## 5. What is not modelled, and why

* Consensus rules proper (scripts, amounts, kernels, difficulty): verdicts are
  constants. Fees, priorities and policy: free choices.
* Block files and their positions, `-reindex` with block files, file-size limits.
* `mapBlockSource`, bans, the graphical interface: outputs. Sockets and buffers: I/O.
* Data races. `ThreadCheckObfuScationPool` cleans the SwiftTX maps without the locks
  the message thread holds; each handler is atomic in `SwiftTX`. `BlockHashes` takes
  no lock either and is atomic in its module.
* `CheckBlockIndex` as an action: its assertions are the properties.
* Zerocoin: mints (kept in the same database, at the same moments), accumulators, the pool's lookups,
  the cache limit of `VerifyDB`, a crash inside -reindexzerocoin.
* Wallet: keys and their import (which rescans blocks, not the pool), amounts, locked
  coins, the depth that SwiftTX adds, the zerocoin wallet, resending.
* Masternodes: dsee and dseep, dseg for the whole list, checks of ports and protocol;
  at one time only the last ping is under way. The scores that make ranks are left
  open in `Payments`.
* Budgets: proposals, finalised budgets and their votes. The block makers do not
  pay them (section 4), so that the part that matters to the chain does not happen.
* The obfuscation session: most of it is the choice of inputs and denominations.
* The handshake of getblocks (`fSyncStarted`): a silent peer that was asked for it is
  never timed out (main.cpp:6910).
* Everything in section 1 without a module in section 2.

## 6. What could follow

1. The budget: proposals and finalised budgets with their orphan votes (one is kept per
   proposal), `ClearSeen` before `Sync`.
2. The obfuscation session, with clients that leave and each of its timeouts.
3. What holds of the wallet after any number of crashes: that it agrees with the chain
   from where the last locator was written on.
