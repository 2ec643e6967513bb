------------------------------ MODULE Mempool ------------------------------
(***************************************************************************)
(* The memory pool (txmempool.cpp), the transactions that wait for their   *)
(* parents, and what changes them in main.cpp: AcceptToMemoryPool, the "tx"*)
(* message, a block that is connected or disconnected, and a transaction   *)
(* lock.  cs_main is held in each; the loop over the orphans in the "tx"   *)
(* message is taken step by step.                                          *)
(*                                                                         *)
(* What fees, standardness and the free limit make of a transaction is left*)
(* open (`policy').  The coins are those of the chain of blocks.           *)
(***************************************************************************)
EXTENDS Integers, Sequences, SequencesExt, FiniteSets

CONSTANTS
    PoolTxs,      \* transactions
    Spends,       \* the outpoints <<tx, n>> each one spends
    Makes,        \* the outpoints each one creates
    Minted,       \* coinbases and coinstakes: only in blocks
    ZSpends,      \* zerocoin spends: they have no prevout
    BadScript,    \* CheckInputs finds an invalid script
    Fussy,        \* policy may refuse these
    PoolBlocks, Contents, BlockBefore,   \* blocks, their transactions, parents
    FirstBlock,
    CoinMaturity, \* COINBASE_MATURITY
    PoolPeers, MaxOrphans, NoTransaction

ASSUME PoolLimits == CoinMaturity \in Nat /\ MaxOrphans \in Nat
ASSUME PoolNobody == NoTransaction \notin PoolTxs /\ NoTransaction \notin PoolPeers
\* CheckTransaction: an ordinary transaction spends something.
ASSUME PoolTransactions ==
    /\ IsFiniteSet(PoolTxs) /\ Minted \subseteq PoolTxs
    /\ \A t \in PoolTxs : /\ \A o \in Makes[t] : o[1] = t
                         /\ Spends[t] \subseteq UNION {Makes[u] : u \in PoolTxs}
                         /\ (t \in ZSpends => Spends[t] = {})
                         /\ (t \notin ZSpends \cup Minted => Spends[t] # {})
ASSUME PoolChain ==
    /\ \A b \in PoolBlocks : Contents[b] \in Seq(PoolTxs)
    /\ FirstBlock \in PoolBlocks
    /\ \A i \in DOMAIN Contents[FirstBlock] : Spends[Contents[FirstBlock][i]] = {}

VARIABLES
    chain,        \* the blocks of chainActive, in order
    pool,         \* mapTx
    nextTx,       \* mapNextTx: who spends an outpoint, in the pool
    orphan,       \* mapOrphanTransactions: whom an orphan came from
    byPrev,       \* mapOrphanTransactionsByPrev
    work          \* the loop of the "tx" message

poolVars == <<chain, pool, nextTx, orphan, byPrev, work>>

Outpoints == UNION {Makes[t] : t \in PoolTxs}
Idle == [busy |-> FALSE, queue |-> <<>>, visiting |-> {}, accepted |-> {},
         erase |-> {}, bad |-> {}]

MempoolInit ==
    /\ chain = <<FirstBlock>>
    /\ pool = {} /\ nextTx = [o \in Outpoints |-> NoTransaction]
    /\ orphan = [t \in PoolTxs |-> NoTransaction]
    /\ byPrev = [t \in PoolTxs |-> {}]
    /\ work = Idle

-----------------------------------------------------------------------------
(* Coins.  c is the height an outpoint of the chain was created at.        *)

CreatedAt(blocks, o) == {h \in DOMAIN blocks : Contains(Contents[blocks[h]], o[1])}
Spent(blocks, o) ==
    \E h \in DOMAIN blocks : \E i \in DOMAIN Contents[blocks[h]] :
        o \in Spends[Contents[blocks[h]][i]]
Available(blocks, o) == CreatedAt(blocks, o) # {} /\ ~Spent(blocks, o)
Mature(blocks, o) ==
    o[1] \notin Minted \/
    \A h \in CreatedAt(blocks, o) : Len(blocks) + 1 - h >= CoinMaturity

\* p has the fields pool and next.  HaveCoins and HaveInputs of the view of the
\* pool over the coins.
HaveCoins(blocks, p, t) ==
    t \in p.pool \/ \E o \in Makes[t] : Available(blocks, o)
HaveInputs(blocks, p, t) ==
    \A o \in Spends[t] : o[1] \in p.pool \/ Available(blocks, o)

AddUnchecked(p, t) ==
    [pool |-> p.pool \cup {t},
     next |-> [o \in Outpoints |-> IF t \notin ZSpends /\ o \in Spends[t]
                                   THEN t ELSE p.next[o]]]

\* AcceptToMemoryPool: what becomes of t.  "missing" sets pfMissingInputs,
\* "invalid" is a reason to punish the peer.
Verdict(blocks, p, t, policy) ==
    IF t \in Minted THEN "invalid"
    ELSE IF t \in p.pool THEN "refused"
    ELSE IF t \in ZSpends
    THEN IF (\E h \in DOMAIN blocks : Contains(Contents[blocks[h]], t)) \/ t \in policy
         THEN "refused" ELSE "accepted"
    ELSE IF \E o \in Spends[t] : p.next[o] # NoTransaction THEN "refused"
    ELSE IF HaveCoins(blocks, p, t) THEN "refused"
    ELSE IF \E o \in Spends[t] : ~HaveCoins(blocks, p, o[1]) THEN "missing"
    ELSE IF ~HaveInputs(blocks, p, t) \/ t \in policy THEN "refused"
    ELSE IF \E o \in Spends[t] : o[1] \notin p.pool /\ ~Mature(blocks, o) THEN "refused"
    ELSE IF t \in BadScript THEN "invalid" ELSE "accepted"

Policies == SUBSET Fussy
ThePool == [pool |-> pool, next |-> nextTx]
SetPool(p) == pool' = p.pool /\ nextTx' = p.next

-----------------------------------------------------------------------------
(* CTxMemPool::remove and what is built of it                              *)

Children(p, txs) ==
    {p.next[o] : o \in UNION {Makes[t] : t \in txs}} \ {NoTransaction}
Generations(p, txs) ==
    LET found[i \in 0..Cardinality(PoolTxs)] ==
            IF i = 0 THEN txs
            ELSE LET before == found[i - 1] IN before \cup Children(p, before)
    IN  found
Descendants(p, txs) == Generations(p, txs)[Cardinality(PoolTxs)]

Without(p, txs) ==
    [pool |-> p.pool \ txs,
     next |-> [o \in Outpoints |-> IF \E t \in p.pool \cap txs : o \in Spends[t]
                                   THEN NoTransaction ELSE p.next[o]]]

\* With recursion a transaction that is not in the pool takes its children
\* there with it; without, only itself goes.
RemoveOne(p, t) == Without(p, {t})
RemoveRecursive(p, t) == Without(p, Descendants(p, {t}))

\* Mutant: the transactions that spend from a conflicting one stay.
RemoveConflictsAlone(p, t) ==
    Without(p, {p.next[o] : o \in Spends[t]} \ {t, NoTransaction})

RemoveConflicts(p, t) ==
    LET conflicting == {p.next[o] : o \in Spends[t]} \ {t, NoTransaction}
    IN Without(p, Descendants(p, conflicting))

BlockRemovals(p, txs) ==
    LET after[i \in 0..Len(txs)] ==
            IF i = 0 THEN p ELSE RemoveConflicts(RemoveOne(after[i - 1], txs[i]), txs[i])
    IN  after
RemoveForBlock(p, txs) == BlockRemovals(p, txs)[Len(txs)]

\* A zerocoin spend has no coins either, and goes with the others.
RemoveCoinbaseSpends(blocks, p) ==
    LET lost == {t \in p.pool : t \in ZSpends \/
                    \E o \in Spends[t] : o[1] \notin p.pool /\
                        (~(\E q \in Makes[o[1]] : Available(blocks, q))
                         \/ ~Mature(blocks, o))}
    IN Without(p, Descendants(p, lost))

\* A transaction of the block that was disconnected: `ignore validation errors
\* in resurrected transactions'.
Resurrect(blocks, p, t, policy) ==
    IF Verdict(blocks, p, t, policy) = "accepted"
    THEN AddUnchecked(p, t) ELSE RemoveRecursive(p, t)

-----------------------------------------------------------------------------
(* Blocks and locks                                                        *)

Tip == chain[Len(chain)]

\* ConnectBlock: no transaction overwrites one that has coins left (BIP30), and
\* each finds its inputs unspent and ripe.
Connectable(b) ==
    LET before(i) == {Contents[b][j] : j \in 1..i - 1}
    IN \A i \in DOMAIN Contents[b] :
          /\ \A o \in Makes[Contents[b][i]] : ~Available(chain, o)
          /\ \A o \in Spends[Contents[b][i]] :
                /\ \/ o[1] \in before(i)
                   \/ Available(chain, o) /\ Mature(chain, o)
                /\ \A t \in before(i) : o \notin Spends[t]

CanConnect(b) ==
    ~work.busy /\ b # FirstBlock /\ BlockBefore[b] = Tip /\ Connectable(b)

ConnectTip(b) ==
    /\ CanConnect(b)
    /\ chain' = Append(chain, b)
    /\ SetPool(RemoveForBlock(ThePool, Contents[b]))
    /\ UNCHANGED <<orphan, byPrev, work>>

CanDisconnect == ~work.busy /\ Len(chain) > 1
Resurrections(blocks, p, txs, policy) ==
    LET after[i \in 0..Len(txs)] ==
            IF i = 0 THEN p ELSE Resurrect(blocks, after[i - 1], txs[i], policy)
    IN  after
PoolWithoutTip(policy) ==
    LET txs == Contents[Tip]
    IN RemoveCoinbaseSpends(Front(chain),
           Resurrections(Front(chain), ThePool, txs, policy)[Len(txs)])

DisconnectTip(policy) ==
    /\ CanDisconnect
    /\ chain' = Front(chain)
    /\ SetPool(PoolWithoutTip(policy))
    /\ UNCHANGED <<orphan, byPrev, work>>

\* DisconnectBlockAndInputs: what the transaction that was locked conflicts
\* with leaves the pool.
LockTransaction(t) ==
    /\ ~work.busy /\ t \notin Minted \cup ZSpends
    /\ RemoveConflicts(ThePool, t) # ThePool
    /\ SetPool(RemoveConflicts(ThePool, t))
    /\ UNCHANGED <<chain, orphan, byPrev, work>>

-----------------------------------------------------------------------------
(* Orphans.  m has the fields orphan and prev.                             *)

Orphans == {t \in PoolTxs : orphan[t] # NoTransaction}
TheOrphans == [orphan |-> orphan, prev |-> byPrev]
SetOrphans(m) == orphan' = m.orphan /\ byPrev' = m.prev
Parents(t) == {o[1] : o \in Spends[t]}

AddOrphanTx(m, t, p) ==
    IF m.orphan[t] # NoTransaction THEN m
    ELSE [orphan |-> [m.orphan EXCEPT ![t] = p],
          prev |-> [u \in PoolTxs |-> IF u \in Parents(t) THEN m.prev[u] \cup {t}
                                      ELSE m.prev[u]]]

\* EraseOrphanTx of each of them.
EraseOrphans(m, txs) ==
    [orphan |-> [t \in PoolTxs |-> IF t \in txs THEN NoTransaction ELSE m.orphan[t]],
     prev |-> [u \in PoolTxs |-> m.prev[u] \ txs]]

\* LimitOrphanTxSize evicts random orphans.
Evictions(m) ==
    LET there == {t \in PoolTxs : m.orphan[t] # NoTransaction}
    IN IF Cardinality(there) <= MaxOrphans THEN {{}}
       ELSE {e \in SUBSET there : Cardinality(e) = Cardinality(there) - MaxOrphans}

\* The "tx" message: t from peer p.
ReceiveTx(p, t, policy) ==
    LET verdict == Verdict(chain, ThePool, t, policy)
    IN /\ ~work.busy
       /\ CASE verdict = "accepted" ->
                 /\ SetPool(AddUnchecked(ThePool, t))
                 /\ work' = IF t \in ZSpends THEN Idle
                            ELSE [Idle EXCEPT !.busy = TRUE, !.queue = <<t>>,
                                              !.visiting = byPrev[t], !.accepted = {t}]
                 /\ UNCHANGED <<orphan, byPrev>>
            [] verdict = "missing" ->
                 LET m == AddOrphanTx(TheOrphans, t, p)
                 IN /\ \E e \in Evictions(m) : SetOrphans(EraseOrphans(m, e))
                    /\ UNCHANGED <<pool, nextTx, work>>
            [] OTHER -> UNCHANGED <<pool, nextTx, orphan, byPrev, work>>
       /\ UNCHANGED chain

\* Mutant: an orphan that was accepted is not looked at as a parent.
AfterAcceptedOnly(w, t) ==
    [w EXCEPT !.accepted = @ \cup {t}, !.erase = @ \cup {t}]

AfterAccepted(w, t) ==
    [w EXCEPT !.queue = Append(@, t), !.accepted = @ \cup {t}, !.erase = @ \cup {t}]

\* One orphan that depends on the transaction at the head of vWorkQueue.
VisitOrphan(t, policy) ==
    LET verdict == Verdict(chain, ThePool, t, policy)
        w == [work EXCEPT !.visiting = @ \ {t}]
        skipped == orphan[t] \in work.bad
    IN /\ t \in work.visiting
       /\ work' = CASE skipped \/ verdict = "missing" -> w
                    [] ~skipped /\ verdict = "accepted" -> AfterAccepted(w, t)
                    [] ~skipped /\ verdict = "refused" ->
                         [w EXCEPT !.erase = @ \cup {t}]
                    [] ~skipped /\ verdict = "invalid" ->
                         [w EXCEPT !.erase = @ \cup {t}, !.bad = @ \cup {orphan[t]}]
       /\ IF ~skipped /\ verdict = "accepted"
          THEN SetPool(AddUnchecked(ThePool, t)) ELSE UNCHANGED <<pool, nextTx>>
       /\ UNCHANGED <<chain, orphan, byPrev>>

NextInQueue ==
    /\ work.busy /\ work.visiting = {} /\ Len(work.queue) > 1
    /\ work' = [work EXCEPT !.queue = Tail(@), !.visiting = byPrev[work.queue[2]]]
    /\ UNCHANGED <<chain, pool, nextTx, orphan, byPrev>>

FinishTx ==
    /\ work.busy /\ work.visiting = {} /\ Len(work.queue) = 1
    /\ SetOrphans(EraseOrphans(TheOrphans, work.erase))
    /\ work' = Idle
    /\ UNCHANGED <<chain, pool, nextTx>>

\* EraseOrphansFor, when a peer is finalized.
PeerGone(p) ==
    /\ ~work.busy /\ \E t \in PoolTxs : orphan[t] = p
    /\ SetOrphans(EraseOrphans(TheOrphans, {t \in PoolTxs : orphan[t] = p}))
    /\ UNCHANGED <<chain, pool, nextTx, work>>

MempoolNext ==
    \/ \E b \in PoolBlocks : ConnectTip(b)
    \/ \E policy \in Policies :
          \/ DisconnectTip(policy)
          \/ \E p \in PoolPeers, t \in PoolTxs : ReceiveTx(p, t, policy)
          \/ \E t \in PoolTxs : VisitOrphan(t, policy)
    \/ \E t \in PoolTxs : LockTransaction(t)
    \/ NextInQueue \/ FinishTx
    \/ \E p \in PoolPeers : PeerGone(p)

MempoolSpec == MempoolInit /\ [][MempoolNext]_poolVars

-----------------------------------------------------------------------------
\* Types; no coinbase or coinstake is ever in the pool.
MempoolTypeOK ==
    /\ chain \in Seq(PoolBlocks) /\ pool \subseteq PoolTxs \ Minted
    /\ nextTx \in [Outpoints -> PoolTxs \cup {NoTransaction}]
    /\ orphan \in [PoolTxs -> PoolPeers \cup {NoTransaction}]
    /\ byPrev \in [PoolTxs -> SUBSET PoolTxs]
    /\ work.busy \in BOOLEAN /\ work.queue \in Seq(PoolTxs)

\* What CTxMemPool::check asserts after every change: what is in the pool
\* spends coins of the chain that are unspent and ripe, or outputs of others in
\* the pool, no two the same, and mapNextTx says who spends what.  A chain of
\* blocks that comes and goes, refused resurrections and locks do not break it.
PoolSound ==
    /\ \A t \in pool \ ZSpends : \A o \in Spends[t] :
          o[1] \in pool \/ (Available(chain, o) /\ Mature(chain, o))
    /\ \A o \in Outpoints : \A t \in PoolTxs :
          nextTx[o] = t <=> t \in pool \ ZSpends /\ o \in Spends[t]

\* The two maps of orphans index each other and stay within the limit, and when
\* a transaction has been worked through, an orphan that spends from it, or from
\* an orphan accepted after it, still misses another parent, unless its peer
\* sent an invalid one.
OrphansResolved ==
    /\ \A t, u \in PoolTxs : t \in byPrev[u] <=> t \in Orphans /\ u \in Parents(t)
    /\ Cardinality(Orphans) <= MaxOrphans
    /\ work.busy /\ work.visiting = {} /\ Len(work.queue) = 1 =>
          \A t \in Orphans \ work.erase :
              \/ Parents(t) \cap work.accepted = {}
              \/ orphan[t] \in work.bad
              \/ \E o \in Spends[t] : ~HaveCoins(chain, ThePool, o[1])
=============================================================================
