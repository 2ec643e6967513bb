---------------------------- MODULE MempoolProofs ----------------------------
(***************************************************************************)
(* Proofs about the memory pool, the orphans and the wallet.               *)
(*                                                                         *)
(* The pool is GoodPool when mapNextTx says who spends what.  It is Clear  *)
(* of the chain when nothing of it is in a block and nothing it spends is  *)
(* spent there, and Backed when what it spends is its own or ripe in the   *)
(* coins.  Clear is what lets a block be connected (an output of a pool    *)
(* transaction becomes a coin that nobody has spent) and disconnected (a   *)
(* resurrected transaction is not in the chain twice); Backed alone is not *)
(* kept by either.  While a block is disconnected only Clear holds, until  *)
(* RemoveCoinbaseSpends makes the pool Backed again.                       *)
(*                                                                         *)
(* Between two steps of the loop of the "tx" message, each orphan with an  *)
(* accepted parent is done with or is one the loop has still to come to.   *)
(*                                                                         *)
(* The wallet Follows a chain and a set U of transactions when it has      *)
(* those of them that are its own, counts nothing that one of U spends,    *)
(* and gives each transaction of the chain its block.  Each signal keeps   *)
(* that for the chain so far and what U grows by; a chain in which no      *)
(* transaction comes twice (SoundChain) lets the block it ends in be told  *)
(* last.  A process that dies leaves a wallet that follows the chain on    *)
(* disk up to where the next scan starts, which needs that wallet.dat      *)
(* Remembers the blocks of its locator.                                    *)
(***************************************************************************)
EXTENDS Wallet, FiniteSetTheorems, StepLemmas

-----------------------------------------------------------------------------
(* The descendants of transactions.                                         *)

LEMMA GenerationsFacts ==
    ASSUME NEW p, NEW txs \in SUBSET PoolTxs, Children(p, PoolTxs) \subseteq PoolTxs,
           NEW n \in Nat, n = Cardinality(PoolTxs), NEW g, g = Generations(p, txs)
    PROVE  /\ g \in [0..n -> SUBSET PoolTxs] /\ g[0] = txs
           /\ \A i \in 1..n : g[i] = g[i - 1] \cup Children(p, g[i - 1])
<1>1. \A X \in SUBSET PoolTxs : Children(p, X) \subseteq PoolTxs
      BY DEF Children
<1>2. PICK S : S = SUBSET PoolTxs OBVIOUS
<1>3. PICK step : step = [i \in 1..n |-> [x \in S |-> x \cup Children(p, x)]] OBVIOUS
<1>4. Steps(step, n, S) BY <1>1, <1>2, <1>3 DEF Steps
<1>5. txs \in S BY <1>2
<1>6. PICK f : IsFold(f, n, S, txs, step) BY <1>4, <1>5, FoldExists
<1>f. f \in [0..n -> S] /\ f[0] = txs /\ \A i \in 1..n : f[i] = step[i][f[i - 1]]
      BY <1>6 DEF IsFold
<1>7. f = [i \in 0..n |-> IF i = 0 THEN txs ELSE f[i - 1] \cup Children(p, f[i - 1])]
    <2>1. ASSUME NEW i \in 1..n PROVE f[i] = f[i - 1] \cup Children(p, f[i - 1])
        <3>1. f[i - 1] \in S BY <1>f
        <3> QED BY <1>3, <1>f, <3>1
    <2> QED BY <1>f, <2>1
<1>8. g = [i \in 0..n |-> IF i = 0 THEN txs ELSE g[i - 1] \cup Children(p, g[i - 1])]
      BY <1>7 DEF Generations
<1>9. g[0] = txs /\ \A i \in 1..n : g[i] = g[i - 1] \cup Children(p, g[i - 1])
    <2>1. 0 \in 0..n /\ \A i \in 1..n : i \in 0..n /\ i # 0 OBVIOUS
    <2> QED BY <1>8, <2>1
<1>10. \A i \in 0..n : g[i] \in SUBSET PoolTxs
    <2>1. PICK T : T = {i \in 0..n : g[i] \in SUBSET PoolTxs} OBVIOUS
    <2>2. 0 \in T BY <1>9, <2>1
    <2>3. \A i \in 1..n : i - 1 \in T => i \in T BY <1>1, <1>9, <2>1
    <2>4. \A i \in 0..n : i \in T BY <2>2, <2>3, StepByStep
    <2> QED BY <2>1, <2>4
<1> QED BY <1>8, <1>9, <1>10

LEMMA DescendantsClosed ==
    ASSUME NEW p, NEW txs \in SUBSET PoolTxs, Children(p, PoolTxs) \subseteq PoolTxs,
           NEW D, D = Descendants(p, txs)
    PROVE  txs \subseteq D /\ D \subseteq PoolTxs /\ Children(p, D) \subseteq D
<1>1. PICK n \in Nat : n = Cardinality(PoolTxs)
      BY PoolTransactions, FS_CardinalityType
<1>2. PICK g : g = Generations(p, txs) OBVIOUS
<1>3. /\ g \in [0..n -> SUBSET PoolTxs] /\ g[0] = txs
      /\ \A i \in 1..n : g[i] = g[i - 1] \cup Children(p, g[i - 1])
      BY <1>1, <1>2, GenerationsFacts
<1>4. D = g[n] BY <1>1, <1>2 DEF Descendants
\* Each generation is closed already or has as many members as its number.
<1>5. PICK T : T = {i \in 0..n : /\ txs \subseteq g[i]
                                 /\ \/ Children(p, g[i]) \subseteq g[i]
                                    \/ Cardinality(g[i]) >= i}
      OBVIOUS
<1>6. \A i \in 0..n : IsFiniteSet(g[i]) /\ Cardinality(g[i]) \in Nat
      BY <1>3, PoolTransactions, FS_Subset, FS_CardinalityType
<1>7. 0 \in T BY <1>3, <1>5, <1>6
<1>8. ASSUME NEW i \in 1..n, i - 1 \in T PROVE i \in T
    <2>1. i - 1 \in 0..n /\ i \in 0..n OBVIOUS
    <2>2. g[i] = g[i - 1] \cup Children(p, g[i - 1]) BY <1>3
    <2>3. CASE Children(p, g[i - 1]) \subseteq g[i - 1]
        <3>1. g[i] = g[i - 1] BY <2>2, <2>3
        <3> QED BY <1>5, <1>8, <2>1, <2>3, <3>1
    <2>4. CASE ~ (Children(p, g[i - 1]) \subseteq g[i - 1])
        <3>1. Cardinality(g[i - 1]) >= i - 1 BY <1>5, <1>8, <2>4
        <3>2. g[i - 1] \subseteq g[i] /\ g[i - 1] # g[i] BY <2>2, <2>4
        <3>3. Cardinality(g[i - 1]) < Cardinality(g[i])
              BY <1>6, <2>1, <3>2, FS_Subset
        <3>4. Cardinality(g[i]) >= i BY <1>6, <2>1, <3>1, <3>3
        <3> QED BY <1>5, <1>8, <2>1, <3>2, <3>4
    <2> QED BY <2>3, <2>4
<1>9. n \in T
    <2>1. \A i \in 0..n : i \in T BY <1>7, <1>8, StepByStep
    <2> QED BY <2>1
<1>10. D \subseteq PoolTxs BY <1>3, <1>4
<1>11. Children(p, D) \subseteq D
    <2>1. CASE Children(p, g[n]) \subseteq g[n] BY <1>4, <2>1
    <2>2. CASE Cardinality(g[n]) >= n
        <3>1. Cardinality(D) <= n
              BY <1>1, <1>10, PoolTransactions, FS_Subset
        <3>2. Cardinality(D) = Cardinality(PoolTxs) BY <1>1, <1>4, <1>6, <2>2, <3>1
        <3>3. D = PoolTxs BY <1>10, <3>2, PoolTransactions, FS_Subset
        <3> QED BY <3>3
    <2> QED BY <1>5, <1>9, <2>1, <2>2
<1> QED BY <1>4, <1>5, <1>9, <1>10, <1>11

-----------------------------------------------------------------------------
(* A pool whose mapNextTx says who spends what, and what leaves it.         *)

Pools == [pool : SUBSET PoolTxs, next : [Outpoints -> PoolTxs \cup {NoTransaction}]]
GoodPool(p) ==
    /\ p \in Pools /\ p.pool \cap Minted = {}
    /\ \A o \in Outpoints : \A t \in PoolTxs :
          p.next[o] = t <=> t \in p.pool /\ o \in Spends[t]

\* q is what is left of p, and takes no transaction away from under another.
Shrinks(p, q) ==
    /\ GoodPool(q) /\ q.pool \subseteq p.pool
    /\ \A u \in q.pool : \A o \in Spends[u] : o[1] \in p.pool => o[1] \in q.pool

\* An outpoint that is spent is one that o[1] makes.
LEMMA MadeBy ==
    ASSUME NEW t \in PoolTxs, NEW o \in Spends[t]
    PROVE  o \in Outpoints /\ o[1] \in PoolTxs /\ o \in Makes[o[1]]
<1>1. o \in UNION {Makes[u] : u \in PoolTxs} BY PoolTransactions
<1>2. PICK u \in PoolTxs : o \in Makes[u] BY <1>1
<1>3. o[1] = u BY <1>2, PoolTransactions
<1> QED BY <1>1, <1>2, <1>3 DEF Outpoints

LEMMA ChildrenInPool ==
    ASSUME NEW p \in Pools
    PROVE  Children(p, PoolTxs) \subseteq PoolTxs
<1>1. \A t \in PoolTxs : \A o \in Makes[t] : o \in Outpoints BY DEF Outpoints
<1>2. \A o \in Outpoints : p.next[o] \in PoolTxs \cup {NoTransaction} BY DEF Pools
<1> QED BY <1>1, <1>2 DEF Children

LEMMA WithoutParts ==
    ASSUME NEW p \in Pools, NEW txs, NEW q, q = Without(p, txs)
    PROVE  /\ q \in Pools /\ q.pool = p.pool \ txs
           /\ \A o \in Outpoints : q.next[o] =
                 IF \E t \in p.pool \cap txs : o \in Spends[t] THEN NoTransaction
                 ELSE p.next[o]
<1>1. p.pool \in SUBSET PoolTxs /\ p.next \in [Outpoints -> PoolTxs \cup {NoTransaction}]
      BY DEF Pools
<1>2. PICK next : next = [o \in Outpoints |->
            IF \E t \in p.pool \cap txs : o \in Spends[t] THEN NoTransaction ELSE p.next[o]]
      OBVIOUS
<1>3. q = [pool |-> p.pool \ txs, next |-> next] BY <1>2 DEF Without
<1>4. next \in [Outpoints -> PoolTxs \cup {NoTransaction}] BY <1>1, <1>2
<1>5. p.pool \ txs \in SUBSET PoolTxs BY <1>1
<1>6. q \in Pools BY <1>3, <1>4, <1>5 DEF Pools
<1> QED BY <1>2, <1>3, <1>6

LEMMA WithoutGood ==
    ASSUME NEW p, GoodPool(p), NEW txs, NEW q, q = Without(p, txs)
    PROVE  GoodPool(q) /\ q.pool = p.pool \ txs
<1>1. p \in Pools /\ p.pool \cap Minted = {} /\ p.pool \subseteq PoolTxs BY DEF GoodPool, Pools
<1>2. /\ q \in Pools /\ q.pool = p.pool \ txs
      /\ \A o \in Outpoints : q.next[o] =
            IF \E t \in p.pool \cap txs : o \in Spends[t] THEN NoTransaction ELSE p.next[o]
      BY <1>1, WithoutParts
<1>3. ASSUME NEW o \in Outpoints, NEW t \in PoolTxs
      PROVE  q.next[o] = t <=> t \in q.pool /\ o \in Spends[t]
    <2>1. \A u \in PoolTxs : p.next[o] = u <=> u \in p.pool /\ o \in Spends[u]
          BY DEF GoodPool
    <2>2. CASE \E u \in p.pool \cap txs : o \in Spends[u]
        <3>1. PICK u \in p.pool \cap txs : o \in Spends[u] BY <2>2
        <3>2. p.next[o] = u BY <1>1, <2>1, <3>1
        <3>3. q.next[o] = NoTransaction BY <1>2, <2>2
        <3> QED BY <1>2, <2>1, <3>1, <3>2, <3>3, PoolNobody
    <2>3. CASE ~ \E u \in p.pool \cap txs : o \in Spends[u]
          BY <1>2, <2>1, <2>3
    <2> QED BY <2>2, <2>3
<1> QED BY <1>1, <1>2, <1>3 DEF GoodPool

\* What leaves with all its descendants.
LEMMA WithoutDescendants ==
    ASSUME NEW p, GoodPool(p), NEW txs \in SUBSET PoolTxs,
           NEW q, q = Without(p, Descendants(p, txs))
    PROVE  Shrinks(p, q) /\ q.pool \cap txs = {}
<1>1. p \in Pools /\ p.pool \subseteq PoolTxs BY DEF GoodPool, Pools
<1>2. PICK D : D = Descendants(p, txs) OBVIOUS
<1>3. txs \subseteq D /\ D \subseteq PoolTxs /\ Children(p, D) \subseteq D
      BY <1>1, <1>2, ChildrenInPool, DescendantsClosed
<1>4. GoodPool(q) /\ q.pool = p.pool \ D BY <1>2, WithoutGood
<1>5. ASSUME NEW u \in q.pool, NEW o \in Spends[u], o[1] \in p.pool
      PROVE  o[1] \in q.pool
    <2>1. u \in PoolTxs /\ u \in p.pool /\ u \notin D BY <1>1, <1>4
    <2>2. o \in Outpoints /\ o \in Makes[o[1]] BY <2>1, MadeBy
    <2>3. p.next[o] = u BY <2>1, <2>2 DEF GoodPool
    <2>4. CASE o[1] \in D
        <3>1. u \in Children(p, D) BY <2>1, <2>2, <2>3, <2>4, PoolNobody DEF Children
        <3> QED BY <1>3, <2>1, <3>1
    <2> QED BY <1>4, <1>5, <2>4
<1> QED BY <1>3, <1>4, <1>5 DEF Shrinks

-----------------------------------------------------------------------------
(* The transactions of a block leave the pool with what conflicts with them. *)

\* What RemoveForBlock leaves of p when txs are the transactions of the block.
PoolKept(p, q, txs) ==
    /\ GoodPool(q) /\ q.pool \subseteq p.pool /\ q.pool \cap txs = {}
    /\ \A u \in q.pool : \A x \in txs : Spends[u] \cap Spends[x] = {}
    /\ \A u \in q.pool : \A o \in Spends[u] : o[1] \in p.pool => o[1] \in q.pool \cup txs

LEMMA RemoveConflictsFacts ==
    ASSUME NEW p, GoodPool(p), NEW t \in PoolTxs, NEW q, q = RemoveConflicts(p, t)
    PROVE  /\ Shrinks(p, q)
           /\ \A u \in q.pool : u # t => Spends[u] \cap Spends[t] = {}
<1>1. p \in Pools /\ p.pool \subseteq PoolTxs BY DEF GoodPool, Pools
<1>2. PICK X : X = {p.next[o] : o \in Spends[t]} \ {t, NoTransaction} OBVIOUS
<1>3. X \subseteq PoolTxs
    <2>1. \A o \in Spends[t] : o \in Outpoints BY MadeBy
    <2>2. \A o \in Outpoints : p.next[o] \in PoolTxs \cup {NoTransaction} BY <1>1 DEF Pools
    <2> QED BY <1>2, <2>1, <2>2
<1>4. q = Without(p, Descendants(p, X)) BY <1>2 DEF RemoveConflicts
<1>5. Shrinks(p, q) /\ q.pool \cap X = {} BY <1>3, <1>4, WithoutDescendants
<1>6. ASSUME NEW u \in q.pool, u # t, NEW o \in Spends[u], o \in Spends[t] PROVE FALSE
    <2>1. u \in p.pool /\ u \in PoolTxs BY <1>1, <1>5 DEF Shrinks
    <2>2. o \in Outpoints BY <2>1, MadeBy
    <2>3. p.next[o] = u BY <2>1, <2>2 DEF GoodPool
    <2>4. u \in X BY <1>2, <1>6, <2>1, <2>3, PoolNobody
    <2> QED BY <1>5, <2>4
<1> QED BY <1>5, <1>6

LEMMA RemoveOneKept ==
    ASSUME NEW p, NEW q, NEW txs, PoolKept(p, q, txs), NEW t \in PoolTxs,
           NEW r, r = RemoveConflicts(RemoveOne(q, t), t)
    PROVE  PoolKept(p, r, txs \cup {t})
<1>1. PICK one : one = RemoveOne(q, t) OBVIOUS
<1>2. GoodPool(one) /\ one.pool = q.pool \ {t}
      BY <1>1, WithoutGood DEF PoolKept, RemoveOne
<1>3. Shrinks(one, r) /\ \A u \in r.pool : u # t => Spends[u] \cap Spends[t] = {}
      BY <1>1, <1>2, RemoveConflictsFacts
<1>4. GoodPool(r) /\ r.pool \subseteq p.pool /\ r.pool \cap (txs \cup {t}) = {}
      BY <1>2, <1>3 DEF PoolKept, Shrinks
<1>5. \A u \in r.pool : \A x \in txs \cup {t} : Spends[u] \cap Spends[x] = {}
      BY <1>2, <1>3 DEF PoolKept, Shrinks
<1>6. \A u \in r.pool : \A o \in Spends[u] :
          o[1] \in p.pool => o[1] \in r.pool \cup (txs \cup {t})
      BY <1>2, <1>3 DEF PoolKept, Shrinks
<1> QED BY <1>4, <1>5, <1>6 DEF PoolKept

LEMMA RemoveForBlockKept ==
    ASSUME NEW p, GoodPool(p), NEW txs \in Seq(PoolTxs), NEW q, q = RemoveForBlock(p, txs)
    PROVE  PoolKept(p, q, {txs[j] : j \in 1..Len(txs)})
<1>1. PICK n \in Nat : n = Len(txs) OBVIOUS
<1>p. p \in Pools BY DEF GoodPool
<1>2. PICK step : step = [i \in 1..n |->
            [x \in Pools |-> RemoveConflicts(RemoveOne(x, txs[i]), txs[i])]]
      OBVIOUS
<1>3. Steps(step, n, Pools)
    <2>1. \A x \in Pools : \A X : Without(x, X) \in Pools BY WithoutParts
    <2>2. \A x \in Pools : \A t : RemoveConflicts(RemoveOne(x, t), t) \in Pools
          BY <2>1 DEF RemoveConflicts, RemoveOne
    <2> QED BY <1>1, <1>2, <2>2 DEF Steps
<1>4. PICK f : IsFold(f, n, Pools, p, step) BY <1>p, <1>3, FoldExists
<1>5. f \in [0..n -> Pools] /\ f[0] = p /\ \A i \in 1..n : f[i] = step[i][f[i - 1]]
      BY <1>4 DEF IsFold
<1>6. \A i \in 1..n : f[i] = RemoveConflicts(RemoveOne(f[i - 1], txs[i]), txs[i])
    <2>1. TAKE i \in 1..n
    <2>2. f[i - 1] \in Pools BY <1>5
    <2> QED BY <1>2, <1>5, <2>2
<1>7. f = [i \in 0..n |-> IF i = 0 THEN p
                          ELSE RemoveConflicts(RemoveOne(f[i - 1], txs[i]), txs[i])]
      BY <1>5, <1>6
<1>8. PICK g : g = BlockRemovals(p, txs) OBVIOUS
<1>9. g = [i \in 0..n |-> IF i = 0 THEN p
                          ELSE RemoveConflicts(RemoveOne(g[i - 1], txs[i]), txs[i])]
      BY <1>1, <1>7, <1>8 DEF BlockRemovals
<1>10. g[0] = p /\ \A i \in 1..n : g[i] = RemoveConflicts(RemoveOne(g[i - 1], txs[i]), txs[i])
    <2>1. 0 \in 0..n /\ \A i \in 1..n : i \in 0..n /\ i # 0 OBVIOUS
    <2> QED BY <1>9, <2>1
<1>11. PICK T : T = {i \in 0..n : PoolKept(p, g[i], {txs[j] : j \in 1..i})} OBVIOUS
<1>12. 0 \in T
    <2>1. {txs[j] : j \in 1..0} = {} OBVIOUS
    <2>2. PoolKept(p, p, {}) BY DEF PoolKept
    <2>3. 0 \in 0..n BY <1>1
    <2> QED BY <1>10, <1>11, <2>1, <2>2, <2>3
<1>13. ASSUME NEW i \in 1..n, i - 1 \in T PROVE i \in T
    <2>1. PICK before : before = {txs[j] : j \in 1..(i - 1)} OBVIOUS
    <2>2. PoolKept(p, g[i - 1], before) BY <1>11, <1>13, <2>1
    <2>3. {txs[j] : j \in 1..i} = before \cup {txs[i]} BY <2>1
    <2>4. txs[i] \in PoolTxs BY <1>1
    <2>5. PoolKept(p, g[i], before \cup {txs[i]}) BY <1>10, <2>2, <2>4, RemoveOneKept
    <2>6. PoolKept(p, g[i], {txs[j] : j \in 1..i})
        <3>1. PICK now : now = {txs[j] : j \in 1..i} OBVIOUS
        <3>2. now = before \cup {txs[i]} BY <2>3, <3>1
        <3> QED BY ONLY <2>5, <3>1, <3>2
    <2>7. i \in 0..n OBVIOUS
    <2> QED BY <1>11, <2>6, <2>7
<1>14. n \in T
    <2>1. \A i \in 0..n : i \in T BY <1>12, <1>13, StepByStep
    <2> QED BY <2>1
<1> QED BY <1>1, <1>8, <1>11, <1>14 DEF RemoveForBlock

-----------------------------------------------------------------------------
(* The chain and the coins.                                                 *)

InChain(blocks) ==
    {t \in PoolTxs : \E h \in DOMAIN blocks : Contains(Contents[blocks[h]], t)}

\* No block spends what was not made by then.
ChainOK(blocks) ==
    /\ blocks \in Seq(PoolBlocks) /\ Len(blocks) >= 1
    /\ \A h \in DOMAIN blocks : \A i \in DOMAIN Contents[blocks[h]] :
          \A o \in Spends[Contents[blocks[h]][i]] :
             \E k \in 1..h : Contains(Contents[blocks[k]], o[1])

\* Nothing of the pool is in the chain, or spends what the chain spends.
Clear(blocks, p) ==
    /\ GoodPool(p) /\ p.pool \cap InChain(blocks) = {}
    /\ \A u \in p.pool : \A o \in Spends[u] : ~Spent(blocks, o)

\* What it spends is made in the pool or is in the coins, and ripe.
Backed(blocks, p) ==
    \A u \in p.pool : \A o \in Spends[u] :
        o[1] \in p.pool \/ (Available(blocks, o) /\ Mature(blocks, o))

LEMMA MadeInChain ==
    ASSUME NEW blocks, NEW o, o[1] \in PoolTxs
    PROVE  CreatedAt(blocks, o) # {} <=> o[1] \in InChain(blocks)
BY DEF CreatedAt, InChain

LEMMA SpentWasMade ==
    ASSUME NEW blocks, ChainOK(blocks), NEW o \in Outpoints, Spent(blocks, o)
    PROVE  o[1] \in InChain(blocks)
<1>1. PICK h \in DOMAIN blocks : \E i \in DOMAIN Contents[blocks[h]] :
          o \in Spends[Contents[blocks[h]][i]]
      BY DEF Spent
<1>2. PICK k \in 1..h : Contains(Contents[blocks[k]], o[1]) BY <1>1 DEF ChainOK
<1>3. blocks \in Seq(PoolBlocks) BY DEF ChainOK
<1>4. k \in DOMAIN blocks BY <1>1, <1>2, <1>3
<1>5. o[1] \in PoolTxs BY PoolTransactions DEF Outpoints
<1> QED BY <1>2, <1>4, <1>5 DEF InChain

\* An ordinary transaction of the chain has spent its coins there.
LEMMA InChainSpent ==
    ASSUME NEW blocks, ChainOK(blocks), NEW t \in InChain(blocks), NEW o \in Spends[t]
    PROVE  Spent(blocks, o)
<1>1. PICK h \in DOMAIN blocks : Contains(Contents[blocks[h]], t) BY DEF InChain
<1>2. blocks[h] \in PoolBlocks BY <1>1 DEF ChainOK
<1>3. Contents[blocks[h]] \in Seq(PoolTxs) BY <1>2, PoolChain
<1>4. PICK i \in 1..Len(Contents[blocks[h]]) : Contents[blocks[h]][i] = t
      BY <1>1 DEF Contains
<1>5. i \in DOMAIN Contents[blocks[h]] BY <1>3, <1>4
<1> QED BY <1>1, <1>4, <1>5 DEF Spent

LEMMA AcceptFacts ==
    ASSUME NEW blocks, ChainOK(blocks), NEW p, Clear(blocks, p), NEW t \in PoolTxs,
           NEW policy, Verdict(blocks, p, t, policy) = "accepted",
           NEW q, q = AddUnchecked(p, t)
    PROVE  /\ Clear(blocks, q) /\ q.pool = p.pool \cup {t}
           /\ \A o \in Spends[t] :
                 o[1] \in p.pool \/ (Available(blocks, o) /\ Mature(blocks, o))
<1>1. /\ p \in Pools /\ p.pool \in SUBSET PoolTxs /\ p.pool \cap Minted = {}
      /\ p.next \in [Outpoints -> PoolTxs \cup {NoTransaction}]
      BY DEF Clear, GoodPool, Pools
<1>2. t \notin Minted /\ t \notin p.pool BY DEF Verdict
<1>3. t \in ZSpends => t \notin InChain(blocks) BY <1>2 DEF Verdict, InChain
<1>4. t \notin ZSpends =>
          /\ \A o \in Spends[t] : p.next[o] = NoTransaction
          /\ HaveInputs(blocks, p, t)
          /\ \A o \in Spends[t] : o[1] \in p.pool \/ Mature(blocks, o)
      BY <1>2 DEF Verdict
<1>5. t \in ZSpends => Spends[t] = {} BY PoolTransactions
<1>6. \A o \in Spends[t] : p.next[o] = NoTransaction
      BY <1>4, <1>5
<1>7. \A o \in Spends[t] : o[1] \in p.pool \/ (Available(blocks, o) /\ Mature(blocks, o))
      BY <1>4, <1>5 DEF HaveInputs
<1>8. \A o \in Spends[t] : ~Spent(blocks, o)
    <2>1. SUFFICES ASSUME NEW o \in Spends[t], Spent(blocks, o) PROVE FALSE OBVIOUS
    <2>2. o \in Outpoints BY MadeBy
    <2>3. o[1] \in InChain(blocks) BY <2>1, <2>2, SpentWasMade
    <2>4. o[1] \notin p.pool BY <2>3 DEF Clear
    <2> QED BY <1>7, <2>1, <2>4 DEF Available
<1>9. t \notin InChain(blocks)
    <2>1. CASE t \in ZSpends BY <1>3, <2>1
    <2>2. CASE t \notin ZSpends
        <3>1. PICK o \in Spends[t] : TRUE BY <1>2, <2>2, PoolTransactions
        <3> QED BY <1>8, <3>1, InChainSpent
    <2> QED BY <2>1, <2>2
<1>10. PICK next : next = [o \in Outpoints |-> IF t \notin ZSpends /\ o \in Spends[t]
                                               THEN t ELSE p.next[o]]
       OBVIOUS
<1>11. q = [pool |-> p.pool \cup {t}, next |-> next] BY <1>10 DEF AddUnchecked
<1>12. next \in [Outpoints -> PoolTxs \cup {NoTransaction}] BY <1>1, <1>10
<1>13. p.pool \cup {t} \in SUBSET PoolTxs BY <1>1
<1>14. q \in Pools BY <1>11, <1>12, <1>13 DEF Pools
<1>15. ASSUME NEW o \in Outpoints, NEW u \in PoolTxs
       PROVE  q.next[o] = u <=> u \in q.pool /\ o \in Spends[u]
    <2>1. p.next[o] = u <=> u \in p.pool /\ o \in Spends[u] BY DEF Clear, GoodPool
    <2>2. CASE o \in Spends[t]
        <3>1. q.next[o] = t BY <1>5, <1>10, <1>11, <2>2
        <3>2. p.next[o] = NoTransaction BY <1>6, <2>2
        <3> QED BY <1>11, <2>1, <2>2, <3>1, <3>2, PoolNobody
    <2>3. CASE o \notin Spends[t]
        <3>1. q.next[o] = p.next[o] BY <1>10, <1>11, <2>3
        <3> QED BY <1>11, <2>1, <2>3, <3>1
    <2> QED BY <2>2, <2>3
<1>16. GoodPool(q) BY <1>1, <1>2, <1>11, <1>14, <1>15 DEF GoodPool
<1>17. q.pool \cap InChain(blocks) = {} BY <1>9, <1>11 DEF Clear
<1>18. \A u \in q.pool : \A o \in Spends[u] : ~Spent(blocks, o) BY <1>8, <1>11 DEF Clear
<1> QED BY <1>7, <1>11, <1>16, <1>17, <1>18 DEF Clear

LEMMA ShrinksClear ==
    ASSUME NEW blocks, NEW p, NEW q, Clear(blocks, p), Shrinks(p, q)
    PROVE  Clear(blocks, q)
BY DEF Clear, Shrinks

LEMMA ShrinksBacked ==
    ASSUME NEW blocks, NEW p, NEW q, Backed(blocks, p), Shrinks(p, q)
    PROVE  Backed(blocks, q)
BY DEF Backed, Shrinks

\* Transactions of a block that was disconnected come back, or go with theirs.
LEMMA ResurrectClear ==
    ASSUME NEW blocks, ChainOK(blocks), NEW p, Clear(blocks, p), NEW t \in PoolTxs,
           NEW policy, NEW q, q = Resurrect(blocks, p, t, policy)
    PROVE  Clear(blocks, q) /\ q.pool \subseteq p.pool \cup {t}
<1>1. CASE Verdict(blocks, p, t, policy) = "accepted"
      BY <1>1, AcceptFacts DEF Resurrect
<1>2. CASE Verdict(blocks, p, t, policy) # "accepted"
    <2>1. q = Without(p, Descendants(p, {t})) BY <1>2 DEF Resurrect, RemoveRecursive
    <2>2. GoodPool(p) BY DEF Clear
    <2>3. Shrinks(p, q) BY <2>1, <2>2, WithoutDescendants
    <2>4. Clear(blocks, q) BY <2>3, ShrinksClear
    <2> QED BY <2>3, <2>4 DEF Shrinks
<1> QED BY <1>1, <1>2

LEMMA ResurrectionsClear ==
    ASSUME NEW blocks, ChainOK(blocks), NEW p, Clear(blocks, p), NEW txs \in Seq(PoolTxs),
           NEW policy, NEW q, q = Resurrections(blocks, p, txs, policy)[Len(txs)]
    PROVE  Clear(blocks, q) /\ q.pool \subseteq p.pool \cup {txs[j] : j \in 1..Len(txs)}
<1>1. PICK n \in Nat : n = Len(txs) OBVIOUS
<1>2. PICK S : S = {x \in Pools : Clear(blocks, x)} OBVIOUS
<1>p. p \in S BY <1>2 DEF Clear, GoodPool
<1>3. PICK step : step = [i \in 1..n |-> [x \in S |-> Resurrect(blocks, x, txs[i], policy)]]
      OBVIOUS
<1>4. Steps(step, n, S)
    <2>1. \A x \in S : \A t \in PoolTxs : Resurrect(blocks, x, t, policy) \in S
        <3>1. TAKE x \in S
        <3>2. TAKE t \in PoolTxs
        <3>3. Clear(blocks, x) BY <1>2
        <3>4. PICK y : y = Resurrect(blocks, x, t, policy) OBVIOUS
        <3>5. Clear(blocks, y) BY <3>3, <3>4, ResurrectClear
        <3> QED BY <1>2, <3>4, <3>5 DEF Clear, GoodPool
    <2>2. \A i \in 1..n : txs[i] \in PoolTxs BY <1>1
    <2> QED BY <1>1, <1>3, <2>1, <2>2 DEF Steps
<1>5. PICK f : IsFold(f, n, S, p, step) BY <1>p, <1>4, FoldExists
<1>6. f \in [0..n -> S] /\ f[0] = p /\ \A i \in 1..n : f[i] = step[i][f[i - 1]]
      BY <1>5 DEF IsFold
<1>7. \A i \in 1..n : f[i] = Resurrect(blocks, f[i - 1], txs[i], policy)
    <2>1. TAKE i \in 1..n
    <2>2. f[i - 1] \in S BY <1>6
    <2> QED BY <1>3, <1>6, <2>2
<1>8. f = [i \in 0..n |-> IF i = 0 THEN p
                          ELSE Resurrect(blocks, f[i - 1], txs[i], policy)]
      BY <1>6, <1>7
<1>9. PICK g : g = Resurrections(blocks, p, txs, policy) OBVIOUS
<1>10. g = [i \in 0..n |-> IF i = 0 THEN p
                           ELSE Resurrect(blocks, g[i - 1], txs[i], policy)]
       BY <1>1, <1>8, <1>9 DEF Resurrections
<1>11. g[0] = p /\ \A i \in 1..n : g[i] = Resurrect(blocks, g[i - 1], txs[i], policy)
    <2>1. 0 \in 0..n /\ \A i \in 1..n : i \in 0..n /\ i # 0 OBVIOUS
    <2> QED BY <1>10, <2>1
<1>x. PICK X : X = p.pool \cup {txs[j] : j \in 1..n} OBVIOUS
<1>12. PICK T : T = {i \in 0..n : Clear(blocks, g[i]) /\ g[i].pool \subseteq X} OBVIOUS
<1>13. 0 \in T BY <1>1, <1>x, <1>11, <1>12
<1>14. ASSUME NEW i \in 1..n, i - 1 \in T PROVE i \in T
    <2>1. /\ txs[i] \in PoolTxs /\ txs[i] \in X
          /\ Clear(blocks, g[i - 1]) /\ g[i - 1].pool \subseteq X
          BY <1>1, <1>x, <1>12, <1>14
    <2>2. Clear(blocks, g[i]) /\ g[i].pool \subseteq g[i - 1].pool \cup {txs[i]}
          BY <1>11, <2>1, ResurrectClear
    <2> QED BY <1>12, <2>1, <2>2
<1>15. n \in T
    <2>1. \A i \in 0..n : i \in T BY <1>13, <1>14, StepByStep
    <2> QED BY <2>1
<1> QED BY <1>1, <1>x, <1>9, <1>12, <1>15

\* Zerocoin spends, and what lost its coins or spends unripe ones, leave last.
LEMMA CoinbaseSpendsBacked ==
    ASSUME NEW blocks, NEW p, Clear(blocks, p), NEW q, q = RemoveCoinbaseSpends(blocks, p)
    PROVE  Clear(blocks, q) /\ Backed(blocks, q) /\ q.pool \subseteq p.pool
<1>1. p \in Pools /\ p.pool \subseteq PoolTxs /\ GoodPool(p) BY DEF Clear, GoodPool, Pools
<1>2. PICK lost : lost = {t \in p.pool : t \in ZSpends \/
                    \E o \in Spends[t] : o[1] \notin p.pool /\
                        (~(\E r \in Makes[o[1]] : Available(blocks, r))
                         \/ ~Mature(blocks, o))}
      OBVIOUS
<1>3. q = Without(p, Descendants(p, lost)) BY <1>2 DEF RemoveCoinbaseSpends
<1>4. lost \in SUBSET PoolTxs BY <1>1, <1>2
<1>5. Shrinks(p, q) /\ q.pool \cap lost = {} BY <1>1, <1>3, <1>4, WithoutDescendants
<1>6. ASSUME NEW u \in q.pool, NEW o \in Spends[u], o[1] \notin q.pool
      PROVE  Available(blocks, o) /\ Mature(blocks, o)
    <2>1. u \in p.pool /\ u \in PoolTxs /\ u \notin lost /\ o[1] \notin p.pool
          BY <1>1, <1>5, <1>6 DEF Shrinks
    <2>2. (\E r \in Makes[o[1]] : Available(blocks, r)) /\ Mature(blocks, o)
          BY <1>2, <2>1
    <2>3. PICK r \in Makes[o[1]] : Available(blocks, r) BY <2>2
    <2>4. o[1] \in PoolTxs BY <2>1, MadeBy
    <2>5. r[1] = o[1] BY <2>4, PoolTransactions
    <2>6. CreatedAt(blocks, o) # {} BY <2>3, <2>5 DEF Available, CreatedAt
    <2>7. ~Spent(blocks, o) BY <2>1 DEF Clear
    <2> QED BY <2>2, <2>6, <2>7 DEF Available
<1>7. Clear(blocks, q) BY <1>5, ShrinksClear
<1> QED BY <1>5, <1>6, <1>7 DEF Backed, Shrinks

-----------------------------------------------------------------------------
(* A block comes or goes.                                                   *)

LEMMA WithoutTipFacts ==
    ASSUME NEW blocks, ChainOK(blocks), Len(blocks) > 1, NEW less, less = Front(blocks)
    PROVE  /\ ChainOK(less) /\ InChain(less) \subseteq InChain(blocks)
           /\ \A o : Spent(less, o) => Spent(blocks, o)
<1>1. blocks \in Seq(PoolBlocks) BY DEF ChainOK
<1>2. PICK n \in Nat : n = Len(blocks) BY <1>1
<1>3. less \in Seq(PoolBlocks) /\ Len(less) = n - 1 /\ \A h \in 1..n - 1 : less[h] = blocks[h]
      BY <1>1, <1>2 DEF Front
<1>4. DOMAIN less = 1..n - 1 /\ DOMAIN blocks = 1..n BY <1>1, <1>2, <1>3
<1>5. \A h \in DOMAIN less : h \in DOMAIN blocks /\ less[h] = blocks[h] BY <1>2, <1>3, <1>4
<1>6. ASSUME NEW h \in DOMAIN less, NEW i \in DOMAIN Contents[less[h]],
             NEW o \in Spends[Contents[less[h]][i]]
      PROVE  \E k \in 1..h : Contains(Contents[less[k]], o[1])
    <2>1. PICK k \in 1..h : Contains(Contents[blocks[k]], o[1]) BY <1>5, <1>6 DEF ChainOK
    <2>2. k \in DOMAIN less BY <1>2, <1>4, <1>6
    <2> QED BY <1>5, <2>1, <2>2
<1>7. ChainOK(less) BY <1>2, <1>3, <1>6 DEF ChainOK
<1> QED BY <1>5, <1>7 DEF InChain, Spent

LEMMA DisconnectTipPool ==
    ASSUME NEW blocks, ChainOK(blocks), Len(blocks) > 1, NEW p,
           Clear(blocks, p), NEW policy, NEW txs \in Seq(PoolTxs), NEW q,
           q = RemoveCoinbaseSpends(Front(blocks),
                   Resurrections(Front(blocks), p, txs, policy)[Len(txs)])
    PROVE  /\ ChainOK(Front(blocks)) /\ Clear(Front(blocks), q) /\ Backed(Front(blocks), q)
           /\ q.pool \subseteq p.pool \cup {txs[j] : j \in 1..Len(txs)}
<1>1. PICK less : less = Front(blocks) OBVIOUS
<1>2. /\ ChainOK(less) /\ InChain(less) \subseteq InChain(blocks)
      /\ \A o : Spent(less, o) => Spent(blocks, o)
      BY <1>1, WithoutTipFacts
<1>3. Clear(less, p) BY <1>2 DEF Clear
<1>4. PICK r : r = Resurrections(less, p, txs, policy)[Len(txs)] OBVIOUS
<1>5. Clear(less, r) /\ r.pool \subseteq p.pool \cup {txs[j] : j \in 1..Len(txs)}
      BY <1>2, <1>3, <1>4, ResurrectionsClear
<1>6. q = RemoveCoinbaseSpends(less, r) BY <1>1, <1>4
<1>7. Clear(less, q) /\ Backed(less, q) /\ q.pool \subseteq r.pool
      BY <1>5, <1>6, CoinbaseSpendsBacked
<1> QED BY <1>1, <1>2, <1>5, <1>7

TxsOf(b) == {Contents[b][j] : j \in 1..Len(Contents[b])}

\* What becomes of a chain when b, of the transactions txs, follows it.
Appended(blocks, more, b, txs) ==
    /\ more \in Seq(PoolBlocks) /\ Len(more) = Len(blocks) + 1
    /\ Len(blocks) \in Nat /\ Len(blocks) >= 1
    /\ DOMAIN blocks = 1..Len(blocks) /\ DOMAIN more = 1..Len(blocks) + 1
    /\ \A h \in DOMAIN blocks : more[h] = blocks[h]
    /\ more[Len(blocks) + 1] = b
    /\ InChain(more) = InChain(blocks) \cup txs
    /\ \A o : Spent(more, o) => Spent(blocks, o) \/ \E x \in txs : o \in Spends[x]

LEMMA AppendFacts ==
    ASSUME NEW blocks, ChainOK(blocks), NEW b \in PoolBlocks, NEW more, more = Append(blocks, b),
           NEW txs, txs = TxsOf(b)
    PROVE  Appended(blocks, more, b, txs)
<1>1. blocks \in Seq(PoolBlocks) /\ Len(blocks) >= 1 BY DEF ChainOK
<1>2. PICK n \in Nat : n = Len(blocks) BY <1>1
<1>3. /\ more \in Seq(PoolBlocks) /\ Len(more) = n + 1 /\ DOMAIN blocks = 1..n
      /\ DOMAIN more = 1..n + 1 /\ more[n + 1] = b
      BY <1>1, <1>2
<1>4. \A h \in 1..n : more[h] = blocks[h] BY <1>1, <1>2
<1>5. Contents[b] \in Seq(PoolTxs) BY PoolChain
<1>6. DOMAIN Contents[b] = 1..Len(Contents[b]) /\ txs \subseteq PoolTxs BY <1>5 DEF TxsOf
<1>7. \A t : Contains(Contents[b], t) <=> t \in txs BY DEF Contains, TxsOf
<1>8. InChain(more) \subseteq InChain(blocks) \cup txs
    <2>1. SUFFICES ASSUME NEW t \in InChain(more), t \notin txs PROVE t \in InChain(blocks)
          OBVIOUS
    <2>2. t \in PoolTxs /\ \E h \in 1..n + 1 : Contains(Contents[more[h]], t)
          BY <1>3 DEF InChain
    <2>3. PICK h \in 1..n + 1 : Contains(Contents[more[h]], t) BY <2>2
    <2>4. h # n + 1 BY <1>3, <1>7, <2>1, <2>3
    <2>5. h \in 1..n BY <2>4
    <2>6. more[h] = blocks[h] BY <1>4, <2>5
    <2> QED BY <1>3, <2>2, <2>3, <2>5, <2>6 DEF InChain
<1>9. InChain(blocks) \subseteq InChain(more)
    <2>1. SUFFICES ASSUME NEW t \in InChain(blocks) PROVE t \in InChain(more) OBVIOUS
    <2>2. t \in PoolTxs /\ \E h \in 1..n : Contains(Contents[blocks[h]], t)
          BY <1>3 DEF InChain
    <2>3. PICK h \in 1..n : Contains(Contents[blocks[h]], t) BY <2>2
    <2>4. more[h] = blocks[h] BY <1>4
    <2>5. h \in 1..n + 1 OBVIOUS
    <2>6. Contains(Contents[more[h]], t) BY <2>3, <2>4
    <2> QED BY <1>3, <2>2, <2>5, <2>6 DEF InChain
<1>10. txs \subseteq InChain(more)
    <2>1. SUFFICES ASSUME NEW t \in txs PROVE t \in InChain(more) OBVIOUS
    <2>2. n + 1 \in DOMAIN more /\ Contains(Contents[more[n + 1]], t) BY <1>3, <1>7
    <2> QED BY <1>6, <2>2 DEF InChain
<1>11. ASSUME NEW o, Spent(more, o), \A x \in txs : o \notin Spends[x]
       PROVE  Spent(blocks, o)
    <2>1. PICK h \in 1..n + 1 : \E i \in DOMAIN Contents[more[h]] :
              o \in Spends[Contents[more[h]][i]]
          BY <1>3, <1>11 DEF Spent
    <2>2. h # n + 1 BY <1>3, <1>6, <1>11, <2>1 DEF TxsOf
    <2>3. h \in 1..n BY <2>2
    <2>4. more[h] = blocks[h] BY <1>4, <2>3
    <2> QED BY <1>3, <2>1, <2>3, <2>4 DEF Spent
<1> QED BY <1>1, <1>2, <1>3, <1>4, <1>8, <1>9, <1>10, <1>11 DEF Appended

LEMMA ConnectTipPool ==
    ASSUME ChainOK(chain), Clear(chain, ThePool), Backed(chain, ThePool),
           NEW b \in PoolBlocks, Connectable(b),
           NEW q, q = RemoveForBlock(ThePool, Contents[b]),
           NEW more, more = Append(chain, b)
    PROVE  ChainOK(more) /\ Clear(more, q) /\ Backed(more, q)
<1>1. PICK txs : txs = TxsOf(b) OBVIOUS
<1>2. PICK p : p = ThePool OBVIOUS
<1>3. PICK n : n = Len(chain) OBVIOUS
<1>4. /\ more \in Seq(PoolBlocks) /\ Len(more) = n + 1
      /\ n \in Nat /\ n >= 1
      /\ DOMAIN chain = 1..n /\ DOMAIN more = 1..n + 1
      /\ \A h \in DOMAIN chain : more[h] = chain[h]
      /\ more[n + 1] = b
      /\ InChain(more) = InChain(chain) \cup txs
      /\ \A o : Spent(more, o) => Spent(chain, o) \/ \E x \in txs : o \in Spends[x]
    <2>1. Appended(chain, more, b, txs) BY <1>1, AppendFacts
    <2> QED BY <1>3, <2>1 DEF Appended
<1>5. Contents[b] \in Seq(PoolTxs) BY PoolChain
<1>6. DOMAIN Contents[b] = 1..Len(Contents[b]) /\ txs \subseteq PoolTxs
      BY <1>1, <1>5 DEF TxsOf
<1>7. GoodPool(p) /\ p.pool \subseteq PoolTxs /\ p.pool \cap Minted = {}
      BY <1>2 DEF Clear, GoodPool, Pools
<1>8. PoolKept(p, q, txs) BY <1>1, <1>2, <1>5, <1>7, RemoveForBlockKept DEF TxsOf
<1>9. ChainOK(more)
    <2>1. SUFFICES ASSUME NEW h \in DOMAIN more, NEW i \in DOMAIN Contents[more[h]],
                          NEW o \in Spends[Contents[more[h]][i]]
                   PROVE  \E k \in 1..h : Contains(Contents[more[k]], o[1])
          BY <1>4 DEF ChainOK
    <2>2. CASE h \in 1..n
        <3>1. more[h] = chain[h] BY <1>4, <2>2
        <3>2. PICK k \in 1..h : Contains(Contents[chain[k]], o[1])
              BY <1>4, <2>1, <2>2, <3>1 DEF ChainOK
        <3>3. k \in 1..n BY <1>4, <2>2
        <3>4. more[k] = chain[k] BY <1>4, <3>3
        <3> QED BY <3>2, <3>4
    <2>3. CASE h = n + 1
        <3>1. i \in DOMAIN Contents[b] /\ o \in Spends[Contents[b][i]] BY <1>4, <2>1, <2>3
        <3>2. \/ \E j \in 1..i - 1 : Contents[b][j] = o[1]
              \/ Available(chain, o)
              BY <3>1 DEF Connectable
        <3>3. CASE \E j \in 1..i - 1 : Contents[b][j] = o[1]
            <4>1. PICK j \in 1..i - 1 : Contents[b][j] = o[1] BY <3>3
            <4>2. i \in 1..Len(Contents[b]) /\ Len(Contents[b]) \in Nat BY <1>5, <1>6, <3>1
            <4>3. j \in 1..Len(Contents[b]) BY <4>2
            <4>4. Contains(Contents[more[n + 1]], o[1]) BY <1>4, <4>1, <4>3 DEF Contains
            <4> QED BY <1>4, <2>3, <4>4
        <3>4. CASE Available(chain, o)
            <4>1. PICK k \in 1..n : Contains(Contents[chain[k]], o[1])
                  BY <1>4, <3>4 DEF Available, CreatedAt
            <4>2. k \in 1..h /\ more[k] = chain[k] BY <1>4, <2>3
            <4> QED BY <4>1, <4>2
        <3> QED BY <3>2, <3>3, <3>4
    <2> QED BY <1>4, <2>2, <2>3
<1>10. Clear(more, q)
    <2>1. q.pool \cap InChain(more) = {} BY <1>2, <1>4, <1>8 DEF Clear, PoolKept
    <2>2. \A u \in q.pool : \A o \in Spends[u] : ~Spent(chain, o)
          BY <1>2, <1>8 DEF Clear, PoolKept
    <2>3. \A u \in q.pool : \A o \in Spends[u] : \A x \in txs : o \notin Spends[x]
          BY <1>8 DEF PoolKept
    <2>4. \A u \in q.pool : \A o \in Spends[u] : ~Spent(more, o) BY <1>4, <2>2, <2>3
    <2> QED BY <1>8, <2>1, <2>4 DEF Clear, PoolKept
<1>11. ASSUME NEW u \in q.pool, NEW o \in Spends[u], o[1] \notin q.pool
       PROVE  Available(more, o) /\ Mature(more, o)
    <2>1. u \in p.pool /\ u \in PoolTxs BY <1>7, <1>8 DEF PoolKept
    <2>2. o[1] \in PoolTxs /\ o \in Makes[o[1]] BY <2>1, MadeBy
    <2>3. ~Spent(more, o) BY <1>10 DEF Clear
    <2>4. CASE o[1] \in p.pool
        <3>1. o[1] \in txs BY <1>8, <1>11, <2>4 DEF PoolKept
        <3>2. CreatedAt(more, o) # {} BY <1>4, <2>2, <3>1, MadeInChain
        <3>3. o[1] \notin Minted BY <1>7, <2>4
        <3> QED BY <2>3, <3>2, <3>3 DEF Available, Mature
    <2>5. CASE o[1] \notin p.pool
        <3>1. Available(chain, o) /\ Mature(chain, o) BY <1>2, <2>1, <2>5 DEF Backed
        <3>2. o[1] \in InChain(chain) BY <2>2, <3>1, MadeInChain DEF Available
        <3>3. CreatedAt(more, o) # {} BY <1>4, <2>2, <3>2, MadeInChain
        <3>4. ASSUME o[1] \in Minted, NEW h \in CreatedAt(more, o)
              PROVE  Len(more) + 1 - h >= CoinMaturity
            <4>1. h \in 1..n + 1 /\ Contains(Contents[more[h]], o[1])
                  BY <1>4 DEF CreatedAt
            <4>2. h # n + 1
                <5>1. SUFFICES ASSUME h = n + 1 PROVE FALSE OBVIOUS
                <5>2. Contains(Contents[b], o[1]) BY <1>4, <4>1, <5>1
                <5>3. PICK i \in 1..Len(Contents[b]) : Contents[b][i] = o[1]
                      BY <5>2 DEF Contains
                <5>4. i \in DOMAIN Contents[b] BY <1>6
                <5>5. ~Available(chain, o) BY <2>2, <5>3, <5>4 DEF Connectable
                <5> QED BY <3>1, <5>5
            <4>3. h \in 1..n BY <1>4, <4>1, <4>2
            <4>4. h \in CreatedAt(chain, o) BY <1>4, <4>1, <4>3 DEF CreatedAt
            <4>5. n + 1 - h >= CoinMaturity BY <1>3, <3>1, <3>4, <4>4 DEF Mature
            <4> QED BY <1>4, <4>3, <4>5, PoolLimits
        <3>5. Mature(more, o) BY <3>4 DEF Mature
        <3> QED BY <2>3, <3>3, <3>5 DEF Available
    <2> QED BY <2>4, <2>5
<1> QED BY <1>9, <1>10, <1>11 DEF Backed

-----------------------------------------------------------------------------
(* What holds of the chain and the pool, whatever happens.                  *)

PoolInv ==
    ChainOK(chain) /\ Clear(chain, ThePool) /\ Backed(chain, ThePool)

LEMMA PoolIs ==
    ASSUME NEW q \in Pools, SetPool(q)
    PROVE  ThePool' = q
BY DEF SetPool, ThePool, Pools

LEMMA ClearPools ==
    ASSUME NEW blocks, NEW p, Clear(blocks, p)
    PROVE  p \in Pools
BY DEF Clear, GoodPool

LEMMA PoolInvAfter ==
    ASSUME NEW q, SetPool(q), ChainOK(chain'), Clear(chain', q), Backed(chain', q)
    PROVE  PoolInv'
<1>1. ThePool' = q BY PoolIs, ClearPools
<1>2. Clear(chain', ThePool') /\ Backed(chain', ThePool') BY <1>1
<1> QED BY <1>2 DEF PoolInv

LEMMA AcceptPoolInv ==
    ASSUME PoolInv, UNCHANGED chain, NEW t \in PoolTxs, NEW policy,
           Verdict(chain, ThePool, t, policy) = "accepted",
           SetPool(AddUnchecked(ThePool, t))
    PROVE  PoolInv' /\ pool' = pool \cup {t}
<1>1. PICK q : q = AddUnchecked(ThePool, t) OBVIOUS
<1>2. PICK p : p = ThePool OBVIOUS
<1>3. ChainOK(chain) /\ Clear(chain, p) /\ Backed(chain, p) BY <1>2 DEF PoolInv
<1>4. Verdict(chain, p, t, policy) = "accepted" /\ q = AddUnchecked(p, t) BY <1>1, <1>2
<1>5. /\ Clear(chain, q) /\ q.pool = p.pool \cup {t}
      /\ \A o \in Spends[t] :
            o[1] \in p.pool \/ (Available(chain, o) /\ Mature(chain, o))
      BY <1>3, <1>4, AcceptFacts
<1>6. Backed(chain, q) BY <1>3, <1>5 DEF Backed
<1>7. SetPool(q) BY <1>1
<1>8. ChainOK(chain') /\ Clear(chain', q) /\ Backed(chain', q)
    <2>1. chain' = chain OBVIOUS
    <2> QED BY <1>3, <1>5, <1>6, <2>1
<1>9. pool' = pool \cup {t} BY <1>2, <1>5, <1>7 DEF SetPool, ThePool
<1> QED BY <1>7, <1>8, <1>9, PoolInvAfter

LEMMA StutterPoolInv ==
    ASSUME PoolInv, UNCHANGED <<chain, pool, nextTx>>
    PROVE  PoolInv'
<1>1. chain' = chain /\ ThePool' = ThePool BY DEF ThePool
<1> QED BY <1>1 DEF PoolInv

LEMMA InitPoolInv ==
    ASSUME MempoolInit
    PROVE  PoolInv
<1>1. chain = <<FirstBlock>> /\ pool = {} /\ nextTx = [o \in Outpoints |-> NoTransaction]
      BY DEF MempoolInit
<1>2. PICK p : p = ThePool OBVIOUS
<1>3. p.pool = {} /\ p.next = nextTx /\ p \in Pools BY <1>1, <1>2 DEF ThePool, Pools
<1>4. \A o \in Outpoints : p.next[o] = NoTransaction BY <1>1, <1>3
<1>5. Clear(chain, p) BY <1>3, <1>4, PoolNobody DEF Clear, GoodPool
<1>6. Backed(chain, p) BY <1>3 DEF Backed
<1>7. ChainOK(chain)
    <2>1. chain \in Seq(PoolBlocks) /\ Len(chain) = 1 /\ DOMAIN chain = {1} /\ chain[1] = FirstBlock
          BY <1>1, PoolChain
    <2>2. \A i \in DOMAIN Contents[FirstBlock] : Spends[Contents[FirstBlock][i]] = {}
          BY PoolChain
    <2>3. \A h \in DOMAIN chain : \A i \in DOMAIN Contents[chain[h]] :
              Spends[Contents[chain[h]][i]] = {}
          BY <2>1, <2>2
    <2>4. Len(chain) >= 1 BY <2>1
    <2> QED BY <2>1, <2>3, <2>4 DEF ChainOK
<1> QED BY <1>2, <1>5, <1>6, <1>7 DEF PoolInv

LEMMA NextPoolInv ==
    ASSUME PoolInv, MempoolNext
    PROVE  PoolInv'
<1>1. ASSUME NEW b \in PoolBlocks, ConnectTip(b) PROVE PoolInv'
    <2>1. PICK q : q = RemoveForBlock(ThePool, Contents[b]) OBVIOUS
    <2>2. SetPool(q) /\ Connectable(b) /\ chain' = Append(chain, b)
          BY <1>1, <2>1 DEF ConnectTip, CanConnect
    <2>3. PICK more : more = Append(chain, b) OBVIOUS
    <2>4. ChainOK(more) /\ Clear(more, q) /\ Backed(more, q)
          BY <2>1, <2>2, <2>3, ConnectTipPool DEF PoolInv
    <2>5. ChainOK(chain') /\ Clear(chain', q) /\ Backed(chain', q) BY <2>2, <2>3, <2>4
    <2> QED BY <2>2, <2>5, PoolInvAfter
<1>2. ASSUME NEW policy \in Policies, DisconnectTip(policy) PROVE PoolInv'
    <2>1. PICK txs : txs = Contents[Tip] OBVIOUS
    <2>2. PICK p : p = ThePool OBVIOUS
    <2>3. PICK q : q = RemoveCoinbaseSpends(Front(chain),
                           Resurrections(Front(chain), p, txs, policy)[Len(txs)])
          OBVIOUS
    <2>4. SetPool(q) /\ chain' = Front(chain) /\ Len(chain) > 1
          BY <1>2, <2>1, <2>2, <2>3 DEF DisconnectTip, CanDisconnect, PoolWithoutTip
    <2>5. txs \in Seq(PoolTxs)
        <3>1. Len(chain) \in DOMAIN chain BY <2>4 DEF PoolInv, ChainOK
        <3>2. Tip \in PoolBlocks BY <3>1 DEF PoolInv, ChainOK, Tip
        <3> QED BY <2>1, <3>2, PoolChain
    <2>6. ChainOK(Front(chain)) /\ Clear(Front(chain), q) /\ Backed(Front(chain), q)
          BY <2>2, <2>3, <2>4, <2>5, DisconnectTipPool DEF PoolInv
    <2>7. ChainOK(chain') /\ Clear(chain', q) /\ Backed(chain', q) BY <2>4, <2>6
    <2> QED BY <2>4, <2>7, PoolInvAfter
<1>3. ASSUME NEW policy \in Policies, NEW p \in PoolPeers, NEW t \in PoolTxs,
             ReceiveTx(p, t, policy)
      PROVE  PoolInv'
    <2>1. CASE Verdict(chain, ThePool, t, policy) = "accepted"
        <3>1. SetPool(AddUnchecked(ThePool, t)) /\ UNCHANGED chain
              BY <1>3, <2>1 DEF ReceiveTx
        <3> QED BY <2>1, <3>1, AcceptPoolInv
    <2>2. CASE Verdict(chain, ThePool, t, policy) # "accepted"
        <3>1. UNCHANGED <<chain, pool, nextTx>> BY <1>3, <2>2 DEF ReceiveTx
        <3> QED BY <3>1, StutterPoolInv
    <2> QED BY <2>1, <2>2
<1>4. ASSUME NEW policy \in Policies, NEW t \in PoolTxs, VisitOrphan(t, policy)
      PROVE  PoolInv'
    <2>1. CASE orphan[t] \notin work.bad /\ Verdict(chain, ThePool, t, policy) = "accepted"
        <3>1. SetPool(AddUnchecked(ThePool, t)) /\ UNCHANGED chain
              BY <1>4, <2>1 DEF VisitOrphan
        <3> QED BY <2>1, <3>1, AcceptPoolInv
    <2>2. CASE ~ (orphan[t] \notin work.bad /\ Verdict(chain, ThePool, t, policy) = "accepted")
        <3>1. UNCHANGED <<chain, pool, nextTx>> BY <1>4, <2>2 DEF VisitOrphan
        <3> QED BY <3>1, StutterPoolInv
    <2> QED BY <2>1, <2>2
<1>5. ASSUME NEW t \in PoolTxs, LockTransaction(t) PROVE PoolInv'
    <2>1. PICK q : q = RemoveConflicts(ThePool, t) OBVIOUS
    <2>2. PICK p : p = ThePool OBVIOUS
    <2>3. SetPool(q) /\ chain' = chain BY <1>5, <2>1 DEF LockTransaction
    <2>4. Clear(chain, p) /\ Backed(chain, p) /\ GoodPool(p) BY <2>2 DEF PoolInv, Clear
    <2>5. Shrinks(p, q) BY <2>1, <2>2, <2>4, RemoveConflictsFacts
    <2>6. Clear(chain, q) /\ Backed(chain, q) BY <2>4, <2>5, ShrinksClear, ShrinksBacked
    <2>7. ChainOK(chain') /\ Clear(chain', q) /\ Backed(chain', q) BY <2>3, <2>6 DEF PoolInv
    <2> QED BY <2>3, <2>7, PoolInvAfter
<1>6. CASE NextInQueue \/ FinishTx \/ \E p \in PoolPeers : PeerGone(p)
    <2>1. UNCHANGED <<chain, pool, nextTx>> BY <1>6 DEF NextInQueue, FinishTx, PeerGone
    <2> QED BY <2>1, StutterPoolInv
<1> QED BY <1>1, <1>2, <1>3, <1>4, <1>5, <1>6 DEF MempoolNext

-----------------------------------------------------------------------------
(* The maps of the orphans.                                                 *)

OrphanMaps == [orphan : [PoolTxs -> PoolPeers \cup {NoTransaction}],
               prev : [PoolTxs -> SUBSET PoolTxs]]
There(m) == {t \in PoolTxs : m.orphan[t] # NoTransaction}

\* mapOrphanTransactionsByPrev indexes mapOrphanTransactions.
Indexed(m) ==
    /\ m \in OrphanMaps
    /\ \A t, u \in PoolTxs : t \in m.prev[u] <=> t \in There(m) /\ u \in Parents(t)

LEMMA EraseFacts ==
    ASSUME NEW m, Indexed(m), NEW txs, NEW r, r = EraseOrphans(m, txs)
    PROVE  Indexed(r) /\ There(r) = There(m) \ txs
<1>1. /\ m.orphan \in [PoolTxs -> PoolPeers \cup {NoTransaction}]
      /\ m.prev \in [PoolTxs -> SUBSET PoolTxs]
      BY DEF Indexed, OrphanMaps
<1>2. PICK a : a = [t \in PoolTxs |-> IF t \in txs THEN NoTransaction ELSE m.orphan[t]]
      OBVIOUS
<1>3. PICK b : b = [u \in PoolTxs |-> m.prev[u] \ txs] OBVIOUS
<1>4. r = [orphan |-> a, prev |-> b] BY <1>2, <1>3 DEF EraseOrphans
<1>5. a \in [PoolTxs -> PoolPeers \cup {NoTransaction}] BY <1>1, <1>2
<1>6. b \in [PoolTxs -> SUBSET PoolTxs] BY <1>1, <1>3
<1>7. r \in OrphanMaps BY <1>4, <1>5, <1>6 DEF OrphanMaps
<1>8. There(r) = There(m) \ txs BY <1>2, <1>4 DEF There
<1>9. \A t, u \in PoolTxs : t \in r.prev[u] <=> t \in m.prev[u] /\ t \notin txs
      BY <1>3, <1>4
<1> QED BY <1>7, <1>8, <1>9 DEF Indexed

LEMMA AddFacts ==
    ASSUME NEW m, Indexed(m), NEW t \in PoolTxs, NEW p \in PoolPeers,
           NEW r, r = AddOrphanTx(m, t, p)
    PROVE  Indexed(r)
<1>1. CASE m.orphan[t] # NoTransaction BY <1>1 DEF AddOrphanTx
<1>2. CASE m.orphan[t] = NoTransaction
    <2>1. /\ m.orphan \in [PoolTxs -> PoolPeers \cup {NoTransaction}]
          /\ m.prev \in [PoolTxs -> SUBSET PoolTxs]
          BY DEF Indexed, OrphanMaps
    <2>2. PICK a : a = [m.orphan EXCEPT ![t] = p] OBVIOUS
    <2>3. PICK b : b = [u \in PoolTxs |-> IF u \in Parents(t) THEN m.prev[u] \cup {t}
                                          ELSE m.prev[u]]
          OBVIOUS
    <2>4. r = [orphan |-> a, prev |-> b] BY <1>2, <2>2, <2>3 DEF AddOrphanTx
    <2>5. a \in [PoolTxs -> PoolPeers \cup {NoTransaction}] BY <2>1, <2>2
    <2>6. b \in [PoolTxs -> SUBSET PoolTxs] BY <2>1, <2>3
    <2>7. r \in OrphanMaps BY <2>4, <2>5, <2>6 DEF OrphanMaps
    <2>8. p # NoTransaction BY PoolNobody
    <2>9. \A v \in PoolTxs : v \in There(r) <=> v \in There(m) \/ v = t
          BY <2>1, <2>2, <2>4, <2>8 DEF There
    <2>10. \A v, u \in PoolTxs : v \in r.prev[u] <=>
               v \in m.prev[u] \/ (v = t /\ u \in Parents(t))
           BY <2>3, <2>4
    <2>11. \A v, u \in PoolTxs : v \in r.prev[u] <=> v \in There(r) /\ u \in Parents(v)
        <3>1. \A u \in PoolTxs : t \notin m.prev[u] BY <1>2 DEF Indexed, There
        <3> QED BY <2>9, <2>10, <3>1 DEF Indexed
    <2> QED BY <2>7, <2>11 DEF Indexed
<1> QED BY <1>1, <1>2

\* What is evicted brings the orphans back to their limit.
LEMMA EvictionFacts ==
    ASSUME NEW m, Indexed(m), NEW e \in Evictions(m), NEW r, r = EraseOrphans(m, e)
    PROVE  Indexed(r) /\ Cardinality(There(r)) <= MaxOrphans
<1>1. Indexed(r) /\ There(r) = There(m) \ e BY EraseFacts
<1>2. PICK there : there = There(m) OBVIOUS
<1>3. there \subseteq PoolTxs BY <1>2 DEF There
<1>4. IsFiniteSet(there) BY <1>3, PoolTransactions, FS_Subset
<1>5. Cardinality(there) \in Nat BY <1>4, FS_CardinalityType
<1>6. Cardinality(there \ e) <= MaxOrphans
    <2>1. CASE Cardinality(there) <= MaxOrphans
        <3>1. e = {} BY <1>2, <2>1 DEF Evictions, There
        <3>2. there \ e = there BY <3>1
        <3> QED BY <2>1, <3>2
    <2>2. CASE ~ (Cardinality(there) <= MaxOrphans)
        <3>1. e \in SUBSET there /\ Cardinality(e) = Cardinality(there) - MaxOrphans
              BY <1>2, <2>2 DEF Evictions, There
        <3>2. there \cap e = e BY <3>1
        <3>3. Cardinality(there \ e) = Cardinality(there) - Cardinality(there \cap e)
              BY <1>4, FS_Difference
        <3>4. Cardinality(there \ e) = MaxOrphans BY <1>5, <3>1, <3>2, <3>3, PoolLimits
        <3> QED BY <3>4, PoolLimits
    <2> QED BY <2>1, <2>2
<1> QED BY <1>1, <1>2, <1>6

\* Fewer orphans are still within the limit.
LEMMA FewerFacts ==
    ASSUME NEW m, Indexed(m), Cardinality(There(m)) <= MaxOrphans,
           NEW txs, NEW r, r = EraseOrphans(m, txs)
    PROVE  Indexed(r) /\ Cardinality(There(r)) <= MaxOrphans
<1>1. Indexed(r) /\ There(r) = There(m) \ txs BY EraseFacts
<1>2. IsFiniteSet(There(m)) BY PoolTransactions, FS_Subset DEF There
<1>3. There(r) \subseteq There(m) BY <1>1
<1>4. Cardinality(There(r)) <= Cardinality(There(m)) BY <1>2, <1>3, FS_Subset
<1>5. Cardinality(There(r)) \in Nat /\ Cardinality(There(m)) \in Nat
      BY <1>2, <1>3, FS_Subset, FS_CardinalityType
<1> QED BY <1>1, <1>4, <1>5, PoolLimits

-----------------------------------------------------------------------------
(* The loop of the "tx" message.                                            *)

Works == [busy : BOOLEAN, queue : Seq(PoolTxs), visiting : SUBSET PoolTxs,
          accepted : SUBSET PoolTxs, erase : SUBSET PoolTxs,
          bad : SUBSET (PoolPeers \cup {NoTransaction})]

\* t misses a parent.
Misses(p, t) == \E o \in Spends[t] : ~HaveCoins(chain, p, o[1])

\* An orphan is done with, or the loop has still to come to it.
Reached(w, p, t) ==
    \/ Parents(t) \cap w.accepted = {}
    \/ orphan[t] \in w.bad
    \/ Misses(p, t)
    \/ t \in w.visiting
    \/ \E i \in 2..Len(w.queue) : w.queue[i] \in Parents(t)

WorkInv ==
    /\ work \in Works
    /\ ~work.busy => work = Idle
    /\ work.busy => /\ Len(work.queue) >= 1
                    /\ \A t \in Orphans \ work.erase : Reached(work, ThePool, t)

OrphanInv ==
    /\ Indexed(TheOrphans) /\ Cardinality(There(TheOrphans)) <= MaxOrphans
    /\ WorkInv

LEMMA ThereIsOrphans == There(TheOrphans) = Orphans
BY DEF There, Orphans, TheOrphans

LEMMA IdleIsWork == Idle \in Works /\ ~Idle.busy
BY DEF Idle, Works

LEMMA OrphansAre ==
    ASSUME NEW m, Indexed(m), SetOrphans(m)
    PROVE  TheOrphans' = m
<1>1. m = [orphan |-> m.orphan, prev |-> m.prev] BY DEF Indexed, OrphanMaps
<1> QED BY <1>1 DEF SetOrphans, TheOrphans

LEMMA OrphanInvAfter ==
    ASSUME NEW m, SetOrphans(m), Indexed(m), Cardinality(There(m)) <= MaxOrphans, work' = Idle
    PROVE  OrphanInv'
<1>1. TheOrphans' = m BY OrphansAre
<1>2. Indexed(TheOrphans') /\ Cardinality(There(TheOrphans')) <= MaxOrphans BY <1>1
<1>3. WorkInv' BY IdleIsWork DEF WorkInv
<1> QED BY <1>2, <1>3 DEF OrphanInv

LEMMA NoOrphansInv ==
    ASSUME orphan = [t \in PoolTxs |-> NoTransaction], byPrev = [t \in PoolTxs |-> {}],
           work = Idle
    PROVE  OrphanInv
<1>1. /\ orphan = [t \in PoolTxs |-> NoTransaction] /\ byPrev = [t \in PoolTxs |-> {}]
      /\ work = Idle
      OBVIOUS
<1>2. PICK m : m = TheOrphans OBVIOUS
<1>3. m = [orphan |-> orphan, prev |-> byPrev] BY <1>2 DEF TheOrphans
<1>4. orphan \in [PoolTxs -> PoolPeers \cup {NoTransaction}]
      /\ byPrev \in [PoolTxs -> SUBSET PoolTxs] BY <1>1
<1>5. m \in OrphanMaps BY <1>3, <1>4 DEF OrphanMaps
<1>6. There(m) = {} BY <1>1, <1>3 DEF There
<1>7. \A u \in PoolTxs : m.prev[u] = {} BY <1>1, <1>3
<1>8. Indexed(m) BY <1>5, <1>6, <1>7 DEF Indexed
<1>9. Cardinality(There(m)) = 0 BY <1>6, FS_EmptySet
<1>10. WorkInv BY <1>1, IdleIsWork DEF WorkInv
<1> QED BY <1>2, <1>8, <1>9, <1>10, PoolLimits DEF OrphanInv

LEMMA InitOrphanInv ==
    ASSUME MempoolInit
    PROVE  OrphanInv
BY NoOrphansInv DEF MempoolInit

LEMMA VerdictIs ==
    ASSUME NEW p, NEW t, NEW policy
    PROVE  Verdict(chain, p, t, policy) \in {"accepted", "missing", "refused", "invalid"}
BY DEF Verdict

\* Only a transaction that spends what the coins and the pool have not is missing any.
LEMMA MissingMisses ==
    ASSUME NEW p, NEW t, NEW policy, Verdict(chain, p, t, policy) = "missing"
    PROVE  Misses(p, t)
BY DEF Verdict, Misses

\* A transaction that is no parent of t brings t nothing.
LEMMA MissesStill ==
    ASSUME NEW p, NEW q, NEW t, NEW u, q.pool = p.pool \cup {u}, Misses(p, t), u \notin Parents(t)
    PROVE  Misses(q, t)
BY DEF Misses, HaveCoins, Parents

\* One orphan is visited.
LEMMA VisitWorkInv ==
    ASSUME OrphanInv, PoolInv, NEW u \in PoolTxs, NEW policy, VisitOrphan(u, policy)
    PROVE  WorkInv'
<1>1. u \in work.visiting /\ UNCHANGED <<chain, orphan, byPrev>> BY DEF VisitOrphan
<1>2. work.busy BY <1>1 DEF OrphanInv, WorkInv, Idle
<1>3. /\ work \in Works /\ Len(work.queue) >= 1
      /\ \A t \in Orphans \ work.erase : Reached(work, ThePool, t)
      BY <1>2 DEF OrphanInv, WorkInv
<1>4. /\ work.busy \in BOOLEAN /\ work.queue \in Seq(PoolTxs)
      /\ work.visiting \in SUBSET PoolTxs /\ work.accepted \in SUBSET PoolTxs
      /\ work.erase \in SUBSET PoolTxs /\ work.bad \in SUBSET (PoolPeers \cup {NoTransaction})
      BY <1>3 DEF Works
<1>5. PICK verdict : verdict = Verdict(chain, ThePool, u, policy) OBVIOUS
<1>6. verdict \in {"accepted", "missing", "refused", "invalid"} BY <1>5, VerdictIs
<1>7. PICK n \in Nat : n = Len(work.queue) BY <1>4
<1>8. orphan[u] \in PoolPeers \cup {NoTransaction}
      BY DEF OrphanInv, Indexed, OrphanMaps, TheOrphans
<1>9. Orphans' = Orphans BY <1>1 DEF Orphans
<1>10. PICK p : p = ThePool OBVIOUS
<1>11. CASE orphan[u] \notin work.bad /\ verdict = "accepted"
    <2>1. PICK w : w = work' OBVIOUS
    <2>2. w = AfterAccepted([work EXCEPT !.visiting = @ \ {u}], u)
          BY <1>5, <1>11, <2>1 DEF VisitOrphan
    <2>3. /\ w \in Works /\ w.busy /\ w.queue = Append(work.queue, u)
          /\ w.visiting = work.visiting \ {u} /\ w.accepted = work.accepted \cup {u}
          /\ w.erase = work.erase \cup {u} /\ w.bad = work.bad
        <3>1. w = [busy |-> work.busy, queue |-> Append(work.queue, u),
                   visiting |-> work.visiting \ {u}, accepted |-> work.accepted \cup {u},
                   erase |-> work.erase \cup {u}, bad |-> work.bad]
              BY <1>3, <2>2 DEF AfterAccepted, Works
        <3>2. Append(work.queue, u) \in Seq(PoolTxs) BY <1>4
        <3>3. /\ work.visiting \ {u} \in SUBSET PoolTxs
              /\ work.accepted \cup {u} \in SUBSET PoolTxs
              /\ work.erase \cup {u} \in SUBSET PoolTxs
              BY <1>4
        <3>4. w \in Works BY <1>4, <3>1, <3>2, <3>3 DEF Works
        <3> QED BY <1>2, <3>1, <3>4
    <2>4. Len(w.queue) = n + 1 /\ w.queue[n + 1] = u
          /\ \A i \in 1..n : w.queue[i] = work.queue[i]
          BY <1>4, <1>7, <2>3
    <2>5. SetPool(AddUnchecked(ThePool, u)) BY <1>5, <1>11 DEF VisitOrphan
    <2>6. pool' = pool \cup {u} BY <1>1, <1>5, <1>11, <2>5, AcceptPoolInv
    <2>7. PICK q : q = ThePool' OBVIOUS
    <2>8. q.pool = p.pool \cup {u} BY <1>10, <2>6, <2>7 DEF ThePool
    <2>9. ASSUME NEW t \in Orphans \ w.erase PROVE Reached(w, q, t)
        <3>1. Reached(work, p, t) BY <1>3, <1>10, <2>3
        <3>2. t # u BY <2>3, <2>9
        <3>3. CASE u \in Parents(t)
            <4>1. n + 1 \in 2..Len(w.queue) BY <1>3, <1>7, <2>4
            <4> QED BY <2>4, <3>3, <4>1 DEF Reached
        <3>4. CASE u \notin Parents(t)
            <4>1. CASE Misses(p, t) BY <2>8, <3>4, <4>1, MissesStill DEF Reached
            <4>2. CASE \E i \in 2..Len(work.queue) : work.queue[i] \in Parents(t)
                <5>1. PICK i \in 2..n : work.queue[i] \in Parents(t) BY <1>7, <4>2
                <5>2. i \in 2..Len(w.queue) /\ w.queue[i] = work.queue[i] BY <2>4
                <5> QED BY <5>1, <5>2 DEF Reached
            <4>3. CASE Parents(t) \cap work.accepted = {} \/ orphan[t] \in work.bad
                       \/ t \in work.visiting
                  BY <2>3, <3>2, <3>4, <4>3 DEF Reached
            <4> QED BY <3>1, <4>1, <4>2, <4>3 DEF Reached
        <3> QED BY <3>3, <3>4
    <2>10. (\A t \in Orphans \ work.erase : Reached(work, ThePool, t))'
        <3>1. \A t : Reached(work, ThePool, t)' <=> Reached(w, q, t)
              BY <1>1, <2>1, <2>7 DEF Reached, Misses
        <3> QED BY <1>9, <2>1, <2>9, <3>1
    <2> QED BY <1>3, <1>7, <2>1, <2>3, <2>4, <2>10 DEF WorkInv
<1>12. CASE ~ (orphan[u] \notin work.bad /\ verdict = "accepted")
    <2>1. PICK w : w = work' OBVIOUS
    <2>2. UNCHANGED <<pool, nextTx>> BY <1>5, <1>12 DEF VisitOrphan
    <2>3. PICK v : v = [work EXCEPT !.visiting = @ \ {u}] OBVIOUS
    <2>4. \/ w = v /\ (orphan[u] \in work.bad \/ verdict = "missing")
          \/ w = [v EXCEPT !.erase = @ \cup {u}]
          \/ w = [v EXCEPT !.erase = @ \cup {u}, !.bad = @ \cup {orphan[u]}]
          BY <1>5, <1>6, <1>12, <2>1, <2>3 DEF VisitOrphan
    <2>5. /\ w \in Works /\ w.busy /\ w.queue = work.queue
          /\ w.visiting = work.visiting \ {u} /\ w.accepted = work.accepted
          /\ work.erase \subseteq w.erase /\ work.bad \subseteq w.bad
          /\ u \in w.erase \/ orphan[u] \in work.bad \/ verdict = "missing"
        <3>1. PICK e, b : w = [busy |-> work.busy, queue |-> work.queue,
                               visiting |-> work.visiting \ {u},
                               accepted |-> work.accepted, erase |-> e, bad |-> b]
                          /\ \/ /\ e = work.erase /\ b = work.bad
                                /\ (orphan[u] \in work.bad \/ verdict = "missing")
                             \/ /\ e = work.erase \cup {u}
                                /\ b = work.bad \/ b = work.bad \cup {orphan[u]}
              BY <1>3, <2>3, <2>4 DEF Works
        <3>2. /\ work.visiting \ {u} \in SUBSET PoolTxs
              /\ e \in SUBSET PoolTxs /\ b \in SUBSET (PoolPeers \cup {NoTransaction})
              BY <1>4, <1>8, <3>1
        <3>3. w \in Works BY <1>4, <3>1, <3>2 DEF Works
        <3> QED BY <1>2, <3>1, <3>3
    <2>6. ASSUME NEW t \in Orphans \ w.erase PROVE Reached(w, p, t)
        <3>1. Reached(work, p, t) BY <1>3, <1>10, <2>5
        <3>2. CASE t # u BY <2>5, <3>1, <3>2 DEF Reached
        <3>3. CASE t = u
            <4>1. orphan[u] \in work.bad \/ verdict = "missing" BY <2>5, <2>6, <3>3
            <4>2. CASE orphan[u] \in work.bad BY <2>5, <3>3, <4>2 DEF Reached
            <4>3. CASE verdict = "missing"
                  BY <1>5, <1>10, <3>3, <4>3, MissingMisses DEF Reached
            <4> QED BY <4>1, <4>2, <4>3
        <3> QED BY <3>2, <3>3
    <2>7. (\A t \in Orphans \ work.erase : Reached(work, ThePool, t))'
        <3>1. ThePool' = p BY <1>10, <2>2 DEF ThePool
        <3>2. \A t : Reached(work, ThePool, t)' <=> Reached(w, p, t)
              BY <1>1, <2>1, <3>1 DEF Reached, Misses
        <3> QED BY <1>9, <2>1, <2>6, <3>2
    <2> QED BY <1>3, <2>1, <2>5, <2>7 DEF WorkInv
<1> QED BY <1>11, <1>12

LEMMA ReceiveOrphanInv ==
    ASSUME OrphanInv, NEW p \in PoolPeers, NEW t \in PoolTxs, NEW policy,
           ReceiveTx(p, t, policy)
    PROVE  OrphanInv'
<1>1. PICK verdict : verdict = Verdict(chain, ThePool, t, policy) OBVIOUS
<1>2. ~work.busy /\ work = Idle BY DEF ReceiveTx, OrphanInv, WorkInv
<1>3. PICK m : m = TheOrphans OBVIOUS
<1>4. Indexed(m) /\ Cardinality(There(m)) <= MaxOrphans BY <1>3 DEF OrphanInv
<1>5. CASE verdict = "accepted"
    <2>1. /\ UNCHANGED <<orphan, byPrev>>
          /\ work' = IF t \in ZSpends THEN Idle
                     ELSE [Idle EXCEPT !.busy = TRUE, !.queue = <<t>>,
                                       !.visiting = byPrev[t], !.accepted = {t}]
          BY <1>1, <1>5 DEF ReceiveTx
    <2>2. TheOrphans' = m BY <1>3, <2>1 DEF TheOrphans
    <2>3. WorkInv'
        <3>1. CASE t \in ZSpends BY <2>1, <3>1, IdleIsWork DEF WorkInv
        <3>2. CASE t \notin ZSpends
            <4>1. PICK w : w = work' OBVIOUS
            <4>2. w = [busy |-> TRUE, queue |-> <<t>>, visiting |-> byPrev[t],
                       accepted |-> {t}, erase |-> {}, bad |-> {}]
                  BY <2>1, <3>2, <4>1 DEF Idle
            <4>3. byPrev[t] \in SUBSET PoolTxs
                  BY <1>3, <1>4 DEF Indexed, OrphanMaps, TheOrphans
            <4>4. <<t>> \in Seq(PoolTxs) /\ Len(<<t>>) = 1 OBVIOUS
            <4>5. w \in Works /\ w.busy /\ Len(w.queue) = 1 BY <4>2, <4>3, <4>4 DEF Works
            <4>6. \A u \in Orphans' : Reached(work, ThePool, u)'
                <5>1. TAKE u \in Orphans'
                <5>2. u \in Orphans BY <2>1 DEF Orphans
                <5>3. u \in PoolTxs /\ u \in There(m) BY <1>3, <5>2, ThereIsOrphans DEF Orphans
                <5>4. CASE t \in Parents(u)
                    <6>1. u \in byPrev[t] BY <1>3, <1>4, <5>3, <5>4 DEF Indexed, TheOrphans
                    <6> QED BY <4>1, <4>2, <6>1 DEF Reached
                <5>5. CASE t \notin Parents(u)
                    <6>1. Parents(u) \cap work'.accepted = {} BY <4>1, <4>2, <5>5
                    <6> QED BY <6>1 DEF Reached, Parents
                <5> QED BY <5>4, <5>5
            <4> QED BY <4>1, <4>5, <4>6 DEF WorkInv
        <3> QED BY <3>1, <3>2
    <2> QED BY <1>4, <2>2, <2>3 DEF OrphanInv
<1>6. CASE verdict = "missing"
    <2>1. PICK a : a = AddOrphanTx(m, t, p) OBVIOUS
    <2>2. work' = work /\ \E e \in Evictions(a) : SetOrphans(EraseOrphans(a, e))
          BY <1>1, <1>3, <1>6, <2>1 DEF ReceiveTx
    <2>3. PICK e \in Evictions(a) : SetOrphans(EraseOrphans(a, e)) BY <2>2
    <2>4. Indexed(a) BY <1>4, <2>1, AddFacts
    <2>5. PICK r : r = EraseOrphans(a, e) OBVIOUS
    <2>6. Indexed(r) /\ Cardinality(There(r)) <= MaxOrphans BY <2>4, <2>5, EvictionFacts
    <2> QED BY <1>2, <2>2, <2>3, <2>5, <2>6, OrphanInvAfter
<1>7. CASE verdict \notin {"accepted", "missing"}
    <2>1. UNCHANGED <<orphan, byPrev, work>> BY <1>1, <1>7 DEF ReceiveTx
    <2>2. TheOrphans' = m BY <1>3, <2>1 DEF TheOrphans
    <2>3. WorkInv' BY <1>2, <2>1, IdleIsWork DEF WorkInv
    <2> QED BY <1>4, <2>2, <2>3 DEF OrphanInv
<1> QED BY <1>5, <1>6, <1>7

LEMMA NextInQueueInv ==
    ASSUME OrphanInv, NextInQueue
    PROVE  OrphanInv'
<1>1. /\ work.busy /\ work.visiting = {} /\ Len(work.queue) > 1
      /\ work' = [work EXCEPT !.queue = Tail(@), !.visiting = byPrev[work.queue[2]]]
      /\ UNCHANGED <<chain, pool, nextTx, orphan, byPrev>>
      BY DEF NextInQueue
<1>2. /\ work \in Works /\ \A t \in Orphans \ work.erase : Reached(work, ThePool, t)
      BY <1>1 DEF OrphanInv, WorkInv
<1>3. /\ work.busy \in BOOLEAN /\ work.queue \in Seq(PoolTxs)
      /\ work.visiting \in SUBSET PoolTxs /\ work.accepted \in SUBSET PoolTxs
      /\ work.erase \in SUBSET PoolTxs /\ work.bad \in SUBSET (PoolPeers \cup {NoTransaction})
      BY <1>2 DEF Works
<1>4. PICK n \in Nat : n = Len(work.queue) BY <1>3
<1>5. PICK s : s = work.queue OBVIOUS
<1>6. s \in Seq(PoolTxs) /\ Len(s) = n /\ n > 1 BY <1>1, <1>3, <1>4, <1>5
<1>7. /\ Tail(s) \in Seq(PoolTxs) /\ Len(Tail(s)) = n - 1 /\ s[2] \in PoolTxs
      /\ \A i \in 1..n - 1 : Tail(s)[i] = s[i + 1]
      BY <1>6
<1>8. PICK w : w = work' OBVIOUS
<1>9. w = [busy |-> work.busy, queue |-> Tail(s), visiting |-> byPrev[s[2]],
           accepted |-> work.accepted, erase |-> work.erase, bad |-> work.bad]
      BY <1>1, <1>2, <1>5, <1>8 DEF Works
<1>10. byPrev[s[2]] \in SUBSET PoolTxs
       BY <1>7 DEF OrphanInv, Indexed, OrphanMaps, TheOrphans
<1>11. w \in Works BY <1>3, <1>7, <1>9, <1>10 DEF Works
<1>12. PICK p : p = ThePool OBVIOUS
<1>13. ThePool' = p /\ TheOrphans' = TheOrphans /\ Orphans' = Orphans
       BY <1>1, <1>12 DEF ThePool, TheOrphans, Orphans
<1>14. ASSUME NEW t \in Orphans \ work.erase PROVE Reached(w, p, t)
    <2>1. Reached(work, p, t) BY <1>2, <1>12
    <2>2. t \in PoolTxs /\ t \in There(TheOrphans) BY ThereIsOrphans DEF Orphans
    <2>3. CASE \E i \in 2..Len(work.queue) : work.queue[i] \in Parents(t)
        <3>1. PICK i \in 2..n : s[i] \in Parents(t) BY <1>4, <1>5, <2>3
        <3>2. CASE i = 2
            <4>1. t \in byPrev[s[2]]
                  BY <1>7, <2>2, <3>1, <3>2 DEF OrphanInv, Indexed, TheOrphans
            <4> QED BY <1>9, <4>1 DEF Reached
        <3>3. CASE i # 2
            <4>1. i - 1 \in 2..Len(Tail(s)) BY <1>7, <3>3
            <4>2. i - 1 \in 1..n - 1 /\ i - 1 + 1 = i BY <3>3
            <4>3. Tail(s)[i - 1] \in Parents(t) BY <1>7, <3>1, <4>2
            <4>4. i - 1 \in 2..Len(w.queue) /\ w.queue[i - 1] \in Parents(t)
                  BY <1>9, <4>1, <4>3
            <4> QED BY <4>4 DEF Reached
        <3> QED BY <3>2, <3>3
    <2>4. CASE ~ \E i \in 2..Len(work.queue) : work.queue[i] \in Parents(t)
        <3>1. Parents(t) \cap work.accepted = {} \/ orphan[t] \in work.bad \/ Misses(p, t)
              BY <1>1, <2>1, <2>4 DEF Reached
        <3> QED BY <1>9, <3>1 DEF Reached
    <2> QED BY <2>3, <2>4
<1>15. (\A t \in Orphans \ work.erase : Reached(work, ThePool, t))'
    <2>1. \A t : Reached(work, ThePool, t)' <=> Reached(w, p, t)
          BY <1>1, <1>8, <1>13 DEF Reached, Misses
    <2>2. work'.erase = work.erase BY <1>8, <1>9
    <2> QED BY <1>13, <1>14, <2>1, <2>2
<1>16. Len(w.queue) >= 1 /\ w.busy BY <1>1, <1>6, <1>7, <1>9
<1>17. WorkInv' BY <1>8, <1>11, <1>15, <1>16 DEF WorkInv
<1> QED BY <1>13, <1>17 DEF OrphanInv

LEMMA NextOrphanInv ==
    ASSUME OrphanInv, PoolInv, MempoolNext
    PROVE  OrphanInv'
<1>1. ASSUME UNCHANGED <<orphan, byPrev, work>>, ~work.busy PROVE OrphanInv'
    <2>1. TheOrphans' = TheOrphans /\ work = Idle BY <1>1 DEF TheOrphans, OrphanInv, WorkInv
    <2>2. WorkInv' BY <1>1, <2>1, IdleIsWork DEF WorkInv
    <2> QED BY <2>1, <2>2 DEF OrphanInv
<1>2. ASSUME NEW b \in PoolBlocks, ConnectTip(b) PROVE OrphanInv'
      BY <1>1, <1>2 DEF ConnectTip, CanConnect
<1>3. ASSUME NEW policy \in Policies, DisconnectTip(policy) PROVE OrphanInv'
      BY <1>1, <1>3 DEF DisconnectTip, CanDisconnect
<1>4. ASSUME NEW policy \in Policies, NEW p \in PoolPeers, NEW t \in PoolTxs,
             ReceiveTx(p, t, policy)
      PROVE  OrphanInv'
      BY <1>4, ReceiveOrphanInv
<1>5. ASSUME NEW policy \in Policies, NEW t \in PoolTxs, VisitOrphan(t, policy)
      PROVE  OrphanInv'
    <2>1. WorkInv' BY <1>5, VisitWorkInv
    <2>2. TheOrphans' = TheOrphans BY <1>5 DEF VisitOrphan, TheOrphans
    <2> QED BY <2>1, <2>2 DEF OrphanInv
<1>6. ASSUME NEW t \in PoolTxs, LockTransaction(t) PROVE OrphanInv'
      BY <1>1, <1>6 DEF LockTransaction
<1>7. CASE NextInQueue BY <1>7, NextInQueueInv
<1>8. CASE FinishTx
    <2>1. PICK m : m = TheOrphans OBVIOUS
    <2>2. PICK r : r = EraseOrphans(m, work.erase) OBVIOUS
    <2>3. SetOrphans(r) /\ work' = Idle BY <1>8, <2>1, <2>2 DEF FinishTx
    <2>4. Indexed(r) /\ Cardinality(There(r)) <= MaxOrphans
          BY <2>1, <2>2, FewerFacts DEF OrphanInv
    <2> QED BY <2>3, <2>4, OrphanInvAfter
<1>9. ASSUME NEW p \in PoolPeers, PeerGone(p) PROVE OrphanInv'
    <2>1. PICK m : m = TheOrphans OBVIOUS
    <2>2. PICK r : r = EraseOrphans(m, {t \in PoolTxs : orphan[t] = p}) OBVIOUS
    <2>3. SetOrphans(r) /\ work' = work /\ ~work.busy BY <1>9, <2>1, <2>2 DEF PeerGone
    <2>4. Indexed(r) /\ Cardinality(There(r)) <= MaxOrphans
          BY <2>1, <2>2, FewerFacts DEF OrphanInv
    <2>5. work' = Idle BY <2>3 DEF OrphanInv, WorkInv
    <2> QED BY <2>3, <2>4, <2>5, OrphanInvAfter
<1> QED BY <1>2, <1>3, <1>4, <1>5, <1>6, <1>7, <1>8, <1>9 DEF MempoolNext

-----------------------------------------------------------------------------
(* Theorems                                                                 *)

MempoolInv == PoolInv /\ OrphanInv

LEMMA TypesFollow == MempoolInv => MempoolTypeOK
<1> SUFFICES ASSUME MempoolInv PROVE MempoolTypeOK OBVIOUS
<1>1. chain \in Seq(PoolBlocks) BY DEF MempoolInv, PoolInv, ChainOK
<1>2. pool \subseteq PoolTxs \ Minted /\ nextTx \in [Outpoints -> PoolTxs \cup {NoTransaction}]
      BY DEF MempoolInv, PoolInv, Clear, GoodPool, Pools, ThePool
<1>3. /\ orphan \in [PoolTxs -> PoolPeers \cup {NoTransaction}]
      /\ byPrev \in [PoolTxs -> SUBSET PoolTxs]
      BY DEF MempoolInv, OrphanInv, Indexed, OrphanMaps, TheOrphans
<1>4. work.busy \in BOOLEAN /\ work.queue \in Seq(PoolTxs)
    <2>1. work \in Works BY DEF MempoolInv, OrphanInv, WorkInv
    <2> QED BY <2>1 DEF Works
<1> QED BY <1>1, <1>2, <1>3, <1>4 DEF MempoolTypeOK

LEMMA PoolSoundFollows == PoolInv => PoolSound
<1> SUFFICES ASSUME PoolInv PROVE PoolSound OBVIOUS
<1>1. /\ Backed(chain, ThePool) /\ GoodPool(ThePool)
      BY DEF PoolInv, Clear
<1>2. \A t \in pool \ ZSpends : \A o \in Spends[t] :
          o[1] \in pool \/ (Available(chain, o) /\ Mature(chain, o))
      BY <1>1 DEF Backed, ThePool
<1>3. \A o \in Outpoints : \A t \in PoolTxs :
          nextTx[o] = t <=> t \in pool /\ o \in Spends[t]
      BY <1>1 DEF GoodPool, ThePool
<1>4. \A t \in PoolTxs : \A o \in Spends[t] : t \notin ZSpends BY PoolTransactions
<1> QED BY <1>2, <1>3, <1>4 DEF PoolSound

LEMMA ResolvedFollows == MempoolInv => OrphansResolved
<1> SUFFICES ASSUME MempoolInv PROVE OrphansResolved OBVIOUS
<1>1. Indexed(TheOrphans) /\ Cardinality(Orphans) <= MaxOrphans
      BY ThereIsOrphans DEF MempoolInv, OrphanInv
<1>2. \A t, u \in PoolTxs : t \in byPrev[u] <=> t \in Orphans /\ u \in Parents(t)
      BY <1>1, ThereIsOrphans DEF Indexed, TheOrphans
<1>3. ASSUME work.busy, work.visiting = {}, Len(work.queue) = 1,
             NEW t \in Orphans \ work.erase
      PROVE  \/ Parents(t) \cap work.accepted = {}
             \/ orphan[t] \in work.bad
             \/ \E o \in Spends[t] : ~HaveCoins(chain, ThePool, o[1])
    <2>1. Reached(work, ThePool, t) BY <1>3 DEF MempoolInv, OrphanInv, WorkInv
    <2>2. ~ \E i \in 2..Len(work.queue) : work.queue[i] \in Parents(t) BY <1>3
    <2> QED BY <1>3, <2>1, <2>2 DEF Reached, Misses
<1> QED BY <1>1, <1>2, <1>3 DEF OrphansResolved

LEMMA StutterMempoolInv ==
    ASSUME MempoolInv, UNCHANGED poolVars
    PROVE  MempoolInv'
<1>1. /\ chain' = chain /\ ThePool' = ThePool /\ TheOrphans' = TheOrphans
      /\ Orphans' = Orphans /\ work' = work /\ orphan' = orphan
      BY DEF poolVars, ThePool, TheOrphans, Orphans
<1>2. PoolInv' BY <1>1 DEF MempoolInv, PoolInv
<1>3. WorkInv' BY <1>1 DEF MempoolInv, OrphanInv, WorkInv, Reached, Misses
<1> QED BY <1>1, <1>2, <1>3 DEF MempoolInv, OrphanInv

\* The pool and the orphans keep their invariant: no transaction of the pool is
\* in the chain, and an orphan that was not reached yet is one the loop of the
\* "tx" message has still to come to.
THEOREM MempoolInvariant == MempoolSpec => []MempoolInv
<1>1. MempoolInit => MempoolInv BY InitPoolInv, InitOrphanInv DEF MempoolInv
<1>2. MempoolInv /\ [MempoolNext]_poolVars => MempoolInv'
      BY NextPoolInv, NextOrphanInv, StutterMempoolInv DEF MempoolInv
<1> QED BY <1>1, <1>2, PTL DEF MempoolSpec

\* The variables of the pool and the orphans keep their types, and no coinbase
\* or coinstake is ever in the pool.
THEOREM MempoolTypeCorrect == MempoolSpec => []MempoolTypeOK
BY MempoolInvariant, TypesFollow, PTL

\* What CTxMemPool::check asserts: the pool spends unspent, ripe coins of the
\* chain or outputs of its own, no two the same, whatever blocks come and go,
\* whatever is resurrected, refused or locked.
THEOREM PoolAlwaysSound == MempoolSpec => []PoolSound
<1>1. MempoolInv => PoolSound BY PoolSoundFollows DEF MempoolInv
<1> QED BY <1>1, MempoolInvariant, PTL

\* An accepted transaction leaves no orphan behind that has all its parents, and
\* the two maps of orphans index each other within their limit.
THEOREM OrphansAlwaysResolved == MempoolSpec => []OrphansResolved
BY MempoolInvariant, ResolvedFollows, PTL

-----------------------------------------------------------------------------
(* The wallet: what it knows of transactions.                               *)

WalletEntries == [hashBlock : PoolBlocks \cup {NullHash}, credit : (SUBSET Mine) \cup {Stale}]
Wallets == UNION {[D -> WalletEntries] : D \in SUBSET PoolTxs}

\* Transactions that pay to the wallet or spend what is paid to it.
Ours == {t \in PoolTxs : Makes[t] \cap Mine # {} \/ Spends[t] \cap Mine # {}}

\* An entry has a block that contains the transaction, or none, and counts of
\* the transaction's own outputs.
Known(w) ==
    /\ w \in Wallets /\ DOMAIN w \subseteq Ours
    /\ \A t \in DOMAIN w :
          /\ w[t].hashBlock # NullHash => Contains(Contents[w[t].hashBlock], t)
          /\ w[t].credit # Stale => w[t].credit \subseteq Makes[t]

\* It has those of U that are its own, and counts nothing that one of them spends.
Knows(w, U) == U \cap Ours \subseteq DOMAIN w
Fresh(w, U) ==
    \A t \in DOMAIN w : w[t].credit # Stale =>
        \A o \in w[t].credit : \A u \in U : o \notin Spends[u]
\* What a chain contains has there the block it is in.
Placed(w, blocks) ==
    \A h \in DOMAIN blocks : \A t \in DOMAIN w :
        Contains(Contents[blocks[h]], t) => w[t].hashBlock = blocks[h]
Follows(w, blocks, U) == Known(w) /\ Knows(w, U) /\ Fresh(w, U) /\ Placed(w, blocks)

LEMMA WalletTyped ==
    ASSUME NEW w \in Wallets
    PROVE  /\ DOMAIN w \subseteq PoolTxs /\ w \in [DOMAIN w -> WalletEntries]
           /\ w = [u \in DOMAIN w |-> w[u]]
           /\ \A u \in DOMAIN w : /\ w[u] \in WalletEntries
                                  /\ w[u].hashBlock \in PoolBlocks \cup {NullHash}
                                  /\ w[u].credit \in (SUBSET Mine) \cup {Stale}
                                  /\ w[u] = [hashBlock |-> w[u].hashBlock, credit |-> w[u].credit]
<1>1. PICK D \in SUBSET PoolTxs : w \in [D -> WalletEntries] BY DEF Wallets
<1>2. DOMAIN w = D BY <1>1
<1>3. w \in [DOMAIN w -> WalletEntries] BY <1>1, <1>2
<1>4. \A u \in DOMAIN w : w[u] \in WalletEntries BY <1>3
<1>5. \A e \in WalletEntries : /\ e.hashBlock \in PoolBlocks \cup {NullHash}
                         /\ e.credit \in (SUBSET Mine) \cup {Stale}
                         /\ e = [hashBlock |-> e.hashBlock, credit |-> e.credit]
      BY DEF WalletEntries
<1>6. w = [u \in DOMAIN w |-> w[u]] BY <1>3
<1> QED BY <1>2, <1>3, <1>4, <1>5, <1>6

LEMMA IsWallet ==
    ASSUME NEW w, NEW D \in SUBSET PoolTxs, w = [u \in D |-> w[u]],
           \A u \in D : w[u] \in WalletEntries
    PROVE  w \in Wallets
<1>1. w \in [D -> WalletEntries] OBVIOUS
<1> QED BY <1>1 DEF Wallets

\* MarkDirty keeps all but the credit.
LEMMA DirtyParts ==
    ASSUME NEW w, Known(w), NEW txs, NEW v, v = MarkDirty(w, txs)
    PROVE  /\ Known(v) /\ DOMAIN v = DOMAIN w
           /\ \A u \in DOMAIN w :
                 /\ v[u].hashBlock = w[u].hashBlock
                 /\ v[u].credit = IF u \in txs THEN Stale ELSE w[u].credit
<1>1. w \in Wallets /\ DOMAIN w \subseteq Ours /\ DOMAIN w \subseteq PoolTxs
      BY WalletTyped DEF Known
<1>2. PICK D : D = DOMAIN w OBVIOUS
<1>3. v = [u \in D |-> IF u \in txs THEN [w[u] EXCEPT !.credit = Stale] ELSE w[u]]
      BY <1>2 DEF MarkDirty
<1>4. DOMAIN v = D BY <1>3
<1>5. ASSUME NEW u \in D
      PROVE  /\ v[u] \in WalletEntries /\ v[u].hashBlock = w[u].hashBlock
             /\ v[u].credit = IF u \in txs THEN Stale ELSE w[u].credit
    <2>1. PICK e : e = w[u] OBVIOUS
    <2>2. /\ e.hashBlock \in PoolBlocks \cup {NullHash}
          /\ e.credit \in (SUBSET Mine) \cup {Stale}
          /\ e = [hashBlock |-> e.hashBlock, credit |-> e.credit]
          BY <1>1, <1>2, <1>5, <2>1, WalletTyped
    <2>3. CASE u \in txs
        <3>1. v[u] = [e EXCEPT !.credit = Stale] BY <1>3, <1>5, <2>1, <2>3
        <3>2. v[u] = [hashBlock |-> e.hashBlock, credit |-> Stale] BY <2>2, <3>1
        <3> QED BY <2>1, <2>2, <2>3, <3>2 DEF WalletEntries
    <2>4. CASE u \notin txs
        <3>1. v[u] = e BY <1>3, <1>5, <2>1, <2>4
        <3> QED BY <2>1, <2>2, <2>4, <3>1 DEF WalletEntries
    <2> QED BY <2>3, <2>4
<1>6. v \in Wallets
    <2>1. v = [u \in D |-> v[u]] BY <1>3, <1>4
    <2>2. D \in SUBSET PoolTxs BY <1>1, <1>2
    <2> QED BY <1>5, <2>1, <2>2, IsWallet
<1>7. Known(v) BY <1>1, <1>2, <1>4, <1>5, <1>6 DEF Known
<1> QED BY <1>2, <1>4, <1>5, <1>7

\* The block the entry has then, when at is the one it is given.
Dated(w, t, hash, at) ==
    at = IF hash = NullHash /\ t \in DOMAIN w THEN w[t].hashBlock ELSE hash

Added(w, t, hash, v) ==
    /\ Known(v) /\ DOMAIN v = DOMAIN w \cup {t}
    /\ \A u \in DOMAIN w : u # t => v[u] = w[u]
    /\ v[t].credit = Stale
    /\ Dated(w, t, hash, v[t].hashBlock)

LEMMA AddParts ==
    ASSUME NEW w, Known(w), NEW t \in Ours, NEW hash \in PoolBlocks \cup {NullHash},
           hash # NullHash => Contains(Contents[hash], t),
           NEW v, v = AddToWallet(w, t, hash)
    PROVE  Added(w, t, hash, v)
<1>1. w \in Wallets /\ DOMAIN w \subseteq Ours /\ DOMAIN w \subseteq PoolTxs
      BY WalletTyped DEF Known
<1>2. PICK D : D = DOMAIN w \cup {t} OBVIOUS
<1>3. PICK at : at = IF hash = NullHash /\ t \in DOMAIN w THEN w[t].hashBlock ELSE hash
      OBVIOUS
<1>4. v = [u \in D |-> IF u = t THEN [hashBlock |-> at, credit |-> Stale] ELSE w[u]]
      BY <1>2, <1>3 DEF AddToWallet
<1>5. DOMAIN v = D /\ v[t] = [hashBlock |-> at, credit |-> Stale] BY <1>2, <1>4
<1>6. at \in PoolBlocks \cup {NullHash} /\ (at # NullHash => Contains(Contents[at], t))
    <2>1. CASE hash = NullHash /\ t \in DOMAIN w
        <3>1. at = w[t].hashBlock BY <1>3, <2>1
        <3> QED BY <1>1, <2>1, <3>1, WalletTyped DEF Known
    <2>2. CASE ~(hash = NullHash /\ t \in DOMAIN w) BY <1>3, <2>2
    <2> QED BY <2>1, <2>2
<1>7. ASSUME NEW u \in D
      PROVE  /\ v[u] \in WalletEntries
             /\ v[u].hashBlock # NullHash => Contains(Contents[v[u].hashBlock], u)
             /\ v[u].credit # Stale => v[u].credit \subseteq Makes[u]
    <2>1. CASE u = t BY <1>5, <1>6, <2>1 DEF WalletEntries
    <2>2. CASE u # t
        <3>1. u \in DOMAIN w /\ v[u] = w[u] BY <1>2, <1>4, <1>7, <2>2
        <3> QED BY <1>1, <3>1, WalletTyped DEF Known
    <2> QED BY <2>1, <2>2
<1>8. v \in Wallets
    <2>1. v = [u \in D |-> v[u]] BY <1>4, <1>5
    <2>2. D \in SUBSET PoolTxs BY <1>1, <1>2 DEF Ours
    <2> QED BY <1>7, <2>1, <2>2, IsWallet
<1>9. Known(v) BY <1>1, <1>2, <1>5, <1>7, <1>8 DEF Known
<1>10. \A u \in DOMAIN w : u # t => v[u] = w[u] BY <1>2, <1>4
<1> QED BY <1>2, <1>3, <1>5, <1>9, <1>10 DEF Added, Dated

LEMMA InvolvesOurs ==
    ASSUME NEW w, Known(w), NEW t \in PoolTxs, Involves(w, t)
    PROVE  t \in Ours
BY DEF Known, Involves, Ours

LEMMA OwnOutpoint ==
    ASSUME NEW o \in Mine
    PROVE  o \in Outpoints /\ o[1] \in Ours /\ o \in Makes[o[1]]
<1>1. o \in Outpoints BY WalletTransactions
<1>2. PICK u \in PoolTxs : o \in Makes[u] BY <1>1 DEF Outpoints
<1>3. o[1] = u BY <1>2, PoolTransactions
<1> QED BY <1>1, <1>2, <1>3 DEF Ours

\* What SyncTransaction does to the wallet.
Synced(w, t, hash, v) ==
    /\ Known(v)
    /\ DOMAIN v = IF Involves(w, t) THEN DOMAIN w \cup {t} ELSE DOMAIN w
    /\ \A u \in DOMAIN w : v[u].hashBlock =
          IF Involves(w, t) /\ u = t /\ hash # NullHash THEN hash ELSE w[u].hashBlock
    /\ \A u \in DOMAIN w : v[u].credit = Stale \/ v[u].credit = w[u].credit
    /\ Involves(w, t) =>
          /\ t \notin DOMAIN w => v[t].hashBlock = hash
          /\ v[t].credit = Stale
          /\ \A u \in Parents(t) \cap DOMAIN w : v[u].credit = Stale

LEMMA CommitSynced ==
    ASSUME NEW w, Known(w), NEW t \in PoolTxs, Involves(w, t),
           NEW hash \in PoolBlocks \cup {NullHash},
           hash # NullHash => Contains(Contents[hash], t),
           NEW v, v = MarkDirty(AddToWallet(w, t, hash), Parents(t))
    PROVE  Synced(w, t, hash, v)
<1>1. t \in Ours BY InvolvesOurs
<1>2. PICK a : a = AddToWallet(w, t, hash) OBVIOUS
<1>3. PICK at : at = IF hash = NullHash /\ t \in DOMAIN w THEN w[t].hashBlock ELSE hash
      OBVIOUS
<1>4. /\ Known(a) /\ DOMAIN a = DOMAIN w \cup {t}
      /\ \A u \in DOMAIN w : u # t => a[u] = w[u]
      /\ a[t].credit = Stale /\ a[t].hashBlock = at
    <2>1. Added(w, t, hash, a) BY <1>1, <1>2, AddParts
    <2> QED BY <1>3, <2>1 DEF Added, Dated
<1>5. v = MarkDirty(a, Parents(t)) BY <1>2
<1>6. /\ Known(v) /\ DOMAIN v = DOMAIN a
      /\ \A u \in DOMAIN a :
            /\ v[u].hashBlock = a[u].hashBlock
            /\ v[u].credit = IF u \in Parents(t) THEN Stale ELSE a[u].credit
      BY <1>4, <1>5, DirtyParts
<1>7. ASSUME NEW u \in DOMAIN w
      PROVE  /\ v[u].hashBlock = IF Involves(w, t) /\ u = t /\ hash # NullHash
                                 THEN hash ELSE w[u].hashBlock
             /\ v[u].credit = Stale \/ v[u].credit = w[u].credit
    <2>1. CASE u = t BY <1>3, <1>4, <1>6, <2>1
    <2>2. CASE u # t
        <3>1. a[u] = w[u] BY <1>4, <2>2
        <3> QED BY <1>4, <1>6, <2>2, <3>1
    <2> QED BY <2>1, <2>2
<1>8. t \notin DOMAIN w => v[t].hashBlock = hash BY <1>3, <1>4, <1>6
<1>9. v[t].credit = Stale BY <1>4, <1>6
<1>10. \A u \in Parents(t) \cap DOMAIN w : v[u].credit = Stale BY <1>4, <1>6
<1>11. DOMAIN v = DOMAIN w \cup {t} BY <1>4, <1>6
<1> QED BY <1>6, <1>7, <1>8, <1>9, <1>10, <1>11 DEF Synced

LEMMA SyncSynced ==
    ASSUME NEW w, Known(w), NEW t \in PoolTxs,
           NEW hash \in PoolBlocks \cup {NullHash},
           hash # NullHash => Contains(Contents[hash], t),
           NEW v, v = SyncTransaction(w, t, hash)
    PROVE  Synced(w, t, hash, v)
<1>1. CASE Involves(w, t)
    <2>1. t \in ZSpends => Parents(t) = {} BY PoolTransactions DEF Parents
    <2>2. v = MarkDirty(AddToWallet(w, t, hash), Parents(t))
          BY <1>1, <2>1 DEF SyncTransaction
    <2> QED BY <1>1, <2>2, CommitSynced
<1>2. CASE ~Involves(w, t)
    <2>1. v = w BY <1>2 DEF SyncTransaction
    <2> QED BY <1>2, <2>1 DEF Synced
<1> QED BY <1>1, <1>2

\* What is counted is still unspent, with t among the spenders.
LEMMA SyncedFresh ==
    ASSUME NEW w, Known(w), NEW t \in PoolTxs, NEW hash, NEW v, Synced(w, t, hash, v),
           NEW U, Fresh(w, U)
    PROVE  Fresh(v, U \cup {t})
<1>1. SUFFICES ASSUME NEW x \in DOMAIN v, v[x].credit # Stale, NEW o \in v[x].credit,
                      NEW u \in U \cup {t}, o \in Spends[u]
               PROVE  FALSE
      BY DEF Fresh
<1>2. x \in DOMAIN w BY <1>1 DEF Synced
<1>3. v[x].credit = w[x].credit BY <1>1, <1>2 DEF Synced
<1>4. u = t
    <2>1. \A y \in U : o \notin Spends[y] BY <1>1, <1>2, <1>3 DEF Fresh
    <2> QED BY <1>1, <2>1
<1>5. w \in Wallets /\ o \in Makes[x] BY <1>1, <1>2, <1>3 DEF Known
<1>6. x \in PoolTxs /\ w[x].credit \in (SUBSET Mine) \cup {Stale}
    <2>1. DOMAIN w \subseteq PoolTxs BY <1>5, WalletTyped
    <2>2. w[x].credit \in (SUBSET Mine) \cup {Stale} BY <1>2, <1>5, WalletTyped
    <2> QED BY <1>2, <2>1, <2>2
<1>7. o \in Mine BY <1>1, <1>3, <1>6
<1>8. o[1] = x BY <1>5, <1>6, PoolTransactions
<1>9. Involves(w, t) BY <1>1, <1>2, <1>4, <1>7, <1>8 DEF Involves
<1>10. x \in Parents(t) BY <1>1, <1>4, <1>8 DEF Parents
<1> QED BY <1>1, <1>2, <1>9, <1>10 DEF Synced

LEMMA SyncedKnows ==
    ASSUME NEW w, Known(w), NEW t \in PoolTxs, NEW hash, NEW v, Synced(w, t, hash, v),
           NEW U, Knows(w, U), Involves(w, t) \/ \A o \in Spends[t] : o[1] \in U
    PROVE  Knows(v, U \cup {t})
<1>1. DOMAIN w \subseteq DOMAIN v BY DEF Synced
<1>2. ASSUME t \in Ours PROVE Involves(w, t)
    <2>1. CASE Makes[t] \cap Mine # {} BY <2>1 DEF Involves
    <2>2. CASE Makes[t] \cap Mine = {} /\ \A o \in Spends[t] : o[1] \in U
        <3>1. PICK o \in Spends[t] \cap Mine : TRUE BY <1>2, <2>2 DEF Ours
        <3>2. o[1] \in Ours BY <3>1, OwnOutpoint
        <3>3. o[1] \in DOMAIN w BY <2>2, <3>1, <3>2 DEF Knows
        <3> QED BY <3>1, <3>3 DEF Involves
    <2> QED BY <2>1, <2>2
<1>3. t \in Ours => t \in DOMAIN v BY <1>2 DEF Synced
<1> QED BY <1>1, <1>3 DEF Knows

\* A chain keeps its place in the wallet, when the transaction is not in it or
\* comes without a block.
LEMMA SyncedPlaced ==
    ASSUME NEW w, Known(w), NEW t \in PoolTxs, NEW hash, NEW v, Synced(w, t, hash, v),
           NEW blocks, Placed(w, blocks),
           \/ t \notin InChain(blocks)
           \/ hash = NullHash /\ Knows(w, InChain(blocks))
    PROVE  Placed(v, blocks)
<1>1. SUFFICES ASSUME NEW h \in DOMAIN blocks, NEW x \in DOMAIN v,
                      Contains(Contents[blocks[h]], x)
               PROVE  v[x].hashBlock = blocks[h]
      BY DEF Placed
<1>2. ASSUME x \in DOMAIN w, x # t \/ hash = NullHash PROVE v[x].hashBlock = blocks[h]
    <2>1. v[x].hashBlock = w[x].hashBlock BY <1>2 DEF Synced
    <2> QED BY <1>1, <1>2, <2>1 DEF Placed
<1>3. t \in InChain(blocks) \/ x # t BY <1>1 DEF InChain
<1>4. CASE x # t
    <2>1. x \in DOMAIN w BY <1>4 DEF Synced
    <2> QED BY <1>2, <1>4, <2>1
<1>5. CASE x = t
    <2>1. t \in InChain(blocks) /\ hash = NullHash /\ Knows(w, InChain(blocks)) BY <1>3, <1>5
    <2>2. t \in Ours
        <3>1. Known(v) BY DEF Synced
        <3> QED BY <1>5, <3>1 DEF Known
    <2>3. t \in DOMAIN w BY <2>1, <2>2 DEF Knows
    <2> QED BY <1>2, <1>5, <2>1, <2>3
<1> QED BY <1>4, <1>5

-----------------------------------------------------------------------------
(* Several transactions, one after the other.                               *)

\* hash is none, or a block in which the transactions are.
Comes(txs, hash) ==
    /\ txs \in Seq(PoolTxs) /\ hash \in PoolBlocks \cup {NullHash}
    /\ hash # NullHash => \A i \in 1..Len(txs) : Contains(Contents[hash], txs[i])
SyncedEach(w, txs, hash, g) ==
    /\ g[0] = w
    /\ \A i \in 1..Len(txs) : Known(g[i - 1]) /\ Synced(g[i - 1], txs[i], hash, g[i])

LEMMA SyncsFacts ==
    ASSUME NEW w, Known(w), NEW txs, NEW hash, Comes(txs, hash), NEW g, g = Syncs(w, txs, hash)
    PROVE  SyncedEach(w, txs, hash, g)
<1>1. PICK n \in Nat : n = Len(txs) BY DEF Comes
<1>2. PICK S : S = {x \in Wallets : Known(x)} OBVIOUS
<1>3. \A x \in S : Known(x) BY <1>2
<1>4. w \in S BY <1>2 DEF Known
<1>5. ASSUME NEW x \in S, NEW i \in 1..n
      PROVE  Synced(x, txs[i], hash, SyncTransaction(x, txs[i], hash))
    <2>1. /\ txs[i] \in PoolTxs /\ hash \in PoolBlocks \cup {NullHash}
          /\ hash # NullHash => Contains(Contents[hash], txs[i])
          BY <1>1, <1>5 DEF Comes
    <2> QED BY <1>3, <1>5, <2>1, SyncSynced
<1>6. PICK step : step = [i \in 1..n |-> [x \in S |-> SyncTransaction(x, txs[i], hash)]]
      OBVIOUS
<1>7. Steps(step, n, S)
    <2>1. \A x \in S : \A i \in 1..n : SyncTransaction(x, txs[i], hash) \in S
          BY <1>2, <1>5 DEF Synced, Known
    <2> QED BY <1>6, <2>1 DEF Steps
<1>8. PICK f : IsFold(f, n, S, w, step) BY <1>4, <1>7, FoldExists
<1>9. f \in [0..n -> S] /\ f[0] = w /\ \A i \in 1..n : f[i] = step[i][f[i - 1]]
      BY <1>8 DEF IsFold
<1>10. \A i \in 1..n : f[i] = SyncTransaction(f[i - 1], txs[i], hash)
    <2>1. TAKE i \in 1..n
    <2>2. f[i - 1] \in S BY <1>9
    <2> QED BY <1>6, <1>9, <2>2
<1>11. f = [i \in 0..n |-> IF i = 0 THEN w ELSE SyncTransaction(f[i - 1], txs[i], hash)]
       BY <1>9, <1>10
<1>12. g = [i \in 0..n |-> IF i = 0 THEN w ELSE SyncTransaction(g[i - 1], txs[i], hash)]
       BY <1>1, <1>11 DEF Syncs
<1>13. g[0] = w /\ \A i \in 1..n : g[i] = SyncTransaction(g[i - 1], txs[i], hash)
    <2>1. 0 \in 0..n /\ \A i \in 1..n : i \in 0..n /\ i # 0 OBVIOUS
    <2> QED BY <1>12, <2>1
<1>14. PICK T : T = {i \in 0..n : g[i] \in S} OBVIOUS
<1>15. \A i \in 0..n : i \in T
    <2>1. 0 \in T BY <1>4, <1>13, <1>14
    <2>2. ASSUME NEW i \in 1..n, i - 1 \in T PROVE i \in T
        <3>1. g[i - 1] \in S BY <1>14, <2>2
        <3>2. Synced(g[i - 1], txs[i], hash, g[i]) BY <1>5, <1>13, <3>1
        <3>3. g[i] \in S BY <1>2, <3>2 DEF Synced, Known
        <3> QED BY <1>14, <3>3
    <2> QED BY <2>1, <2>2, StepByStep
<1>16. ASSUME NEW i \in 1..n
       PROVE  Known(g[i - 1]) /\ Synced(g[i - 1], txs[i], hash, g[i])
    <2>1. i - 1 \in 0..n OBVIOUS
    <2>2. g[i - 1] \in S BY <1>14, <1>15, <2>1
    <2>3. g[i] = SyncTransaction(g[i - 1], txs[i], hash) BY <1>13
    <2>4. Synced(g[i - 1], txs[i], hash, g[i]) BY <1>5, <2>2, <2>3
    <2> QED BY <1>3, <2>2, <2>4
<1> QED BY <1>1, <1>13, <1>16 DEF SyncedEach

\* v has all that w has, in the same blocks.
Keeps(w, v) ==
    DOMAIN w \subseteq DOMAIN v /\ \A u \in DOMAIN w : v[u].hashBlock = w[u].hashBlock

\* Signals without a block.
LEMMA SyncAllNull ==
    ASSUME NEW w, NEW blocks, NEW U, Follows(w, blocks, U), InChain(blocks) \subseteq U,
           NEW txs \in Seq(PoolTxs), NEW v, v = SyncAll(w, txs, NullHash)
    PROVE  Follows(v, blocks, U) /\ Keeps(w, v)
<1>1. PICK n \in Nat : n = Len(txs) OBVIOUS
<1>2. PICK g : g = Syncs(w, txs, NullHash) OBVIOUS
<1>3. Comes(txs, NullHash) BY DEF Comes
<1>4. SyncedEach(w, txs, NullHash, g) BY <1>2, <1>3, SyncsFacts DEF Follows
<1>5. PICK T : T = {i \in 0..n : Follows(g[i], blocks, U) /\ Keeps(w, g[i])} OBVIOUS
<1>6. 0 \in T BY <1>4, <1>5 DEF SyncedEach, Keeps
<1>7. ASSUME NEW i \in 1..n, i - 1 \in T PROVE i \in T
    <2>1. PICK x, y, t : x = g[i - 1] /\ y = g[i] /\ t = txs[i] OBVIOUS
    <2>2. Follows(x, blocks, U) /\ Keeps(w, x) BY <1>5, <1>7, <2>1
    <2>3. Synced(x, t, NullHash, y) /\ t \in PoolTxs BY <1>1, <1>4, <2>1 DEF SyncedEach
    <2>4. /\ Known(x) /\ Knows(x, U) /\ Fresh(x, U) /\ Placed(x, blocks)
          BY <2>2 DEF Follows
    <2>5. Fresh(y, U \cup {t}) BY <2>3, <2>4, SyncedFresh
    <2>6. Knows(x, InChain(blocks)) BY <2>4 DEF Knows
    <2>7. Placed(y, blocks) BY <2>3, <2>4, <2>6, SyncedPlaced
    <2>8. Known(y) /\ Keeps(x, y) BY <2>3 DEF Synced, Keeps
    <2>9. Knows(y, U) BY <2>4, <2>8 DEF Knows, Keeps
    <2>10. Fresh(y, U) BY <2>5 DEF Fresh
    <2>11. Keeps(w, y) BY <2>2, <2>8 DEF Keeps
    <2> QED BY <1>5, <2>1, <2>7, <2>8, <2>9, <2>10, <2>11 DEF Follows
<1>8. n \in T
    <2>1. \A i \in 0..n : i \in T BY <1>6, <1>7, StepByStep
    <2> QED BY <2>1
<1> QED BY <1>1, <1>2, <1>5, <1>8 DEF SyncAll

\* The transactions of b, the first of them, or none, with b: each of them new
\* to the chain, its parents known or before it.
Follow(txs, b, blocks, U) ==
    /\ Comes(txs, b) /\ b \in PoolBlocks
    /\ \A i \in 1..Len(txs) :
          /\ txs[i] \notin InChain(blocks)
          /\ \A o \in Spends[txs[i]] : o[1] \in U \/ \E j \in 1..(i - 1) : txs[j] = o[1]
\* v has them in b, and the others as w.
InBlock(w, v, b, txs) ==
    /\ DOMAIN w \subseteq DOMAIN v
    /\ \A u \in DOMAIN v : u \in txs => v[u].hashBlock = b
    /\ \A u \in DOMAIN w : u \notin txs => v[u].hashBlock = w[u].hashBlock

Among(txs) == {txs[j] : j \in 1..Len(txs)}
Tells(w, txs, b, blocks, U, v) ==
    Follows(v, blocks, U \cup Among(txs)) /\ InBlock(w, v, b, Among(txs))

LEMMA SyncAllBlock ==
    ASSUME NEW w, NEW blocks, NEW U, Follows(w, blocks, U),
           NEW txs, NEW b, Follow(txs, b, blocks, U)
    PROVE  Tells(w, txs, b, blocks, U, SyncAll(w, txs, b))
<1>0. PICK v, all : v = SyncAll(w, txs, b) /\ all = Among(txs) OBVIOUS
<1>1. PICK n \in Nat : n = Len(txs) BY DEF Follow, Comes
<1>2. PICK g : g = Syncs(w, txs, b) OBVIOUS
<1>3. Comes(txs, b) /\ b \in PoolBlocks /\ b # NullHash BY WalletBlocks DEF Follow
<1>4. SyncedEach(w, txs, b, g) BY <1>2, <1>3, SyncsFacts DEF Follows
<1>5. PICK done : done = [i \in 0..n |-> {txs[j] : j \in 1..i}] OBVIOUS
<1>6. PICK T : T = {i \in 0..n : /\ Follows(g[i], blocks, U \cup done[i])
                                 /\ InBlock(w, g[i], b, done[i])}
      OBVIOUS
<1>7. 0 \in T
    <2>1. done[0] = {} BY <1>5
    <2>2. g[0] = w BY <1>4 DEF SyncedEach
    <2>3. U \cup done[0] = U BY <2>1
    <2>4. InBlock(w, w, b, done[0]) BY <2>1 DEF InBlock
    <2>5. Follows(g[0], blocks, U \cup done[0]) BY <2>2, <2>3
    <2> QED BY <1>6, <2>2, <2>4, <2>5
<1>8. ASSUME NEW i \in 1..n, i - 1 \in T PROVE i \in T
    <2>1. PICK x, y, t, X, Y : /\ x = g[i - 1] /\ y = g[i] /\ t = txs[i]
                               /\ X = done[i - 1] /\ Y = done[i]
          OBVIOUS
    <2>2. Follows(x, blocks, U \cup X) /\ InBlock(w, x, b, X) BY <1>6, <1>8, <2>1
    <2>3. Synced(x, t, b, y) /\ t \in PoolTxs BY <1>1, <1>3, <1>4, <2>1 DEF SyncedEach, Comes
    <2>4. X = {txs[j] : j \in 1..(i - 1)} /\ Y = {txs[j] : j \in 1..i}
          BY <1>5, <2>1
    <2>5. Y = X \cup {t} BY <2>1, <2>4
    <2>6. t \notin InChain(blocks) /\ \A o \in Spends[t] : o[1] \in U \cup X
        <3>1. \A o \in Spends[t] : o[1] \in U \/ \E j \in 1..(i - 1) : txs[j] = o[1]
              BY <1>1, <2>1 DEF Follow
        <3> QED BY <1>1, <2>1, <2>4, <3>1 DEF Follow
    <2>7. Known(x) /\ Knows(x, U \cup X) /\ Fresh(x, U \cup X) /\ Placed(x, blocks)
          BY <2>2 DEF Follows
    <2>8. Fresh(y, (U \cup X) \cup {t}) BY <2>3, <2>7, SyncedFresh
    <2>9. Knows(y, (U \cup X) \cup {t}) BY <2>3, <2>6, <2>7, SyncedKnows
    <2>10. Placed(y, blocks) BY <2>3, <2>6, <2>7, SyncedPlaced
    <2>11. Known(y) BY <2>3 DEF Synced
    <2>12. U \cup Y = (U \cup X) \cup {t} BY <2>5
    <2>13. Follows(y, blocks, U \cup Y) BY <2>8, <2>9, <2>10, <2>11, <2>12 DEF Follows
    <2>14. InBlock(w, y, b, Y)
        <3>1. DOMAIN x \subseteq DOMAIN y /\ DOMAIN w \subseteq DOMAIN x
              BY <2>2, <2>3 DEF Synced, InBlock
        <3>2. ASSUME NEW u \in DOMAIN y, u \in Y PROVE y[u].hashBlock = b
            <4>1. CASE u = t
                <5>1. Involves(x, t)
                    <6>1. CASE u \in DOMAIN x BY <4>1, <6>1 DEF Involves
                    <6>2. CASE u \notin DOMAIN x BY <2>3, <3>2, <6>2 DEF Synced
                    <6> QED BY <6>1, <6>2
                <5> QED BY <1>3, <2>3, <4>1, <5>1 DEF Synced
            <4>2. CASE u # t
                <5>1. u \in DOMAIN x BY <2>3, <3>2, <4>2 DEF Synced
                <5>2. y[u].hashBlock = x[u].hashBlock BY <2>3, <4>2, <5>1 DEF Synced
                <5> QED BY <2>2, <2>5, <3>2, <4>2, <5>1, <5>2 DEF InBlock
            <4> QED BY <4>1, <4>2
        <3>3. ASSUME NEW u \in DOMAIN w, u \notin Y PROVE y[u].hashBlock = w[u].hashBlock
            <4>1. u # t /\ u \notin X /\ u \in DOMAIN x BY <2>5, <3>1, <3>3
            <4>2. y[u].hashBlock = x[u].hashBlock BY <2>3, <4>1 DEF Synced
            <4> QED BY <2>2, <3>3, <4>1, <4>2 DEF InBlock
        <3> QED BY <3>1, <3>2, <3>3 DEF InBlock
    <2> QED BY <1>6, <2>1, <2>13, <2>14
<1>9. n \in T
    <2>1. \A i \in 0..n : i \in T BY <1>7, <1>8, StepByStep
    <2> QED BY <2>1
<1>10. done[n] = all BY <1>0, <1>1, <1>5 DEF Among
<1>11. v = g[n] BY <1>0, <1>1, <1>2 DEF SyncAll
<1>12. Follows(v, blocks, U \cup all) /\ InBlock(w, v, b, all) BY <1>6, <1>9, <1>10, <1>11
<1> QED BY <1>0, <1>12 DEF Tells

-----------------------------------------------------------------------------
(* Chains: each transaction is in one block of them, after its parents.     *)

Ordered(c) ==
    \A h \in 1..Len(c) : \A i \in 1..Len(Contents[c[h]]) : \A o \in Spends[Contents[c[h]][i]] :
        \/ \E k \in 1..(h - 1) : Contains(Contents[c[k]], o[1])
        \/ \E j \in 1..(i - 1) : Contents[c[h]][j] = o[1]
Once(c) ==
    \A h, k \in 1..Len(c) : h # k =>
        c[h] # c[k] /\ \A t \in PoolTxs : ~(Contains(Contents[c[h]], t) /\ Contains(Contents[c[k]], t))
Sequel(c) == c \in Seq(PoolBlocks) /\ Len(c) >= 1 /\ Branch(c)
SoundChain(c) == Sequel(c) /\ Ordered(c) /\ Once(c)

LEMMA BranchesAreFinite ==
    ASSUME NEW c, Sequel(c)
    PROVE  NothingTwice(c)
<1>1. PICK N \in Nat : N = Cardinality(PoolBlocks) BY WalletBlocks, FS_CardinalityType
<1>2. PICK n \in Nat : n = Len(c) /\ n >= 1 BY DEF Sequel
<1>3. c \in Seq(PoolBlocks) /\ c \in [1..n -> PoolBlocks] /\ Branch(c) BY <1>2 DEF Sequel
<1>4. \A m \in 1..N + 1 : \A d \in [1..m -> PoolBlocks] :
          Branch(d) => m <= N /\ NothingTwice(d)
      BY <1>1, WalletBlocks
<1>5. CASE n <= N + 1
    <2>1. n \in 1..N + 1 BY <1>2, <1>5
    <2> QED BY <1>3, <1>4, <2>1
<1>6. CASE n > N + 1
    <2>1. PICK d : d = [i \in 1..N + 1 |-> c[i]] OBVIOUS
    <2>2. d \in [1..N + 1 -> PoolBlocks] BY <1>1, <1>2, <1>3, <1>6, <2>1
    <2>3. d \in Seq(PoolBlocks) /\ Len(d) = N + 1 BY <1>1, <2>2
    <2>4. Branch(d)
        <3>1. d[1] = FirstBlock BY <1>1, <1>3, <2>1 DEF Branch
        <3>2. ASSUME NEW i \in 2..N + 1
              PROVE  d[i] # FirstBlock /\ BlockBefore[d[i]] = d[i - 1]
            <4>1. d[i] = c[i] /\ d[i - 1] = c[i - 1] /\ i \in 2..Len(c)
                  BY <1>1, <1>2, <1>6, <2>1, <3>2
            <4> QED BY <1>3, <4>1 DEF Branch
        <3> QED BY <2>3, <3>1, <3>2 DEF Branch
    <2>5. N + 1 \in 1..N + 1 BY <1>1
    <2>6. N + 1 <= N BY <1>4, <2>2, <2>4, <2>5
    <2> QED BY <1>1, <2>6
<1> QED BY <1>1, <1>2, <1>5, <1>6

LEMMA SoundIsOK ==
    ASSUME NEW c, SoundChain(c)
    PROVE  ChainOK(c)
<1>1. c \in Seq(PoolBlocks) /\ Len(c) >= 1 /\ DOMAIN c = 1..Len(c) BY DEF SoundChain, Sequel
<1>2. ASSUME NEW h \in DOMAIN c, NEW i \in DOMAIN Contents[c[h]],
             NEW o \in Spends[Contents[c[h]][i]]
      PROVE  \E k \in 1..h : Contains(Contents[c[k]], o[1])
    <2>1. Contents[c[h]] \in Seq(PoolTxs) BY <1>1, PoolChain
    <2>2. h \in 1..Len(c) /\ i \in 1..Len(Contents[c[h]]) BY <1>1, <2>1
    <2>3. \/ \E k \in 1..(h - 1) : Contains(Contents[c[k]], o[1])
          \/ \E j \in 1..(i - 1) : Contents[c[h]][j] = o[1]
          BY <1>2, <2>2 DEF SoundChain, Ordered
    <2>4. CASE \E k \in 1..(h - 1) : Contains(Contents[c[k]], o[1])
        <3>1. PICK k \in 1..(h - 1) : Contains(Contents[c[k]], o[1]) BY <2>4
        <3>2. k \in 1..h BY <2>2
        <3> QED BY <3>1, <3>2
    <2>5. CASE \E j \in 1..(i - 1) : Contents[c[h]][j] = o[1]
        <3>1. PICK j \in 1..(i - 1) : Contents[c[h]][j] = o[1] BY <2>5
        <3>2. j \in 1..Len(Contents[c[h]]) /\ h \in 1..h BY <2>1, <2>2
        <3>3. Contains(Contents[c[h]], o[1]) BY <3>1, <3>2 DEF Contains
        <3> QED BY <3>2, <3>3
    <2> QED BY <2>3, <2>4, <2>5
<1> QED BY <1>1, <1>2 DEF ChainOK

LEMMA PrefixSound ==
    ASSUME NEW c, SoundChain(c), NEW n \in 1..Len(c), NEW d, d = SubSeq(c, 1, n)
    PROVE  /\ SoundChain(d) /\ Len(d) = n /\ \A h \in 1..n : d[h] = c[h]
           /\ InChain(d) \subseteq InChain(c)
<1>1. c \in Seq(PoolBlocks) /\ Len(c) \in Nat /\ Branch(c) BY DEF SoundChain, Sequel
<1>2. d \in Seq(PoolBlocks) /\ Len(d) = n /\ DOMAIN d = 1..n /\ DOMAIN c = 1..Len(c) BY <1>1
<1>3. \A h \in 1..n : d[h] = c[h] /\ h \in 1..Len(c) BY <1>1
<1>4. Branch(d)
    <2>1. d[1] = FirstBlock BY <1>3 DEF SoundChain, Sequel, Branch
    <2>2. ASSUME NEW i \in 2..n PROVE d[i] # FirstBlock /\ BlockBefore[d[i]] = d[i - 1]
        <3>1. i \in 1..n /\ i - 1 \in 1..n /\ i \in 2..Len(c) BY <1>1
        <3>2. d[i] = c[i] /\ d[i - 1] = c[i - 1] BY <1>3, <3>1
        <3> QED BY <1>1, <3>1, <3>2 DEF Branch
    <2> QED BY <1>2, <2>1, <2>2 DEF Branch
<1>5. Ordered(d)
    <2>1. SUFFICES ASSUME NEW h \in 1..n, NEW i \in 1..Len(Contents[d[h]]),
                          NEW o \in Spends[Contents[d[h]][i]]
                   PROVE  \/ \E k \in 1..(h - 1) : Contains(Contents[d[k]], o[1])
                          \/ \E j \in 1..(i - 1) : Contents[d[h]][j] = o[1]
          BY <1>2 DEF Ordered
    <2>2. d[h] = c[h] /\ h \in 1..Len(c) BY <1>3
    <2>3. \A k \in 1..(h - 1) : d[k] = c[k] BY <1>3
    <2>4. \/ \E k \in 1..(h - 1) : Contains(Contents[c[k]], o[1])
          \/ \E j \in 1..(i - 1) : Contents[c[h]][j] = o[1]
          BY <2>1, <2>2 DEF SoundChain, Ordered
    <2> QED BY <2>2, <2>3, <2>4
<1>6. Once(d) BY <1>2, <1>3 DEF SoundChain, Once
<1>7. InChain(d) \subseteq InChain(c) BY <1>2, <1>3 DEF InChain
<1> QED BY <1>2, <1>3, <1>4, <1>5, <1>6, <1>7 DEF SoundChain, Sequel

LEMMA FirstSound == SoundChain(<<FirstBlock>>)
<1>1. PICK c : c = <<FirstBlock>> OBVIOUS
<1>2. c \in Seq(PoolBlocks) /\ Len(c) = 1 /\ c[1] = FirstBlock BY <1>1, PoolChain
<1>3. Branch(c) BY <1>2 DEF Branch
<1>4. Ordered(c)
    <2>1. \A i \in 1..Len(Contents[FirstBlock]) : Spends[Contents[FirstBlock][i]] = {}
          BY PoolChain
    <2> QED BY <1>2, <2>1 DEF Ordered
<1>5. Once(c) BY <1>2 DEF Once
<1> QED BY <1>1, <1>2, <1>3, <1>4, <1>5 DEF SoundChain, Sequel

\* A block that can be connected has nothing that the chain has.
LEMMA NewInBlock ==
    ASSUME SoundChain(chain), NEW b \in PoolBlocks, Connectable(b),
           Sequel(Append(chain, b))
    PROVE  \A i \in 1..Len(Contents[b]) : Contents[b][i] \notin InChain(chain)
<1>1. PICK n \in Nat : n = Len(chain) /\ n >= 1 BY DEF SoundChain, Sequel
<1>2. chain \in Seq(PoolBlocks) /\ ChainOK(chain) BY SoundIsOK DEF SoundChain, Sequel
<1>3. PICK more : more = Append(chain, b) OBVIOUS
<1>4. Len(more) = n + 1 /\ more[n + 1] = b /\ \A h \in 1..n : more[h] = chain[h]
      BY <1>1, <1>2, <1>3
<1>5. NothingTwice(more) BY <1>3, BranchesAreFinite
<1>6. PICK txs : txs = Contents[b] OBVIOUS
<1>7. txs \in Seq(PoolTxs) /\ DOMAIN txs = 1..Len(txs) BY <1>6, PoolChain
<1>8. PICK T : T = {i \in 1..Len(txs) : txs[i] \in InChain(chain)} OBVIOUS
<1>9. SUFFICES ASSUME T # {} PROVE FALSE BY <1>6, <1>8
<1>10. T \in SUBSET Nat BY <1>8
<1>11. PICK i \in T : \A k \in T : i <= k BY <1>9, <1>10, LeastElement
<1>12. i \in 1..Len(txs) /\ txs[i] \in InChain(chain) /\ txs[i] \in PoolTxs
       BY <1>7, <1>8, <1>11
<1>13. CASE Spends[txs[i]] = {}
    <2>1. PICK h \in 1..n : Contains(Contents[chain[h]], txs[i])
          BY <1>1, <1>2, <1>12 DEF InChain
    <2>2. more[h] = chain[h] /\ h \in 1..n + 1 /\ n + 1 \in 1..n + 1 /\ h # n + 1
          BY <1>4
    <2>3. Contains(Contents[more[n + 1]], txs[i]) BY <1>4, <1>6, <1>12 DEF Contains
    <2> QED BY <1>4, <1>5, <1>12, <1>13, <2>1, <2>2, <2>3 DEF NothingTwice
<1>14. CASE Spends[txs[i]] # {}
    <2>1. PICK o \in Spends[txs[i]] : TRUE BY <1>14
    <2>2. Spent(chain, o) BY <1>2, <1>12, InChainSpent
    <2>3. o \in Outpoints BY <1>12, MadeBy
    <2>4. o[1] \in InChain(chain) BY <1>2, <2>2, <2>3, SpentWasMade
    <2>5. \/ \E j \in 1..i - 1 : txs[j] = o[1]
          \/ Available(chain, o)
          BY <1>6, <1>7, <1>12 DEF Connectable
    <2>6. ~Available(chain, o) BY <2>2 DEF Available
    <2>7. PICK j \in 1..i - 1 : txs[j] = o[1] BY <2>5, <2>6
    <2>8. j \in T /\ j < i BY <1>8, <1>10, <1>12, <2>4, <2>7
    <2> QED BY <1>10, <1>11, <2>8
<1> QED BY <1>13, <1>14

\* The chain with b on it.
Grown(b, more) ==
    /\ SoundChain(more) /\ SubSeq(more, 1, Len(chain)) = chain
    /\ Len(more) = Len(chain) + 1 /\ more[Len(chain) + 1] = b
    /\ \A h \in 1..Len(chain) : more[h] = chain[h] /\ chain[h] # b
    /\ InChain(more) = InChain(chain) \cup TxsOf(b)
    /\ Follow(Contents[b], b, chain, InChain(chain))

LEMMA ConnectSound ==
    ASSUME SoundChain(chain), NEW b, CanConnect(b), b \in PoolBlocks,
           NEW more, more = Append(chain, b)
    PROVE  Grown(b, more)
<1>1. PICK n \in Nat : n = Len(chain) /\ n >= 1 BY DEF SoundChain, Sequel
<1>2. chain \in Seq(PoolBlocks) /\ ChainOK(chain) BY SoundIsOK DEF SoundChain, Sequel
<1>3. /\ more \in Seq(PoolBlocks) /\ Len(more) = n + 1 /\ more[n + 1] = b
      /\ \A h \in 1..n : more[h] = chain[h]
      BY <1>1, <1>2
<1>4. Branch(more)
    <2>1. more[1] = FirstBlock BY <1>1, <1>3 DEF SoundChain, Sequel, Branch
    <2>2. ASSUME NEW i \in 2..n + 1
          PROVE  more[i] # FirstBlock /\ BlockBefore[more[i]] = more[i - 1]
        <3>1. CASE i = n + 1
            <4>1. more[i - 1] = chain[n] BY <1>1, <1>3, <3>1
            <4> QED BY <1>1, <1>3, <3>1, <4>1 DEF CanConnect, Tip
        <3>2. CASE i # n + 1
            <4>1. i \in 2..n /\ i \in 1..n /\ i - 1 \in 1..n BY <1>1, <3>2
            <4>2. more[i] = chain[i] /\ more[i - 1] = chain[i - 1] BY <1>3, <4>1
            <4> QED BY <1>1, <4>1, <4>2 DEF SoundChain, Sequel, Branch
        <3> QED BY <3>1, <3>2
    <2> QED BY <1>3, <2>1, <2>2 DEF Branch
<1>5. Sequel(more) BY <1>1, <1>3, <1>4 DEF Sequel
<1>6. PICK txs : txs = Contents[b] OBVIOUS
<1>7. txs \in Seq(PoolTxs) /\ DOMAIN txs = 1..Len(txs) BY <1>6, PoolChain
<1>8. \A i \in 1..Len(txs) : txs[i] \notin InChain(chain)
      BY <1>5, <1>6, NewInBlock DEF CanConnect
<1>9. ASSUME NEW i \in 1..Len(txs), NEW o \in Spends[txs[i]]
      PROVE  \/ o[1] \in InChain(chain)
             \/ \E j \in 1..(i - 1) : txs[j] = o[1]
    <2>1. \/ \E j \in 1..(i - 1) : txs[j] = o[1]
          \/ Available(chain, o)
          BY <1>6, <1>7, <1>9 DEF CanConnect, Connectable
    <2>2. txs[i] \in PoolTxs BY <1>7
    <2>3. o[1] \in PoolTxs BY <2>2, MadeBy
    <2>4. Available(chain, o) => o[1] \in InChain(chain)
          BY <2>3, MadeInChain DEF Available
    <2> QED BY <2>1, <2>4
<1>10. Ordered(more)
    <2>1. SUFFICES ASSUME NEW h \in 1..Len(more), NEW i \in 1..Len(Contents[more[h]]),
                          NEW o \in Spends[Contents[more[h]][i]]
                   PROVE  \/ \E k \in 1..(h - 1) : Contains(Contents[more[k]], o[1])
                          \/ \E j \in 1..(i - 1) : Contents[more[h]][j] = o[1]
          BY DEF Ordered
    <2>h. h \in 1..n + 1 BY <1>3
    <2>2. CASE h = n + 1
        <3>1. more[h] = b /\ \A k \in 1..(h - 1) : more[k] = chain[k] BY <1>1, <1>3, <2>2
        <3>2. \/ o[1] \in InChain(chain)
              \/ \E j \in 1..(i - 1) : Contents[more[h]][j] = o[1]
              BY <1>6, <1>9, <2>1, <3>1
        <3>3. o[1] \in InChain(chain) =>
                  \E k \in 1..n : Contains(Contents[chain[k]], o[1])
              BY <1>1, <1>2 DEF InChain
        <3> QED BY <1>1, <2>2, <3>1, <3>2, <3>3
    <2>3. CASE h # n + 1
        <3>1. h \in 1..n /\ more[h] = chain[h] /\ \A k \in 1..(h - 1) : more[k] = chain[k]
              BY <1>1, <1>3, <2>h, <2>3
        <3>2. \/ \E k \in 1..(h - 1) : Contains(Contents[chain[k]], o[1])
              \/ \E j \in 1..(i - 1) : Contents[chain[h]][j] = o[1]
            <4>1. h \in 1..Len(chain) /\ Ordered(chain) BY <1>1, <3>1 DEF SoundChain
            <4>2. i \in 1..Len(Contents[chain[h]]) /\ o \in Spends[Contents[chain[h]][i]]
                  BY <2>1, <3>1
            <4> QED BY <4>1, <4>2 DEF Ordered
        <3> QED BY <3>1, <3>2
    <2> QED BY <2>2, <2>3
<1>11. \A h \in 1..n : chain[h] # b
    <2>1. NothingTwice(more) BY <1>5, BranchesAreFinite
    <2>2. \A h \in 1..n : h \in 1..n + 1 /\ n + 1 \in 1..n + 1 /\ h # n + 1 BY <1>1
    <2>3. \A h \in 1..n : more[h] # more[n + 1] BY <1>3, <2>1, <2>2 DEF NothingTwice
    <2> QED BY <1>3, <2>3
<1>12. \A h \in 1..n : \A t \in PoolTxs :
           ~(Contains(Contents[chain[h]], t) /\ Contains(txs, t))
    <2>1. SUFFICES ASSUME NEW h \in 1..n, NEW t \in PoolTxs,
                          Contains(Contents[chain[h]], t), Contains(txs, t)
                   PROVE  FALSE
          OBVIOUS
    <2>2. t \in InChain(chain) BY <1>1, <1>2, <2>1 DEF InChain
    <2> QED BY <1>8, <2>1, <2>2 DEF Contains
<1>13. Once(more)
    <2>1. SUFFICES ASSUME NEW h \in 1..n + 1, NEW k \in 1..n + 1, h # k
                   PROVE  /\ more[h] # more[k]
                          /\ \A t \in PoolTxs : ~(/\ Contains(Contents[more[h]], t)
                                                  /\ Contains(Contents[more[k]], t))
          BY <1>3 DEF Once
    <2>2. CASE h \in 1..n /\ k \in 1..n BY <1>1, <1>3, <2>1, <2>2 DEF SoundChain, Once
    <2>3. CASE h = n + 1
        <3>1. k \in 1..n BY <1>1, <2>1, <2>3
        <3> QED BY <1>3, <1>6, <1>11, <1>12, <2>3, <3>1
    <2>4. CASE k = n + 1
        <3>1. h \in 1..n BY <1>1, <2>1, <2>4
        <3> QED BY <1>3, <1>6, <1>11, <1>12, <2>4, <3>1
    <2> QED BY <1>1, <2>2, <2>3, <2>4
<1>14. SoundChain(more) BY <1>5, <1>10, <1>13 DEF SoundChain
<1>15. InChain(more) = InChain(chain) \cup TxsOf(b)
    <2>1. PICK X : X = TxsOf(b) OBVIOUS
    <2>2. Appended(chain, more, b, X) BY <1>2, <2>1, AppendFacts
    <2> QED BY <2>1, <2>2 DEF Appended
<1>16. Follow(txs, b, chain, InChain(chain))
    <2>1. \A i \in 1..Len(txs) : Contains(txs, txs[i]) BY DEF Contains
    <2>2. Comes(txs, b) BY <1>6, <1>7, <2>1 DEF Comes
    <2> QED BY <1>8, <1>9, <2>2 DEF Follow
<1>17. SubSeq(more, 1, n) = chain
    <2>1. SubSeq(more, 1, n) \in Seq(PoolBlocks) /\ Len(SubSeq(more, 1, n)) = n
          BY <1>1, <1>3
    <2>2. \A h \in 1..n : SubSeq(more, 1, n)[h] = chain[h] BY <1>1, <1>3
    <2> QED BY <1>1, <1>2, <2>1, <2>2
<1> QED BY <1>1, <1>3, <1>6, <1>11, <1>14, <1>15, <1>16, <1>17 DEF Grown

\* The wallet is told of one more block of a chain.
NextOf(b, d, e) ==
    /\ Follow(Contents[b], b, d, InChain(d)) /\ b \in PoolBlocks
    /\ InChain(e) = InChain(d) \cup TxsOf(b)
    /\ Len(e) = Len(d) + 1 /\ e[Len(d) + 1] = b
    /\ DOMAIN e = 1..Len(d) + 1 /\ DOMAIN d = 1..Len(d) /\ Len(d) \in Nat
    /\ \A k \in 1..Len(d) : e[k] = d[k]

LEMMA NextBlock ==
    ASSUME NEW c, SoundChain(c), NEW h \in 1..Len(c), NEW b, b = c[h],
           NEW d, d = SubSeq(c, 1, h - 1), NEW e, e = SubSeq(c, 1, h)
    PROVE  NextOf(b, d, e) /\ Len(d) = h - 1
<1>1. c \in Seq(PoolBlocks) /\ Len(c) \in Nat /\ h \in Nat /\ h >= 1
      BY DEF SoundChain, Sequel
<1>2. /\ d \in Seq(PoolBlocks) /\ Len(d) = h - 1 /\ DOMAIN d = 1..(h - 1)
      /\ e \in Seq(PoolBlocks) /\ Len(e) = h /\ DOMAIN e = 1..h
      /\ \A k \in 1..(h - 1) : d[k] = c[k] /\ e[k] = c[k] /\ k \in 1..Len(c)
      /\ e[h] = b /\ b \in PoolBlocks
      BY <1>1
<1>3. PICK txs : txs = Contents[b] OBVIOUS
<1>4. txs \in Seq(PoolTxs) /\ Len(txs) \in Nat BY <1>2, <1>3, PoolChain
<1>5. \A t : Contains(txs, t) <=> t \in TxsOf(b) BY <1>3 DEF Contains, TxsOf
<1>6. InChain(e) = InChain(d) \cup TxsOf(b)
    <2>1. \A t \in PoolTxs : t \in InChain(e) <=> \E k \in 1..h : Contains(Contents[e[k]], t)
          BY <1>2 DEF InChain
    <2>2. \A t \in PoolTxs : t \in InChain(d) <=> \E k \in 1..(h - 1) : Contains(Contents[d[k]], t)
          BY <1>2 DEF InChain
    <2>3. InChain(e) \subseteq PoolTxs /\ InChain(d) \subseteq PoolTxs BY DEF InChain
    <2>4. TxsOf(b) \subseteq PoolTxs BY <1>3, <1>4 DEF TxsOf
    <2>5. ASSUME NEW t \in PoolTxs, NEW k \in 1..h, Contains(Contents[e[k]], t)
          PROVE  t \in InChain(d) \cup TxsOf(b)
        <3>1. CASE k = h BY <1>2, <1>3, <1>5, <2>5, <3>1
        <3>2. CASE k # h
            <4>1. k \in 1..(h - 1) BY <1>1, <3>2
            <4>2. e[k] = d[k] BY <1>2, <4>1
            <4> QED BY <2>2, <2>5, <4>1, <4>2
        <3> QED BY <3>1, <3>2
    <2>6. ASSUME NEW t \in PoolTxs, NEW k \in 1..(h - 1), Contains(Contents[d[k]], t)
          PROVE  t \in InChain(e)
        <3>1. e[k] = d[k] /\ k \in 1..h BY <1>1, <1>2
        <3> QED BY <2>1, <2>6, <3>1
    <2>7. ASSUME NEW t \in TxsOf(b) PROVE t \in InChain(e)
        <3>1. h \in 1..h /\ Contains(Contents[e[h]], t) BY <1>1, <1>2, <1>3, <1>5
        <3> QED BY <2>1, <2>4, <3>1
    <2> QED BY <2>1, <2>2, <2>3, <2>4, <2>5, <2>6, <2>7
<1>7. ASSUME NEW i \in 1..Len(txs)
      PROVE  txs[i] \notin InChain(d)
    <2>1. SUFFICES ASSUME txs[i] \in InChain(d) PROVE FALSE OBVIOUS
    <2>2. PICK k \in 1..(h - 1) : Contains(Contents[d[k]], txs[i]) BY <1>2, <2>1 DEF InChain
    <2>3. d[k] = c[k] /\ k \in 1..Len(c) /\ k # h BY <1>1, <1>2
    <2>4. txs[i] \in PoolTxs /\ Contains(Contents[c[h]], txs[i])
          BY <1>3, <1>4 DEF Contains
    <2> QED BY <2>2, <2>3, <2>4 DEF SoundChain, Once
<1>8. ASSUME NEW i \in 1..Len(txs), NEW o \in Spends[txs[i]]
      PROVE  o[1] \in InChain(d) \/ \E j \in 1..(i - 1) : txs[j] = o[1]
    <2>1. o[1] \in PoolTxs
        <3>1. txs[i] \in PoolTxs BY <1>4
        <3> QED BY <3>1, MadeBy
    <2>2. i \in 1..Len(Contents[c[h]]) /\ o \in Spends[Contents[c[h]][i]] BY <1>3, <1>8
    <2>3. \/ \E k \in 1..(h - 1) : Contains(Contents[c[k]], o[1])
          \/ \E j \in 1..(i - 1) : Contents[c[h]][j] = o[1]
          BY <2>2 DEF SoundChain, Ordered
    <2>4. (\E k \in 1..(h - 1) : Contains(Contents[c[k]], o[1])) => o[1] \in InChain(d)
          BY <1>2, <2>1 DEF InChain
    <2> QED BY <1>3, <2>3, <2>4
<1>9. Follow(txs, b, d, InChain(d))
    <2>1. \A i \in 1..Len(txs) : Contains(txs, txs[i]) BY DEF Contains
    <2>2. Comes(txs, b) BY <1>2, <1>3, <1>4, <2>1 DEF Comes
    <2> QED BY <1>2, <1>7, <1>8, <2>2 DEF Follow
<1>10. /\ Len(d) \in Nat /\ Len(e) = Len(d) + 1 /\ e[Len(d) + 1] = b
       /\ DOMAIN e = 1..Len(d) + 1 /\ DOMAIN d = 1..Len(d)
       /\ \A k \in 1..Len(d) : e[k] = d[k]
       BY <1>1, <1>2
<1>11. Follow(Contents[b], b, d, InChain(d)) BY <1>3, <1>9
<1> QED BY <1>2, <1>6, <1>10, <1>11 DEF NextOf

LEMMA FollowMore ==
    ASSUME NEW txs, NEW b, NEW d, NEW U, Follow(txs, b, d, U), NEW V, U \subseteq V
    PROVE  Follow(txs, b, d, V)
BY DEF Follow

\* What v is after w has been told of b, which makes d the chain e.
Told(w, b, d, e, U, v) ==
    /\ Follows(v, e, U \cup TxsOf(b)) /\ InBlock(w, v, b, TxsOf(b))
    /\ InChain(e) = InChain(d) \cup TxsOf(b)

LEMMA FollowsBlock ==
    ASSUME NEW c, SoundChain(c), NEW h \in 1..Len(c), NEW b, b = c[h],
           NEW d, d = SubSeq(c, 1, h - 1), NEW e, e = SubSeq(c, 1, h),
           NEW w, NEW U, Follows(w, d, U), InChain(d) \subseteq U,
           NEW v, v = SyncAll(w, Contents[b], b)
    PROVE  Told(w, b, d, e, U, v)
<1>1. NextOf(b, d, e) BY NextBlock
<1>2. Follow(Contents[b], b, d, U) BY <1>1, FollowMore DEF NextOf
<1>3. PICK txs, all : txs = Contents[b] /\ all = TxsOf(b) OBVIOUS
<1>4. all = {txs[j] : j \in 1..Len(txs)} BY <1>3 DEF TxsOf
<1>5. Follows(v, d, U \cup all) /\ InBlock(w, v, b, all)
    <2>1. Follow(txs, b, d, U) /\ v = SyncAll(w, txs, b) BY <1>2, <1>3
    <2>2. Tells(w, txs, b, d, U, v) BY <2>1, SyncAllBlock
    <2>3. Among(txs) = all BY <1>4 DEF Among
    <2> QED BY <2>2, <2>3 DEF Tells
<1>6. Placed(v, e)
    <2>1. SUFFICES ASSUME NEW k \in DOMAIN e, NEW t \in DOMAIN v, Contains(Contents[e[k]], t)
                   PROVE  v[t].hashBlock = e[k]
          BY DEF Placed
    <2>2. PICK n \in Nat : n = Len(d) BY <1>1 DEF NextOf
    <2>3. /\ DOMAIN e = 1..n + 1 /\ DOMAIN d = 1..n /\ e[n + 1] = b
          /\ \A x \in 1..n : e[x] = d[x]
          BY <1>1, <2>2 DEF NextOf
    <2>4. CASE k = n + 1
        <3>1. t \in all BY <1>3, <1>4, <2>1, <2>3, <2>4 DEF Contains
        <3> QED BY <1>5, <2>1, <2>3, <2>4, <3>1 DEF InBlock
    <2>5. CASE k # n + 1
        <3>1. k \in DOMAIN d /\ e[k] = d[k] BY <2>1, <2>2, <2>3, <2>5
        <3> QED BY <1>5, <2>1, <3>1 DEF Follows, Placed
    <2> QED BY <2>4, <2>5
<1>7. Follows(v, e, U \cup all) BY <1>5, <1>6 DEF Follows
<1> QED BY <1>1, <1>3, <1>5, <1>7 DEF NextOf, Told

-----------------------------------------------------------------------------
(* Depth, balance, and what is paid of it.                                  *)

\* The entry's block is that of height h in blocks.
At(w, blocks, txs, t, h) ==
    h \in 1..Len(blocks) /\ blocks[h] = w[t].hashBlock /\ Depth(w, blocks, txs, t) = Len(blocks) + 1 - h

LEMMA DepthFacts ==
    ASSUME NEW w, NEW blocks \in Seq(PoolBlocks), NEW txs, NEW t
    PROVE  IF Contains(blocks, w[t].hashBlock) THEN \E h : At(w, blocks, txs, t, h)
           ELSE Depth(w, blocks, txs, t) = IF t \in txs THEN 0 ELSE -1
<1>1. DOMAIN blocks = 1..Len(blocks) /\ Len(blocks) \in Nat OBVIOUS
<1>2. ASSUME Contains(blocks, w[t].hashBlock)
      PROVE  \E h : At(w, blocks, txs, t, h)
    <2>1. PICK k : k = CHOOSE h \in DOMAIN blocks : blocks[h] = w[t].hashBlock OBVIOUS
    <2>2. \E h \in DOMAIN blocks : blocks[h] = w[t].hashBlock BY <1>1, <1>2 DEF Contains
    <2>3. k \in 1..Len(blocks) /\ blocks[k] = w[t].hashBlock BY <1>1, <2>1, <2>2
    <2>4. Depth(w, blocks, txs, t) = Len(blocks) + 1 - k BY <1>2, <2>1 DEF Depth
    <2> QED BY <2>3, <2>4 DEF At
<1>3. ~Contains(blocks, w[t].hashBlock) =>
          Depth(w, blocks, txs, t) = IF t \in txs THEN 0 ELSE -1
      BY DEF Depth
<1> QED BY <1>2, <1>3

\* What is in the chain or the pool is not conflicted.
LEMMA DepthOfThere ==
    ASSUME NEW w, NEW d, Placed(w, d), NEW blocks \in Seq(PoolBlocks),
           \A h \in DOMAIN d : Contains(blocks, d[h]),
           NEW txs, NEW t \in DOMAIN w, t \in txs \cup InChain(d)
    PROVE  Depth(w, blocks, txs, t) >= 0 /\ Depth(w, blocks, txs, t) \in Int
<1>1. CASE Contains(blocks, w[t].hashBlock)
    <2>1. PICK h : At(w, blocks, txs, t, h) BY <1>1, DepthFacts
    <2> QED BY <2>1 DEF At
<1>2. CASE ~Contains(blocks, w[t].hashBlock)
    <2>1. t \notin InChain(d)
        <3>1. SUFFICES ASSUME t \in InChain(d) PROVE FALSE OBVIOUS
        <3>2. PICK h \in DOMAIN d : Contains(Contents[d[h]], t) BY <3>1 DEF InChain
        <3>3. w[t].hashBlock = d[h] BY <3>2 DEF Placed
        <3> QED BY <1>2, <3>3
    <2>2. Depth(w, blocks, txs, t) = IF t \in txs THEN 0 ELSE -1 BY <1>2, DepthFacts
    <2> QED BY <2>1, <2>2
<1> QED BY <1>1, <1>2

LEMMA BalanceFollows ==
    ASSUME NEW w, NEW d, NEW U, Follows(w, d, U), NEW blocks \in Seq(PoolBlocks),
           \A h \in DOMAIN d : Contains(blocks, d[h]),
           NEW txs, U \subseteq txs \cup InChain(d), U \subseteq PoolTxs,
           NEW v, v = GetBalance(w, blocks, txs)
    PROVE  Follows(v, d, U) /\ Keeps(w, v) /\ DOMAIN v = DOMAIN w
<1>1. Known(w) /\ Knows(w, U) /\ Fresh(w, U) /\ Placed(w, d) /\ w \in Wallets
      BY DEF Follows, Known
<1>2. PICK D : D = DOMAIN w OBVIOUS
<1>3. PICK new : new = [t \in D |-> {o \in Makes[t] \cap Mine : ~IsSpent(w, blocks, txs, o)}]
      OBVIOUS
<1>4. PICK R : R = {t \in D : t \in Counted(w, blocks, txs) /\ w[t].credit = Stale} OBVIOUS
<1>5. v = [t \in D |-> IF t \in R THEN [w[t] EXCEPT !.credit = new[t]] ELSE w[t]]
      BY <1>2, <1>3, <1>4 DEF GetBalance
<1>6. DOMAIN v = D BY <1>5
<1>7. D \subseteq PoolTxs /\ D \subseteq Ours
    <2>1. D \subseteq PoolTxs BY <1>1, <1>2, WalletTyped
    <2> QED BY <1>1, <1>2, <2>1 DEF Known
<1>8. ASSUME NEW t \in D
      PROVE  /\ v[t] \in WalletEntries /\ v[t].hashBlock = w[t].hashBlock
             /\ v[t].credit = IF t \in R THEN new[t] ELSE w[t].credit
    <2>1. PICK e, n : e = w[t] /\ n = new[t] OBVIOUS
    <2>2. /\ e.hashBlock \in PoolBlocks \cup {NullHash}
          /\ e.credit \in (SUBSET Mine) \cup {Stale}
          /\ e = [hashBlock |-> e.hashBlock, credit |-> e.credit]
          BY <1>1, <1>2, <1>8, <2>1, WalletTyped
    <2>3. n \in SUBSET Mine BY <1>3, <1>8, <2>1
    <2>4. CASE t \in R
        <3>1. v[t] = [e EXCEPT !.credit = n] BY <1>5, <1>8, <2>1, <2>4
        <3>2. v[t] = [hashBlock |-> e.hashBlock, credit |-> n] BY <2>2, <3>1
        <3> QED BY <2>1, <2>2, <2>3, <2>4, <3>2 DEF WalletEntries
    <2>5. CASE t \notin R
        <3>1. v[t] = e BY <1>5, <1>8, <2>1, <2>5
        <3> QED BY <2>1, <2>2, <2>5, <3>1 DEF WalletEntries
    <2> QED BY <2>4, <2>5
<1>9. Known(v)
    <2>1. v = [t \in D |-> v[t]] BY <1>5, <1>6
    <2>2. v \in Wallets BY <1>7, <1>8, <2>1, IsWallet
    <2>3. ASSUME NEW t \in D
          PROVE  /\ v[t].hashBlock # NullHash => Contains(Contents[v[t].hashBlock], t)
                 /\ v[t].credit # Stale => v[t].credit \subseteq Makes[t]
        <3>1. /\ w[t].hashBlock # NullHash => Contains(Contents[w[t].hashBlock], t)
              /\ w[t].credit # Stale => w[t].credit \subseteq Makes[t]
              BY <1>1, <1>2, <2>3 DEF Known
        <3>2. new[t] \subseteq Makes[t] BY <1>3, <2>3
        <3> QED BY <1>8, <3>1, <3>2
    <2> QED BY <1>6, <1>7, <2>2, <2>3 DEF Known
<1>10. Fresh(v, U)
    <2>1. SUFFICES ASSUME NEW t \in D, v[t].credit # Stale, NEW o \in v[t].credit,
                          NEW u \in U, o \in Spends[u]
                   PROVE  FALSE
          BY <1>6 DEF Fresh
    <2>2. CASE t \notin R
        <3>1. v[t].credit = w[t].credit BY <1>8, <2>2
        <3> QED BY <1>1, <1>2, <2>1, <3>1 DEF Fresh
    <2>3. CASE t \in R
        <3>1. o \in Mine /\ ~IsSpent(w, blocks, txs, o) BY <1>3, <1>8, <2>1, <2>3
        <3>2. u \in Ours
            <4>1. u \in PoolTxs BY <2>1
            <4> QED BY <2>1, <3>1, <4>1 DEF Ours
        <3>3. u \in DOMAIN w BY <1>1, <2>1, <3>2 DEF Knows
        <3>4. Depth(w, blocks, txs, u) >= 0 BY <1>1, <2>1, <3>3, DepthOfThere
        <3> QED BY <2>1, <3>1, <3>3, <3>4 DEF IsSpent
    <2> QED BY <2>2, <2>3
<1>11. Placed(v, d) BY <1>1, <1>2, <1>6, <1>8 DEF Placed
<1>12. Knows(v, U) BY <1>1, <1>2, <1>6 DEF Knows
<1>13. Keeps(w, v) BY <1>2, <1>6, <1>8 DEF Keeps
<1> QED BY <1>2, <1>6, <1>9, <1>10, <1>11, <1>12, <1>13 DEF Follows

\* What can be paid spends what the wallet has.
PaymentOf(w, t) ==
    /\ t \in PoolTxs /\ t \notin Minted \cup ZSpends \cup BadScript /\ t \notin DOMAIN w
    /\ Spends[t] # {} /\ Spends[t] \subseteq Mine
    /\ Involves(w, t)

LEMMA PayableFacts ==
    ASSUME NEW w, NEW blocks, NEW txs, NEW t \in Payable(w, blocks, txs)
    PROVE  PaymentOf(w, t) /\ Spends[t] \subseteq AvailableCoins(w, blocks, txs)
<1>1. t \in PayTxs /\ t \notin DOMAIN w /\ Spends[t] \subseteq AvailableCoins(w, blocks, txs)
      BY DEF Payable
<1>2. t \in PoolTxs /\ t \notin Minted \cup ZSpends \cup BadScript BY <1>1, WalletTransactions
<1>3. Spends[t] # {} BY <1>2, PoolTransactions
<1>4. \A o \in Spends[t] : o \in Mine /\ o[1] \in DOMAIN w BY <1>1 DEF AvailableCoins
<1>5. Involves(w, t) BY <1>3, <1>4 DEF Involves
<1> QED BY <1>1, <1>2, <1>3, <1>4, <1>5 DEF PaymentOf

LEMMA SyncedFollows ==
    ASSUME NEW w, NEW d, NEW U, Follows(w, d, U), InChain(d) \subseteq U,
           NEW t \in PoolTxs, Involves(w, t) \/ \A o \in Spends[t] : o[1] \in U,
           NEW v, Synced(w, t, NullHash, v)
    PROVE  Follows(v, d, U \cup {t}) /\ Keeps(w, v)
<1>1. Known(w) /\ Knows(w, U) /\ Fresh(w, U) /\ Placed(w, d) BY DEF Follows
<1>2. Fresh(v, U \cup {t}) BY <1>1, SyncedFresh
<1>3. Knows(v, U \cup {t}) BY <1>1, SyncedKnows
<1>4. Placed(v, d)
    <2>1. Knows(w, InChain(d)) BY <1>1 DEF Knows
    <2> QED BY <1>1, <2>1, SyncedPlaced
<1>5. Known(v) /\ Keeps(w, v) BY DEF Synced, Keeps
<1> QED BY <1>2, <1>3, <1>4, <1>5 DEF Follows

LEMMA CommitFollows ==
    ASSUME NEW w, NEW d, NEW U, Follows(w, d, U), InChain(d) \subseteq U,
           NEW t, PaymentOf(w, t),
           NEW v, v = MarkDirty(AddToWallet(w, t, NullHash), Parents(t))
    PROVE  Follows(v, d, U \cup {t}) /\ Keeps(w, v)
<1>1. Known(w) /\ t \in PoolTxs /\ Involves(w, t) BY DEF Follows, PaymentOf
<1>2. Synced(w, t, NullHash, v) BY <1>1, CommitSynced
<1> QED BY <1>1, <1>2, SyncedFollows

LEMMA FollowsFewer ==
    ASSUME NEW w, NEW d, NEW U, Follows(w, d, U), NEW V, V \subseteq U
    PROVE  Follows(w, d, V)
BY DEF Follows, Knows, Fresh

\* The pool accepts a transaction.
LEMMA AcceptBacked ==
    ASSUME NEW c, ChainOK(c), NEW p, Clear(c, p), Backed(c, p), NEW t \in PoolTxs,
           NEW policy, Verdict(c, p, t, policy) = "accepted", NEW q, q = AddUnchecked(p, t)
    PROVE  /\ Clear(c, q) /\ Backed(c, q) /\ q.pool = p.pool \cup {t}
           /\ \A o \in Spends[t] : o[1] \in p.pool \cup InChain(c)
<1>1. /\ Clear(c, q) /\ q.pool = p.pool \cup {t}
      /\ \A o \in Spends[t] : o[1] \in p.pool \/ (Available(c, o) /\ Mature(c, o))
      BY AcceptFacts
<1>2. Backed(c, q) BY <1>1 DEF Backed
<1>3. ASSUME NEW o \in Spends[t], Available(c, o) PROVE o[1] \in InChain(c)
    <2>1. o[1] \in PoolTxs BY MadeBy
    <2> QED BY <1>3, <2>1, MadeInChain DEF Available
<1> QED BY <1>1, <1>2, <1>3

\* After UpdateTip, which may have made and committed a transaction.
Minting(w, d, blocks, p, r) ==
    /\ Clear(blocks, r.pool) /\ Backed(blocks, r.pool) /\ p.pool \subseteq r.pool.pool
    /\ Follows(r.wallet, d, r.pool.pool \cup InChain(d)) /\ Keeps(w, r.wallet)

LEMMA AfterUpdateTipFollows ==
    ASSUME NEW d, NEW blocks, ChainOK(blocks),
           \A h \in DOMAIN d : Contains(blocks, d[h]),
           NEW p, Clear(blocks, p), Backed(blocks, p),
           NEW w, Follows(w, d, p.pool \cup InChain(d)),
           NEW r \in AfterUpdateTip(w, blocks, p)
    PROVE  Minting(w, d, blocks, p, r)
<1>1. PICK U : U = p.pool \cup InChain(d) OBVIOUS
<1>2. blocks \in Seq(PoolBlocks) BY DEF ChainOK
<1>3. U \subseteq PoolTxs /\ InChain(d) \subseteq U /\ U \subseteq p.pool \cup InChain(d)
      BY <1>1 DEF InChain, Clear, GoodPool, Pools
<1>4. Follows(w, d, U) BY <1>1
<1>5. PICK v : v = GetBalance(w, blocks, p.pool) OBVIOUS
<1>6. Follows(v, d, U) /\ Keeps(w, v) BY <1>2, <1>3, <1>4, <1>5, BalanceFollows
<1>7. \/ r = [wallet |-> w, pool |-> p]
      \/ r = [wallet |-> v, pool |-> p]
      \/ \E t \in Payable(v, blocks, p.pool) : r = CommitTransaction(t, v, blocks, p)
      BY <1>5 DEF AfterUpdateTip
<1>8. CASE r = [wallet |-> w, pool |-> p]
    <2>1. r.wallet = w /\ r.pool = p BY <1>8
    <2> QED BY <1>1, <1>4, <2>1 DEF Minting, Keeps
<1>9. CASE r = [wallet |-> v, pool |-> p]
    <2>1. r.wallet = v /\ r.pool = p BY <1>9
    <2> QED BY <1>1, <1>6, <2>1 DEF Minting
<1>10. CASE \E t \in Payable(v, blocks, p.pool) : r = CommitTransaction(t, v, blocks, p)
    <2>1. PICK t \in Payable(v, blocks, p.pool) : r = CommitTransaction(t, v, blocks, p)
          BY <1>10
    <2>2. PaymentOf(v, t) /\ t \in PoolTxs BY PayableFacts DEF PaymentOf
    <2>3. PICK x, q : /\ x = MarkDirty(AddToWallet(v, t, NullHash), Parents(t))
                      /\ q = IF Verdict(blocks, p, t, {}) = "accepted"
                             THEN AddUnchecked(p, t) ELSE p
          OBVIOUS
    <2>4. r.wallet = x /\ r.pool = q BY <2>1, <2>3 DEF CommitTransaction
    <2>5. Follows(x, d, U \cup {t}) /\ Keeps(v, x) BY <1>3, <1>6, <2>2, <2>3, CommitFollows
    <2>6. Keeps(w, x) BY <1>6, <2>5 DEF Keeps
    <2>7. /\ Clear(blocks, q) /\ Backed(blocks, q) /\ p.pool \subseteq q.pool
          /\ q.pool \subseteq p.pool \cup {t}
        <3>1. CASE Verdict(blocks, p, t, {}) = "accepted"
              BY <2>2, <2>3, <3>1, AcceptBacked
        <3>2. CASE Verdict(blocks, p, t, {}) # "accepted" BY <2>3, <3>2
        <3> QED BY <3>1, <3>2
    <2>8. Follows(x, d, q.pool \cup InChain(d))
        <3>1. q.pool \cup InChain(d) \subseteq U \cup {t} BY <1>1, <2>7
        <3> QED BY <2>5, <3>1, FollowsFewer
    <2> QED BY <2>4, <2>6, <2>7, <2>8 DEF Minting
<1> QED BY <1>7, <1>8, <1>9, <1>10

-----------------------------------------------------------------------------
(* A part of the chain, and a scan of the rest of it.                       *)

\* The wallet follows the first n blocks of c.
Upon(w, c, n) == Follows(w, SubSeq(c, 1, n), InChain(SubSeq(c, 1, n)))

LEMMA FollowsPart ==
    ASSUME NEW w, NEW c \in Seq(PoolBlocks), NEW U, Follows(w, c, U), InChain(c) \subseteq U,
           NEW n \in 0..Len(c)
    PROVE  Upon(w, c, n)
<1>1. PICK d : d = SubSeq(c, 1, n) OBVIOUS
<1>2. /\ d \in Seq(PoolBlocks) /\ Len(d) = n /\ DOMAIN d = 1..n /\ DOMAIN c = 1..Len(c)
      /\ \A h \in 1..n : d[h] = c[h] /\ h \in 1..Len(c)
      BY <1>1
<1>3. InChain(d) \subseteq U BY <1>2 DEF InChain
<1>4. Known(w) /\ Knows(w, U) /\ Fresh(w, U) /\ Placed(w, c) BY DEF Follows
<1>5. Placed(w, d) BY <1>2, <1>4 DEF Placed
<1>6. Knows(w, InChain(d)) /\ Fresh(w, InChain(d)) BY <1>3, <1>4 DEF Knows, Fresh
<1> QED BY <1>1, <1>4, <1>5, <1>6 DEF Upon, Follows

LEMMA UponAll ==
    ASSUME NEW w, NEW c \in Seq(PoolBlocks)
    PROVE  Upon(w, c, Len(c)) <=> Follows(w, c, InChain(c))
<1>1. SubSeq(c, 1, Len(c)) = c OBVIOUS
<1> QED BY <1>1 DEF Upon

\* What follows a part of a chain follows that part of a part of it.
LEMMA UponPart ==
    ASSUME NEW w, NEW c \in Seq(PoolBlocks), NEW m \in 0..Len(c), NEW n \in 0..m, Upon(w, c, n)
    PROVE  Upon(w, SubSeq(c, 1, m), n)
<1>1. SubSeq(SubSeq(c, 1, m), 1, n) = SubSeq(c, 1, n) OBVIOUS
<1> QED BY <1>1 DEF Upon

LEMMA SyncAllKnown ==
    ASSUME NEW w, Known(w), NEW txs, NEW hash, Comes(txs, hash)
    PROVE  Known(SyncAll(w, txs, hash))
<1>1. PICK n \in Nat : n = Len(txs) BY DEF Comes
<1>2. PICK g : g = Syncs(w, txs, hash) OBVIOUS
<1>3. SyncedEach(w, txs, hash, g) BY <1>2, SyncsFacts
<1>4. CASE n = 0 BY <1>1, <1>2, <1>3, <1>4 DEF SyncedEach, SyncAll
<1>5. CASE n # 0
    <2>1. n \in 1..n BY <1>5
    <2>2. Synced(g[n - 1], txs[n], hash, g[n]) BY <1>1, <1>3, <2>1 DEF SyncedEach
    <2> QED BY <1>1, <1>2, <2>2 DEF Synced, SyncAll
<1> QED BY <1>4, <1>5

Scans(w, c, from, g) ==
    /\ g[0] = w
    /\ \A h \in 1..Len(c) :
          g[h] = IF h < from THEN w ELSE SyncAll(g[h - 1], Contents[c[h]], c[h])

LEMMA RescansFacts ==
    ASSUME NEW c \in Seq(PoolBlocks), NEW from \in 1..Len(c) + 1, NEW w, Known(w),
           NEW g, g = Rescans(w, c, from)
    PROVE  Scans(w, c, from, g)
<1>1. PICK n \in Nat : n = Len(c) OBVIOUS
<1>2. PICK S : S = {x \in Wallets : Known(x)} OBVIOUS
<1>3. w \in S BY <1>2 DEF Known
<1>4. ASSUME NEW x \in S, NEW h \in 1..n
      PROVE  SyncAll(x, Contents[c[h]], c[h]) \in S
    <2>1. c[h] \in PoolBlocks BY <1>1
    <2>2. Contents[c[h]] \in Seq(PoolTxs) BY <2>1, PoolChain
    <2>3. Comes(Contents[c[h]], c[h]) BY <2>1, <2>2 DEF Comes, Contains
    <2>4. Known(SyncAll(x, Contents[c[h]], c[h])) BY <1>2, <2>3, SyncAllKnown
    <2> QED BY <1>2, <2>4 DEF Known
<1>5. PICK step : step = [h \in 1..n |-> [x \in S |->
                  IF h < from THEN w ELSE SyncAll(x, Contents[c[h]], c[h])]]
      OBVIOUS
<1>6. Steps(step, n, S)
    <2>1. \A x \in S : \A h \in 1..n :
              (IF h < from THEN w ELSE SyncAll(x, Contents[c[h]], c[h])) \in S
          BY <1>3, <1>4
    <2> QED BY <1>5, <2>1 DEF Steps
<1>7. PICK f : IsFold(f, n, S, w, step) BY <1>3, <1>6, FoldExists
<1>8. f \in [0..n -> S] /\ f[0] = w /\ \A h \in 1..n : f[h] = step[h][f[h - 1]]
      BY <1>7 DEF IsFold
<1>9. \A h \in 1..n : f[h] = IF h < from THEN w ELSE SyncAll(f[h - 1], Contents[c[h]], c[h])
    <2>1. TAKE h \in 1..n
    <2>2. f[h - 1] \in S BY <1>8
    <2> QED BY <1>5, <1>8, <2>2
<1>10. f = [h \in 0..n |->
               IF h < from THEN w ELSE SyncAll(f[h - 1], Contents[c[h]], c[h])]
    <2>1. 0 < from OBVIOUS
    <2> QED BY <1>8, <1>9, <2>1
<1>11. g = [h \in 0..n |->
               IF h < from THEN w ELSE SyncAll(g[h - 1], Contents[c[h]], c[h])]
       BY <1>1, <1>10 DEF Rescans
<1>12. g[0] = w
    <2>1. 0 \in 0..n /\ 0 < from BY <1>1
    <2> QED BY <1>11, <2>1
<1>13. \A h \in 1..n : g[h] = IF h < from THEN w ELSE SyncAll(g[h - 1], Contents[c[h]], c[h])
    <2>1. \A h \in 1..n : h \in 0..n OBVIOUS
    <2> QED BY <1>11, <2>1
<1> QED BY <1>1, <1>12, <1>13 DEF Scans

LEMMA RescanFollows ==
    ASSUME NEW c, SoundChain(c), NEW from \in 1..Len(c) + 1,
           NEW w, Upon(w, c, from - 1)
    PROVE  Follows(Rescans(w, c, from)[Len(c)], c, InChain(c))
<1>1. PICK n \in Nat : n = Len(c) BY DEF SoundChain, Sequel
<1>2. c \in Seq(PoolBlocks) BY DEF SoundChain, Sequel
<1>3. PICK g : g = Rescans(w, c, from) OBVIOUS
<1>4. Known(w) BY DEF Upon, Follows
<1>5. Scans(w, c, from, g) BY <1>2, <1>3, <1>4, RescansFacts
<1>6. PICK T : T = {h \in 0..n : h >= from - 1 => Upon(g[h], c, h)} OBVIOUS
<1>7. 0 \in T
    <2>1. 0 >= from - 1 => from - 1 = 0 OBVIOUS
    <2>2. g[0] = w BY <1>5 DEF Scans
    <2> QED BY <1>6, <2>1, <2>2
<1>8. ASSUME NEW h \in 1..n, h - 1 \in T PROVE h \in T
    <2>1. SUFFICES ASSUME h >= from - 1 PROVE Upon(g[h], c, h) BY <1>6
    <2>2. CASE h < from
        <3>1. h = from - 1 BY <2>1, <2>2
        <3>2. g[h] = w BY <1>1, <1>5, <2>2 DEF Scans
        <3> QED BY <3>1, <3>2
    <2>3. CASE h >= from
        <3>1. h - 1 >= from - 1 BY <2>3
        <3>2. Upon(g[h - 1], c, h - 1) BY <1>6, <1>8, <3>1
        <3>3. PICK b, d, e, x, v : /\ b = c[h] /\ d = SubSeq(c, 1, h - 1) /\ e = SubSeq(c, 1, h)
                                   /\ x = g[h - 1] /\ v = SyncAll(x, Contents[b], b)
              OBVIOUS
        <3>4. g[h] = v
            <4>1. ~(h < from) BY <2>3
            <4> QED BY <1>1, <1>5, <3>3, <4>1 DEF Scans
        <3>5. Follows(x, d, InChain(d)) BY <3>2, <3>3 DEF Upon
        <3>6. h \in 1..Len(c) BY <1>1
        <3>7. /\ Follows(v, e, InChain(d) \cup TxsOf(b))
              /\ InChain(e) = InChain(d) \cup TxsOf(b)
            <4>1. PICK U : U = InChain(d) OBVIOUS
            <4>2. Follows(x, d, U) /\ InChain(d) \subseteq U BY <3>5, <4>1
            <4>3. Told(x, b, d, e, U, v) BY <3>3, <3>6, <4>2, FollowsBlock
            <4> QED BY <4>1, <4>3 DEF Told
        <3>8. Follows(v, e, InChain(e)) BY <3>7
        <3> QED BY <3>3, <3>4, <3>8 DEF Upon
    <2> QED BY <2>2, <2>3
<1>9. \A h \in 0..n : h \in T BY <1>7, <1>8, StepByStep
<1>10. n \in T /\ n >= from - 1 BY <1>1, <1>9
<1>11. Upon(g[n], c, n) BY <1>6, <1>10
<1> QED BY <1>1, <1>2, <1>3, <1>11, UponAll

\* The scan starts within the chain, or not at all when the wallet knows the tip.
LEMMA ScanFacts ==
    ASSUME NEW c, Sequel(c), NEW best, Sequel(best), NEW from, from = ScanStart(c, best)
    PROVE  /\ from \in 1..Len(c) + 1 /\ from # Len(c)
           /\ from = Len(c) + 1 => c[Len(c)] \in Range(best)
<1>1. PICK n \in Nat : n = Len(c) /\ n >= 1 BY DEF Sequel
<1>2. c \in Seq(PoolBlocks) /\ DOMAIN c = 1..n BY <1>1 DEF Sequel
<1>3. PICK H : H = {h \in DOMAIN c : c[h] \in Range(best)} OBVIOUS
<1>4. c[1] \in Range(best)
    <2>1. c[1] = FirstBlock /\ best[1] = FirstBlock BY DEF Sequel, Branch
    <2>2. 1 \in DOMAIN best BY DEF Sequel
    <2> QED BY <2>1, <2>2 DEF Range
<1>5. 1 \in H /\ H \subseteq 1..n BY <1>1, <1>2, <1>3, <1>4
<1>6. PICK G : G = {n - h : h \in H} OBVIOUS
<1>7. G \in SUBSET Nat /\ G # {} BY <1>5, <1>6
<1>8. PICK k \in G : \A j \in G : k <= j BY <1>7, LeastElement
<1>9. PICK m \in H : k = n - m BY <1>6, <1>8
<1>10. \A h \in H : m >= h
    <2>1. TAKE h \in H
    <2>2. n - h \in G BY <1>6
    <2>3. n - m <= n - h BY <1>8, <1>9, <2>2
    <2> QED BY <1>5, <2>3
<1>11. PICK fork : fork = Max(H) OBVIOUS
<1>12. fork \in H BY <1>9, <1>10, <1>11 DEF Max
<1>13. from = IF fork = Len(c) THEN fork + 1 ELSE fork BY <1>3, <1>11 DEF ScanStart
<1>14. fork \in 1..n /\ c[fork] \in Range(best) BY <1>3, <1>5, <1>12
<1> QED BY <1>1, <1>13, <1>14

\* The pool and the wallet, while the wallet's transactions are offered again.
Offered(s, c) ==
    /\ Clear(c, s.pool) /\ Backed(c, s.pool)
    /\ Follows(s.wallet, c, s.pool.pool \cup InChain(c))
Offers(c) == {s \in [pool : Pools, wallet : Wallets] : Offered(s, c)}

LEMMA ReacceptOffers ==
    ASSUME NEW c, ChainOK(c), NEW s \in Offers(c), NEW t \in PoolTxs, NEW policy
    PROVE  Reaccept(s, c, t, policy) \in Offers(c)
<1>1. PICK p, w : p = s.pool /\ w = s.wallet OBVIOUS
<1>2. /\ p \in Pools /\ w \in Wallets /\ Clear(c, p) /\ Backed(c, p)
      /\ Follows(w, c, p.pool \cup InChain(c))
      BY <1>1 DEF Offers, Offered
<1>3. PICK U : U = p.pool \cup InChain(c) OBVIOUS
<1>4. Follows(w, c, U) /\ InChain(c) \subseteq U /\ Known(w) BY <1>2, <1>3 DEF Follows
<1>5. PICK r : r = Reaccept(s, c, t, policy) OBVIOUS
<1>6. CASE /\ t \in DOMAIN w \ Minted /\ Depth(w, c, p.pool, t) < 0
           /\ Verdict(c, p, t, policy) = "accepted"
    <2>1. PICK q, v : q = AddUnchecked(p, t) /\ v = SyncTransaction(w, t, NullHash) OBVIOUS
    <2>2. r = [pool |-> q, wallet |-> v] BY <1>1, <1>5, <1>6, <2>1 DEF Reaccept
    <2>3. Clear(c, q) /\ Backed(c, q) /\ q.pool = p.pool \cup {t}
          BY <1>2, <1>6, <2>1, AcceptBacked
    <2>4. Involves(w, t) BY <1>6 DEF Involves
    <2>5. Synced(w, t, NullHash, v) BY <1>4, <2>1, SyncSynced
    <2>6. Follows(v, c, U \cup {t}) BY <1>4, <2>4, <2>5, SyncedFollows
    <2>7. U \cup {t} = q.pool \cup InChain(c) BY <1>3, <2>3
    <2>8. q \in Pools /\ v \in Wallets BY <2>3, <2>6, ClearPools DEF Follows, Known
    <2>9. r \in [pool : Pools, wallet : Wallets] /\ r.pool = q /\ r.wallet = v BY <2>2, <2>8
    <2> QED BY <1>5, <2>3, <2>6, <2>7, <2>9 DEF Offers, Offered
<1>7. CASE ~(/\ t \in DOMAIN w \ Minted /\ Depth(w, c, p.pool, t) < 0
             /\ Verdict(c, p, t, policy) = "accepted")
    <2>1. r = s BY <1>1, <1>5, <1>7 DEF Reaccept
    <2> QED BY <1>5, <2>1
<1> QED BY <1>6, <1>7

\* What a transaction that is offered again leaves as it was, all of them do.
LEMMA ReacceptsStay ==
    ASSUME NEW c, NEW S, NEW policy,
           \A x \in S : \A t \in PoolTxs : Reaccept(x, c, t, policy) \in S, NEW s \in S
    PROVE  Reaccepts(s, c, policy)[Len(TxOrder)] \in S
<1>1. PICK n \in Nat : n = Len(TxOrder) BY WalletTransactions
<1>2. \A x \in S : \A i \in 1..n : Reaccept(x, c, TxOrder[i], policy) \in S
    <2>1. TAKE x \in S
    <2>2. TAKE i \in 1..n
    <2>3. TxOrder[i] \in PoolTxs BY <1>1, WalletTransactions
    <2> QED BY <2>3
<1>3. PICK step : step = [i \in 1..n |-> [x \in S |-> Reaccept(x, c, TxOrder[i], policy)]]
      OBVIOUS
<1>4. Steps(step, n, S) BY <1>2, <1>3 DEF Steps
<1>5. s \in S OBVIOUS
<1>6. PICK f : IsFold(f, n, S, s, step) BY <1>4, <1>5, FoldExists
<1>7. f \in [0..n -> S] /\ f[0] = s /\ \A i \in 1..n : f[i] = step[i][f[i - 1]]
      BY <1>6 DEF IsFold
<1>8. \A i \in 1..n : f[i] = Reaccept(f[i - 1], c, TxOrder[i], policy)
    <2>1. TAKE i \in 1..n
    <2>2. f[i - 1] \in S BY <1>7
    <2> QED BY <1>3, <1>7, <2>2
<1>9. f = [i \in 0..n |-> IF i = 0 THEN s ELSE Reaccept(f[i - 1], c, TxOrder[i], policy)]
       BY <1>7, <1>8
<1>10. PICK g : g = Reaccepts(s, c, policy) OBVIOUS
<1>11. g = [i \in 0..n |-> IF i = 0 THEN s ELSE Reaccept(g[i - 1], c, TxOrder[i], policy)]
       BY <1>1, <1>9, <1>10 DEF Reaccepts
<1>12. PICK T : T = {i \in 0..n : g[i] \in S} OBVIOUS
<1>13. 0 \in T
    <2>1. 0 \in 0..n BY <1>1
    <2>2. g[0] = s BY <1>11, <2>1
    <2> QED BY <1>5, <1>12, <2>1, <2>2
<1>14. ASSUME NEW i \in 1..n, i - 1 \in T PROVE i \in T
    <2>1. i \in 0..n /\ i # 0 OBVIOUS
    <2>2. g[i] = Reaccept(g[i - 1], c, TxOrder[i], policy) BY <1>11, <2>1
    <2>3. g[i - 1] \in S BY <1>12, <1>14
    <2> QED BY <1>2, <1>12, <2>1, <2>2, <2>3
<1>15. \A i \in 0..n : i \in T BY <1>13, <1>14, StepByStep
<1>16. n \in T BY <1>15
<1> QED BY <1>1, <1>10, <1>12, <1>16

LEMMA ReacceptsFollow ==
    ASSUME NEW c, ChainOK(c), NEW s \in Offers(c), NEW policy
    PROVE  Reaccepts(s, c, policy)[Len(TxOrder)] \in Offers(c)
<1>1. PICK S : S = Offers(c) OBVIOUS
<1>2. \A x \in S : \A t \in PoolTxs : Reaccept(x, c, t, policy) \in S
      BY <1>1, ReacceptOffers
<1> QED BY <1>1, <1>2, ReacceptsStay

\* What loses to a block is a sequence, in the order that SetToSeq chooses.
LEMMA LostFacts ==
    ASSUME NEW b, pool \in SUBSET PoolTxs
    PROVE  Lost(b) \in Seq(PoolTxs)
<1>1. PICK S : S = pool \ (RemoveForBlock(ThePool, Contents[b]).pool \cup Range(Contents[b]))
      OBVIOUS
<1>2. S \subseteq PoolTxs BY <1>1
<1>3. IsFiniteSet(S) BY <1>2, PoolTransactions, FS_Subset
<1>4. PICK n \in Nat : n = Cardinality(S) BY <1>3, FS_CardinalityType
<1>5. ExistsBijection(1..n, S) BY <1>3, <1>4, FS_CardinalityType
<1>6. \E f \in [1..n -> S] : IsInjective(f)
      BY <1>5 DEF ExistsBijection, Bijection, Injection
<1>7. SetToSeq(S) \in [1..n -> S] BY <1>4, <1>6 DEF SetToSeq
<1>8. Lost(b) = SetToSeq(S) BY <1>1 DEF Lost
<1>9. PICK l : l = Lost(b) OBVIOUS
<1>10. l \in [1..n -> PoolTxs] BY <1>2, <1>7, <1>8, <1>9
<1> QED BY <1>9, <1>10

\* A process that dies leaves no credit cached.
AllStale(w) == \A t \in DOMAIN w : w[t].credit = Stale

LEMMA DirtyFacts ==
    ASSUME NEW w, Known(w), NEW v, v = MarkDirty(w, DOMAIN w)
    PROVE  Known(v) /\ DOMAIN v = DOMAIN w /\ Keeps(w, v) /\ AllStale(v)
<1>1. PICK D : D = DOMAIN w OBVIOUS
<1>2. v = MarkDirty(w, D) BY <1>1
<1>3. /\ Known(v) /\ DOMAIN v = DOMAIN w
      /\ \A u \in DOMAIN w : /\ v[u].hashBlock = w[u].hashBlock
                             /\ v[u].credit = IF u \in D THEN Stale ELSE w[u].credit
      BY <1>2, DirtyParts
<1> QED BY <1>1, <1>3 DEF AllStale, Keeps

LEMMA DirtyFollows ==
    ASSUME NEW w, NEW c, NEW U, Known(w), Knows(w, U), Placed(w, c),
           NEW v, v = MarkDirty(w, DOMAIN w)
    PROVE  Follows(v, c, U)
<1>1. Known(v) /\ DOMAIN v = DOMAIN w /\ Keeps(w, v) /\ AllStale(v) BY DirtyFacts
<1>2. Fresh(v, U) BY <1>1 DEF Fresh, AllStale
<1>3. Knows(v, U) /\ Placed(v, c) BY <1>1 DEF Knows, Placed, Keeps
<1> QED BY <1>1, <1>2, <1>3 DEF Follows

LEMMA DirtyUpon ==
    ASSUME NEW w, NEW c, NEW n, Upon(w, c, n), NEW v, v = MarkDirty(w, DOMAIN w)
    PROVE  Upon(v, c, n)
<1>1. PICK d, U : d = SubSeq(c, 1, n) /\ U = InChain(d) OBVIOUS
<1>2. Known(w) /\ Knows(w, U) /\ Placed(w, d) BY <1>1 DEF Upon, Follows
<1>3. Follows(v, d, U) BY <1>2, DirtyFollows
<1> QED BY <1>1, <1>3 DEF Upon

-----------------------------------------------------------------------------
(* The invariant of the wallet.                                             *)

\* The transactions of the wallet that are in a block which wallet.dat has seen
\* have that block, or one of c.
Remembers(w, c, best) ==
    \A h \in DOMAIN best : \A t \in TxsOf(best[h]) \cap Ours :
        t \in DOMAIN w /\ (w[t].hashBlock = best[h] \/ Contains(c, w[t].hashBlock))

LEMMA RememberChain ==
    ASSUME NEW w, NEW c \in Seq(PoolBlocks), NEW U, Follows(w, c, U), InChain(c) \subseteq U, NEW d
    PROVE  Remembers(w, d, c)
<1>1. SUFFICES ASSUME NEW h \in DOMAIN c, NEW t \in TxsOf(c[h]) \cap Ours
               PROVE  t \in DOMAIN w /\ w[t].hashBlock = c[h]
      BY DEF Remembers
<1>2. Contains(Contents[c[h]], t) /\ t \in PoolTxs BY <1>1 DEF TxsOf, Contains, Ours
<1>3. t \in InChain(c) BY <1>1, <1>2 DEF InChain
<1>4. t \in DOMAIN w BY <1>1, <1>3 DEF Follows, Knows
<1> QED BY <1>1, <1>2, <1>4 DEF Follows, Placed

LEMMA RememberStill ==
    ASSUME NEW w, NEW c, NEW best, Remembers(w, c, best), NEW v, Keeps(w, v)
    PROVE  Remembers(v, c, best)
BY DEF Remembers, Keeps

\* ... and after one more block.
LEMMA RememberMore ==
    ASSUME NEW w, NEW c, NEW best, Remembers(w, c, best), NEW b, NEW v,
           InBlock(w, v, b, TxsOf(b)),
           NEW more, \A x : Contains(c, x) \/ x = b => Contains(more, x)
    PROVE  Remembers(v, more, best)
<1>1. SUFFICES ASSUME NEW h \in DOMAIN best, NEW t \in TxsOf(best[h]) \cap Ours
               PROVE  t \in DOMAIN v /\ (\/ v[t].hashBlock = best[h]
                                         \/ Contains(more, v[t].hashBlock))
      BY DEF Remembers
<1>2. /\ t \in DOMAIN w /\ t \in DOMAIN v
      /\ w[t].hashBlock = best[h] \/ Contains(c, w[t].hashBlock)
      BY <1>1 DEF Remembers, InBlock
<1>3. v[t].hashBlock = b \/ v[t].hashBlock = w[t].hashBlock BY <1>2 DEF InBlock
<1> QED BY <1>2, <1>3

\* What is in the files.
WalletFiles ==
    /\ Len(flushed) \in 1..Len(chain) /\ flushed = SubSeq(chain, 1, Len(flushed))
    /\ Sequel(walletBest)
    /\ reloads = 0 => Remembers(mapWallet, chain, walletBest)
\* While the process runs, the wallet follows the chain and the pool; else it
\* follows the chain that will be found, up to where a scan will start.
WalletRuns == up => Follows(mapWallet, chain, pool \cup InChain(chain))
WalletStopped == ~up =>
    /\ chain = flushed /\ pool = {}
    /\ Upon(mapWallet, chain, ScanStart(chain, walletBest) - 1)
    /\ reloads = 0 => walletBest = chain
WalletCounts == up \in BOOLEAN /\ reloads \in 0..MaxReloads /\ work = Idle
WalletInv ==
    /\ SoundChain(chain) /\ PoolInv /\ WalletCounts
    /\ WalletFiles /\ WalletRuns /\ WalletStopped

LEMMA SoundFacts ==
    ASSUME SoundChain(chain), PoolInv
    PROVE  /\ chain \in Seq(PoolBlocks) /\ Len(chain) \in Nat /\ Len(chain) >= 1
           /\ DOMAIN chain = 1..Len(chain) /\ Sequel(chain)
           /\ ChainOK(chain) /\ Clear(chain, ThePool) /\ Backed(chain, ThePool)
           /\ ThePool.pool = pool /\ pool \in SUBSET PoolTxs
           /\ pool \cup InChain(chain) \subseteq PoolTxs
           /\ \A h \in DOMAIN chain : Contains(chain, chain[h])
<1>1. chain \in Seq(PoolBlocks) /\ Len(chain) \in Nat /\ Len(chain) >= 1 /\ Sequel(chain)
      BY DEF SoundChain, Sequel
<1>2. ChainOK(chain) /\ Clear(chain, ThePool) /\ Backed(chain, ThePool)
      BY DEF PoolInv
<1>3. ThePool.pool = pool BY DEF ThePool
<1>4. pool \in SUBSET PoolTxs BY <1>2, <1>3 DEF Clear, GoodPool, Pools
<1>5. pool \cup InChain(chain) \subseteq PoolTxs BY <1>4 DEF InChain
<1>6. DOMAIN chain = 1..Len(chain) /\ \A h \in DOMAIN chain : Contains(chain, chain[h])
      BY <1>1 DEF Contains
<1> QED BY <1>1, <1>2, <1>3, <1>4, <1>5, <1>6

LEMMA ChainFacts ==
    ASSUME WalletInv
    PROVE  /\ chain \in Seq(PoolBlocks) /\ Len(chain) \in Nat /\ Len(chain) >= 1
           /\ DOMAIN chain = 1..Len(chain)
           /\ ChainOK(chain) /\ Clear(chain, ThePool) /\ Backed(chain, ThePool)
           /\ ThePool.pool = pool /\ pool \in SUBSET PoolTxs
           /\ pool \cup InChain(chain) \subseteq PoolTxs
           /\ \A h \in DOMAIN chain : Contains(chain, chain[h])
BY SoundFacts DEF WalletInv

\* The chain and the files as they were.
LEMMA RunsOn ==
    ASSUME WalletInv, up, PoolInv', work' = Idle,
           UNCHANGED <<chain, walletBest, flushed, up, reloads>>,
           Keeps(mapWallet, mapWallet'),
           Follows(mapWallet', chain, pool' \cup InChain(chain))
    PROVE  WalletInv'
<1>1. /\ chain' = chain /\ walletBest' = walletBest /\ flushed' = flushed /\ up' = up
      /\ reloads' = reloads
      OBVIOUS
<1>2. SoundChain(chain') BY <1>1 DEF WalletInv
<1>3. WalletCounts' BY <1>1 DEF WalletInv, WalletCounts
<1>4. WalletFiles'
    <2>1. reloads = 0 => Remembers(mapWallet', chain, walletBest)
          BY RememberStill DEF WalletInv, WalletFiles
    <2> QED BY <1>1, <2>1 DEF WalletInv, WalletFiles
<1>5. WalletRuns' BY <1>1 DEF WalletRuns
<1>6. WalletStopped' BY <1>1 DEF WalletStopped
<1> QED BY <1>2, <1>3, <1>4, <1>5, <1>6 DEF WalletInv

LEMMA WalletAcceptsInv ==
    ASSUME WalletInv, up, NEW t \in PoolTxs, WalletAccepts(t)
    PROVE  WalletInv'
<1>1. /\ Involves(mapWallet, t) /\ Verdict(chain, ThePool, t, {}) = "accepted"
      /\ SetPool(AddUnchecked(ThePool, t))
      /\ mapWallet' = SyncTransaction(mapWallet, t, NullHash)
      /\ UNCHANGED <<chain, work, walletBest, flushed, up, reloads>>
      BY DEF WalletAccepts
<1>2. PoolInv' /\ pool' = pool \cup {t} BY <1>1, AcceptPoolInv DEF WalletInv
<1>3. PICK w, v, U : w = mapWallet /\ v = mapWallet' /\ U = pool \cup InChain(chain) OBVIOUS
<1>4. Follows(w, chain, U) /\ InChain(chain) \subseteq U /\ Known(w)
      BY <1>3 DEF WalletInv, WalletRuns, Follows
<1>5. Synced(w, t, NullHash, v) BY <1>1, <1>3, <1>4, SyncSynced
<1>6. Involves(w, t) BY <1>1, <1>3
<1>7. Follows(v, chain, U \cup {t}) /\ Keeps(w, v) BY <1>4, <1>5, <1>6, SyncedFollows
<1>8. U \cup {t} = pool' \cup InChain(chain) BY <1>2, <1>3
<1>9. work' = Idle BY <1>1 DEF WalletInv, WalletCounts
<1> QED BY <1>1, <1>2, <1>3, <1>7, <1>8, <1>9, RunsOn

LEMMA PayInv ==
    ASSUME WalletInv, up, NEW t \in PoolTxs, Pay(t)
    PROVE  WalletInv'
<1>1. PICK w, U, p : w = mapWallet /\ U = pool \cup InChain(chain) /\ p = ThePool OBVIOUS
<1>2. PICK v, q : /\ v = MarkDirty(AddToWallet(w, t, NullHash), Parents(t))
                  /\ q = IF Verdict(chain, p, t, {}) = "accepted" THEN AddUnchecked(p, t) ELSE p
      OBVIOUS
<1>3. PICK r : r = CommitTransaction(t, w, chain, p) OBVIOUS
<1>4. r.wallet = v /\ r.pool = q BY <1>2, <1>3 DEF CommitTransaction
<1>5. /\ t \in Payable(w, chain, pool) /\ mapWallet' = v /\ SetPool(q)
      /\ UNCHANGED <<chain, work, walletBest, flushed, up, reloads>>
      BY <1>1, <1>3, <1>4 DEF Pay, SetBoth
<1>6. Follows(w, chain, U) /\ InChain(chain) \subseteq U BY <1>1 DEF WalletInv, WalletRuns
<1>7. PaymentOf(w, t) BY <1>5, PayableFacts
<1>8. Follows(v, chain, U \cup {t}) /\ Keeps(w, v) BY <1>2, <1>6, <1>7, CommitFollows
<1>9. PoolInv' /\ pool' \subseteq pool \cup {t}
    <2>1. CASE Verdict(chain, ThePool, t, {}) = "accepted"
        <3>1. SetPool(AddUnchecked(ThePool, t)) BY <1>1, <1>2, <1>5, <2>1
        <3> QED BY <1>5, <2>1, <3>1, AcceptPoolInv DEF WalletInv
    <2>2. CASE Verdict(chain, ThePool, t, {}) # "accepted"
        <3>1. SetPool(ThePool) BY <1>1, <1>2, <1>5, <2>2
        <3>2. pool' = pool /\ nextTx' = nextTx BY <3>1 DEF SetPool, ThePool
        <3> QED BY <1>5, <3>2, StutterPoolInv DEF WalletInv
    <2> QED BY <2>1, <2>2
<1>10. Follows(v, chain, pool' \cup InChain(chain))
    <2>1. pool' \cup InChain(chain) \subseteq U \cup {t} BY <1>1, <1>9
    <2> QED BY <1>8, <2>1, FollowsFewer
<1>11. work' = Idle BY <1>5 DEF WalletInv, WalletCounts
<1> QED BY <1>1, <1>5, <1>8, <1>9, <1>10, <1>11, RunsOn

LEMMA ReadBalanceInv ==
    ASSUME WalletInv, up, ReadBalance
    PROVE  WalletInv'
<1>1. /\ mapWallet' = GetBalance(mapWallet, chain, pool)
      /\ UNCHANGED <<chain, pool, nextTx, work, walletBest, flushed, up, reloads>>
      BY DEF ReadBalance, poolVars
<1>2. PICK w, v, U : w = mapWallet /\ v = mapWallet' /\ U = pool \cup InChain(chain) OBVIOUS
<1>3. /\ U \subseteq PoolTxs /\ chain \in Seq(PoolBlocks)
      /\ \A h \in DOMAIN chain : Contains(chain, chain[h])
      BY <1>2, ChainFacts
<1>4. Follows(w, chain, U) /\ v = GetBalance(w, chain, pool)
      BY <1>1, <1>2 DEF WalletInv, WalletRuns
<1>5. Follows(v, chain, U) /\ Keeps(w, v) BY <1>2, <1>3, <1>4, BalanceFollows
<1>6. PoolInv' BY <1>1, StutterPoolInv DEF WalletInv
<1>7. work' = Idle BY <1>1 DEF WalletInv, WalletCounts
<1>8. Follows(mapWallet', chain, pool' \cup InChain(chain)) BY <1>1, <1>2, <1>5
<1> QED BY <1>1, <1>2, <1>5, <1>6, <1>7, <1>8, RunsOn

LEMMA WalletLockInv ==
    ASSUME WalletInv, up, NEW t \in PoolTxs, WalletLock(t)
    PROVE  WalletInv'
<1>1. /\ SetPool(RemoveConflicts(ThePool, t))
      /\ UNCHANGED <<chain, work, mapWallet, walletBest, flushed, up, reloads>>
      BY DEF WalletLock, LockTransaction, walletVars
<1>2. PICK p, q : p = ThePool /\ q = RemoveConflicts(p, t) OBVIOUS
<1>3. Clear(chain, p) /\ Backed(chain, p) /\ ChainOK(chain) /\ p.pool = pool
      BY <1>2, ChainFacts
<1>4. Shrinks(p, q) BY <1>2, <1>3, RemoveConflictsFacts DEF Clear
<1>5. Clear(chain, q) /\ Backed(chain, q) BY <1>3, <1>4, ShrinksClear, ShrinksBacked
<1>6. SetPool(q) BY <1>1, <1>2
<1>7. PoolInv'
    <2>1. ChainOK(chain') /\ Clear(chain', q) /\ Backed(chain', q) BY <1>1, <1>3, <1>5
    <2> QED BY <1>6, <2>1, PoolInvAfter
<1>8. pool' \subseteq pool BY <1>3, <1>4, <1>6 DEF Shrinks, SetPool
<1>9. Follows(mapWallet', chain, pool' \cup InChain(chain))
    <2>1. Follows(mapWallet, chain, pool \cup InChain(chain)) BY DEF WalletInv, WalletRuns
    <2>2. pool' \cup InChain(chain) \subseteq pool \cup InChain(chain) BY <1>8
    <2>3. Follows(mapWallet, chain, pool' \cup InChain(chain)) BY <2>1, <2>2, FollowsFewer
    <2> QED BY <1>1, <2>3
<1>10. work' = Idle /\ Keeps(mapWallet, mapWallet')
       BY <1>1 DEF WalletInv, WalletCounts, Keeps
<1> QED BY <1>1, <1>7, <1>9, <1>10, RunsOn

LEMMA RunsAfter ==
    ASSUME WalletInv, up, UNCHANGED <<up, reloads, work>>, SoundChain(chain'), PoolInv',
           WalletFiles', Follows(mapWallet', chain', pool' \cup InChain(chain'))
    PROVE  WalletInv'
<1>1. WalletCounts' BY DEF WalletInv, WalletCounts
<1>2. WalletRuns' BY DEF WalletRuns
<1>3. WalletStopped' BY DEF WalletStopped
<1> QED BY <1>1, <1>2, <1>3 DEF WalletInv

\* ConnectTip: the pool and the wallet with b on the chain.
Connects(b, more, r, v) ==
    /\ SoundChain(more) /\ ChainOK(more) /\ Clear(more, r.pool) /\ Backed(more, r.pool)
    /\ Follows(v, more, r.pool.pool \cup InChain(more))
    /\ \A best : Remembers(mapWallet, chain, best) => Remembers(v, more, best)

LEMMA ConnectsAll ==
    ASSUME WalletInv, up, NEW b \in PoolBlocks, CanConnect(b),
           NEW more, more = Append(chain, b),
           NEW r \in AfterUpdateTip(mapWallet, more, RemoveForBlock(ThePool, Contents[b])),
           NEW v, v = SyncAll(SyncAll(r.wallet, Lost(b), NullHash), Contents[b], b)
    PROVE  Connects(b, more, r, v)
<1>1. PICK w, p, q, x, n : /\ w = mapWallet /\ p = ThePool /\ q = RemoveForBlock(p, Contents[b])
                           /\ x = SyncAll(r.wallet, Lost(b), NullHash) /\ n = Len(chain)
      OBVIOUS
<1>2. /\ chain \in Seq(PoolBlocks) /\ n \in Nat /\ DOMAIN chain = 1..n
      /\ ChainOK(chain) /\ Clear(chain, p) /\ Backed(chain, p) /\ p.pool = pool
      /\ pool \in SUBSET PoolTxs
      BY <1>1, ChainFacts
<1>3. /\ SoundChain(more) /\ SubSeq(more, 1, n) = chain
      /\ Len(more) = n + 1 /\ more[n + 1] = b
      /\ \A h \in 1..n : more[h] = chain[h]
    <2>1. SoundChain(chain) BY DEF WalletInv
    <2>2. Grown(b, more) BY <2>1, ConnectSound
    <2> QED BY <1>1, <2>2 DEF Grown
<1>4. ChainOK(more) /\ Clear(more, q) /\ Backed(more, q)
      BY <1>1, <1>2, ConnectTipPool DEF CanConnect
<1>5. q.pool \subseteq p.pool
    <2>1. PICK txs : txs = Contents[b] OBVIOUS
    <2>2. txs \in Seq(PoolTxs) BY <2>1, PoolChain
    <2>3. PoolKept(p, q, {txs[j] : j \in 1..Len(txs)})
          BY <1>1, <1>2, <2>1, <2>2, RemoveForBlockKept DEF Clear
    <2> QED BY <2>3 DEF PoolKept
<1>6. more \in Seq(PoolBlocks) /\ DOMAIN more = 1..n + 1
      BY <1>2, <1>3 DEF SoundChain, Sequel
<1>7. \A h \in DOMAIN chain : Contains(more, chain[h])
    <2>1. \A h \in 1..n : h \in 1..Len(more) /\ more[h] = chain[h] BY <1>2, <1>3
    <2> QED BY <1>2, <2>1 DEF Contains
<1>8. Follows(w, chain, q.pool \cup InChain(chain))
    <2>1. Follows(w, chain, pool \cup InChain(chain)) BY <1>1 DEF WalletInv, WalletRuns
    <2>2. q.pool \cup InChain(chain) \subseteq pool \cup InChain(chain) BY <1>2, <1>5
    <2> QED BY <2>1, <2>2, FollowsFewer
<1>9. Minting(w, chain, more, q, r) BY <1>1, <1>4, <1>7, <1>8, AfterUpdateTipFollows
<1>10. PICK U : U = r.pool.pool \cup InChain(chain) OBVIOUS
<1>11. /\ Clear(more, r.pool) /\ Backed(more, r.pool)
       /\ Follows(r.wallet, chain, U) /\ Keeps(w, r.wallet) /\ InChain(chain) \subseteq U
       BY <1>9, <1>10 DEF Minting
<1>12. Follows(x, chain, U) /\ Keeps(r.wallet, x)
    <2>1. Lost(b) \in Seq(PoolTxs) BY <1>2, LostFacts
    <2> QED BY <1>1, <1>11, <2>1, SyncAllNull
<1>13. v = SyncAll(x, Contents[b], b) BY <1>1
<1>14. Told(x, b, chain, more, U, v)
    <2>1. PICK h : h = n + 1 OBVIOUS
    <2>2. h \in 1..Len(more) /\ b = more[h] /\ h - 1 = n BY <1>2, <1>3, <2>1
    <2>3. chain = SubSeq(more, 1, h - 1) BY <1>3, <2>2
    <2>4. more = SubSeq(more, 1, h) BY <1>2, <1>3, <1>6, <2>1
    <2> QED BY <1>3, <1>11, <1>12, <1>13, <2>2, <2>3, <2>4, FollowsBlock
<1>15. Follows(v, more, r.pool.pool \cup InChain(more))
    <2>1. U \cup TxsOf(b) = r.pool.pool \cup InChain(more) BY <1>10, <1>14 DEF Told
    <2> QED BY <1>14, <2>1 DEF Told
<1>16. ASSUME NEW best, Remembers(w, chain, best) PROVE Remembers(v, more, best)
    <2>1. Keeps(w, x) BY <1>11, <1>12 DEF Keeps
    <2>2. Remembers(x, chain, best) BY <1>16, <2>1, RememberStill
    <2>3. ASSUME NEW y, Contains(chain, y) \/ y = b PROVE Contains(more, y)
        <3>1. CASE Contains(chain, y)
            <4>1. PICK h \in 1..n : chain[h] = y BY <1>1, <3>1 DEF Contains
            <4> QED BY <1>2, <1>7, <4>1
        <3>2. CASE y = b
            <4>1. n + 1 \in 1..Len(more) BY <1>2, <1>3
            <4> QED BY <1>3, <3>2, <4>1 DEF Contains
        <3> QED BY <2>3, <3>1, <3>2
    <2>4. InBlock(x, v, b, TxsOf(b)) BY <1>14 DEF Told
    <2> QED BY <2>2, <2>3, <2>4, RememberMore
<1> QED BY <1>1, <1>3, <1>4, <1>11, <1>15, <1>16 DEF Connects

LEMMA WalletConnectTipInv ==
    ASSUME WalletInv, up, NEW b \in PoolBlocks, WalletConnectTip(b)
    PROVE  WalletInv'
<1>1. PICK more : more = Append(chain, b) OBVIOUS
<1>2. /\ CanConnect(b) /\ chain' = more
      /\ \/ UNCHANGED <<flushed, walletBest>>
         \/ flushed' = more /\ walletBest' \in {walletBest, chain}
      /\ UNCHANGED <<up, reloads>>
      BY <1>1 DEF WalletConnectTip
<1>3. PICK r \in AfterUpdateTip(mapWallet, more, RemoveForBlock(ThePool, Contents[b])) :
          SetBoth(SyncAll(SyncAll(r.wallet, Lost(b), NullHash), Contents[b], b), r.pool)
      BY <1>1 DEF WalletConnectTip
<1>4. PICK v : v = SyncAll(SyncAll(r.wallet, Lost(b), NullHash), Contents[b], b) OBVIOUS
<1>5. mapWallet' = v /\ SetPool(r.pool) /\ UNCHANGED work BY <1>3, <1>4 DEF SetBoth
<1>6. Connects(b, more, r, v) BY <1>1, <1>2, <1>3, <1>4, ConnectsAll
<1>7. SoundChain(chain') /\ PoolInv'
    <2>1. ChainOK(chain') /\ Clear(chain', r.pool) /\ Backed(chain', r.pool)
          BY <1>2, <1>6 DEF Connects
    <2> QED BY <1>2, <1>5, <1>6, <2>1, PoolInvAfter DEF Connects
<1>8. Follows(mapWallet', chain', pool' \cup InChain(chain'))
      BY <1>2, <1>5, <1>6 DEF Connects, SetPool
<1>9. PICK n \in Nat : n = Len(chain) BY ChainFacts
<1>10. chain \in Seq(PoolBlocks) /\ n >= 1 BY <1>9, ChainFacts
<1>11. more \in Seq(PoolBlocks) /\ Len(more) = n + 1 BY <1>1, <1>9, <1>10
<1>12. Len(flushed') \in 1..Len(chain') /\ flushed' = SubSeq(chain', 1, Len(flushed'))
    <2>1. CASE flushed' = more
        <3>1. more = SubSeq(more, 1, n + 1) BY <1>11
        <3> QED BY <1>2, <1>10, <1>11, <2>1, <3>1
    <2>2. CASE flushed' = flushed
        <3>1. PICK m : m = Len(flushed) OBVIOUS
        <3>2. m \in 1..n /\ flushed = SubSeq(chain, 1, m) BY <1>9, <3>1 DEF WalletInv, WalletFiles
        <3>3. SubSeq(more, 1, m) = SubSeq(chain, 1, m) BY <1>1, <1>9, <1>10, <3>2
        <3> QED BY <1>2, <1>11, <2>2, <3>1, <3>2, <3>3
    <2> QED BY <1>2, <2>1, <2>2
<1>13. walletBest' \in {walletBest, chain} BY <1>2
<1>14. Sequel(walletBest') BY <1>13 DEF WalletInv, WalletFiles, SoundChain
<1>15. reloads = 0 => Remembers(v, more, walletBest')
    <2>1. Remembers(mapWallet, chain, chain)
        <3>1. PICK U : U = pool \cup InChain(chain) OBVIOUS
        <3>2. Follows(mapWallet, chain, U) /\ InChain(chain) \subseteq U
              BY <3>1 DEF WalletInv, WalletRuns
        <3> QED BY <1>10, <3>2, RememberChain
    <2>2. reloads = 0 => Remembers(mapWallet, chain, walletBest) BY DEF WalletInv, WalletFiles
    <2>3. reloads = 0 => Remembers(mapWallet, chain, walletBest') BY <1>13, <2>1, <2>2
    <2> QED BY <1>6, <2>3 DEF Connects
<1>16. WalletFiles' BY <1>2, <1>5, <1>12, <1>14, <1>15 DEF WalletFiles
<1> QED BY <1>2, <1>5, <1>7, <1>8, <1>16, RunsAfter

LEMMA WalletFlushInv ==
    ASSUME WalletInv, up, WalletFlush
    PROVE  WalletInv'
<1>1. /\ flushed' = chain /\ walletBest' = chain
      /\ UNCHANGED <<chain, pool, nextTx, work, mapWallet, up, reloads>>
      BY DEF WalletFlush, poolVars
<1>2. PICK U : U = pool \cup InChain(chain) OBVIOUS
<1>3. Follows(mapWallet, chain, U) /\ InChain(chain) \subseteq U
      BY <1>2 DEF WalletInv, WalletRuns
<1>4. chain \in Seq(PoolBlocks) /\ Len(chain) >= 1 /\ Len(chain) \in Nat BY ChainFacts
<1>5. Remembers(mapWallet, chain, chain) BY <1>3, <1>4, RememberChain
<1>6. chain = SubSeq(chain, 1, Len(chain)) BY <1>4
<1>7. WalletFiles' BY <1>1, <1>4, <1>5, <1>6 DEF WalletFiles, WalletInv, SoundChain
<1>8. PoolInv' BY <1>1, StutterPoolInv DEF WalletInv
<1>9. Follows(mapWallet', chain', pool' \cup InChain(chain')) BY <1>1, <1>2, <1>3
<1>10. SoundChain(chain') BY <1>1 DEF WalletInv
<1> QED BY <1>1, <1>7, <1>8, <1>9, <1>10, RunsAfter

LEMMA WalletDisconnectTipInv ==
    ASSUME WalletInv, up, NEW policy \in Policies, WalletDisconnectTip(policy)
    PROVE  WalletInv'
<1>1. PICK less, n, w, p, q : /\ less = Front(chain) /\ n = Len(chain) /\ w = mapWallet
                              /\ p = ThePool /\ q = PoolWithoutTip(policy)
      OBVIOUS
<1>2. /\ n > 1 /\ chain' = less /\ flushed' = less /\ walletBest' = chain
      /\ UNCHANGED <<up, reloads>>
      BY <1>1 DEF WalletDisconnectTip, CanDisconnect
<1>3. PICK r \in AfterUpdateTip(w, less, q) :
          SetBoth(SyncAll(r.wallet, Contents[Tip], NullHash), r.pool)
      BY <1>1 DEF WalletDisconnectTip
<1>4. PICK v : v = SyncAll(r.wallet, Contents[Tip], NullHash) OBVIOUS
<1>5. mapWallet' = v /\ SetPool(r.pool) /\ UNCHANGED work BY <1>3, <1>4 DEF SetBoth
<1>6. /\ chain \in Seq(PoolBlocks) /\ n \in Nat /\ DOMAIN chain = 1..n /\ ChainOK(chain)
      /\ Clear(chain, p) /\ p.pool = pool /\ SoundChain(chain)
      BY <1>1, ChainFacts DEF WalletInv
<1>7. less = SubSeq(chain, 1, n - 1) BY <1>1 DEF Front
<1>8. /\ SoundChain(less) /\ Len(less) = n - 1 /\ \A h \in 1..(n - 1) : less[h] = chain[h]
      /\ InChain(less) \subseteq InChain(chain)
    <2>1. PICK m : m = n - 1 OBVIOUS
    <2>2. m \in 1..Len(chain) /\ less = SubSeq(chain, 1, m) BY <1>1, <1>2, <1>6, <1>7, <2>1
    <2>3. /\ SoundChain(less) /\ Len(less) = m /\ \A h \in 1..m : less[h] = chain[h]
          /\ InChain(less) \subseteq InChain(chain)
          BY <1>6, <2>2, PrefixSound
    <2> QED BY <2>1, <2>3
<1>9. PICK txs : txs = Contents[Tip] OBVIOUS
<1>10. txs \in Seq(PoolTxs) /\ \A j \in 1..Len(txs) : txs[j] \in InChain(chain)
    <2>1. n \in DOMAIN chain /\ Tip = chain[n] /\ Tip \in PoolBlocks BY <1>1, <1>2, <1>6 DEF Tip
    <2>2. txs \in Seq(PoolTxs) BY <1>9, <2>1, PoolChain
    <2> QED BY <1>9, <2>1, <2>2 DEF InChain, Contains
<1>11. /\ ChainOK(less) /\ Clear(less, q) /\ Backed(less, q)
       /\ q.pool \subseteq p.pool \cup {txs[j] : j \in 1..Len(txs)}
    <2>1. q = RemoveCoinbaseSpends(Front(chain),
                  Resurrections(Front(chain), p, txs, policy)[Len(txs)])
          BY <1>1, <1>9 DEF PoolWithoutTip
    <2> QED BY <1>1, <1>2, <1>6, <1>10, <2>1, DisconnectTipPool
<1>12. q.pool \cup InChain(less) \subseteq pool \cup InChain(chain) BY <1>6, <1>8, <1>10, <1>11
<1>13. Follows(w, chain, pool \cup InChain(chain)) BY <1>1 DEF WalletInv, WalletRuns
<1>14. less \in Seq(PoolBlocks) /\ DOMAIN less = 1..(n - 1)
       BY <1>6, <1>8 DEF SoundChain, Sequel
<1>15. Follows(w, less, q.pool \cup InChain(less))
    <2>1. Follows(w, chain, q.pool \cup InChain(less)) BY <1>12, <1>13, FollowsFewer
    <2>2. Placed(w, less) BY <1>6, <1>8, <1>13, <1>14 DEF Follows, Placed
    <2> QED BY <2>1, <2>2 DEF Follows
<1>16. \A h \in DOMAIN less : Contains(less, less[h]) BY <1>8, <1>14 DEF Contains
<1>17. Minting(w, less, less, q, r) BY <1>3, <1>11, <1>15, <1>16, AfterUpdateTipFollows
<1>18. PICK U : U = r.pool.pool \cup InChain(less) OBVIOUS
<1>19. /\ Clear(less, r.pool) /\ Backed(less, r.pool)
       /\ Follows(r.wallet, less, U) /\ Keeps(w, r.wallet) /\ InChain(less) \subseteq U
       BY <1>17, <1>18 DEF Minting
<1>20. Follows(v, less, U) /\ Keeps(r.wallet, v) BY <1>4, <1>9, <1>10, <1>19, SyncAllNull
<1>21. SoundChain(chain') /\ PoolInv'
    <2>1. ChainOK(chain') /\ Clear(chain', r.pool) /\ Backed(chain', r.pool)
          BY <1>2, <1>11, <1>19
    <2> QED BY <1>2, <1>5, <1>8, <2>1, PoolInvAfter
<1>22. Follows(mapWallet', chain', pool' \cup InChain(chain'))
       BY <1>2, <1>5, <1>18, <1>20 DEF SetPool
<1>23. WalletFiles'
    <2>1. Remembers(w, less, chain)
        <3>1. PICK V : V = pool \cup InChain(chain) OBVIOUS
        <3>2. Follows(w, chain, V) /\ InChain(chain) \subseteq V BY <1>13, <3>1
        <3> QED BY <1>6, <3>2, RememberChain
    <2>2. Keeps(w, v) BY <1>19, <1>20 DEF Keeps
    <2>3. Remembers(v, less, chain) BY <2>1, <2>2, RememberStill
    <2>4. less = SubSeq(less, 1, n - 1) BY <1>6, <1>8, <1>14
    <2>5. Len(flushed') \in 1..Len(chain') /\ flushed' = SubSeq(chain', 1, Len(flushed'))
          BY <1>2, <1>6, <1>8, <2>4
    <2>6. Sequel(walletBest') BY <1>2 DEF WalletInv, SoundChain
    <2> QED BY <1>2, <1>5, <2>3, <2>5, <2>6 DEF WalletFiles
<1> QED BY <1>2, <1>5, <1>21, <1>22, <1>23, RunsAfter

-----------------------------------------------------------------------------
(* The process dies, and starts again.                                      *)

NoPool == [pool |-> {}, next |-> [o \in Outpoints |-> NoTransaction]]
LEMMA NoPoolClear ==
    ASSUME NEW c
    PROVE  Clear(c, NoPool) /\ Backed(c, NoPool) /\ NoPool \in Pools
<1>1. PICK p : p = NoPool OBVIOUS
<1>2. p.pool = {} /\ p.next = [o \in Outpoints |-> NoTransaction] /\ p \in Pools
      BY <1>1 DEF NoPool, Pools
<1>3. \A o \in Outpoints : p.next[o] = NoTransaction BY <1>2
<1>4. Clear(c, p) BY <1>2, <1>3, PoolNobody DEF Clear, GoodPool
<1>5. Backed(c, p) BY <1>2 DEF Backed
<1> QED BY <1>1, <1>2, <1>4, <1>5

LEMMA DiesInv ==
    ASSUME WalletInv, MaxReloads <= 1, NEW w, NEW disk, NEW best, ProcessDies(w, disk, best),
           SoundChain(disk), Sequel(best), NEW v, v = MarkDirty(w, DOMAIN w),
           Upon(v, disk, ScanStart(disk, best) - 1)
    PROVE  WalletInv'
<1>1. /\ reloads < MaxReloads /\ reloads' = reloads + 1 /\ up' = FALSE
      /\ chain' = disk /\ flushed' = disk /\ walletBest' = best
      /\ mapWallet' = MarkDirty(w, DOMAIN w)
      /\ pool' = {} /\ nextTx' = [o \in Outpoints |-> NoTransaction] /\ work' = Idle
      BY DEF ProcessDies
<1>2. reloads \in Nat /\ reloads' \in 0..MaxReloads /\ reloads' # 0
      BY <1>1, WalletNumbers DEF WalletInv, WalletCounts
<1>3. WalletCounts' BY <1>1, <1>2 DEF WalletCounts
<1>4. disk \in Seq(PoolBlocks) /\ Len(disk) \in Nat /\ Len(disk) >= 1
      BY DEF SoundChain, Sequel
<1>5. disk = SubSeq(disk, 1, Len(disk)) BY <1>4
<1>6. WalletFiles' BY <1>1, <1>2, <1>4, <1>5 DEF WalletFiles
<1>7. WalletRuns' BY <1>1 DEF WalletRuns
<1>8. WalletStopped' BY <1>1, <1>2 DEF WalletStopped
<1>9. PoolInv'
    <2>1. SetPool(NoPool) BY <1>1 DEF SetPool, NoPool
    <2>2. ChainOK(chain') /\ Clear(chain', NoPool) /\ Backed(chain', NoPool)
          BY <1>1, SoundIsOK, NoPoolClear
    <2> QED BY <2>1, <2>2, PoolInvAfter
<1>10. SoundChain(chain') BY <1>1
<1> QED BY <1>3, <1>6, <1>7, <1>8, <1>9, <1>10 DEF WalletInv

\* What follows the whole chain follows any part of it.
LEMMA FollowsDisk ==
    ASSUME NEW c, SoundChain(c), NEW w, NEW U, Follows(w, c, U), InChain(c) \subseteq U,
           NEW m \in 1..Len(c), NEW disk, disk = SubSeq(c, 1, m), NEW best, Sequel(best)
    PROVE  SoundChain(disk) /\ Upon(MarkDirty(w, DOMAIN w), disk, ScanStart(disk, best) - 1)
<1>1. c \in Seq(PoolBlocks) /\ Len(c) \in Nat BY DEF SoundChain, Sequel
<1>2. SoundChain(disk) /\ Len(disk) = m BY PrefixSound
<1>3. PICK from : from = ScanStart(disk, best) OBVIOUS
<1>4. from \in 1..Len(disk) + 1 BY <1>2, <1>3, ScanFacts DEF SoundChain
<1>5. from - 1 \in 0..m /\ from - 1 \in 0..Len(c) /\ m \in 0..Len(c) BY <1>1, <1>2, <1>4
<1>6. Upon(w, c, from - 1) BY <1>1, <1>5, FollowsPart
<1>7. Upon(w, disk, from - 1) BY <1>1, <1>5, <1>6, UponPart
<1> QED BY <1>2, <1>3, <1>7, DirtyUpon

LEMMA DiesBetweenCallsInv ==
    ASSUME WalletInv, up, MaxReloads <= 1, DiesBetweenCalls
    PROVE  WalletInv'
<1>1. PICK U, m, w : U = pool \cup InChain(chain) /\ m = Len(flushed) /\ w = mapWallet OBVIOUS
<1>2. SoundChain(chain) /\ Follows(w, chain, U) /\ InChain(chain) \subseteq U
      BY <1>1 DEF WalletInv, WalletRuns
<1>3. m \in 1..Len(chain) /\ flushed = SubSeq(chain, 1, m) /\ Sequel(walletBest)
      BY <1>1 DEF WalletInv, WalletFiles
<1>4. PICK v : v = MarkDirty(w, DOMAIN w) OBVIOUS
<1>5. SoundChain(flushed) /\ Upon(v, flushed, ScanStart(flushed, walletBest) - 1)
      BY <1>2, <1>3, <1>4, FollowsDisk
<1>6. ProcessDies(w, flushed, walletBest) BY <1>1 DEF DiesBetweenCalls
<1> QED BY <1>3, <1>4, <1>5, <1>6, DiesInv

LEMMA DiesDisconnectingInv ==
    ASSUME WalletInv, up, MaxReloads <= 1, DiesDisconnecting
    PROVE  WalletInv'
<1>1. PICK U, m, w, less : /\ U = pool \cup InChain(chain) /\ m = Len(chain) - 1
                           /\ w = mapWallet /\ less = Front(chain)
      OBVIOUS
<1>2. SoundChain(chain) /\ Follows(w, chain, U) /\ InChain(chain) \subseteq U
      BY <1>1 DEF WalletInv, WalletRuns
<1>3. Len(chain) > 1 /\ ProcessDies(w, less, chain) BY <1>1 DEF DiesDisconnecting, CanDisconnect
<1>4. Len(chain) \in Nat /\ less = SubSeq(chain, 1, m) BY <1>1, ChainFacts DEF Front
<1>5. m \in 1..Len(chain) BY <1>1, <1>3, <1>4
<1>6. Sequel(chain) BY <1>2 DEF SoundChain
<1>7. PICK v : v = MarkDirty(w, DOMAIN w) OBVIOUS
<1>8. SoundChain(less) /\ Upon(v, less, ScanStart(less, chain) - 1)
      BY <1>2, <1>4, <1>5, <1>6, <1>7, FollowsDisk
<1> QED BY <1>3, <1>6, <1>7, <1>8, DiesInv

\* The first k transactions of a block that is being connected.
LEMMA FollowSome ==
    ASSUME NEW txs, NEW b, NEW d, NEW U, Follow(txs, b, d, U), NEW k \in 1..Len(txs),
           NEW some, some = SubSeq(txs, 1, k)
    PROVE  Follow(some, b, d, U)
<1>1. txs \in Seq(PoolTxs) /\ Len(txs) \in Nat BY DEF Follow, Comes
<1>2. /\ some \in Seq(PoolTxs) /\ Len(some) = k
      /\ \A i \in 1..k : some[i] = txs[i] /\ i \in 1..Len(txs)
      BY <1>1
<1>3. Comes(some, b) BY <1>2 DEF Follow, Comes
<1>4. ASSUME NEW i \in 1..k
      PROVE  /\ some[i] \notin InChain(d)
             /\ \A o \in Spends[some[i]] : o[1] \in U \/ \E j \in 1..(i - 1) : some[j] = o[1]
    <2>1. \A j \in 1..(i - 1) : j \in 1..k BY <1>1
    <2>2. \A j \in 1..(i - 1) : some[j] = txs[j] BY <1>2, <2>1
    <2> QED BY <1>2, <2>2 DEF Follow
<1> QED BY <1>2, <1>3, <1>4 DEF Follow

LEMMA DiesConnectingInv ==
    ASSUME WalletInv, up, MaxReloads <= 1, NEW b \in PoolBlocks, DiesConnecting(b)
    PROVE  WalletInv'
<1>1. PICK U, m, w, n, more : /\ U = pool \cup InChain(chain) /\ m = Len(flushed)
                              /\ w = mapWallet /\ n = Len(chain) /\ more = Append(chain, b)
      OBVIOUS
<1>2. SoundChain(chain) /\ Follows(w, chain, U) /\ InChain(chain) \subseteq U
      BY <1>1 DEF WalletInv, WalletRuns
<1>3. m \in 1..Len(chain) /\ flushed = SubSeq(chain, 1, m) /\ Sequel(walletBest)
      BY <1>1 DEF WalletInv, WalletFiles
<1>4. chain \in Seq(PoolBlocks) /\ n \in Nat /\ n >= 1 BY <1>1, ChainFacts
<1>5. CanConnect(b) BY DEF DiesConnecting
<1>6. Grown(b, more) BY <1>1, <1>2, <1>5, ConnectSound
<1>7. CASE \E best \in {walletBest, chain} : ProcessDies(w, more, best)
    <2>1. PICK best \in {walletBest, chain} : ProcessDies(w, more, best) BY <1>7
    <2>2. Sequel(best) BY <1>2, <1>3, <2>1 DEF SoundChain
    <2>3. SoundChain(more) /\ Len(more) = n + 1 /\ more[n + 1] = b BY <1>1, <1>6 DEF Grown
    <2>4. PICK from : from = ScanStart(more, best) OBVIOUS
    <2>5. /\ from \in 1..(n + 1) + 1 /\ from # n + 1
          /\ from = (n + 1) + 1 => b \in Range(best)
          BY <2>2, <2>3, <2>4, ScanFacts DEF SoundChain
    <2>6. PICK v : v = MarkDirty(w, DOMAIN w) OBVIOUS
    <2>7. Upon(v, more, from - 1)
        <3>1. CASE from <= n
            <4>1. from - 1 \in 0..Len(chain) BY <1>1, <1>4, <2>5, <3>1
            <4>2. Upon(w, chain, from - 1) BY <1>2, <1>4, <4>1, FollowsPart
            <4>3. PICK k : k = from - 1 OBVIOUS
            <4>4. k \in 0..n BY <1>1, <4>1, <4>3
            <4>5. SubSeq(more, 1, k) = SubSeq(chain, 1, k) BY <1>1, <1>4, <4>4
            <4>6. Upon(w, more, from - 1) BY <4>2, <4>3, <4>5 DEF Upon
            <4> QED BY <2>6, <4>6, DirtyUpon
        <3>2. CASE from = n + 2
            <4>1. reloads = 0
                <5>1. reloads < MaxReloads BY <2>1 DEF ProcessDies
                <5> QED BY <5>1, WalletNumbers DEF WalletInv, WalletCounts
            <4>2. b \in Range(best) BY <1>4, <2>5, <3>2
            <4>3. b \notin Range(chain)
                  BY <1>1, <1>4, <1>6 DEF Grown, Range
            <4>4. best = walletBest BY <2>1, <4>2, <4>3
            <4>5. PICK h \in DOMAIN walletBest : walletBest[h] = b BY <4>2, <4>4 DEF Range
            <4>6. Remembers(w, chain, walletBest) BY <1>1, <4>1 DEF WalletInv, WalletFiles
            <4>7. ASSUME NEW t \in TxsOf(b) \cap Ours
                  PROVE  t \in DOMAIN w /\ w[t].hashBlock = b
                <5>1. t \in DOMAIN w /\ (w[t].hashBlock = b \/ Contains(chain, w[t].hashBlock))
                      BY <4>5, <4>6 DEF Remembers
                <5>2. t \notin InChain(chain) BY <1>6 DEF Grown, Follow, TxsOf
                <5>3. ASSUME Contains(chain, w[t].hashBlock) PROVE FALSE
                    <6>1. PICK k \in 1..n : chain[k] = w[t].hashBlock
                          BY <1>1, <5>3 DEF Contains
                    <6>2. k \in DOMAIN chain /\ chain[k] \in PoolBlocks BY <1>1, <1>4
                    <6>3. w[t].hashBlock # NullHash BY <6>1, <6>2, WalletBlocks
                    <6>4. Contains(Contents[chain[k]], t)
                          BY <1>2, <5>1, <6>1, <6>3 DEF Follows, Known
                    <6> QED BY <4>7, <5>2, <6>2, <6>4 DEF InChain, Ours
                <5> QED BY <5>1, <5>3
            <4>8. Follows(v, more, InChain(more))
                <5>1. InChain(more) = InChain(chain) \cup TxsOf(b) BY <1>6 DEF Grown
                <5>2. more \in Seq(PoolBlocks) /\ DOMAIN more = 1..n + 1
                      BY <1>4, <2>3 DEF SoundChain, Sequel
                <5>3. Known(w) /\ Knows(w, U) /\ Fresh(w, U) /\ Placed(w, chain)
                      BY <1>2 DEF Follows
                <5>4. Knows(w, InChain(more)) BY <1>2, <4>7, <5>1, <5>3 DEF Knows
                <5>5. Placed(w, more)
                    <6>1. SUFFICES ASSUME NEW k \in 1..n + 1, NEW t \in DOMAIN w,
                                          Contains(Contents[more[k]], t)
                                   PROVE  w[t].hashBlock = more[k]
                          BY <5>2 DEF Placed
                    <6>2. CASE k = n + 1
                        <7>1. t \in TxsOf(b) /\ t \in Ours
                              BY <2>3, <5>3, <6>1, <6>2 DEF Contains, TxsOf, Known
                        <7> QED BY <2>3, <4>7, <6>2, <7>1
                    <6>3. CASE k # n + 1
                        <7>1. k \in DOMAIN chain /\ more[k] = chain[k]
                              BY <1>1, <1>4, <6>3
                        <7> QED BY <5>3, <6>1, <7>1 DEF Placed
                    <6> QED BY <6>2, <6>3
                <5> QED BY <2>6, <5>3, <5>4, <5>5, DirtyFollows
            <4>9. more \in Seq(PoolBlocks) BY <2>3 DEF SoundChain, Sequel
            <4>10. from - 1 = Len(more) BY <1>4, <2>3, <3>2
            <4> QED BY <4>8, <4>9, <4>10, UponAll
        <3> QED BY <1>4, <2>5, <3>1, <3>2
    <2> QED BY <2>1, <2>2, <2>3, <2>4, <2>6, <2>7, DiesInv
<1>8. CASE \E k \in 1..Len(Contents[b]) :
               ProcessDies(SyncAll(w, SubSeq(Contents[b], 1, k), b), flushed, walletBest)
    <2>1. PICK k \in 1..Len(Contents[b]) :
              ProcessDies(SyncAll(w, SubSeq(Contents[b], 1, k), b), flushed, walletBest)
          BY <1>8
    <2>2. PICK some, x : some = SubSeq(Contents[b], 1, k) /\ x = SyncAll(w, some, b) OBVIOUS
    <2>3. Follow(Contents[b], b, chain, U) BY <1>2, <1>6, FollowMore DEF Grown
    <2>4. Follow(some, b, chain, U) BY <2>2, <2>3, FollowSome
    <2>5. Tells(w, some, b, chain, U, x) BY <1>2, <2>2, <2>4, SyncAllBlock
    <2>6. PICK V : V = U \cup Among(some) OBVIOUS
    <2>7. Follows(x, chain, V) /\ InChain(chain) \subseteq V BY <1>2, <2>5, <2>6 DEF Tells
    <2>8. PICK v : v = MarkDirty(x, DOMAIN x) OBVIOUS
    <2>9. SoundChain(flushed) /\ Upon(v, flushed, ScanStart(flushed, walletBest) - 1)
          BY <1>2, <1>3, <2>7, <2>8, FollowsDisk
    <2>10. ProcessDies(x, flushed, walletBest) BY <2>1, <2>2
    <2> QED BY <1>3, <2>8, <2>9, <2>10, DiesInv
<1> QED BY <1>1, <1>7, <1>8 DEF DiesConnecting

LEMMA RestartInv ==
    ASSUME WalletInv, NEW policy, Restart(policy)
    PROVE  WalletInv'
<1>1. PICK from, w, known, s : /\ from = ScanStart(chain, walletBest) /\ w = mapWallet
                               /\ known = Rescans(w, chain, from)[Len(chain)]
                               /\ s = [pool |-> ThePool, wallet |-> known]
      OBVIOUS
<1>2. PICK r : r = Reaccepts(s, chain, policy)[Len(TxOrder)] OBVIOUS
<1>3. /\ ~up /\ up' = TRUE /\ SetPool(r.pool) /\ mapWallet' = r.wallet
      /\ walletBest' = IF Tip \in Range(walletBest) THEN walletBest ELSE chain
      /\ UNCHANGED <<chain, work, flushed, reloads>>
      BY <1>1, <1>2 DEF Restart, Rescanned, Reaccepted
<1>4. /\ SoundChain(chain) /\ ChainOK(chain) /\ Clear(chain, ThePool) /\ Backed(chain, ThePool)
      /\ ThePool.pool = pool /\ chain \in Seq(PoolBlocks)
      BY ChainFacts DEF WalletInv
<1>5. /\ pool = {} /\ Upon(w, chain, from - 1) /\ (reloads = 0 => walletBest = chain)
      BY <1>1, <1>3 DEF WalletInv, WalletStopped
<1>6. Sequel(walletBest) BY DEF WalletInv, WalletFiles
<1>7. from \in 1..Len(chain) + 1 BY <1>1, <1>4, <1>6, ScanFacts DEF SoundChain
<1>8. Follows(known, chain, InChain(chain)) BY <1>1, <1>4, <1>5, <1>7, RescanFollows
<1>9. s \in Offers(chain)
    <2>1. pool \cup InChain(chain) = InChain(chain) BY <1>5
    <2>2. s.pool = ThePool /\ s.wallet = known BY <1>1
    <2>3. Offered(s, chain) BY <1>4, <1>8, <2>1, <2>2 DEF Offered
    <2>4. ThePool \in Pools /\ known \in Wallets BY <1>4, <1>8, ClearPools DEF Follows, Known
    <2>5. s \in [pool : Pools, wallet : Wallets] BY <1>1, <2>4
    <2> QED BY <2>3, <2>5 DEF Offers
<1>10. r \in Offers(chain) BY <1>2, <1>4, <1>9, ReacceptsFollow
<1>11. PICK U : U = r.pool.pool \cup InChain(chain) OBVIOUS
<1>12. Clear(chain, r.pool) /\ Backed(chain, r.pool) /\ Follows(r.wallet, chain, U)
       BY <1>10, <1>11 DEF Offers, Offered
<1>13. PoolInv'
    <2>1. ChainOK(chain') /\ Clear(chain', r.pool) /\ Backed(chain', r.pool)
          BY <1>3, <1>4, <1>12
    <2> QED BY <1>3, <2>1, PoolInvAfter
<1>14. WalletRuns' BY <1>3, <1>11, <1>12 DEF WalletRuns, SetPool
<1>15. WalletStopped' BY <1>3 DEF WalletStopped
<1>16. WalletCounts' BY <1>3 DEF WalletInv, WalletCounts
<1>17. WalletFiles'
    <2>1. Sequel(walletBest') BY <1>3, <1>4, <1>6 DEF SoundChain
    <2>2. InChain(chain) \subseteq U BY <1>11
    <2>3. Remembers(r.wallet, chain, chain) BY <1>4, <1>12, <2>2, RememberChain
    <2>4. reloads = 0 => walletBest' = chain BY <1>3, <1>5
    <2> QED BY <1>3, <2>1, <2>3, <2>4 DEF WalletInv, WalletFiles
<1>18. SoundChain(chain') BY <1>3, <1>4
<1> QED BY <1>13, <1>14, <1>15, <1>16, <1>17, <1>18 DEF WalletInv

LEMMA NoWallet == Follows(<<>>, <<>>, {})
<1>1. PICK w : w = [t \in {} |-> {}] OBVIOUS
<1>2. DOMAIN w = {} /\ w = <<>> BY <1>1
<1>3. w \in [{} -> WalletEntries] BY <1>1
<1>4. w \in Wallets BY <1>3 DEF Wallets
<1>5. Known(w) BY <1>2, <1>4 DEF Known
<1>6. Knows(w, {}) /\ Fresh(w, {}) /\ Placed(w, <<>>) BY <1>2 DEF Knows, Fresh, Placed
<1> QED BY <1>2, <1>5, <1>6 DEF Follows

LEMMA InitWalletInv ==
    ASSUME MempoolInit, WalletInit
    PROVE  WalletInv
<1>1. PICK c : c = <<FirstBlock>> OBVIOUS
<1>2. /\ chain = c /\ walletBest = c /\ flushed = c /\ up = FALSE /\ reloads = 0
      /\ pool = {} /\ work = Idle
      /\ mapWallet = SyncAll(<<>>, Contents[FirstBlock], FirstBlock)
      BY <1>1 DEF MempoolInit, WalletInit
<1>3. SoundChain(c) /\ PoolInv BY <1>1, FirstSound, InitPoolInv
<1>4. c \in Seq(PoolBlocks) /\ Len(c) = 1 /\ c[1] = FirstBlock BY <1>1, PoolChain
<1>5. WalletCounts
    <2>1. 0 \in 0..MaxReloads BY WalletNumbers
    <2> QED BY <1>2, <2>1 DEF WalletCounts
<1>6. Follows(mapWallet, c, InChain(c))
    <2>1. PICK h, b, d, e, w, U, v : /\ h = 1 /\ b = FirstBlock /\ d = <<>> /\ e = c
                                     /\ w = <<>> /\ U = {} /\ v = mapWallet
          OBVIOUS
    <2>2. h \in 1..Len(c) /\ b = c[h] /\ d = SubSeq(c, 1, h - 1) /\ e = SubSeq(c, 1, h)
          BY <1>1, <1>4, <2>1
    <2>3. InChain(d) = {} BY <2>1 DEF InChain
    <2>4. Follows(w, d, U) /\ InChain(d) \subseteq U BY <2>1, <2>3, NoWallet
    <2>5. v = SyncAll(w, Contents[b], b) BY <1>2, <2>1
    <2>6. Told(w, b, d, e, U, v) BY <1>3, <2>2, <2>4, <2>5, FollowsBlock
    <2> QED BY <2>1, <2>3, <2>6 DEF Told
<1>7. Remembers(mapWallet, c, c) BY <1>4, <1>6, RememberChain
<1>8. Sequel(c) BY <1>3 DEF SoundChain
<1>9. c = SubSeq(c, 1, 1) BY <1>4
<1>10. WalletFiles BY <1>2, <1>4, <1>7, <1>8, <1>9 DEF WalletFiles
<1>11. WalletRuns BY <1>2 DEF WalletRuns
<1>12. WalletStopped
    <2>1. PICK from : from = ScanStart(c, c) OBVIOUS
    <2>2. from \in 1..Len(c) + 1 BY <1>8, <2>1, ScanFacts
    <2>3. from - 1 \in 0..Len(c) BY <1>4, <2>2
    <2>4. Upon(mapWallet, c, from - 1) BY <1>4, <1>6, <2>3, FollowsPart
    <2> QED BY <1>2, <2>1, <2>4 DEF WalletStopped
<1>13. SoundChain(chain) BY <1>2, <1>3
<1> QED BY <1>3, <1>5, <1>10, <1>11, <1>12, <1>13 DEF WalletInv

LEMMA StutterWalletInv ==
    ASSUME WalletInv, UNCHANGED <<poolVars, walletVars>>
    PROVE  WalletInv'
<1>1. /\ chain' = chain /\ pool' = pool /\ nextTx' = nextTx /\ work' = work
      /\ mapWallet' = mapWallet /\ walletBest' = walletBest /\ flushed' = flushed
      /\ up' = up /\ reloads' = reloads
      BY DEF poolVars, walletVars
<1>2. PoolInv' BY <1>1, StutterPoolInv DEF WalletInv
<1>3. SoundChain(chain') /\ WalletCounts' BY <1>1 DEF WalletInv, WalletCounts
<1>4. WalletFiles' BY <1>1 DEF WalletInv, WalletFiles
<1>5. WalletRuns' /\ WalletStopped' BY <1>1 DEF WalletInv, WalletRuns, WalletStopped
<1> QED BY <1>2, <1>3, <1>4, <1>5 DEF WalletInv

LEMMA NextWalletInv ==
    ASSUME WalletInv, MaxReloads <= 1, WalletNext
    PROVE  WalletInv'
<1>1. CASE up /\ \E t \in PoolTxs : WalletAccepts(t) \/ Pay(t) \/ WalletLock(t)
      BY <1>1, WalletAcceptsInv, PayInv, WalletLockInv
<1>2. CASE up /\ \E b \in PoolBlocks : WalletConnectTip(b) \/ DiesConnecting(b)
      BY <1>2, WalletConnectTipInv, DiesConnectingInv
<1>3. CASE up /\ \E policy \in Policies : WalletDisconnectTip(policy)
      BY <1>3, WalletDisconnectTipInv
<1>4. CASE up /\ (ReadBalance \/ WalletFlush \/ DiesBetweenCalls \/ DiesDisconnecting)
      BY <1>4, ReadBalanceInv, WalletFlushInv, DiesBetweenCallsInv, DiesDisconnectingInv
<1>5. CASE \E policy \in Policies : Restart(policy) BY <1>5, RestartInv
<1> QED BY <1>1, <1>2, <1>3, <1>4, <1>5 DEF WalletNext

-----------------------------------------------------------------------------
(* What holds however often the process dies.  The wallet may have lost     *)
(* sight of the chain then, but its entries are sound, the files are those  *)
(* of a chain, and what it does never breaks the pool.                      *)

FilesOK ==
    /\ Len(flushed) \in 1..Len(chain) /\ flushed = SubSeq(chain, 1, Len(flushed))
    /\ Sequel(walletBest)
WalletKept == SoundChain(chain) /\ PoolInv /\ WalletCounts /\ FilesOK /\ Known(mapWallet)

\* An entry that is sound follows at least nothing.
LEMMA KnownAlone ==
    ASSUME NEW w, NEW d, d = <<>>, NEW U, U = {}
    PROVE  Known(w) <=> Follows(w, d, U)
<1>1. DOMAIN d = {} OBVIOUS
<1> QED BY <1>1 DEF Follows, Knows, Fresh, Placed

LEMMA BalanceKnown ==
    ASSUME NEW w, Known(w), NEW blocks \in Seq(PoolBlocks), NEW txs,
           NEW v, v = GetBalance(w, blocks, txs)
    PROVE  Known(v)
<1>1. PICK d, U : d = <<>> /\ U = {} OBVIOUS
<1>2. Follows(w, d, U) BY <1>1, KnownAlone
<1>3. \A h \in DOMAIN d : Contains(blocks, d[h]) BY <1>1
<1>4. U \subseteq txs \cup InChain(d) /\ U \subseteq PoolTxs BY <1>1
<1>5. Follows(v, d, U) BY <1>2, <1>3, <1>4, BalanceFollows
<1> QED BY <1>5 DEF Follows

LEMMA CommitKnown ==
    ASSUME NEW w, Known(w), NEW t, PaymentOf(w, t),
           NEW v, v = MarkDirty(AddToWallet(w, t, NullHash), Parents(t))
    PROVE  Known(v)
<1>1. t \in PoolTxs /\ Involves(w, t) BY DEF PaymentOf
<1>2. Synced(w, t, NullHash, v) BY <1>1, CommitSynced
<1> QED BY <1>2 DEF Synced

\* The pool after CommitTransaction, which it may have refused.
LEMMA CommitPool ==
    ASSUME NEW c, ChainOK(c), NEW p, Clear(c, p), Backed(c, p), NEW w, Known(w),
           NEW t, PaymentOf(w, t), NEW r, r = CommitTransaction(t, w, c, p)
    PROVE  Clear(c, r.pool) /\ Backed(c, r.pool) /\ Known(r.wallet)
<1>1. PICK x, q : /\ x = MarkDirty(AddToWallet(w, t, NullHash), Parents(t))
                  /\ q = IF Verdict(c, p, t, {}) = "accepted" THEN AddUnchecked(p, t) ELSE p
      OBVIOUS
<1>2. r.wallet = x /\ r.pool = q BY <1>1 DEF CommitTransaction
<1>3. t \in PoolTxs BY DEF PaymentOf
<1>4. Clear(c, q) /\ Backed(c, q)
    <2>1. CASE Verdict(c, p, t, {}) = "accepted" BY <1>1, <1>3, <2>1, AcceptBacked
    <2>2. CASE Verdict(c, p, t, {}) # "accepted" BY <1>1, <2>2
    <2> QED BY <2>1, <2>2
<1>5. Known(x) BY <1>1, CommitKnown
<1> QED BY <1>2, <1>4, <1>5

LEMMA AfterUpdateTipKnown ==
    ASSUME NEW blocks, ChainOK(blocks), NEW p, Clear(blocks, p), Backed(blocks, p),
           NEW w, Known(w), NEW r \in AfterUpdateTip(w, blocks, p)
    PROVE  Clear(blocks, r.pool) /\ Backed(blocks, r.pool) /\ Known(r.wallet)
<1>1. PICK v : v = GetBalance(w, blocks, p.pool) OBVIOUS
<1>2. Known(v)
    <2>1. blocks \in Seq(PoolBlocks) BY DEF ChainOK
    <2> QED BY <1>1, <2>1, BalanceKnown
<1>3. \/ r = [wallet |-> w, pool |-> p]
      \/ r = [wallet |-> v, pool |-> p]
      \/ \E t \in Payable(v, blocks, p.pool) : r = CommitTransaction(t, v, blocks, p)
      BY <1>1 DEF AfterUpdateTip
<1>4. CASE r = [wallet |-> w, pool |-> p] \/ r = [wallet |-> v, pool |-> p]
    <2>1. r.wallet \in {w, v} /\ r.pool = p BY <1>4
    <2> QED BY <1>2, <2>1
<1>5. CASE \E t \in Payable(v, blocks, p.pool) : r = CommitTransaction(t, v, blocks, p)
    <2>1. PICK t \in Payable(v, blocks, p.pool) : r = CommitTransaction(t, v, blocks, p)
          BY <1>5
    <2>2. PaymentOf(v, t) BY PayableFacts
    <2> QED BY <1>2, <2>1, <2>2, CommitPool
<1> QED BY <1>3, <1>4, <1>5

LEMMA ContentsCome ==
    ASSUME NEW b \in PoolBlocks
    PROVE  /\ Contents[b] \in Seq(PoolTxs)
           /\ Comes(Contents[b], b) /\ Comes(Contents[b], NullHash)
           /\ \A k \in 1..Len(Contents[b]) : Comes(SubSeq(Contents[b], 1, k), b)
<1>1. PICK txs : txs = Contents[b] OBVIOUS
<1>2. txs \in Seq(PoolTxs) BY <1>1, PoolChain
<1>3. \A i \in 1..Len(txs) : Contains(txs, txs[i]) BY DEF Contains
<1>4. Comes(txs, b) /\ Comes(txs, NullHash) BY <1>1, <1>2, <1>3 DEF Comes
<1>5. ASSUME NEW k \in 1..Len(txs) PROVE Comes(SubSeq(txs, 1, k), b)
    <2>1. PICK some : some = SubSeq(txs, 1, k) OBVIOUS
    <2>2. /\ some \in Seq(PoolTxs) /\ Len(some) = k
          /\ \A i \in 1..k : some[i] = txs[i] /\ i \in 1..Len(txs)
          BY <1>2, <2>1
    <2>3. Comes(some, b) BY <1>1, <1>3, <2>2 DEF Comes
    <2> QED BY <2>1, <2>3
<1> QED BY <1>1, <1>2, <1>4, <1>5

\* A scan leaves sound entries.
LEMMA RescanKnown ==
    ASSUME NEW c \in Seq(PoolBlocks), NEW from \in 1..Len(c) + 1, NEW w, Known(w)
    PROVE  Known(Rescans(w, c, from)[Len(c)])
<1>1. PICK n \in Nat : n = Len(c) OBVIOUS
<1>2. PICK g : g = Rescans(w, c, from) OBVIOUS
<1>3. Scans(w, c, from, g) BY <1>2, RescansFacts
<1>4. PICK T : T = {h \in 0..n : Known(g[h])} OBVIOUS
<1>5. 0 \in T BY <1>1, <1>3, <1>4 DEF Scans
<1>6. ASSUME NEW h \in 1..n, h - 1 \in T PROVE h \in T
    <2>1. g[h] = IF h < from THEN w ELSE SyncAll(g[h - 1], Contents[c[h]], c[h])
          BY <1>1, <1>3 DEF Scans
    <2>2. PICK x, b : x = g[h - 1] /\ b = c[h] OBVIOUS
    <2>3. Known(x) /\ b \in PoolBlocks BY <1>1, <1>4, <1>6, <2>2
    <2>4. Known(SyncAll(x, Contents[b], b)) BY <2>3, ContentsCome, SyncAllKnown
    <2>5. Known(g[h]) BY <2>1, <2>2, <2>4
    <2> QED BY <1>4, <2>5
<1>7. \A h \in 0..n : h \in T BY <1>5, <1>6, StepByStep
<1>8. n \in T BY <1>1, <1>7
<1> QED BY <1>1, <1>2, <1>4, <1>8

KnownOffers(c) ==
    {s \in [pool : Pools, wallet : Wallets] :
        Clear(c, s.pool) /\ Backed(c, s.pool) /\ Known(s.wallet)}

LEMMA ReacceptKnown ==
    ASSUME NEW c, ChainOK(c), NEW s \in KnownOffers(c), NEW t \in PoolTxs, NEW policy
    PROVE  Reaccept(s, c, t, policy) \in KnownOffers(c)
<1>1. PICK p, w : p = s.pool /\ w = s.wallet OBVIOUS
<1>2. Clear(c, p) /\ Backed(c, p) /\ Known(w) BY <1>1 DEF KnownOffers
<1>3. PICK r : r = Reaccept(s, c, t, policy) OBVIOUS
<1>4. CASE /\ t \in DOMAIN w \ Minted /\ Depth(w, c, p.pool, t) < 0
           /\ Verdict(c, p, t, policy) = "accepted"
    <2>1. PICK q, v : q = AddUnchecked(p, t) /\ v = SyncTransaction(w, t, NullHash) OBVIOUS
    <2>2. r = [pool |-> q, wallet |-> v] BY <1>1, <1>3, <1>4, <2>1 DEF Reaccept
    <2>3. Clear(c, q) /\ Backed(c, q) BY <1>2, <1>4, <2>1, AcceptBacked
    <2>4. Synced(w, t, NullHash, v) BY <1>2, <2>1, SyncSynced
    <2>5. Known(v) BY <2>4 DEF Synced
    <2>6. q \in Pools /\ v \in Wallets BY <2>3, <2>5, ClearPools DEF Known
    <2>7. r \in [pool : Pools, wallet : Wallets] /\ r.pool = q /\ r.wallet = v BY <2>2, <2>6
    <2> QED BY <1>3, <2>3, <2>5, <2>7 DEF KnownOffers
<1>5. CASE ~(/\ t \in DOMAIN w \ Minted /\ Depth(w, c, p.pool, t) < 0
             /\ Verdict(c, p, t, policy) = "accepted")
    <2>1. r = s BY <1>1, <1>3, <1>5 DEF Reaccept
    <2> QED BY <1>3, <2>1
<1> QED BY <1>4, <1>5

\* A call that leaves chain, pool, files and entries sound.
LEMMA KeptAfter ==
    ASSUME WalletKept, UNCHANGED <<up, reloads, work>>, SoundChain(chain'), NEW q, SetPool(q),
           Clear(chain', q), Backed(chain', q), FilesOK', Known(mapWallet')
    PROVE  WalletKept'
<1>1. PoolInv' BY SoundIsOK, PoolInvAfter
<1>2. WalletCounts' BY DEF WalletKept, WalletCounts
<1> QED BY <1>1, <1>2 DEF WalletKept

\* ... of which the chain and the files are as they were.
LEMMA KeptStill ==
    ASSUME WalletKept, UNCHANGED <<chain, walletBest, flushed, up, reloads, work>>, NEW q,
           SetPool(q), Clear(chain, q), Backed(chain, q), Known(mapWallet')
    PROVE  WalletKept'
<1>1. SoundChain(chain') /\ FilesOK' BY DEF WalletKept, FilesOK
<1>2. Clear(chain', q) /\ Backed(chain', q) OBVIOUS
<1> QED BY <1>1, <1>2, KeptAfter

LEMMA KeptPool ==
    ASSUME WalletKept
    PROVE  /\ chain \in Seq(PoolBlocks) /\ Len(chain) \in Nat /\ Len(chain) >= 1
           /\ DOMAIN chain = 1..Len(chain) /\ Sequel(chain)
           /\ ChainOK(chain) /\ Clear(chain, ThePool) /\ Backed(chain, ThePool)
           /\ ThePool.pool = pool /\ pool \in SUBSET PoolTxs /\ Known(mapWallet)
BY SoundFacts DEF WalletKept

LEMMA CallsKept ==
    ASSUME WalletKept, NEW t \in PoolTxs, WalletAccepts(t) \/ Pay(t) \/ WalletLock(t)
    PROVE  WalletKept'
<1>1. PICK p, w : p = ThePool /\ w = mapWallet OBVIOUS
<1>2. Clear(chain, p) /\ Backed(chain, p) /\ ChainOK(chain) /\ Known(w) /\ p.pool = pool
      BY <1>1, KeptPool
<1>3. ASSUME WalletAccepts(t) PROVE WalletKept'
    <2>1. PICK q, v : q = AddUnchecked(p, t) /\ v = SyncTransaction(w, t, NullHash) OBVIOUS
    <2>2. /\ Verdict(chain, p, t, {}) = "accepted" /\ SetPool(q) /\ mapWallet' = v
          /\ UNCHANGED <<chain, work, walletBest, flushed, up, reloads>>
          BY <1>1, <1>3, <2>1 DEF WalletAccepts
    <2>3. Clear(chain, q) /\ Backed(chain, q) BY <1>2, <2>1, <2>2, AcceptBacked
    <2>4. Synced(w, t, NullHash, v) BY <1>2, <2>1, SyncSynced
    <2>5. Known(mapWallet') BY <2>2, <2>4 DEF Synced
    <2> QED BY <2>2, <2>3, <2>5, KeptStill
<1>4. ASSUME Pay(t) PROVE WalletKept'
    <2>1. PICK r : r = CommitTransaction(t, w, chain, p) OBVIOUS
    <2>2. /\ t \in Payable(w, chain, pool) /\ mapWallet' = r.wallet /\ SetPool(r.pool)
          /\ UNCHANGED <<chain, work, walletBest, flushed, up, reloads>>
          BY <1>1, <1>4, <2>1 DEF Pay, SetBoth
    <2>3. PaymentOf(w, t) BY <2>2, PayableFacts
    <2>4. Clear(chain, r.pool) /\ Backed(chain, r.pool) /\ Known(r.wallet)
          BY <1>2, <2>1, <2>3, CommitPool
    <2>5. Known(mapWallet') BY <2>2, <2>4
    <2> QED BY <2>2, <2>4, <2>5, KeptStill
<1>5. ASSUME WalletLock(t) PROVE WalletKept'
    <2>1. PICK q : q = RemoveConflicts(p, t) OBVIOUS
    <2>2. /\ SetPool(q)
          /\ UNCHANGED <<chain, work, mapWallet, walletBest, flushed, up, reloads>>
          BY <1>1, <1>5, <2>1 DEF WalletLock, LockTransaction, walletVars
    <2>3. Shrinks(p, q) BY <1>2, <2>1, RemoveConflictsFacts DEF Clear
    <2>4. Clear(chain, q) /\ Backed(chain, q) BY <1>2, <2>3, ShrinksClear, ShrinksBacked
    <2>5. Known(mapWallet') BY <1>1, <1>2, <2>2
    <2> QED BY <2>2, <2>4, <2>5, KeptStill
<1> QED BY <1>3, <1>4, <1>5

LEMMA BalanceAndFlushKept ==
    ASSUME WalletKept, ReadBalance \/ WalletFlush
    PROVE  WalletKept'
<1>1. /\ UNCHANGED <<chain, pool, nextTx, work, up, reloads>>
      /\ \/ mapWallet' = GetBalance(mapWallet, chain, pool) /\ UNCHANGED <<walletBest, flushed>>
         \/ flushed' = chain /\ walletBest' = chain /\ mapWallet' = mapWallet
      BY DEF ReadBalance, WalletFlush, poolVars
<1>2. SetPool(ThePool) BY <1>1 DEF SetPool, ThePool
<1>3. Clear(chain', ThePool) /\ Backed(chain', ThePool) /\ SoundChain(chain')
      BY <1>1, KeptPool DEF WalletKept
<1>4. Known(mapWallet')
    <2>1. Known(GetBalance(mapWallet, chain, pool)) BY KeptPool, BalanceKnown
    <2> QED BY <1>1, <2>1, KeptPool
<1>5. FilesOK'
    <2>1. CASE UNCHANGED <<walletBest, flushed>> BY <1>1, <2>1 DEF WalletKept, FilesOK
    <2>2. CASE flushed' = chain /\ walletBest' = chain
        <3>1. chain = SubSeq(chain, 1, Len(chain)) /\ Len(chain) \in 1..Len(chain) BY KeptPool
        <3> QED BY <1>1, <2>2, <3>1, KeptPool DEF FilesOK
    <2> QED BY <1>1, <2>1, <2>2
<1>6. UNCHANGED <<up, reloads, work>> BY <1>1
<1> QED BY <1>2, <1>3, <1>4, <1>5, <1>6, KeptAfter

LEMMA ConnectKept ==
    ASSUME WalletKept, NEW b \in PoolBlocks, WalletConnectTip(b)
    PROVE  WalletKept'
<1>1. PICK more, q, n : /\ more = Append(chain, b) /\ n = Len(chain)
                        /\ q = RemoveForBlock(ThePool, Contents[b])
      OBVIOUS
<1>2. /\ CanConnect(b) /\ chain' = more
      /\ \/ UNCHANGED <<flushed, walletBest>>
         \/ flushed' = more /\ walletBest' \in {walletBest, chain}
      /\ UNCHANGED <<up, reloads>>
      BY <1>1 DEF WalletConnectTip
<1>3. PICK r \in AfterUpdateTip(mapWallet, more, q) :
          SetBoth(SyncAll(SyncAll(r.wallet, Lost(b), NullHash), Contents[b], b), r.pool)
      BY <1>1 DEF WalletConnectTip
<1>4. PICK x, v : x = SyncAll(r.wallet, Lost(b), NullHash) /\ v = SyncAll(x, Contents[b], b)
      OBVIOUS
<1>5. mapWallet' = v /\ SetPool(r.pool) /\ UNCHANGED work BY <1>3, <1>4 DEF SetBoth
<1>6. /\ chain \in Seq(PoolBlocks) /\ n \in Nat /\ n >= 1
      /\ ChainOK(chain) /\ Clear(chain, ThePool) /\ Backed(chain, ThePool)
      /\ pool \in SUBSET PoolTxs /\ Known(mapWallet) /\ Sequel(chain)
      BY <1>1, KeptPool
<1>7. SoundChain(more) /\ Len(more) = n + 1
    <2>1. Grown(b, more) BY <1>1, <1>2, ConnectSound DEF WalletKept
    <2> QED BY <1>1, <2>1 DEF Grown
<1>8. ChainOK(more) /\ Clear(more, q) /\ Backed(more, q)
      BY <1>1, <1>2, <1>6, ConnectTipPool DEF CanConnect
<1>9. Clear(more, r.pool) /\ Backed(more, r.pool) /\ Known(r.wallet)
      BY <1>3, <1>6, <1>8, AfterUpdateTipKnown
<1>10. Known(v)
    <2>1. Comes(Lost(b), NullHash) BY <1>6, LostFacts DEF Comes
    <2>2. Known(x) BY <1>4, <1>9, <2>1, SyncAllKnown
    <2> QED BY <1>4, <2>2, ContentsCome, SyncAllKnown
<1>11. more \in Seq(PoolBlocks) BY <1>7 DEF SoundChain, Sequel
<1>12. Len(flushed') \in 1..Len(chain') /\ flushed' = SubSeq(chain', 1, Len(flushed'))
    <2>1. CASE flushed' = more
        <3>1. more = SubSeq(more, 1, n + 1) BY <1>7, <1>11
        <3> QED BY <1>2, <1>6, <1>7, <2>1, <3>1
    <2>2. CASE flushed' = flushed
        <3>1. PICK m : m = Len(flushed) OBVIOUS
        <3>2. m \in 1..n /\ flushed = SubSeq(chain, 1, m) BY <1>1, <3>1 DEF WalletKept, FilesOK
        <3>3. SubSeq(more, 1, m) = SubSeq(chain, 1, m) BY <1>1, <1>6, <3>2
        <3> QED BY <1>2, <1>6, <1>7, <2>2, <3>1, <3>2, <3>3
    <2> QED BY <1>2, <2>1, <2>2
<1>13. Sequel(walletBest') BY <1>2, <1>6 DEF WalletKept, FilesOK
<1>14. FilesOK' BY <1>12, <1>13 DEF FilesOK
<1> QED BY <1>2, <1>5, <1>7, <1>9, <1>10, <1>14, KeptAfter

\* The chain without its tip.
LEMMA WithoutTipSound ==
    ASSUME SoundChain(chain), Len(chain) > 1, NEW less, less = Front(chain)
    PROVE  /\ SoundChain(less) /\ Len(less) \in 1..Len(less) /\ less = SubSeq(less, 1, Len(less))
           /\ Tip \in PoolBlocks
<1>1. PICK n \in Nat : n = Len(chain) BY DEF SoundChain, Sequel
<1>2. PICK m : m = n - 1 OBVIOUS
<1>3. m \in 1..Len(chain) /\ less = SubSeq(chain, 1, m) BY <1>1, <1>2 DEF Front
<1>4. SoundChain(less) /\ Len(less) = m BY <1>3, PrefixSound
<1>5. less \in Seq(PoolBlocks) BY <1>4 DEF SoundChain, Sequel
<1>6. Tip \in PoolBlocks BY <1>1 DEF Tip, SoundChain, Sequel
<1> QED BY <1>1, <1>2, <1>3, <1>4, <1>5, <1>6

LEMMA DisconnectKept ==
    ASSUME WalletKept, NEW policy \in Policies, WalletDisconnectTip(policy)
    PROVE  WalletKept'
<1>1. PICK less, q, txs : /\ less = Front(chain) /\ q = PoolWithoutTip(policy)
                          /\ txs = Contents[Tip]
      OBVIOUS
<1>2. /\ Len(chain) > 1 /\ chain' = less /\ flushed' = less /\ walletBest' = chain
      /\ UNCHANGED <<up, reloads>>
      BY <1>1 DEF WalletDisconnectTip, CanDisconnect
<1>3. PICK r \in AfterUpdateTip(mapWallet, less, q) :
          SetBoth(SyncAll(r.wallet, txs, NullHash), r.pool)
      BY <1>1 DEF WalletDisconnectTip
<1>4. /\ mapWallet' = SyncAll(r.wallet, txs, NullHash) /\ SetPool(r.pool) /\ UNCHANGED work
      BY <1>3 DEF SetBoth
<1>5. ChainOK(chain) /\ Clear(chain, ThePool) /\ Known(mapWallet) /\ Sequel(chain)
      BY KeptPool
<1>6. /\ SoundChain(less) /\ Len(less) \in 1..Len(less) /\ less = SubSeq(less, 1, Len(less))
      /\ Tip \in PoolBlocks
      BY <1>1, <1>2, WithoutTipSound DEF WalletKept
<1>7. txs \in Seq(PoolTxs) /\ Comes(txs, NullHash) BY <1>1, <1>6, ContentsCome
<1>8. ChainOK(less) /\ Clear(less, q) /\ Backed(less, q)
    <2>1. q = RemoveCoinbaseSpends(Front(chain),
                  Resurrections(Front(chain), ThePool, txs, policy)[Len(txs)])
          BY <1>1 DEF PoolWithoutTip
    <2> QED BY <1>1, <1>2, <1>5, <1>7, <2>1, DisconnectTipPool
<1>9. Clear(less, r.pool) /\ Backed(less, r.pool) /\ Known(r.wallet)
      BY <1>3, <1>5, <1>8, AfterUpdateTipKnown
<1>10. Known(mapWallet') BY <1>4, <1>7, <1>9, SyncAllKnown
<1>11. FilesOK' BY <1>2, <1>5, <1>6 DEF FilesOK
<1> QED BY <1>2, <1>4, <1>6, <1>9, <1>10, <1>11, KeptAfter

LEMMA DiesKept ==
    ASSUME WalletKept, NEW w, Known(w), NEW disk, SoundChain(disk), NEW best, Sequel(best),
           ProcessDies(w, disk, best)
    PROVE  WalletKept'
<1>1. /\ reloads < MaxReloads /\ reloads' = reloads + 1 /\ up' = FALSE
      /\ chain' = disk /\ flushed' = disk /\ walletBest' = best
      /\ mapWallet' = MarkDirty(w, DOMAIN w)
      /\ pool' = {} /\ nextTx' = [o \in Outpoints |-> NoTransaction] /\ work' = Idle
      BY DEF ProcessDies
<1>2. WalletCounts'
    <2>1. reloads \in Nat /\ reloads' \in 0..MaxReloads
          BY <1>1, WalletNumbers DEF WalletKept, WalletCounts
    <2> QED BY <1>1, <2>1 DEF WalletCounts
<1>3. disk \in Seq(PoolBlocks) /\ Len(disk) \in Nat /\ Len(disk) >= 1
      BY DEF SoundChain, Sequel
<1>4. disk = SubSeq(disk, 1, Len(disk)) BY <1>3
<1>5. FilesOK' BY <1>1, <1>3, <1>4 DEF FilesOK
<1>6. PoolInv'
    <2>1. SetPool(NoPool) BY <1>1 DEF SetPool, NoPool
    <2>2. ChainOK(chain') /\ Clear(chain', NoPool) /\ Backed(chain', NoPool)
          BY <1>1, SoundIsOK, NoPoolClear
    <2> QED BY <2>1, <2>2, PoolInvAfter
<1>7. Known(mapWallet') BY <1>1, DirtyFacts
<1>8. SoundChain(chain') BY <1>1
<1> QED BY <1>2, <1>5, <1>6, <1>7, <1>8 DEF WalletKept

LEMMA AllDeathsKept ==
    ASSUME WalletKept,
           \/ DiesBetweenCalls \/ DiesDisconnecting
           \/ \E b \in PoolBlocks : DiesConnecting(b)
    PROVE  WalletKept'
<1>1. SoundChain(chain) /\ Sequel(chain) /\ Known(mapWallet) BY KeptPool DEF WalletKept
<1>2. SoundChain(flushed) /\ Sequel(walletBest)
    <2>1. PICK m : m = Len(flushed) OBVIOUS
    <2>2. m \in 1..Len(chain) /\ flushed = SubSeq(chain, 1, m) /\ Sequel(walletBest)
          BY <2>1 DEF WalletKept, FilesOK
    <2> QED BY <1>1, <2>2, PrefixSound
<1>3. CASE DiesBetweenCalls BY <1>1, <1>2, <1>3, DiesKept DEF DiesBetweenCalls
<1>4. CASE DiesDisconnecting
    <2>1. PICK less : less = Front(chain) OBVIOUS
    <2>2. Len(chain) > 1 /\ ProcessDies(mapWallet, less, chain)
          BY <1>4, <2>1 DEF DiesDisconnecting, CanDisconnect
    <2>3. SoundChain(less) BY <1>1, <2>1, <2>2, WithoutTipSound
    <2> QED BY <1>1, <2>2, <2>3, DiesKept
<1>5. ASSUME NEW b \in PoolBlocks, DiesConnecting(b) PROVE WalletKept'
    <2>1. PICK more : more = Append(chain, b) OBVIOUS
    <2>2. SoundChain(more)
        <3>1. Grown(b, more) BY <1>1, <1>5, <2>1, ConnectSound DEF DiesConnecting
        <3> QED BY <3>1 DEF Grown
    <2>3. ASSUME NEW best \in {walletBest, chain}, ProcessDies(mapWallet, more, best)
          PROVE  WalletKept'
        <3>1. Sequel(best) BY <1>1, <1>2
        <3> QED BY <1>1, <2>2, <2>3, <3>1, DiesKept
    <2>4. ASSUME NEW k \in 1..Len(Contents[b]),
                 ProcessDies(SyncAll(mapWallet, SubSeq(Contents[b], 1, k), b), flushed, walletBest)
          PROVE  WalletKept'
        <3>1. Known(SyncAll(mapWallet, SubSeq(Contents[b], 1, k), b))
              BY <1>1, ContentsCome, SyncAllKnown
        <3> QED BY <1>2, <2>4, <3>1, DiesKept
    <2> QED BY <1>5, <2>1, <2>3, <2>4 DEF DiesConnecting
<1> QED BY <1>3, <1>4, <1>5

LEMMA RestartKept ==
    ASSUME WalletKept, NEW policy, Restart(policy)
    PROVE  WalletKept'
<1>1. PICK from, w, known, s : /\ from = ScanStart(chain, walletBest) /\ w = mapWallet
                               /\ known = Rescans(w, chain, from)[Len(chain)]
                               /\ s = [pool |-> ThePool, wallet |-> known]
      OBVIOUS
<1>2. PICK r : r = Reaccepts(s, chain, policy)[Len(TxOrder)] OBVIOUS
<1>3. /\ up' = TRUE /\ SetPool(r.pool) /\ mapWallet' = r.wallet
      /\ walletBest' = IF Tip \in Range(walletBest) THEN walletBest ELSE chain
      /\ UNCHANGED <<chain, work, flushed, reloads>>
      BY <1>1, <1>2 DEF Restart, Rescanned, Reaccepted
<1>4. /\ chain \in Seq(PoolBlocks) /\ ChainOK(chain) /\ Sequel(chain)
      /\ Clear(chain, ThePool) /\ Backed(chain, ThePool) /\ Known(w)
      BY <1>1, KeptPool
<1>5. Sequel(walletBest) BY DEF WalletKept, FilesOK
<1>6. from \in 1..Len(chain) + 1 BY <1>1, <1>4, <1>5, ScanFacts
<1>7. Known(known) BY <1>1, <1>4, <1>6, RescanKnown
<1>8. s \in KnownOffers(chain)
    <2>1. ThePool \in Pools /\ known \in Wallets BY <1>4, <1>7, ClearPools DEF Known
    <2>2. s \in [pool : Pools, wallet : Wallets] /\ s.pool = ThePool /\ s.wallet = known
          BY <1>1, <2>1
    <2> QED BY <1>4, <1>7, <2>2 DEF KnownOffers
<1>9. r \in KnownOffers(chain)
    <2>1. PICK S : S = KnownOffers(chain) OBVIOUS
    <2>2. \A x \in S : \A t \in PoolTxs : Reaccept(x, chain, t, policy) \in S
          BY <1>4, <2>1, ReacceptKnown
    <2> QED BY <1>2, <1>8, <2>1, <2>2, ReacceptsStay
<1>10. Clear(chain, r.pool) /\ Backed(chain, r.pool) /\ Known(r.wallet)
       BY <1>9 DEF KnownOffers
<1>11. PoolInv'
    <2>1. ChainOK(chain') /\ Clear(chain', r.pool) /\ Backed(chain', r.pool)
          BY <1>3, <1>4, <1>10
    <2> QED BY <1>3, <2>1, PoolInvAfter
<1>12. WalletCounts' BY <1>3 DEF WalletKept, WalletCounts
<1>13. FilesOK' BY <1>3, <1>4 DEF WalletKept, FilesOK
<1>14. SoundChain(chain') /\ Known(mapWallet') BY <1>3, <1>10 DEF WalletKept
<1> QED BY <1>11, <1>12, <1>13, <1>14 DEF WalletKept

LEMMA InitWalletKept ==
    ASSUME MempoolInit, WalletInit
    PROVE  WalletKept
<1>1. WalletInv BY InitWalletInv
<1>2. Known(mapWallet)
      BY <1>1 DEF WalletInv, WalletRuns, WalletStopped, WalletCounts, Upon, Follows
<1> QED BY <1>1, <1>2 DEF WalletInv, WalletFiles, WalletKept, FilesOK

LEMMA NextWalletKept ==
    ASSUME WalletKept, WalletNext \/ UNCHANGED <<poolVars, walletVars>>
    PROVE  WalletKept'
<1>1. ASSUME NEW t \in PoolTxs, WalletAccepts(t) \/ Pay(t) \/ WalletLock(t) PROVE WalletKept'
      BY <1>1, CallsKept
<1>2. ASSUME NEW b \in PoolBlocks, WalletConnectTip(b) PROVE WalletKept'
      BY <1>2, ConnectKept
<1>3. ASSUME NEW policy \in Policies, WalletDisconnectTip(policy) PROVE WalletKept'
      BY <1>3, DisconnectKept
<1>4. CASE ReadBalance \/ WalletFlush BY <1>4, BalanceAndFlushKept
<1>5. CASE \/ DiesBetweenCalls \/ DiesDisconnecting
           \/ \E b \in PoolBlocks : DiesConnecting(b)
      BY <1>5, AllDeathsKept
<1>6. ASSUME NEW policy \in Policies, Restart(policy) PROVE WalletKept' BY <1>6, RestartKept
<1>7. CASE UNCHANGED <<poolVars, walletVars>>
    <2>1. /\ chain' = chain /\ pool' = pool /\ nextTx' = nextTx /\ work' = work
          /\ mapWallet' = mapWallet /\ walletBest' = walletBest /\ flushed' = flushed
          /\ up' = up /\ reloads' = reloads
          BY <1>7 DEF poolVars, walletVars
    <2>2. PoolInv' BY <2>1, StutterPoolInv DEF WalletKept
    <2> QED BY <2>1, <2>2 DEF WalletKept, WalletCounts, FilesOK
<1> QED BY <1>1, <1>2, <1>3, <1>4, <1>5, <1>6, <1>7 DEF WalletNext

LEMMA WalletTypesFollow == WalletKept => WalletTypeOK
<1> SUFFICES ASSUME WalletKept PROVE WalletTypeOK OBVIOUS
<1>1. mapWallet \in Wallets BY KeptPool DEF Known
<1>2. /\ DOMAIN mapWallet \subseteq PoolTxs
      /\ \A t \in DOMAIN mapWallet :
            /\ mapWallet[t].hashBlock \in PoolBlocks \cup {NullHash}
            /\ mapWallet[t].credit \in (SUBSET Mine) \cup {Stale}
      BY <1>1, WalletTyped
<1>3. \A t \in DOMAIN mapWallet : mapWallet[t].credit = Stale \/ mapWallet[t].credit \subseteq Mine
      BY <1>2
<1>4. walletBest \in Seq(PoolBlocks) BY DEF WalletKept, FilesOK, Sequel
<1>5. flushed \in Seq(PoolBlocks)
    <2>1. PICK m : m = Len(flushed) OBVIOUS
    <2>2. m \in 1..Len(chain) /\ flushed = SubSeq(chain, 1, m)
          BY <2>1 DEF WalletKept, FilesOK
    <2>3. chain \in Seq(PoolBlocks) /\ Len(chain) \in Nat BY KeptPool
    <2> QED BY <2>2, <2>3
<1>6. up \in BOOLEAN /\ reloads \in 0..MaxReloads BY DEF WalletKept, WalletCounts
<1> QED BY <1>2, <1>3, <1>4, <1>5, <1>6 DEF WalletTypeOK

-----------------------------------------------------------------------------
(* What follows for the wallet.                                             *)

\* What nothing in the chain or the pool spends, and something in them makes.
LEMMA UnspentFacts ==
    ASSUME WalletInv, NEW o \in Outpoints, o[1] \in pool \cup InChain(chain),
           \A u \in pool \cup InChain(chain) : o \notin Spends[u]
    PROVE  IsUnspent(o)
<1>1. /\ Clear(chain, ThePool) /\ chain \in Seq(PoolBlocks)
      /\ pool \cup InChain(chain) \subseteq PoolTxs /\ ThePool.pool = pool
      BY ChainFacts
<1>2. nextTx[o] = NoTransaction
    <2>1. PICK p : p = ThePool OBVIOUS
    <2>2. p.next = nextTx /\ p.pool = pool BY <2>1 DEF ThePool
    <2>3. nextTx[o] \in PoolTxs \cup {NoTransaction}
          BY <1>1, <2>1, <2>2 DEF Clear, GoodPool, Pools
    <2>4. ASSUME nextTx[o] \in PoolTxs PROVE FALSE
        <3>1. PICK t \in PoolTxs : nextTx[o] = t BY <2>4
        <3>2. t \in pool /\ o \in Spends[t] BY <1>1, <2>1, <2>2, <3>1 DEF Clear, GoodPool
        <3> QED BY <3>2
    <2> QED BY <2>3, <2>4
<1>3. ~Spent(chain, o)
    <2>1. SUFFICES ASSUME Spent(chain, o) PROVE FALSE OBVIOUS
    <2>2. PICK h \in DOMAIN chain : \E i \in DOMAIN Contents[chain[h]] :
              o \in Spends[Contents[chain[h]][i]]
          BY <2>1 DEF Spent
    <2>3. PICK i \in DOMAIN Contents[chain[h]] : o \in Spends[Contents[chain[h]][i]] BY <2>2
    <2>4. Contents[chain[h]] \in Seq(PoolTxs) BY <1>1, PoolChain
    <2>5. i \in 1..Len(Contents[chain[h]]) /\ Contents[chain[h]][i] \in PoolTxs BY <2>3, <2>4
    <2>6. Contents[chain[h]][i] \in InChain(chain) BY <2>5 DEF InChain, Contains
    <2> QED BY <2>3, <2>6
<1>4. o[1] \in PoolTxs BY <1>1
<1>5. o[1] \in InChain(chain) => Available(chain, o) BY <1>3, <1>4, MadeInChain DEF Available
<1> QED BY <1>2, <1>5 DEF IsUnspent

\* A transaction that is not conflicted is in the chain or the pool.
LEMMA ThereOfDepth ==
    ASSUME WalletInv, up, NEW t \in DOMAIN mapWallet, Depth(mapWallet, chain, pool, t) >= 0
    PROVE  t \in PoolTxs /\ t \in pool \cup InChain(chain)
<1>1. PICK w : w = mapWallet OBVIOUS
<1>2. Known(w) /\ chain \in Seq(PoolBlocks) /\ DOMAIN chain = 1..Len(chain)
      BY <1>1, ChainFacts DEF WalletInv, WalletRuns, Follows
<1>3. t \in PoolTxs BY <1>1, <1>2, WalletTyped DEF Known
<1>4. CASE Contains(chain, w[t].hashBlock)
    <2>1. PICK h \in 1..Len(chain) : chain[h] = w[t].hashBlock BY <1>4 DEF Contains
    <2>2. chain[h] \in PoolBlocks BY <1>2
    <2>3. w[t].hashBlock # NullHash BY <2>1, <2>2, WalletBlocks
    <2>4. Contains(Contents[chain[h]], t) BY <1>1, <1>2, <2>1, <2>3 DEF Known
    <2> QED BY <1>2, <1>3, <2>4 DEF InChain
<1>5. CASE ~Contains(chain, w[t].hashBlock)
    <2>1. Depth(w, chain, pool, t) = IF t \in pool THEN 0 ELSE -1 BY <1>2, <1>5, DepthFacts
    <2> QED BY <1>1, <1>3, <2>1
<1> QED BY <1>4, <1>5

LEMMA TrustedThere ==
    ASSUME WalletInv, up, NEW t \in DOMAIN mapWallet, IsTrusted(mapWallet, chain, pool, t)
    PROVE  t \in PoolTxs /\ t \in pool \cup InChain(chain)
<1>1. PICK d : d = Depth(mapWallet, chain, pool, t) OBVIOUS
<1>2. d >= 1 \/ d = 0 BY <1>1 DEF IsTrusted
<1>3. d \in Int
    <2>1. PICK w : w = mapWallet OBVIOUS
    <2>2. chain \in Seq(PoolBlocks) /\ Len(chain) \in Nat BY ChainFacts
    <2>3. CASE Contains(chain, w[t].hashBlock)
        <3>1. PICK h : At(w, chain, pool, t, h) BY <2>2, <2>3, DepthFacts
        <3> QED BY <1>1, <2>1, <2>2, <3>1 DEF At
    <2>4. CASE ~Contains(chain, w[t].hashBlock)
        <3>1. Depth(w, chain, pool, t) = IF t \in pool THEN 0 ELSE -1 BY <2>2, <2>4, DepthFacts
        <3> QED BY <1>1, <2>1, <3>1
    <2> QED BY <2>3, <2>4
<1>4. d >= 0 BY <1>2, <1>3
<1> QED BY <1>1, <1>4, ThereOfDepth

\* What a transaction of the chain or the pool spends is spent for the wallet.
LEMMA OfferedUnspent ==
    ASSUME WalletInv, up, NEW o \in AvailableCoins(mapWallet, chain, pool)
    PROVE  /\ IsUnspent(o) /\ o[1] \in DOMAIN mapWallet
           /\ ~Immature(mapWallet, chain, pool, o[1])
<1>1. PICK w, U : w = mapWallet /\ U = pool \cup InChain(chain) OBVIOUS
<1>2. /\ o \in Mine /\ o[1] \in DOMAIN w /\ IsTrusted(w, chain, pool, o[1])
      /\ ~Immature(w, chain, pool, o[1]) /\ ~IsSpent(w, chain, pool, o)
      BY <1>1 DEF AvailableCoins
<1>3. /\ chain \in Seq(PoolBlocks) /\ U \subseteq PoolTxs
      /\ \A h \in DOMAIN chain : Contains(chain, chain[h])
      BY <1>1, ChainFacts
<1>4. Knows(w, U) /\ Placed(w, chain) BY <1>1 DEF WalletInv, WalletRuns, Follows
<1>5. o \in Outpoints BY <1>2, OwnOutpoint
<1>6. o[1] \in U BY <1>1, <1>2, TrustedThere
<1>7. ASSUME NEW u \in U, o \in Spends[u] PROVE FALSE
    <2>1. u \in Ours BY <1>2, <1>3, <1>7 DEF Ours
    <2>2. u \in DOMAIN w BY <1>4, <1>7, <2>1 DEF Knows
    <2>3. u \in pool \cup InChain(chain) BY <1>1, <1>7
    <2>4. Depth(w, chain, pool, u) >= 0 BY <1>3, <1>4, <2>2, <2>3, DepthOfThere
    <2> QED BY <1>2, <1>7, <2>2, <2>4 DEF IsSpent
<1>8. IsUnspent(o)
    <2>1. \A u \in pool \cup InChain(chain) : o \notin Spends[u] BY <1>1, <1>7
    <2>2. o[1] \in pool \cup InChain(chain) BY <1>1, <1>6
    <2> QED BY <1>5, <2>1, <2>2, UnspentFacts
<1> QED BY <1>1, <1>2, <1>8

LEMMA FollowsChainFollows == WalletInv => WalletFollowsChain
<1> SUFFICES ASSUME WalletInv, up PROVE WalletFollowsChain BY DEF WalletFollowsChain
<1>1. PICK w, U : w = mapWallet /\ U = pool \cup InChain(chain) OBVIOUS
<1>2. Known(w) /\ Knows(w, U) /\ Fresh(w, U) /\ Placed(w, chain)
      BY <1>1 DEF WalletInv, WalletRuns, Follows
<1>3. \A o \in AvailableCoins(w, chain, pool) : IsUnspent(o) BY <1>1, OfferedUnspent
<1>4. ASSUME NEW t \in Counted(w, chain, pool), w[t].credit # Stale, NEW o \in w[t].credit
      PROVE  IsUnspent(o)
    <2>1. t \in DOMAIN w /\ IsTrusted(w, chain, pool, t) BY <1>4 DEF Counted
    <2>2. t \in PoolTxs /\ t \in U BY <1>1, <2>1, TrustedThere
    <2>3. o \in Makes[t] BY <1>2, <1>4, <2>1 DEF Known
    <2>4. o \in Outpoints /\ o[1] = t BY <2>2, <2>3, PoolTransactions DEF Outpoints
    <2>5. \A u \in U : o \notin Spends[u] BY <1>2, <1>4, <2>1 DEF Fresh
    <2>6. o[1] \in pool \cup InChain(chain) BY <1>1, <2>2, <2>4
    <2>7. \A u \in pool \cup InChain(chain) : o \notin Spends[u] BY <1>1, <2>5
    <2> QED BY <2>4, <2>6, <2>7, UnspentFacts
<1>5. ASSUME NEW h \in DOMAIN chain, NEW t \in Range(Contents[chain[h]]), Involves(w, t)
      PROVE  t \in DOMAIN w /\ w[t].hashBlock = chain[h]
    <2>1. chain \in Seq(PoolBlocks) BY ChainFacts
    <2>2. Contents[chain[h]] \in Seq(PoolTxs) BY <2>1, PoolChain
    <2>3. PICK i \in 1..Len(Contents[chain[h]]) : t = Contents[chain[h]][i]
          BY <1>5, <2>2 DEF Range
    <2>4. t \in PoolTxs /\ Contains(Contents[chain[h]], t) BY <2>2, <2>3 DEF Contains
    <2>5. t \in Ours BY <1>2, <1>5, <2>4, InvolvesOurs
    <2>6. t \in U BY <1>1, <2>4 DEF InChain
    <2>7. t \in DOMAIN w BY <1>2, <2>5, <2>6 DEF Knows
    <2> QED BY <1>2, <2>4, <2>7 DEF Placed
<1> QED BY <1>1, <1>3, <1>4, <1>5 DEF WalletFollowsChain

LEMMA CommitsFollow == WalletInv => CommitsSucceed
<1> SUFFICES ASSUME WalletInv, up, NEW t \in Payable(mapWallet, chain, pool)
             PROVE  Verdict(chain, ThePool, t, {}) = "accepted"
    BY DEF CommitsSucceed
<1>1. PICK w, p, U : w = mapWallet /\ p = ThePool /\ U = pool \cup InChain(chain) OBVIOUS
<1>2. /\ chain \in Seq(PoolBlocks) /\ Len(chain) \in Nat /\ DOMAIN chain = 1..Len(chain)
      /\ p.pool = pool /\ U \subseteq PoolTxs
      BY <1>1, ChainFacts
<1>3. Known(w) /\ Knows(w, U) /\ Placed(w, chain) BY <1>1 DEF WalletInv, WalletRuns, Follows
<1>4. PaymentOf(w, t) /\ Spends[t] \subseteq AvailableCoins(w, chain, pool)
      BY <1>1, PayableFacts
<1>5. /\ t \in PoolTxs /\ t \notin Minted /\ t \notin ZSpends /\ t \notin BadScript
      /\ t \notin DOMAIN w /\ Spends[t] # {} /\ Spends[t] \subseteq Mine
      BY <1>4 DEF PaymentOf
<1>6. t \notin U
    <2>1. t \in Ours BY <1>5 DEF Ours
    <2> QED BY <1>3, <1>5, <2>1 DEF Knows
<1>7. ASSUME NEW o \in Spends[t]
      PROVE  /\ IsUnspent(o) /\ o[1] \in DOMAIN w /\ ~Immature(w, chain, pool, o[1])
             /\ o[1] \in PoolTxs /\ o \in Makes[o[1]]
    <2>1. o \in AvailableCoins(mapWallet, chain, pool) BY <1>1, <1>4
    <2>2. /\ IsUnspent(o) /\ o[1] \in DOMAIN mapWallet
          /\ ~Immature(mapWallet, chain, pool, o[1])
          BY <2>1, OfferedUnspent
    <2> QED BY <1>1, <1>5, <2>2, MadeBy
<1>8. ~HaveCoins(chain, p, t)
    <2>1. t \notin p.pool BY <1>1, <1>2, <1>6
    <2>2. ASSUME NEW o \in Makes[t], Available(chain, o) PROVE FALSE
        <3>1. o[1] = t BY <1>5, <2>2, PoolTransactions
        <3>2. t \in InChain(chain) BY <1>5, <2>2, <3>1, MadeInChain DEF Available
        <3> QED BY <1>1, <1>6, <3>2
    <2> QED BY <2>1, <2>2 DEF HaveCoins
<1>9. ASSUME NEW o \in Spends[t]
      PROVE  /\ p.next[o] = NoTransaction /\ HaveCoins(chain, p, o[1])
             /\ o[1] \in p.pool \/ Available(chain, o)
    <2>1. IsUnspent(o) /\ o \in Makes[o[1]] BY <1>7
    <2>2. p.next = nextTx BY <1>1 DEF ThePool
    <2> QED BY <1>2, <2>1, <2>2 DEF IsUnspent, HaveCoins
<1>10. ASSUME NEW o \in Spends[t], o[1] \notin p.pool
       PROVE  Mature(chain, o)
    <2>1. SUFFICES ASSUME o[1] \in Minted, NEW k \in CreatedAt(chain, o)
                   PROVE  Len(chain) + 1 - k >= CoinMaturity
          BY DEF Mature
    <2>2. k \in 1..Len(chain) /\ Contains(Contents[chain[k]], o[1])
          BY <1>2, <2>1 DEF CreatedAt
    <2>3. w[o[1]].hashBlock = chain[k] BY <1>2, <1>3, <1>7, <2>2 DEF Placed
    <2>4. Contains(chain, w[o[1]].hashBlock) BY <2>2, <2>3 DEF Contains
    <2>5. PICK u : u = o[1] OBVIOUS
    <2>6. PICK h : At(w, chain, pool, u, h) BY <1>2, <2>4, <2>5, DepthFacts
    <2>7. /\ h \in 1..Len(chain) /\ chain[h] = chain[k]
          /\ Depth(w, chain, pool, u) = Len(chain) + 1 - h
          BY <2>3, <2>5, <2>6 DEF At
    <2>8. h = k BY <2>2, <2>7 DEF WalletInv, SoundChain, Once
    <2>9. ~(Len(chain) + 1 - k < CoinMaturity + 1)
          BY <1>7, <2>1, <2>5, <2>7, <2>8 DEF Immature
    <2> QED BY <1>2, <2>2, <2>9, PoolLimits
<1>11. t \notin p.pool BY <1>1, <1>2, <1>6
<1>12. HaveInputs(chain, p, t) BY <1>9 DEF HaveInputs
<1>13. Verdict(chain, p, t, {}) = "accepted"
       BY <1>5, <1>8, <1>9, <1>10, <1>11, <1>12 DEF Verdict
<1> QED BY <1>1, <1>13

\* As long as the process dies at most once, the wallet follows the chain and
\* the pool while it runs, wallet.dat follows the chain that a restart will find
\* up to where it will scan, and no block of its locator holds a transaction of
\* the wallet that a block which was never connected has taken since.
THEOREM WalletInvariant == ASSUME MaxReloads <= 1 PROVE WalletSpec => []WalletInv
<1>1. MempoolInit /\ WalletInit => WalletInv BY InitWalletInv
<1>2. WalletInv /\ [WalletNext]_<<poolVars, walletVars>> => WalletInv'
      BY NextWalletInv, StutterWalletInv
<1> QED BY <1>1, <1>2, PTL DEF WalletSpec

\* However often the process dies, and whatever the wallet pays, mints, scans and
\* offers again, chain, pool and files stay sound, and an entry of the wallet has
\* a block that contains it, or none.
THEOREM WalletKeepsSound == WalletSpec => []WalletKept
<1>1. MempoolInit /\ WalletInit => WalletKept BY InitWalletKept
<1>2. WalletKept /\ [WalletNext]_<<poolVars, walletVars>> => WalletKept' BY NextWalletKept
<1> QED BY <1>1, <1>2, PTL DEF WalletSpec

\* The variables of the wallet keep their types.
THEOREM WalletTypeCorrect == WalletSpec => []WalletTypeOK
BY WalletKeepsSound, WalletTypesFollow, PTL

\* What CTxMemPool::check asserts holds of the pool beside a wallet too.
THEOREM PoolSoundWithWallet == WalletSpec => []PoolSound
<1>1. WalletKept => PoolSound BY PoolSoundFollows DEF WalletKept
<1> QED BY <1>1, WalletKeepsSound, PTL

\* Through reorganisations, locks, payments, a crash at any point and the rescan
\* after it, the wallet offers and counts only unspent coins and has what the
\* chain has of its transactions, each with its block.
THEOREM WalletAlwaysFollows ==
    ASSUME MaxReloads <= 1 PROVE WalletSpec => []WalletFollowsChain
BY WalletInvariant, FollowsChainFollows, PTL

\* CommitTransaction does not fail: the pool accepts what is made of the coins
\* that AvailableCoins offers.
THEOREM CommitsAlwaysSucceed ==
    ASSUME MaxReloads <= 1 PROVE WalletSpec => []CommitsSucceed
BY WalletInvariant, CommitsFollow, PTL
=============================================================================
