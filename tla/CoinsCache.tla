----------------------------- MODULE CoinsCache -----------------------------
(***************************************************************************)
(* The stack of coin caches (coins.cpp, coins.h, txdb.cpp): the database,  *)
(* pcoinsTip above it and, while a block is connected or disconnected, a   *)
(* CCoinsViewCache above pcoinsTip.  A cache holds some transactions, each *)
(* with two flags: DIRTY, it may differ from the parent's; FRESH, the      *)
(* parent has nothing unspent for it.  The flags decide what Flush writes  *)
(* and what it may forget.                                                 *)
(*                                                                         *)
(* A CCoins is one value: a member of Coins while an output is unspent,    *)
(* else Pruned.  Missing stands for a GetCoins that returns false, and for *)
(* the coins of an entry that a cache does not have.                       *)
(***************************************************************************)

CONSTANTS
    Txids,
    Coins,
    Pruned,
    Missing,
    NoTx,
    Hashes,
    NoHash,      \* uint256(0): the best block has not been looked up yet
    After        \* After[h]: the coins when h is the best block

ASSUME CoinsAssumption ==
    /\ Pruned \notin Coins /\ Missing \notin Coins /\ Missing # Pruned
    /\ NoTx \notin Txids
ASSUME AfterAssumption ==
    /\ NoHash \notin Hashes
    /\ After \in [Hashes -> [Txids -> Coins \cup {Pruned}]]

VARIABLES
    disk,        \* the coin database: 'c' entries
    diskBest,    \* the coin database: 'B' entry
    tip,         \* pcoinsTip's cacheCoins
    tipBest,     \* pcoinsTip's hashBlock
    view,        \* the view's cacheCoins
    viewBest,    \* the view's hashBlock
    open,        \* whether there is a view
    modifying,   \* the transaction the view's CCoinsModifier is for
    failed       \* whether a write to the database has failed

vars == <<disk, diskBest, tip, tipBest, view, viewBest, open, modifying, failed>>

Values == Coins \cup {Pruned}
Entries == [coins : Values \cup {Missing}, flags : SUBSET {"DIRTY", "FRESH"}]
NoEntry == [coins |-> Missing, flags |-> {}]
Empty == [t \in Txids |-> NoEntry]
Holds(cache, t) == cache[t].coins # Missing

\* base->GetCoins for pcoinsTip and for the view.
TipGets(t) == IF Holds(tip, t) THEN tip[t].coins ELSE disk[t]
ViewGets(t) == IF Holds(view, t) THEN view[t].coins ELSE TipGets(t)

\* The coins a view stands for: nothing unspent when it has none.
Unspent(c) == IF c = Missing THEN Pruned ELSE c

\* GetBestBlock asks the parent when hashBlock is null.
TipBlock == IF tipBest = NoHash THEN diskBest ELSE tipBest
ViewBlock == IF viewBest = NoHash THEN TipBlock ELSE viewBest

Init ==
    /\ diskBest \in Hashes
    /\ disk = [t \in Txids |-> IF After[diskBest][t] = Pruned THEN Missing
                               ELSE After[diskBest][t]]
    /\ tip = Empty
    /\ tipBest = NoHash
    /\ view = Empty
    /\ viewBest = NoHash
    /\ open = FALSE
    /\ modifying = NoTx
    /\ failed = FALSE

-----------------------------------------------------------------------------
(* Reading fills the caches                                                *)

\* Mutant: what the parent has is cached as FRESH.
FetchedFresh(got) == IF got = Missing THEN NoEntry ELSE [coins |-> got, flags |-> {"FRESH"}]

\* FetchCoins' new entry, for what the parent's GetCoins returned.
Fetched(got) ==
    IF got = Missing THEN NoEntry
    ELSE [coins |-> got, flags |-> IF got = Pruned THEN {"FRESH"} ELSE {}]

\* Mutant: pcoinsTip does not keep what it read.
TipWithNothing(t) == tip

\* pcoinsTip after GetCoins(t).
TipWith(t) == IF Holds(tip, t) THEN tip ELSE [tip EXCEPT ![t] = Fetched(disk[t])]

\* GetCoins, AccessCoins and HaveCoins of pcoinsTip.
FetchTip(t) ==
    /\ tip' = TipWith(t)
    /\ UNCHANGED <<disk, diskBest, tipBest, view, viewBest, open, modifying, failed>>

\* GetCoins, AccessCoins and HaveCoins of the view.
FetchView(t) ==
    /\ open
    /\ \/ Holds(view, t) /\ UNCHANGED <<view, tip>>
       \/ /\ ~Holds(view, t)
          /\ tip' = TipWith(t)
          /\ view' = [view EXCEPT ![t] = Fetched(TipGets(t))]
    /\ UNCHANGED <<disk, diskBest, tipBest, viewBest, open, modifying, failed>>

\* view.GetBestBlock(), which ConnectBlock and DisconnectBlock begin with.
GetBestBlock ==
    /\ open
    /\ viewBest' = ViewBlock
    /\ tipBest' = IF viewBest = NoHash THEN TipBlock ELSE tipBest
    /\ UNCHANGED <<disk, diskBest, tip, view, open, modifying, failed>>

-----------------------------------------------------------------------------
(* The life of a view                                                      *)

\* CCoinsViewCache view(pcoinsTip).
OpenView ==
    /\ ~open
    /\ open' = TRUE
    /\ UNCHANGED <<disk, diskBest, tip, tipBest, view, viewBest, modifying, failed>>

\* ModifyCoins' new entry, for what the parent's GetCoins returned.
Created(got) ==
    [coins |-> Unspent(got),
     flags |-> {"DIRTY"} \cup (IF Unspent(got) = Pruned THEN {"FRESH"} ELSE {})]

Dirtied(entry) == [entry EXCEPT !.flags = @ \cup {"DIRTY"}]

ModifyCoins(t) ==
    /\ open /\ modifying = NoTx
    /\ modifying' = t
    /\ \/ /\ Holds(view, t)
          /\ view' = [view EXCEPT ![t] = Dirtied(@)]
          /\ UNCHANGED tip
       \/ /\ ~Holds(view, t)
          /\ tip' = TipWith(t)
          /\ view' = [view EXCEPT ![t] = Created(TipGets(t))]
    /\ UNCHANGED <<disk, diskBest, tipBest, viewBest, open, failed>>

\* The holder of the CCoinsModifier changes the coins.
Assign(c) ==
    /\ modifying # NoTx
    /\ view' = [view EXCEPT ![modifying] = [@ EXCEPT !.coins = c]]
    /\ UNCHANGED <<disk, diskBest, tip, tipBest, viewBest, open, modifying, failed>>

\* What ~CCoinsModifier leaves of the entry.
Released(entry) ==
    IF "FRESH" \in entry.flags /\ entry.coins = Pruned THEN NoEntry ELSE entry

Release ==
    /\ modifying # NoTx
    /\ view' = [view EXCEPT ![modifying] = Released(@)]
    /\ modifying' = NoTx
    /\ UNCHANGED <<disk, diskBest, tip, tipBest, viewBest, open, failed>>

\* CCoinsViewCache::BatchWrite, for one transaction: our entry and the child's.
Merged(us, it) ==
    IF it.coins = Missing \/ "DIRTY" \notin it.flags THEN us
    ELSE IF us.coins = Missing
    THEN IF it.coins = Pruned THEN NoEntry
         ELSE [coins |-> it.coins, flags |-> {"DIRTY", "FRESH"}]
    ELSE IF "FRESH" \in us.flags /\ it.coins = Pruned THEN NoEntry
    ELSE [coins |-> it.coins, flags |-> us.flags \cup {"DIRTY"}]

CloseView ==
    /\ view' = Empty
    /\ viewBest' = NoHash
    /\ open' = FALSE

\* The block was connected or disconnected: SetBestBlock, view.Flush().
CommitView(h) ==
    /\ open /\ modifying = NoTx
    /\ \A t \in Txids : Unspent(ViewGets(t)) = After[h][t]
    /\ tip' = [t \in Txids |-> Merged(tip[t], view[t])]
    /\ tipBest' = h
    /\ CloseView
    /\ UNCHANGED <<disk, diskBest, modifying, failed>>

\* The block failed, or was only checked: the view is dropped.
DiscardView ==
    /\ open /\ modifying = NoTx
    /\ CloseView
    /\ UNCHANGED <<disk, diskBest, tip, tipBest, modifying, failed>>

-----------------------------------------------------------------------------
(* The database                                                            *)

\* Mutant: what is fully spent is not erased.
WrittenUnspent(old, it) == IF it.coins \in {Missing, Pruned} THEN old ELSE it.coins

\* CCoinsViewDB::BatchWrite, for one transaction.
Written(old, it) ==
    IF it.coins = Missing \/ "DIRTY" \notin it.flags THEN old
    ELSE IF it.coins = Pruned THEN Missing
    ELSE it.coins

\* pcoinsTip->Flush(): one LevelDB batch.  FlushStateToDisk holds cs_main and
\* is not called while there is a view.
FlushTip ==
    /\ ~open
    /\ disk' = [t \in Txids |-> Written(disk[t], tip[t])]
    /\ diskBest' = TipBlock
    /\ tip' = Empty
    /\ UNCHANGED <<tipBest, view, viewBest, open, modifying, failed>>

\* WriteBatch throws: CCoinsViewDB::BatchWrite has emptied the cache by then.
\* AbortNode asks for a shutdown, which flushes pcoinsTip once more.
FlushTipFails ==
    /\ ~open
    /\ tip' = Empty
    /\ failed' = TRUE
    /\ UNCHANGED <<disk, diskBest, tipBest, view, viewBest, open, modifying>>

\* The process ends without a flush and starts again.
Crash ==
    /\ tip' = Empty
    /\ tipBest' = NoHash
    /\ CloseView
    /\ modifying' = NoTx
    /\ UNCHANGED <<disk, diskBest, failed>>

Next ==
    \/ \E t \in Txids : FetchTip(t) \/ FetchView(t) \/ ModifyCoins(t)
    \/ \E c \in Values : Assign(c)
    \/ \E h \in Hashes : CommitView(h)
    \/ GetBestBlock \/ OpenView \/ Release \/ DiscardView
    \/ FlushTip \/ FlushTipFails \/ Crash

Spec == Init /\ [][Next]_vars

-----------------------------------------------------------------------------
(* Properties                                                              *)

\* Types; the view is empty when there is none, and the database holds nothing
\* that is fully spent (only !IsPruned() CCoins can be serialized).
TypeOK ==
    /\ disk \in [Txids -> Coins \cup {Missing}]
    /\ diskBest \in Hashes
    /\ tip \in [Txids -> Entries]
    /\ view \in [Txids -> Entries]
    /\ tipBest \in Hashes \cup {NoHash} /\ viewBest \in Hashes \cup {NoHash}
    /\ open \in BOOLEAN
    /\ modifying \in Txids \cup {NoTx}
    /\ failed \in BOOLEAN
    /\ ~open => view = Empty /\ viewBest = NoHash /\ modifying = NoTx

\* BatchWrite's assert(it->second.flags & FRESH): what a view changed and
\* pcoinsTip has no entry for is new to both.
BatchWriteAssertion ==
    \A t \in Txids :
        "DIRTY" \in view[t].flags /\ view[t].coins # Pruned /\ ~Holds(tip, t)
            => "FRESH" \in view[t].flags

\* The coin database is the state of its best block: GetBestBlock is "the block
\* hash whose state this CCoinsView currently represents" (coins.h).  Until a
\* write fails, that is: see FlushTipFails.
DiskRepresentsItsBlock ==
    ~failed => \A t \in Txids : Unspent(disk[t]) = After[diskBest][t]

\* What the database, pcoinsTip and the view stand for.
diskMap == [t \in Txids |-> Unspent(disk[t])]
tipMap == [t \in Txids |-> Unspent(TipGets(t))]
viewMap == [t \in Txids |-> Unspent(ViewGets(t))]
DiskState == [coins |-> diskMap, best |-> diskBest]
TipState == [coins |-> tipMap, best |-> TipBlock]
ViewState == [coins |-> viewMap, best |-> ViewBlock]

View == INSTANCE CoinsView WITH disk <- DiskState, tip <- TipState, view <- ViewState

\* The caches implement CoinsView: three maps without flags, whose coins change
\* only through a CCoinsModifier and move only as a whole.
Implements == View!Spec
=============================================================================
