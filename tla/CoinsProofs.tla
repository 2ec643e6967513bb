----------------------------- MODULE CoinsProofs -----------------------------
(***************************************************************************)
(* The coins are right, for any transactions, coins and blocks.            *)
(*                                                                         *)
(* The caches: what BatchWrite asserts holds, the three caches are the     *)
(* three maps of module CoinsView, and until a write fails the database    *)
(* holds the coins of the block it names as its best.                      *)
(*                                                                         *)
(* The undo data: what DisconnectBlock makes of what ConnectBlock left is  *)
(* what ConnectBlock found, so that through any sequence of both the       *)
(* unspent outputs are those the active chain determines.                  *)
(***************************************************************************)
EXTENDS CoinsCache, BlockUndo, SequenceTheorems, StepLemmas

\* No entry, no flags; a modifier has its entry, marked.
Shape ==
    /\ \A t \in Txids : ~Holds(tip, t) => tip[t] = NoEntry
    /\ \A t \in Txids : ~Holds(view, t) => view[t] = NoEntry
    /\ modifying # NoTx => Holds(view, modifying) /\ "DIRTY" \in view[modifying].flags

\* pcoinsTip's flags tell the truth about the database.
TipSound ==
    \A t \in Txids : Holds(tip, t) =>
        /\ "DIRTY" \notin tip[t].flags => tip[t].coins = disk[t]
        /\ "FRESH" \in tip[t].flags => disk[t] = Missing

\* The view's flags tell the truth about pcoinsTip, and pcoinsTip holds
\* whatever the view got from it.
ViewSound ==
    \A t \in Txids : Holds(view, t) =>
        /\ "DIRTY" \notin view[t].flags => view[t].coins = TipGets(t)
        /\ "FRESH" \in view[t].flags => Unspent(TipGets(t)) = Pruned
        /\ "FRESH" \notin view[t].flags => Holds(tip, t)

Inv == TypeOK /\ Shape /\ TipSound /\ ViewSound

LEMMA InitCaches == Init => Inv
<1> USE CoinsAssumption, AfterAssumption
<1>1. Init => TypeOK
  <2>1. Empty \in [Txids -> Entries] BY DEF Empty, NoEntry, Entries
  <2>2. Init => disk \in [Txids -> Coins \cup {Missing}] BY DEF Init
  <2> QED BY <2>1, <2>2 DEF Init, TypeOK
<1>2. Init => Shape /\ TipSound /\ ViewSound
      BY DEF Init, Shape, TipSound, ViewSound, Empty, NoEntry, Holds
<1> QED BY <1>1, <1>2 DEF Inv

-----------------------------------------------------------------------------
(* Reading a transaction through pcoinsTip changes nothing it stands for   *)

LEMMA TipWithFacts ==
    ASSUME Inv, NEW t \in Txids, tip' = TipWith(t), UNCHANGED disk
    PROVE  /\ tip' \in [Txids -> Entries]
           /\ \A x \in Txids : TipGets(x)' = TipGets(x)
           /\ \A x \in Txids : Holds(tip, x) => Holds(tip, x)'
           /\ TipGets(t) # Missing => Holds(tip, t)'
           /\ TipSound'
           /\ \A x \in Txids : ~Holds(tip, x)' => tip'[x] = NoEntry
<1> USE CoinsAssumption
<1>1. CASE Holds(tip, t)
      BY <1>1 DEF Inv, TypeOK, Shape, TipSound, TipWith, Holds, TipGets
<1>2. CASE ~Holds(tip, t)
  <2>1. /\ tip'[t] = Fetched(disk[t]) /\ \A x \in Txids \ {t} : tip'[x] = tip[x]
        /\ disk[t] \in Coins \cup {Missing}
        BY <1>2 DEF Inv, TypeOK, TipWith
  <2>2. /\ tip'[t].coins = disk[t] /\ tip'[t].flags = {} /\ tip'[t] \in Entries
        /\ disk[t] = Missing => tip'[t] = NoEntry
        BY <2>1 DEF Fetched, NoEntry, Entries, Values
  <2>3. tip' \in [Txids -> Entries] BY <1>2, <2>1, <2>2 DEF Inv, TypeOK, TipWith
  <2>4. \A x \in Txids : TipGets(x)' = TipGets(x)
        BY <1>2, <2>1, <2>2 DEF TipGets, Holds
  <2>5. TipSound' BY <2>1, <2>2 DEF Inv, TipSound, Holds
  <2> QED BY <1>2, <2>1, <2>2, <2>3, <2>4, <2>5 DEF Inv, Shape, Holds, TipGets
<1> QED BY <1>1, <1>2

\* So a view whose entries do not change is as sound as before.
LEMMA ViewKept ==
    ASSUME Inv, NEW x \in Txids, view'[x] = view[x], TipGets(x)' = TipGets(x),
           Holds(tip, x) => Holds(tip, x)'
    PROVE  Holds(view, x)' =>
              /\ "DIRTY" \notin view'[x].flags => view'[x].coins = TipGets(x)'
              /\ "FRESH" \in view'[x].flags => Unspent(TipGets(x)') = Pruned
              /\ "FRESH" \notin view'[x].flags => Holds(tip, x)'
BY DEF Inv, ViewSound, Holds

LEMMA FetchTipInv == ASSUME Inv, NEW t \in Txids, FetchTip(t) PROVE Inv'
<1>1. UNCHANGED <<disk, diskBest, tipBest, view, viewBest, open, modifying, failed>> /\ tip' = TipWith(t)
      BY DEF FetchTip
<1>2. ViewSound' BY <1>1, TipWithFacts, ViewKept DEF ViewSound
<1>3. TypeOK' BY <1>1, TipWithFacts DEF Inv, TypeOK
<1>4. Shape' BY <1>1, TipWithFacts DEF Inv, Shape, Holds
<1> QED BY <1>1, <1>2, <1>3, <1>4, TipWithFacts DEF Inv

\* FetchCoins and ModifyCoins of the view, for a transaction it does not hold.
LEMMA NewEntry ==
    ASSUME Inv, open, NEW t \in Txids, NEW e \in Entries, ~Holds(view, t),
           tip' = TipWith(t), view' = [view EXCEPT ![t] = e],
           UNCHANGED <<disk, diskBest, tipBest, viewBest, open, failed>>,
           modifying' \in Txids \cup {NoTx},
           modifying = NoTx \/ modifying' = modifying,
           modifying' # modifying => modifying' = t /\ e.coins # Missing /\ "DIRTY" \in e.flags,
           e.coins = Missing => e = NoEntry,
           e.coins # Missing =>
              /\ e.coins = Unspent(TipGets(t))
              /\ "DIRTY" \notin e.flags => e.coins = TipGets(t)
              /\ "FRESH" \in e.flags => e.coins = Pruned
              /\ "FRESH" \notin e.flags => e.coins # Pruned
    PROVE  Inv'
<1> USE CoinsAssumption
<1>1. view'[t] = e /\ \A x \in Txids \ {t} : view'[x] = view[x]
      BY DEF Inv, TypeOK
<1>2. ViewSound'
  <2>1. ASSUME NEW x \in Txids, x # t PROVE
           Holds(view, x)' =>
              /\ "DIRTY" \notin view'[x].flags => view'[x].coins = TipGets(x)'
              /\ "FRESH" \in view'[x].flags => Unspent(TipGets(x)') = Pruned
              /\ "FRESH" \notin view'[x].flags => Holds(tip, x)'
        BY <1>1, <2>1, TipWithFacts, ViewKept
  <2>2. Holds(view, t)' =>
              /\ "DIRTY" \notin view'[t].flags => view'[t].coins = TipGets(t)'
              /\ "FRESH" \in view'[t].flags => Unspent(TipGets(t)') = Pruned
              /\ "FRESH" \notin view'[t].flags => Holds(tip, t)'
        BY <1>1, TipWithFacts DEF Holds, Unspent
  <2>3. \A x \in Txids : Unspent(TipGets(x))' = Unspent(TipGets(x)') BY DEF Unspent
  <2> QED BY <2>1, <2>2, <2>3 DEF ViewSound
<1>3. TypeOK'
  <2>1. tip' \in [Txids -> Entries] BY TipWithFacts
  <2>2. view' \in [Txids -> Entries] BY DEF Inv, TypeOK
  <2> QED BY <2>1, <2>2 DEF Inv, TypeOK
<1>4. Shape'
  <2>1. \A x \in Txids : ~Holds(tip, x)' => tip'[x] = NoEntry BY TipWithFacts
  <2>2. \A x \in Txids : ~Holds(view, x)' => view'[x] = NoEntry
        BY <1>1 DEF Inv, Shape, Holds
  <2>3. modifying' # NoTx =>
            Holds(view, modifying)' /\ "DIRTY" \in view'[modifying'].flags
        BY <1>1 DEF Inv, TypeOK, Shape, Holds
  <2> QED BY <2>1, <2>2, <2>3 DEF Shape, Holds
<1> QED BY <1>2, <1>3, <1>4, TipWithFacts DEF Inv

LEMMA FetchViewInv == ASSUME Inv, NEW t \in Txids, FetchView(t) PROVE Inv'
<1> USE CoinsAssumption
<1>1. CASE Holds(view, t)
      BY <1>1 DEF FetchView, Inv, TypeOK, Shape, TipSound, ViewSound, Holds, TipGets, Unspent
<1>2. CASE ~Holds(view, t)
  <2>1. TipGets(t) \in Values \cup {Missing}
        BY DEF Inv, TypeOK, TipGets, Entries, Values
  <2>2. /\ Fetched(TipGets(t)) \in Entries
        /\ Fetched(TipGets(t)).coins = Missing => Fetched(TipGets(t)) = NoEntry
        /\ Fetched(TipGets(t)).coins # Missing =>
              /\ Fetched(TipGets(t)).coins = TipGets(t)
              /\ "FRESH" \in Fetched(TipGets(t)).flags <=> TipGets(t) = Pruned
        BY <2>1 DEF Fetched, Entries, NoEntry, Values
  <2> QED BY <1>2, <2>1, <2>2, NewEntry DEF FetchView, Inv, TypeOK, Unspent
<1> QED BY <1>1, <1>2

LEMMA ModifyCoinsInv == ASSUME Inv, NEW t \in Txids, ModifyCoins(t) PROVE Inv'
<1> USE CoinsAssumption
<1>1. CASE Holds(view, t)
  <2>1. /\ view'[t].coins = view[t].coins /\ view'[t].flags = view[t].flags \cup {"DIRTY"}
        /\ view'[t] \in Entries /\ \A x \in Txids \ {t} : view'[x] = view[x]
        /\ UNCHANGED <<disk, diskBest, tip, tipBest, viewBest, open, failed>> /\ modifying' = t
        /\ open /\ view' \in [Txids -> Entries]
    <3>1. view[t] \in Entries /\ view \in [Txids -> Entries] BY DEF Inv, TypeOK
    <3>2. /\ Dirtied(view[t]) \in Entries /\ Dirtied(view[t]).coins = view[t].coins
          /\ Dirtied(view[t]).flags = view[t].flags \cup {"DIRTY"}
          BY <3>1 DEF Entries, Dirtied
    <3>3. view' = [view EXCEPT ![t] = Dirtied(view[t])] BY <1>1 DEF ModifyCoins
    <3>4. view'[t] = Dirtied(view[t]) /\ view' \in [Txids -> Entries]
          BY <3>1, <3>2, <3>3
    <3>5. \A x \in Txids \ {t} : view'[x] = view[x] BY <3>1, <3>3
    <3> QED BY <1>1, <3>2, <3>4, <3>5 DEF ModifyCoins
  <2>2. TypeOK' BY <2>1 DEF Inv, TypeOK
  <2>3. Shape' BY <1>1, <2>1 DEF Inv, Shape, Holds
  <2>4. TipSound' BY <2>1 DEF Inv, TipSound, Holds
  <2>5. ViewSound' BY <1>1, <2>1 DEF Inv, ViewSound, Holds, TipGets, Unspent
  <2> QED BY <2>2, <2>3, <2>4, <2>5 DEF Inv
<1>2. CASE ~Holds(view, t)
  <2>1. TipGets(t) \in Values \cup {Missing}
        BY DEF Inv, TypeOK, TipGets, Entries, Values
  <2>2. /\ Created(TipGets(t)) \in Entries
        /\ Created(TipGets(t)).coins = Unspent(TipGets(t))
        /\ Created(TipGets(t)).coins # Missing
        /\ "DIRTY" \in Created(TipGets(t)).flags
        /\ "FRESH" \in Created(TipGets(t)).flags <=> Unspent(TipGets(t)) = Pruned
        BY <2>1 DEF Created, Unspent, Entries, Values
  <2> QED BY <1>2, <2>2, NewEntry DEF ModifyCoins
<1> QED BY <1>1, <1>2

LEMMA AssignInv == ASSUME Inv, NEW c \in Values, Assign(c) PROVE Inv'
<1> USE CoinsAssumption DEF Values
<1>1. /\ view'[modifying].coins = c /\ view'[modifying].flags = view[modifying].flags
      /\ modifying \in Txids /\ \A x \in Txids \ {modifying} : view'[x] = view[x]
      /\ UNCHANGED <<disk, diskBest, tip, tipBest, viewBest, open, modifying, failed>>
      /\ open /\ view' \in [Txids -> Entries]
      BY DEF Assign, Inv, TypeOK, Entries
<1>2. TypeOK' BY <1>1 DEF Inv, TypeOK
<1>3. Shape' BY <1>1 DEF Inv, Shape, Holds
<1>4. TipSound' BY <1>1 DEF Inv, TipSound, Holds
<1>5. ViewSound' BY <1>1 DEF Inv, Shape, ViewSound, Holds, TipGets, Unspent
<1> QED BY <1>2, <1>3, <1>4, <1>5 DEF Inv

LEMMA ReleaseInv == ASSUME Inv, Release PROVE Inv'
<1> USE CoinsAssumption
<1>1. /\ view'[modifying] \in {NoEntry, view[modifying]}
      /\ modifying \in Txids /\ \A x \in Txids \ {modifying} : view'[x] = view[x]
      /\ UNCHANGED <<disk, diskBest, tip, tipBest, viewBest, open, failed>> /\ modifying' = NoTx
      /\ open
      BY DEF Release, Released, Inv, TypeOK
<1>2. NoEntry \in Entries BY DEF NoEntry, Entries
<1>3. view' \in [Txids -> Entries] BY <1>1, <1>2 DEF Release, Inv, TypeOK
<1>4. TypeOK' BY <1>1, <1>3 DEF Inv, TypeOK
<1>5. NoEntry.coins = Missing BY DEF NoEntry
<1>6. Shape' BY <1>1, <1>5 DEF Inv, Shape, Holds
<1>7. TipSound' BY <1>1 DEF Inv, TipSound, Holds
<1>8. ViewSound' BY <1>1, <1>5 DEF Inv, ViewSound, Holds, TipGets, Unspent
<1> QED BY <1>4, <1>6, <1>7, <1>8 DEF Inv

-----------------------------------------------------------------------------
(* A view is merged into pcoinsTip                                         *)

\* What BatchWrite leaves in pcoinsTip for a transaction.
LEMMA MergedFacts ==
    ASSUME Inv, NEW t \in Txids
    PROVE  LET m == Merged(tip[t], view[t])
               gets == IF m.coins = Missing THEN disk[t] ELSE m.coins
           IN /\ m \in Entries
              /\ m.coins = Missing => m = NoEntry
              /\ m.coins # Missing => /\ "DIRTY" \notin m.flags => m.coins = disk[t]
                                      /\ "FRESH" \in m.flags => disk[t] = Missing
              /\ Unspent(gets) = Unspent(ViewGets(t))
<1> DEFINE m == Merged(tip[t], view[t])
           gets == IF m.coins = Missing THEN disk[t] ELSE m.coins
<1> USE CoinsAssumption
<1>0. /\ tip[t] \in Entries /\ view[t] \in Entries /\ disk[t] \in Coins \cup {Missing}
      /\ NoEntry \in Entries /\ NoEntry.coins = Missing
      BY DEF Inv, TypeOK, NoEntry, Entries
<1>1. CASE view[t].coins = Missing \/ "DIRTY" \notin view[t].flags
  <2>1. m = tip[t] BY <1>1 DEF Merged
  <2>2. ViewGets(t) = TipGets(t) BY <1>1 DEF Inv, ViewSound, ViewGets, Holds
  <2> QED BY <1>0, <2>1, <2>2 DEF Inv, Shape, TipSound, Holds, TipGets
<1>2. CASE view[t].coins # Missing /\ "DIRTY" \in view[t].flags /\ tip[t].coins = Missing
  <2>1. "FRESH" \in view[t].flags /\ disk[t] = Missing
        BY <1>0, <1>2 DEF Inv, ViewSound, Holds, TipGets, Unspent
  <2>2. CASE view[t].coins = Pruned
    <3>1. m = NoEntry BY <1>2, <2>2 DEF Merged
    <3> QED BY <1>0, <1>2, <2>1, <2>2, <3>1 DEF ViewGets, Holds, Unspent
  <2>3. CASE view[t].coins # Pruned
    <3>1. m = [coins |-> view[t].coins, flags |-> {"DIRTY", "FRESH"}]
          BY <1>2, <2>3 DEF Merged
    <3> QED BY <1>0, <1>2, <2>1, <2>3, <3>1 DEF ViewGets, Holds, Entries
  <2> QED BY <2>2, <2>3
<1>3. CASE view[t].coins # Missing /\ "DIRTY" \in view[t].flags /\ tip[t].coins # Missing
  <2>2. CASE "FRESH" \in tip[t].flags /\ view[t].coins = Pruned
    <3>1. m = NoEntry BY <1>3, <2>2 DEF Merged
    <3>2. disk[t] = Missing BY <1>3, <2>2 DEF Inv, TipSound, Holds
    <3> QED BY <1>0, <1>3, <2>2, <3>1, <3>2 DEF ViewGets, Holds, Unspent
  <2>3. CASE ~("FRESH" \in tip[t].flags /\ view[t].coins = Pruned)
    <3>1. m = [coins |-> view[t].coins, flags |-> tip[t].flags \cup {"DIRTY"}]
          BY <1>3, <2>3 DEF Merged
    <3>2. m \in Entries /\ m.coins = view[t].coins /\ m.flags = tip[t].flags \cup {"DIRTY"}
          BY <1>0, <3>1 DEF Entries
    <3> QED BY <1>0, <1>3, <2>3, <3>2 DEF Inv, TipSound, ViewGets, Holds
  <2> QED BY <2>2, <2>3
<1> QED BY <1>1, <1>2, <1>3

LEMMA CommitFacts ==
    ASSUME Inv, NEW h \in Hashes, CommitView(h)
    PROVE  Inv' /\ \A t \in Txids : Unspent(TipGets(t))' = Unspent(ViewGets(t))
<1>1. /\ \A t \in Txids : tip'[t] = Merged(tip[t], view[t])
      /\ tip' \in [Txids -> Entries]
      /\ UNCHANGED <<disk, diskBest, modifying, failed>> /\ view' = Empty /\ viewBest' = NoHash
      /\ open' = FALSE /\ modifying = NoTx /\ tipBest' = h
      BY MergedFacts DEF CommitView, CloseView
<1>2. \A t \in Txids : view'[t] = NoEntry /\ NoEntry.coins = Missing
      BY <1>1 DEF Empty, NoEntry
<1>3. Empty \in [Txids -> Entries] BY DEF Empty, NoEntry, Entries
<1>4. TypeOK' BY <1>1, <1>3 DEF Inv, TypeOK
<1>5. Shape' /\ TipSound' BY <1>1, <1>2, MergedFacts DEF Shape, TipSound, Holds
<1>6. ViewSound' BY <1>2 DEF ViewSound, Holds
<1>7. \A t \in Txids : Unspent(TipGets(t))' = Unspent(ViewGets(t))
      BY <1>1, MergedFacts DEF TipGets, Holds, Unspent
<1> QED BY <1>4, <1>5, <1>6, <1>7 DEF Inv

-----------------------------------------------------------------------------
(* The other steps                                                         *)

LEMMA EmptyFacts ==
    /\ Empty \in [Txids -> Entries]
    /\ \A t \in Txids : Empty[t] = NoEntry /\ Empty[t].coins = Missing
BY DEF Empty, NoEntry, Entries

LEMMA DiscardInv == ASSUME Inv, DiscardView PROVE Inv'
<1>1. /\ UNCHANGED <<disk, diskBest, tip, tipBest, modifying, failed>> /\ view' = Empty
      /\ viewBest' = NoHash /\ open' = FALSE /\ modifying = NoTx
      BY DEF DiscardView, CloseView
<1>2. TypeOK' BY <1>1, EmptyFacts DEF Inv, TypeOK
<1>3. Shape' /\ TipSound' /\ ViewSound'
      BY <1>1, EmptyFacts DEF Inv, Shape, TipSound, ViewSound, Holds
<1> QED BY <1>2, <1>3 DEF Inv

LEMMA FlushFacts ==
    ASSUME Inv, FlushTip
    PROVE  Inv' /\ \A t \in Txids : Unspent(disk[t])' = Unspent(TipGets(t))
<1> USE CoinsAssumption
<1>1. /\ \A t \in Txids : disk'[t] = Written(disk[t], tip[t])
      /\ diskBest' = TipBlock /\ tip' = Empty
      /\ UNCHANGED <<tipBest, view, viewBest, open, modifying, failed>> /\ ~open
      BY DEF FlushTip
<1>2. disk' \in [Txids -> Coins \cup {Missing}]
  <2>1. \A t \in Txids : Written(disk[t], tip[t]) \in Coins \cup {Missing}
        BY DEF Inv, TypeOK, Entries, Values, Written
  <2> QED BY <2>1 DEF FlushTip
<1>3. TypeOK' BY <1>1, <1>2, EmptyFacts DEF Inv, TypeOK, TipBlock
<1>4. Shape' /\ TipSound' /\ ViewSound'
      BY <1>1, EmptyFacts DEF Inv, TypeOK, Shape, TipSound, ViewSound, Holds
<1>5. \A t \in Txids : Unspent(disk[t])' = Unspent(TipGets(t))
  <2>1. \A t \in Txids : Unspent(Written(disk[t], tip[t])) = Unspent(TipGets(t))
        BY DEF Inv, TypeOK, TipSound, Written, Unspent, TipGets, Holds
  <2> QED BY <1>1, <2>1 DEF Unspent
<1> QED BY <1>3, <1>4, <1>5 DEF Inv

LEMMA OtherInv ==
    ASSUME Inv, OpenView \/ GetBestBlock \/ FlushTipFails \/ Crash
    PROVE  Inv'
<1>1. CASE OpenView
      BY <1>1 DEF OpenView, Inv, TypeOK, Shape, TipSound, ViewSound, Holds, TipGets, Unspent
<1>2. CASE GetBestBlock
      BY <1>2 DEF GetBestBlock, Inv, TypeOK, Shape, TipSound, ViewSound, Holds, TipGets,
                  Unspent, ViewBlock, TipBlock
<1>3. CASE FlushTipFails
      BY <1>3, EmptyFacts
      DEF FlushTipFails, Inv, TypeOK, Shape, TipSound, ViewSound, Holds
<1>4. CASE Crash
      BY <1>4, EmptyFacts
      DEF Crash, CloseView, Inv, TypeOK, Shape, TipSound, ViewSound, Holds
<1> QED BY <1>1, <1>2, <1>3, <1>4

LEMMA InvPreserved == ASSUME Inv, [Next]_vars PROVE Inv'
<1>1. CASE UNCHANGED vars
      BY <1>1 DEF vars, Inv, TypeOK, Shape, TipSound, ViewSound, Holds, TipGets, Unspent
<1>2. CASE Next
      BY <1>2, FetchTipInv, FetchViewInv, ModifyCoinsInv, AssignInv, ReleaseInv, CommitFacts,
         DiscardInv, FlushFacts, OtherInv DEF Next
<1> QED BY <1>1, <1>2

LEMMA InvHolds == Spec => []Inv
BY InitCaches, InvPreserved, PTL DEF Spec

\* Type correctness.  It includes that a CCoins that is fully spent, which
\* cannot be serialized, never reaches the database.
THEOREM TypeCorrect == Spec => []TypeOK
<1>1. Inv => TypeOK BY DEF Inv
<1> QED BY <1>1, InvHolds, PTL

\* The assertion in CCoinsViewCache::BatchWrite never fails, not even after a
\* write to the database did.
THEOREM AssertionHolds == Spec => []BatchWriteAssertion
<1>1. Inv => BatchWriteAssertion
      BY CoinsAssumption DEF Inv, Shape, ViewSound, BatchWriteAssertion, Holds, NoEntry
<1> QED BY <1>1, InvHolds, PTL

-----------------------------------------------------------------------------
(* The caches implement the three maps                                     *)

\* What the database and pcoinsTip stand for is the state of their block.
Represents == ~failed => diskMap = After[diskBest] /\ tipMap = After[TipBlock]

\* The maps move as the steps of CoinsView say.
MapsKept ==
    /\ diskMap' = diskMap /\ tipMap' = tipMap /\ viewMap' = viewMap
    /\ diskBest' = diskBest /\ TipBlock' = TipBlock /\ ViewBlock' = ViewBlock

LEMMA FetchKeepsMaps ==
    ASSUME Inv, NEW t \in Txids, FetchTip(t) \/ FetchView(t) \/ ModifyCoins(t)
    PROVE  MapsKept
<1> USE CoinsAssumption
<1>1. UNCHANGED <<disk, diskBest, tipBest, viewBest>>
      BY DEF FetchTip, FetchView, ModifyCoins
<1>2. \A x \in Txids : TipGets(x)' = TipGets(x)
  <2>1. CASE tip' = TipWith(t) BY <1>1, <2>1, TipWithFacts
  <2>2. CASE tip' = tip BY <1>1, <2>2 DEF TipGets, Holds
  <2> QED BY <2>1, <2>2 DEF FetchTip, FetchView, ModifyCoins
<1>3. \A x \in Txids : Unspent(ViewGets(x))' = Unspent(ViewGets(x))
  <2>1. CASE view' = view BY <1>2, <2>1 DEF ViewGets, Holds, Unspent
  <2>2. CASE FetchView(t) /\ ~Holds(view, t)
    <3>1. /\ view'[t] = Fetched(TipGets(t))
          /\ \A x \in Txids \ {t} : view'[x] = view[x]
          BY <2>2 DEF FetchView, Inv, TypeOK
    <3>2. Fetched(TipGets(t)).coins = TipGets(t) BY DEF Fetched, NoEntry
    <3> QED BY <1>2, <2>2, <3>1, <3>2 DEF ViewGets, Holds, Unspent
  <2>3. CASE ModifyCoins(t) /\ ~Holds(view, t)
    <3>1. /\ view'[t] = Created(TipGets(t))
          /\ \A x \in Txids \ {t} : view'[x] = view[x]
          BY <2>3 DEF ModifyCoins, Inv, TypeOK
    <3>2. Created(TipGets(t)).coins = Unspent(TipGets(t)) BY DEF Created
    <3> QED BY <1>2, <2>3, <3>1, <3>2 DEF ViewGets, Holds, Unspent
  <2>4. CASE ModifyCoins(t) /\ Holds(view, t)
    <3>1. /\ view'[t] = Dirtied(view[t])
          /\ \A x \in Txids \ {t} : view'[x] = view[x]
          BY <2>4 DEF ModifyCoins, Inv, TypeOK
    <3>2. view[t] \in Entries BY DEF Inv, TypeOK
    <3>3. view'[t].coins = view[t].coins BY <3>1, <3>2 DEF Entries, Dirtied
    <3> QED BY <1>2, <3>1, <3>3 DEF ViewGets, Holds, Unspent
  <2> QED BY <2>1, <2>2, <2>3, <2>4 DEF FetchTip, FetchView
<1>4. diskMap' = diskMap BY <1>1 DEF diskMap, Unspent
<1>5. tipMap' = tipMap BY <1>2 DEF tipMap, Unspent
<1>6. viewMap' = viewMap BY <1>3 DEF viewMap
<1> QED BY <1>1, <1>4, <1>5, <1>6 DEF MapsKept, TipBlock, ViewBlock

LEMMA ReleaseKeepsMaps == ASSUME Inv, Release \/ OpenView \/ GetBestBlock PROVE MapsKept
<1> USE CoinsAssumption
<1>1. UNCHANGED <<disk, diskBest, tip>> BY DEF Release, OpenView, GetBestBlock
<1>2. diskMap' = diskMap /\ tipMap' = tipMap
      BY <1>1 DEF diskMap, tipMap, Unspent, TipGets, Holds
<1>3. \A x \in Txids : Unspent(ViewGets(x))' = Unspent(ViewGets(x))
  <2>1. CASE Release
    <3>0. PICK m \in Txids : m = modifying BY <2>1 DEF Release, Inv, TypeOK
    <3>1. view'[m] = Released(view[m]) /\ \A x \in Txids \ {m} : view'[x] = view[x]
          BY <2>1, <3>0 DEF Release, Inv, TypeOK
    <3>2. \A x \in Txids : TipGets(x)' = TipGets(x) BY <1>1 DEF TipGets, Holds
    <3>3. Holds(view, m) BY <2>1, <3>0 DEF Release, Inv, Shape
    <3>4. CASE view'[m] = view[m] BY <3>1, <3>2, <3>4 DEF ViewGets, Holds, Unspent
    <3>5. CASE "FRESH" \in view[m].flags /\ view[m].coins = Pruned
      <4>1. view'[m].coins = Missing BY <3>1, <3>5 DEF Released, NoEntry
      <4>2. Unspent(TipGets(m)) = Pruned BY <3>3, <3>5 DEF Inv, ViewSound
      <4>3. Unspent(ViewGets(m)) = Pruned BY <3>3, <3>5 DEF ViewGets, Unspent
      <4>4. Unspent(ViewGets(m))' = Unspent(TipGets(m))
            BY <3>2, <4>1 DEF ViewGets, Holds, Unspent
      <4> QED BY <3>1, <3>2, <4>2, <4>3, <4>4 DEF ViewGets, Holds, Unspent
    <3> QED BY <3>1, <3>4, <3>5 DEF Released
  <2>2. CASE view' = view BY <1>1, <2>2 DEF ViewGets, TipGets, Holds, Unspent
  <2> QED BY <2>1, <2>2 DEF OpenView, GetBestBlock
<1>4. viewMap' = viewMap BY <1>3 DEF viewMap
<1>5. diskBest' = diskBest /\ TipBlock' = TipBlock /\ ViewBlock' = ViewBlock
      BY AfterAssumption DEF Inv, TypeOK, Release, OpenView, GetBestBlock, TipBlock, ViewBlock
<1> QED BY <1>2, <1>4, <1>5 DEF MapsKept

LEMMA AssignMaps ==
    ASSUME Inv, NEW c \in Values, Assign(c)
    PROVE  /\ diskMap' = diskMap /\ tipMap' = tipMap
           /\ viewMap' = [viewMap EXCEPT ![modifying] = c]
           /\ diskBest' = diskBest /\ TipBlock' = TipBlock /\ ViewBlock' = ViewBlock
<1> USE CoinsAssumption DEF Values
<1>1. /\ view'[modifying].coins = c /\ modifying \in Txids
      /\ \A x \in Txids \ {modifying} : view'[x] = view[x]
      /\ UNCHANGED <<disk, diskBest, tip, tipBest, viewBest>>
      BY DEF Assign, Inv, TypeOK, Entries
<1>2. diskMap' = diskMap /\ tipMap' = tipMap
      BY <1>1 DEF diskMap, tipMap, Unspent, TipGets, Holds
<1>3. \A x \in Txids : Unspent(ViewGets(x))' = IF x = modifying THEN c ELSE Unspent(ViewGets(x))
      BY <1>1 DEF ViewGets, TipGets, Holds, Unspent
<1> QED BY <1>1, <1>2, <1>3 DEF viewMap, TipBlock, ViewBlock

\* Without a view, the view stands for what pcoinsTip stands for.
LEMMA ClosedMaps == ASSUME Inv, ~open PROVE viewMap = tipMap /\ ViewBlock = TipBlock
BY EmptyFacts DEF Inv, TypeOK, viewMap, tipMap, ViewGets, Holds, ViewBlock

LEMMA CommitMaps ==
    ASSUME Inv, NEW h \in Hashes, CommitView(h)
    PROVE  /\ diskMap' = diskMap /\ diskBest' = diskBest
           /\ viewMap = After[h] /\ tipMap' = After[h] /\ viewMap' = After[h]
           /\ TipBlock' = h /\ ViewBlock' = h
<1>1. diskMap' = diskMap /\ diskBest' = diskBest
      BY DEF CommitView, diskMap, Unspent
<1>2. viewMap = After[h] BY AfterAssumption DEF CommitView, viewMap
<1>3. tipMap' = viewMap BY CommitFacts DEF tipMap, viewMap
<1>4. view' = Empty /\ viewBest' = NoHash BY DEF CommitView, CloseView
<1>5. viewMap' = tipMap' /\ ViewBlock' = TipBlock'
      BY <1>4, EmptyFacts DEF viewMap, tipMap, ViewGets, Holds, ViewBlock
<1>6. TipBlock' = h BY AfterAssumption DEF CommitView, TipBlock
<1> QED BY <1>1, <1>2, <1>3, <1>5, <1>6

LEMMA DiscardMaps ==
    ASSUME Inv, DiscardView
    PROVE  /\ diskMap' = diskMap /\ diskBest' = diskBest
           /\ tipMap' = tipMap /\ TipBlock' = TipBlock
           /\ viewMap' = tipMap /\ ViewBlock' = TipBlock
<1>1. /\ UNCHANGED <<disk, diskBest, tip, tipBest>> /\ view' = Empty /\ viewBest' = NoHash
      BY DEF DiscardView, CloseView
<1>2. diskMap' = diskMap /\ tipMap' = tipMap
      BY <1>1 DEF diskMap, tipMap, Unspent, TipGets, Holds
<1>3. viewMap' = tipMap'
      BY <1>1, EmptyFacts DEF viewMap, tipMap, ViewGets, Holds
<1> QED BY <1>1, <1>2, <1>3 DEF TipBlock, ViewBlock

LEMMA FlushMaps ==
    ASSUME Inv, FlushTip
    PROVE  /\ diskMap' = tipMap /\ diskBest' = TipBlock
           /\ tipMap' = tipMap /\ TipBlock' = TipBlock
           /\ viewMap' = viewMap /\ ViewBlock' = ViewBlock
<1>1. /\ tip' = Empty /\ view' = view /\ view = Empty /\ diskBest' = TipBlock
      /\ tipBest' = tipBest /\ viewBest' = viewBest
      BY DEF FlushTip, Inv, TypeOK
<1>2. diskMap' = tipMap BY FlushFacts DEF diskMap, tipMap
<1>3. tipMap' = diskMap' BY <1>1, EmptyFacts DEF diskMap, tipMap, TipGets, Holds
<1>4. viewMap' = tipMap' BY <1>1, EmptyFacts DEF viewMap, tipMap, ViewGets, Holds
<1>5. viewMap = tipMap BY <1>1, EmptyFacts DEF viewMap, tipMap, ViewGets, Holds
<1> QED BY <1>1, <1>2, <1>3, <1>4, <1>5 DEF TipBlock, ViewBlock

\* A write that fails: pcoinsTip keeps its block and loses its coins.
LEMMA FailMaps ==
    ASSUME Inv, FlushTipFails
    PROVE  /\ diskMap' = diskMap /\ diskBest' = diskBest
           /\ tipMap' = diskMap /\ TipBlock' = TipBlock
           /\ viewMap' = diskMap /\ ViewBlock' = TipBlock
           /\ viewMap = tipMap /\ ViewBlock = TipBlock
<1>1. /\ tip' = Empty /\ view' = view /\ view = Empty /\ UNCHANGED <<disk, diskBest>>
      /\ UNCHANGED <<tipBest, viewBest>> /\ viewBest = NoHash
      BY DEF FlushTipFails, Inv, TypeOK
<1>2. diskMap' = diskMap BY <1>1 DEF diskMap, Unspent
<1>3. tipMap' = diskMap' BY <1>1, EmptyFacts DEF diskMap, tipMap, TipGets, Holds
<1>4. viewMap' = tipMap' BY <1>1, EmptyFacts DEF viewMap, tipMap, ViewGets, Holds
<1>5. viewMap = tipMap BY <1>1, EmptyFacts DEF viewMap, tipMap, ViewGets, Holds
<1> QED BY <1>1, <1>2, <1>3, <1>4, <1>5 DEF TipBlock, ViewBlock

LEMMA CrashMaps ==
    ASSUME Inv, Crash
    PROVE  /\ diskMap' = diskMap /\ diskBest' = diskBest
           /\ tipMap' = diskMap /\ TipBlock' = diskBest
           /\ viewMap' = diskMap /\ ViewBlock' = diskBest
<1>1. /\ tip' = Empty /\ view' = Empty /\ UNCHANGED <<disk, diskBest>>
      /\ tipBest' = NoHash /\ viewBest' = NoHash
      BY DEF Crash, CloseView
<1>2. diskMap' = diskMap BY <1>1 DEF diskMap, Unspent
<1>3. tipMap' = diskMap' BY <1>1, EmptyFacts DEF diskMap, tipMap, TipGets, Holds
<1>4. viewMap' = tipMap' BY <1>1, EmptyFacts DEF viewMap, tipMap, ViewGets, Holds
<1> QED BY <1>1, <1>2, <1>3, <1>4 DEF TipBlock, ViewBlock

-----------------------------------------------------------------------------
(* The theorems                                                            *)

\* Until a write fails, the database and pcoinsTip are the state of their block.
LEMMA RepresentsPreserved ==
    ASSUME Inv, Represents, [Next]_vars
    PROVE  Represents'
<1>0. failed' \in {failed, TRUE}
      BY DEF vars, Next, FetchTip, FetchView, ModifyCoins, Assign, CommitView, GetBestBlock,
         OpenView, Release, DiscardView, FlushTip, FlushTipFails, Crash
<1>1. CASE UNCHANGED vars
      BY <1>0, <1>1 DEF vars, Represents, diskMap, tipMap, TipBlock, TipGets, Holds, Unspent
<1>2. CASE Next
  <2>1. CASE \E t \in Txids : FetchTip(t) \/ FetchView(t) \/ ModifyCoins(t)
        BY <1>0, <2>1, FetchKeepsMaps DEF MapsKept, Represents
  <2>2. CASE Release \/ OpenView \/ GetBestBlock
        BY <1>0, <2>2, ReleaseKeepsMaps DEF MapsKept, Represents
  <2>3. CASE \E c \in Values : Assign(c) BY <1>0, <2>3, AssignMaps DEF Represents
  <2>4. CASE \E h \in Hashes : CommitView(h) BY <1>0, <2>4, CommitMaps DEF Represents
  <2>5. CASE DiscardView BY <1>0, <2>5, DiscardMaps DEF Represents
  <2>6. CASE FlushTip BY <1>0, <2>6, FlushMaps DEF Represents
  <2>7. CASE Crash BY <1>0, <2>7, CrashMaps DEF Represents
  <2>8. CASE FlushTipFails BY <2>8 DEF FlushTipFails, Represents
  <2> QED BY <1>2, <2>1, <2>2, <2>3, <2>4, <2>5, <2>6, <2>7, <2>8 DEF Next
<1> QED BY <1>1, <1>2

LEMMA InitRepresents == Init => Represents
<1> SUFFICES ASSUME Init PROVE Represents OBVIOUS
<1> USE CoinsAssumption, AfterAssumption
<1>1. ASSUME NEW t \in Txids PROVE Unspent(disk[t]) = After[diskBest][t]
  <2>1. After[diskBest][t] \in Coins \cup {Pruned} BY DEF Init
  <2>2. disk[t] = IF After[diskBest][t] = Pruned THEN Missing ELSE After[diskBest][t]
        BY DEF Init
  <2> QED BY <2>1, <2>2 DEF Unspent
<1>2. diskMap = After[diskBest] BY <1>1 DEF diskMap, Init
<1>3. tipMap = diskMap BY EmptyFacts DEF Init, diskMap, tipMap, TipGets, Holds
<1> QED BY <1>2, <1>3 DEF Represents, Init, TipBlock

\* Until a write fails, the coin database always holds the coins of the
\* block it names as its best, whatever was cached, forgotten, committed or
\* lost in a crash on the way.
THEOREM DiskCorrect == Spec => []DiskRepresentsItsBlock
<1>1. Inv /\ Represents => DiskRepresentsItsBlock
      BY DEF Represents, diskMap, DiskRepresentsItsBlock
<1>2. Inv /\ Represents /\ [Next]_vars => Represents' BY RepresentsPreserved
<1> QED BY <1>1, <1>2, InitRepresents, InvHolds, PTL DEF Spec

\* The caches implement the three maps of module CoinsView: their flags never
\* make Flush drop a change, write a stale value or show one that is not there.
THEOREM CachesImplementViews == Spec => Implements
<1>1. Init => View!Init
  <2> SUFFICES ASSUME Init PROVE View!Init OBVIOUS
  <2>1. diskMap = After[diskBest] /\ tipMap = After[diskBest] /\ TipBlock = diskBest
        /\ diskBest \in Hashes
        BY InitRepresents DEF Represents, Init, TipBlock
  <2>2. viewMap = tipMap /\ ViewBlock = diskBest
        BY <2>1, EmptyFacts DEF Init, viewMap, tipMap, ViewGets, Holds, ViewBlock
  <2>3. modifying = NoTx BY DEF Init
  <2> QED BY <2>1, <2>2, <2>3 DEF View!Init, View!State, DiskState, TipState, ViewState
<1>2. ASSUME Inv, [Next]_vars
      PROVE  View!Next \/ UNCHANGED <<DiskState, TipState, ViewState, modifying>>
  <2>0. MapsKept => UNCHANGED <<DiskState, TipState, ViewState>>
        BY DEF MapsKept, DiskState, TipState, ViewState
  <2>1. CASE UNCHANGED vars
        BY <1>2, <2>1 DEF vars, DiskState, TipState, ViewState, diskMap, tipMap, viewMap,
           TipBlock, ViewBlock, TipGets, ViewGets, Holds, Unspent
  <2>2. CASE \E t \in Txids : FetchTip(t) \/ FetchView(t)
        BY <1>2, <2>0, <2>2, FetchKeepsMaps DEF FetchTip, FetchView
  <2>3. ASSUME NEW t \in Txids, ModifyCoins(t) PROVE View!Modify(t)
        BY <1>2, <2>0, <2>3, FetchKeepsMaps DEF ModifyCoins, View!Modify
  <2>4. CASE OpenView \/ GetBestBlock
        BY <1>2, <2>0, <2>4, ReleaseKeepsMaps DEF OpenView, GetBestBlock
  <2>5. CASE Release
        BY <1>2, <2>0, <2>5, ReleaseKeepsMaps DEF Release, View!Release, View!Next
  <2>6. ASSUME NEW c \in Values, Assign(c) PROVE View!Write(c)
    <3>1. /\ DiskState' = DiskState /\ TipState' = TipState
          /\ ViewState.coins = viewMap /\ ViewState.best = ViewBlock
          /\ ViewState' = [coins |-> [viewMap EXCEPT ![modifying] = c], best |-> ViewBlock]
          BY <1>2, <2>6, AssignMaps DEF DiskState, TipState, ViewState
    <3>2. ViewState' = [ViewState EXCEPT !.coins = [viewMap EXCEPT ![modifying] = c]]
          BY <3>1 DEF ViewState
    <3> QED BY <2>6, <3>1, <3>2 DEF Assign, View!Write
  <2>7. ASSUME NEW h \in Hashes, CommitView(h) PROVE View!Commit(h)
        BY <1>2, <2>7, CommitMaps
        DEF CommitView, View!Commit, View!State, DiskState, TipState, ViewState
  <2>8. CASE DiscardView
        BY <1>2, <2>8, DiscardMaps
        DEF DiscardView, View!Next, View!Discard, DiskState, TipState, ViewState
  <2>9. CASE FlushTip
        BY <1>2, <2>9, FlushMaps DEF FlushTip, View!Next, View!Flush, DiskState, TipState, ViewState
  <2>10. CASE Crash
        BY <1>2, <2>10, CrashMaps DEF Crash, View!Next, View!Crash, DiskState, TipState, ViewState
  <2>11. CASE FlushTipFails
        BY <1>2, <2>11, FailMaps
        DEF FlushTipFails, View!Next, View!WriteFails, DiskState, TipState, ViewState
  <2> QED BY <1>2, <2>1, <2>2, <2>3, <2>4, <2>5, <2>6, <2>7, <2>8, <2>9, <2>10, <2>11
      DEF Next, View!Next, Values
<1> QED BY <1>1, <1>2, InvHolds, PTL DEF Spec, Implements, View!Spec

-----------------------------------------------------------------------------
(* Undo data                                                               *)

Coin == [outs : SUBSET Nat, base : BOOLEAN, stake : BOOLEAN, height : Nat, version : Nat]
Views == [Txs -> Coin]
UndoRecords == [n : Nat, base : BOOLEAN, stake : BOOLEAN, height : Nat, version : Nat]
Alike(w, x) == \A t \in Txs : Same(w[t], x[t])

\* What is true of the coins of t in any view the chain leads to.
SoundCoin(t, c) ==
    \/ IsPruned(c)
    \/ /\ c.height >= 1 /\ c.version = 1
       /\ c.stake => Kept(t) # {} /\ Kept(t) \subseteq c.outs
SoundView(w) == w \in Views /\ \A t \in Txs : SoundCoin(t, w[t])

LEMMA NoCoinsFacts == NoCoins \in Coin /\ IsPruned(NoCoins)
BY DEF NoCoins, Coin, IsPruned

LEMMA FromTxFacts ==
    ASSUME NEW t \in Txs, NEW h \in Nat
    PROVE  FromTx(t, h) \in Coin
<1>1. {n \in Vout[t] : <<t, n>> \notin Unspendable} \in SUBSET Nat BY TxsAssumption
<1> QED BY <1>1 DEF FromTx, Coin

LEMMA InputFacts ==
    ASSUME NEW t \in Txs
    PROVE  /\ Len(Vin[t]) \in Nat /\ DOMAIN Vin[t] = 1..Len(Vin[t])
           /\ \A i \in 1..Len(Vin[t]) : /\ Vin[t][i] \in Txs \X Nat
                                        /\ Vin[t][i][1] \in Txs /\ Vin[t][i][2] \in Nat
                                        /\ Vin[t][i] = <<Vin[t][i][1], Vin[t][i][2]>>
           /\ \A i, j \in 1..Len(Vin[t]) : Vin[t][i] = Vin[t][j] => i = j
<1>1. Vin[t] \in Seq(Txs \X Nat) /\ IsInjective(Vin[t]) BY TxsAssumption
<1>2. Len(Vin[t]) \in Nat /\ DOMAIN Vin[t] = 1..Len(Vin[t])
      /\ \A i \in 1..Len(Vin[t]) : Vin[t][i] \in Txs \X Nat
      BY <1>1, LenProperties, ElementOfSeq
<1>3. \A i \in 1..Len(Vin[t]) : /\ Vin[t][i][1] \in Txs /\ Vin[t][i][2] \in Nat
                                /\ Vin[t][i] = <<Vin[t][i][1], Vin[t][i][2]>>
      BY <1>2
<1>4. \A i, j \in 1..Len(Vin[t]) : Vin[t][i] = Vin[t][j] => i = j
      BY <1>1, <1>2 DEF IsInjective
<1> QED BY <1>2, <1>3, <1>4

LEMMA SameEquivalence ==
    ASSUME NEW c, NEW d
    PROVE  /\ Same(c, c)
           /\ Same(c, d) => Same(d, c)
           /\ \A e : Same(c, d) /\ Same(d, e) => Same(c, e)
           /\ Same(c, d) => (IsPruned(c) <=> IsPruned(d))
           /\ Same(c, d) /\ ~IsPruned(c) => c = d
BY DEF Same, IsPruned

\* Height and flags share a number, from which both can be told again.
LEMMA StoredFacts ==
    ASSUME NEW u \in UndoRecords,
           u.height >= 1 \/ u = NoMetaUndo(u.n)
    PROVE  Stored(u) = u
<1>1. PICK h \in Nat, x \in 0..1, y \in 0..1 :
          /\ h = u.height
          /\ x = (IF u.base THEN 1 ELSE 0) /\ y = (IF u.stake THEN 1 ELSE 0)
      BY DEF UndoRecords
<1>2. PICK code \in Nat : code = h * 4 + 2 * x + y
      <2>1. h * 4 + 2 * x + y \in Nat OBVIOUS
      <2> QED BY <2>1
<1>3. u.height * 4 + (IF u.base THEN 2 ELSE 0) + (IF u.stake THEN 1 ELSE 0) = code
      BY <1>1, <1>2
<1>4. code \div 4 = h BY <1>1, <1>2
<1>5. (code \div 2) % 2 = x BY <1>1, <1>2
<1>6. code % 2 = y BY <1>1, <1>2
<1>7. u = [n |-> u.n, base |-> u.base, stake |-> u.stake, height |-> u.height,
           version |-> u.version] /\ u.base \in BOOLEAN /\ u.stake \in BOOLEAN
      BY DEF UndoRecords
<1>8. Stored(u) = [n |-> u.n, base |-> (code \div 2) % 2 = 1, stake |-> code % 2 = 1,
                   height |-> code \div 4,
                   version |-> IF code \div 4 > 0 THEN u.version ELSE 0]
      BY <1>3 DEF Stored
<1>9. (x = 1) = u.base /\ (y = 1) = u.stake BY <1>1, <1>7
<1>10. (IF h > 0 THEN u.version ELSE 0) = u.version
      <2>1. CASE u.height >= 1 BY <1>1, <2>1
      <2>2. CASE u = NoMetaUndo(u.n)
          <3>1. u.version = 0 BY <2>2 DEF NoMetaUndo
          <3> QED BY <3>1
      <2> QED BY <2>1, <2>2
<1> QED BY <1>1, <1>4, <1>5, <1>6, <1>7, <1>8, <1>9, <1>10

\* The view once the first j inputs of t are spent.
Outs(w, t, j, u) == {n \in w[u].outs : \A i \in 1..j : Vin[t][i] # <<u, n>>}
SpentFrom(w, t, j) == [u \in Txs |-> [w[u] EXCEPT !.outs = Outs(w, t, j, u)]]
UndoOf(w, t, i) == Spend(SpentFrom(w, t, i - 1)[Vin[t][i][1]], Vin[t][i][2]).undo
SpentUpTo(w, t, j) == [view |-> SpentFrom(w, t, j), undo |-> [i \in 1..j |-> UndoOf(w, t, i)]]

LEMMA CoinShape ==
    ASSUME NEW c \in Coin, NEW o \in SUBSET Nat
    PROVE  /\ [c EXCEPT !.outs = o] \in Coin
           /\ [c EXCEPT !.outs = o] = [outs |-> o, base |-> c.base, stake |-> c.stake,
                                       height |-> c.height, version |-> c.version]
           /\ c = [outs |-> c.outs, base |-> c.base, stake |-> c.stake,
                   height |-> c.height, version |-> c.version]
BY DEF Coin

LEMMA SpentFromFacts ==
    ASSUME NEW t \in Txs, NEW w \in Views, NEW j \in 0..Len(Vin[t])
    PROVE  /\ SpentFrom(w, t, j) \in Views
           /\ \A u \in Txs : SpentFrom(w, t, j)[u] =
                  [outs |-> Outs(w, t, j, u), base |-> w[u].base, stake |-> w[u].stake,
                   height |-> w[u].height, version |-> w[u].version]
<1>1. \A u \in Txs : w[u] \in Coin /\ Outs(w, t, j, u) \in SUBSET Nat
    <2>1. \A u \in Txs : w[u] \in Coin /\ w[u].outs \in SUBSET Nat BY DEF Views, Coin
    <2> QED BY <2>1 DEF Outs
<1>2. \A u \in Txs : /\ SpentFrom(w, t, j)[u] \in Coin
                     /\ SpentFrom(w, t, j)[u] =
                         [outs |-> Outs(w, t, j, u), base |-> w[u].base, stake |-> w[u].stake,
                          height |-> w[u].height, version |-> w[u].version]
    <2> SUFFICES ASSUME NEW u \in Txs
                 PROVE  /\ SpentFrom(w, t, j)[u] \in Coin
                        /\ SpentFrom(w, t, j)[u] =
                         [outs |-> Outs(w, t, j, u), base |-> w[u].base, stake |-> w[u].stake,
                          height |-> w[u].height, version |-> w[u].version]
        OBVIOUS
    <2>1. SpentFrom(w, t, j)[u] = [w[u] EXCEPT !.outs = Outs(w, t, j, u)] BY DEF SpentFrom
    <2> QED BY <1>1, <2>1, CoinShape
<1>3. SpentFrom(w, t, j) = [u \in Txs |-> SpentFrom(w, t, j)[u]] BY DEF SpentFrom
<1> QED BY <1>2, <1>3 DEF Views

LEMMA SpentFromNone ==
    ASSUME NEW t \in Txs, NEW w \in Views
    PROVE  SpentFrom(w, t, 0) = w
<1>1. \A u \in Txs : w[u] \in Coin BY DEF Views
<1>2. \A u \in Txs : Outs(w, t, 0, u) = w[u].outs BY DEF Outs
<1>3. \A u \in Txs : SpentFrom(w, t, 0)[u] = w[u]
    <2> SUFFICES ASSUME NEW u \in Txs PROVE SpentFrom(w, t, 0)[u] = w[u] OBVIOUS
    <2>1. SpentFrom(w, t, 0)[u] = [w[u] EXCEPT !.outs = w[u].outs] BY <1>2 DEF SpentFrom
    <2>2. w[u].outs \in SUBSET Nat BY <1>1 DEF Coin
    <2> QED BY <1>1, <2>1, <2>2, CoinShape
<1>4. SpentFrom(w, t, 0) = [u \in Txs |-> SpentFrom(w, t, 0)[u]] BY DEF SpentFrom
<1>5. w = [u \in Txs |-> w[u]] BY DEF Views
<1> QED BY <1>3, <1>4, <1>5

LEMMA SpendFacts ==
    ASSUME NEW c \in Coin, NEW n \in Nat
    PROVE  /\ Spend(c, n).coins = [outs |-> c.outs \ {n}, base |-> c.base, stake |-> c.stake,
                                   height |-> c.height, version |-> c.version]
           /\ Spend(c, n).coins \in Coin
           /\ Spend(c, n).undo = IF c.outs = {n} THEN SpendUndo(c, n) ELSE NoMetaUndo(n)
           /\ Spend(c, n).undo \in UndoRecords
<1>1. c.outs \in SUBSET Nat /\ c.outs \ {n} \in SUBSET Nat BY DEF Coin
<1>2. Spend(c, n).coins = [c EXCEPT !.outs = c.outs \ {n}] BY DEF Spend
<1>3. Spend(c, n).undo = IF c.outs = {n} THEN SpendUndo(c, n) ELSE NoMetaUndo(n) BY DEF Spend
<1>4. SpendUndo(c, n) \in UndoRecords BY DEF SpendUndo, UndoRecords, Coin
<1>5. NoMetaUndo(n) \in UndoRecords BY DEF NoMetaUndo, UndoRecords
<1>6. PICK d : d = [c EXCEPT !.outs = c.outs \ {n}] OBVIOUS
<1>7. d \in Coin /\ d = [outs |-> c.outs \ {n}, base |-> c.base, stake |-> c.stake,
                         height |-> c.height, version |-> c.version]
      BY <1>1, <1>6, CoinShape
<1>8. Spend(c, n).undo \in UndoRecords BY <1>3, <1>4, <1>5
<1> QED BY <1>2, <1>3, <1>6, <1>7, <1>8

LEMMA SpentFromStep ==
    ASSUME NEW t \in Txs, NEW w \in Views, NEW j \in 1..Len(Vin[t]),
           NEW v, v = SpentFrom(w, t, j - 1), NEW o, o = Vin[t][j]
    PROVE  SpentFrom(w, t, j) = [v EXCEPT ![o[1]] = Spend(v[o[1]], o[2]).coins]
<1>0. Len(Vin[t]) \in Nat BY InputFacts
<1>1. o[1] \in Txs /\ o[2] \in Nat /\ o = <<o[1], o[2]>> BY InputFacts
<1>2. j - 1 \in 0..Len(Vin[t]) /\ j \in 0..Len(Vin[t]) BY <1>0
<1>3. v \in Views /\ v[o[1]] \in Coin BY <1>1, <1>2, SpentFromFacts DEF Views
<1>4. \A u \in Txs : Outs(w, t, j, u) = IF u = o[1] THEN Outs(w, t, j - 1, u) \ {o[2]}
                                        ELSE Outs(w, t, j - 1, u)
    <2> SUFFICES ASSUME NEW u \in Txs
                 PROVE  Outs(w, t, j, u) = IF u = o[1] THEN Outs(w, t, j - 1, u) \ {o[2]}
                                           ELSE Outs(w, t, j - 1, u)
        OBVIOUS
    <2>1. 1..j = (1..(j - 1)) \cup {j} BY <1>0
    <2>2. \A n : Vin[t][j] # <<u, n>> <=> ~(u = o[1] /\ n = o[2]) BY <1>1
    <2>3. \A n : n \in Outs(w, t, j, u) <=> n \in Outs(w, t, j - 1, u) /\ Vin[t][j] # <<u, n>>
          BY <2>1 DEF Outs
    <2> QED BY <2>2, <2>3
<1>5. PICK x : x = [v EXCEPT ![o[1]] = Spend(v[o[1]], o[2]).coins] OBVIOUS
<1>6. \A u \in Txs : SpentFrom(w, t, j)[u] = x[u]
    <2> SUFFICES ASSUME NEW u \in Txs PROVE SpentFrom(w, t, j)[u] = x[u] OBVIOUS
    <2>1. v[u] = [outs |-> Outs(w, t, j - 1, u), base |-> w[u].base, stake |-> w[u].stake,
                  height |-> w[u].height, version |-> w[u].version]
          BY <1>2, SpentFromFacts
    <2>2. SpentFrom(w, t, j)[u] =
              [outs |-> Outs(w, t, j, u), base |-> w[u].base, stake |-> w[u].stake,
               height |-> w[u].height, version |-> w[u].version]
          BY <1>2, SpentFromFacts
    <2>3. CASE u = o[1]
        <3>1. x[u] = Spend(v[u], o[2]).coins BY <1>3, <1>5, <2>3 DEF Views
        <3>2. v[u] \in Coin BY <1>3, <2>3
        <3>3. x[u] = [outs |-> v[u].outs \ {o[2]}, base |-> v[u].base, stake |-> v[u].stake,
                      height |-> v[u].height, version |-> v[u].version]
              BY <1>1, <3>1, <3>2, SpendFacts
        <3>4. Outs(w, t, j, u) = Outs(w, t, j - 1, u) \ {o[2]} BY <1>4, <2>3
        <3> QED BY <2>1, <2>2, <3>3, <3>4
    <2>4. CASE u # o[1]
        <3>1. x[u] = v[u] BY <1>3, <1>5, <2>4 DEF Views
        <3>2. Outs(w, t, j, u) = Outs(w, t, j - 1, u) BY <1>4, <2>4
        <3> QED BY <2>1, <2>2, <3>1, <3>2
    <2> QED BY <2>3, <2>4
<1>7. SpentFrom(w, t, j) = [u \in Txs |-> SpentFrom(w, t, j)[u]] BY DEF SpentFrom
<1>8. x = [u \in Txs |-> x[u]] BY <1>3, <1>5 DEF Views
<1> QED BY <1>5, <1>6, <1>7, <1>8

\* UpdateCoins spends the inputs of a transaction one after the other.
LEMMA SpendingsAre ==
    ASSUME NEW t \in Txs, NEW w \in Views
    PROVE  Spendings(w, Vin[t])[Len(Vin[t])] = SpentUpTo(w, t, Len(Vin[t]))
<1>1. PICK n \in Nat : n = Len(Vin[t]) BY InputFacts
<1>2. SpentUpTo(w, t, 0) = [view |-> w, undo |-> <<>>]
    <2>1. [i \in 1..0 |-> UndoOf(w, t, i)] = <<>> BY EmptySeq
    <2> QED BY <2>1, SpentFromNone DEF SpentUpTo
<1>3. \A j \in 1..n : SpentUpTo(w, t, j) = SpendInput(SpentUpTo(w, t, j - 1), Vin[t][j])
    <2> SUFFICES ASSUME NEW j \in 1..n
                 PROVE  SpentUpTo(w, t, j) = SpendInput(SpentUpTo(w, t, j - 1), Vin[t][j])
        OBVIOUS
    <2>1. PICK v : v = SpentFrom(w, t, j - 1) OBVIOUS
    <2>2. PICK o : o = Vin[t][j] OBVIOUS
    <2>3. PICK s : s = [i \in 1..(j - 1) |-> UndoOf(w, t, i)] OBVIOUS
    <2>4. \A i \in 1..n : UndoOf(w, t, i) \in UndoRecords
        <3> SUFFICES ASSUME NEW i \in 1..n PROVE UndoOf(w, t, i) \in UndoRecords OBVIOUS
        <3>1. i - 1 \in 0..Len(Vin[t]) /\ i \in 1..Len(Vin[t]) BY <1>1
        <3>2. SpentFrom(w, t, i - 1) \in Views BY <3>1, SpentFromFacts
        <3>3. Vin[t][i][1] \in Txs /\ Vin[t][i][2] \in Nat BY <3>1, InputFacts
        <3>4. SpentFrom(w, t, i - 1)[Vin[t][i][1]] \in Coin BY <3>2, <3>3 DEF Views
        <3> QED BY <3>3, <3>4, SpendFacts DEF UndoOf
    <2>5. s \in Seq(UndoRecords) /\ Len(s) = j - 1
        <3>1. j - 1 \in Nat /\ \A i \in 1..(j - 1) : i \in 1..n BY <1>1
        <3> QED BY <2>3, <2>4, <3>1, IsASeq
    <2>6. Append(s, UndoOf(w, t, j)) = [i \in 1..j |-> UndoOf(w, t, i)]
        <3>1. PICK a : a = Append(s, UndoOf(w, t, j)) OBVIOUS
        <3>2. a \in Seq(UndoRecords) /\ Len(a) = j
              BY <2>4, <2>5, <3>1, AppendProperties
        <3>3. \A i \in 1..j : a[i] = UndoOf(w, t, i)
            <4> SUFFICES ASSUME NEW i \in 1..j PROVE a[i] = UndoOf(w, t, i) OBVIOUS
            <4>1. CASE i = j BY <2>4, <2>5, <3>1, <4>1, AppendProperties
            <4>2. CASE i # j
                <5>1. i \in 1..(j - 1) BY <4>2
                <5>2. a[i] = s[i] BY <2>4, <2>5, <3>1, <5>1, AppendProperties
                <5> QED BY <2>3, <5>1, <5>2
            <4> QED BY <4>1, <4>2
        <3>4. a = [i \in 1..j |-> a[i]] BY <3>2, LenProperties
        <3> QED BY <3>1, <3>3, <3>4
    <2>7. UndoOf(w, t, j) = Spend(v[o[1]], o[2]).undo BY <2>1, <2>2 DEF UndoOf
    <2>8. j \in 1..Len(Vin[t]) BY <1>1
    <2>9. SpentFrom(w, t, j) = [v EXCEPT ![o[1]] = Spend(v[o[1]], o[2]).coins]
          BY <2>1, <2>2, <2>8, SpentFromStep
    <2>10. SpentUpTo(w, t, j - 1) = [view |-> v, undo |-> s] BY <2>1, <2>3 DEF SpentUpTo
    <2>11. SpendInput([view |-> v, undo |-> s], o) =
               [view |-> [v EXCEPT ![o[1]] = Spend(v[o[1]], o[2]).coins],
                undo |-> Append(s, Spend(v[o[1]], o[2]).undo)]
           BY DEF SpendInput
    <2>12. SpentUpTo(w, t, j) = [view |-> SpentFrom(w, t, j), undo |-> [i \in 1..j |-> UndoOf(w, t, i)]]
           BY DEF SpentUpTo
    <2> QED BY <2>2, <2>6, <2>7, <2>9, <2>10, <2>11, <2>12
<1>4. PICK f : f = [j \in 0..n |-> SpentUpTo(w, t, j)] OBVIOUS
<1>5. f[0] = [view |-> w, undo |-> <<>>]
      /\ \A j \in 1..n : f[j] = SpendInput(f[j - 1], Vin[t][j])
      BY <1>2, <1>3, <1>4
<1>6. f = [j \in 0..n |-> IF j = 0 THEN [view |-> w, undo |-> <<>>]
                          ELSE SpendInput(f[j - 1], Vin[t][j])]
    <2> DEFINE F(j) == IF j = 0 THEN [view |-> w, undo |-> <<>>]
                       ELSE SpendInput(f[j - 1], Vin[t][j])
    <2>1. ASSUME NEW j \in 0..n PROVE f[j] = F(j)
        <3>1. j = 0 \/ j \in 1..n BY <1>1
        <3> QED BY <1>5, <3>1
    <2>2. f = [j \in 0..n |-> f[j]] BY <1>4
    <2> HIDE DEF F
    <2>3. f = [j \in 0..n |-> F(j)] BY <2>1, <2>2
    <2> QED BY <2>3 DEF F
<1>7. PICK h : h = Spendings(w, Vin[t]) OBVIOUS
<1>8. h = [j \in 0..n |-> IF j = 0 THEN [view |-> w, undo |-> <<>>]
                          ELSE SpendInput(h[j - 1], Vin[t][j])]
      BY <1>1, <1>6, <1>7 DEF Spendings
<1>9. h[0] = f[0] /\ \A j \in 1..n : h[j] = SpendInput(h[j - 1], Vin[t][j])
    <2>1. 0 \in 0..n /\ \A j \in 1..n : j \in 0..n /\ j # 0 OBVIOUS
    <2> QED BY <1>5, <1>8, <2>1
<1>10. PICK T : T = {j \in 0..n : h[j] = f[j]} OBVIOUS
<1>11. 0 \in T BY <1>9, <1>10
<1>12. \A j \in 1..n : j - 1 \in T => j \in T BY <1>5, <1>9, <1>10
<1>13. \A j \in 0..n : j \in T BY <1>11, <1>12, StepByStep
<1>14. h[n] = f[n] BY <1>10, <1>13
<1> QED BY <1>1, <1>4, <1>7, <1>14

-----------------------------------------------------------------------------
(* A transaction is taken back                                             *)

\* Spent and put back, a coin is what it was; its fCoinStake, which is not kept,
\* must have been FALSE if nothing was left of it.
Restorable(c, n) == n \in c.outs /\ c.height >= 1 /\ (c.outs = {n} => ~c.stake)
Restored(c, d, u) == Restore(d, u).coins = c /\ Restore(d, u).clean = TRUE
LEMMA RestoreCoin ==
    ASSUME NEW c \in Coin, NEW n, Restorable(c, n),
           NEW d \in Coin, Same(d, Spend(c, n).coins)
    PROVE  Restored(c, d, Stored(Spend(c, n).undo))
<1>0. PICK u : u = Stored(Spend(c, n).undo) OBVIOUS
<1>1. /\ n \in c.outs /\ n \in Nat /\ c.outs \in SUBSET Nat
      /\ c.height \in Nat /\ c.height # 0 /\ c.height >= 1
      /\ c.outs = {n} => ~c.stake
      BY DEF Coin, Restorable
<1>2. PICK e : e = Spend(c, n).coins OBVIOUS
<1>3. /\ e \in Coin
      /\ e = [outs |-> c.outs \ {n}, base |-> c.base, stake |-> c.stake,
              height |-> c.height, version |-> c.version]
      BY <1>1, <1>2, SpendFacts
<1>4. c = [outs |-> c.outs, base |-> c.base, stake |-> c.stake,
           height |-> c.height, version |-> c.version]
      /\ c.stake \in BOOLEAN
      BY DEF Coin
<1>5. CASE c.outs = {n}
    <2>1. Spend(c, n).undo = SpendUndo(c, n) /\ Spend(c, n).undo \in UndoRecords
          BY <1>1, <1>5, SpendFacts
    <2>2. SpendUndo(c, n).height = c.height BY DEF SpendUndo
    <2>3. u = SpendUndo(c, n) BY <1>0, <1>1, <2>1, <2>2, StoredFacts
    <2>4. u.height = c.height /\ u.base = c.base /\ u.version = c.version /\ u.n = n
          BY <2>3 DEF SpendUndo
    <2>5. IsPruned(d)
        <3>1. IsPruned(e) BY <1>3, <1>5 DEF IsPruned
        <3> QED BY <1>2, <3>1, SameEquivalence
    <2>6. PICK b : b = [NoCoins EXCEPT !.base = u.base, !.height = u.height,
                                       !.version = u.version]
          OBVIOUS
    <2>7. b = [outs |-> {}, base |-> c.base, stake |-> FALSE, height |-> c.height,
               version |-> c.version]
          BY <2>4, <2>6 DEF NoCoins
    <2>8. Restore(d, u) = [coins |-> [b EXCEPT !.outs = b.outs \cup {u.n}],
                           clean |-> (u.height # 0) = IsPruned(d) /\ u.n \notin b.outs]
          BY <1>1, <2>4, <2>6 DEF Restore
    <2>9. c.stake = FALSE BY <1>1, <1>4, <1>5
    <2>10. [b EXCEPT !.outs = b.outs \cup {u.n}] = c
        <3>1. b.outs \cup {u.n} = {n} BY <2>4, <2>7
        <3>2. [b EXCEPT !.outs = {n}] =
                  [outs |-> {n}, base |-> c.base, stake |-> FALSE, height |-> c.height,
                   version |-> c.version]
            <4>1. b \in Coin BY <2>7 DEF Coin
            <4>2. {n} \in SUBSET Nat BY <1>1
            <4>3. [b EXCEPT !.outs = {n}] =
                      [outs |-> {n}, base |-> b.base, stake |-> b.stake, height |-> b.height,
                       version |-> b.version]
                  BY <4>1, <4>2, CoinShape
            <4> QED BY <2>7, <4>3
        <3>3. c = [outs |-> {n}, base |-> c.base, stake |-> FALSE, height |-> c.height,
                   version |-> c.version]
              BY <1>4, <1>5, <2>9
        <3> QED BY <3>1, <3>2, <3>3
    <2>11. Restore(d, u).coins = c BY <2>8, <2>10
    <2>12. ((u.height # 0) = IsPruned(d)) = TRUE BY <1>1, <2>4, <2>5
    <2>13. u.n \notin b.outs BY <2>7
    <2>14. Restore(d, u).clean = ((u.height # 0) = IsPruned(d) /\ u.n \notin b.outs) BY <2>8
    <2>15. Restored(c, d, u) BY <2>11, <2>12, <2>13, <2>14 DEF Restored
    <2> QED BY <1>0, <2>15
<1>6. CASE c.outs # {n}
    <2>1. Spend(c, n).undo = NoMetaUndo(n) /\ Spend(c, n).undo \in UndoRecords
          BY <1>1, <1>6, SpendFacts
    <2>2. NoMetaUndo(n).n = n BY DEF NoMetaUndo
    <2>3. u = NoMetaUndo(n) BY <1>0, <2>1, <2>2, StoredFacts
    <2>4. u.height = 0 /\ u.n = n BY <2>3 DEF NoMetaUndo
    <2>5. ~IsPruned(e) BY <1>1, <1>3, <1>6 DEF IsPruned
    <2>6. d = e BY <1>2, <2>5, SameEquivalence
    <2>7. Restore(d, u) = [coins |-> [d EXCEPT !.outs = d.outs \cup {u.n}],
                           clean |-> (u.height # 0) = IsPruned(d) /\ u.n \notin d.outs]
          BY <2>4 DEF Restore
    <2>8. [d EXCEPT !.outs = d.outs \cup {u.n}] = c
        <3>1. d.outs \cup {u.n} = c.outs BY <1>1, <1>3, <2>4, <2>6
        <3> QED BY <1>3, <1>4, <2>6, <3>1
    <2>9. u.n \notin d.outs BY <1>3, <2>4, <2>6
    <2>10. ~IsPruned(d) /\ ~(u.height # 0) BY <2>4, <2>5, <2>6
    <2>11. ((u.height # 0) = IsPruned(d)) = TRUE BY <2>10 DEF IsPruned
    <2>12. Restore(d, u).clean = ((u.height # 0) = IsPruned(d) /\ u.n \notin d.outs) BY <2>7
    <2>13. Restore(d, u).coins = c BY <2>7, <2>8
    <2>14. Restored(c, d, u) BY <2>9, <2>11, <2>12, <2>13 DEF Restored
    <2> QED BY <1>0, <2>14
<1> QED BY <1>5, <1>6

Accs == [view : Views, clean : BOOLEAN]

LEMMA RestoreInputTyped ==
    ASSUME NEW acc \in Accs, NEW o \in Txs \X Nat, NEW u \in UndoRecords
    PROVE  RestoreInput(acc, o, u) \in Accs
<1>1. o[1] \in Txs /\ acc.view \in Views /\ acc.view[o[1]] \in Coin /\ acc.clean \in BOOLEAN
      BY DEF Accs, Views
<1>2. PICK c : c = acc.view[o[1]] OBVIOUS
<1>3. PICK b : b = IF u.height = 0 THEN c
                   ELSE [NoCoins EXCEPT !.base = u.base, !.height = u.height,
                                        !.version = u.version]
      OBVIOUS
<1>4. b \in Coin
    <2>1. CASE u.height = 0 BY <1>1, <1>2, <1>3, <2>1
    <2>2. CASE u.height # 0
        <3>1. b = [outs |-> {}, base |-> u.base, stake |-> FALSE, height |-> u.height,
                   version |-> u.version]
              BY <1>3, <2>2 DEF NoCoins
        <3> QED BY <3>1 DEF Coin, UndoRecords
    <2> QED BY <2>1, <2>2
<1>5. Restore(c, u) = [coins |-> [b EXCEPT !.outs = b.outs \cup {u.n}],
                       clean |-> (u.height # 0) = IsPruned(c) /\ u.n \notin b.outs]
      BY <1>3 DEF Restore
<1>6. b.outs \cup {u.n} \in SUBSET Nat BY <1>4 DEF Coin, UndoRecords
<1>7. PICK d : d = [b EXCEPT !.outs = b.outs \cup {u.n}] OBVIOUS
<1>8. d \in Coin BY <1>4, <1>6, <1>7, CoinShape
<1>9. RestoreInput(acc, o, u).view = [acc.view EXCEPT ![o[1]] = d]
      BY <1>2, <1>5, <1>7 DEF RestoreInput
<1>10. [acc.view EXCEPT ![o[1]] = d] \in Views BY <1>1, <1>8 DEF Views
<1>11. RestoreInput(acc, o, u) = [view |-> [acc.view EXCEPT ![o[1]] = d],
                                  clean |-> acc.clean /\ Restore(c, u).clean]
       BY <1>2, <1>5, <1>7 DEF RestoreInput
<1>12. (acc.clean /\ Restore(c, u).clean) \in BOOLEAN OBVIOUS
<1> QED BY <1>10, <1>11, <1>12 DEF Accs

\* What UpdateCoins relies on: the inputs are there.
HasInputs(w, t) == \A i \in 1..Len(Vin[t]) : Vin[t][i][2] \in w[Vin[t][i][1]].outs

\* An input about to be spent.
LEMMA SpentCoin ==
    ASSUME NEW t \in Sent, NEW w, SoundView(w), HasInputs(w, t),
           NEW j \in 1..Len(Vin[t]), NEW o, o = Vin[t][j],
           NEW c, c = SpentFrom(w, t, j - 1)[o[1]]
    PROVE  c \in Coin /\ Restorable(c, o[2])
<1>0. t \in Txs /\ Len(Vin[t]) \in Nat BY InputFacts DEF Sent
<1>1. o[1] \in Txs /\ o[2] \in Nat /\ o = <<o[1], o[2]>> BY <1>0, InputFacts
<1>2. w \in Views /\ SoundCoin(o[1], w[o[1]]) BY <1>1 DEF SoundView
<1>3. j - 1 \in 0..Len(Vin[t]) BY <1>0
<1>4. SpentFrom(w, t, j - 1) \in Views
      /\ c = [outs |-> Outs(w, t, j - 1, o[1]), base |-> w[o[1]].base,
              stake |-> w[o[1]].stake, height |-> w[o[1]].height,
              version |-> w[o[1]].version]
      BY <1>0, <1>1, <1>2, <1>3, SpentFromFacts
<1>5. c \in Coin BY <1>1, <1>4 DEF Views
<1>6. o[2] \in w[o[1]].outs BY DEF HasInputs
<1>7. \A i \in 1..(j - 1) : Vin[t][i] # o
    <2>1. \A i \in 1..(j - 1) : i \in 1..Len(Vin[t]) /\ i # j BY <1>0
    <2> QED BY <1>0, <2>1, InputFacts
<1>8. o[2] \in c.outs
    <2>1. \A i \in 1..(j - 1) : Vin[t][i] # <<o[1], o[2]>> BY <1>1, <1>7
    <2>2. o[2] \in Outs(w, t, j - 1, o[1]) BY <1>6, <2>1 DEF Outs
    <2>3. c.outs = Outs(w, t, j - 1, o[1]) BY <1>4
    <2> QED BY <2>2, <2>3
<1>9. c.height >= 1 /\ (c.stake => Kept(o[1]) # {} /\ Kept(o[1]) \subseteq w[o[1]].outs)
      BY <1>2, <1>4, <1>6 DEF SoundCoin, IsPruned
<1>10. DOMAIN Vin[t] = 1..Len(Vin[t]) BY <1>0, InputFacts
<1>11. \A n \in Kept(o[1]) : \A i \in 1..Len(Vin[t]) : Vin[t][i] # <<o[1], n>>
       BY <1>10 DEF Kept
<1>12. o[2] \notin Kept(o[1]) BY <1>1, <1>11
<1>13. ASSUME c.stake PROVE c.outs # {o[2]}
    <2>1. PICK n : n \in Kept(o[1]) BY <1>9, <1>13
    <2>2. n \in w[o[1]].outs BY <1>9, <1>13, <2>1
    <2>3. \A i \in 1..(j - 1) : Vin[t][i] # <<o[1], n>>
        <3>1. \A i \in 1..(j - 1) : i \in 1..Len(Vin[t]) BY <1>0
        <3> QED BY <1>11, <2>1, <3>1
    <2>4. n \in c.outs
        <3>1. n \in Outs(w, t, j - 1, o[1]) BY <2>2, <2>3 DEF Outs
        <3>2. c.outs = Outs(w, t, j - 1, o[1]) BY <1>4
        <3> QED BY <3>1, <3>2
    <2> QED BY <1>12, <2>1, <2>4
<1> QED BY <1>5, <1>8, <1>9, <1>13 DEF Restorable

LEMMA UndoOfTyped ==
    ASSUME NEW t \in Txs, NEW w \in Views, NEW j \in 1..Len(Vin[t])
    PROVE  UndoOf(w, t, j) \in UndoRecords
<1>1. j - 1 \in 0..Len(Vin[t]) BY InputFacts
<1>2. SpentFrom(w, t, j - 1) \in Views BY <1>1, SpentFromFacts
<1>3. Vin[t][j][1] \in Txs /\ Vin[t][j][2] \in Nat BY InputFacts
<1>4. SpentFrom(w, t, j - 1)[Vin[t][j][1]] \in Coin BY <1>2, <1>3 DEF Views
<1> QED BY <1>3, <1>4, SpendFacts DEF UndoOf

LEMMA StoredTyped ==
    ASSUME NEW u \in UndoRecords
    PROVE  Stored(u) \in UndoRecords
<1>1. PICK code \in Nat :
          code = u.height * 4 + (IF u.base THEN 2 ELSE 0) + (IF u.stake THEN 1 ELSE 0)
    <2>1. u.height * 4 + (IF u.base THEN 2 ELSE 0) + (IF u.stake THEN 1 ELSE 0) \in Nat
          BY DEF UndoRecords
    <2> QED BY <2>1
<1>2. code \div 4 \in Nat BY <1>1
<1>3. Stored(u) = [n |-> u.n, base |-> (code \div 2) % 2 = 1, stake |-> code % 2 = 1,
                   height |-> code \div 4,
                   version |-> IF code \div 4 > 0 THEN u.version ELSE 0]
      BY <1>1 DEF Stored
<1>4. u.n \in Nat /\ u.version \in Nat BY DEF UndoRecords
<1>5. (IF code \div 4 > 0 THEN u.version ELSE 0) \in Nat BY <1>4
<1> QED BY <1>2, <1>3, <1>4, <1>5 DEF UndoRecords

\* One input is put back.
LEMMA RestoreStep ==
    ASSUME NEW t \in Sent, NEW w, SoundView(w), HasInputs(w, t),
           NEW j \in 1..Len(Vin[t]), NEW x \in Views, Alike(x, SpentFrom(w, t, j)),
           NEW r, r = RestoreInput([view |-> x, clean |-> TRUE], Vin[t][j],
                                   Stored(UndoOf(w, t, j)))
    PROVE  r.view \in Views /\ r.clean = TRUE /\ Alike(r.view, SpentFrom(w, t, j - 1))
<1>0. t \in Txs /\ w \in Views BY DEF Sent, SoundView
<1>1. PICK o : o = Vin[t][j] OBVIOUS
<1>2. o[1] \in Txs /\ o[2] \in Nat BY <1>0, <1>1, InputFacts
<1>3. PICK v : v = SpentFrom(w, t, j - 1) OBVIOUS
<1>4. j - 1 \in 0..Len(Vin[t]) BY <1>0, InputFacts
<1>5. v \in Views BY <1>0, <1>3, <1>4, SpentFromFacts
<1>6. PICK c : c = v[o[1]] OBVIOUS
<1>7. c \in Coin /\ Restorable(c, o[2])
      BY <1>1, <1>3, <1>6, SpentCoin
<1>8. SpentFrom(w, t, j) = [v EXCEPT ![o[1]] = Spend(c, o[2]).coins]
      BY <1>0, <1>1, <1>3, <1>6, SpentFromStep
<1>9. SpentFrom(w, t, j)[o[1]] = Spend(c, o[2]).coins
      /\ \A u \in Txs : u # o[1] => SpentFrom(w, t, j)[u] = v[u]
      BY <1>2, <1>5, <1>8 DEF Views
<1>10. Same(x[o[1]], Spend(c, o[2]).coins) /\ x[o[1]] \in Coin
       BY <1>2, <1>9 DEF Alike, Views
<1>11. UndoOf(w, t, j) = Spend(c, o[2]).undo BY <1>1, <1>3, <1>6 DEF UndoOf
<1>12. PICK u : u = Stored(Spend(c, o[2]).undo) OBVIOUS
<1>13. Restore(x[o[1]], u).coins = c /\ Restore(x[o[1]], u).clean = TRUE
    <2>1. PICK n, d : n = o[2] /\ d = x[o[1]] OBVIOUS
    <2>2. d \in Coin /\ Same(d, Spend(c, n).coins) BY <1>10, <2>1
    <2>3. c \in Coin /\ Restorable(c, n) BY <1>7, <2>1
    <2>4. u = Stored(Spend(c, n).undo) BY <1>12, <2>1
    <2>5. Restored(c, d, u) BY <2>2, <2>3, <2>4, RestoreCoin
    <2> QED BY <2>1, <2>5 DEF Restored
<1>14. r = [view |-> [x EXCEPT ![o[1]] = c], clean |-> TRUE]
    <2>1. r = [view |-> [x EXCEPT ![o[1]] = Restore(x[o[1]], u).coins],
               clean |-> TRUE /\ Restore(x[o[1]], u).clean]
          BY <1>1, <1>11, <1>12 DEF RestoreInput
    <2> QED BY <1>13, <2>1
<1>15. PICK y : y = [x EXCEPT ![o[1]] = c] OBVIOUS
<1>16. y \in Views BY <1>2, <1>7, <1>15 DEF Views
<1>17. y[o[1]] = c /\ \A q \in Txs : q # o[1] => y[q] = x[q] BY <1>2, <1>15 DEF Views
<1>18. \A q \in Txs : Same(y[q], v[q])
    <2> SUFFICES ASSUME NEW q \in Txs PROVE Same(y[q], v[q]) OBVIOUS
    <2>1. CASE q = o[1] BY <1>6, <1>17, <2>1, SameEquivalence
    <2>2. CASE q # o[1]
        <3>1. Same(x[q], v[q]) BY <1>9, <2>2 DEF Alike
        <3> QED BY <1>17, <2>2, <3>1
    <2> QED BY <2>1, <2>2
<1>19. r.view = y /\ r.clean = TRUE
    <2>1. r = [view |-> y, clean |-> TRUE] BY <1>14, <1>15
    <2> QED BY <2>1
<1>20. Alike(y, v) BY <1>18 DEF Alike
<1> QED BY <1>3, <1>16, <1>19, <1>20

\* The loop over the inputs of t, the last one first.
Undoings(t) == [1..Len(Vin[t]) -> UndoRecords]
LEMMA RestoringsFold ==
    ASSUME NEW t \in Txs, NEW start \in Accs, NEW undo \in Undoings(t),
           NEW n, n = Len(Vin[t]), NEW h, h = Restorings(start, Vin[t], undo)
    PROVE  /\ n \in Nat /\ h[0] = start
           /\ \A k \in 0..n : h[k] \in Accs
           /\ \A k \in 1..n : h[k] = RestoreInput(h[k - 1], Vin[t][n + 1 - k], undo[n + 1 - k])
<1>1. n \in Nat BY InputFacts
<1>4. \A k \in 1..n : /\ Vin[t][n + 1 - k] \in Txs \X Nat
                      /\ undo[n + 1 - k] \in UndoRecords
    <2> SUFFICES ASSUME NEW k \in 1..n
                 PROVE  Vin[t][n + 1 - k] \in Txs \X Nat /\ undo[n + 1 - k] \in UndoRecords
        OBVIOUS
    <2>1. PICK j \in 1..n : j = n + 1 - k
        <3>1. n + 1 - k \in 1..n BY <1>1
        <3> QED BY <3>1
    <2>2. Vin[t][j] \in Txs \X Nat BY InputFacts
    <2>3. undo[j] \in UndoRecords BY DEF Undoings
    <2> QED BY <2>1, <2>2, <2>3
<1>5. PICK step : step = [k \in 1..n |-> [a \in Accs |->
                             RestoreInput(a, Vin[t][n + 1 - k], undo[n + 1 - k])]]
      OBVIOUS
<1>6. Steps(step, n, Accs) BY <1>1, <1>4, <1>5, RestoreInputTyped DEF Steps
<1>7. PICK f : IsFold(f, n, Accs, start, step) BY <1>6, FoldExists
<1>8. f \in [0..n -> Accs] /\ f[0] = start /\ \A k \in 1..n : f[k] = step[k][f[k - 1]]
      BY <1>7 DEF IsFold
<1>9. \A k \in 1..n : f[k] = RestoreInput(f[k - 1], Vin[t][n + 1 - k], undo[n + 1 - k])
    <2> SUFFICES ASSUME NEW k \in 1..n
                 PROVE  f[k] = RestoreInput(f[k - 1], Vin[t][n + 1 - k], undo[n + 1 - k])
        OBVIOUS
    <2>1. f[k - 1] \in Accs BY <1>1, <1>8
    <2> QED BY <1>5, <1>8, <2>1
<1>10. f = [k \in 0..Len(Vin[t]) |->
               IF k = 0 THEN start
               ELSE RestoreInput(f[k - 1], Vin[t][Len(Vin[t]) + 1 - k],
                                 undo[Len(Vin[t]) + 1 - k])]
    <2>1. \A k \in 0..n : f[k] = IF k = 0 THEN start
                                 ELSE RestoreInput(f[k - 1], Vin[t][n + 1 - k], undo[n + 1 - k])
          BY <1>1, <1>8, <1>9
    <2>2. f = [k \in 0..n |-> f[k]] BY <1>8
    <2> QED BY <2>1, <2>2
<1>12. h = [k \in 0..Len(Vin[t]) |->
               IF k = 0 THEN start
               ELSE RestoreInput(h[k - 1], Vin[t][Len(Vin[t]) + 1 - k],
                                 undo[Len(Vin[t]) + 1 - k])]
       BY <1>10 DEF Restorings
<1>13. h[0] = start
       /\ \A k \in 1..n : h[k] = RestoreInput(h[k - 1], Vin[t][n + 1 - k], undo[n + 1 - k])
    <2>1. 0 \in 0..n /\ \A k \in 1..n : k \in 0..n /\ k # 0 BY <1>1
    <2> QED BY <1>12, <2>1
<1>14. PICK T : T = {k \in 0..n : h[k] \in Accs} OBVIOUS
<1>15. 0 \in T BY <1>1, <1>13, <1>14
<1>16. \A k \in 1..n : k - 1 \in T => k \in T BY <1>4, <1>13, <1>14, RestoreInputTyped
<1>17. \A k \in 0..n : k \in T BY <1>1, <1>15, <1>16, StepByStep
<1> QED BY <1>1, <1>13, <1>14, <1>17

\* The undo data of t in the view w, as they come back from disk.
StoredUndo(w, t) == [i \in 1..Len(Vin[t]) |-> Stored(UndoOf(w, t, i))]

LEMMA StoredUndoTyped ==
    ASSUME NEW t \in Txs, NEW w \in Views
    PROVE  StoredUndo(w, t) \in Undoings(t)
BY UndoOfTyped, StoredTyped DEF StoredUndo, Undoings

\* All the inputs of a transaction are put back.
LEMMA RestoringsRevert ==
    ASSUME NEW t \in Sent, NEW w, SoundView(w), HasInputs(w, t),
           NEW x \in Views, Alike(x, SpentFrom(w, t, Len(Vin[t]))),
           NEW r, r = Restorings([view |-> x, clean |-> TRUE], Vin[t],
                                 StoredUndo(w, t))[Len(Vin[t])]
    PROVE  r \in Accs /\ r.clean = TRUE /\ Alike(r.view, w)
<1>0. t \in Txs /\ w \in Views BY DEF Sent, SoundView
<1>1. PICK n : n = Len(Vin[t]) OBVIOUS
<1>2. PICK start : start = [view |-> x, clean |-> TRUE] OBVIOUS
<1>3. start \in Accs BY <1>2 DEF Accs
<1>4. PICK undo : undo = StoredUndo(w, t) OBVIOUS
<1>5. undo \in Undoings(t) BY <1>0, <1>4, StoredUndoTyped
<1>6. PICK h : h = Restorings(start, Vin[t], undo) OBVIOUS
<1>7. /\ n \in Nat /\ h[0] = start
      /\ \A k \in 0..n : h[k] \in Accs
      /\ \A k \in 1..n : h[k] = RestoreInput(h[k - 1], Vin[t][n + 1 - k], undo[n + 1 - k])
      BY <1>0, <1>1, <1>3, <1>5, <1>6, RestoringsFold
<1>14. PICK T : T = {k \in 0..n : h[k].clean = TRUE
                                  /\ Alike(h[k].view, SpentFrom(w, t, n - k))}
       OBVIOUS
<1>15. 0 \in T
    <2>1. n - 0 = n /\ 0 \in 0..n BY <1>7
    <2>2. h[0].clean = TRUE /\ h[0].view = x BY <1>2, <1>7
    <2>3. Alike(h[0].view, SpentFrom(w, t, n - 0)) BY <1>1, <2>1, <2>2
    <2> QED BY <1>14, <2>1, <2>2, <2>3
<1>16. ASSUME NEW k \in 1..n, k - 1 \in T PROVE k \in T
    <2>1. PICK j \in 1..n : j = n + 1 - k
        <3>1. n + 1 - k \in 1..n BY <1>7
        <3> QED BY <3>1
    <2>2. n - (k - 1) = j /\ n - k = j - 1 /\ k \in 0..n BY <1>7, <2>1
    <2>3. PICK a : a = h[k - 1] OBVIOUS
    <2>4. a \in Accs /\ a.clean = TRUE /\ Alike(a.view, SpentFrom(w, t, j))
          BY <1>7, <1>14, <1>16, <2>2, <2>3
    <2>5. a.view \in Views /\ a = [view |-> a.view, clean |-> TRUE] BY <2>4 DEF Accs
    <2>6. undo[j] = Stored(UndoOf(w, t, j)) BY <1>1, <1>4 DEF StoredUndo
    <2>7. h[k] = RestoreInput([view |-> a.view, clean |-> TRUE], Vin[t][j],
                              Stored(UndoOf(w, t, j)))
          BY <1>7, <2>1, <2>3, <2>5, <2>6
    <2>8. j \in 1..Len(Vin[t]) BY <1>1
    <2>9. h[k].clean = TRUE /\ Alike(h[k].view, SpentFrom(w, t, j - 1))
          BY <2>4, <2>5, <2>7, <2>8, RestoreStep
    <2> QED BY <1>14, <2>2, <2>9
<1>17. \A k \in 0..n : k \in T BY <1>7, <1>15, <1>16, StepByStep
<1>18. n \in T /\ n - n = 0 BY <1>7, <1>17
<1>19. h[n].clean = TRUE /\ Alike(h[n].view, SpentFrom(w, t, 0)) BY <1>14, <1>18
<1>20. r = h[n] BY <1>1, <1>2, <1>4, <1>6
<1>21. h[n] \in Accs BY <1>7
<1> QED BY <1>0, <1>19, <1>20, <1>21, SpentFromNone

\* What a transaction of a block makes of the view.
ConnectedTx(w, t, h) == [SpentFrom(w, t, Len(Vin[t])) EXCEPT ![t] = FromTx(t, h)]

LEMMA ConnectedTxFacts ==
    ASSUME NEW t \in Txs, NEW w \in Views, NEW h \in Nat
    PROVE  /\ ConnectedTx(w, t, h) \in Views
           /\ ConnectedTx(w, t, h)[t] = FromTx(t, h)
           /\ \A u \in Txs : u # t => ConnectedTx(w, t, h)[u] = SpentFrom(w, t, Len(Vin[t]))[u]
<1>1. Len(Vin[t]) \in 0..Len(Vin[t]) BY InputFacts
<1>2. SpentFrom(w, t, Len(Vin[t])) \in Views BY <1>1, SpentFromFacts
<1> QED BY <1>2, FromTxFacts DEF ConnectedTx, Views

LEMMA DisconnectTxTyped ==
    ASSUME NEW t \in Txs, NEW acc \in Accs, NEW undo \in Undoings(t), NEW h \in Nat
    PROVE  DisconnectTx(acc, t, undo, h) \in Accs
<1>1. PICK start : start = [view |-> [acc.view EXCEPT ![t] = NoCoins],
                            clean |-> acc.clean /\ Same(acc.view[t], FromTx(t, h))]
      OBVIOUS
<1>2. start \in Accs
    <2>1. [acc.view EXCEPT ![t] = NoCoins] \in Views BY NoCoinsFacts DEF Views, Accs
    <2>2. (acc.clean /\ Same(acc.view[t], FromTx(t, h))) \in BOOLEAN OBVIOUS
    <2> QED BY <1>1, <2>1, <2>2 DEF Accs
<1>3. PICK n : n = Len(Vin[t]) OBVIOUS
<1>4. PICK g : g = Restorings(start, Vin[t], undo) OBVIOUS
<1>5. n \in Nat /\ \A k \in 0..n : g[k] \in Accs BY <1>2, <1>3, <1>4, RestoringsFold
<1>6. g[n] \in Accs BY <1>5
<1> QED BY <1>1, <1>3, <1>4, <1>6 DEF DisconnectTx

\* DisconnectBlock takes back what ConnectBlock did with one transaction.
LEMMA TxReverts ==
    ASSUME NEW t \in Sent, NEW w, SoundView(w), HasInputs(w, t), IsPruned(w[t]),
           NEW h \in Nat, NEW x \in Views, Alike(x, ConnectedTx(w, t, h)),
           NEW r, r = DisconnectTx([view |-> x, clean |-> TRUE], t, StoredUndo(w, t), h)
    PROVE  r \in Accs /\ r.clean = TRUE /\ Alike(r.view, w)
<1>0. t \in Txs /\ w \in Views BY DEF Sent, SoundView
<1>1. PICK n : n = Len(Vin[t]) OBVIOUS
<1>2. n \in 0..Len(Vin[t]) BY <1>0, <1>1, InputFacts
<1>3. PICK v : v = SpentFrom(w, t, n) OBVIOUS
<1>4. /\ ConnectedTx(w, t, h)[t] = FromTx(t, h)
      /\ \A u \in Txs : u # t => ConnectedTx(w, t, h)[u] = v[u]
      BY <1>0, <1>1, <1>3, ConnectedTxFacts
<1>5. PICK y : y = [x EXCEPT ![t] = NoCoins] OBVIOUS
<1>6. y \in Views /\ y[t] = NoCoins /\ \A u \in Txs : u # t => y[u] = x[u]
      BY <1>0, <1>5, NoCoinsFacts DEF Views
<1>7. IsPruned(v[t])
    <2>1. v[t].outs = Outs(w, t, n, t)
        <3>1. v[t] = [outs |-> Outs(w, t, n, t), base |-> w[t].base, stake |-> w[t].stake,
                      height |-> w[t].height, version |-> w[t].version]
              BY <1>0, <1>2, <1>3, SpentFromFacts
        <3> QED BY <3>1
    <2>2. Outs(w, t, n, t) = {} BY DEF Outs, IsPruned
    <2> QED BY <2>1, <2>2 DEF IsPruned
<1>8. Alike(y, v)
    <2> SUFFICES ASSUME NEW u \in Txs PROVE Same(y[u], v[u]) BY DEF Alike
    <2>1. CASE u = t BY <1>6, <1>7, <2>1, NoCoinsFacts DEF Same
    <2>2. CASE u # t
        <3>1. Same(x[u], v[u]) BY <1>4, <2>2 DEF Alike
        <3> QED BY <1>6, <2>2, <3>1
    <2> QED BY <2>1, <2>2
<1>9. Same(x[t], FromTx(t, h)) BY <1>0, <1>4 DEF Alike
<1>10. r = Restorings([view |-> y, clean |-> TRUE], Vin[t], StoredUndo(w, t))[n]
    <2>1. PICK c : c = (TRUE /\ Same(x[t], FromTx(t, h))) OBVIOUS
    <2>2. c = TRUE BY <1>9, <2>1 DEF Same
    <2>3. r = Restorings([view |-> y, clean |-> c], Vin[t], StoredUndo(w, t))[n]
          BY <1>1, <1>5, <2>1 DEF DisconnectTx
    <2> QED BY <2>2, <2>3
<1> QED BY <1>1, <1>3, <1>6, <1>8, <1>10, RestoringsRevert

-----------------------------------------------------------------------------
(* The transactions of a block                                             *)

LEMMA ConnectedSound ==
    ASSUME StakesKept, NEW t \in Sent, NEW w, SoundView(w), HasInputs(w, t),
           NEW h \in Nat, h >= 1
    PROVE  /\ SoundView(ConnectedTx(w, t, h))
           /\ \A u \in Txs : u # t /\ IsPruned(w[u]) => IsPruned(ConnectedTx(w, t, h)[u])
<1>0. t \in Txs /\ w \in Views BY DEF Sent, SoundView
<1>1. PICK n : n = Len(Vin[t]) OBVIOUS
<1>2. n \in 0..Len(Vin[t]) /\ n \in Nat /\ DOMAIN Vin[t] = 1..n BY <1>0, <1>1, InputFacts
<1>3. PICK v : v = ConnectedTx(w, t, h) OBVIOUS
<1>4. /\ v \in Views /\ v[t] = FromTx(t, h)
      /\ \A u \in Txs : u # t => v[u] = SpentFrom(w, t, n)[u]
      BY <1>0, <1>1, <1>3, ConnectedTxFacts
<1>5. \A u \in Txs : u # t =>
          v[u] = [outs |-> Outs(w, t, n, u), base |-> w[u].base, stake |-> w[u].stake,
                  height |-> w[u].height, version |-> w[u].version]
      BY <1>0, <1>2, <1>4, SpentFromFacts
<1>6. SoundCoin(t, v[t])
    <2>1. FromTx(t, h).outs = FromTx(t, 0).outs /\ FromTx(t, h).height = h
          /\ FromTx(t, h).version = 1 /\ FromTx(t, h).stake = (Kind[t] = "coinstake")
          BY DEF FromTx
    <2>2. Kept(t) \subseteq FromTx(t, 0).outs BY DEF Kept
    <2>3. Kind[t] = "coinstake" => Kept(t) # {} BY <1>0 DEF StakesKept
    <2>4. v[t].height >= 1 /\ v[t].version = 1 BY <1>4, <2>1
    <2>5. v[t].stake => Kept(t) # {} /\ Kept(t) \subseteq v[t].outs
          BY <1>4, <2>1, <2>2, <2>3
    <2> QED BY <2>4, <2>5 DEF SoundCoin
<1>7. ASSUME NEW u \in Txs, u # t
      PROVE  SoundCoin(u, v[u]) /\ (IsPruned(w[u]) => IsPruned(v[u]))
    <2>1. PICK c : c = v[u] OBVIOUS
    <2>2. c = [outs |-> Outs(w, t, n, u), base |-> w[u].base, stake |-> w[u].stake,
               height |-> w[u].height, version |-> w[u].version]
          BY <1>5, <1>7, <2>1
    <2>3. c.outs = Outs(w, t, n, u) /\ c.stake = w[u].stake /\ c.height = w[u].height
          /\ c.version = w[u].version
          BY <2>2
    <2>4. SoundCoin(u, w[u]) BY DEF SoundView
    <2>5. IsPruned(w[u]) => IsPruned(c) BY <2>3 DEF Outs, IsPruned
    <2>6. ASSUME ~IsPruned(c) PROVE SoundCoin(u, c)
        <3>1. /\ w[u].height >= 1 /\ w[u].version = 1
              /\ w[u].stake => Kept(u) # {} /\ Kept(u) \subseteq w[u].outs
              BY <2>4, <2>5, <2>6 DEF SoundCoin
        <3>2. \A m \in Kept(u) : \A i \in 1..n : Vin[t][i] # <<u, m>>
              BY <1>2 DEF Kept
        <3>3. Kept(u) \subseteq w[u].outs => Kept(u) \subseteq Outs(w, t, n, u)
              BY <3>2 DEF Outs
        <3>4. c.stake => Kept(u) # {} /\ Kept(u) \subseteq c.outs BY <2>3, <3>1, <3>3
        <3>5. c.height >= 1 /\ c.version = 1 BY <2>3, <3>1
        <3> QED BY <3>4, <3>5 DEF SoundCoin
    <2>7. IsPruned(c) => SoundCoin(u, c) BY DEF SoundCoin
    <2> QED BY <2>1, <2>5, <2>6, <2>7
<1>8. \A u \in Txs : SoundCoin(u, v[u]) BY <1>6, <1>7
<1> QED BY <1>3, <1>4, <1>7, <1>8 DEF SoundView

\* The undo data of t in the view w, as UpdateCoins makes them.
RawUndo(w, t) == [i \in 1..Len(Vin[t]) |-> UndoOf(w, t, i)]
Connectings == [view : Views, undo : Seq(Seq(UndoRecords)), ok : BOOLEAN]
InputsOK(w, t, h) == \A i \in 1..Len(Vin[t]) : InputOK(w, Vin[t][i], h)

\* r comes of acc by the transaction t.
TxConnected(acc, t, h, r) ==
    r.ok = TRUE => /\ acc.ok = TRUE /\ InputsOK(acc.view, t, h)
                   /\ r.view = ConnectedTx(acc.view, t, h)
                   /\ Kind[t] = "coinbase" => r.undo = acc.undo
                   /\ Kind[t] # "coinbase" => r.undo = Append(acc.undo, RawUndo(acc.view, t))
LEMMA ConnectTxFacts ==
    ASSUME NEW acc \in Connectings, NEW t \in Txs, NEW h \in Nat
    PROVE  /\ ConnectTx(acc, t, h) \in Connectings
           /\ TxConnected(acc, t, h, ConnectTx(acc, t, h))
<1>0. PICK r : r = ConnectTx(acc, t, h) OBVIOUS
<1>1. PICK w, ud, ok : w = acc.view /\ ud = acc.undo /\ ok = acc.ok OBVIOUS
<1>2. w \in Views /\ ud \in Seq(Seq(UndoRecords)) /\ ok \in BOOLEAN
      /\ acc = [view |-> w, undo |-> ud, ok |-> ok]
      BY <1>1 DEF Connectings
<1>3. Len(Vin[t]) \in Nat /\ DOMAIN Vin[t] = 1..Len(Vin[t]) BY InputFacts
<1>4. CASE ok /\ InputsOK(w, t, h)
    <2>1. PICK s : s = Spendings(w, Vin[t])[Len(Vin[t])] OBVIOUS
    <2>2. s = SpentUpTo(w, t, Len(Vin[t])) BY <1>2, <2>1, SpendingsAre
    <2>3. s.view = SpentFrom(w, t, Len(Vin[t])) /\ s.undo = RawUndo(w, t)
          BY <2>2 DEF SpentUpTo, RawUndo
    <2>4. r = [view |-> [s.view EXCEPT ![t] = FromTx(t, h)],
               undo |-> IF Kind[t] = "coinbase" THEN ud ELSE Append(ud, s.undo),
               ok |-> TRUE]
          BY <1>0, <1>1, <1>3, <1>4, <2>1 DEF ConnectTx, InputsOK
    <2>5. [s.view EXCEPT ![t] = FromTx(t, h)] = ConnectedTx(w, t, h)
          BY <2>3 DEF ConnectedTx
    <2>6. RawUndo(w, t) \in Seq(UndoRecords) BY <1>2, <1>3, UndoOfTyped, IsASeq DEF RawUndo
    <2>7. Append(ud, RawUndo(w, t)) \in Seq(Seq(UndoRecords))
          BY <1>2, <2>6, AppendProperties
    <2>8. PICK d : d = IF Kind[t] = "coinbase" THEN ud ELSE Append(ud, s.undo) OBVIOUS
    <2>9. d \in Seq(Seq(UndoRecords)) BY <1>2, <2>3, <2>7, <2>8
    <2>10. r = [view |-> ConnectedTx(w, t, h), undo |-> d, ok |-> TRUE]
           BY <2>4, <2>5, <2>8
    <2>11. ConnectedTx(w, t, h) \in Views BY <1>2, ConnectedTxFacts
    <2>12. r \in Connectings BY <2>9, <2>10, <2>11 DEF Connectings
    <2>13. r.view = ConnectedTx(w, t, h) /\ r.undo = d BY <2>10
    <2>14. acc.ok = TRUE /\ InputsOK(acc.view, t, h) BY <1>1, <1>2, <1>4
    <2>15. r.view = ConnectedTx(acc.view, t, h) BY <1>1, <2>13
    <2>16. Kind[t] = "coinbase" => r.undo = acc.undo BY <1>1, <2>8, <2>13
    <2>17. Kind[t] # "coinbase" => r.undo = Append(acc.undo, RawUndo(acc.view, t))
           BY <1>1, <2>3, <2>8, <2>13
    <2>18. TxConnected(acc, t, h, r) BY <2>14, <2>15, <2>16, <2>17 DEF TxConnected
    <2> QED BY <1>0, <2>12, <2>18
<1>5. CASE ~(ok /\ InputsOK(w, t, h))
    <2>1. r = [acc EXCEPT !.ok = FALSE]
          BY <1>0, <1>1, <1>3, <1>5 DEF ConnectTx, InputsOK
    <2>2. r = [view |-> w, undo |-> ud, ok |-> FALSE] BY <1>2, <2>1
    <2>3. r.ok = FALSE BY <2>2
    <2>4. w \in Views /\ ud \in Seq(Seq(UndoRecords)) /\ FALSE \in BOOLEAN BY <1>2
    <2>5. r \in Connectings BY <2>2, <2>4 DEF Connectings
    <2>6. TxConnected(acc, t, h, r) BY <2>3 DEF TxConnected
    <2> QED BY <1>0, <2>5, <2>6
<1> QED BY <1>4, <1>5

LEMMA BlockFacts ==
    ASSUME NEW b \in Blocks
    PROVE  /\ Len(b) \in Nat /\ Len(b) >= 1 /\ DOMAIN b = 1..Len(b)
           /\ \A i \in 1..Len(b) : b[i] \in Sent /\ b[i] \in Txs
           /\ \A i, j \in 1..Len(b) : b[i] = b[j] => i = j
           /\ \A i \in 1..Len(b) : Kind[b[i]] = "coinbase" <=> i = 1
<1>1. /\ b \in Seq(Txs) /\ IsInjective(b) /\ b # <<>>
      /\ \A i \in DOMAIN b : Kind[b[i]] = "coinbase" <=> i = 1
      BY BlocksAssumption
<1>2. Len(b) \in Nat /\ DOMAIN b = 1..Len(b) /\ \A i \in 1..Len(b) : b[i] \in Txs
      BY <1>1, LenProperties, ElementOfSeq
<1>3. Len(b) >= 1 BY <1>1, <1>2, EmptySeq
<1>4. \A i \in 1..Len(b) : b[i] \in Sent BY <1>2 DEF Sent
<1>5. \A i, j \in 1..Len(b) : b[i] = b[j] => i = j BY <1>1, <1>2 DEF IsInjective
<1>6. \A i \in 1..Len(b) : Kind[b[i]] = "coinbase" <=> i = 1 BY <1>1, <1>2
<1> QED BY <1>2, <1>3, <1>4, <1>5, <1>6

\* The loop over the transactions of a block.
ConnectSteps(a, b, h) ==
    /\ a[0] = [view |-> coins, undo |-> <<>>, ok |-> TRUE]
    /\ \A i \in 0..Len(b) : a[i] \in Connectings
    /\ \A i \in 1..Len(b) : a[i] = ConnectTx(a[i - 1], b[i], h)
LEMMA ConnectionsFold ==
    ASSUME coins \in Views, NEW b \in Blocks, NEW h \in Nat
    PROVE  ConnectSteps(Connections(b, h), b, h)
<1>0. PICK n, a : n = Len(b) /\ a = Connections(b, h) OBVIOUS
<1>1. n \in Nat BY <1>0, BlockFacts
<1>2. PICK start : start = [view |-> coins, undo |-> <<>>, ok |-> TRUE] OBVIOUS
<1>3. start \in Connectings
    <2>1. <<>> \in Seq(Seq(UndoRecords)) BY EmptySeq
    <2> QED BY <1>2, <2>1 DEF Connectings
<1>4. \A i \in 1..n, acc \in Connectings : ConnectTx(acc, b[i], h) \in Connectings
      BY <1>0, BlockFacts, ConnectTxFacts
<1>5. PICK step : step = [i \in 1..n |-> [acc \in Connectings |-> ConnectTx(acc, b[i], h)]]
      OBVIOUS
<1>6. Steps(step, n, Connectings) BY <1>1, <1>4, <1>5 DEF Steps
<1>7. PICK f : IsFold(f, n, Connectings, start, step) BY <1>3, <1>6, FoldExists
<1>8. f \in [0..n -> Connectings] /\ f[0] = start /\ \A i \in 1..n : f[i] = step[i][f[i - 1]]
      BY <1>7 DEF IsFold
<1>9. \A i \in 1..n : f[i] = ConnectTx(f[i - 1], b[i], h)
    <2> SUFFICES ASSUME NEW i \in 1..n PROVE f[i] = ConnectTx(f[i - 1], b[i], h) OBVIOUS
    <2>1. f[i - 1] \in Connectings BY <1>1, <1>8
    <2> QED BY <1>5, <1>8, <2>1
<1>10. f = [i \in 0..Len(b) |->
               IF i = 0 THEN [view |-> coins, undo |-> <<>>, ok |-> TRUE]
               ELSE ConnectTx(f[i - 1], b[i], h)]
    <2>1. \A i \in 0..n : f[i] = IF i = 0 THEN start ELSE ConnectTx(f[i - 1], b[i], h)
          BY <1>1, <1>8, <1>9
    <2>2. f = [i \in 0..n |-> f[i]] BY <1>8
    <2> QED BY <1>0, <1>2, <2>1, <2>2
<1>11. a = [i \in 0..Len(b) |->
               IF i = 0 THEN [view |-> coins, undo |-> <<>>, ok |-> TRUE]
               ELSE ConnectTx(a[i - 1], b[i], h)]
       BY <1>0, <1>10 DEF Connections
<1>12. a[0] = start /\ \A i \in 1..n : a[i] = ConnectTx(a[i - 1], b[i], h)
    <2>1. 0 \in 0..n /\ \A i \in 1..n : i \in 0..n /\ i # 0 BY <1>1
    <2> QED BY <1>0, <1>2, <1>11, <2>1
<1>13. PICK T : T = {i \in 0..n : a[i] \in Connectings} OBVIOUS
<1>14. 0 \in T BY <1>1, <1>3, <1>12, <1>13
<1>15. \A i \in 1..n : i - 1 \in T => i \in T BY <1>4, <1>12, <1>13
<1>16. \A i \in 0..n : i \in T BY <1>1, <1>14, <1>15, StepByStep
<1>17. \A i \in 0..n : a[i] \in Connectings BY <1>13, <1>16
<1> QED BY <1>0, <1>2, <1>12, <1>17 DEF ConnectSteps

\* What a block that connects does, transaction by transaction.
Connected(a, b, h) ==
    LET n == Len(b) IN
    /\ a[0] = [view |-> coins, undo |-> <<>>, ok |-> TRUE]
    /\ \A i \in 0..n : a[i] \in Connectings
    /\ \A i \in 1..n : /\ InputsOK(a[i - 1].view, b[i], h)
                       /\ a[i].view = ConnectedTx(a[i - 1].view, b[i], h)
                       /\ i = 1 => a[i].undo = a[i - 1].undo
                       /\ i # 1 => a[i].undo =
                                       Append(a[i - 1].undo, RawUndo(a[i - 1].view, b[i]))

LEMMA ConnectionsFacts ==
    ASSUME coins \in Views, NEW b \in Blocks, NEW h \in Nat,
           NEW a, a = Connections(b, h), a[Len(b)].ok = TRUE
    PROVE  Connected(a, b, h)
<1>1. PICK n : n = Len(b) OBVIOUS
<1>2. /\ n \in Nat /\ a[0] = [view |-> coins, undo |-> <<>>, ok |-> TRUE]
      /\ \A i \in 0..n : a[i] \in Connectings
      /\ \A i \in 1..n : a[i] = ConnectTx(a[i - 1], b[i], h)
    <2>1. ConnectSteps(Connections(b, h), b, h) BY ConnectionsFold
    <2>2. ConnectSteps(a, b, h) BY <2>1
    <2>3. n \in Nat BY <1>1, BlockFacts
    <2> QED BY <1>1, <2>2, <2>3 DEF ConnectSteps
<1>3. \A i \in 1..n : i - 1 \in 0..n /\ b[i] \in Txs /\ a[i - 1] \in Connectings
      BY <1>1, <1>2, BlockFacts
<1>4. \A i \in 1..n : a[i].ok = TRUE =>
          /\ a[i - 1].ok = TRUE /\ InputsOK(a[i - 1].view, b[i], h)
          /\ a[i].view = ConnectedTx(a[i - 1].view, b[i], h)
          /\ Kind[b[i]] = "coinbase" => a[i].undo = a[i - 1].undo
          /\ Kind[b[i]] # "coinbase" =>
                 a[i].undo = Append(a[i - 1].undo, RawUndo(a[i - 1].view, b[i]))
    <2> SUFFICES ASSUME NEW i \in 1..n PROVE TxConnected(a[i - 1], b[i], h, a[i])
        BY DEF TxConnected
    <2> QED BY <1>2, <1>3, ConnectTxFacts
<1>5. PICK T : T = {k \in 0..n : a[n - k].ok = TRUE} OBVIOUS
<1>6. 0 \in T
    <2>1. n - 0 = n /\ 0 \in 0..n BY <1>2
    <2> QED BY <1>1, <1>5, <2>1
<1>7. ASSUME NEW k \in 1..n, k - 1 \in T PROVE k \in T
    <2>1. n - (k - 1) \in 1..n /\ n - (k - 1) - 1 = n - k /\ k \in 0..n BY <1>2
    <2>2. PICK i \in 1..n : i = n - (k - 1) BY <2>1
    <2>3. a[i].ok = TRUE BY <1>5, <1>7, <2>2
    <2>4. a[i - 1].ok = TRUE BY <1>4, <2>3
    <2>5. i - 1 = n - k BY <2>1, <2>2
    <2> QED BY <1>5, <2>1, <2>4, <2>5
<1>8. \A k \in 0..n : k \in T BY <1>2, <1>6, <1>7, StepByStep
<1>9. ASSUME NEW i \in 1..n PROVE a[i].ok = TRUE
    <2>1. n - i \in 0..n /\ n - (n - i) = i BY <1>2
    <2>2. n - i \in T BY <1>8, <2>1
    <2>3. a[n - (n - i)].ok = TRUE BY <1>5, <2>2
    <2> QED BY <2>1, <2>3
<1>10. \A i \in 1..n : Kind[b[i]] = "coinbase" <=> i = 1 BY <1>1, BlockFacts
<1> QED BY <1>1, <1>2, <1>4, <1>9, <1>10 DEF Connected

\* The views between the transactions of the block.
LEMMA BlockSound ==
    ASSUME StakesKept, SoundView(coins), NEW b \in Blocks, NotOverwriting(b),
           NEW h \in Nat, h >= 1, NEW a, Connected(a, b, h)
    PROVE  \A i \in 0..Len(b) : /\ SoundView(a[i].view)
                                /\ \A j \in (i + 1)..Len(b) : IsPruned(a[i].view[b[j]])
<1>1. PICK n \in Nat : n = Len(b) BY BlockFacts
<1>2. /\ \A i \in 1..n : b[i] \in Sent /\ b[i] \in Txs
      /\ \A i, j \in 1..n : b[i] = b[j] => i = j
      /\ DOMAIN b = 1..n
      BY <1>1, BlockFacts
<1>3. /\ a[0] = [view |-> coins, undo |-> <<>>, ok |-> TRUE]
      /\ \A i \in 1..n : /\ InputsOK(a[i - 1].view, b[i], h)
                         /\ a[i].view = ConnectedTx(a[i - 1].view, b[i], h)
      BY <1>1 DEF Connected
<1>4. PICK T : T = {i \in 0..n : /\ SoundView(a[i].view)
                                 /\ \A j \in (i + 1)..n : IsPruned(a[i].view[b[j]])}
      OBVIOUS
<1>5. 0 \in T
    <2>1. a[0].view = coins BY <1>3
    <2>2. \A j \in (0 + 1)..n : IsPruned(a[0].view[b[j]]) BY <1>2, <2>1 DEF NotOverwriting
    <2> QED BY <1>4, <2>1, <2>2
<1>6. ASSUME NEW i \in 1..n, i - 1 \in T PROVE i \in T
    <2>1. PICK w, t : w = a[i - 1].view /\ t = b[i] OBVIOUS
    <2>2. SoundView(w) /\ \A j \in ((i - 1) + 1)..n : IsPruned(w[b[j]]) BY <1>4, <1>6, <2>1
    <2>3. t \in Sent /\ t \in Txs BY <1>2, <2>1
    <2>4. HasInputs(w, t) BY <1>3, <2>1 DEF InputsOK, InputOK, HasInputs
    <2>5. /\ SoundView(ConnectedTx(w, t, h))
          /\ \A u \in Txs : u # t /\ IsPruned(w[u]) => IsPruned(ConnectedTx(w, t, h)[u])
          BY <2>2, <2>3, <2>4, ConnectedSound
    <2>6. a[i].view = ConnectedTx(w, t, h) BY <1>3, <2>1
    <2>7. ASSUME NEW j \in (i + 1)..n PROVE IsPruned(a[i].view[b[j]])
        <3>1. j \in ((i - 1) + 1)..n /\ j \in 1..n /\ j # i OBVIOUS
        <3>2. b[j] # t /\ b[j] \in Txs BY <1>2, <2>1, <3>1
        <3>3. IsPruned(w[b[j]]) BY <2>2, <3>1
        <3> QED BY <2>5, <2>6, <3>2, <3>3
    <2>8. i \in 0..n OBVIOUS
    <2> QED BY <1>4, <2>5, <2>6, <2>7, <2>8
<1>7. \A i \in 0..n : i \in T BY <1>5, <1>6, StepByStep
<1> QED BY <1>1, <1>4, <1>7

\* The undo data of the i-th transaction of a block: the coinbase has none.
UndoFor(undo, i) == IF i = 1 THEN <<>> ELSE undo[i - 1]
RightUndo(a, b, undo) ==
    \A i \in 1..Len(b) : UndoFor(undo, i) = StoredUndo(a[i - 1].view, b[i])

\* What ConnectBlock writes to the undo file.
OnDisk(undo) == [i \in DOMAIN undo |-> [j \in DOMAIN undo[i] |-> Stored(undo[i][j])]]

LEMMA BlockUndos ==
    ASSUME NEW b \in Blocks, NEW h \in Nat, NEW a, Connected(a, b, h)
    PROVE  /\ OnDisk(a[Len(b)].undo) \in Seq(Seq(UndoRecords))
           /\ RightUndo(a, b, OnDisk(a[Len(b)].undo))
<1>1. PICK n \in Nat : n = Len(b) BY BlockFacts
<1>2. n >= 1 /\ \A i \in 1..n : b[i] \in Txs BY <1>1, BlockFacts
<1>3. /\ a[0] = [view |-> coins, undo |-> <<>>, ok |-> TRUE]
      /\ \A i \in 0..n : a[i].undo \in Seq(Seq(UndoRecords)) /\ a[i].view \in Views
      /\ \A i \in 1..n :
            /\ i = 1 => a[i].undo = a[i - 1].undo
            /\ i # 1 => a[i].undo = Append(a[i - 1].undo, RawUndo(a[i - 1].view, b[i]))
      BY <1>1 DEF Connected, Connectings
<1>4. ASSUME NEW i \in 1..n PROVE RawUndo(a[i - 1].view, b[i]) \in Seq(UndoRecords)
    <2>1. a[i - 1].view \in Views /\ b[i] \in Txs BY <1>2, <1>3
    <2>2. Len(Vin[b[i]]) \in Nat BY <2>1, InputFacts
    <2> QED BY <2>1, <2>2, UndoOfTyped, IsASeq DEF RawUndo
<1>5. PICK T : T = {i \in 0..n :
                       /\ Len(a[i].undo) = (IF i = 0 THEN 0 ELSE i - 1)
                       /\ \A k \in 2..i : a[i].undo[k - 1] = RawUndo(a[k - 1].view, b[k])}
      OBVIOUS
<1>6. 0 \in T
    <2>1. a[0].undo = <<>> BY <1>3
    <2>2. Len(a[0].undo) = 0 BY <2>1, EmptySeq
    <2> QED BY <1>5, <2>2
<1>7. ASSUME NEW i \in 1..n, i - 1 \in T PROVE i \in T
    <2>1. PICK s, m : s = a[i - 1].undo /\ m = Len(s) OBVIOUS
    <2>2. s \in Seq(Seq(UndoRecords)) BY <1>3, <2>1
    <2>3. /\ m = (IF i - 1 = 0 THEN 0 ELSE i - 1 - 1)
          /\ \A k \in 2..(i - 1) : s[k - 1] = RawUndo(a[k - 1].view, b[k])
          BY <1>5, <1>7, <2>1
    <2>4. CASE i = 1
        <3>1. a[i].undo = s BY <1>3, <2>1, <2>4
        <3>2. Len(a[i].undo) = 0
            <4>1. i - 1 = 0 BY <2>4
            <4>2. m = 0 BY <2>3, <4>1
            <4> QED BY <2>1, <3>1, <4>2
        <3>3. \A k \in 2..i : FALSE BY <2>4
        <3>4. i \in 0..n /\ (IF i = 0 THEN 0 ELSE i - 1) = 0 BY <2>4
        <3> QED BY <1>5, <3>2, <3>3, <3>4
    <2>5. CASE i # 1
        <3>1. PICK r, x : r = RawUndo(a[i - 1].view, b[i]) /\ x = a[i].undo OBVIOUS
        <3>2. r \in Seq(UndoRecords) /\ x = Append(s, r) BY <1>3, <1>4, <2>1, <2>5, <3>1
        <3>3. m = i - 2 /\ i - 2 \in Nat BY <2>3, <2>5
        <3>4. Len(x) = m + 1 /\ x[m + 1] = r /\ \A k \in 1..m : x[k] = s[k]
              BY <2>1, <2>2, <3>2, AppendProperties
        <3>5. ASSUME NEW k \in 2..i PROVE x[k - 1] = RawUndo(a[k - 1].view, b[k])
            <4>1. CASE k = i
                <5>1. k - 1 = m + 1 BY <3>3, <4>1
                <5> QED BY <3>1, <3>4, <4>1, <5>1
            <4>2. CASE k # i
                <5>1. k - 1 \in 1..m /\ k \in 2..(i - 1) BY <3>3, <4>2
                <5>2. x[k - 1] = s[k - 1] BY <3>4, <5>1
                <5> QED BY <2>3, <5>1, <5>2
            <4> QED BY <4>1, <4>2
        <3>6. Len(x) = i - 1 /\ i \in 0..n /\ (IF i = 0 THEN 0 ELSE i - 1) = i - 1
              BY <3>3, <3>4
        <3> QED BY <1>5, <3>1, <3>5, <3>6
    <2> QED BY <2>4, <2>5
<1>8. n \in T BY <1>6, <1>7, StepByStep
<1>9. PICK s : s = a[n].undo OBVIOUS
<1>10. /\ s \in Seq(Seq(UndoRecords)) /\ Len(s) = n - 1 /\ n - 1 \in Nat
       /\ \A k \in 2..n : s[k - 1] = RawUndo(a[k - 1].view, b[k])
    <2>1. n # 0 /\ n \in 0..n /\ n - 1 \in Nat BY <1>2
    <2> QED BY <1>3, <1>5, <1>8, <1>9, <2>1
<1>11. DOMAIN s = 1..(n - 1) /\ \A i \in 1..(n - 1) : s[i] \in Seq(UndoRecords)
       BY <1>10, LenProperties, ElementOfSeq
<1>12. PICK z : z = OnDisk(s) OBVIOUS
<1>13. z = [i \in 1..(n - 1) |-> [j \in DOMAIN s[i] |-> Stored(s[i][j])]]
       BY <1>11, <1>12 DEF OnDisk
<1>14. ASSUME NEW i \in 1..(n - 1)
       PROVE  [j \in DOMAIN s[i] |-> Stored(s[i][j])] \in Seq(UndoRecords)
    <2>1. PICK q : q = s[i] OBVIOUS
    <2>2. q \in Seq(UndoRecords) BY <1>11, <2>1
    <2>3. Len(q) \in Nat /\ DOMAIN q = 1..Len(q) /\ \A j \in 1..Len(q) : q[j] \in UndoRecords
          BY <2>2, LenProperties, ElementOfSeq
    <2>4. \A j \in 1..Len(q) : Stored(q[j]) \in UndoRecords BY <2>3, StoredTyped
    <2>5. [j \in 1..Len(q) |-> Stored(q[j])] \in Seq(UndoRecords) BY <2>3, <2>4, IsASeq
    <2> QED BY <2>1, <2>3, <2>5
<1>15. z \in Seq(Seq(UndoRecords)) BY <1>10, <1>13, <1>14, IsASeq
<1>16. ASSUME NEW i \in 1..n PROVE UndoFor(z, i) = StoredUndo(a[i - 1].view, b[i])
    <2>1. PICK w, t : w = a[i - 1].view /\ t = b[i] OBVIOUS
    <2>2. t \in Txs BY <1>2, <2>1
    <2>3. CASE i = 1
        <3>1. Kind[t] = "coinbase" BY <1>1, <2>1, <2>3, BlockFacts
        <3>2. Vin[t] = <<>> BY <2>2, <3>1, TxsAssumption
        <3>3. Len(Vin[t]) = 0 BY <3>2, EmptySeq
        <3>4. StoredUndo(w, t) = [j \in 1..0 |-> Stored(UndoOf(w, t, j))]
              BY <3>3 DEF StoredUndo
        <3>5. StoredUndo(w, t) = <<>> BY <3>4, EmptySeq
        <3> QED BY <2>1, <2>3, <3>5 DEF UndoFor
    <2>4. CASE i # 1
        <3>1. i \in 2..n /\ i - 1 \in 1..(n - 1) BY <2>4
        <3>2. s[i - 1] = RawUndo(w, t) BY <1>10, <2>1, <3>1
        <3>3. z[i - 1] = [j \in DOMAIN s[i - 1] |-> Stored(s[i - 1][j])] BY <1>13, <3>1
        <3>4. z[i - 1] = [j \in DOMAIN RawUndo(w, t) |-> Stored(RawUndo(w, t)[j])]
              BY <3>2, <3>3
        <3>5. DOMAIN RawUndo(w, t) = 1..Len(Vin[t])
              /\ \A j \in 1..Len(Vin[t]) : RawUndo(w, t)[j] = UndoOf(w, t, j)
              BY DEF RawUndo
        <3>6. z[i - 1] = StoredUndo(w, t) BY <3>4, <3>5 DEF StoredUndo
        <3> QED BY <2>1, <2>4, <3>6 DEF UndoFor
    <2> QED BY <2>3, <2>4
<1> QED BY <1>1, <1>9, <1>12, <1>15, <1>16 DEF RightUndo

\* The loop over the transactions of a block, the last one first.
DisconnectSteps(u, x, b, undo, h) ==
    LET n == Len(b) IN
    /\ u[0] = [view |-> x, clean |-> TRUE]
    /\ \A k \in 0..n : u[k] \in Accs
    /\ \A k \in 1..n : u[k] = DisconnectTx(u[k - 1], b[n + 1 - k], UndoFor(undo, n + 1 - k), h)

LEMMA DisconnectionsFold ==
    ASSUME NEW x \in Views, NEW b \in Blocks, NEW h \in Nat, NEW undo,
           \A i \in 1..Len(b) : UndoFor(undo, i) \in Undoings(b[i])
    PROVE  DisconnectSteps(Disconnections(x, b, undo, h), x, b, undo, h)
<1>0. PICK n, u : n = Len(b) /\ u = Disconnections(x, b, undo, h) OBVIOUS
<1>1. n \in Nat /\ \A i \in 1..n : b[i] \in Txs BY <1>0, BlockFacts
<1>2. PICK start : start = [view |-> x, clean |-> TRUE] OBVIOUS
<1>3. start \in Accs BY <1>2 DEF Accs
<1>4. \A k \in 1..n : n + 1 - k \in 1..n BY <1>1
<1>5. \A k \in 1..n, acc \in Accs :
          DisconnectTx(acc, b[n + 1 - k], UndoFor(undo, n + 1 - k), h) \in Accs
    <2> SUFFICES ASSUME NEW k \in 1..n, NEW acc \in Accs
                 PROVE  DisconnectTx(acc, b[n + 1 - k], UndoFor(undo, n + 1 - k), h) \in Accs
        OBVIOUS
    <2>1. PICK i \in 1..n : i = n + 1 - k BY <1>4
    <2>2. b[i] \in Txs /\ UndoFor(undo, i) \in Undoings(b[i]) BY <1>0, <1>1
    <2>3. DisconnectTx(acc, b[i], UndoFor(undo, i), h) \in Accs BY <2>2, DisconnectTxTyped
    <2> QED BY <2>1, <2>3
<1>6. PICK step : step = [k \in 1..n |-> [acc \in Accs |->
                             DisconnectTx(acc, b[n + 1 - k], UndoFor(undo, n + 1 - k), h)]]
      OBVIOUS
<1>7. Steps(step, n, Accs) BY <1>1, <1>5, <1>6 DEF Steps
<1>8. PICK f : IsFold(f, n, Accs, start, step) BY <1>3, <1>7, FoldExists
<1>9. f \in [0..n -> Accs] /\ f[0] = start /\ \A k \in 1..n : f[k] = step[k][f[k - 1]]
      BY <1>8 DEF IsFold
<1>10. \A k \in 1..n : f[k] = DisconnectTx(f[k - 1], b[n + 1 - k], UndoFor(undo, n + 1 - k), h)
    <2> SUFFICES ASSUME NEW k \in 1..n
                 PROVE  f[k] = DisconnectTx(f[k - 1], b[n + 1 - k],
                                            UndoFor(undo, n + 1 - k), h)
        OBVIOUS
    <2>1. f[k - 1] \in Accs BY <1>1, <1>9
    <2> QED BY <1>6, <1>9, <2>1
\* As the definition of Disconnections puts it.
<1>11. \A k \in 1..n : UndoFor(undo, n + 1 - k) = IF k = n THEN <<>> ELSE undo[n - k]
    <2> SUFFICES ASSUME NEW k \in 1..n
                 PROVE  UndoFor(undo, n + 1 - k) = IF k = n THEN <<>> ELSE undo[n - k]
        OBVIOUS
    <2>1. PICK i : i = n + 1 - k OBVIOUS
    <2>2. (i = 1 <=> k = n) /\ i - 1 = n - k BY <1>1, <2>1
    <2>3. UndoFor(undo, i) = IF i = 1 THEN <<>> ELSE undo[i - 1] BY DEF UndoFor
    <2> QED BY <2>1, <2>2, <2>3
<1>12. f = [k \in 0..Len(b) |->
               IF k = 0 THEN [view |-> x, clean |-> TRUE]
               ELSE DisconnectTx(f[k - 1], b[Len(b) + 1 - k],
                                 IF k = Len(b) THEN <<>> ELSE undo[Len(b) - k], h)]
    <2>1. \A k \in 0..n : f[k] = IF k = 0 THEN start
                                 ELSE DisconnectTx(f[k - 1], b[n + 1 - k],
                                                   IF k = n THEN <<>> ELSE undo[n - k], h)
        <3> SUFFICES ASSUME NEW k \in 0..n
                     PROVE  f[k] = IF k = 0 THEN start
                                   ELSE DisconnectTx(f[k - 1], b[n + 1 - k],
                                                     IF k = n THEN <<>> ELSE undo[n - k], h)
            OBVIOUS
        <3>1. CASE k = 0 BY <1>9, <3>1
        <3>2. CASE k # 0
            <4>1. k \in 1..n BY <1>1, <3>2
            <4>2. f[k] = DisconnectTx(f[k - 1], b[n + 1 - k], UndoFor(undo, n + 1 - k), h)
                  BY <1>10, <4>1
            <4>3. UndoFor(undo, n + 1 - k) = IF k = n THEN <<>> ELSE undo[n - k]
                  BY <1>11, <4>1
            <4> QED BY <3>2, <4>2, <4>3
        <3> QED BY <3>1, <3>2
    <2>2. f = [k \in 0..n |-> f[k]] BY <1>9
    <2> QED BY <1>0, <1>2, <2>1, <2>2
<1>13. u = [k \in 0..Len(b) |->
               IF k = 0 THEN [view |-> x, clean |-> TRUE]
               ELSE DisconnectTx(u[k - 1], b[Len(b) + 1 - k],
                                 IF k = Len(b) THEN <<>> ELSE undo[Len(b) - k], h)]
       BY <1>0, <1>12 DEF Disconnections
<1>14. u[0] = start
       /\ \A k \in 1..n : u[k] = DisconnectTx(u[k - 1], b[n + 1 - k],
                                              UndoFor(undo, n + 1 - k), h)
    <2>1. u[0] = start
        <3>1. 0 \in 0..n BY <1>1
        <3> QED BY <1>0, <1>2, <1>13, <3>1
    <2>2. ASSUME NEW k \in 1..n
          PROVE  u[k] = DisconnectTx(u[k - 1], b[n + 1 - k], UndoFor(undo, n + 1 - k), h)
        <3>1. k \in 0..n /\ k # 0 BY <1>1
        <3>2. u[k] = DisconnectTx(u[k - 1], b[n + 1 - k],
                                  IF k = n THEN <<>> ELSE undo[n - k], h)
              BY <1>0, <1>13, <3>1
        <3>3. UndoFor(undo, n + 1 - k) = IF k = n THEN <<>> ELSE undo[n - k] BY <1>11
        <3> QED BY <3>2, <3>3
    <2> QED BY <2>1, <2>2
<1>15. PICK T : T = {k \in 0..n : u[k] \in Accs} OBVIOUS
<1>16. 0 \in T BY <1>1, <1>3, <1>14, <1>15
<1>17. \A k \in 1..n : k - 1 \in T => k \in T BY <1>5, <1>14, <1>15
<1>18. \A k \in 0..n : k \in T BY <1>1, <1>16, <1>17, StepByStep
<1>19. \A k \in 0..n : u[k] \in Accs BY <1>15, <1>18
<1> QED BY <1>0, <1>2, <1>14, <1>19 DEF DisconnectSteps

\* DisconnectBlock takes back what ConnectBlock did, on any view that differs
\* from the one it left only in how it holds what is fully spent.
LEMMA BlockReverts ==
    ASSUME StakesKept, SoundView(coins), NEW b \in Blocks, NotOverwriting(b),
           NEW h \in Nat, h >= 1, NEW a, Connected(a, b, h),
           NEW undo, RightUndo(a, b, undo),
           NEW x \in Views, Alike(x, a[Len(b)].view),
           NEW r, r = Undone(x, b, undo, h)
    PROVE  r \in Accs /\ r.clean = TRUE /\ Alike(r.view, coins)
<1>1. PICK n \in Nat : n = Len(b) BY BlockFacts
<1>2. /\ \A i \in 1..n : b[i] \in Sent /\ b[i] \in Txs BY <1>1, BlockFacts
<1>3. /\ a[0] = [view |-> coins, undo |-> <<>>, ok |-> TRUE]
      /\ \A i \in 1..n : /\ InputsOK(a[i - 1].view, b[i], h)
                         /\ a[i].view = ConnectedTx(a[i - 1].view, b[i], h)
      BY <1>1 DEF Connected
<1>4. \A i \in 0..n : /\ SoundView(a[i].view)
                      /\ \A j \in (i + 1)..n : IsPruned(a[i].view[b[j]])
      BY <1>1, BlockSound
<1>5. \A i \in 1..n : i - 1 \in 0..n BY <1>1
<1>6. \A i \in 1..n : UndoFor(undo, i) = StoredUndo(a[i - 1].view, b[i])
      BY <1>1 DEF RightUndo
<1>7. \A i \in 1..n : UndoFor(undo, i) \in Undoings(b[i])
      BY <1>2, <1>4, <1>5, <1>6, StoredUndoTyped DEF SoundView
<1>8. PICK u : u = Disconnections(x, b, undo, h) OBVIOUS
<1>9. DisconnectSteps(u, x, b, undo, h) BY <1>1, <1>7, <1>8, DisconnectionsFold
<1>10. /\ u[0] = [view |-> x, clean |-> TRUE]
       /\ \A k \in 0..n : u[k] \in Accs
       /\ \A k \in 1..n :
              u[k] = DisconnectTx(u[k - 1], b[n + 1 - k], UndoFor(undo, n + 1 - k), h)
       BY <1>1, <1>9 DEF DisconnectSteps
<1>11. PICK T : T = {k \in 0..n : u[k].clean = TRUE /\ Alike(u[k].view, a[n - k].view)}
       OBVIOUS
<1>12. 0 \in T
    <2>1. n - 0 = n /\ 0 \in 0..n BY <1>1
    <2>2. u[0].view = x /\ u[0].clean = TRUE BY <1>10
    <2> QED BY <1>1, <1>11, <2>1, <2>2
<1>13. ASSUME NEW k \in 1..n, k - 1 \in T PROVE k \in T
    <2>1. PICK i \in 1..n : i = n + 1 - k
        <3>1. n + 1 - k \in 1..n BY <1>1
        <3> QED BY <3>1
    <2>2. n - (k - 1) = i /\ n - k = i - 1 /\ k \in 0..n /\ k - 1 \in 0..n BY <1>1, <2>1
    <2>3. PICK w, t : w = a[i - 1].view /\ t = b[i] OBVIOUS
    <2>4. PICK acc : acc = u[k - 1] OBVIOUS
    <2>5. acc \in Accs /\ acc.clean = TRUE /\ Alike(acc.view, a[i].view)
          BY <1>10, <1>11, <1>13, <2>2, <2>4
    <2>6. acc.view \in Views /\ acc = [view |-> acc.view, clean |-> TRUE] BY <2>5 DEF Accs
    <2>7. t \in Sent /\ SoundView(w) /\ IsPruned(w[t])
        <3>1. i - 1 \in 0..n /\ i \in ((i - 1) + 1)..n BY <1>1
        <3> QED BY <1>2, <1>4, <2>3, <3>1
    <2>8. HasInputs(w, t) BY <1>3, <2>3 DEF InputsOK, InputOK, HasInputs
    <2>9. Alike(acc.view, ConnectedTx(w, t, h)) BY <1>3, <2>3, <2>5
    <2>10. u[k] = DisconnectTx([view |-> acc.view, clean |-> TRUE], t, StoredUndo(w, t), h)
           BY <1>6, <1>10, <2>1, <2>3, <2>4, <2>6
    <2>11. u[k].clean = TRUE /\ Alike(u[k].view, w)
           BY <2>6, <2>7, <2>8, <2>9, <2>10, TxReverts
    <2> QED BY <1>11, <2>2, <2>3, <2>11
<1>14. n \in T
    <2>1. \A k \in 0..n : k \in T BY <1>1, <1>12, <1>13, StepByStep
    <2> QED BY <1>1, <2>1
<1>15. u[n].clean = TRUE /\ Alike(u[n].view, coins)
    <2>1. n - n = 0 BY <1>1
    <2>2. a[0].view = coins BY <1>3
    <2> QED BY <1>11, <1>14, <2>1, <2>2
<1>16. r = u[n] /\ u[n] \in Accs BY <1>1, <1>8, <1>10 DEF Undone
<1> QED BY <1>15, <1>16

-----------------------------------------------------------------------------
(* Places in the chain                                                     *)

Chain(c) == /\ c \in Seq(Seq(Txs))
            /\ \A h \in 1..Len(c) : \A i, j \in 1..Len(c[h]) : c[h][i] = c[h][j] => i = j

LEMMA PlacesFacts ==
    ASSUME NEW c, Chain(c), NEW t
    PROVE  \A p : p \in Places(c, t) <=>
               \E h \in 1..Len(c) : \E i \in 1..Len(c[h]) : c[h][i] = t /\ p = <<h, i>>
<1>1. DOMAIN c = 1..Len(c) /\ \A h \in 1..Len(c) : DOMAIN c[h] = 1..Len(c[h])
      BY LenProperties, ElementOfSeq DEF Chain
<1> QED BY <1>1 DEF Places

LEMMA PlacesTyped ==
    ASSUME NEW c, Chain(c), NEW t, NEW p \in Places(c, t)
    PROVE  /\ p \in Nat \X Nat /\ p[1] \in 1..Len(c) /\ p[2] \in 1..Len(c[p[1]])
           /\ c[p[1]][p[2]] = t /\ p = <<p[1], p[2]>>
<1>1. PICK h \in 1..Len(c) : \E i \in 1..Len(c[h]) : c[h][i] = t /\ p = <<h, i>>
      BY PlacesFacts
<1>2. PICK i \in 1..Len(c[h]) : c[h][i] = t /\ p = <<h, i>> BY <1>1
<1>3. Len(c) \in Nat /\ Len(c[h]) \in Nat BY LenProperties, ElementOfSeq DEF Chain
<1>4. p[1] = h /\ p[2] = i /\ h \in Nat /\ i \in Nat BY <1>2, <1>3
<1> QED BY <1>2, <1>4

LEMMA LaterFacts ==
    ASSUME NEW p \in Nat \X Nat, NEW q \in Nat \X Nat
    PROVE  /\ ~Later(p, p)
           /\ ~(Later(p, q) /\ Later(q, p))
           /\ Later(p, q) => p[1] >= q[1]
BY DEF Later

\* A transaction that is in the chain has a last place: it is no more than once
\* in a block.
LEMMA LastPlaceFacts ==
    ASSUME NEW c, Chain(c), NEW t, Places(c, t) # {},
           NEW l, l = LastPlace(c, t)
    PROVE  l \in Places(c, t) /\ \A q \in Places(c, t) \ {l} : Later(l, q)
<1>1. PICK S : S = Places(c, t) OBVIOUS
<1>2. PICK n \in Nat : n = Len(c) BY LenProperties DEF Chain
<1>3. \A p \in S : /\ p \in Nat \X Nat /\ p[1] \in 1..n /\ p[2] \in 1..Len(c[p[1]])
                   /\ c[p[1]][p[2]] = t /\ p = <<p[1], p[2]>>
      BY <1>1, <1>2, PlacesTyped
<1>4. PICK D : D = {n - p[1] : p \in S} OBVIOUS
<1>5. D \in SUBSET Nat /\ D # {} BY <1>1, <1>2, <1>3, <1>4
<1>6. PICK m \in D : \A k \in D : m <= k BY <1>5, LeastElement
<1>7. PICK p \in S : m = n - p[1] BY <1>4, <1>6
<1>8. ASSUME NEW q \in S \ {p} PROVE Later(p, q)
    <2>1. p[1] \in Nat /\ q[1] \in Nat BY <1>3
    <2>2. n - p[1] <= n - q[1] BY <1>4, <1>6, <1>7
    <2>3. q[1] <= p[1] BY <2>1, <2>2
    <2>4. CASE q[1] = p[1]
        <3>1. p[2] = q[2] BY <1>2, <1>3, <2>4 DEF Chain
        <3>2. p = q BY <1>3, <2>4, <3>1
        <3> QED BY <3>2
    <2>5. CASE q[1] # p[1]
        <3>1. p[1] > q[1] BY <2>1, <2>3, <2>5
        <3> QED BY <3>1 DEF Later
    <2> QED BY <2>4, <2>5
<1>9. \E x \in S : \A q \in S \ {x} : Later(x, q) BY <1>7, <1>8
<1>10. LastOf(S) \in S /\ \A q \in S \ {LastOf(S)} : Later(LastOf(S), q)
       BY <1>9 DEF LastOf
<1> QED BY <1>1, <1>10 DEF LastPlace

\* Two chains with the same transactions at the same places are alike.
LEMMA SamePlaces ==
    ASSUME NEW c, NEW d, \A t \in Txs : Places(c, t) = Places(d, t)
    PROVE  /\ \A t \in Txs : Determined(c, t) = Determined(d, t)
           /\ Matured(c) <=> Matured(d)
<1>1. \A t \in Txs : LastPlace(c, t) = LastPlace(d, t) BY DEF LastPlace
<1>2. \A t \in Txs : \A p : UnspentSince(c, t, p) = UnspentSince(d, t, p) BY DEF UnspentSince
<1>3. \A t \in Txs : Determined(c, t) = Determined(d, t)
    <2> SUFFICES ASSUME NEW t \in Txs PROVE Determined(c, t) = Determined(d, t) OBVIOUS
    <2>1. PICK p : p = LastPlace(c, t) /\ p = LastPlace(d, t) BY <1>1
    <2>2. PICK x : x = UnspentSince(c, t, p) /\ x = UnspentSince(d, t, p) BY <1>2
    <2>3. Determined(c, t) = IF Places(c, t) = {} THEN NoCoins
                             ELSE [FromTx(t, p[1]) EXCEPT !.outs = x]
          BY <2>1, <2>2 DEF Determined
    <2>4. Determined(d, t) = IF Places(d, t) = {} THEN NoCoins
                             ELSE [FromTx(t, p[1]) EXCEPT !.outs = x]
          BY <2>1, <2>2 DEF Determined
    <2> QED BY <2>3, <2>4
<1>4. Matured(c) <=> Matured(d) BY DEF Matured
<1> QED BY <1>3, <1>4

\* The chain d is c with the transaction t added at the place p.
Adds(c, d, t, p) ==
    /\ Chain(c) /\ Chain(d) /\ t \in Txs /\ p \in Nat \X Nat
    /\ \A u \in Txs : u # t => Places(d, u) = Places(c, u)
    /\ Places(d, t) = Places(c, t) \cup {p}
    /\ \A u \in Txs : \A q \in Places(c, u) : Later(p, q)

LEMMA AddedIsLast ==
    ASSUME NEW c, NEW d, NEW t, NEW p, Adds(c, d, t, p)
    PROVE  /\ LastPlace(d, t) = p
           /\ \A u \in Txs : \A q \in Places(d, u) : ~Later(q, p)
<1>1. \A u \in Txs : \A q \in Places(c, u) : q \in Nat \X Nat BY PlacesTyped DEF Adds
<1>2. p \in Nat \X Nat /\ t \in Txs BY DEF Adds
<1>3. ASSUME NEW u \in Txs, NEW q \in Places(d, u) PROVE ~Later(q, p)
    <2>1. q \in Places(c, u) \/ q = p BY DEF Adds
    <2>2. CASE q \in Places(c, u)
        <3>1. Later(p, q) BY <2>2 DEF Adds
        <3> QED BY <1>1, <1>2, <2>2, <3>1, LaterFacts
    <2>3. CASE q = p BY <1>2, <2>3, LaterFacts
    <2> QED BY <2>1, <2>2, <2>3
<1>4. PICK S : S = Places(d, t) OBVIOUS
<1>5. p \in S BY <1>4 DEF Adds
<1>6. PICK l : l = LastPlace(d, t) OBVIOUS
<1>7. l \in S /\ \A q \in S \ {l} : Later(l, q)
      BY <1>4, <1>5, <1>6, LastPlaceFacts DEF Adds
<1>8. l = p
    <2>1. ~Later(l, p) BY <1>2, <1>3, <1>4, <1>7
    <2> QED BY <1>5, <1>7, <2>1
<1> QED BY <1>3, <1>6, <1>8

\* The outputs of u in X that t does not spend.
LeftBy(X, t, u) == {n \in X : \A i \in 1..Len(Vin[t]) : Vin[t][i] # <<u, n>>}
LEMMA AddedSpends ==
    ASSUME NEW c, NEW d, NEW t, NEW p, Adds(c, d, t, p),
           NEW u \in Txs, NEW q \in Places(c, u)
    PROVE  UnspentSince(d, u, q) = LeftBy(UnspentSince(c, u, q), t, u)
<1>1. PICK O : O = FromTx(u, 0).outs OBVIOUS
<1>2. t \in Txs /\ DOMAIN Vin[t] = 1..Len(Vin[t]) BY InputFacts DEF Adds
<1>3. Later(p, q) BY DEF Adds
<1>4. \A x \in Txs : Places(d, x) = IF x = t THEN Places(c, x) \cup {p} ELSE Places(c, x)
      BY DEF Adds
<1>5. ASSUME NEW n \in O
      PROVE  (\E x \in Txs : \E r \in Places(d, x) :
                 Later(r, q) /\ \E i \in DOMAIN Vin[x] : Vin[x][i] = <<u, n>>)
             <=> \/ \E x \in Txs : \E r \in Places(c, x) :
                        Later(r, q) /\ \E i \in DOMAIN Vin[x] : Vin[x][i] = <<u, n>>
                 \/ \E i \in DOMAIN Vin[t] : Vin[t][i] = <<u, n>>
    <2>1. PICK B : B = {x \in Txs : \E i \in DOMAIN Vin[x] : Vin[x][i] = <<u, n>>} OBVIOUS
    <2>2. (\E x \in B : \E r \in Places(d, x) : Later(r, q))
          <=> (\E x \in B : \E r \in Places(c, x) : Later(r, q)) \/ t \in B
        <3>1. \A x \in B : x \in Txs BY <2>1
        <3> QED BY <1>2, <1>3, <1>4, <3>1
    <2> QED BY <1>2, <2>1, <2>2
<1>6. UnspentSince(d, u, q) =
          {n \in O : ~\E x \in Txs : \E r \in Places(d, x) :
                         Later(r, q) /\ \E i \in DOMAIN Vin[x] : Vin[x][i] = <<u, n>>}
      BY <1>1 DEF UnspentSince
<1>7. UnspentSince(c, u, q) =
          {n \in O : ~\E x \in Txs : \E r \in Places(c, x) :
                         Later(r, q) /\ \E i \in DOMAIN Vin[x] : Vin[x][i] = <<u, n>>}
      BY <1>1 DEF UnspentSince
<1> QED BY <1>2, <1>5, <1>6, <1>7 DEF LeftBy

LEMMA DeterminedTyped ==
    ASSUME NEW c, Chain(c), NEW t \in Txs
    PROVE  /\ Places(c, t) = {} => Determined(c, t) = NoCoins
           /\ Places(c, t) # {} =>
                  Determined(c, t) =
                      [outs |-> UnspentSince(c, t, LastPlace(c, t)),
                       base |-> Kind[t] = "coinbase", stake |-> Kind[t] = "coinstake",
                       height |-> LastPlace(c, t)[1], version |-> 1]
           /\ Determined(c, t) \in Coin
<1>1. PICK l : l = LastPlace(c, t) OBVIOUS
<1>2. CASE Places(c, t) = {}
    <2>1. Determined(c, t) = NoCoins BY <1>2 DEF Determined
    <2> QED BY <1>2, <2>1, NoCoinsFacts
<1>3. CASE Places(c, t) # {}
    <2>1. l \in Places(c, t) BY <1>1, <1>3, LastPlaceFacts
    <2>2. l[1] \in Nat BY <2>1, PlacesTyped
    <2>3. PICK x : x = UnspentSince(c, t, l) OBVIOUS
    <2>4. FromTx(t, 0).outs \in SUBSET Nat BY FromTxFacts DEF Coin
    <2>5. x \in SUBSET Nat BY <2>3, <2>4 DEF UnspentSince
    <2>6. PICK f : f = FromTx(t, l[1]) OBVIOUS
    <2>7. f \in Coin /\ f.base = (Kind[t] = "coinbase") /\ f.stake = (Kind[t] = "coinstake")
          /\ f.height = l[1] /\ f.version = 1
        <3>1. f \in Coin BY <2>2, <2>6, FromTxFacts
        <3> QED BY <2>6, <3>1 DEF FromTx
    <2>8. Determined(c, t) = [f EXCEPT !.outs = x] BY <1>1, <1>3, <2>3, <2>6 DEF Determined
    <2>9. /\ [f EXCEPT !.outs = x] \in Coin
          /\ [f EXCEPT !.outs = x] = [outs |-> x, base |-> f.base, stake |-> f.stake,
                                      height |-> f.height, version |-> f.version]
          BY <2>5, <2>7, CoinShape
    <2> QED BY <1>1, <1>3, <2>3, <2>7, <2>8, <2>9
<1> QED BY <1>2, <1>3

\* Connecting a transaction keeps the view to what the chain determines.
LEMMA MatchStep ==
    ASSUME NEW c, NEW d, NEW t, NEW p, Adds(c, d, t, p),
           NEW w \in Views, Matches(w, c)
    PROVE  Matches(ConnectedTx(w, t, p[1]), d)
<1>0. Chain(c) /\ Chain(d) /\ t \in Txs /\ p \in Nat \X Nat /\ p[1] \in Nat BY DEF Adds
<1>1. PICK n : n = Len(Vin[t]) OBVIOUS
<1>2. n \in 0..Len(Vin[t]) BY <1>0, <1>1, InputFacts
<1>3. PICK v : v = ConnectedTx(w, t, p[1]) OBVIOUS
<1>4. v \in Views /\ v[t] = FromTx(t, p[1])
      /\ \A u \in Txs : u # t => v[u] = SpentFrom(w, t, n)[u]
      BY <1>0, <1>1, <1>3, ConnectedTxFacts
<1>5. Same(v[t], Determined(d, t))
    <2>1. LastPlace(d, t) = p /\ \A u \in Txs : \A q \in Places(d, u) : ~Later(q, p)
          BY AddedIsLast
    <2>2. Places(d, t) # {} BY DEF Adds
    <2>3. UnspentSince(d, t, p) = FromTx(t, 0).outs BY <2>1 DEF UnspentSince
    <2>4. Determined(d, t) = [outs |-> FromTx(t, 0).outs, base |-> Kind[t] = "coinbase",
                              stake |-> Kind[t] = "coinstake", height |-> p[1], version |-> 1]
          BY <1>0, <2>1, <2>2, <2>3, DeterminedTyped
    <2>5. Determined(d, t) = FromTx(t, p[1]) BY <2>4 DEF FromTx
    <2> QED BY <1>4, <2>5, SameEquivalence
<1>6. ASSUME NEW u \in Txs, u # t PROVE Same(v[u], Determined(d, u))
    <2>1. PICK e, f, g : e = w[u] /\ f = Determined(c, u) /\ g = Determined(d, u) OBVIOUS
    <2>2. Same(e, f) BY <2>1 DEF Matches
    <2>3. v[u] = [outs |-> Outs(w, t, n, u), base |-> e.base, stake |-> e.stake,
                  height |-> e.height, version |-> e.version]
          BY <1>0, <1>2, <1>4, <1>6, <2>1, SpentFromFacts
    <2>4. Outs(w, t, n, u) = {m \in e.outs : \A i \in 1..n : Vin[t][i] # <<u, m>>}
          BY <2>1 DEF Outs
    <2>5. Places(d, u) = Places(c, u) BY <1>6 DEF Adds
    <2>6. LastPlace(d, u) = LastPlace(c, u) BY <2>5 DEF LastPlace
    <2>7. CASE Places(c, u) = {}
        <3>1. f = NoCoins /\ g = NoCoins BY <1>0, <2>1, <2>5, <2>7, DeterminedTyped
        <3>2. IsPruned(f) /\ IsPruned(g) BY <3>1, NoCoinsFacts
        <3>3. IsPruned(e) BY <2>2, <3>2 DEF Same
        <3>4. IsPruned(v[u]) BY <2>3, <2>4, <3>3 DEF IsPruned
        <3> QED BY <2>1, <3>2, <3>4 DEF Same
    <2>8. CASE Places(c, u) # {}
        <3>1. PICK q : q = LastPlace(c, u) OBVIOUS
        <3>2. q \in Places(c, u) BY <1>0, <2>8, <3>1, LastPlaceFacts
        <3>3. PICK x, y : x = UnspentSince(c, u, q) /\ y = UnspentSince(d, u, q) OBVIOUS
        <3>4. y = {m \in x : \A i \in 1..n : Vin[t][i] # <<u, m>>}
            <4>1. y = LeftBy(x, t, u) BY <3>2, <3>3, AddedSpends
            <4> QED BY <1>1, <4>1 DEF LeftBy
        <3>5. f = [outs |-> x, base |-> Kind[u] = "coinbase", stake |-> Kind[u] = "coinstake",
                   height |-> q[1], version |-> 1]
              BY <1>0, <2>1, <2>8, <3>1, <3>3, DeterminedTyped
        <3>6. g = [outs |-> y, base |-> Kind[u] = "coinbase", stake |-> Kind[u] = "coinstake",
                   height |-> q[1], version |-> 1]
              BY <1>0, <2>1, <2>5, <2>6, <2>8, <3>1, <3>3, DeterminedTyped
        <3>7. CASE e = f
            <4>1. e.outs = x BY <3>5, <3>7
            <4>2. Outs(w, t, n, u) = y BY <2>4, <3>4, <4>1
            <4>3. v[u] = g BY <2>3, <3>5, <3>6, <3>7, <4>2
            <4> QED BY <2>1, <4>3, SameEquivalence
        <3>8. CASE IsPruned(e) /\ IsPruned(f)
            <4>1. IsPruned(v[u]) BY <2>3, <2>4, <3>8 DEF IsPruned
            <4>2. x = {} BY <3>5, <3>8 DEF IsPruned
            <4>3. IsPruned(g) BY <3>4, <3>6, <4>2 DEF IsPruned
            <4> QED BY <2>1, <4>1, <4>3 DEF Same
        <3> QED BY <2>2, <3>7, <3>8 DEF Same
    <2> QED BY <2>7, <2>8
<1> QED BY <1>3, <1>5, <1>6 DEF Matches

\* What a connected transaction spends of a coinbase or coinstake has matured.
LEMMA MaturedStep ==
    ASSUME NEW c, NEW d, NEW t, NEW p, Adds(c, d, t, p),
           NEW w \in Views, Matches(w, c), InputsOK(w, t, p[1]), Matured(c)
    PROVE  Matured(d)
<1>0. Chain(c) /\ Chain(d) /\ t \in Txs /\ p \in Nat \X Nat /\ p[1] \in Nat BY DEF Adds
<1>1. SUFFICES ASSUME NEW x \in Txs, NEW u \in Txs, Kind[u] # "plain",
                      NEW r \in Places(d, x), NEW q \in Places(d, u),
                      \E i \in DOMAIN Vin[x] : Vin[x][i][1] = u, Later(r, q)
               PROVE  r[1] - q[1] >= Maturity
      BY DEF Matured
<1>2. ~Later(q, p) BY <1>1, AddedIsLast
<1>3. r \in Nat \X Nat /\ q \in Nat \X Nat BY <1>0, <1>1, PlacesTyped
<1>4. q # p
    <2>1. ~Later(r, p) BY <1>1, AddedIsLast
    <2> QED BY <1>1, <2>1
<1>5. q \in Places(c, u) BY <1>1, <1>4 DEF Adds
<1>6. CASE r \in Places(c, x) BY <1>1, <1>5, <1>6 DEF Matured
<1>7. CASE r \notin Places(c, x)
    <2>1. r = p /\ x = t BY <1>1, <1>7 DEF Adds
    <2>2. DOMAIN Vin[t] = 1..Len(Vin[t]) BY <1>0, InputFacts
    <2>3. PICK i \in 1..Len(Vin[t]) : Vin[t][i][1] = u BY <1>1, <2>1, <2>2
    <2>4. PICK e : e = w[u] OBVIOUS
    <2>5. Vin[t][i][2] \in e.outs /\ (e.base \/ e.stake => p[1] - e.height >= Maturity)
          BY <2>3, <2>4 DEF InputsOK, InputOK
    <2>6. PICK l : l = LastPlace(c, u) OBVIOUS
    <2>7. l \in Places(c, u) /\ \A y \in Places(c, u) \ {l} : Later(l, y)
          BY <1>0, <1>1, <1>5, <2>6, LastPlaceFacts
    <2>8. Same(e, Determined(c, u)) BY <1>1, <2>4 DEF Matches
    <2>9. ~IsPruned(e) BY <2>5 DEF IsPruned
    <2>10. e = Determined(c, u) BY <2>8, <2>9, SameEquivalence
    <2>11. e = [outs |-> UnspentSince(c, u, l),
                base |-> Kind[u] = "coinbase", stake |-> Kind[u] = "coinstake",
                height |-> l[1], version |-> 1]
           BY <1>0, <1>5, <2>6, <2>10, DeterminedTyped
    <2>12. e.base \/ e.stake
        <3>1. Kind[u] = "coinbase" \/ Kind[u] = "coinstake" BY <1>1, TxsAssumption
        <3> QED BY <2>11, <3>1
    <2>13. e.height = l[1] BY <2>11
    <2>14. p[1] - l[1] >= Maturity BY <2>5, <2>12, <2>13
    <2>15. l \in Nat \X Nat BY <1>0, <2>7, PlacesTyped
    <2>16. q[1] <= l[1]
        <3>1. CASE q = l BY <2>15, <3>1
        <3>2. CASE q # l
            <4>1. Later(l, q) BY <1>5, <2>7, <3>2
            <4>2. l[1] >= q[1] BY <1>3, <2>15, <4>1, LaterFacts
            <4> QED BY <1>3, <2>15, <4>2
        <3> QED BY <3>1, <3>2
    <2>17. p[1] \in Nat /\ q[1] \in Nat /\ l[1] \in Nat /\ Maturity \in Nat
           BY <1>0, <1>3, <2>15, BoundAssumption
    <2>18. p[1] - q[1] >= Maturity BY ONLY <2>14, <2>16, <2>17
    <2> QED BY <2>1, <2>18
<1> QED BY <1>6, <1>7

\* What the chain determines is sound.
LEMMA MatchesSound ==
    ASSUME StakesKept, NEW c \in Seq(Blocks), NEW w \in Views, Matches(w, c)
    PROVE  Chain(c) /\ SoundView(w)
<1>1. \A h \in 1..Len(c) : c[h] \in Blocks BY ElementOfSeq
<1>2. Chain(c)
    <2>1. Blocks \subseteq Seq(Txs) BY BlocksAssumption
    <2>2. c \in Seq(Seq(Txs)) BY <2>1, SeqMonotonic
    <2> QED BY <1>1, <2>2, BlockFacts DEF Chain
<1>3. ASSUME NEW t \in Txs PROVE SoundCoin(t, w[t])
    <2>1. PICK e, f : e = w[t] /\ f = Determined(c, t) OBVIOUS
    <2>2. e = f \/ (IsPruned(e) /\ IsPruned(f)) BY <2>1 DEF Matches, Same
    <2>3. CASE Places(c, t) = {}
        <3>1. IsPruned(f) BY <1>2, <2>1, <2>3, DeterminedTyped, NoCoinsFacts
        <3>2. IsPruned(e) BY <2>2, <3>1
        <3> QED BY <2>1, <3>2 DEF SoundCoin
    <2>4. CASE Places(c, t) # {}
        <3>1. PICK l : l = LastPlace(c, t) OBVIOUS
        <3>2. l \in Places(c, t) BY <1>2, <2>4, <3>1, LastPlaceFacts
        <3>3. f = [outs |-> UnspentSince(c, t, l), base |-> Kind[t] = "coinbase",
                   stake |-> Kind[t] = "coinstake", height |-> l[1], version |-> 1]
              BY <1>2, <2>1, <2>4, <3>1, DeterminedTyped
        <3>4. l[1] >= 1
            <4>1. l[1] \in 1..Len(c) /\ Len(c) \in Nat
                  BY <1>2, <3>2, PlacesTyped, LenProperties DEF Chain
            <4> QED BY <4>1
        <3>5. Kept(t) \subseteq UnspentSince(c, t, l)
            <4>1. ASSUME NEW x \in Txs, Places(c, x) # {} PROVE x \in Sent
                <5>1. PICK h \in 1..Len(c) : \E i \in 1..Len(c[h]) : c[h][i] = x
                      BY <1>2, <4>1, PlacesFacts
                <5>2. c[h] \in Blocks /\ DOMAIN c[h] = 1..Len(c[h]) BY <1>1, BlockFacts
                <5> QED BY <5>1, <5>2 DEF Sent
            <4> QED BY <4>1 DEF Kept, UnspentSince
        <3>6. f.height >= 1 /\ f.version = 1 /\ f.outs = UnspentSince(c, t, l)
              /\ f.stake = (Kind[t] = "coinstake")
              BY <3>3, <3>4
        <3>7. f.stake => Kept(t) # {} /\ Kept(t) \subseteq f.outs
              BY <3>5, <3>6 DEF StakesKept
        <3>8. SoundCoin(t, f) BY <3>6, <3>7 DEF SoundCoin
        <3> QED BY <2>1, <2>2, <3>8 DEF SoundCoin
    <2> QED BY <2>3, <2>4
<1> QED BY <1>2, <1>3 DEF SoundView

\* The chain c with the first i transactions of b on it.
Partly(c, b, i) == Append(c, SubSeq(b, 1, i))

IsPartly(d, c, b, i, m) ==
    /\ Chain(d) /\ Len(d) = m + 1
    /\ \A h \in 1..m : d[h] = c[h]
    /\ Len(d[m + 1]) = i
    /\ \A j \in 1..i : d[m + 1][j] = b[j]
LEMMA PartlyFacts ==
    ASSUME NEW c, Chain(c), NEW b \in Blocks, NEW i \in 0..Len(b)
    PROVE  Len(c) \in Nat /\ IsPartly(Partly(c, b, i), c, b, i, Len(c))
<1>0. PICK d, m : d = Partly(c, b, i) /\ m = Len(c) OBVIOUS
<1>1. c \in Seq(Seq(Txs)) /\ m \in Nat BY <1>0, LenProperties DEF Chain
<1>2. Len(b) \in Nat /\ \A j \in 1..Len(b) : b[j] \in Txs BY BlockFacts
<1>3. b \in Seq(Txs) BY BlocksAssumption
<1>4. PICK s : s = SubSeq(b, 1, i) OBVIOUS
<1>5. i \in Nat /\ i <= Len(b) BY <1>2
<1>6. s \in Seq(Txs) /\ Len(s) = i /\ \A j \in 1..i : s[j] = b[j]
    <2>1. s = [j \in 1..i |-> b[j]]
        <3>1. \A j \in 1..i : 1 + j - 1 = j BY <1>5
        <3>2. i - 1 + 1 = i BY <1>5
        <3> QED BY <1>4, <3>1, <3>2 DEF SubSeq
    <2>2. \A j \in 1..i : b[j] \in Txs BY <1>2, <1>5
    <2> QED BY <1>5, <2>1, <2>2, IsASeq
<1>7. d = Append(c, s) BY <1>0, <1>4 DEF Partly
<1>8. /\ d \in Seq(Seq(Txs)) /\ Len(d) = m + 1
      /\ \A h \in 1..m : d[h] = c[h]
      /\ d[m + 1] = s
      BY <1>0, <1>1, <1>6, <1>7, AppendProperties
<1>9. \A h \in 1..Len(d) : \A x, y \in 1..Len(d[h]) : d[h][x] = d[h][y] => x = y
    <2> SUFFICES ASSUME NEW h \in 1..Len(d), NEW x \in 1..Len(d[h]), NEW y \in 1..Len(d[h]),
                        d[h][x] = d[h][y]
                 PROVE  x = y
        OBVIOUS
    <2>1. CASE h = m + 1
        <3>1. x \in 1..i /\ y \in 1..i /\ s[x] = s[y] BY <1>6, <1>8, <2>1
        <3>2. x \in 1..Len(b) /\ y \in 1..Len(b) BY <1>2, <1>5, <3>1
        <3>3. b[x] = b[y] BY <1>6, <3>1
        <3> QED BY <3>2, <3>3, BlockFacts
    <2>2. CASE h # m + 1
        <3>1. h \in 1..m
            <4>1. h \in 1..(m + 1) BY <1>8
            <4> QED BY <1>1, <2>2, <4>1
        <3>2. d[h] = c[h] BY <1>8, <3>1
        <3>3. \A k, l \in 1..Len(c[h]) : c[h][k] = c[h][l] => k = l
              BY <1>0, <3>1 DEF Chain
        <3>4. x \in 1..Len(c[h]) /\ y \in 1..Len(c[h]) /\ c[h][x] = c[h][y]
              BY <3>2
        <3> QED BY <3>3, <3>4
    <2> QED BY <2>1, <2>2
<1>10. IsPartly(d, c, b, i, m) BY <1>6, <1>8, <1>9 DEF Chain, IsPartly
<1> QED BY <1>0, <1>1, <1>10

LEMMA PlacesAdd ==
    ASSUME NEW c, Chain(c), NEW b \in Blocks, NEW i \in 1..Len(b)
    PROVE  Adds(Partly(c, b, i - 1), Partly(c, b, i), b[i], <<Len(c) + 1, i>>)
<1>1. PICK d, e, m, t : /\ d = Partly(c, b, i - 1) /\ e = Partly(c, b, i)
                        /\ m = Len(c) /\ t = b[i]
      OBVIOUS
<1>2. Len(b) \in Nat /\ t \in Txs BY <1>1, BlockFacts
<1>3. i - 1 \in 0..Len(b) /\ i \in 0..Len(b) /\ i \in Nat BY <1>2
<1>4. /\ Chain(d) /\ Len(d) = m + 1 /\ m \in Nat
      /\ \A h \in 1..m : d[h] = c[h]
      /\ Len(d[m + 1]) = i - 1
      /\ \A j \in 1..(i - 1) : d[m + 1][j] = b[j]
    <2>1. Len(c) \in Nat /\ IsPartly(Partly(c, b, i - 1), c, b, i - 1, Len(c))
          BY <1>3, PartlyFacts
    <2>2. m \in Nat /\ IsPartly(d, c, b, i - 1, m) BY <1>1, <2>1
    <2> QED BY <2>2 DEF IsPartly
<1>5. /\ Chain(e) /\ Len(e) = m + 1
      /\ \A h \in 1..m : e[h] = c[h]
      /\ Len(e[m + 1]) = i
      /\ \A j \in 1..i : e[m + 1][j] = b[j]
    <2>1. IsPartly(Partly(c, b, i), c, b, i, Len(c)) BY <1>3, PartlyFacts
    <2>2. IsPartly(e, c, b, i, m) BY <1>1, <2>1
    <2> QED BY <2>2 DEF IsPartly
<1>6. PICK p : p = <<m + 1, i>> OBVIOUS
<1>7. p \in Nat \X Nat /\ p[1] = m + 1 /\ p[2] = i BY <1>3, <1>4, <1>6
<1>8. ASSUME NEW u \in Txs, NEW q
      PROVE  q \in Places(e, u) <=> q \in Places(d, u) \/ (u = t /\ q = p)
    <2>1. q \in Places(e, u) <=>
              \E h \in 1..(m + 1) : \E j \in 1..Len(e[h]) : e[h][j] = u /\ q = <<h, j>>
        <3>1. q \in Places(e, u) <=>
                  \E h \in 1..Len(e) : \E j \in 1..Len(e[h]) : e[h][j] = u /\ q = <<h, j>>
              BY <1>5, PlacesFacts
        <3> QED BY <1>5, <3>1
    <2>2. q \in Places(d, u) <=>
              \E h \in 1..(m + 1) : \E j \in 1..Len(d[h]) : d[h][j] = u /\ q = <<h, j>>
        <3>1. q \in Places(d, u) <=>
                  \E h \in 1..Len(d) : \E j \in 1..Len(d[h]) : d[h][j] = u /\ q = <<h, j>>
              BY <1>4, PlacesFacts
        <3> QED BY <1>4, <3>1
    <2>3. \A h \in 1..m : e[h] = d[h] BY <1>4, <1>5
    <2>4. 1..(m + 1) = (1..m) \cup {m + 1} BY <1>4
    <2>5. (\E j \in 1..i : e[m + 1][j] = u /\ q = <<m + 1, j>>) <=>
              \/ \E j \in 1..(i - 1) : d[m + 1][j] = u /\ q = <<m + 1, j>>
              \/ u = t /\ q = p
        <3>1. 1..i = (1..(i - 1)) \cup {i} BY <1>3
        <3>2. \A j \in 1..(i - 1) : e[m + 1][j] = d[m + 1][j] BY <1>4, <1>5, <3>1
        <3>3. e[m + 1][i] = t BY <1>1, <1>5, <3>1
        <3> QED BY <1>6, <3>1, <3>2, <3>3
    <2> QED BY <1>4, <1>5, <2>1, <2>2, <2>3, <2>4, <2>5
<1>9. ASSUME NEW u \in Txs, NEW q \in Places(d, u) PROVE Later(p, q)
    <2>1. q \in Nat \X Nat /\ q[1] \in 1..(m + 1) /\ q[2] \in 1..Len(d[q[1]])
          BY <1>4, PlacesTyped
    <2>2. CASE q[1] = m + 1
        <3>1. q[2] \in 1..(i - 1) BY <1>4, <2>1, <2>2
        <3>2. p[2] > q[2] BY <1>3, <1>7, <3>1
        <3> QED BY <1>7, <2>2, <3>2 DEF Later
    <2>3. CASE q[1] # m + 1
        <3>1. p[1] > q[1] BY <1>4, <1>7, <2>1, <2>3
        <3> QED BY <3>1 DEF Later
    <2> QED BY <2>2, <2>3
<1>10. \A u \in Txs : u # t => Places(e, u) = Places(d, u) BY <1>8
<1>11. Places(e, t) = Places(d, t) \cup {p} BY <1>2, <1>8
<1>12. Adds(d, e, t, p) BY <1>2, <1>4, <1>5, <1>7, <1>9, <1>10, <1>11 DEF Adds
<1> QED BY <1>1, <1>6, <1>12

-----------------------------------------------------------------------------
(* The invariant                                                           *)

\* A view of the chain d, taken back the block b, is a view of the chain c.
Revertible(d, c, b, undo, h) ==
    \A x \in Views : Matches(x, d) =>
        /\ Undone(x, b, undo, h) \in Accs
        /\ Undone(x, b, undo, h).clean = TRUE
        /\ Matches(Undone(x, b, undo, h).view, c)
Below(c, k) == SubSeq(c, 1, k)

UndoTypeOK ==
    /\ connected \in Seq(Blocks)
    /\ undos \in Seq(Seq(Seq(UndoRecords))) /\ Len(undos) = Len(connected)
    /\ coins \in Views
UndoInv ==
    /\ UndoTypeOK
    /\ Matches(coins, connected)
    /\ \A k \in 1..Len(connected) :
           Revertible(Below(connected, k), Below(connected, k - 1), connected[k], undos[k], k)
    /\ Matured(connected)

LEMMA MatchesAlike ==
    ASSUME NEW c, NEW w, NEW x
    PROVE  /\ Matches(w, c) /\ Matches(x, c) => Alike(x, w)
           /\ Matches(w, c) /\ Alike(x, w) => Matches(x, c)
<1>1. ASSUME Matches(w, c), Matches(x, c) PROVE Alike(x, w)
    <2> SUFFICES ASSUME NEW t \in Txs PROVE Same(x[t], w[t]) BY DEF Alike
    <2>1. Same(w[t], Determined(c, t)) /\ Same(x[t], Determined(c, t)) BY <1>1 DEF Matches
    <2> QED BY <2>1, SameEquivalence
<1>2. ASSUME Matches(w, c), Alike(x, w) PROVE Matches(x, c)
    <2> SUFFICES ASSUME NEW t \in Txs PROVE Same(x[t], Determined(c, t)) BY DEF Matches
    <2>1. Same(w[t], Determined(c, t)) /\ Same(x[t], w[t]) BY <1>2 DEF Matches, Alike
    <2> QED BY <2>1, SameEquivalence
<1> QED BY <1>1, <1>2

\* The views between the transactions of a block match the chain that far.
LEMMA BlockMatches ==
    ASSUME StakesKept, connected \in Seq(Blocks), coins \in Views,
           Matches(coins, connected), Matured(connected),
           NEW b \in Blocks, NotOverwriting(b),
           NEW a, Connected(a, b, Len(connected) + 1)
    PROVE  /\ Matches(a[Len(b)].view, Append(connected, b))
           /\ Matured(Append(connected, b))
<1>1. PICK n, c, h : n = Len(b) /\ c = connected /\ h = Len(c) + 1 OBVIOUS
<1>2. n \in Nat /\ \A i \in 1..n : b[i] \in Txs BY <1>1, BlockFacts
<1>3. Chain(c) /\ SoundView(coins) BY <1>1, MatchesSound
<1>4. Len(c) \in Nat /\ h \in Nat /\ h >= 1 BY <1>1, <1>3, LenProperties DEF Chain
<1>5. \A i \in 0..n : SoundView(a[i].view) BY <1>1, <1>3, <1>4, BlockSound
<1>6. /\ a[0] = [view |-> coins, undo |-> <<>>, ok |-> TRUE]
      /\ \A i \in 1..n : /\ InputsOK(a[i - 1].view, b[i], h)
                         /\ a[i].view = ConnectedTx(a[i - 1].view, b[i], h)
      BY <1>1 DEF Connected
<1>7. PICK T : T = {i \in 0..n : /\ Matches(a[i].view, Partly(c, b, i))
                                 /\ Matured(Partly(c, b, i))}
      OBVIOUS
<1>8. 0 \in T
    <2>1. PICK d, m : d = Partly(c, b, 0) /\ m = Len(c) OBVIOUS
    <2>2. 0 \in 0..Len(b) BY <1>1, <1>2
    <2>3. m \in Nat /\ IsPartly(d, c, b, 0, m) BY <1>3, <2>1, <2>2, PartlyFacts
    <2>4. Chain(d) /\ Len(d) = m + 1 /\ (\A k \in 1..m : d[k] = c[k]) /\ Len(d[m + 1]) = 0
          BY <2>3 DEF IsPartly
    <2>5. ASSUME NEW t \in Txs, NEW q PROVE q \in Places(d, t) <=> q \in Places(c, t)
        <3>1. q \in Places(d, t) <=>
                  \E k \in 1..Len(d) : \E j \in 1..Len(d[k]) : d[k][j] = t /\ q = <<k, j>>
              BY <2>4, PlacesFacts
        <3>2. q \in Places(c, t) <=>
                  \E k \in 1..Len(c) : \E j \in 1..Len(c[k]) : c[k][j] = t /\ q = <<k, j>>
              BY <1>3, PlacesFacts
        <3>3. 1..Len(d) = (1..m) \cup {m + 1} BY <2>3, <2>4
        <3>4. \A j : j \notin 1..Len(d[m + 1]) BY <2>4
        <3> QED BY <2>1, <2>4, <3>1, <3>2, <3>3, <3>4
    <2>6. \A t \in Txs : Places(c, t) = Places(d, t) BY <2>5
    <2>7. (\A t \in Txs : Determined(c, t) = Determined(d, t)) /\ (Matured(c) <=> Matured(d))
          BY <2>6, SamePlaces
    <2>8. a[0].view = coins BY <1>6
    <2>9. Matches(coins, d) BY <1>1, <2>7 DEF Matches
    <2>10. Matured(d) BY <1>1, <2>7
    <2>11. 0 \in 0..n BY <1>2
    <2> QED BY <1>7, <2>1, <2>8, <2>9, <2>10, <2>11
<1>9. ASSUME NEW i \in 1..n, i - 1 \in T PROVE i \in T
    <2>1. PICK w, t, p, d, e : /\ w = a[i - 1].view /\ t = b[i] /\ p = <<Len(c) + 1, i>>
                               /\ d = Partly(c, b, i - 1) /\ e = Partly(c, b, i)
          OBVIOUS
    <2>2. Matches(w, d) /\ Matured(d) BY <1>7, <1>9, <2>1
    <2>3. Adds(d, e, t, p) BY <1>1, <1>3, <2>1, PlacesAdd
    <2>4. i - 1 \in 0..n /\ i \in 0..n BY <1>2
    <2>5. w \in Views BY <1>5, <2>1, <2>4 DEF SoundView
    <2>6. p[1] = h BY <1>1, <2>1
    <2>7. InputsOK(w, t, p[1]) /\ a[i].view = ConnectedTx(w, t, p[1]) BY <1>6, <2>1, <2>6
    <2>8. Matches(ConnectedTx(w, t, p[1]), e) BY <2>2, <2>3, <2>5, MatchStep
    <2>9. Matured(e) BY <2>2, <2>3, <2>5, <2>7, MaturedStep
    <2> QED BY <1>7, <2>1, <2>4, <2>7, <2>8, <2>9
<1>10. n \in T
    <2>1. \A i \in 0..n : i \in T BY <1>2, <1>8, <1>9, StepByStep
    <2> QED BY <1>2, <2>1
<1>11. SubSeq(b, 1, n) = b BY <1>1, BlocksAssumption, SubSeqFull
<1>12. Partly(c, b, n) = Append(c, b) BY <1>11 DEF Partly
<1> QED BY <1>1, <1>7, <1>10, <1>12

LEMMA BelowFacts ==
    ASSUME NEW S, NEW c \in Seq(S), NEW k \in 0..Len(c)
    PROVE  /\ Below(c, k) \in Seq(S) /\ Len(Below(c, k)) = k
           /\ \A i \in 1..k : Below(c, k)[i] = c[i]
           /\ Below(c, Len(c)) = c
<1>1. Len(c) \in Nat /\ \A i \in 1..Len(c) : c[i] \in S BY LenProperties, ElementOfSeq
<1>2. k \in Nat /\ k <= Len(c) BY <1>1
<1>3. Below(c, k) = [i \in 1..k |-> c[i]]
    <2>1. \A i \in 1..k : 1 + i - 1 = i BY <1>2
    <2>2. k - 1 + 1 = k BY <1>2
    <2> QED BY <2>1, <2>2 DEF Below, SubSeq
<1>4. Below(c, k) \in Seq(S) /\ Len(Below(c, k)) = k BY <1>1, <1>2, <1>3, IsASeq
<1>5. \A i \in 1..k : Below(c, k)[i] = c[i] BY <1>3
<1> QED BY <1>4, <1>5, SubSeqFull DEF Below

\* What is below a place depends on nothing above it.
LEMMA BelowSame ==
    ASSUME NEW S, NEW c \in Seq(S), NEW d \in Seq(S),
           NEW k \in 0..Len(c), k \in 0..Len(d), \A i \in 1..k : c[i] = d[i]
    PROVE  Below(c, k) = Below(d, k)
<1>1. PICK x, y : x = Below(c, k) /\ y = Below(d, k) OBVIOUS
<1>2. x \in Seq(S) /\ Len(x) = k /\ \A i \in 1..k : x[i] = c[i] BY <1>1, BelowFacts
<1>3. y \in Seq(S) /\ Len(y) = k /\ \A i \in 1..k : y[i] = d[i] BY <1>1, BelowFacts
<1>4. \A i \in 1..k : x[i] = y[i] BY <1>2, <1>3
<1>5. x = [i \in 1..k |-> x[i]] /\ y = [i \in 1..k |-> y[i]] BY <1>2, <1>3, LenProperties
<1> QED BY <1>1, <1>4, <1>5

LEMMA UndoInvInit == UndoInit => UndoInv
<1> SUFFICES ASSUME UndoInit PROVE UndoInv OBVIOUS
<1>1. connected = <<>> /\ undos = <<>> /\ coins = [t \in Txs |-> NoCoins] BY DEF UndoInit
<1>2. Len(connected) = 0 /\ Len(undos) = 0 BY <1>1, EmptySeq
<1>3. UndoTypeOK BY <1>1, <1>2, EmptySeq, NoCoinsFacts DEF UndoTypeOK, Views
<1>4. \A t : Places(connected, t) = {}
    <2>1. DOMAIN connected = {} BY <1>1, EmptySeq
    <2> QED BY <2>1 DEF Places
<1>5. Matches(coins, connected)
    <2> SUFFICES ASSUME NEW t \in Txs PROVE Same(coins[t], Determined(connected, t))
        BY DEF Matches
    <2>1. coins[t] = NoCoins BY <1>1
    <2>2. Determined(connected, t) = NoCoins BY <1>4 DEF Determined
    <2> QED BY <2>1, <2>2, SameEquivalence
<1>6. Matured(connected) BY <1>4 DEF Matured
<1>7. 1..Len(connected) = {} BY <1>2
<1> QED BY <1>3, <1>5, <1>6, <1>7 DEF UndoInv

LEMMA UndoInvConnect ==
    ASSUME StakesKept, UndoInv, NEW b \in Blocks, ConnectBlock(b)
    PROVE  UndoInv'
<1>1. PICK c, h, a, n : /\ c = connected /\ h = Len(connected) + 1
                        /\ a = Connections(b, h) /\ n = Len(b)
      OBVIOUS
<1>2. PICK w, s : w = a[n].view /\ s = OnDisk(a[n].undo) OBVIOUS
<1>3. /\ NotOverwriting(b) /\ a[n].ok
      /\ connected' = Append(c, b) /\ undos' = Append(undos, s) /\ coins' = w
      BY <1>1, <1>2 DEF ConnectBlock, OnDisk
<1>4. /\ c \in Seq(Blocks) /\ undos \in Seq(Seq(Seq(UndoRecords))) /\ Len(undos) = Len(c)
      /\ coins \in Views /\ Matches(coins, c) /\ Matured(c)
      /\ \A k \in 1..Len(c) : Revertible(Below(c, k), Below(c, k - 1), c[k], undos[k], k)
      BY <1>1 DEF UndoInv, UndoTypeOK
<1>5. PICK m \in Nat : m = Len(c) /\ h = m + 1 BY <1>1, <1>4, LenProperties
<1>6. h \in Nat /\ h >= 1 BY <1>5
<1>7. n \in Nat /\ n >= 1 BY <1>1, BlockFacts
<1>8. ConnectSteps(a, b, h) BY <1>1, <1>4, <1>6, ConnectionsFold
<1>9. a[n] \in Connectings /\ a[n].ok = TRUE
    <2>1. n \in 0..Len(b) BY <1>1, <1>7
    <2>2. a[n] \in Connectings BY <1>8, <2>1 DEF ConnectSteps
    <2>3. a[n].ok \in BOOLEAN BY <2>2 DEF Connectings
    <2> QED BY <1>3, <2>2, <2>3
<1>10. Connected(a, b, h) BY <1>1, <1>4, <1>6, <1>9, ConnectionsFacts
<1>11. SoundView(coins) BY <1>4, MatchesSound
<1>12. w \in Views BY <1>2, <1>9 DEF Connectings
<1>13. s \in Seq(Seq(UndoRecords)) /\ RightUndo(a, b, s)
       BY <1>1, <1>2, <1>6, <1>10, BlockUndos
<1>14. PICK d : d = Append(c, b) OBVIOUS
<1>15. Matches(w, d) /\ Matured(d)
       BY <1>1, <1>2, <1>3, <1>4, <1>10, <1>14, BlockMatches
<1>16. /\ d \in Seq(Blocks) /\ Len(d) = m + 1
       /\ \A k \in 1..m : d[k] = c[k]
       /\ d[m + 1] = b
       BY <1>4, <1>5, <1>14, AppendProperties
<1>17. PICK ud : ud = Append(undos, s) OBVIOUS
<1>18. /\ ud \in Seq(Seq(Seq(UndoRecords))) /\ Len(ud) = m + 1
       /\ \A k \in 1..m : ud[k] = undos[k]
       /\ ud[m + 1] = s
       BY <1>4, <1>5, <1>13, <1>17, AppendProperties
<1>19. UndoTypeOK' BY <1>3, <1>12, <1>14, <1>16, <1>17, <1>18 DEF UndoTypeOK
<1>20. \A k \in 0..m : Below(d, k) = Below(c, k)
    <2> SUFFICES ASSUME NEW k \in 0..m PROVE Below(d, k) = Below(c, k) OBVIOUS
    <2>1. k \in 0..Len(c) /\ k \in 0..Len(d) BY <1>5, <1>16
    <2>2. \A i \in 1..k : d[i] = c[i]
        <3>1. \A i \in 1..k : i \in 1..m BY <1>5
        <3> QED BY <1>16, <3>1
    <2> QED BY <1>4, <1>16, <2>1, <2>2, BelowSame
<1>21. Below(c, m) = c /\ Below(d, m + 1) = d
    <2>1. 0 \in 0..Len(c) /\ 0 \in 0..Len(d) BY <1>5, <1>16
    <2> QED BY <1>4, <1>5, <1>16, <2>1, BelowFacts
<1>22. Revertible(d, c, b, s, h)
    <2> SUFFICES ASSUME NEW x \in Views, Matches(x, d)
                 PROVE  /\ Undone(x, b, s, h) \in Accs
                        /\ Undone(x, b, s, h).clean = TRUE
                        /\ Matches(Undone(x, b, s, h).view, c)
        BY DEF Revertible
    <2>1. Alike(x, w) BY <1>15, MatchesAlike
    <2>2. PICK r : r = Undone(x, b, s, h) OBVIOUS
    <2>3. Alike(x, a[Len(b)].view) BY <1>1, <1>2, <2>1
    <2>4. r \in Accs /\ r.clean = TRUE /\ Alike(r.view, coins)
          BY <1>3, <1>6, <1>10, <1>11, <1>13, <2>2, <2>3, BlockReverts
    <2>5. Matches(r.view, c) BY <1>4, <2>4, MatchesAlike
    <2> QED BY <2>2, <2>4, <2>5
<1>23. \A k \in 1..Len(d) : Revertible(Below(d, k), Below(d, k - 1), d[k], ud[k], k)
    <2> SUFFICES ASSUME NEW k \in 1..(m + 1)
                 PROVE  Revertible(Below(d, k), Below(d, k - 1), d[k], ud[k], k)
        BY <1>16
    <2>1. CASE k = m + 1
        <3>1. k - 1 = m /\ m \in 0..m BY <1>5, <2>1
        <3>2. Below(d, k) = d /\ Below(d, k - 1) = c BY <1>20, <1>21, <2>1, <3>1
        <3>3. d[k] = b /\ ud[k] = s /\ k = h BY <1>5, <1>16, <1>18, <2>1
        <3> QED BY <1>22, <3>2, <3>3
    <2>2. CASE k # m + 1
        <3>1. k \in 1..m /\ k \in 0..m /\ k - 1 \in 0..m BY <1>5, <2>2
        <3>2. Below(d, k) = Below(c, k) /\ Below(d, k - 1) = Below(c, k - 1) BY <1>20, <3>1
        <3>3. d[k] = c[k] /\ ud[k] = undos[k] BY <1>16, <1>18, <3>1
        <3>4. Revertible(Below(c, k), Below(c, k - 1), c[k], undos[k], k)
              BY <1>4, <1>5, <3>1
        <3> QED BY <3>2, <3>3, <3>4
    <2> QED BY <2>1, <2>2
<1>24. connected' = d /\ undos' = ud /\ coins' = w BY <1>3, <1>14, <1>17
<1>25. Matches(coins', connected') /\ Matured(connected') BY <1>15, <1>24
<1>26. \A k \in 1..Len(connected') :
           Revertible(Below(connected', k), Below(connected', k - 1), connected'[k], undos'[k], k)
       BY <1>23, <1>24
<1> QED BY <1>19, <1>25, <1>26 DEF UndoInv, Matches, Matured, Revertible, Below

LEMMA UndoInvDisconnect ==
    ASSUME UndoInv, DisconnectBlock
    PROVE  UndoInv'
<1>1. PICK c, m, r : /\ c = connected /\ m = Len(connected)
                     /\ r = Undone(coins, connected[m], undos[m], m)
      OBVIOUS
<1>2. /\ c # <<>> /\ coins' = r.view
      /\ connected' = Below(c, m - 1) /\ undos' = SubSeq(undos, 1, Len(undos) - 1)
      BY <1>1 DEF DisconnectBlock, Front, Below
<1>3. /\ c \in Seq(Blocks) /\ undos \in Seq(Seq(Seq(UndoRecords))) /\ Len(undos) = m
      /\ coins \in Views /\ Matches(coins, c) /\ Matured(c)
      /\ \A k \in 1..m : Revertible(Below(c, k), Below(c, k - 1), c[k], undos[k], k)
      BY <1>1 DEF UndoInv, UndoTypeOK
<1>4. m \in Nat /\ m >= 1 BY <1>1, <1>2, <1>3, LenProperties, EmptySeq
<1>5. m \in 1..m /\ m - 1 \in 0..m /\ m \in 0..m BY <1>4
<1>6. Below(c, m) = c BY <1>1, <1>3, <1>5, BelowFacts
<1>7. r \in Accs /\ r.clean = TRUE /\ Matches(r.view, Below(c, m - 1))
    <2>1. Revertible(c, Below(c, m - 1), c[m], undos[m], m) BY <1>3, <1>5, <1>6
    <2> QED BY <1>1, <1>3, <2>1 DEF Revertible
<1>8. PICK d, ud : d = Below(c, m - 1) /\ ud = Below(undos, m - 1) OBVIOUS
<1>9. /\ d \in Seq(Blocks) /\ Len(d) = m - 1 /\ \A k \in 1..(m - 1) : d[k] = c[k]
    <2>1. m - 1 \in 0..Len(c) BY <1>1, <1>5
    <2> QED BY <1>3, <1>8, <2>1, BelowFacts
<1>10. /\ ud \in Seq(Seq(Seq(UndoRecords))) /\ Len(ud) = m - 1
       /\ \A k \in 1..(m - 1) : ud[k] = undos[k]
       BY <1>3, <1>5, <1>8, BelowFacts
<1>11. connected' = d /\ undos' = ud /\ coins' = r.view
       BY <1>2, <1>3, <1>8 DEF Below
<1>12. UndoTypeOK' BY <1>7, <1>9, <1>10, <1>11 DEF UndoTypeOK, Accs
<1>13. \A k \in 0..(m - 1) : Below(d, k) = Below(c, k)
    <2> SUFFICES ASSUME NEW k \in 0..(m - 1) PROVE Below(d, k) = Below(c, k) OBVIOUS
    <2>1. k \in 0..Len(c) /\ k \in 0..Len(d) BY <1>1, <1>4, <1>9
    <2>2. \A i \in 1..k : d[i] = c[i]
        <3>1. \A i \in 1..k : i \in 1..(m - 1) BY <1>4
        <3> QED BY <1>9, <3>1
    <2> QED BY <1>3, <1>9, <2>1, <2>2, BelowSame
<1>14. \A k \in 1..Len(d) : Revertible(Below(d, k), Below(d, k - 1), d[k], ud[k], k)
    <2> SUFFICES ASSUME NEW k \in 1..(m - 1)
                 PROVE  Revertible(Below(d, k), Below(d, k - 1), d[k], ud[k], k)
        BY <1>9
    <2>1. k \in 1..m /\ k \in 0..(m - 1) /\ k - 1 \in 0..(m - 1) BY <1>4
    <2>2. Below(d, k) = Below(c, k) /\ Below(d, k - 1) = Below(c, k - 1) BY <1>13, <2>1
    <2>3. d[k] = c[k] /\ ud[k] = undos[k] BY <1>9, <1>10
    <2>4. Revertible(Below(c, k), Below(c, k - 1), c[k], undos[k], k) BY <1>3, <2>1
    <2> QED BY <2>2, <2>3, <2>4
<1>15. Matured(d)
    <2>1. Chain(c) /\ Chain(d)
        <3>1. Blocks \subseteq Seq(Txs) BY BlocksAssumption
        <3>2. c \in Seq(Seq(Txs)) /\ d \in Seq(Seq(Txs)) BY <1>3, <1>9, <3>1, SeqMonotonic
        <3>3. (\A k \in 1..Len(c) : c[k] \in Blocks) /\ (\A k \in 1..Len(d) : d[k] \in Blocks)
              BY <1>3, <1>9, ElementOfSeq
        <3> QED BY <3>2, <3>3, BlockFacts DEF Chain
    <2>2. \A t : \A q : q \in Places(d, t) => q \in Places(c, t)
        <3> SUFFICES ASSUME NEW t, NEW q \in Places(d, t) PROVE q \in Places(c, t) OBVIOUS
        <3>1. PICK k \in 1..Len(d) : \E i \in 1..Len(d[k]) : d[k][i] = t /\ q = <<k, i>>
              BY <2>1, PlacesFacts
        <3>2. k \in 1..(m - 1) /\ k \in 1..Len(c) BY <1>1, <1>4, <1>9
        <3>3. d[k] = c[k] BY <1>9, <3>2
        <3> QED BY <2>1, <3>1, <3>2, <3>3, PlacesFacts
    <2> QED BY <1>3, <2>2 DEF Matured
<1>16. Matches(coins', connected') /\ Matured(connected') BY <1>7, <1>8, <1>11, <1>15
<1>17. \A k \in 1..Len(connected') :
           Revertible(Below(connected', k), Below(connected', k - 1), connected'[k], undos'[k], k)
       BY <1>11, <1>14
<1> QED BY <1>12, <1>16, <1>17 DEF UndoInv, Matches, Matured, Revertible, Below

LEMMA UndoInvNext == ASSUME StakesKept, UndoInv, [UndoNext]_undoVars PROVE UndoInv'
<1>1. CASE DisconnectBlock BY <1>1, UndoInvDisconnect
<1>2. ASSUME NEW b \in Blocks, ConnectBlock(b) PROVE UndoInv' BY <1>2, UndoInvConnect
<1>3. CASE UNCHANGED undoVars
      BY <1>3 DEF undoVars, UndoInv, UndoTypeOK, Matches, Matured, Revertible, Below
<1> QED BY <1>1, <1>2, <1>3 DEF UndoNext

LEMMA UndoInvSuffices == UndoInv => CoinsMatchChain /\ MaturityKept
<1> SUFFICES ASSUME UndoInv PROVE CoinsMatchChain /\ MaturityKept OBVIOUS
<1>1. PICK c, m : c = connected /\ m = Len(connected) OBVIOUS
<1>2. /\ c \in Seq(Blocks) /\ Len(undos) = m /\ coins \in Views
      /\ Matches(coins, c) /\ Matured(c)
      /\ \A k \in 1..m : Revertible(Below(c, k), Below(c, k - 1), c[k], undos[k], k)
      BY <1>1 DEF UndoInv, UndoTypeOK
<1>3. ASSUME c # <<>> PROVE Undone(coins, Last(c), Last(undos), m).clean
    <2>1. m \in Nat /\ m >= 1 BY <1>1, <1>2, <1>3, LenProperties, EmptySeq
    <2>2. m \in 1..m /\ m \in 0..m BY <2>1
    <2>3. Below(c, m) = c BY <1>1, <1>2, <2>2, BelowFacts
    <2>4. Undone(coins, c[m], undos[m], m).clean = TRUE
          BY <1>2, <2>2, <2>3 DEF Revertible
    <2>5. Last(c) = c[m] /\ Last(undos) = undos[m] BY <1>1, <1>2 DEF Last
    <2> QED BY <2>4, <2>5
<1> QED BY <1>1, <1>2, <1>3 DEF CoinsMatchChain, MaturityKept

LEMMA UndoInvariant == ASSUME StakesKept PROVE UndoSpec => []UndoInv
<1>1. UndoInv /\ [UndoNext]_undoVars => UndoInv' BY UndoInvNext
<1> QED BY <1>1, UndoInvInit, PTL DEF UndoSpec

\* ConnectBlock, UpdateCoins and DisconnectBlock, through any sequence of blocks
\* connected and taken back: pcoinsTip holds what the active chain determines, to
\* the last coin, and the tip can always be taken back, as long as no block
\* spends the last output of a coinstake.
THEOREM CoinsAlwaysMatchChain == ASSUME StakesKept PROVE UndoSpec => []CoinsMatchChain
BY UndoInvariant, UndoInvSuffices, PTL

\* CheckInputs: no chain that ConnectBlock lets through spends a coinbase or a
\* coinstake that has not matured, whatever was connected and taken back before.
THEOREM MaturityAlwaysKept == ASSUME StakesKept PROVE UndoSpec => []MaturityKept
BY UndoInvariant, UndoInvSuffices, PTL
=============================================================================
