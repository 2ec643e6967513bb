-------------------------- MODULE ChainStateProofs --------------------------
(***************************************************************************)
(* Theorems about ChainState, for every block tree, every set of threads   *)
(* and every number of crashes.                                            *)
(***************************************************************************)
EXTENDS ChainState, FiniteSetTheorems, StepLemmas

-----------------------------------------------------------------------------
(* The block tree                                                          *)

\* Induction along the branches: a set that holds genesis, and every block
\* whose parent it holds, holds all blocks.
LEMMA TreeInduction ==
    ASSUME NEW S \in SUBSET Blocks, Genesis \in S,
           \A b \in Blocks \ {Genesis} : Parent[b] \in S => b \in S
    PROVE  S = Blocks
<1> SUFFICES ASSUME S # Blocks PROVE FALSE OBVIOUS
<1> DEFINE T == {Work[b] : b \in Blocks \ S}
<1>1. T \in SUBSET Nat /\ T # {} BY WorkAssumption
<1> HIDE DEF T
<1>2. PICK m \in T : \A k \in T : m <= k BY <1>1, LeastElement
<1> USE DEF T
<1>3. PICK b \in Blocks \ S : Work[b] = m BY <1>2
<1>4. Parent[b] \in Blocks \ S BY <1>3, TreeAssumption
<1>5. Work[Parent[b]] \in T BY <1>4
<1>6. Work[Parent[b]] < Work[b] BY <1>3, WorkAssumption
<1>7. m \in Nat /\ Work[Parent[b]] \in Nat BY <1>1, <1>2, <1>5
<1> QED BY <1>2, <1>3, <1>5, <1>6, <1>7

\* Anc is the ancestor relation.
LEMMA AncSelf == \A b \in Blocks : b \in Anc[b] /\ Genesis \in Anc[b] /\ Anc[b] \subseteq Blocks
<1> DEFINE S == {b \in Blocks : b \in Anc[b] /\ Genesis \in Anc[b]}
<1>1. Genesis \in S BY TreeAssumption
<1>2. \A b \in Blocks \ {Genesis} : Parent[b] \in S => b \in S BY TreeAssumption
<1>3. S = Blocks BY <1>1, <1>2, TreeInduction
<1> QED BY <1>3, TreeAssumption

LEMMA AncTransitive == \A b \in Blocks : \A x \in Anc[b] : Anc[x] \subseteq Anc[b]
<1> DEFINE S == {b \in Blocks : \A x \in Anc[b] : Anc[x] \subseteq Anc[b]}
<1>1. Genesis \in S BY TreeAssumption
<1>2. \A b \in Blocks \ {Genesis} : Parent[b] \in S => b \in S BY TreeAssumption
<1>3. S = Blocks BY <1>1, <1>2, TreeInduction
<1> QED BY <1>3

LEMMA AncLinear ==
    \A b \in Blocks : \A x, y \in Anc[b] : x \in Anc[y] \/ y \in Anc[x]
<1> DEFINE S == {b \in Blocks : \A x, y \in Anc[b] : x \in Anc[y] \/ y \in Anc[x]}
<1>1. Genesis \in S BY TreeAssumption
<1>2. \A b \in Blocks \ {Genesis} : Parent[b] \in S => b \in S
      BY TreeAssumption, AncSelf
<1>3. S = Blocks BY <1>1, <1>2, TreeInduction
<1> QED BY <1>3

LEMMA AncToward ==
    \A b \in Blocks : \A a \in Anc[b] \ {b} : \E c \in Anc[b] \ {Genesis} : Parent[c] = a
<1> DEFINE S == {b \in Blocks :
                    \A a \in Anc[b] \ {b} : \E c \in Anc[b] \ {Genesis} : Parent[c] = a}
<1>1. Genesis \in S BY TreeAssumption
<1>2. \A b \in Blocks \ {Genesis} : Parent[b] \in S => b \in S
      BY TreeAssumption, AncSelf
<1>3. S = Blocks BY <1>1, <1>2, TreeInduction
<1> QED BY <1>3

-----------------------------------------------------------------------------
(* The inductive invariant                                                 *)

\* The flags that are never cleared: what the block and undo files hold, and
\* that ConnectBlock went through.
Held == {"DATA", "UNDO", "SCRIPTS"}

\* No section of cs_main outlives the process.
DeadHoldsNothing == up # "up" => op.kind = "free"

\* Genesis is stored and cannot be disconnected.
GenesisKept ==
    "UNDO" \notin status[Genesis] /\ "UNDO" \notin dStatus[Genesis] /\ "DATA" \in dStatus[Genesis]

\* setBlockIndexCandidates holds blocks with nChainTx, and so does the
\* target of ActivateBestChainStep.
CandidatesLinked == up = "up" => candidates \subseteq linked
TargetLinked == op.kind = "step" => op.target \in linked

\* The coins in memory can be walked back to genesis.
CoinsBacked == up = "up" => \A b \in Anc[coinsTip] \ {Genesis} : Held \subseteq status[b]

\* So can the coins on disk.
DiskBacked == \A b \in Anc[dCoins] \ {Genesis} : Held \subseteq dStatus[b]

\* The block tree database knows no data the memory does not, and everything
\* about the entries that are not in setDirtyBlockIndex.
DiskBehind == up = "up" => \A b \in Blocks : dStatus[b] \cap Held \subseteq status[b]
CleanWritten ==
    up = "up" => \A b \in Blocks \ dirty : status[b] \cap Held \subseteq dStatus[b]

\* ProcessNewBlock keeps hold of its block until AcceptBlock.
CheckedHasBlock == \A th \in Threads : pc[th] = "checked" => blk[th] \in NonGenesis
Typed == TypeOK /\ CheckedHasBlock

Rest ==
    /\ DeadHoldsNothing
    /\ GenesisKept
    /\ LinkedExact
    /\ CandidatesLinked
    /\ TargetLinked
    /\ CoinsBacked
    /\ DiskBehind
    /\ CleanWritten
    /\ DiskBacked

Inv == Typed /\ Rest

-----------------------------------------------------------------------------
(* Types                                                                   *)

\* The sections of cs_main.
LEMMA FreeType == FreeOp \in Sections
BY BoundsAssumption DEF FreeOp, Sections, Kinds
LEMMA SectionType ==
    ASSUME NEW th \in Threads \cup {None}, NEW kind \in Kinds, NEW target \in Blocks \cup {None},
           NEW old \in Blocks \cup {None}, NEW left \in 0..(ReprocessDepth + 1)
    PROVE  Section(th, kind, target, old, left) \in Sections
BY DEF Section, Sections
LEMMA ZeroLeft == 0 \in 0..(ReprocessDepth + 1) /\ ReprocessDepth + 1 \in 0..(ReprocessDepth + 1)
BY BoundsAssumption
LEMMA Counting ==
    /\ 0 \in 0..MaxOps /\ 0 \in 0..MaxCrashes
    /\ \A n \in 0..MaxOps : n < MaxOps => n + 1 \in 0..MaxOps
    /\ \A n \in 0..MaxCrashes : n < MaxCrashes => n + 1 \in 0..MaxCrashes
BY BoundsAssumption
LEMMA SectionFields ==
    ASSUME NEW s \in Sections
    PROVE  /\ s.th \in Threads \cup {None} /\ s.kind \in Kinds
           /\ s.target \in Blocks \cup {None} /\ s.newTip \in Blocks \cup {None}
           /\ \A b \in Blocks \cup {None} : [s EXCEPT !.newTip = b] \in Sections
           /\ s.left > 0 => [s EXCEPT !.left = @ - 1] \in Sections
<1>1. /\ s.th \in Threads \cup {None} /\ s.kind \in Kinds
      /\ s.target \in Blocks \cup {None} /\ s.newTip \in Blocks \cup {None}
      BY DEF Sections
<1>2. \A b \in Blocks \cup {None} : [s EXCEPT !.newTip = b] \in Sections BY
      DEF Sections
<1>3. s.left > 0 => s.left - 1 \in 0..(ReprocessDepth + 1) BY BoundsAssumption
      DEF Sections
<1>4. s.left > 0 => [s EXCEPT !.left = @ - 1] \in Sections BY <1>3 DEF Sections
<1> QED BY <1>1, <1>2, <1>4

LEMMA InitInv == Init => Inv
<1> SUFFICES ASSUME Init PROVE Inv OBVIOUS
<1>1. TypeOK BY TreeAssumption, FreeType, Counting DEF Init, TypeOK, Flags, PC
<1>2. LinkedExact
      BY TreeAssumption, AncSelf DEF Init, LinkedExact, HasData
<1> QED
    BY <1>1, <1>2, TreeAssumption
    DEF Init, Inv, Rest, DeadHoldsNothing, GenesisKept, CandidatesLinked, TargetLinked,
        CoinsBacked, Typed, CheckedHasBlock,
        DiskBehind, CleanWritten, DiskBacked, FreeOp

\* The block ActivateBestChainStep connects next.
LEMMA NextBlock ==
    ASSUME TypeOK, Connecting, op.target \in Blocks
    PROVE  LET b == NextToward(tip, op.target)
           IN b \in Anc[op.target] \ {Genesis} /\ b \in Blocks /\ Parent[b] = tip
<1>1. \E c \in Anc[op.target] : c # Genesis /\ Parent[c] = tip
      BY AncToward DEF Connecting
<1> QED BY <1>1, AncSelf DEF NextToward

LEMMA SequencedType ==
    ASSUME TypeOK, NEW new \in SUBSET Blocks, NEW up1 \in BOOLEAN
    PROVE  Sequenced(new, up1) \in [Blocks -> Nat]
<1> DEFINE Before(x, y) ==
             \/ Cardinality(Anc[x]) < Cardinality(Anc[y])
             \/ /\ Cardinality(Anc[x]) = Cardinality(Anc[y])
                /\ IF up1 THEN Rank[x] < Rank[y] ELSE Rank[y] < Rank[x]
<1>1. \A S \in SUBSET Blocks : Cardinality(S) \in Nat
      BY TreeAssumption, FS_Subset, FS_CardinalityType
<1>2. Cardinality({x \in Blocks : seq[x] > 0}) \in Nat BY <1>1
<1>3. \A x \in Blocks : Cardinality({y \in new : Before(y, x)}) \in Nat BY <1>1
<1>4. seq \in [Blocks -> Nat] BY DEF TypeOK
<1> HIDE DEF Before
<1>5. \A x \in Blocks : 1 + Cardinality({z \in Blocks : seq[z] > 0})
                          + Cardinality({y \in new : Before(y, x)}) \in Nat
      BY <1>2, <1>3
<1> USE DEF Before
<1> QED BY <1>4, <1>5, Zenon DEF Sequenced

LEMMA StepTarget == ASSUME Inv, Connecting PROVE op.target \in Blocks
BY DEF Inv, Rest, Typed, TypeOK, TargetLinked, Connecting, Running

\* Every action keeps every variable in its set.
LEMMA TypePreserved == ASSUME Inv, [Next]_vars PROVE Typed'
<1> USE DEF indexVars, linkVars, chainVars, diskVars, lockVars, threadVars, csVars, lifeVars
<1>0. Typed /\ GenesisKept BY DEF Inv, Rest
<1>stutter. CASE UNCHANGED vars BY <1>0, <1>stutter
      DEF Typed, TypeOK, CheckedHasBlock, vars
<1>1. ASSUME NEW b \in NonGenesis, AcceptBlockHeader(b) PROVE Typed'
      BY <1>0, <1>1, TreeAssumption
      DEF Typed, TypeOK, CheckedHasBlock, AcceptBlockHeader, AddHeader, WithHeader,
          Known, Flags, NonGenesis
<1>2. ASSUME NEW b \in NonGenesis, LockAppears(b) PROVE Typed'
      BY <1>0, <1>2 DEF Typed, TypeOK, CheckedHasBlock, LockAppears, NonGenesis
<1>3. ASSUME NEW b \in NonGenesis, LockExpires(b) PROVE Typed'
      BY <1>0, <1>3 DEF Typed, TypeOK, CheckedHasBlock, LockExpires, NonGenesis
<1>4. ASSUME NEW th \in Threads, NEW b \in NonGenesis, CheckNewBlock(th, b) PROVE Typed'
      BY <1>0, <1>4
      DEF Typed, TypeOK, CheckedHasBlock, CheckNewBlock, PC, NonGenesis
<1>5. ASSUME NEW th \in Threads, NEW b \in NonGenesis, InvalidateBlock(th, b) PROVE Typed'
      BY <1>0, <1>5, Counting, SectionType, ZeroLeft
      DEF Typed, TypeOK, CheckedHasBlock, InvalidateBlock, CountOp, Kinds, Flags,
          NonGenesis
<1>6. ASSUME NEW th \in Threads, NEW b \in NonGenesis, ReconsiderBlock(th, b) PROVE Typed'
  <2>1. ops' \in 0..MaxOps /\ up' = up /\ crashes' = crashes
        BY <1>0, <1>6, Counting DEF Typed, TypeOK, ReconsiderBlock, CountOp
  <2>2. /\ status' \in [Blocks -> SUBSET Flags] /\ dirty' \in SUBSET Blocks
        /\ candidates' \in SUBSET Blocks
        BY <1>0, <1>6, TreeAssumption
        DEF Typed, TypeOK, ReconsiderBlock, Reconsider, Known, Failed, HasData, NonGenesis
  <2> QED BY <1>0, <1>6, <2>1, <2>2
      DEF Typed, TypeOK, CheckedHasBlock, ReconsiderBlock, Proceed, PC
<1>7. ASSUME NEW th \in Threads, NEW b \in NonGenesis, ReprocessRejected(th, b) PROVE Typed'
      BY <1>0, <1>7, TreeAssumption
      DEF Typed, TypeOK, CheckedHasBlock, ReprocessRejected, Reconsider, Known,
          Failed, FailedMask, HasData, NonGenesis
<1>8. ASSUME NEW th \in Threads, Enter(th) PROVE Typed'
      BY <1>0, <1>8, SectionType, ZeroLeft
      DEF Typed, TypeOK, CheckedHasBlock, Enter, Kinds, NonGenesis
<1>9. ASSUME NEW th \in Threads, LoopCheck(th) PROVE Typed'
      BY <1>0, <1>9
      DEF Typed, TypeOK, CheckedHasBlock, LoopCheck, Proceed, Drop, PC, NonGenesis
<1>10. ASSUME NEW th \in Threads, StartFlush(th) PROVE Typed'
      BY <1>0, <1>10, SectionType, ZeroLeft
      DEF Typed, TypeOK, CheckedHasBlock, StartFlush, Kinds, NonGenesis
<1>11. ASSUME NEW th \in Threads, ReprocessLock(th) PROVE Typed'
      BY <1>0, <1>11, SectionType, ZeroLeft
      DEF Typed, TypeOK, CheckedHasBlock, ReprocessLock, Kinds, NonGenesis
<1>12. ASSUME NEW th \in Threads, ReprocessBlocks(th) PROVE Typed'
      BY <1>0, <1>12, Counting
      DEF Typed, TypeOK, CheckedHasBlock, ReprocessBlocks, CountOp, PC, NonGenesis
<1>13. ASSUME NEW th \in Threads, Restart(th) PROVE Typed'
      BY <1>0, <1>13
      DEF Typed, TypeOK, CheckedHasBlock, Restart, LoadedLinked, LoadedUnlinked,
          LoadedCandidates, OnDisk, PC, NonGenesis
<1>14. CASE FindReject
      BY <1>0, <1>14, AncSelf
      DEF Typed, TypeOK, CheckedHasBlock, FindReject, Running, Fork, IsBest, Failed,
          FailedMask, Flags, NonGenesis
<1>15. CASE FindNothing
      BY <1>0, <1>15, FreeType, SectionFields
      DEF Typed, TypeOK, CheckedHasBlock, FindNothing, Running, IsBest, Drop, PC,
          NonGenesis
<1>16. CASE FindChain
  <2>1. PICK b \in candidates \ {tip} : 
            op' = Section(op.th, "step", b, tip, 0) /\ most' = [most EXCEPT ![op.th] = b]
        BY <1>16 DEF FindChain
  <2>2. op' \in Sections BY <1>0, <2>1, SectionType, SectionFields, ZeroLeft
        DEF Typed, TypeOK, Kinds
  <2> QED BY <1>0, <1>16, <2>1, <2>2 DEF Typed, TypeOK, CheckedHasBlock, FindChain
<1>17. CASE StepDisconnect
      BY <1>0, <1>17, TreeAssumption, SectionFields
      DEF Typed, TypeOK, CheckedHasBlock, StepDisconnect, Running, DisconnectTip,
          GenesisKept, NonGenesis
<1>18. ASSUME StepConnect PROVE Typed'
  <2>1. Connecting BY <1>18 DEF StepConnect
  <2>2. NextToward(tip, op.target) \in Blocks BY <1>0, <2>1, NextBlock, StepTarget
        DEF Typed
  <2> QED BY <1>0, <1>18, <2>2, SectionFields
      DEF Typed, TypeOK, CheckedHasBlock, StepConnect, Flags, NonGenesis
<1>19. ASSUME StepInvalid PROVE Typed'
  <2>1. Connecting BY <1>19 DEF StepInvalid
  <2>2. NextToward(tip, op.target) \in Blocks BY <1>0, <2>1, NextBlock, StepTarget
        DEF Typed
  <2> QED BY <1>0, <1>19, <2>2, FreeType
      DEF Typed, TypeOK, CheckedHasBlock, StepInvalid, Flags, Release, PC,
          NonGenesis
<1>20. CASE StepEnd
      BY <1>0, <1>20, FreeType, SectionFields
      DEF Typed, TypeOK, CheckedHasBlock, StepEnd, Running, Release, PC, NonGenesis
<1>21. CASE UpdateTip
      BY <1>0, <1>21, NoneAssumption, SectionFields
      DEF Typed, TypeOK, CheckedHasBlock, UpdateTip, Pruned, NonGenesis
<1>22. CASE InvalidateTip
      BY <1>0, <1>22, TreeAssumption, SectionFields
      DEF Typed, TypeOK, CheckedHasBlock, InvalidateTip, Running, DisconnectTip,
          GenesisKept, Flags, NonGenesis
<1>23. CASE InvalidateEnd
      BY <1>0, <1>23, FreeType, SectionFields
      DEF Typed, TypeOK, CheckedHasBlock, InvalidateEnd, Running, Failed, HasData,
          Proceed, PC, NonGenesis
<1>24. CASE ReprocessTip
  <2>1. [op EXCEPT !.left = @ - 1] \in Sections
        BY <1>0, <1>24, SectionFields DEF Typed, TypeOK, ReprocessTip
  <2>2. CASE DisconnectTip([op EXCEPT !.left = @ - 1])
    <3>1. Parent[tip] \in Blocks
          BY <1>0, <2>2, TreeAssumption
          DEF Typed, TypeOK, DisconnectTip, GenesisKept
    <3>2. op' \in Sections /\ coinsTip' \in Blocks /\ flushing' \in BOOLEAN
          BY <2>1, <2>2, <3>1, SectionFields DEF DisconnectTip
    <3> QED BY <1>0, <1>24, <3>2 DEF Typed, TypeOK, CheckedHasBlock, ReprocessTip
  <2>3. CASE op' = [op EXCEPT !.left = @ - 1] /\ UNCHANGED <<coinsTip, flushing>>
        BY <1>0, <1>24, <2>1, <2>3 DEF Typed, TypeOK, CheckedHasBlock, ReprocessTip
  <2> QED BY <1>24, <2>2, <2>3 DEF ReprocessTip
<1>25. CASE ReprocessEnd
      BY <1>0, <1>25, FreeType, SectionFields
      DEF Typed, TypeOK, CheckedHasBlock, ReprocessEnd, Running, Proceed, PC,
          NonGenesis
<1>26. ASSUME NEW b \in Blocks, FlushIndexEntry(b) PROVE Typed'
      BY <1>0, <1>26 DEF Typed, TypeOK, CheckedHasBlock, FlushIndexEntry, NonGenesis
<1>27. CASE FlushCoins
      BY <1>0, <1>27, FreeType, SectionFields
      DEF Typed, TypeOK, CheckedHasBlock, FlushCoins, Drop, PC, NonGenesis
<1>28. CASE FlushFails
  <2>1. ops' \in 0..MaxOps /\ up' = up /\ crashes' = crashes
        BY <1>0, <1>28, Counting DEF Typed, TypeOK, FlushFails, CountOp
  <2>2. [op EXCEPT !.newTip = None] \in Sections
        BY <1>0, SectionFields DEF Typed, TypeOK
  <2>3. op' \in Sections
        BY <1>28, <2>2, FreeType DEF FlushFails
  <2> QED BY <1>0, <1>28, <2>1, <2>3
      DEF Typed, TypeOK, CheckedHasBlock, FlushFails, Drop, PC
<1>29. CASE Crash
      BY <1>0, <1>29, TreeAssumption, Counting, FreeType
      DEF Typed, TypeOK, CheckedHasBlock, Crash, Die, PC, NonGenesis
<1>30. CASE AssertionDies
      BY <1>0, <1>30, TreeAssumption, FreeType
      DEF Typed, TypeOK, CheckedHasBlock, AssertionDies, Die, PC, NonGenesis
<1>31. CASE RestartDangling
      BY <1>0, <1>31 DEF Typed, TypeOK, CheckedHasBlock, RestartDangling, NonGenesis
<1>32. CASE Reindex
      BY <1>0, <1>32, TreeAssumption, NoneAssumption, FreeType
      DEF Typed, TypeOK, CheckedHasBlock, Reindex, PC, Flags, NonGenesis
<1>33. ASSUME NEW th \in Threads, AcceptBlock(th) PROVE Typed'
  <2>1. CASE RefuseFailed(th, blk[th])
        BY <1>0, <1>33, <2>1
        DEF Typed, TypeOK, CheckedHasBlock, NonGenesis, AcceptBlock, RefuseFailed,
            Drop, PC
  <2>6. CASE ReconsiderCheckpoint(th, blk[th])
    <3>1. Parent[blk[th]] \in Blocks
          BY <1>0, <1>33, TreeAssumption DEF Typed, CheckedHasBlock, AcceptBlock, NonGenesis
    <3>2. /\ status' \in [Blocks -> SUBSET Flags] /\ dirty' \in SUBSET Blocks
          /\ candidates' \in SUBSET Blocks
          BY <1>0, <2>6, <3>1, AncSelf
          DEF Typed, TypeOK, ReconsiderCheckpoint, Reconsider, Known
    <3> QED BY <1>0, <1>33, <2>6, <3>2
        DEF Typed, TypeOK, CheckedHasBlock, AcceptBlock, ReconsiderCheckpoint, Proceed, PC
  <2>2. CASE AcceptDuplicate(th, blk[th])
        BY <1>0, <1>33, <2>2
        DEF Typed, TypeOK, CheckedHasBlock, NonGenesis, AcceptBlock,
            AcceptDuplicate, Proceed, PC
  <2>3. CASE RefuseContext(th, blk[th])
        BY <1>0, <1>33, <2>3
        DEF Typed, TypeOK, CheckedHasBlock, NonGenesis, AcceptBlock, RefuseContext,
            WithHeader, Known, Drop, PC, Flags
  <2>4. CASE RefuseStake(th, blk[th])
        BY <1>0, <1>33, <2>4
        DEF Typed, TypeOK, CheckedHasBlock, NonGenesis, AcceptBlock, RefuseStake,
            WithHeader, AddHeader, Known, Drop, PC, Flags
  <2>5. CASE StoreBlock(th, blk[th])
    <3>1. blk[th] \in NonGenesis /\ blk[th] \in Blocks
          BY <1>0, <1>33 DEF Typed, CheckedHasBlock, AcceptBlock, NonGenesis
    <3>2. NewlyLinked(blk[th]) \in SUBSET Blocks
          BY <1>0, <3>1 DEF Typed, TypeOK, NewlyLinked
    <3>3. \A up1 \in BOOLEAN : Sequenced(NewlyLinked(blk[th]), up1) \in [Blocks -> Nat]
          BY <1>0, <3>2, SequencedType DEF Typed
    <3>4. /\ status' \in [Blocks -> SUBSET Flags]
          /\ next' \in [Blocks -> Blocks \cup {None}] /\ dirty' \in SUBSET Blocks
          BY <1>0, <2>5, <3>1
          DEF Typed, TypeOK, StoreBlock, ReceivedBlockTransactions, WithHeader,
              Flags
    <3>5. /\ linked' \in SUBSET Blocks /\ unlinked' \in SUBSET Blocks
          /\ seq' \in [Blocks -> Nat] /\ candidates' \in SUBSET Blocks
          BY <1>0, <2>5, <3>1, <3>2, <3>3
          DEF Typed, TypeOK, StoreBlock, ReceivedBlockTransactions
    <3> QED BY <1>0, <1>33, <2>5, <3>4, <3>5
        DEF Typed, TypeOK, CheckedHasBlock, AcceptBlock, StoreBlock, Proceed, PC
  <2> QED BY <1>33, <2>1, <2>2, <2>3, <2>4, <2>5, <2>6 DEF AcceptBlock
<1> QED
    BY <1>stutter, <1>1, <1>2, <1>3, <1>4, <1>5, <1>6, <1>7, <1>8, <1>9,
       <1>10, <1>11, <1>12, <1>13, <1>14, <1>15, <1>16, <1>17, <1>18, <1>19,
       <1>20, <1>21, <1>22, <1>23, <1>24, <1>25, <1>26, <1>27, <1>28, <1>29,
       <1>30, <1>31, <1>32, <1>33
    DEF Next, ThreadStep, SectionStep

-----------------------------------------------------------------------------
(* Most steps change no block or undo data, link no block, write nothing   *)
(* to disk and at most move the coins back.                                *)

Framed ==
    /\ up = "up" /\ up' = "up"
    /\ \A b \in Blocks : status'[b] \cap Held = status[b] \cap Held
    /\ linked' = linked /\ unlinked' = unlinked
    /\ coinsTip' \in Anc[coinsTip]
    /\ dStatus' = dStatus /\ dCoins' = dCoins
    /\ dirty \subseteq dirty'
    /\ candidates' \subseteq candidates \cup linked
    /\ op'.kind = "step" => op'.target \in linked

LEMMA FramedKeepsRest == ASSUME Inv, Typed', Framed PROVE Rest'
<1>1. DeadHoldsNothing' BY DEF Framed, DeadHoldsNothing
<1>2. GenesisKept'
      BY TreeAssumption DEF Inv, Rest, Typed, TypeOK, Framed, GenesisKept, Held
<1>3. LinkedExact'
  <2>1. \A b \in Blocks : HasData(b)' <=> HasData(b) BY DEF Framed, HasData, Held
  <2>2. \A b \in Blocks : Anc[b] \subseteq Blocks BY AncSelf
  <2> QED BY <2>1, <2>2 DEF Inv, Rest, Framed, LinkedExact
<1>4. CandidatesLinked' /\ TargetLinked'
      BY DEF Inv, Rest, Framed, CandidatesLinked, TargetLinked
<1>5. CoinsBacked'
  <2>1. Anc[coinsTip'] \subseteq Anc[coinsTip] /\ Anc[coinsTip] \subseteq Blocks
        BY AncSelf, AncTransitive DEF Inv, Typed, TypeOK, Framed
  <2> QED BY <2>1 DEF Inv, Rest, Framed, CoinsBacked, Held
<1>6. DiskBehind' /\ CleanWritten'
      BY DEF Inv, Rest, Framed, DiskBehind, CleanWritten
<1>7. DiskBacked' BY DEF Inv, Rest, Framed, DiskBacked
<1> QED BY <1>1, <1>2, <1>3, <1>4, <1>5, <1>6, <1>7 DEF Rest

SectionStepFramed ==
    \/ FindReject \/ FindNothing \/ FindChain
    \/ StepDisconnect \/ StepInvalid \/ StepEnd \/ UpdateTip
    \/ InvalidateTip \/ InvalidateEnd
    \/ ReprocessTip \/ ReprocessEnd
    \/ FlushFails
ThreadStepFramed(th) ==
    \/ Enter(th) \/ LoopCheck(th) \/ StartFlush(th)
    \/ ReprocessLock(th) \/ ReprocessBlocks(th)
BlockStepFramed(b) ==
    \/ AcceptBlockHeader(b) \/ LockAppears(b) \/ LockExpires(b)
    \/ \E th \in Threads :
          \/ CheckNewBlock(th, b) \/ InvalidateBlock(th, b)
          \/ ReconsiderBlock(th, b) \/ ReprocessRejected(th, b)

LEMMA OneBack ==
    ASSUME Inv, "UNDO" \in status[tip]
    PROVE  tip # Genesis /\ Parent[tip] \in Anc[tip]
<1>1. tip # Genesis BY DEF Inv, Rest, GenesisKept
<1>2. tip \in Blocks \ {Genesis} BY <1>1 DEF Inv, Typed, TypeOK
<1>3. Parent[tip] \in Blocks /\ Anc[tip] = {tip} \cup Anc[Parent[tip]]
      BY <1>2, TreeAssumption
<1> QED BY <1>1, <1>3, AncSelf

LEMMA FramedSteps ==
    ASSUME Inv,
           \/ SectionStepFramed
           \/ \E th \in Threads : ThreadStepFramed(th)
           \/ \E b \in NonGenesis : BlockStepFramed(b)
    PROVE  Framed
<1> USE DEF indexVars, linkVars, chainVars, diskVars, lockVars, threadVars, csVars, lifeVars
<1>0. Typed /\ Rest BY DEF Inv
<1>a. coinsTip \in Anc[coinsTip] BY <1>0, AncSelf DEF Typed, TypeOK
<1>b. op.kind = "step" => op.target \in linked BY <1>0 DEF Rest, TargetLinked
<1>1. ASSUME NEW b \in NonGenesis, AcceptBlockHeader(b) PROVE Framed
      BY <1>0, <1>a, <1>b, <1>1 DEF Typed, TypeOK, Rest, Framed, Held,
         AcceptBlockHeader, Free, AddHeader, WithHeader, Known, NonGenesis
<1>2. ASSUME NEW b \in NonGenesis, LockAppears(b) PROVE Framed
      BY <1>0, <1>a, <1>b, <1>2 DEF Typed, TypeOK, Rest, Framed, Held,
         LockAppears, NonGenesis
<1>3. ASSUME NEW b \in NonGenesis, LockExpires(b) PROVE Framed
      BY <1>0, <1>a, <1>b, <1>3 DEF Typed, TypeOK, Rest, Framed, Held,
         LockExpires, NonGenesis
<1>4. ASSUME NEW th \in Threads, NEW b \in NonGenesis, CheckNewBlock(th, b) PROVE Framed
      BY <1>0, <1>a, <1>b, <1>4 DEF Typed, TypeOK, Rest, Framed, Held,
         CheckNewBlock, NonGenesis
<1>5. ASSUME NEW th \in Threads, NEW b \in NonGenesis, InvalidateBlock(th, b) PROVE Framed
      BY <1>0, <1>a, <1>b, <1>5 DEF Typed, TypeOK, Rest, Framed, Held,
         InvalidateBlock, Free, CountOp, Section, NonGenesis
<1>6. ASSUME NEW th \in Threads, NEW b \in NonGenesis, ReconsiderBlock(th, b) PROVE Framed
      BY <1>0, <1>a, <1>b, <1>6 DEF Typed, TypeOK, Rest, Framed, Held,
         ReconsiderBlock, Free, CountOp, Reconsider, FailedMask, NonGenesis
<1>7. ASSUME NEW th \in Threads, NEW b \in NonGenesis, ReprocessRejected(th, b) PROVE Framed
      BY <1>0, <1>a, <1>b, <1>7 DEF Typed, TypeOK, Rest, Framed, Held,
         ReprocessRejected, Free, Reconsider, FailedMask, NonGenesis
<1>8. ASSUME NEW th \in Threads, Enter(th) PROVE Framed
      BY <1>0, <1>a, <1>b, <1>8 DEF Typed, TypeOK, Rest, Framed, Held,
         Enter, Free, Section
<1>9. ASSUME NEW th \in Threads, LoopCheck(th) PROVE Framed
      BY <1>0, <1>a, <1>b, <1>9 DEF Typed, TypeOK, Rest, Framed, Held,
         LoopCheck
<1>10. ASSUME NEW th \in Threads, StartFlush(th) PROVE Framed
      BY <1>0, <1>a, <1>b, <1>10 DEF Typed, TypeOK, Rest, Framed, Held,
         StartFlush, Free, Section
<1>11. ASSUME NEW th \in Threads, ReprocessLock(th) PROVE Framed
      BY <1>0, <1>a, <1>b, <1>11 DEF Typed, TypeOK, Rest, Framed, Held,
         ReprocessLock, Free, Section
<1>12. ASSUME NEW th \in Threads, ReprocessBlocks(th) PROVE Framed
      BY <1>0, <1>a, <1>b, <1>12 DEF Typed, TypeOK, Rest, Framed, Held,
         ReprocessBlocks, CountOp
<1>13. ASSUME FindReject PROVE Framed
      BY <1>0, <1>a, <1>b, <1>13 DEF Typed, TypeOK, Rest, Framed, Held,
         FindReject, Running
<1>14. ASSUME FindNothing PROVE Framed
      BY <1>0, <1>a, <1>b, <1>14 DEF Typed, TypeOK, Rest, Framed, Held,
         FindNothing, Running, FreeOp
<1>15. ASSUME FindChain PROVE Framed
      BY <1>0, <1>a, <1>b, <1>15 DEF Typed, TypeOK, Rest, Framed, Held,
         FindChain, Running, Section, CandidatesLinked
<1>16. ASSUME StepDisconnect PROVE Framed
      BY <1>0, <1>a, <1>b, <1>16, OneBack DEF Typed, TypeOK, Rest, Framed,
         Held, StepDisconnect, Running, DisconnectTip
<1>17. ASSUME StepInvalid PROVE Framed
      BY <1>0, <1>a, <1>b, <1>17 DEF Typed, TypeOK, Rest, Framed, Held,
         StepInvalid, Connecting, Running, Release, FreeOp
<1>18. ASSUME StepEnd PROVE Framed
      BY <1>0, <1>a, <1>b, <1>18 DEF Typed, TypeOK, Rest, Framed, Held,
         StepEnd, Running, Release, FreeOp
<1>19. ASSUME UpdateTip PROVE Framed
      BY <1>0, <1>a, <1>b, <1>19 DEF Typed, TypeOK, Rest, Framed, Held,
         UpdateTip, Pruned, Sections
<1>20. ASSUME InvalidateTip PROVE Framed
      BY <1>0, <1>a, <1>b, <1>20, OneBack DEF Typed, TypeOK, Rest, Framed,
         Held, InvalidateTip, Running, DisconnectTip
<1>21. ASSUME InvalidateEnd PROVE Framed
      BY <1>0, <1>a, <1>b, <1>21 DEF Typed, TypeOK, Rest, Framed, Held,
         InvalidateEnd, Running, FreeOp
<1>22. ASSUME ReprocessTip PROVE Framed
      BY <1>0, <1>a, <1>b, <1>22, OneBack DEF Typed, TypeOK, Rest, Framed,
         Held, ReprocessTip, Running, DisconnectTip, Sections
<1>23. ASSUME ReprocessEnd PROVE Framed
      BY <1>0, <1>a, <1>b, <1>23 DEF Typed, TypeOK, Rest, Framed, Held,
         ReprocessEnd, Running, FreeOp
<1>24. ASSUME FlushFails PROVE Framed
  <2>1. op'.kind # "step"
    <3>1. CASE op' = [op EXCEPT !.newTip = None] /\ op.kind = "reprocess"
          BY <1>0, <3>1 DEF Typed, TypeOK, Sections
    <3>2. CASE op' = FreeOp BY <3>2 DEF FreeOp
    <3> QED BY <1>24, <3>1, <3>2 DEF FlushFails
  <2> QED BY <1>0, <1>a, <1>24, <2>1 DEF Typed, TypeOK, Framed, FlushFails, CountOp
<1> QED
    BY <1>1, <1>2, <1>3, <1>4, <1>5, <1>6, <1>7, <1>8, <1>9, <1>10, <1>11,
       <1>12, <1>13, <1>14, <1>15, <1>16, <1>17, <1>18, <1>19, <1>20, <1>21,
       <1>22, <1>23, <1>24
    DEF SectionStepFramed, ThreadStepFramed, BlockStepFramed

-----------------------------------------------------------------------------
(* The steps that store a block, connect one, or touch the disk.           *)

\* ReceivedBlockTransactions links exactly the blocks whose ancestors are
\* complete, out of order as they may have come.
LEMMA StoreKeepsRest ==
    ASSUME Inv, Typed', Free, NEW b \in NonGenesis, ~HasData(b), ReceivedBlockTransactions(b),
           coinsTip' = coinsTip, dStatus' = dStatus, dCoins' = dCoins, op' = op, up' = up
    PROVE  Rest'
<1> USE DEF NonGenesis
<1>0. Typed /\ Rest /\ up = "up" /\ up' = "up" /\ b \in Blocks \ {Genesis}
      BY DEF Inv, Free
<1>1. /\ \A x \in Blocks \ {b} : status'[x] = status[x]
      /\ status[b] \subseteq status'[b] /\ status'[b] \subseteq status[b] \cup {"TREE", "DATA"}
      /\ "DATA" \in status'[b]
      /\ dirty' = dirty \cup {b}
      BY <1>0 DEF Typed, TypeOK, ReceivedBlockTransactions, WithHeader, Known
<1>2. \A x \in Blocks : HasData(x)' <=> HasData(x) \/ x = b BY <1>1 DEF HasData
<1>3. /\ Parent[b] \in Blocks /\ Anc[b] = {b} \cup Anc[Parent[b]] /\ b \notin Anc[Parent[b]]
      BY <1>0, TreeAssumption
<1>4. \A x \in Blocks : Anc[x] \subseteq Blocks /\ x \in Anc[x] BY AncSelf
<1>5. /\ \A x \in Blocks : x \in linked <=> \A y \in Anc[x] : HasData(y)
      /\ \A x \in Blocks : x \in unlinked <=> HasData(x) /\ x \notin linked
      BY <1>0 DEF Rest, LinkedExact
<1>6. LinkedExact' /\ linked \subseteq linked' /\ candidates' \subseteq candidates \cup linked'
  <2>1. CASE Parent[b] \in linked
    <3>1. /\ linked' = linked \cup NewlyLinked(b) /\ unlinked' = unlinked \ NewlyLinked(b)
          /\ candidates' \subseteq candidates \cup NewlyLinked(b)
          BY <2>1 DEF ReceivedBlockTransactions
    <3>2. \A y \in Anc[b] : HasData(y) \/ y = b BY <1>3, <1>5, <2>1
    <3>3. ASSUME NEW x \in NewlyLinked(b), NEW y \in Anc[x] PROVE HasData(y) \/ y = b
          BY <1>0, <1>4, <1>5, <3>2 DEF NewlyLinked, Typed, TypeOK
    <3>4. ASSUME NEW x \in Blocks, \A y \in Anc[x] : HasData(y) \/ y = b, x \notin linked
          PROVE  x \in NewlyLinked(b)
      <4>1. b \in Anc[x] BY <1>4, <1>5, <3>4
      <4>2. ASSUME NEW y \in Anc[x] \ Anc[b] PROVE y \in unlinked
        <5>1. b \in Anc[y] BY <4>1, <4>2, AncLinear
        <5>2. y \in Blocks /\ y # b /\ HasData(y) BY <1>4, <1>0, <3>4, <4>2
        <5>3. y \notin linked BY <1>5, <5>1, <5>2
        <5> QED BY <1>5, <5>2, <5>3
      <4>3. x = b \/ x \in unlinked BY <1>4, <1>5, <3>4
      <4> QED BY <4>1, <4>2, <4>3 DEF NewlyLinked
    <3>5. \A x \in Blocks : x \in linked' <=> \A y \in Anc[x] : HasData(y) \/ y = b
          BY <1>5, <3>1, <3>3, <3>4
    <3>6. \A x \in Blocks : x \in unlinked' <=> (HasData(x) \/ x = b) /\ x \notin linked'
          BY <1>0, <1>5, <3>1 DEF NewlyLinked
    <3> QED BY <1>2, <1>4, <3>1, <3>5, <3>6 DEF LinkedExact
  <2>2. CASE Parent[b] \notin linked
    <3>1. linked' = linked /\ unlinked' = unlinked \cup {b} /\ candidates' = candidates
          BY <2>2 DEF ReceivedBlockTransactions
    <3>2. PICK z \in Anc[Parent[b]] : ~HasData(z) /\ z # b BY <1>3, <1>5, <2>2
    <3>3. \A x \in Blocks : b \in Anc[x] => z \in Anc[x] BY <1>3, <3>2, AncTransitive
    <3>4. \A x \in Blocks : x \in linked <=> \A y \in Anc[x] : HasData(y) \/ y = b
          BY <1>5, <3>2, <3>3
    <3>5. \A x \in Blocks : x \in unlinked' <=> (HasData(x) \/ x = b) /\ x \notin linked
          BY <1>4, <1>5, <3>1
    <3> QED BY <1>2, <1>4, <3>1, <3>4, <3>5 DEF LinkedExact
  <2> QED BY <2>1, <2>2
<1>7. DeadHoldsNothing' /\ CandidatesLinked' /\ TargetLinked'
      BY <1>0, <1>6 DEF Rest, DeadHoldsNothing, CandidatesLinked, TargetLinked
<1>8. GenesisKept' BY <1>0, <1>1, TreeAssumption DEF Rest, GenesisKept
<1>9. CoinsBacked'
      BY <1>0, <1>1, <1>4 DEF Rest, CoinsBacked, Typed, TypeOK, Held
<1>10. DiskBehind' /\ CleanWritten'
      BY <1>0, <1>1 DEF Rest, DiskBehind, CleanWritten, Held
<1>11. DiskBacked' BY <1>0 DEF Rest, DiskBacked
<1> QED BY <1>6, <1>7, <1>8, <1>9, <1>10, <1>11 DEF Rest

\* ConnectTip extends the chain of blocks that can be undone by one.
LEMMA ConnectKeepsRest == ASSUME Inv, Typed', StepConnect PROVE Rest'
<1> DEFINE b == NextToward(tip, op.target)
<1> USE DEF indexVars, linkVars, chainVars, diskVars, lockVars, threadVars, csVars, lifeVars
<1>0. Typed /\ Rest /\ Connecting /\ up = "up" /\ up' = "up" /\ op.kind = "step"
      BY DEF Inv, StepConnect, Connecting, Running
<1>1. op.target \in Blocks /\ op.target \in linked
      BY <1>0, StepTarget DEF Rest, TargetLinked
<1>2. b \in Anc[op.target] /\ b \in Blocks \ {Genesis} /\ Parent[b] = tip
      BY <1>0, <1>1, NextBlock DEF Typed
<1>3. HasData(b) BY <1>0, <1>1, <1>2 DEF Rest, LinkedExact
<1>4. /\ status' = [status EXCEPT ![b] = @ \cup {"UNDO", "SCRIPTS"}]
      /\ dirty' = IF {"UNDO", "SCRIPTS"} \subseteq status[b] THEN dirty ELSE dirty \cup {b}
      /\ coinsTip' = b /\ coinsTip = tip /\ op' = [op EXCEPT !.newTip = b]
      /\ UNCHANGED <<linked, unlinked, candidates, dStatus, dCoins>>
      BY DEF StepConnect
<1> HIDE DEF b
<1>5. /\ \A x \in Blocks \ {b} : status'[x] = status[x]
      /\ status'[b] = status[b] \cup {"UNDO", "SCRIPTS"}
      BY <1>0, <1>2, <1>4 DEF Typed, TypeOK
<1>6. LinkedExact'
  <2>1. \A x \in Blocks : HasData(x)' <=> HasData(x) BY <1>5 DEF HasData
  <2> QED BY <1>0, <1>4, <2>1, AncSelf DEF Rest, LinkedExact
<1>7. op'.kind = "step" /\ op'.target = op.target
      BY <1>0, <1>4 DEF Typed, TypeOK, Sections
<1>8. DeadHoldsNothing' /\ CandidatesLinked' /\ TargetLinked' /\ DiskBacked'
      BY <1>0, <1>1, <1>4, <1>7
      DEF Rest, DeadHoldsNothing, CandidatesLinked, TargetLinked, DiskBacked
<1>9. GenesisKept' BY <1>0, <1>2, <1>4, <1>5, TreeAssumption DEF Rest, GenesisKept
<1>10. CoinsBacked'
  <2>1. Anc[b] = {b} \cup Anc[tip] /\ Anc[tip] \subseteq Blocks
        BY <1>0, <1>2, TreeAssumption, AncSelf DEF Typed, TypeOK
  <2>2. \A x \in Anc[tip] \ {Genesis} : Held \subseteq status[x]
        BY <1>0, <1>4 DEF Rest, CoinsBacked
  <2> QED BY <1>3, <1>4, <1>5, <2>1, <2>2 DEF CoinsBacked, HasData, Held
<1>11. DiskBehind' BY <1>0, <1>4, <1>5 DEF Rest, DiskBehind
<1>12. CleanWritten' BY <1>0, <1>4, <1>5 DEF Rest, CleanWritten, Held
<1> QED BY <1>6, <1>8, <1>9, <1>10, <1>11, <1>12 DEF Rest

\* WriteBlockIndex keeps what the coins on disk need.
LEMMA FlushEntryKeepsRest ==
    ASSUME Inv, Typed', NEW b \in Blocks, FlushIndexEntry(b) PROVE Rest'
<1> USE DEF indexVars, linkVars, chainVars, diskVars, lockVars, threadVars, csVars, lifeVars
<1>0. Typed /\ Rest /\ up = "up" /\ up' = "up" BY DEF Inv, FlushIndexEntry
<1>1. /\ \A x \in Blocks \ {b} : dStatus'[x] = dStatus[x]
      /\ dStatus'[b] = status[b] /\ dirty' = dirty \ {b}
      /\ UNCHANGED <<status, linked, unlinked, candidates, coinsTip, dCoins, op>>
      BY <1>0 DEF FlushIndexEntry, Typed, TypeOK
<1>2. \A x \in Blocks : dStatus[x] \cap Held \subseteq dStatus'[x]
      BY <1>0, <1>1 DEF Rest, DiskBehind
<1>3. DiskBacked'
      BY <1>0, <1>1, <1>2, AncSelf DEF Rest, DiskBacked, Typed, TypeOK, Held
<1>4. LinkedExact' BY <1>0, <1>1 DEF Rest, LinkedExact, HasData
<1>5. DiskBehind' /\ CleanWritten' BY <1>0, <1>1 DEF Rest, DiskBehind, CleanWritten
<1>6. GenesisKept' BY <1>0, <1>1, <1>2, TreeAssumption DEF Rest, GenesisKept, Held
<1> QED BY <1>0, <1>1, <1>3, <1>4, <1>5, <1>6
    DEF Rest, DeadHoldsNothing, CandidatesLinked, TargetLinked, CoinsBacked

\* The coins are written when no index entry is left to write.
LEMMA FlushCoinsKeepsRest == ASSUME Inv, Typed', FlushCoins PROVE Rest'
<1> USE DEF indexVars, linkVars, chainVars, diskVars, lockVars, threadVars, csVars, lifeVars
<1>0. Typed /\ Rest /\ up = "up" /\ up' = "up" BY DEF Inv, FlushCoins
<1>1. /\ dCoins' = coinsTip /\ dirty = {} /\ dirty' = {}
      /\ UNCHANGED <<status, linked, unlinked, candidates, coinsTip, dStatus>>
      /\ op' = FreeOp \/ op' = op
      BY DEF FlushCoins
<1>2. DiskBacked'
  <2>1. Anc[coinsTip] \subseteq Blocks BY <1>0, AncSelf DEF Typed, TypeOK
  <2>2. \A x \in Anc[coinsTip] \ {Genesis} : Held \subseteq status[x]
        BY <1>0 DEF Rest, CoinsBacked
  <2>3. \A x \in Blocks : status[x] \cap Held \subseteq dStatus[x]
        BY <1>0, <1>1 DEF Rest, CleanWritten
  <2> QED BY <1>1, <2>1, <2>2, <2>3 DEF DiskBacked, Held
<1>3. LinkedExact' BY <1>0, <1>1 DEF Rest, LinkedExact, HasData
<1> QED BY <1>0, <1>1, <1>2, <1>3
    DEF Rest, DeadHoldsNothing, GenesisKept, CandidatesLinked, TargetLinked, CoinsBacked,
        DiskBehind, CleanWritten, FreeOp

LEMMA DieKeepsRest == ASSUME Inv, Typed', Die PROVE Rest'
<1> USE DEF indexVars, linkVars, chainVars, diskVars, lockVars, threadVars, csVars, lifeVars
<1>0. Typed /\ Rest BY DEF Inv
<1>1. up' = "down" /\ op' = FreeOp /\ dStatus' = dStatus /\ dCoins' = dCoins
      BY DEF Die
<1>2. GenesisKept' BY <1>0, <1>1, TreeAssumption DEF Die, Rest, GenesisKept
<1>3. DiskBacked' BY <1>0, <1>1 DEF Rest, DiskBacked
<1> QED BY <1>1, <1>2, <1>3
    DEF Rest, DeadHoldsNothing, LinkedExact, CandidatesLinked, TargetLinked, CoinsBacked,
        DiskBehind, CleanWritten, FreeOp

\* LoadBlockIndexDB rebuilds nChainTx and mapBlocksUnlinked from nStatus.
LEMMA RestartKeepsRest == ASSUME Inv, Typed', NEW th \in Threads, Restart(th) PROVE Rest'
<1> USE DEF indexVars, linkVars, chainVars, diskVars, lockVars, threadVars, csVars, lifeVars
<1>0. Typed /\ Rest /\ op.kind = "free" BY DEF Inv, Rest, Restart, DeadHoldsNothing
<1>1. /\ status' = dStatus /\ linked' = LoadedLinked /\ unlinked' = LoadedUnlinked
      /\ coinsTip' = dCoins /\ candidates' = LoadedCandidates(tieUp')
      /\ UNCHANGED <<dStatus, dCoins, op>>
      BY DEF Restart
<1>2. LinkedExact'
  <2>1. \A x \in Blocks : Anc[x] \subseteq Blocks /\ x \in Anc[x] BY AncSelf
  <2>2. \A x \in Blocks : x \in LoadedLinked <=> \A y \in Anc[x] : "DATA" \in dStatus[y]
        BY <2>1 DEF LoadedLinked, OnDisk
  <2>3. ASSUME NEW x \in Blocks
        PROVE  x \in LoadedUnlinked <=> "DATA" \in dStatus[x] /\ x \notin LoadedLinked
    <3>1. CASE x = Genesis
          BY <1>0, <2>2, <3>1, TreeAssumption DEF Rest, GenesisKept, LoadedUnlinked
    <3>2. CASE x # Genesis
      <4>1. Parent[x] \in Blocks /\ Anc[x] = {x} \cup Anc[Parent[x]]
            BY <3>2, TreeAssumption
      <4>2. "DATA" \in dStatus[x] => (Parent[x] \in LoadedLinked <=> x \in LoadedLinked)
            BY <2>2, <4>1
      <4> QED BY <3>2, <4>2 DEF LoadedUnlinked, OnDisk
    <3> QED BY <3>1, <3>2
  <2> QED BY <1>1, <2>2, <2>3 DEF LinkedExact, HasData
<1>3. CandidatesLinked' BY <1>1 DEF CandidatesLinked, LoadedCandidates
<1>4. CoinsBacked' BY <1>0, <1>1 DEF Rest, CoinsBacked, DiskBacked, Held
<1> QED BY <1>0, <1>1, <1>2, <1>3, <1>4
    DEF Rest, DeadHoldsNothing, GenesisKept, TargetLinked, DiskBehind, CleanWritten, DiskBacked

LEMMA ReindexKeepsRest == ASSUME Inv, Typed', Reindex PROVE Rest'
<1> USE DEF indexVars, linkVars, chainVars, diskVars, lockVars, threadVars, csVars, lifeVars
<1>0. Typed /\ Rest /\ op.kind = "free" /\ op' = op BY
      DEF Inv, Rest, Reindex, DeadHoldsNothing
<1>1. /\ status' = [b \in Blocks |-> IF b = Genesis THEN {"TREE", "DATA"} ELSE {}]
      /\ dStatus' = status' /\ linked' = {Genesis} /\ unlinked' = {}
      /\ candidates' = {Genesis} /\ coinsTip' = Genesis /\ dCoins' = Genesis
      BY DEF Reindex
<1>2. LinkedExact' BY <1>1, TreeAssumption, AncSelf DEF LinkedExact, HasData
<1> QED BY <1>0, <1>1, <1>2, TreeAssumption
    DEF Rest, DeadHoldsNothing, GenesisKept, CandidatesLinked, TargetLinked, CoinsBacked,
        DiskBehind, CleanWritten, DiskBacked

-----------------------------------------------------------------------------
(* The theorems                                                            *)

\* AcceptBlock: all but StoreBlock leave the data alone.
LEMMA AcceptKeepsRest == ASSUME Inv, Typed', NEW th \in Threads, AcceptBlock(th) PROVE Rest'
<1> USE DEF indexVars, linkVars, chainVars, diskVars, lockVars, threadVars, csVars, lifeVars
<1>0. Typed /\ Rest /\ Free /\ blk[th] \in NonGenesis
      BY DEF Inv, Typed, CheckedHasBlock, AcceptBlock
<1>1. CASE StoreBlock(th, blk[th])
      BY <1>0, <1>1, StoreKeepsRest DEF StoreBlock, AcceptBlock
<1>3. CASE ReconsiderCheckpoint(th, blk[th])
  <2>1. /\ \A b \in Blocks : status'[b] \cap Held = status[b] \cap Held
        /\ dirty \subseteq dirty' /\ candidates' \subseteq candidates \cup linked
        BY <1>0, <1>3
        DEF Typed, TypeOK, ReconsiderCheckpoint, Reconsider, Held, FailedMask
  <2>2. UNCHANGED <<linked, unlinked, coinsTip, dStatus, dCoins, op, up>>
        BY <1>3 DEF AcceptBlock, ReconsiderCheckpoint
  <2>3. coinsTip \in Anc[coinsTip] BY <1>0, AncSelf DEF Typed, TypeOK
  <2>4. Framed BY <1>0, <2>1, <2>2, <2>3 DEF Framed, Free, Rest, TargetLinked
  <2> QED BY <2>4, FramedKeepsRest
<1>2. CASE ~StoreBlock(th, blk[th]) /\ ~ReconsiderCheckpoint(th, blk[th])
  <2>1. UNCHANGED <<linked, unlinked, candidates, coinsTip, dStatus, dCoins, op, up>>
        BY <1>2
        DEF AcceptBlock, RefuseFailed, AcceptDuplicate, RefuseContext, RefuseStake
  <2>2. /\ \A b \in Blocks : status'[b] \cap Held = status[b] \cap Held
        /\ dirty \subseteq dirty'
    <3>1. CASE RefuseFailed(th, blk[th]) \/ AcceptDuplicate(th, blk[th])
          BY <3>1 DEF RefuseFailed, AcceptDuplicate
    <3>2. CASE RefuseContext(th, blk[th])
          BY <1>0, <3>2
          DEF Typed, TypeOK, RefuseContext, WithHeader, Known, Held, NonGenesis
    <3>3. CASE RefuseStake(th, blk[th])
      <4>1. \/ status' = status
            \/ status[blk[th]] = {} /\ status' = [status EXCEPT ![blk[th]] = {"TREE"}]
            BY <1>0, <3>3 DEF RefuseStake, WithHeader, Known, NonGenesis
      <4>2. dirty \subseteq dirty' BY <3>3 DEF RefuseStake, AddHeader
      <4>3. CASE status' = status BY <4>2, <4>3
      <4>4. CASE status[blk[th]] = {} /\ status' = [status EXCEPT ![blk[th]] = {"TREE"}]
        <5>1. status'[blk[th]] = {"TREE"} /\ \A x \in Blocks \ {blk[th]} : status'[x] = status[x]
              BY <1>0, <4>4 DEF Typed, TypeOK, NonGenesis
        <5> QED BY <4>2, <4>4, <5>1 DEF Held
      <4> QED BY <4>1, <4>3, <4>4
    <3> QED BY <1>2, <3>1, <3>2, <3>3 DEF AcceptBlock
  <2>3. coinsTip \in Anc[coinsTip] BY <1>0, AncSelf DEF Typed, TypeOK
  <2>4. Framed BY <1>0, <2>1, <2>2, <2>3 DEF Framed, Free, Rest, TargetLinked
  <2> QED BY <2>4, FramedKeepsRest
<1> QED BY <1>1, <1>2, <1>3

LEMMA InvPreserved == ASSUME Inv, [Next]_vars PROVE Inv'
<1>1. Typed' BY TypePreserved
<1>2. CASE UNCHANGED vars
      BY <1>1, <1>2 DEF vars, Inv, Rest, DeadHoldsNothing, GenesisKept, LinkedExact,
         HasData, CandidatesLinked, TargetLinked, CoinsBacked, DiskBehind, CleanWritten,
         DiskBacked
<1>3. CASE Next
  <2>1. CASE \/ SectionStepFramed
             \/ \E th \in Threads : ThreadStepFramed(th)
             \/ \E b \in NonGenesis : BlockStepFramed(b)
        BY <1>1, <2>1, FramedSteps, FramedKeepsRest DEF Inv
  <2>2. CASE \E th \in Threads : AcceptBlock(th) \/ Restart(th)
        BY <1>1, <2>2, AcceptKeepsRest, RestartKeepsRest DEF Inv
  <2>3. CASE StepConnect BY <1>1, <2>3, ConnectKeepsRest DEF Inv
  <2>4. CASE \E b \in Blocks : FlushIndexEntry(b)
        BY <1>1, <2>4, FlushEntryKeepsRest DEF Inv
  <2>5. CASE FlushCoins BY <1>1, <2>5, FlushCoinsKeepsRest DEF Inv
  <2>6. CASE Crash \/ AssertionDies
        BY <1>1, <2>6, DieKeepsRest DEF Inv, Crash, AssertionDies
  <2>7. CASE RestartDangling
        BY <1>1, <2>7
        DEF RestartDangling, Inv, Rest, DeadHoldsNothing, GenesisKept, LinkedExact,
           CandidatesLinked, TargetLinked, CoinsBacked, DiskBehind, CleanWritten,
           DiskBacked, indexVars, linkVars, chainVars, diskVars, csVars
  <2>8. CASE Reindex BY <1>1, <2>8, ReindexKeepsRest DEF Inv
  <2> QED BY <1>3, <2>1, <2>2, <2>3, <2>4, <2>5, <2>6, <2>7, <2>8
      DEF Next, ThreadStep, SectionStep, SectionStepFramed, ThreadStepFramed, BlockStepFramed
<1> QED BY <1>2, <1>3

LEMMA SpecInv == Spec => []Inv
<1>1. Init => Inv BY InitInv
<1>2. Inv /\ [Next]_vars => Inv' BY InvPreserved
<1> QED BY <1>1, <1>2, PTL DEF Spec

\* Every variable keeps its type, in every interleaving of any number of
\* threads over any block tree.
THEOREM TypeCorrect == Spec => []TypeOK
<1>1. Inv => TypeOK BY DEF Inv, Typed
<1> QED BY <1>1, SpecInv, PTL

\* Wherever FlushStateToDisk is cut off, the best block of the coin database
\* is in the block tree database and can be walked back to genesis.
THEOREM DiskSurvivesCrashes == Spec => []DiskCoinsBacked
<1>1. Inv => DiskCoinsBacked BY DEF Inv, Rest, DiskBacked, Held, DiskCoinsBacked
<1> QED BY <1>1, SpecInv, PTL

\* nChainTx and mapBlocksUnlinked say exactly which branches are complete,
\* however out of order blocks come, and after every restart.
THEOREM LinksCorrect == Spec => []LinkedExact
<1>1. Inv => LinkedExact BY DEF Inv, Rest
<1> QED BY <1>1, SpecInv, PTL

-----------------------------------------------------------------------------
(* The coins follow the chain                                              *)

\* Only the sections that change the chain are ever between the change of the
\* coins and UpdateTip, and only they and a flush proper write to disk.
SectionShape ==
    /\ op.kind \in {"free", "find", "flush"} => op.newTip = None
    /\ flushing => op.kind = "flush" \/ op.newTip # None

\* The coins are those of the tip, or of the block that is to become the tip.
CoinsFollow ==
    up = "up" => coinsTip = IF op.newTip = None THEN tip ELSE op.newTip

\* The tip moves back, or on towards the target.
NewTipNear ==
    op.newTip # None =>
        \/ op.newTip \in Anc[tip]
        \/ op.kind = "step" /\ op.newTip \in Anc[op.target] /\ tip \in Anc[op.newTip]

\* The coins on disk are those of a block of the active chain.
DiskCoinsNear ==
    up = "up" =>
        dCoins \in Anc[IF op.newTip # None /\ ~flushing THEN op.newTip ELSE tip]

\* What some theorems assume: no write to disk fails; no crash, or none in a
\* process whose operator invalidates blocks.
WritesSucceed == "flush failure" \notin Ops
NoCrashes == "crash" \notin Ops
NoCrashAfterInvalidate == "crash" \notin Ops \/ "invalidate" \notin Ops

\* Without crashes the process never ends.
StaysUp == NoCrashes => up = "up"

Coins == SectionShape /\ CoinsFollow /\ NewTipNear /\ DiskCoinsNear /\ StaysUp

LEMMA InitCoins == Init => Coins
BY AncSelf, TreeAssumption, NoneAssumption
DEF Init, Coins, SectionShape, CoinsFollow, NewTipNear, DiskCoinsNear, StaysUp, FreeOp

\* A section starts or ends, or nothing of the chain is touched.
CoinsFramed ==
    /\ up = "up" /\ up' = "up"
    /\ UNCHANGED <<tip, coinsTip, dCoins>>
    /\ \/ UNCHANGED <<op, flushing>>
       \/ /\ op.newTip = None /\ op'.newTip = None
          /\ flushing' => op'.kind = "flush"

LEMMA CoinsFramedKeeps == ASSUME Coins, CoinsFramed PROVE Coins'
<1>1. CASE UNCHANGED <<op, flushing>>
      BY <1>1 DEF Coins, CoinsFramed, SectionShape, CoinsFollow, NewTipNear,
         DiskCoinsNear, StaysUp
<1>2. CASE op.newTip = None /\ op'.newTip = None /\ (flushing' => op'.kind = "flush")
      BY <1>2 DEF Coins, CoinsFramed, SectionShape, CoinsFollow, NewTipNear,
         DiskCoinsNear, StaysUp
<1> QED BY <1>1, <1>2 DEF CoinsFramed

LEMMA FramedCoins ==
    ASSUME Inv, Coins,
           \/ SectionStepFramed /\ ~StepDisconnect /\ ~UpdateTip /\ ~InvalidateTip
                                /\ ~ReprocessTip /\ ~FlushFails
           \/ \E th \in Threads : ThreadStepFramed(th) \/ AcceptBlock(th)
           \/ \E b \in NonGenesis : BlockStepFramed(b)
           \/ \E b \in Blocks : FlushIndexEntry(b)
    PROVE  CoinsFramed
<1> USE DEF indexVars, linkVars, chainVars, diskVars, lockVars, threadVars, csVars, lifeVars
<1>1. ASSUME NEW b \in NonGenesis, BlockStepFramed(b) PROVE CoinsFramed
  <2>1. CASE AcceptBlockHeader(b) \/ LockAppears(b) \/ LockExpires(b)
        BY <2>1 DEF CoinsFramed, AcceptBlockHeader, Free, LockAppears, LockExpires
  <2>2. ASSUME NEW th \in Threads, CheckNewBlock(th, b) PROVE CoinsFramed
        BY <2>2 DEF CoinsFramed, CheckNewBlock
  <2>3. ASSUME NEW th \in Threads, InvalidateBlock(th, b) PROVE CoinsFramed
        BY <2>3 DEF CoinsFramed, InvalidateBlock, Free, CountOp, Section, Coins, SectionShape
  <2>4. ASSUME NEW th \in Threads, ReconsiderBlock(th, b) PROVE CoinsFramed
        BY <2>4 DEF CoinsFramed, ReconsiderBlock, Free, CountOp
  <2>5. ASSUME NEW th \in Threads, ReprocessRejected(th, b) PROVE CoinsFramed
        BY <2>5 DEF CoinsFramed, ReprocessRejected, Free
  <2> QED BY <1>1, <2>1, <2>2, <2>3, <2>4, <2>5 DEF BlockStepFramed
<1>2. ASSUME NEW th \in Threads, ThreadStepFramed(th) \/ AcceptBlock(th) PROVE CoinsFramed
  <2>1. CASE Enter(th) \/ StartFlush(th) \/ ReprocessLock(th)
        BY <2>1 DEF CoinsFramed, Enter, StartFlush, ReprocessLock, Free, Section,
           Coins, SectionShape
  <2>2. CASE LoopCheck(th) \/ ReprocessBlocks(th)
        BY <2>2 DEF CoinsFramed, LoopCheck, ReprocessBlocks, CountOp
  <2>3. CASE AcceptBlock(th) BY <2>3 DEF CoinsFramed, AcceptBlock, Free
  <2> QED BY <1>2, <2>1, <2>2, <2>3 DEF ThreadStepFramed
<1>3. CASE FindReject BY <1>3 DEF CoinsFramed, FindReject, Running
<1>4. CASE FindNothing \/ InvalidateEnd \/ ReprocessEnd \/ StepEnd
      BY <1>4 DEF CoinsFramed, FindNothing, InvalidateEnd, ReprocessEnd, StepEnd,
         Running, Release, FreeOp
<1>5. CASE FindChain BY <1>5 DEF CoinsFramed, FindChain, Running, Section
<1>6. CASE StepInvalid
      BY <1>6 DEF CoinsFramed, StepInvalid, Connecting, Running, Release, FreeOp
<1>7. ASSUME NEW b \in Blocks, FlushIndexEntry(b) PROVE CoinsFramed
      BY <1>7 DEF CoinsFramed, FlushIndexEntry
<1> QED BY <1>1, <1>2, <1>3, <1>4, <1>5, <1>6, <1>7 DEF SectionStepFramed

\* DisconnectTip takes the coins one block back, FLUSH_STATE_ALWAYS follows.
LEMMA DisconnectCoins ==
    ASSUME Inv, Coins, up = "up", up' = "up", NEW s \in Sections, s.newTip = None, op.newTip = None,
           s.kind = op.kind, op.kind \in {"step", "invalidate", "reprocess"},
           DisconnectTip(s), UNCHANGED <<tip, dCoins>>
    PROVE  Coins'
<1>1. tip \in Blocks \ {Genesis} /\ Parent[tip] \in Anc[tip] /\ Parent[tip] \in Blocks
      BY OneBack, TreeAssumption DEF DisconnectTip, Inv, Typed, TypeOK
<1>2. op'.newTip = Parent[tip] /\ op'.kind = op.kind /\ Parent[tip] # None
      BY <1>1, NoneAssumption DEF DisconnectTip, Sections
<1>3. coinsTip' = Parent[tip] /\ flushing' = TRUE BY DEF DisconnectTip
<1>4. SectionShape' BY <1>2, <1>3 DEF SectionShape
<1>5. CoinsFollow' BY <1>2, <1>3 DEF CoinsFollow
<1>6. NewTipNear' BY <1>1, <1>2 DEF NewTipNear
<1>7. DiskCoinsNear' /\ StaysUp' BY <1>2, <1>3 DEF Coins, DiskCoinsNear, StaysUp
<1> QED BY <1>4, <1>5, <1>6, <1>7 DEF Coins

LEMMA CoinsPreserved ==
    ASSUME WritesSucceed, Inv, Coins, [Next]_vars PROVE Coins'
<1> USE DEF indexVars, linkVars, chainVars, diskVars, lockVars, threadVars, csVars, lifeVars
<1>0. Typed /\ Rest BY DEF Inv
<1>1. CASE UNCHANGED vars
      BY <1>1 DEF vars, Coins, SectionShape, CoinsFollow, NewTipNear, DiskCoinsNear, StaysUp
<1>2. ASSUME \/ SectionStepFramed /\ ~StepDisconnect /\ ~UpdateTip /\ ~InvalidateTip
                                  /\ ~ReprocessTip /\ ~FlushFails
             \/ \E th \in Threads : ThreadStepFramed(th) \/ AcceptBlock(th)
             \/ \E b \in NonGenesis : BlockStepFramed(b)
             \/ \E b \in Blocks : FlushIndexEntry(b)
      PROVE  Coins'
      BY <1>2, FramedCoins, CoinsFramedKeeps
<1>3. CASE StepDisconnect
      BY <1>0, <1>3, DisconnectCoins DEF StepDisconnect, Running, Typed, TypeOK
<1>4. CASE InvalidateTip
      BY <1>0, <1>4, DisconnectCoins DEF InvalidateTip, Running, Typed, TypeOK
<1>5. CASE ReprocessTip
  <2>1. op \in Sections /\ op.kind = "reprocess" /\ op.newTip = None /\ op.left > 0
        BY <1>0, <1>5 DEF ReprocessTip, Running, Typed, TypeOK
  <2>2. /\ [op EXCEPT !.left = @ - 1] \in Sections
        /\ [op EXCEPT !.left = @ - 1].newTip = None
        /\ [op EXCEPT !.left = @ - 1].kind = op.kind
    <3>1. [op EXCEPT !.left = @ - 1] \in Sections BY <2>1, SectionFields
    <3> QED BY <2>1, <3>1 DEF Sections
  <2>3. CASE DisconnectTip([op EXCEPT !.left = @ - 1])
        BY <1>5, <2>1, <2>2, <2>3, DisconnectCoins DEF ReprocessTip, Running
  <2>4. CASE op' = [op EXCEPT !.left = @ - 1] /\ UNCHANGED <<coinsTip, flushing>>
    <3>1. CoinsFramed BY <1>5, <2>2, <2>4 DEF CoinsFramed, ReprocessTip, Running
    <3> QED BY <3>1, CoinsFramedKeeps
  <2> QED BY <1>5, <2>3, <2>4 DEF ReprocessTip
<1>6. CASE StepConnect
  <2> DEFINE b == NextToward(tip, op.target)
  <2>1. /\ Connecting /\ up = "up" /\ up' = "up" /\ op.kind = "step"
        /\ coinsTip' = b /\ op' = [op EXCEPT !.newTip = b] /\ UNCHANGED <<tip, dCoins>>
        /\ op.newTip = None /\ ~flushing
        BY <1>6 DEF StepConnect, Connecting, Running
  <2>2. b \in Anc[op.target] /\ b \in Blocks
        BY <1>0, <2>1, NextBlock, StepTarget DEF Typed
  <2> HIDE DEF b
  <2>3. op'.newTip = b /\ op'.kind = "step" /\ op'.target = op.target /\ b # None
        BY <1>0, <2>1, <2>2, NoneAssumption DEF Typed, TypeOK, Sections
  <2>4. DiskCoinsNear' /\ tip \in Anc[b]
    <3>1. dCoins \in Anc[tip] /\ Parent[b] = tip /\ b # Genesis
          BY <1>0, <2>1, NextBlock, StepTarget DEF Coins, DiskCoinsNear, b, Typed
    <3>2. b \in Blocks \ {Genesis} BY <2>2, <3>1
    <3>3. Anc[b] = {b} \cup Anc[tip] BY <3>1, <3>2, TreeAssumption
    <3>4. tip \in Anc[tip] BY <1>0, AncSelf DEF Typed, TypeOK
    <3> QED BY <2>1, <2>3, <3>1, <3>3, <3>4 DEF DiskCoinsNear
  <2> QED BY <2>1, <2>2, <2>3, <2>4
      DEF Coins, SectionShape, CoinsFollow, NewTipNear, StaysUp
<1>7. CASE UpdateTip
  <2>1. /\ up = "up" /\ up' = "up" /\ ~flushing /\ flushing' = flushing
        /\ op.newTip # None /\ tip' = op.newTip
        /\ op' = [op EXCEPT !.newTip = None] /\ UNCHANGED <<coinsTip, dCoins>>
        BY <1>7 DEF UpdateTip
  <2>2. op'.newTip = None /\ op'.kind = op.kind
        BY <1>0, <2>1 DEF Typed, TypeOK, Sections
  <2> QED BY <2>1, <2>2
      DEF Coins, SectionShape, CoinsFollow, NewTipNear, DiskCoinsNear, StaysUp
<1>8. CASE FlushCoins
  <2>1. /\ up = "up" /\ up' = "up" /\ flushing /\ ~flushing'
        /\ dCoins' = coinsTip /\ UNCHANGED <<tip, coinsTip>> /\ coinsTip \in Blocks
        BY <1>0, <1>8 DEF FlushCoins, Typed, TypeOK
  <2>2. CASE op.kind = "flush"
    <3>1. op.newTip = None /\ coinsTip = tip
          BY <2>1, <2>2 DEF Coins, SectionShape, CoinsFollow
    <3>2. op' = FreeOp BY <1>8, <2>2, Zenon DEF FlushCoins
    <3>3. op'.newTip = None BY <3>2 DEF FreeOp
    <3> QED BY <2>1, <3>1, <3>3, AncSelf
        DEF Coins, SectionShape, CoinsFollow, NewTipNear, DiskCoinsNear, StaysUp
  <2>3. CASE op.kind # "flush"
        BY <1>8, <2>1, <2>3, AncSelf
        DEF FlushCoins, Coins, SectionShape, CoinsFollow, NewTipNear, DiskCoinsNear, StaysUp
  <2> QED BY <2>2, <2>3
<1>9. ASSUME ~NoCrashes, Die PROVE Coins'
      BY <1>9 DEF Die, FreeOp, Coins, SectionShape, CoinsFollow, NewTipNear,
         DiskCoinsNear, StaysUp
<1>10. CASE Crash BY <1>9, <1>10 DEF Crash, NoCrashes
<1>11. CASE AssertionDies
  <2>1. up = "up" /\ coinsTip # tip /\ op.newTip = None
        BY <1>11 DEF AssertionDies, NextBlockCall, Connecting, Running
  <2> QED BY <2>1 DEF Coins, CoinsFollow
<1>12. ASSUME NEW th \in Threads, Restart(th) PROVE Coins'
  <2>1. /\ up = "down" /\ tip' = dCoins /\ coinsTip' = dCoins
        /\ UNCHANGED <<dCoins, op, flushing>> /\ dCoins \in Blocks
        BY <1>0, <1>12 DEF Restart, Typed, TypeOK
  <2>2. op.kind = "free" BY <1>0, <2>1 DEF Rest, DeadHoldsNothing
  <2>3. op.newTip = None BY <2>2 DEF Coins, SectionShape
  <2> QED BY <2>1, <2>2, <2>3, AncSelf
      DEF Coins, SectionShape, CoinsFollow, NewTipNear, DiskCoinsNear, StaysUp
<1>13. CASE RestartDangling
      BY <1>13 DEF RestartDangling, Coins, SectionShape, CoinsFollow, NewTipNear,
         DiskCoinsNear, StaysUp
<1>14. CASE Reindex
  <2>1. /\ up # "up" /\ up' = "up" /\ tip' = Genesis /\ coinsTip' = Genesis
        /\ dCoins' = Genesis /\ UNCHANGED <<op, flushing>>
        BY <1>14 DEF Reindex
  <2>2. op.kind = "free" BY <1>0, <2>1 DEF Rest, DeadHoldsNothing
  <2>3. op.newTip = None BY <2>2 DEF Coins, SectionShape
  <2> QED BY <2>1, <2>2, <2>3, TreeAssumption
      DEF Coins, SectionShape, CoinsFollow, NewTipNear, DiskCoinsNear, StaysUp
<1>15. ~FlushFails BY DEF FlushFails, CountOp, WritesSucceed
<1> QED BY <1>1, <1>2, <1>3, <1>4, <1>5, <1>6, <1>7, <1>8, <1>10, <1>11, <1>12,
           <1>13, <1>14, <1>15
    DEF Next, ThreadStep, SectionStep, SectionStepFramed, ThreadStepFramed, BlockStepFramed

LEMMA SpecCoins == ASSUME WritesSucceed PROVE Spec => []Coins
<1>1. Init => Coins BY InitCoins
<1>2. Inv /\ Coins /\ [Next]_vars => Coins' BY CoinsPreserved
<1> QED BY <1>1, <1>2, SpecInv, PTL DEF Spec

\* The assertions that open ConnectBlock and DisconnectBlock: as long as no
\* write to disk fails, every call finds the coins of the tip it works on,
\* across all interleavings, disconnections, crashes and restarts.
THEOREM CoinsMeetTheirBlock ==
    ASSUME WritesSucceed PROVE Spec => []BlockCallsFindTheirCoins
<1>1. Coins => BlockCallsFindTheirCoins
  <2> SUFFICES ASSUME Coins, NextBlockCall PROVE coinsTip = tip
      BY DEF BlockCallsFindTheirCoins
  <2>1. up = "up" /\ op.newTip = None BY DEF NextBlockCall, Connecting, Running
  <2> QED BY <2>1 DEF Coins, CoinsFollow
<1> QED BY <1>1, SpecCoins, PTL

-----------------------------------------------------------------------------
(* Marks of failure and the active chain                                   *)

\* No block of the active chain is marked, except by the InvalidateBlock that
\* is taking it back; nor is one on the way to the target.
TipClean ==
    up = "up" => \A x \in Anc[tip] :
        Failed(x) => op.kind = "invalidate" /\ op.target \in Anc[x]
TargetClean == op.kind = "step" => \A x \in Anc[op.target] : ~Failed(x)
Invalidating == op.kind = "invalidate" => "invalidate" \in Ops /\ op.target \in Blocks

\* A mark that memory no longer has is about to be written over on disk.
FailedWritten ==
    up = "up" => \A x \in Blocks \ dirty : dStatus[x] \cap FailedMask # {} => Failed(x)
DiskClean ==
    "invalidate" \notin Ops => \A x \in Anc[dCoins] : dStatus[x] \cap FailedMask = {}

Marks == TipClean /\ TargetClean /\ Invalidating /\ FailedWritten /\ DiskClean

LEMMA InitMarks == Init => Marks
BY TreeAssumption
DEF Init, Marks, TipClean, TargetClean, Invalidating, FailedWritten, DiskClean,
    Failed, FailedMask, FreeOp

\* Outside the sections that change the chain, the blocks of the active chain
\* have their data.
LEMMA TipHasData ==
    ASSUME Inv, Coins, up = "up", op.newTip = None
    PROVE  \A x \in Anc[tip] : HasData(x) /\ x \in Blocks
<1>1. coinsTip = tip /\ tip \in Blocks BY DEF Coins, CoinsFollow, Inv, Typed, TypeOK
<1>2. HasData(Genesis)
      BY TreeAssumption DEF Inv, Rest, GenesisKept, DiskBehind, HasData, Held
<1>3. \A x \in Anc[tip] \ {Genesis} : HasData(x)
      BY <1>1 DEF Inv, Rest, CoinsBacked, HasData, Held
<1> QED BY <1>1, <1>2, <1>3, AncSelf

\* A step that marks nothing of the active chain and enters neither
\* ActivateBestChainStep nor InvalidateBlock.
MarksFramed ==
    /\ up = "up" /\ up' = "up"
    /\ UNCHANGED <<tip, dStatus, dCoins>>
    /\ dirty \subseteq dirty'
    /\ \A x \in Anc[tip] : Failed(x)' => Failed(x)
    /\ \A x \in Blocks \ dirty' : Failed(x) => Failed(x)'
    /\ \/ /\ op'.kind = op.kind /\ op'.target = op.target
          /\ op.kind = "step" => \A x \in Blocks : Failed(x)' => Failed(x)
       \/ op.kind # "invalidate" /\ op'.kind \notin {"step", "invalidate"}

LEMMA MarksFramedKeeps == ASSUME Inv, Marks, MarksFramed PROVE Marks'
<1>1. TipClean' BY DEF MarksFramed, Marks, TipClean
<1>2. TargetClean'
  <2>1. op.kind = "step" => op.target \in Blocks
        BY DEF Inv, Typed, TypeOK, Rest, TargetLinked
  <2> QED BY <2>1, AncSelf DEF MarksFramed, Marks, TargetClean
<1>3. Invalidating' BY DEF MarksFramed, Marks, Invalidating
<1>4. FailedWritten' BY DEF MarksFramed, Marks, FailedWritten
<1>5. DiskClean' BY DEF MarksFramed, Marks, DiskClean
<1> QED BY <1>1, <1>2, <1>3, <1>4, <1>5 DEF Marks

\* What FindMostWorkChain marks lies above a marked block of the fork.
LEMMA RejectMarks ==
    ASSUME Inv, FindReject
    PROVE  \E t \in Blocks : /\ Failed(t) /\ t \notin Anc[tip]
                             /\ \A x \in Blocks : status'[x] = status[x] \/
                                   ( /\ status'[x] = status[x] \cup {"FAILED_CHILD"}
                                     /\ t \in Anc[x] )
<1>1. PICK b \in candidates : \E t \in Fork(b) :
          /\ Failed(t)
          /\ status' = [x \in Blocks |->
                IF x \in Anc[b] \ Anc[t] THEN status[x] \cup {"FAILED_CHILD"} ELSE status[x]]
      BY DEF FindReject
<1>2. PICK t \in Fork(b) :
          /\ Failed(t)
          /\ status' = [x \in Blocks |->
                IF x \in Anc[b] \ Anc[t] THEN status[x] \cup {"FAILED_CHILD"} ELSE status[x]]
      BY <1>1
<1>3. b \in Blocks /\ t \in Blocks /\ t \in Anc[b] /\ t \notin Anc[tip]
      BY <1>2, AncSelf DEF Fork, Inv, Typed, TypeOK
<1>4. \A x \in Anc[b] \ Anc[t] : t \in Anc[x] BY <1>3, AncLinear
<1> QED BY <1>2, <1>3, <1>4

LEMMA FramedMarks ==
    ASSUME Inv, Coins, Marks,
           \/ SectionStepFramed /\ ~FindChain /\ ~UpdateTip /\ ~InvalidateTip
                                /\ ~InvalidateEnd /\ ~FlushFails
           \/ StepConnect
           \/ \E th \in Threads : ThreadStepFramed(th) \/ AcceptBlock(th)
           \/ \E b \in NonGenesis :
                 /\ BlockStepFramed(b)
                 /\ ~ \E th \in Threads : InvalidateBlock(th, b)
    PROVE  MarksFramed
<1> USE DEF indexVars, linkVars, chainVars, diskVars, lockVars, threadVars, csVars, lifeVars
<1>0. Typed /\ Rest BY DEF Inv
<1>a. Anc[tip] \subseteq Blocks BY <1>0, AncSelf DEF Typed, TypeOK
<1>1. ASSUME NEW b \in NonGenesis, AcceptBlockHeader(b) PROVE MarksFramed
      BY <1>0, <1>a, <1>1 DEF Typed, TypeOK, MarksFramed, AcceptBlockHeader, AddHeader, Free,
         WithHeader, Known, Failed, FailedMask, NonGenesis
<1>2. ASSUME NEW b \in NonGenesis, LockAppears(b) \/ LockExpires(b) PROVE MarksFramed
      BY <1>2 DEF MarksFramed, LockAppears, LockExpires, Failed
<1>3. ASSUME NEW b \in NonGenesis, NEW th \in Threads, CheckNewBlock(th, b) PROVE MarksFramed
      BY <1>3 DEF MarksFramed, CheckNewBlock, Failed
<1>4. ASSUME NEW b \in Blocks, Free, Reconsider(b), up' = up,
             UNCHANGED <<chainVars, diskVars, csVars>>
      PROVE MarksFramed
  <2>1. \A x \in Blocks : Failed(x)' => Failed(x)
        BY <1>0, <1>4 DEF Typed, TypeOK, Reconsider, Failed
  <2>2. \A x \in Blocks \ dirty' : Failed(x) => Failed(x)'
        BY <1>0, <1>4 DEF Typed, TypeOK, Reconsider, Failed
  <2> QED BY <1>a, <1>4, <2>1, <2>2 DEF MarksFramed, Free, Reconsider
<1>5. ASSUME NEW b \in NonGenesis, NEW th \in Threads, ReconsiderBlock(th, b) PROVE MarksFramed
      BY <1>4, <1>5 DEF ReconsiderBlock, NonGenesis, CountOp, Free
<1>6. ASSUME NEW b \in NonGenesis, NEW th \in Threads, ReprocessRejected(th, b)
      PROVE MarksFramed
      BY <1>4, <1>6 DEF ReprocessRejected, NonGenesis
<1>7. ASSUME NEW th \in Threads, AcceptBlock(th) PROVE MarksFramed
  <2> DEFINE b == blk[th]
  <2>1. /\ b \in Blocks \ {Genesis} /\ Free /\ up' = up
        /\ UNCHANGED <<chainVars, diskVars, csVars>> /\ Parent[b] \in Blocks
        BY <1>0, <1>7, TreeAssumption DEF AcceptBlock, Typed, CheckedHasBlock, NonGenesis
  <2>2. \A x \in Anc[tip] : HasData(x)
        BY <2>1, TipHasData DEF Free, Coins, SectionShape
  <2> HIDE DEF b
  <2>3. CASE status' = status /\ dirty' = dirty
        BY <2>1, <2>3 DEF MarksFramed, Free, Failed
  <2>4. CASE ReconsiderCheckpoint(th, b)
        BY <1>4, <2>1, <2>4 DEF ReconsiderCheckpoint
  <2>5. CASE /\ ~HasData(b)
             /\ \A x \in Blocks \ {b} : status'[x] = status[x]
             /\ Failed(b) => status'[b] \cap FailedMask # {}
             /\ dirty \subseteq dirty'
    <3>1. \A x \in Anc[tip] : status'[x] = status[x] BY <1>a, <2>2, <2>5
    <3>2. \A x \in Blocks : Failed(x) => Failed(x)' BY <2>5 DEF Failed
    <3> QED BY <2>1, <2>5, <3>1, <3>2 DEF MarksFramed, Free, Failed
  <2>6. CASE RefuseContext(th, b)
        BY <1>0, <2>1, <2>5, <2>6
        DEF Typed, TypeOK, RefuseContext, WithHeader, Known, Failed, FailedMask
  <2>7. CASE RefuseStake(th, b)
    <3>1. /\ ~HasData(b) /\ ~Failed(b) /\ dirty \subseteq dirty'
          /\ \A x \in Blocks \ {b} : status'[x] = status[x]
          BY <1>0, <2>1, <2>7 DEF Typed, TypeOK, RefuseStake, WithHeader, AddHeader, Known
    <3> QED BY <2>5, <3>1
  <2>8. CASE StoreBlock(th, b)
    <3>1. /\ ~HasData(b) /\ ~Failed(b) /\ dirty \subseteq dirty'
          /\ \A x \in Blocks \ {b} : status'[x] = status[x]
          BY <1>0, <2>1, <2>8
          DEF Typed, TypeOK, StoreBlock, ReceivedBlockTransactions, WithHeader, Known
    <3> QED BY <2>5, <3>1
  <2> QED BY <1>7, <2>3, <2>4, <2>6, <2>7, <2>8
      DEF AcceptBlock, RefuseFailed, AcceptDuplicate, b
<1>8. ASSUME NEW th \in Threads, ThreadStepFramed(th) PROVE MarksFramed
  <2>1. CASE Enter(th) \/ StartFlush(th) \/ ReprocessLock(th)
        BY <2>1 DEF MarksFramed, Enter, StartFlush, ReprocessLock, Free, Section, Failed
  <2>2. CASE LoopCheck(th) \/ ReprocessBlocks(th)
        BY <2>2 DEF MarksFramed, LoopCheck, ReprocessBlocks, CountOp, Failed
  <2> QED BY <1>8, <2>1, <2>2 DEF ThreadStepFramed
<1>9. CASE FindReject
  <2>1. /\ up = "up" /\ op.kind = "find" /\ UNCHANGED <<tip, dStatus, dCoins, dirty, op, up>>
        BY <1>9 DEF FindReject, Running
  <2>2. PICK t \in Blocks :
            /\ Failed(t) /\ t \notin Anc[tip]
            /\ \A x \in Blocks : status'[x] = status[x] \/
                  (status'[x] = status[x] \cup {"FAILED_CHILD"} /\ t \in Anc[x])
        BY <1>9, RejectMarks
  <2>3. \A x \in Anc[tip] : status'[x] = status[x]
        BY <1>0, <1>a, <2>2, AncTransitive DEF Typed, TypeOK
  <2>4. \A x \in Blocks : Failed(x) => Failed(x)' BY <2>2 DEF Failed
  <2> QED BY <2>1, <2>3, <2>4 DEF MarksFramed, Failed
<1>10. CASE FindNothing \/ ReprocessEnd \/ StepEnd
       BY <1>10 DEF MarksFramed, FindNothing, ReprocessEnd, StepEnd, Running, Release,
          FreeOp, Failed
<1>11. CASE StepDisconnect
       BY <1>0, <1>11 DEF Typed, TypeOK, Sections, MarksFramed, StepDisconnect, DisconnectTip,
          Running, Failed
<1>12. CASE ReprocessTip
       BY <1>0, <1>12 DEF Typed, TypeOK, Sections, MarksFramed, ReprocessTip, DisconnectTip,
          Running, Failed
<1>13. CASE StepConnect
  <2> DEFINE b == NextToward(tip, op.target)
  <2>1. /\ up = "up" /\ up' = up /\ UNCHANGED <<tip, dStatus, dCoins>>
        /\ op' = [op EXCEPT !.newTip = b]
        /\ status' = [status EXCEPT ![b] = @ \cup {"UNDO", "SCRIPTS"}]
        /\ dirty \subseteq dirty'
        BY <1>13 DEF StepConnect, Connecting, Running
  <2>2. op'.kind = op.kind /\ op'.target = op.target
        BY <1>0, <2>1 DEF Typed, TypeOK, Sections
  <2> HIDE DEF b
  <2>3. \A x \in Blocks : Failed(x)' <=> Failed(x)
        BY <1>0, <2>1 DEF Typed, TypeOK, Failed, FailedMask
  <2> QED BY <1>a, <2>1, <2>2, <2>3 DEF MarksFramed
<1>14. CASE StepInvalid
  <2> DEFINE b == NextToward(tip, op.target)
  <2>1. /\ up = "up" /\ up' = up /\ UNCHANGED <<tip, dStatus, dCoins>>
        /\ op' = FreeOp /\ op.kind = "step" /\ Connecting
        /\ status' = [status EXCEPT ![b] = @ \cup {"FAILED_VALID"}]
        /\ dirty' = dirty \cup {b}
        BY <1>14 DEF StepInvalid, Connecting, Running, Release
  <2>2. b \in Blocks \ {Genesis} /\ Parent[b] = tip
        BY <1>0, <2>1, NextBlock, StepTarget DEF Typed
  <2> HIDE DEF b
  <2>3. b \notin Anc[tip] BY <2>2, TreeAssumption
  <2>4. \A x \in Blocks : x # b => status'[x] = status[x] BY <1>0, <2>1 DEF Typed, TypeOK
  <2> QED BY <1>a, <2>1, <2>3, <2>4 DEF MarksFramed, Failed, FreeOp
<1> QED BY <1>1, <1>2, <1>3, <1>5, <1>6, <1>7, <1>8, <1>9, <1>10, <1>11, <1>12, <1>13, <1>14
    DEF SectionStepFramed, BlockStepFramed

\* The blocks of a tip that is about to change are as clean as the old tip's.
LEMMA NewTipClean ==
    ASSUME Inv, Coins, Marks, up = "up", op.newTip # None
    PROVE  \A x \in Anc[op.newTip] : Failed(x) => op.kind = "invalidate" /\ op.target \in Anc[x]
<1>1. CASE op.newTip \in Anc[tip]
  <2>1. Anc[op.newTip] \subseteq Anc[tip] BY <1>1, AncTransitive DEF Inv, Typed, TypeOK
  <2> QED BY <2>1 DEF Marks, TipClean
<1>2. CASE op.kind = "step" /\ op.newTip \in Anc[op.target]
  <2>1. op.target \in Blocks BY <1>2 DEF Inv, Typed, TypeOK, Rest, TargetLinked
  <2>2. Anc[op.newTip] \subseteq Anc[op.target] BY <1>2, <2>1, AncTransitive
  <2> QED BY <1>2, <2>2 DEF Marks, TargetClean
<1> QED BY <1>1, <1>2 DEF Coins, NewTipNear

LEMMA MarksPreserved ==
    ASSUME WritesSucceed, NoCrashAfterInvalidate,
           Inv, Coins, Marks, [Next]_vars
    PROVE  Marks'
<1> USE DEF indexVars, linkVars, chainVars, diskVars, lockVars, threadVars, csVars, lifeVars
<1>0. Typed /\ Rest BY DEF Inv
<1>a. Anc[tip] \subseteq Blocks /\ Anc[dCoins] \subseteq Blocks /\ tip \in Blocks
      BY <1>0, AncSelf DEF Typed, TypeOK
<1>1. CASE UNCHANGED vars
      BY <1>1 DEF vars, Marks, TipClean, TargetClean, Invalidating, FailedWritten,
         DiskClean, Failed
<1>2. ASSUME \/ SectionStepFramed /\ ~FindChain /\ ~UpdateTip /\ ~InvalidateTip
                                  /\ ~InvalidateEnd /\ ~FlushFails
             \/ StepConnect
             \/ \E th \in Threads : ThreadStepFramed(th) \/ AcceptBlock(th)
             \/ \E b \in NonGenesis :
                   /\ BlockStepFramed(b)
                   /\ ~ \E th \in Threads : InvalidateBlock(th, b)
      PROVE  Marks'
      BY <1>2, FramedMarks, MarksFramedKeeps
<1>3. CASE FindChain
  <2>1. PICK b \in candidates :
            (\A x \in Fork(b) : ~Failed(x)) /\ op' = Section(op.th, "step", b, tip, 0)
        BY <1>3 DEF FindChain
  <2>2. op'.kind = "step" /\ op'.target = b BY <2>1 DEF Section
  <2>3. up = "up" /\ up' = up /\ op.kind = "find"
        /\ UNCHANGED <<status, dirty, tip, dStatus, dCoins>>
        BY <1>3 DEF FindChain, Running
  <2>4. \A x \in Anc[tip] : ~Failed(x) BY <2>3 DEF Marks, TipClean
  <2>5. \A x \in Anc[b] : ~Failed(x) BY <2>1, <2>4 DEF Fork
  <2> QED BY <2>2, <2>3, <2>4, <2>5
      DEF Marks, TipClean, TargetClean, Invalidating, FailedWritten, DiskClean, Failed
<1>4. CASE UpdateTip
  <2>1. /\ up = "up" /\ up' = up /\ op.newTip # None /\ tip' = op.newTip
        /\ op' = [op EXCEPT !.newTip = None]
        /\ UNCHANGED <<status, dirty, dStatus, dCoins>>
        BY <1>4 DEF UpdateTip
  <2>2. op'.kind = op.kind /\ op'.target = op.target
        BY <1>0, <2>1 DEF Typed, TypeOK, Sections
  <2>3. TipClean' BY <2>1, <2>2, NewTipClean DEF TipClean, Failed
  <2> QED BY <2>1, <2>2, <2>3
      DEF Marks, TargetClean, Invalidating, FailedWritten, DiskClean, Failed
<1>5. ASSUME NEW th \in Threads, NEW b \in NonGenesis, InvalidateBlock(th, b) PROVE Marks'
  <2>1. /\ up = "up" /\ up' = up /\ op.kind = "free" /\ "invalidate" \in Ops
        /\ op' = Section(th, "invalidate", b, None, 0) /\ b \in Blocks
        /\ status' = [status EXCEPT ![b] = @ \cup {"FAILED_VALID"}]
        /\ dirty' = dirty \cup {b} /\ UNCHANGED <<tip, dStatus, dCoins>>
        BY <1>5 DEF InvalidateBlock, Free, CountOp, NonGenesis
  <2>2. op'.kind = "invalidate" /\ op'.target = b BY <2>1 DEF Section
  <2>3. \A x \in Blocks \ {b} : status'[x] = status[x] BY <1>0, <2>1 DEF Typed, TypeOK
  <2>4. \A x \in Anc[tip] : ~Failed(x) BY <2>1 DEF Marks, TipClean
  <2>5. TipClean' BY <1>a, <2>1, <2>2, <2>3, <2>4, AncSelf DEF TipClean, Failed
  <2>6. FailedWritten' BY <2>1, <2>3 DEF Marks, FailedWritten, Failed
  <2> QED BY <2>1, <2>2, <2>5, <2>6
      DEF Marks, TargetClean, Invalidating, DiskClean
<1>6. CASE InvalidateTip
  <2>1. /\ up = "up" /\ up' = up /\ op.kind = "invalidate" /\ op.target \in Anc[tip]
        /\ status' = [status EXCEPT ![tip] = @ \cup {"FAILED_CHILD"}]
        /\ dirty' = dirty \cup {tip} /\ op' = [op EXCEPT !.newTip = Parent[tip]]
        /\ UNCHANGED <<tip, dStatus, dCoins>>
        BY <1>6 DEF InvalidateTip, Running, DisconnectTip
  <2>2. op'.kind = op.kind /\ op'.target = op.target
        BY <1>0, <2>1 DEF Typed, TypeOK, Sections
  <2>3. \A x \in Blocks \ {tip} : status'[x] = status[x] BY <1>0, <2>1 DEF Typed, TypeOK
  <2>4. TipClean' BY <1>a, <2>1, <2>2, <2>3 DEF Marks, TipClean, Failed
  <2>5. FailedWritten' BY <2>1, <2>3 DEF Marks, FailedWritten, Failed
  <2> QED BY <2>1, <2>2, <2>4, <2>5
      DEF Marks, TargetClean, Invalidating, DiskClean
<1>7. CASE InvalidateEnd
  <2>1. /\ up = "up" /\ up' = up /\ op.kind = "invalidate" /\ op.target \notin Anc[tip]
        /\ op' = FreeOp /\ UNCHANGED <<status, dirty, tip, dStatus, dCoins>>
        BY <1>7 DEF InvalidateEnd, Running
  <2>2. \A x \in Anc[tip] : ~Failed(x)
        BY <1>a, <2>1, AncTransitive DEF Marks, TipClean
  <2> QED BY <2>1, <2>2
      DEF Marks, TipClean, TargetClean, Invalidating, FailedWritten, DiskClean, Failed, FreeOp
<1>8. ASSUME NEW b \in Blocks, FlushIndexEntry(b) PROVE Marks'
  <2>1. /\ up = "up" /\ up' = up /\ flushing /\ dStatus' = [dStatus EXCEPT ![b] = status[b]]
        /\ dirty' = dirty \ {b} /\ UNCHANGED <<status, tip, dCoins, op>>
        BY <1>8 DEF FlushIndexEntry
  <2>2. dStatus'[b] = status[b] /\ \A x \in Blocks \ {b} : dStatus'[x] = dStatus[x]
        BY <1>0, <2>1 DEF Typed, TypeOK
  <2>3. FailedWritten' BY <2>1, <2>2 DEF Marks, FailedWritten, Failed
  <2>4. DiskClean'
    <3> SUFFICES ASSUME "invalidate" \notin Ops, NEW x \in Anc[dCoins]
                 PROVE  dStatus'[x] \cap FailedMask = {}
        BY <2>1 DEF DiskClean
    <3>1. CASE x # b BY <1>a, <2>2, <3>1 DEF Marks, DiskClean
    <3>2. CASE x = b
      <4>1. dCoins \in Anc[tip] BY <2>1 DEF Coins, DiskCoinsNear
      <4>2. b \in Anc[tip] BY <1>a, <3>2, <4>1, AncTransitive
      <4>3. ~Failed(b) BY <2>1, <4>2 DEF Marks, TipClean, Invalidating
      <4> QED BY <2>2, <3>2, <4>3 DEF Failed
    <3> QED BY <3>1, <3>2
  <2> QED BY <2>1, <2>3, <2>4 DEF Marks, TipClean, TargetClean, Invalidating, Failed
<1>9. CASE FlushCoins
  <2>1. /\ up = "up" /\ up' = up /\ flushing /\ dirty = {} /\ dCoins' = coinsTip
        /\ UNCHANGED <<status, dirty, tip, dStatus>>
        BY <1>9 DEF FlushCoins
  <2>2. (op.kind = "flush" /\ op' = FreeOp) \/ op' = op
        BY <1>9 DEF FlushCoins
  <2>3. coinsTip \in Blocks /\ Anc[coinsTip] \subseteq Blocks
        BY <1>0, AncSelf DEF Typed, TypeOK
  <2>4. DiskClean'
    <3> SUFFICES ASSUME "invalidate" \notin Ops, NEW x \in Anc[coinsTip]
                 PROVE  dStatus[x] \cap FailedMask = {}
        BY <2>1 DEF DiskClean
    <3>1. op.kind # "invalidate" BY DEF Marks, Invalidating
    <3>2. CASE op.newTip = None
      <4>1. coinsTip = tip BY <2>1, <3>2 DEF Coins, CoinsFollow
      <4> QED BY <2>1, <2>3, <3>1, <4>1 DEF Marks, TipClean, FailedWritten
    <3>3. CASE op.newTip # None
      <4>1. coinsTip = op.newTip BY <2>1, <3>3 DEF Coins, CoinsFollow
      <4>2. ~Failed(x) BY <2>1, <3>1, <3>3, <4>1, NewTipClean
      <4> QED BY <2>1, <2>3, <4>2 DEF Marks, FailedWritten
    <3> QED BY <3>2, <3>3
  <2>5. CASE op' = op
        BY <2>1, <2>4, <2>5
        DEF Marks, TipClean, TargetClean, Invalidating, FailedWritten, Failed
  <2>6. CASE op.kind = "flush" /\ op' = FreeOp
        BY <2>1, <2>4, <2>6
        DEF Marks, TipClean, TargetClean, Invalidating, FailedWritten, Failed, FreeOp
  <2> QED BY <2>2, <2>5, <2>6
<1>10. ASSUME Die PROVE Marks'
       BY <1>10 DEF Die, FreeOp, Marks, TipClean, TargetClean, Invalidating,
          FailedWritten, DiskClean
<1>11. ASSUME NEW th \in Threads, Restart(th) PROVE Marks'
  <2>1. /\ up # "up" /\ status' = dStatus /\ tip' = dCoins
        /\ UNCHANGED <<dStatus, dCoins, op>>
        BY <1>11 DEF Restart
  <2>2. op.kind = "free" BY <1>0, <2>1 DEF Rest, DeadHoldsNothing
  <2>3. "invalidate" \notin Ops BY <2>1 DEF Coins, StaysUp, NoCrashes, NoCrashAfterInvalidate
  <2> QED BY <2>1, <2>2, <2>3
      DEF Marks, TipClean, TargetClean, Invalidating, FailedWritten, DiskClean, Failed
<1>12. CASE RestartDangling
       BY <1>12 DEF RestartDangling, Marks, TipClean, TargetClean, Invalidating,
          FailedWritten, DiskClean, Failed
<1>13. CASE Reindex
  <2>1. /\ up # "up" /\ dStatus' = status' /\ tip' = Genesis /\ dCoins' = Genesis /\ op' = op
        /\ status' = [b \in Blocks |-> IF b = Genesis THEN {"TREE", "DATA"} ELSE {}]
        BY <1>13 DEF Reindex
  <2>2. op.kind = "free" BY <1>0, <2>1 DEF Rest, DeadHoldsNothing
  <2>3. \A x \in Blocks : status'[x] \cap FailedMask = {} BY <2>1 DEF FailedMask
  <2> QED BY <2>1, <2>2, <2>3, TreeAssumption
      DEF Marks, TipClean, TargetClean, Invalidating, FailedWritten, DiskClean, Failed
<1>14. ~FlushFails BY DEF FlushFails, CountOp, WritesSucceed
<1> QED BY <1>1, <1>2, <1>3, <1>4, <1>5, <1>6, <1>7, <1>8, <1>9, <1>10, <1>11, <1>12, <1>13,
           <1>14
    DEF Next, ThreadStep, SectionStep, SectionStepFramed, ThreadStepFramed, BlockStepFramed,
        Crash, AssertionDies

LEMMA SpecMarks ==
    ASSUME WritesSucceed, NoCrashAfterInvalidate
    PROVE  Spec => []Marks
<1>1. Init => Marks BY InitMarks
<1>2. Inv /\ Coins /\ Marks /\ [Next]_vars => Marks' BY MarksPreserved
<1> QED BY <1>1, <1>2, SpecInv, SpecCoins, PTL DEF Spec

\* Whenever cs_main is free, the coins are those of the tip, and every block
\* of the active chain has its data and undo data, went through ConnectBlock
\* and is not marked invalid: through reorganisations, reconsidered and
\* reprocessed blocks, and either invalidated blocks or crashes.  (A crash in
\* the middle of InvalidateBlock, or a write that fails, does leave a marked
\* block on the active chain.)
THEOREM ActiveChainCorrect ==
    ASSUME WritesSucceed, NoCrashAfterInvalidate
    PROVE  Spec => []ActiveChainSound
<1>1. Inv /\ Coins /\ Marks => ActiveChainSound
  <2> SUFFICES ASSUME Inv, Coins, Marks, Free PROVE ActiveChainSound
      BY DEF ActiveChainSound
  <2>1. up = "up" /\ op.kind = "free" /\ op.newTip = None
        BY DEF Free, Coins, SectionShape
  <2>2. coinsTip = tip BY <2>1 DEF Coins, CoinsFollow
  <2> QED BY <2>1, <2>2
      DEF ActiveChainSound, Inv, Rest, CoinsBacked, Held, Marks, TipClean
<1> QED BY <1>1, SpecInv, SpecCoins, SpecMarks, PTL

-----------------------------------------------------------------------------
(* Marks of failure have a cause                                           *)

\* ReconsiderBlock is called neither by the operator, nor for a checkpoint,
\* nor for a block that a transaction lock rejected.
NothingReconsidered ==
    /\ "reconsider" \notin Ops /\ Checkpointed = {}
    /\ "reprocess" \notin Ops \/ LockSensitive = {}

NoneToReconsider ==
    /\ LockSensitive = {} => rejected = {}
    /\ "reprocess" \notin Ops => \A th \in Threads : pc[th] # "reprocess"

LEMMA NoneToReconsiderPreserved ==
    ASSUME Typed, NoneToReconsider, [Next]_vars PROVE NoneToReconsider'
<1> USE DEF indexVars, linkVars, chainVars, diskVars, lockVars, threadVars, csVars, lifeVars
<1>1. LockSensitive = {} => conflicted = {} BY DEF Typed, TypeOK
<1>2. /\ rejected' \subseteq rejected \cup conflicted
      /\ "reprocess" \notin Ops =>
            \A th \in Threads : pc'[th] = "reprocess" => pc[th] = "reprocess"
  <2> DEFINE G == /\ rejected' \subseteq rejected \cup conflicted
                  /\ "reprocess" \notin Ops =>
                        \A th \in Threads : pc'[th] = "reprocess" => pc[th] = "reprocess"
  <2> SUFFICES G OBVIOUS
  <2>1. CASE UNCHANGED vars BY <2>1 DEF vars
  <2>2. ASSUME rejected' = rejected, pc' = pc PROVE G BY <2>2
  <2>3. ASSUME NEW th \in Threads, rejected' = rejected, Proceed(th) \/ Drop(th) PROVE G
        BY <2>3 DEF Typed, TypeOK, Proceed, Drop
  <2>4. ASSUME NEW th \in Threads, Release(th), rejected' \subseteq rejected \cup conflicted
        PROVE G
        BY <2>4 DEF Typed, TypeOK, Release
  <2>5. ASSUME NEW b \in NonGenesis, AcceptBlockHeader(b) \/ LockAppears(b) \/ LockExpires(b)
        PROVE G
        BY <2>2, <2>5 DEF AcceptBlockHeader, LockAppears, LockExpires
  <2>6. ASSUME NEW b \in NonGenesis, NEW th \in Threads, CheckNewBlock(th, b) PROVE G
        BY <2>6 DEF Typed, TypeOK, CheckNewBlock
  <2>7. ASSUME NEW b \in NonGenesis, NEW th \in Threads,
               InvalidateBlock(th, b) \/ ReprocessRejected(th, b) \/ ReconsiderBlock(th, b)
        PROVE G
        BY <2>2, <2>3, <2>7 DEF InvalidateBlock, ReprocessRejected, ReconsiderBlock
  <2>8. ASSUME NEW th \in Threads, AcceptBlock(th) PROVE G
        BY <2>3, <2>8 DEF AcceptBlock, RefuseFailed, ReconsiderCheckpoint, AcceptDuplicate,
           RefuseContext, RefuseStake, StoreBlock
  <2>9. ASSUME NEW th \in Threads, Enter(th) \/ StartFlush(th) \/ ReprocessLock(th) PROVE G
        BY <2>2, <2>9 DEF Enter, StartFlush, ReprocessLock
  <2>10. ASSUME NEW th \in Threads, LoopCheck(th) PROVE G
         BY <2>10 DEF Typed, TypeOK, LoopCheck, Proceed, Drop
  <2>11. ASSUME NEW th \in Threads, ReprocessBlocks(th) PROVE G
         BY <2>11 DEF ReprocessBlocks, CountOp
  <2>12. ASSUME NEW th \in Threads, Restart(th) PROVE G
         BY <2>12 DEF Typed, TypeOK, Restart
  <2>13. CASE FindReject \/ FindChain \/ StepDisconnect \/ StepConnect \/ UpdateTip
              \/ InvalidateTip \/ ReprocessTip \/ \E b \in Blocks : FlushIndexEntry(b)
         BY <2>2, <2>13 DEF FindReject, FindChain, StepDisconnect, StepConnect, UpdateTip,
            InvalidateTip, ReprocessTip, FlushIndexEntry
  <2>14. CASE FindNothing \/ InvalidateEnd \/ ReprocessEnd
    <3>1. rejected' = rejected /\ (Drop(op.th) \/ Proceed(op.th))
          BY <2>14 DEF FindNothing, InvalidateEnd, ReprocessEnd
    <3> QED BY <3>1 DEF Typed, TypeOK, Drop, Proceed
  <2>15. CASE StepInvalid \/ StepEnd
    <3>1. rejected' \subseteq rejected \cup conflicted /\ Release(op.th)
          BY <2>15 DEF StepInvalid, StepEnd
    <3> QED BY <3>1 DEF Typed, TypeOK, Release
  <2>16. CASE FlushCoins \/ FlushFails
    <3>1. rejected' = rejected /\ (Drop(op.th) \/ pc' = pc)
          BY <2>16 DEF FlushCoins, FlushFails
    <3> QED BY <3>1 DEF Typed, TypeOK, Drop
  <2>17. CASE Crash \/ AssertionDies BY <2>17 DEF Crash, AssertionDies, Die
  <2>18. CASE RestartDangling BY <2>2, <2>18 DEF RestartDangling
  <2>19. CASE Reindex BY <2>19 DEF Reindex
  <2> HIDE DEF G
  <2> QED BY <2>1, <2>5, <2>6, <2>7, <2>8, <2>9, <2>10, <2>11, <2>12, <2>13, <2>14, <2>15,
             <2>16, <2>17, <2>18, <2>19 DEF Next, ThreadStep, SectionStep
<1> QED BY <1>1, <1>2 DEF NoneToReconsider

LEMMA SpecNoneToReconsider == Spec => []NoneToReconsider
<1>1. Init => NoneToReconsider BY DEF Init, NoneToReconsider
<1>2. Inv /\ NoneToReconsider /\ [Next]_vars => NoneToReconsider'
      BY NoneToReconsiderPreserved DEF Inv
<1> QED BY <1>1, <1>2, SpecInv, PTL DEF Spec

LEMMA ReconsiderNever ==
    ASSUME NothingReconsidered, NoneToReconsider
    PROVE  /\ \A th \in Threads, b \in Blocks :
                 ~ReconsiderBlock(th, b) /\ ~ReprocessRejected(th, b)
           /\ \A th \in Threads : ~ReconsiderCheckpoint(th, blk[th])
BY DEF NothingReconsidered, NoneToReconsider, ReconsiderBlock, CountOp, ReprocessRejected,
       ReconsiderCheckpoint

Caused(b) == \E x \in Anc[b] : "FAILED_VALID" \in status[x]
CauseKept ==
    /\ \A b \in Blocks : Failed(b) => Caused(b)
    /\ op.kind = "invalidate" => op.target \in Blocks /\ "FAILED_VALID" \in status[op.target]

\* No mark goes, and one that comes has a cause.
CauseFramed ==
    /\ \A x \in Blocks : status[x] \cap FailedMask \subseteq status'[x]
    /\ \A x \in Blocks :
          \/ status'[x] \cap FailedMask \subseteq status[x]
          \/ "FAILED_VALID" \in status'[x]
          \/ \E y \in Anc[x] : Failed(y)
    /\ op'.kind = "invalidate" => op'.target \in Blocks /\ "FAILED_VALID" \in status'[op'.target]

LEMMA CauseFramedKeeps == ASSUME CauseKept, CauseFramed PROVE CauseKept'
<1>1. ASSUME NEW b \in Blocks, Caused(b) PROVE Caused(b)'
      BY <1>1, AncSelf DEF Caused, CauseFramed, FailedMask
<1>2. ASSUME NEW b \in Blocks, Failed(b)' PROVE Caused(b)'
  <2>1. CASE status'[b] \cap FailedMask \subseteq status[b]
        BY <1>1, <1>2, <2>1 DEF Failed, CauseKept
  <2>2. CASE "FAILED_VALID" \in status'[b] BY <2>2, AncSelf DEF Caused
  <2>3. CASE \E y \in Anc[b] : Failed(y)
    <3>1. PICK y \in Anc[b] : Failed(y) BY <2>3
    <3>2. y \in Blocks /\ Anc[y] \subseteq Anc[b] BY <3>1, AncSelf, AncTransitive
    <3>3. Caused(y)' BY <1>1, <3>1, <3>2 DEF CauseKept
    <3> QED BY <3>2, <3>3 DEF Caused
  <2> QED BY <2>1, <2>2, <2>3 DEF CauseFramed
<1> QED BY <1>2 DEF CauseFramed, CauseKept

LEMMA SectionKinds ==
    /\ FreeOp.kind = "free" /\ FreeOp.newTip = None
    /\ \A th, kind, target, old, left :
          /\ Section(th, kind, target, old, left).kind = kind
          /\ Section(th, kind, target, old, left).target = target
          /\ Section(th, kind, target, old, left).th = th
          /\ Section(th, kind, target, old, left).newTip = None
BY DEF FreeOp, Section

LEMMA CauseSteps ==
    ASSUME WritesSucceed, NoCrashes, NothingReconsidered,
           Inv, Coins, NoneToReconsider, CauseKept, Next
    PROVE  CauseFramed
<1> USE DEF indexVars, linkVars, chainVars, diskVars, lockVars, threadVars, csVars, lifeVars
<1>0. Typed /\ Rest /\ up = "up" BY DEF Inv, Coins, StaysUp
<1>1. ASSUME status' = status, op'.kind = "invalidate" => op'.kind = op.kind /\ op'.target = op.target
      PROVE  CauseFramed
      BY <1>1 DEF CauseFramed, CauseKept
<1>2. ASSUME NEW b \in Blocks, \A x \in Blocks \ {b} : status'[x] = status[x],
             status[b] \cap FailedMask \subseteq status'[b],
             status'[b] \cap FailedMask \subseteq status[b] \/ "FAILED_VALID" \in status'[b],
             op'.kind # "invalidate"
      PROVE  CauseFramed
  <2>1. \A x \in Blocks : status[x] \cap FailedMask \subseteq status'[x]
    <3> TAKE x \in Blocks
    <3>1. CASE x = b BY <1>2, <3>1
    <3>2. CASE x # b
      <4>1. status'[x] = status[x] BY <1>2, <3>2
      <4> QED BY <4>1
    <3> QED BY <3>1, <3>2
  <2>2. \A x \in Blocks :
           status'[x] \cap FailedMask \subseteq status[x] \/ "FAILED_VALID" \in status'[x]
        BY <1>2
  <2> QED BY <1>2, <2>1, <2>2 DEF CauseFramed
<1>3. ASSUME NEW b \in NonGenesis, AcceptBlockHeader(b) PROVE CauseFramed
  <2>1. /\ \A x \in Blocks \ {b} : status'[x] = status[x]
        /\ status[b] = {} /\ status'[b] = {"TREE"} /\ op'.kind # "invalidate"
        BY <1>0, <1>3 DEF Typed, TypeOK, AcceptBlockHeader, WithHeader, Known, Free, NonGenesis
  <2> QED BY <1>2, <2>1 DEF NonGenesis, FailedMask
<1>4. ASSUME NEW b \in NonGenesis, LockAppears(b) \/ LockExpires(b) PROVE CauseFramed
      BY <1>1, <1>4 DEF LockAppears, LockExpires
<1>5. ASSUME NEW b \in NonGenesis, NEW th \in Threads, CheckNewBlock(th, b) PROVE CauseFramed
      BY <1>1, <1>5 DEF CheckNewBlock
<1>6. ASSUME NEW b \in NonGenesis, NEW th \in Threads, InvalidateBlock(th, b) PROVE CauseFramed
  <2>1. /\ status' = [status EXCEPT ![b] = @ \cup {"FAILED_VALID"}]
        /\ op' = Section(th, "invalidate", b, None, 0) /\ b \in Blocks
        BY <1>6 DEF InvalidateBlock, NonGenesis
  <2>2. /\ \A x \in Blocks \ {b} : status'[x] = status[x]
        /\ status'[b] = status[b] \cup {"FAILED_VALID"} /\ op'.target = b
        BY <1>0, <2>1 DEF Typed, TypeOK, Section
  <2> QED BY <2>1, <2>2 DEF CauseFramed
<1>7. ASSUME NEW b \in NonGenesis, NEW th \in Threads
      PROVE ~ReconsiderBlock(th, b) /\ ~ReprocessRejected(th, b)
      BY ReconsiderNever DEF NonGenesis
<1>8. ASSUME NEW th \in Threads, AcceptBlock(th) PROVE CauseFramed
  <2>1. blk[th] \in Blocks /\ op'.kind # "invalidate" /\ op' = op
        BY <1>0, <1>8 DEF AcceptBlock, Typed, CheckedHasBlock, NonGenesis, Free
  <2>2. CASE RefuseFailed(th, blk[th]) \/ AcceptDuplicate(th, blk[th])
        BY <1>1, <2>1, <2>2 DEF RefuseFailed, AcceptDuplicate
  <2>3. CASE RefuseContext(th, blk[th])
    <3>1. /\ \A x \in Blocks \ {blk[th]} : status'[x] = status[x]
          /\ status[blk[th]] \subseteq status'[blk[th]] /\ "FAILED_VALID" \in status'[blk[th]]
          BY <1>0, <2>1, <2>3 DEF Typed, TypeOK, RefuseContext, WithHeader, Known
    <3> QED BY <1>2, <2>1, <3>1
  <2>4. CASE RefuseStake(th, blk[th])
    <3>1. /\ \A x \in Blocks \ {blk[th]} : status'[x] = status[x]
          /\ ~Failed(blk[th]) /\ status'[blk[th]] \cap FailedMask = {}
          BY <1>0, <2>1, <2>4
          DEF Typed, TypeOK, RefuseStake, WithHeader, Known, Failed, FailedMask
    <3> QED BY <1>2, <2>1, <3>1 DEF Failed
  <2>5. CASE StoreBlock(th, blk[th])
    <3>1. /\ \A x \in Blocks \ {blk[th]} : status'[x] = status[x]
          /\ ~Failed(blk[th]) /\ status'[blk[th]] \cap FailedMask = {}
          BY <1>0, <2>1, <2>5
          DEF Typed, TypeOK, StoreBlock, ReceivedBlockTransactions, WithHeader, Known, Failed,
              FailedMask
    <3> QED BY <1>2, <2>1, <3>1 DEF Failed
  <2> QED BY <1>8, <2>2, <2>3, <2>4, <2>5, ReconsiderNever DEF AcceptBlock
<1>9. ASSUME NEW th \in Threads, ThreadStepFramed(th) PROVE CauseFramed
  <2>1. CASE Enter(th) \/ StartFlush(th) \/ ReprocessLock(th)
    <3>1. op'.kind # "invalidate"
          BY <2>1, SectionKinds DEF Enter, StartFlush, ReprocessLock
    <3>2. status' = status BY <2>1 DEF Enter, StartFlush, ReprocessLock
    <3> QED BY <1>1, <3>1, <3>2
  <2>2. CASE LoopCheck(th) \/ ReprocessBlocks(th)
        BY <1>1, <2>2 DEF LoopCheck, ReprocessBlocks
  <2> QED BY <1>9, <2>1, <2>2 DEF ThreadStepFramed
<1>10. CASE FindReject
  <2>1. op' = op /\ op.kind = "find" BY <1>10 DEF FindReject, Running
  <2>2. PICK t \in Blocks : Failed(t) /\ \A x \in Blocks :
            \/ status'[x] = status[x]
            \/ status'[x] = status[x] \cup {"FAILED_CHILD"} /\ t \in Anc[x]
        BY <1>10, RejectMarks
  <2> QED BY <2>1, <2>2 DEF CauseFramed
<1>11. CASE FindNothing \/ FindChain \/ StepEnd \/ InvalidateEnd \/ ReprocessEnd
  <2>1. status' = status
        BY <1>11 DEF FindNothing, FindChain, StepEnd, InvalidateEnd, ReprocessEnd
  <2>2. op' = FreeOp \/ \E b \in Blocks \cup candidates : op' = Section(op.th, "step", b, tip, 0)
        BY <1>11 DEF FindNothing, FindChain, StepEnd, InvalidateEnd, ReprocessEnd, Release
  <2>3. op'.kind # "invalidate" BY <2>2, SectionKinds
  <2> QED BY <1>1, <2>1, <2>3
<1>12. CASE StepDisconnect \/ UpdateTip \/ ReprocessTip
  <2>1. status' = status BY <1>12 DEF StepDisconnect, UpdateTip, ReprocessTip
  <2>2. op'.kind = op.kind /\ op'.target = op.target
        BY <1>0, <1>12
        DEF Typed, TypeOK, Sections, StepDisconnect, DisconnectTip, UpdateTip, ReprocessTip
  <2> QED BY <1>1, <2>1, <2>2
<1>13. CASE StepConnect
  <2> DEFINE b == NextToward(tip, op.target)
  <2>1. /\ Connecting /\ op.kind = "step" /\ op' = [op EXCEPT !.newTip = b]
        /\ status' = [status EXCEPT ![b] = @ \cup {"UNDO", "SCRIPTS"}]
        BY <1>13 DEF StepConnect, Connecting, Running
  <2>2. b \in Blocks BY <1>0, <2>1, NextBlock, StepTarget DEF Typed
  <2>3. op'.kind # "invalidate" BY <1>0, <2>1 DEF Typed, TypeOK, Sections
  <2> HIDE DEF b
  <2>4. /\ \A x \in Blocks \ {b} : status'[x] = status[x]
        /\ status'[b] = status[b] \cup {"UNDO", "SCRIPTS"}
        BY <1>0, <2>1, <2>2 DEF Typed, TypeOK
  <2> QED BY <2>2, <2>3, <2>4 DEF CauseFramed, FailedMask
<1>14. CASE StepInvalid
  <2> DEFINE b == NextToward(tip, op.target)
  <2>1. /\ Connecting /\ op' = FreeOp
        /\ status' = [status EXCEPT ![b] = @ \cup {"FAILED_VALID"}]
        BY <1>14 DEF StepInvalid, Release
  <2>2. b \in Blocks BY <1>0, <2>1, NextBlock, StepTarget DEF Typed
  <2> HIDE DEF b
  <2>4. /\ \A x \in Blocks \ {b} : status'[x] = status[x]
        /\ status'[b] = status[b] \cup {"FAILED_VALID"}
        BY <1>0, <2>1, <2>2 DEF Typed, TypeOK
  <2> QED BY <2>1, <2>2, <2>4 DEF CauseFramed, FreeOp
<1>15. CASE InvalidateTip
  <2>1. /\ op.kind = "invalidate" /\ op.target \in Anc[tip] /\ tip \in Blocks
        /\ status' = [status EXCEPT ![tip] = @ \cup {"FAILED_CHILD"}]
        /\ op' = [op EXCEPT !.newTip = Parent[tip]]
        BY <1>0, <1>15 DEF Typed, TypeOK, InvalidateTip, Running, DisconnectTip
  <2>2. op'.target = op.target BY <1>0, <2>1 DEF Typed, TypeOK, Sections
  <2>3. Failed(op.target) BY <2>1 DEF CauseKept, Failed, FailedMask
  <2>4. /\ \A x \in Blocks \ {tip} : status'[x] = status[x]
        /\ status'[tip] = status[tip] \cup {"FAILED_CHILD"}
        BY <1>0, <2>1 DEF Typed, TypeOK
  <2>5. \A x \in Blocks : status[x] \subseteq status'[x] BY <2>4
  <2>6. op'.target \in Blocks /\ "FAILED_VALID" \in status'[op'.target]
        BY <2>1, <2>2, <2>5 DEF CauseKept
  <2>7. \A x \in Blocks : status'[x] \subseteq status[x] \/ \E y \in Anc[x] : Failed(y)
        BY <2>1, <2>3, <2>4
  <2> QED BY <2>5, <2>6, <2>7 DEF CauseFramed
<1>16. ASSUME NEW b \in Blocks, FlushIndexEntry(b) PROVE CauseFramed
       BY <1>1, <1>16 DEF FlushIndexEntry
<1>17. CASE FlushCoins
  <2>1. status' = status /\ (op' = FreeOp \/ op' = op) BY <1>17 DEF FlushCoins
  <2>2. op' = FreeOp => op'.kind # "invalidate" BY SectionKinds
  <2> QED BY <1>1, <2>1, <2>2
<1>18. ~FlushFails /\ ~Crash /\ ~RestartDangling /\ ~Reindex
       BY <1>0 DEF FlushFails, CountOp, WritesSucceed, Crash, NoCrashes, RestartDangling, Reindex
<1>19. ~AssertionDies
       BY DEF AssertionDies, NextBlockCall, Connecting, Running, Coins, CoinsFollow
<1>20. \A th \in Threads : ~Restart(th) BY <1>0 DEF Restart
<1> QED BY <1>3, <1>4, <1>5, <1>6, <1>7, <1>8, <1>9, <1>10, <1>11, <1>12, <1>13, <1>14,
           <1>15, <1>16, <1>17, <1>18, <1>19, <1>20
    DEF Next, ThreadStep, SectionStep, ThreadStepFramed

\* CheckBlockIndex: a block marked invalid has an ancestor that was found or
\* declared invalid itself, whatever InvalidateBlock, FindMostWorkChain and
\* ContextualCheckBlock mark and in whatever order the blocks come: as long as
\* nothing is reconsidered and the process does not end.  (ReconsiderBlock
\* leaves marks without a cause, and a crash may lose the cause's mark.)
THEOREM MarksHaveCause ==
    ASSUME WritesSucceed, NoCrashes, NothingReconsidered
    PROVE  Spec => []FailureHasCause
<1>1. Init => CauseKept
  <2> SUFFICES ASSUME Init PROVE CauseKept OBVIOUS
  <2>1. \A b \in Blocks : status[b] \cap FailedMask = {} BY DEF Init, FailedMask
  <2>2. op.kind = "free" BY DEF Init, FreeOp
  <2> QED BY <2>1, <2>2 DEF CauseKept, Failed
<1>2. Inv /\ Coins /\ NoneToReconsider /\ CauseKept /\ [Next]_vars => CauseKept'
  <2> SUFFICES ASSUME Inv, Coins, NoneToReconsider, CauseKept, [Next]_vars PROVE CauseKept'
      OBVIOUS
  <2>1. CASE UNCHANGED vars BY <2>1 DEF vars, CauseKept, Failed, Caused
  <2>2. CASE Next BY <2>2, CauseSteps, CauseFramedKeeps
  <2> QED BY <2>1, <2>2
<1>3. CauseKept => FailureHasCause BY DEF CauseKept, Caused, FailureHasCause
<1> QED BY <1>1, <1>2, <1>3, SpecInv, SpecCoins, SpecNoneToReconsider, PTL DEF Spec

-----------------------------------------------------------------------------
(* The order of setBlockIndexCandidates                                    *)

LEMMA WorkGrows == \A b \in Blocks : \A x \in Anc[b] \ {b} : Work[x] < Work[b]
<1> DEFINE S == {b \in Blocks : \A x \in Anc[b] \ {b} : Work[x] < Work[b]}
<1>1. Genesis \in S BY TreeAssumption
<1>2. ASSUME NEW b \in Blocks \ {Genesis}, Parent[b] \in S PROVE b \in S
  <2>1. /\ Anc[b] = {b} \cup Anc[Parent[b]] /\ Parent[b] \in Blocks
        /\ Anc[Parent[b]] \subseteq Blocks
        BY TreeAssumption, AncSelf
  <2>2. Work[Parent[b]] < Work[b] /\ \A x \in Blocks : Work[x] \in Nat BY WorkAssumption
  <2>3. ASSUME NEW x \in Anc[Parent[b]] PROVE Work[x] < Work[b]
    <3>1. x = Parent[b] \/ Work[x] < Work[Parent[b]] BY <1>2, <2>3
    <3>2. x \in Blocks BY <2>1, <2>3
    <3> QED BY <2>1, <2>2, <3>1, <3>2
  <2> QED BY <2>1, <2>3
<1>3. S = Blocks BY <1>1, <1>2, TreeInduction
<1> QED BY <1>3

\* CBlockIndexWorkComparator is a strict total order.
LEMMA WorseOrder ==
    ASSUME NEW s \in [Blocks -> Nat]
    PROVE  /\ \A a, b \in Blocks : a # b => Worse(a, b, s) \/ Worse(b, a, s)
           /\ \A a, b \in Blocks : Worse(a, b, s) => ~Worse(b, a, s)
           /\ \A a, b, c \in Blocks : Worse(a, b, s) /\ Worse(b, c, s) => Worse(a, c, s)
<1>1. \A a \in Blocks : Work[a] \in Nat /\ s[a] \in Nat /\ Rank[a] \in Int
      BY WorkAssumption, RankAssumption
<1>2. \A a, b \in Blocks : a # b => Rank[a] # Rank[b] BY RankAssumption
<1>3. \A a, b \in Blocks : a # b => Worse(a, b, s) \/ Worse(b, a, s)
      BY <1>1, <1>2 DEF Worse
<1>4. \A a, b \in Blocks : Worse(a, b, s) => ~Worse(b, a, s)
      BY <1>1 DEF Worse
<1>5. ASSUME NEW a \in Blocks, NEW b \in Blocks, NEW c \in Blocks,
             Worse(a, b, s), Worse(b, c, s)
      PROVE  Worse(a, c, s)
      BY <1>1, <1>5 DEF Worse
<1> QED BY <1>3, <1>4, <1>5

LEMMA AncestorWorse ==
    ASSUME NEW s \in [Blocks -> Nat], NEW b \in Blocks, NEW a \in Anc[b], a # b
    PROVE  Worse(a, b, s)
BY WorkGrows, AncSelf DEF Worse

-----------------------------------------------------------------------------
(* A good candidate is left                                                *)

\* What the next theorems assume: nothing is reconsidered, and CheckBlock
\* refuses no block for a transaction lock.
NoLockConflicts == LockSensitive = {}

\* Blocks of which ConnectBlock will never refuse one.
Sound(w) == \A x \in Anc[w] : HasData(x) /\ ~Failed(x) /\ x \notin BadConnect
ScriptsValid == \A b \in BadConnect : "SCRIPTS" \notin status[b] /\ "SCRIPTS" \notin dStatus[b]
CandidatesGood == up = "up" => \A c \in candidates : ~Worse(c, tip, seq)
SeqShape == up = "down" => \A b \in Blocks : seq[b] = 0

\* Some candidate can be connected and is better than every unmarked block
\* that was pruned.
CoveredBy(w) ==
    Sound(w) /\ \A b \in linked \ candidates : ~Failed(b) => Worse(b, w, seq)
CandidateLeft ==
    up = "up" /\ op.kind # "invalidate" => \E w \in candidates : CoveredBy(w)

Cover == ScriptsValid /\ CandidatesGood /\ SeqShape /\ CandidateLeft

LEMMA InitCover == Init => Cover
<1> SUFFICES ASSUME Init PROVE Cover OBVIOUS
<1>1. /\ candidates = {Genesis} /\ linked = {Genesis} /\ tip = Genesis /\ up = "up"
      /\ status = [b \in Blocks |-> IF b = Genesis THEN {"TREE", "DATA"} ELSE {}]
      /\ dStatus = status /\ seq = [b \in Blocks |-> IF b = Genesis THEN 1 ELSE 0]
      BY DEF Init
<1>2. ScriptsValid BY <1>1, BadAssumption DEF ScriptsValid
<1>3. CandidatesGood
  <2>1. seq \in [Blocks -> Nat] BY <1>1
  <2> QED BY <1>1, <2>1, WorseOrder, TreeAssumption DEF CandidatesGood
<1>4. Sound(Genesis)
      BY <1>1, TreeAssumption, BadAssumption DEF Sound, HasData, Failed, FailedMask
<1> QED BY <1>1, <1>2, <1>3, <1>4 DEF Cover, SeqShape, CandidateLeft, CoveredBy

\* Candidates go only when they are marked, and of the linked blocks only those
\* are marked that ConnectBlock refuses or that build on a marked one.
CoverFramed ==
    /\ up = "up" /\ up' = "up"
    /\ UNCHANGED <<tip, seq, tieUp, linked>>
    /\ candidates' \subseteq candidates
    /\ ScriptsValid'
    /\ op'.kind # "invalidate" =>
          /\ op.kind # "invalidate"
          /\ \A x \in candidates \ candidates' : Failed(x)'
          /\ \A x \in linked :
                /\ HasData(x)' /\ (Failed(x) => Failed(x)')
                /\ Failed(x)' => \/ Failed(x) \/ x \in BadConnect
                                 \/ \E t \in Anc[x] : Failed(t)

LEMMA LinkedAncestors ==
    ASSUME Inv, up = "up"
    PROVE  \A b \in linked : b \in Blocks /\ Anc[b] \subseteq linked
<1>1. \A b \in Blocks : b \in linked <=> \A x \in Anc[b] : HasData(x)
      BY DEF Inv, Rest, LinkedExact
<1>2. linked \subseteq Blocks BY DEF Inv, Typed, TypeOK
<1> QED BY <1>1, <1>2, AncSelf, AncTransitive

LEMMA CoverFramedKeeps == ASSUME Inv, Cover, CoverFramed PROVE Cover'
<1>1. ScriptsValid' BY DEF CoverFramed
<1>2. CandidatesGood' BY DEF Cover, CandidatesGood, CoverFramed, Worse
<1>3. SeqShape' BY DEF SeqShape, CoverFramed
<1>4. CandidateLeft'
  <2> SUFFICES ASSUME op'.kind # "invalidate" PROVE \E w \in candidates' : CoveredBy(w)'
      BY DEF CandidateLeft
  <2>1. up = "up" /\ op.kind # "invalidate" BY DEF CoverFramed
  <2>2. PICK w \in candidates : CoveredBy(w) BY <2>1 DEF Cover, CandidateLeft
  <2>3. w \in linked /\ Anc[w] \subseteq linked /\ w \in Anc[w]
        BY <2>1, LinkedAncestors, AncSelf DEF Inv, Rest, CandidatesLinked
  <2>4. ASSUME NEW x \in Anc[w] PROVE HasData(x)' /\ ~Failed(x)' /\ x \notin BadConnect
    <3>1. ~Failed(x) /\ x \notin BadConnect BY <2>2, <2>4 DEF CoveredBy, Sound
    <3>2. \A t \in Anc[x] : ~Failed(t)
          BY <2>1, <2>2, <2>3, <2>4, AncTransitive, LinkedAncestors DEF CoveredBy, Sound
    <3> QED BY <2>3, <2>4, <3>1, <3>2 DEF CoverFramed
  <2>5. w \in candidates' BY <2>3, <2>4 DEF CoverFramed
  <2>6. ASSUME NEW b \in linked' \ candidates', ~Failed(b)' PROVE Worse(b, w, seq)'
    <3>1. b \in linked /\ ~Failed(b) /\ b \notin candidates BY <2>6 DEF CoverFramed
    <3>2. Worse(b, w, seq) BY <2>2, <3>1 DEF CoveredBy
    <3> QED BY <3>2 DEF CoverFramed, Worse
  <2> QED BY <2>4, <2>5, <2>6 DEF CoveredBy, Sound
<1> QED BY <1>1, <1>2, <1>3, <1>4 DEF Cover

\* Which candidates FindMostWorkChain drops.
LEMMA RejectDrops ==
    ASSUME Inv, FindReject PROVE \A x \in candidates \ candidates' : Failed(x)'
<1>1. PICK b \in candidates : \E t \in Fork(b) :
          /\ Failed(t)
          /\ status' = [x \in Blocks |->
                IF x \in Anc[b] \ Anc[t] THEN status[x] \cup {"FAILED_CHILD"} ELSE status[x]]
          /\ candidates' = candidates \ ((Anc[b] \ Anc[t]) \cup {t})
      BY DEF FindReject
<1>2. PICK t \in Fork(b) :
          /\ Failed(t)
          /\ status' = [x \in Blocks |->
                IF x \in Anc[b] \ Anc[t] THEN status[x] \cup {"FAILED_CHILD"} ELSE status[x]]
          /\ candidates' = candidates \ ((Anc[b] \ Anc[t]) \cup {t})
      BY <1>1
<1>3. candidates \subseteq Blocks BY DEF Inv, Typed, TypeOK
<1>4. ASSUME NEW x \in Blocks, x \in Anc[b] \ Anc[t] \/ x = t PROVE Failed(x)'
      BY <1>2, <1>4 DEF Failed, FailedMask
<1> QED BY <1>2, <1>3, <1>4

CoverMoves ==
    \/ FindReject \/ FindNothing \/ FindChain
    \/ StepDisconnect \/ StepConnect \/ StepInvalid \/ StepEnd
    \/ InvalidateTip \/ ReprocessTip \/ ReprocessEnd
    \/ \E b \in Blocks : FlushIndexEntry(b)
    \/ FlushCoins

LEMMA FramedCover ==
    ASSUME NoLockConflicts, NothingReconsidered, Inv, NoneToReconsider, Cover,
           \/ CoverMoves
           \/ \E th \in Threads : ThreadStepFramed(th)
           \/ \E th \in Threads : AcceptBlock(th) /\ ~StoreBlock(th, blk[th])
           \/ \E b \in NonGenesis : BlockStepFramed(b)
    PROVE  CoverFramed
<1> USE DEF indexVars, linkVars, chainVars, diskVars, lockVars, threadVars, csVars, lifeVars
<1>0. Typed /\ Rest BY DEF Inv
<1>a. up = "up" => \A x \in linked : x \in Blocks /\ HasData(x)
      BY LinkedAncestors, AncSelf, <1>0 DEF Rest, LinkedExact
<1>1. ASSUME up = "up", up' = "up", UNCHANGED <<tip, seq, tieUp, linked, candidates, status, dStatus>>,
             op'.kind # "invalidate" => op.kind # "invalidate"
      PROVE  CoverFramed
      BY <1>a, <1>1 DEF CoverFramed, Cover, ScriptsValid, HasData, Failed
<1>2. ASSUME up = "up", up' = "up", UNCHANGED <<tip, seq, tieUp, linked, candidates, dStatus>>,
             op.kind # "invalidate",
             NEW b \in Blocks, b \notin linked, \A x \in Blocks \ {b} : status'[x] = status[x],
             "SCRIPTS" \in status'[b] => "SCRIPTS" \in status[b]
      PROVE  CoverFramed
  <2>1. \A x \in linked : status'[x] = status[x] BY <1>a, <1>2
  <2>2. ScriptsValid' BY <1>2, BadAssumption DEF Cover, ScriptsValid
  <2> QED BY <1>a, <1>2, <2>1, <2>2 DEF CoverFramed, HasData, Failed
<1>3. ASSUME NEW b \in NonGenesis, BlockStepFramed(b) PROVE CoverFramed
  <2>1. CASE AcceptBlockHeader(b)
    <3>1. /\ \A x \in Blocks \ {b} : status'[x] = status[x]
          /\ status[b] = {} /\ status'[b] = {"TREE"} /\ b \in Blocks
          BY <1>0, <2>1 DEF Typed, TypeOK, AcceptBlockHeader, WithHeader, Known, NonGenesis
    <3>2. /\ up = "up" /\ up' = "up" /\ op.kind # "invalidate"
          /\ UNCHANGED <<tip, seq, tieUp, linked, candidates, dStatus>>
          BY <2>1 DEF AcceptBlockHeader, Free
    <3>3. b \notin linked BY <1>a, <3>1, <3>2 DEF HasData
    <3> QED BY <1>2, <3>1, <3>2, <3>3
  <2>2. CASE LockAppears(b) \/ LockExpires(b) BY <1>1, <2>2 DEF LockAppears, LockExpires
  <2>3. ASSUME NEW th \in Threads, CheckNewBlock(th, b) PROVE CoverFramed
        BY <1>1, <2>3 DEF CheckNewBlock
  <2>4. ASSUME NEW th \in Threads, InvalidateBlock(th, b) PROVE CoverFramed
    <3>1. /\ status' = [status EXCEPT ![b] = @ \cup {"FAILED_VALID"}]
          /\ op' = Section(th, "invalidate", b, None, 0) /\ up = "up" /\ up' = up
          /\ candidates' \subseteq candidates /\ UNCHANGED <<tip, seq, tieUp, linked, dStatus>>
          BY <2>4 DEF InvalidateBlock, Free, CountOp
    <3>2. \A x \in Blocks : "SCRIPTS" \in status'[x] => "SCRIPTS" \in status[x]
          BY <1>0, <3>1 DEF Typed, TypeOK
    <3>3. ScriptsValid' BY <3>1, <3>2, BadAssumption DEF Cover, ScriptsValid
    <3> QED BY <3>1, <3>3, SectionKinds DEF CoverFramed
  <2> QED BY <1>3, <2>1, <2>2, <2>3, <2>4, ReconsiderNever DEF BlockStepFramed, NonGenesis
<1>4. ASSUME NEW th \in Threads, ThreadStepFramed(th) PROVE CoverFramed
  <2>1. CASE Enter(th) \/ StartFlush(th) \/ ReprocessLock(th)
    <3>1. /\ up = "up" /\ up' = up /\ op.kind # "invalidate"
          /\ UNCHANGED <<tip, seq, tieUp, linked, candidates, status, dStatus>>
          BY <2>1 DEF Enter, StartFlush, ReprocessLock, Free
    <3> QED BY <1>1, <3>1
  <2>2. CASE LoopCheck(th) \/ ReprocessBlocks(th)
        BY <1>1, <2>2 DEF LoopCheck, ReprocessBlocks, CountOp
  <2> QED BY <1>4, <2>1, <2>2 DEF ThreadStepFramed
<1>5. ASSUME NEW th \in Threads, AcceptBlock(th), ~StoreBlock(th, blk[th]) PROVE CoverFramed
  <2>1. /\ blk[th] \in Blocks /\ up = "up" /\ up' = up /\ op.kind # "invalidate" /\ op' = op
        /\ UNCHANGED <<tip, dStatus>>
        BY <1>0, <1>5 DEF AcceptBlock, Typed, CheckedHasBlock, NonGenesis, Free
  <2>2. CASE RefuseFailed(th, blk[th]) \/ AcceptDuplicate(th, blk[th])
    <3>1. UNCHANGED <<seq, tieUp, linked, candidates, status>>
          BY <2>2 DEF RefuseFailed, AcceptDuplicate
    <3> QED BY <1>1, <2>1, <3>1
  <2>3. CASE RefuseContext(th, blk[th]) \/ RefuseStake(th, blk[th])
    <3>1. /\ UNCHANGED <<seq, tieUp, linked, candidates>> /\ ~HasData(blk[th])
          BY <2>3 DEF RefuseContext, RefuseStake
    <3>2. /\ \A x \in Blocks \ {blk[th]} : status'[x] = status[x]
          /\ "SCRIPTS" \in status'[blk[th]] => "SCRIPTS" \in status[blk[th]]
      <4>1. CASE RefuseContext(th, blk[th])
            BY <1>0, <2>1, <4>1 DEF Typed, TypeOK, RefuseContext, WithHeader, Known
      <4>2. CASE RefuseStake(th, blk[th])
            BY <1>0, <2>1, <4>2 DEF Typed, TypeOK, RefuseStake, WithHeader, Known
      <4> QED BY <2>3, <4>1, <4>2
    <3>3. blk[th] \notin linked BY <1>a, <2>1, <3>1
    <3> QED BY <1>2, <2>1, <3>1, <3>2, <3>3
  <2> QED BY <1>5, <2>2, <2>3, ReconsiderNever DEF AcceptBlock
<1>6. CASE FindReject
  <2>1. /\ op' = op /\ up = "up" /\ up' = up /\ op.kind = "find"
        /\ UNCHANGED <<tip, seq, tieUp, linked, dStatus>> /\ candidates' \subseteq candidates
        BY <1>6 DEF FindReject, Running
  <2>2. PICK t \in Blocks : Failed(t) /\ \A x \in Blocks :
            \/ status'[x] = status[x]
            \/ status'[x] = status[x] \cup {"FAILED_CHILD"} /\ t \in Anc[x]
        BY <1>6, RejectMarks
  <2>3. ScriptsValid' BY <2>1, <2>2, BadAssumption DEF Cover, ScriptsValid
  <2>4. \A x \in linked : /\ HasData(x)' /\ (Failed(x) => Failed(x)')
                          /\ Failed(x)' => Failed(x) \/ \E y \in Anc[x] : Failed(y)
        BY <1>a, <2>1, <2>2 DEF HasData, Failed
  <2> QED BY <1>6, <2>1, <2>3, <2>4, RejectDrops DEF CoverFramed
<1>7. CASE FindNothing \/ FindChain \/ StepEnd \/ ReprocessEnd
      BY <1>1, <1>7 DEF FindNothing, FindChain, StepEnd, ReprocessEnd, Running, Release
<1>8. CASE StepDisconnect \/ ReprocessTip
      BY <1>1, <1>8 DEF StepDisconnect, ReprocessTip, Running
<1>9. CASE StepConnect
  <2> DEFINE b == NextToward(tip, op.target)
  <2>1. /\ Connecting /\ op.kind = "step" /\ b \notin BadConnect /\ up = "up" /\ up' = up
        /\ status' = [status EXCEPT ![b] = @ \cup {"UNDO", "SCRIPTS"}]
        /\ UNCHANGED <<tip, seq, tieUp, linked, candidates, dStatus>>
        BY <1>9 DEF StepConnect, Connecting, Running, ConnectFails
  <2> HIDE DEF b
  <2>2. \A x \in Blocks : /\ status'[x] \cap FailedMask = status[x] \cap FailedMask
                          /\ status[x] \subseteq status'[x]
                          /\ x # b => status'[x] = status[x]
        BY <1>0, <2>1 DEF Typed, TypeOK, FailedMask
  <2>3. ScriptsValid' BY <2>1, <2>2, BadAssumption DEF Cover, ScriptsValid
  <2> QED BY <1>a, <2>1, <2>2, <2>3 DEF CoverFramed, HasData, Failed
<1>10. CASE StepInvalid
  <2> DEFINE b == NextToward(tip, op.target)
  <2>1. /\ op.kind = "step" /\ ConnectFails(b) /\ up = "up" /\ up' = up
        /\ status' = [status EXCEPT ![b] = @ \cup {"FAILED_VALID"}]
        /\ candidates' = candidates \ {b}
        /\ UNCHANGED <<tip, seq, tieUp, linked, dStatus>>
        BY <1>10 DEF StepInvalid, Connecting, Running
  <2>2. b \in BadConnect
        BY <1>0, <2>1 DEF ConnectFails, NoLockConflicts, Typed, TypeOK
  <2> HIDE DEF b
  <2>3. /\ \A x \in Blocks : x # b => status'[x] = status[x]
        /\ status'[b] = status[b] \cup {"FAILED_VALID"}
        BY <1>0, <2>1, <2>2, BadAssumption DEF Typed, TypeOK
  <2>4. ScriptsValid' BY <2>1, <2>3, BadAssumption DEF Cover, ScriptsValid
  <2> QED BY <1>a, <2>1, <2>2, <2>3, <2>4 DEF CoverFramed, HasData, Failed, FailedMask
<1>11. CASE InvalidateTip
  <2>1. /\ op.kind = "invalidate" /\ up = "up" /\ up' = up
        /\ status' = [status EXCEPT ![tip] = @ \cup {"FAILED_CHILD"}]
        /\ op' = [op EXCEPT !.newTip = Parent[tip]]
        /\ candidates' = candidates \ {tip}
        /\ UNCHANGED <<tip, seq, tieUp, linked, dStatus>>
        BY <1>11 DEF InvalidateTip, DisconnectTip, Running
  <2>2. op'.kind = "invalidate" BY <1>0, <2>1 DEF Typed, TypeOK, Sections
  <2>3. \A x \in Blocks : "SCRIPTS" \in status'[x] => "SCRIPTS" \in status[x]
        BY <1>0, <2>1 DEF Typed, TypeOK
  <2>4. ScriptsValid' BY <2>1, <2>3, BadAssumption DEF Cover, ScriptsValid
  <2> QED BY <2>1, <2>2, <2>4 DEF CoverFramed
<1>12. ASSUME NEW b \in Blocks, FlushIndexEntry(b) PROVE CoverFramed
  <2>1. /\ up = "up" /\ up' = up /\ op' = op /\ dStatus' = [dStatus EXCEPT ![b] = status[b]]
        /\ UNCHANGED <<tip, seq, tieUp, linked, candidates, status>>
        BY <1>12 DEF FlushIndexEntry
  <2>2. ScriptsValid'
        BY <1>0, <2>1, BadAssumption DEF Cover, ScriptsValid, Typed, TypeOK
  <2> QED BY <1>a, <2>1, <2>2 DEF CoverFramed, HasData, Failed
<1>13. CASE FlushCoins
  <2>1. /\ up = "up" /\ up' = up /\ (op' = op \/ op.kind = "flush")
        /\ UNCHANGED <<tip, seq, tieUp, linked, candidates, status, dStatus>>
        BY <1>13 DEF FlushCoins
  <2> QED BY <1>1, <2>1
<1> QED BY <1>3, <1>4, <1>5, <1>6, <1>7, <1>8, <1>9, <1>10, <1>11, <1>12, <1>13 DEF CoverMoves

\* The blocks that a new block links were not linked and have no sequence id
\* that anything looked at.
LEMMA StoreCover ==
    ASSUME Inv, Typed', Coins, Cover, NEW th \in Threads, AcceptBlock(th), StoreBlock(th, blk[th])
    PROVE  Cover'
<1> DEFINE b == blk[th]
<1> USE DEF indexVars, linkVars, chainVars, diskVars, lockVars, threadVars, csVars, lifeVars
<1>0. Typed /\ Rest BY DEF Inv
<1>1. /\ b \in Blocks /\ up = "up" /\ up' = up /\ op.kind = "free" /\ op' = op
      /\ UNCHANGED <<tip, dStatus, tieUp>> /\ ~HasData(b) /\ ReceivedBlockTransactions(b)
      BY <1>0 DEF AcceptBlock, StoreBlock, Typed, CheckedHasBlock, NonGenesis, Free
<1> HIDE DEF b
<1>2. \A x \in linked : x \in Blocks /\ HasData(x) /\ x # b /\ Anc[x] \subseteq linked
      BY <1>0, <1>1, LinkedAncestors, AncSelf DEF Rest, LinkedExact
<1>3. /\ \A x \in Blocks \ {b} : status'[x] = status[x]
      /\ "SCRIPTS" \in status'[b] => "SCRIPTS" \in status[b]
      BY <1>0, <1>1 DEF Typed, TypeOK, ReceivedBlockTransactions, WithHeader, Known
<1>4. ScriptsValid' BY <1>1, <1>3, BadAssumption DEF Cover, ScriptsValid
<1>5. tip \in linked
  <2>1. \A x \in Anc[tip] : HasData(x) BY <1>1, TipHasData DEF Coins, SectionShape
  <2> QED BY <1>0, <1>1, <2>1 DEF Rest, LinkedExact, Typed, TypeOK
<1>6. PICK w \in candidates : CoveredBy(w) BY <1>1 DEF Cover, CandidateLeft
<1>7. candidates \subseteq linked /\ w \in linked
      BY <1>0, <1>1, <1>6 DEF Rest, CandidatesLinked
<1>8. Sound(w)' BY <1>2, <1>3, <1>6, <1>7 DEF CoveredBy, Sound, HasData, Failed
<1>9. \A c \in candidates : ~Worse(c, tip, seq) BY <1>1 DEF Cover, CandidatesGood
<1>10. CASE UNCHANGED <<linked, seq, candidates>>
  <2>1. CandidatesGood' BY <1>1, <1>9, <1>10 DEF CandidatesGood, Worse
  <2>2. CoveredBy(w)'
        BY <1>1, <1>2, <1>3, <1>6, <1>8, <1>10 DEF CoveredBy, Worse, Failed
  <2> QED BY <1>1, <1>4, <1>6, <1>10, <2>1, <2>2 DEF Cover, SeqShape, CandidateLeft
<1>11. ASSUME linked' = linked \cup NewlyLinked(b),
              candidates' = candidates \cup {x \in NewlyLinked(b) : ~Worse(x, tip, seq')},
              NEW up1 \in BOOLEAN, seq' = Sequenced(NewlyLinked(b), up1)
       PROVE  Cover'
  <2>1. NewlyLinked(b) \subseteq Blocks /\ \A x \in NewlyLinked(b) : x \notin linked
        BY <1>0, <1>1, <1>2 DEF NewlyLinked, Rest, LinkedExact, Typed, TypeOK
  <2>2. \A x \in linked : seq'[x] = seq[x]
        BY <1>2, <1>11, <2>1 DEF Sequenced
  <2>3. seq' \in [Blocks -> Nat] BY DEF Typed, TypeOK
  <2>4. \A x, y \in linked : Worse(x, y, seq') <=> Worse(x, y, seq)
        BY <2>2 DEF Worse
  <2>5. \A x, y \in Blocks : Worse(x, y, seq)' <=> Worse(x, y, seq')
        BY <1>1 DEF Worse
  <2>6. CandidatesGood'
    <3>1. \A c \in candidates' : c \in Blocks /\ ~Worse(c, tip, seq')
          BY <1>2, <1>5, <1>7, <1>9, <1>11, <2>1, <2>4
    <3> QED BY <1>1, <1>2, <1>5, <2>5, <3>1 DEF CandidatesGood
  <2>7. CoveredBy(w)'
    <3>1. ASSUME NEW x \in linked' \ candidates', ~Failed(x)' PROVE Worse(x, w, seq')
      <4>1. CASE x \in linked
        <5>1. x \notin candidates /\ ~Failed(x)
              BY <1>2, <1>3, <1>11, <3>1, <4>1 DEF Failed
        <5>2. Worse(x, w, seq) BY <1>6, <4>1, <5>1 DEF CoveredBy
        <5> QED BY <1>7, <2>4, <4>1, <5>2
      <4>2. CASE x \in NewlyLinked(b)
        <5>1. Worse(x, tip, seq') BY <1>11, <3>1, <4>2
        <5>2. ~Worse(w, tip, seq') BY <1>5, <1>6, <1>7, <1>9, <2>4
        <5>3. x \in Blocks /\ w \in Blocks /\ tip \in Blocks
              BY <1>2, <1>5, <1>7, <2>1, <4>2
        <5> QED BY <2>3, <5>1, <5>2, <5>3, WorseOrder
      <4> QED BY <1>11, <3>1, <4>1, <4>2
    <3>2. linked' \subseteq Blocks /\ w \in Blocks BY <1>2, <1>7, <1>11, <2>1
    <3> QED BY <1>8, <2>5, <3>1, <3>2 DEF CoveredBy
  <2> QED BY <1>1, <1>4, <1>6, <1>11, <2>6, <2>7 DEF Cover, SeqShape, CandidateLeft
<1> QED BY <1>1, <1>10, <1>11 DEF ReceivedBlockTransactions

\* A block that ConnectTip made the tip takes the place of the candidate that
\* it prunes; a block that DisconnectTip uncovers prunes none.
LEMMA UpdateTipCover ==
    ASSUME Inv, Typed', Coins, Marks, Cover, UpdateTip PROVE Cover'
<1> DEFINE n == op.newTip
<1> USE DEF indexVars, linkVars, chainVars, diskVars, lockVars, threadVars, csVars, lifeVars
<1>0. Typed /\ Rest BY DEF Inv
<1>1. /\ up = "up" /\ up' = up /\ n # None /\ tip' = n
      /\ op' = [op EXCEPT !.newTip = None]
      /\ candidates' = IF tip \in Anc[n] THEN Pruned(n, candidates) ELSE candidates
      /\ UNCHANGED <<status, dStatus, linked, seq, tieUp>>
      BY DEF UpdateTip
<1>2. op'.kind = op.kind BY <1>0, <1>1 DEF Typed, TypeOK, Sections
<1>3. n \in Blocks /\ tip \in Blocks /\ candidates \subseteq Blocks /\ seq \in [Blocks -> Nat]
      BY <1>0, <1>1 DEF Typed, TypeOK, Sections
<1>4. coinsTip = n BY <1>1 DEF Coins, CoinsFollow
<1>n. n \in Anc[tip] \/ tip \in Anc[n] BY <1>1 DEF Coins, NewTipNear
<1> HIDE DEF n
<1>5. ScriptsValid' BY <1>1 DEF Cover, ScriptsValid
<1>6. \A x, y : Worse(x, y, seq)' <=> Worse(x, y, seq) BY <1>1 DEF Worse
<1>7. \A c \in candidates : ~Worse(c, tip, seq) BY <1>1 DEF Cover, CandidatesGood
<1>8. CandidatesGood'
  <2>1. CASE tip \in Anc[n] BY <1>1, <1>6, <2>1 DEF CandidatesGood, Pruned
  <2>2. CASE tip \notin Anc[n]
    <3>1. n \in Anc[tip] /\ n # tip BY <1>3, <1>n, <2>2, AncSelf
    <3>2. Worse(n, tip, seq) BY <1>3, <3>1, AncestorWorse
    <3>3. \A c \in candidates : ~Worse(c, n, seq) BY <1>3, <1>7, <3>2, WorseOrder
    <3> QED BY <1>1, <1>6, <2>2, <3>3 DEF CandidatesGood
  <2> QED BY <2>1, <2>2
<1>9. CandidateLeft'
  <2> SUFFICES ASSUME op.kind # "invalidate" PROVE \E w \in candidates' : CoveredBy(w)'
      BY <1>2 DEF CandidateLeft
  <2>1. PICK w \in candidates : CoveredBy(w) BY <1>1 DEF Cover, CandidateLeft
  <2>2. Sound(w)' BY <1>1, <2>1 DEF CoveredBy, Sound, HasData, Failed
  <2>3. CASE tip \notin Anc[n]
        BY <1>1, <1>6, <2>1, <2>2, <2>3 DEF CoveredBy, Failed
  <2>4. CASE tip \in Anc[n]
    <3>1. \A c : c \in candidates' <=> c \in candidates /\ ~Worse(c, n, seq)
          BY <1>1, <2>4 DEF Pruned
    <3>2. linked \subseteq Blocks BY <1>0 DEF Typed, TypeOK
    <3>3. ASSUME NEW v \in Blocks, v = n \/ Worse(n, v, seq), v = w \/ Worse(w, v, seq),
                 NEW x \in linked \ candidates', ~Failed(x)
          PROVE  Worse(x, v, seq)
          BY <1>3, <2>1, <3>1, <3>2, <3>3, WorseOrder DEF CoveredBy
    <3>4. CASE ~Worse(w, n, seq)
      <4>1. w \in candidates' /\ (w = n \/ Worse(n, w, seq)) /\ w \in Blocks
            BY <1>3, <2>1, <3>1, <3>4, WorseOrder
      <4>2. \A x \in linked' \ candidates' : ~Failed(x)' => Worse(x, w, seq)'
            BY <1>1, <1>6, <3>3, <4>1 DEF Failed
      <4> QED BY <2>2, <4>1, <4>2 DEF CoveredBy
    <3>5. CASE Worse(w, n, seq)
      <4>1. /\ \A x \in Anc[n] : x \in Blocks /\ ~Failed(x)
            /\ Genesis \in Blocks /\ HasData(Genesis)
            BY <1>1, <1>3, AncSelf, NewTipClean, TreeAssumption
            DEF n, Inv, Rest, GenesisKept, DiskBehind, HasData, Held
      <4>2. \A x \in Anc[n] \ {Genesis} : HasData(x) /\ "SCRIPTS" \in status[x]
            BY <1>0, <1>1, <1>4 DEF Rest, CoinsBacked, HasData, Held
      <4>3. Sound(n) BY <4>1, <4>2, BadAssumption DEF Sound, Cover, ScriptsValid
      <4>4. n \in linked BY <1>0, <1>1, <1>3, <4>3 DEF Sound, Rest, LinkedExact
      <4>5. n \in candidates
        <5>1. SUFFICES ASSUME n \notin candidates PROVE FALSE OBVIOUS
        <5>2. ~Failed(n) BY <1>3, <4>1, AncSelf
        <5>3. Worse(n, w, seq) BY <2>1, <4>4, <5>1, <5>2 DEF CoveredBy
        <5> QED BY <1>3, <2>1, <3>5, <5>3, WorseOrder
      <4>6. n \in candidates' BY <1>3, <3>1, <4>5, WorseOrder
      <4>7. PICK v \in candidates' : v = n BY <4>6
      <4>8. CoveredBy(v)'
        <5>1. Sound(v)' BY <1>1, <4>3, <4>7 DEF Sound, HasData, Failed
        <5>2. \A x \in linked' \ candidates' : ~Failed(x)' => Worse(x, v, seq)'
              BY <1>1, <1>3, <1>6, <3>3, <3>5, <4>7 DEF Failed
        <5> QED BY <5>1, <5>2 DEF CoveredBy
      <4> QED BY <4>8
    <3> QED BY <3>4, <3>5
  <2> QED BY <2>3, <2>4
<1>10. SeqShape' BY <1>1 DEF SeqShape
<1> QED BY <1>5, <1>8, <1>9, <1>10 DEF Cover

\* InvalidateBlock puts back what was pruned under its old tip.
LEMMA InvalidateEndCover ==
    ASSUME Inv, Coins, Marks, Cover, InvalidateEnd PROVE Cover'
<1> USE DEF indexVars, linkVars, chainVars, diskVars, lockVars, threadVars, csVars, lifeVars
<1>0. Typed /\ Rest BY DEF Inv
<1>1. /\ up = "up" /\ up' = up /\ op.kind = "invalidate" /\ op.newTip = None
      /\ op.target \notin Anc[tip]
      /\ candidates' = candidates \cup
            {x \in linked : ~Failed(x) /\ HasData(x) /\ ~Worse(x, tip, seq)}
      /\ UNCHANGED <<status, dStatus, tip, linked, seq, tieUp>>
      BY DEF InvalidateEnd, Running
<1>2. tip \in Blocks /\ seq \in [Blocks -> Nat] /\ linked \subseteq Blocks
      BY <1>0 DEF Typed, TypeOK
<1>3. \A x \in Anc[tip] : ~Failed(x) /\ HasData(x) /\ x \in Blocks
      BY <1>1, <1>2, TipHasData, AncTransitive DEF Marks, TipClean
<1>4. \A x \in Anc[tip] \ {Genesis} : "SCRIPTS" \in status[x]
      BY <1>0, <1>1 DEF Rest, CoinsBacked, Held, Coins, CoinsFollow
<1>5. Sound(tip) BY <1>3, <1>4, BadAssumption DEF Sound, Cover, ScriptsValid
<1>6. tip \in candidates'
  <2>1. tip \in linked BY <1>0, <1>1, <1>2, <1>3 DEF Rest, LinkedExact
  <2>2. tip \in Anc[tip] BY <1>2, AncSelf
  <2> QED BY <1>1, <1>2, <1>3, <2>1, <2>2, WorseOrder
<1>7. \A x, y : Worse(x, y, seq)' <=> Worse(x, y, seq) BY <1>1 DEF Worse
<1>8. \A x \in linked : x \notin candidates' /\ ~Failed(x) => Worse(x, tip, seq)
  <2>1. \A x \in linked : HasData(x) BY <1>0, <1>1, <1>2, AncSelf DEF Rest, LinkedExact
  <2> QED BY <1>1, <2>1
<1>9. PICK v \in candidates' : v = tip BY <1>6
<1>10. CoveredBy(v)'
  <2>1. Sound(v)' BY <1>1, <1>5, <1>9 DEF Sound, HasData, Failed
  <2>2. \A x \in linked' \ candidates' : ~Failed(x)' => Worse(x, v, seq)'
        BY <1>1, <1>7, <1>8, <1>9 DEF Failed
  <2> QED BY <2>1, <2>2 DEF CoveredBy
<1>11. CandidateLeft' BY <1>9, <1>10 DEF CandidateLeft
<1>12. CandidatesGood'
       BY <1>1, <1>7 DEF Cover, CandidatesGood
<1> QED BY <1>1, <1>11, <1>12 DEF Cover, ScriptsValid, SeqShape

\* LoadBlockIndexDB: the best block of the coin database is a candidate.
LEMMA RestartCover ==
    ASSUME NoCrashAfterInvalidate, Inv, Typed', Coins, Marks, Cover, NEW th \in Threads, Restart(th)
    PROVE  Cover'
<1> USE DEF indexVars, linkVars, chainVars, diskVars, lockVars, threadVars, csVars, lifeVars
<1>0. Typed /\ Rest BY DEF Inv
<1>1. /\ up = "down" /\ status' = dStatus /\ linked' = LoadedLinked /\ tip' = dCoins
      /\ candidates' = LoadedCandidates(tieUp') /\ up' \in {"up", "no candidate"}
      /\ UNCHANGED <<dStatus, dCoins, seq, op>>
      BY DEF Restart
<1>2. dCoins \in Blocks /\ seq \in [Blocks -> Nat] /\ \A x \in Blocks : seq[x] = 0
      BY <1>0, <1>1 DEF Typed, TypeOK, Cover, SeqShape
<1>3. ScriptsValid' BY <1>1 DEF Cover, ScriptsValid
<1>4. \A x \in Blocks : Work[x] \in Nat /\ Rank[x] \in Int BY WorkAssumption, RankAssumption
<1>5. \A c \in Blocks : Worse(c, tip, seq)' <=>
            \/ Work[c] < Work[dCoins]
            \/ /\ Work[c] = Work[dCoins]
               /\ IF tieUp' THEN Rank[c] < Rank[dCoins] ELSE Rank[dCoins] < Rank[c]
  <2> SUFFICES ASSUME NEW c \in Blocks
               PROVE  Worse(c, tip, seq)' <=>
                         \/ Work[c] < Work[dCoins]
                         \/ /\ Work[c] = Work[dCoins]
                            /\ IF tieUp' THEN Rank[c] < Rank[dCoins] ELSE Rank[dCoins] < Rank[c]
      OBVIOUS
  <2>1. tip' = dCoins /\ seq'[c] = 0 /\ seq'[dCoins] = 0 BY <1>1, <1>2
  <2>2. ~(seq'[c] > seq'[dCoins]) /\ seq'[c] = seq'[dCoins] BY <2>1
  <2> QED BY <2>1, <2>2 DEF Worse
<1>6. \A c \in Blocks :
          c \in candidates' <=> c \in LoadedLinked /\ ~Failed(c)' /\ ~Worse(c, tip, seq)'
  <2>1. \A c \in Blocks : Failed(c)' <=> dStatus[c] \cap FailedMask # {} BY <1>1 DEF Failed
  <2>2. \A c \in Blocks : ~Worse(c, tip, seq)' <=>
            \/ Work[c] > Work[dCoins]
            \/ /\ Work[c] = Work[dCoins]
               /\ IF tieUp' THEN Rank[c] >= Rank[dCoins] ELSE Rank[c] <= Rank[dCoins]
        BY <1>2, <1>4, <1>5
  <2>3. LoadedLinked \subseteq Blocks BY DEF LoadedLinked, OnDisk
  <2> QED BY <1>1, <2>1, <2>2, <2>3 DEF LoadedCandidates
<1>7. candidates' \subseteq Blocks /\ LoadedLinked \subseteq Blocks
      BY DEF Typed, TypeOK, LoadedLinked, OnDisk
<1>8. CandidatesGood' BY <1>6, <1>7 DEF CandidatesGood
<1>9. "invalidate" \notin Ops
      BY <1>1 DEF NoCrashAfterInvalidate, Coins, StaysUp, NoCrashes
<1>10. \A x \in Anc[dCoins] : /\ x \in Blocks /\ "DATA" \in dStatus[x]
                              /\ dStatus[x] \cap FailedMask = {}
                              /\ x \notin BadConnect
  <2>1. \A x \in Anc[dCoins] : x \in Blocks /\ dStatus[x] \cap FailedMask = {}
        BY <1>2, <1>9, AncSelf DEF Marks, DiskClean
  <2>2. \A x \in Anc[dCoins] \ {Genesis} : "DATA" \in dStatus[x] /\ "SCRIPTS" \in dStatus[x]
        BY <1>0 DEF Rest, DiskBacked, Held
  <2>3. "DATA" \in dStatus[Genesis] BY <1>0 DEF Rest, GenesisKept
  <2> QED BY <2>1, <2>2, <2>3, BadAssumption DEF Cover, ScriptsValid
<1>11. PICK v \in Blocks : v = dCoins BY <1>2
<1>12. Sound(v)' BY <1>1, <1>10, <1>11 DEF Sound, HasData, Failed
<1>13. v \in candidates'
  <2>1. v \in LoadedLinked BY <1>10, <1>11, AncSelf DEF LoadedLinked, OnDisk
  <2>2. ~Failed(v)' BY <1>12, <1>11, AncSelf DEF Sound
  <2>3. ~Worse(v, tip, seq)' BY <1>4, <1>5, <1>11
  <2> QED BY <1>6, <2>1, <2>2, <2>3
<1>14. CoveredBy(v)'
  <2>1. \A x \in linked' \ candidates' : ~Failed(x)' => Worse(x, v, seq)'
    <3>1. \A x \in Blocks : Worse(x, v, seq)' <=> Worse(x, tip, seq)'
          BY <1>1, <1>11 DEF Worse
    <3> QED BY <1>1, <1>6, <1>7, <3>1
  <2> QED BY <1>12, <2>1 DEF CoveredBy
<1>15. CandidateLeft' BY <1>13, <1>14 DEF CandidateLeft
<1>16. SeqShape' BY <1>1 DEF SeqShape
<1> QED BY <1>3, <1>8, <1>15, <1>16 DEF Cover

LEMMA ReindexCover == ASSUME Inv, Cover, Reindex PROVE Cover'
<1>1. /\ candidates' = {Genesis} /\ linked' = {Genesis} /\ tip' = Genesis /\ up' = "up"
      /\ status' = [b \in Blocks |-> IF b = Genesis THEN {"TREE", "DATA"} ELSE {}]
      /\ dStatus' = status' /\ seq' = [b \in Blocks |-> IF b = Genesis THEN 1 ELSE 0]
      BY DEF Reindex
<1>2. ScriptsValid' BY <1>1, BadAssumption DEF ScriptsValid
<1>3. CandidatesGood'
  <2>1. Work[Genesis] \in Nat /\ Rank[Genesis] \in Int /\ seq'[Genesis] = 1
        BY <1>1, TreeAssumption, WorkAssumption, RankAssumption
  <2> QED BY <1>1, <2>1 DEF CandidatesGood, Worse
<1>4. Sound(Genesis)'
      BY <1>1, TreeAssumption, BadAssumption DEF Sound, HasData, Failed, FailedMask
<1>5. CoveredBy(Genesis)' BY <1>1, <1>4 DEF CoveredBy
<1> QED BY <1>1, <1>2, <1>3, <1>5 DEF Cover, SeqShape, CandidateLeft

LEMMA CoverPreserved ==
    ASSUME WritesSucceed, NoCrashAfterInvalidate, NothingReconsidered, NoLockConflicts,
           Inv, Typed', Coins, Marks, NoneToReconsider, Cover, [Next]_vars
    PROVE  Cover'
<1> USE DEF indexVars, linkVars, chainVars, diskVars, lockVars, threadVars, csVars, lifeVars
<1>1. CASE UNCHANGED vars
      BY <1>1 DEF vars, Cover, ScriptsValid, CandidatesGood, SeqShape, CandidateLeft, CoveredBy,
         Sound, HasData, Failed, Worse
<1>2. ASSUME \/ CoverMoves
             \/ \E th \in Threads : ThreadStepFramed(th)
             \/ \E th \in Threads : AcceptBlock(th) /\ ~StoreBlock(th, blk[th])
             \/ \E b \in NonGenesis : BlockStepFramed(b)
      PROVE  Cover'
      BY <1>2, FramedCover, CoverFramedKeeps
<1>3. ASSUME NEW th \in Threads, AcceptBlock(th), StoreBlock(th, blk[th]) PROVE Cover'
      BY <1>3, StoreCover
<1>4. CASE UpdateTip BY <1>4, UpdateTipCover
<1>5. CASE InvalidateEnd BY <1>5, InvalidateEndCover
<1>6. ASSUME NEW th \in Threads, Restart(th) PROVE Cover' BY <1>6, RestartCover
<1>7. CASE Reindex BY <1>7, ReindexCover
<1>8. ASSUME Die PROVE Cover'
  <2>1. /\ up' = "down" /\ status' = [b \in Blocks |-> {}] /\ dStatus' = dStatus
        /\ seq' = [b \in Blocks |-> 0]
        BY <1>8 DEF Die
  <2>2. ScriptsValid' BY <2>1, BadAssumption DEF Cover, ScriptsValid
  <2> QED BY <2>1, <2>2 DEF Cover, CandidatesGood, SeqShape, CandidateLeft
<1>9. CASE RestartDangling
      BY <1>9 DEF RestartDangling, Cover, ScriptsValid, CandidatesGood, SeqShape, CandidateLeft
<1>10. ~FlushFails BY DEF FlushFails, CountOp, WritesSucceed
<1> QED BY <1>1, <1>2, <1>3, <1>4, <1>5, <1>6, <1>7, <1>8, <1>9, <1>10
    DEF Next, ThreadStep, SectionStep, ThreadStepFramed, BlockStepFramed, CoverMoves,
        Crash, AssertionDies

-----------------------------------------------------------------------------
(* Somebody looks for the best chain, or the tip is its end                *)

Holder ==
    /\ op.kind # "free" => op.th \in Threads
    /\ op.kind = "flush" => pc[op.th] = "flush"
TargetBest == op.kind = "step" => IsBest(op.target) /\ most[op.th] = op.target
Busy ==
    \/ op.kind \in {"find", "step", "invalidate", "reprocess"}
    \/ \E th \in Threads :
          \/ pc[th] \in {"activate", "reprocess"}
          \/ pc[th] = "check" /\ most[th] # tip
TipBest == up = "up" => Busy \/ IsBest(tip)
Activity == Holder /\ TargetBest /\ TipBest

LEMMA InitActivity == Init => Activity
<1> SUFFICES ASSUME Init PROVE Activity OBVIOUS
<1>1. op.kind = "free" /\ candidates = {Genesis} /\ tip = Genesis BY SectionKinds DEF Init
<1> QED BY <1>1 DEF Activity, Holder, TargetBest, TipBest, IsBest

\* The chain and its candidates stay; who was looking is still looking.
ActivityFramed ==
    /\ up = "up" /\ up' = "up"
    /\ UNCHANGED <<tip, seq, tieUp, candidates, most>>
    /\ op'.kind = op.kind /\ op'.th = op.th /\ op'.target = op.target
    /\ \A th \in Threads :
          /\ pc[th] \in {"activate", "reprocess", "flush"} => pc'[th] = pc[th]
          /\ pc[th] = "check" /\ most[th] # tip => pc'[th] \in {"check", "activate"}

LEMMA ActivityFramedKeeps == ASSUME Activity, ActivityFramed PROVE Activity'
<1>1. Holder' BY DEF Activity, Holder, ActivityFramed
<1>2. IsBest(tip)' <=> IsBest(tip) BY DEF ActivityFramed, IsBest, Worse
<1>3. TargetBest' BY DEF Activity, TargetBest, ActivityFramed, IsBest, Worse
<1>4. Busy => Busy'
  <2>1. CASE op.kind \in {"find", "step", "invalidate", "reprocess"}
        BY <2>1 DEF Busy, ActivityFramed
  <2>2. ASSUME NEW th \in Threads, pc[th] \in {"activate", "reprocess"} PROVE Busy'
    <3>1. pc'[th] \in {"activate", "reprocess"} BY <2>2 DEF ActivityFramed
    <3> QED BY <3>1 DEF Busy
  <2>3. ASSUME NEW th \in Threads, pc[th] = "check", most[th] # tip PROVE Busy'
    <3>1. pc'[th] \in {"check", "activate"} /\ most'[th] # tip' BY <2>3 DEF ActivityFramed
    <3> QED BY <3>1 DEF Busy
  <2> QED BY <2>1, <2>2, <2>3 DEF Busy
<1>5. TipBest' BY <1>2, <1>4 DEF Activity, TipBest, ActivityFramed
<1> QED BY <1>1, <1>3, <1>5 DEF Activity

\* Afterwards somebody is looking.
LEMMA LookingIsEnough ==
    ASSUME Holder', Busy', op'.kind # "step" PROVE Activity'
BY DEF Activity, TargetBest, TipBest

\* The chain and its candidates stay, and the section that ends did not look.
LEMMA ThreadsLook ==
    ASSUME up = "up", Activity, UNCHANGED <<tip, seq, tieUp, candidates, most>>, Holder',
           op.kind \notin {"find", "step", "invalidate", "reprocess"}, op'.kind # "step",
           \A th \in Threads : pc[th] # "flush" => pc'[th] = pc[th]
    PROVE  Activity'
<1>1. CASE IsBest(tip)
  <2>1. IsBest(tip)' BY <1>1 DEF IsBest, Worse
  <2> QED BY <2>1 DEF Activity, TargetBest, TipBest
<1>2. ASSUME NEW th \in Threads, \/ pc[th] \in {"activate", "reprocess"}
                                 \/ pc[th] = "check" /\ most[th] # tip
      PROVE  Activity'
  <2>1. pc'[th] = pc[th] BY <1>2
  <2>2. Busy' BY <1>2, <2>1 DEF Busy
  <2> QED BY <2>2, LookingIsEnough
<1> QED BY <1>1, <1>2 DEF Activity, TipBest, Busy

LEMMA BlockStepActivity ==
    ASSUME NothingReconsidered, NoneToReconsider, Typed, Activity,
           NEW b \in NonGenesis, BlockStepFramed(b)
    PROVE  Activity'
<1> USE DEF indexVars, linkVars, chainVars, diskVars, lockVars, threadVars, csVars, lifeVars
<1>1. CASE AcceptBlockHeader(b) \/ LockAppears(b) \/ LockExpires(b)
  <2>1. ActivityFramed
        BY <1>1 DEF AcceptBlockHeader, LockAppears, LockExpires, ActivityFramed, Free
  <2> QED BY <2>1, ActivityFramedKeeps
<1>2. ASSUME NEW th \in Threads, CheckNewBlock(th, b) PROVE Activity'
  <2>1. /\ up = "up" /\ up' = up /\ op' = op /\ pc[th] = "idle"
        /\ UNCHANGED <<tip, seq, tieUp, candidates, most>>
        /\ pc' = pc \/ pc' = [pc EXCEPT ![th] = "checked"]
        BY <1>2 DEF CheckNewBlock
  <2>2. \A t \in Threads : pc[t] # "idle" => pc'[t] = pc[t] BY <2>1 DEF Typed, TypeOK
  <2>3. ActivityFramed BY <2>1, <2>2 DEF ActivityFramed
  <2> QED BY <2>3, ActivityFramedKeeps
<1>3. ASSUME NEW th \in Threads, InvalidateBlock(th, b) PROVE Activity'
  <2>1. op' = Section(th, "invalidate", b, None, 0) BY <1>3 DEF InvalidateBlock
  <2>2. op'.kind = "invalidate" /\ op'.th = th BY <2>1, SectionKinds
  <2> QED BY <2>2, LookingIsEnough DEF Holder, Busy
<1> QED BY <1>1, <1>2, <1>3, ReconsiderNever DEF BlockStepFramed, NonGenesis

LEMMA ThreadStepActivity ==
    ASSUME NothingReconsidered, NoneToReconsider, Typed, Activity, NEW th \in Threads,
           ThreadStepFramed(th) \/ AcceptBlock(th)
    PROVE  Activity'
<1> USE DEF indexVars, linkVars, chainVars, diskVars, lockVars, threadVars, csVars, lifeVars
<1>1. CASE AcceptBlock(th)
  <2>1. /\ up = "up" /\ up' = up /\ op.kind = "free" /\ op' = op /\ pc[th] = "checked"
        /\ UNCHANGED tip
        BY <1>1 DEF AcceptBlock, Free
  <2>2. CASE \/ RefuseFailed(th, blk[th]) \/ RefuseContext(th, blk[th])
             \/ RefuseStake(th, blk[th])
    <3>1. pc' = [pc EXCEPT ![th] = "idle"] /\ UNCHANGED <<seq, tieUp, candidates, most>>
          BY <2>2 DEF RefuseFailed, RefuseContext, RefuseStake, Drop
    <3>2. \A t \in Threads : pc[t] # "checked" => pc'[t] = pc[t]
          BY <2>1, <3>1 DEF Typed, TypeOK
    <3>3. ActivityFramed BY <2>1, <3>1, <3>2 DEF ActivityFramed
    <3> QED BY <3>3, ActivityFramedKeeps
  <2>3. CASE AcceptDuplicate(th, blk[th]) \/ StoreBlock(th, blk[th])
    <3>1. pc' = [pc EXCEPT ![th] = "activate"]
          BY <2>3 DEF AcceptDuplicate, StoreBlock, Proceed
    <3>2. pc'[th] = "activate" BY <3>1 DEF Typed, TypeOK
    <3>3. Busy' BY <3>2 DEF Busy
    <3> QED BY <2>1, <3>3, LookingIsEnough DEF Holder
  <2> QED BY <1>1, <2>2, <2>3, ReconsiderNever DEF AcceptBlock
<1>2. CASE Enter(th)
  <2>1. op' = Section(th, "find", None, None, 0) BY <1>2 DEF Enter
  <2>2. op'.kind = "find" /\ op'.th = th BY <2>1, SectionKinds
  <2> QED BY <2>2, LookingIsEnough DEF Holder, Busy
<1>3. CASE LoopCheck(th)
  <2>1. /\ up = "up" /\ up' = up /\ op' = op /\ pc[th] = "check"
        /\ UNCHANGED <<tip, seq, tieUp, candidates, most>>
        /\ \/ most[th] # tip /\ pc' = [pc EXCEPT ![th] = "activate"]
           \/ most[th] = tip /\ pc' = [pc EXCEPT ![th] = "idle"]
           \/ most[th] = tip /\ pc' = [pc EXCEPT ![th] = "flush"]
        BY <1>3 DEF LoopCheck, Proceed, Drop
  <2>2. /\ \A t \in Threads : pc[t] # "check" => pc'[t] = pc[t]
        /\ \A t \in Threads : pc[t] = "check" /\ most[t] # tip => pc'[t] \in {"check", "activate"}
        BY <2>1 DEF Typed, TypeOK
  <2>3. ActivityFramed BY <2>1, <2>2 DEF ActivityFramed
  <2> QED BY <2>3, ActivityFramedKeeps
<1>4. CASE StartFlush(th)
  <2>1. /\ up = "up" /\ op.kind = "free" /\ op' = Section(th, "flush", None, None, 0)
        /\ pc[th] = "flush" /\ UNCHANGED <<tip, seq, tieUp, candidates, most, pc>>
        BY <1>4 DEF StartFlush, Free
  <2>2. op'.kind = "flush" /\ op'.th = th BY <2>1, SectionKinds
  <2>3. Holder' BY <2>1, <2>2 DEF Holder
  <2> QED BY <2>1, <2>2, <2>3, ThreadsLook
<1>5. CASE ReprocessLock(th)
  <2>1. op' = Section(th, "reprocess", None, None, ReprocessDepth + 1) BY <1>5 DEF ReprocessLock
  <2>2. op'.kind = "reprocess" /\ op'.th = th BY <2>1, SectionKinds
  <2> QED BY <2>2, LookingIsEnough DEF Holder, Busy
<1>6. CASE ReprocessBlocks(th)
  <2>1. /\ up = "up" /\ up' = up /\ op' = op /\ pc[th] = "idle"
        /\ UNCHANGED <<tip, seq, tieUp, candidates, most>>
        /\ pc' = [pc EXCEPT ![th] = "reprocess"]
        BY <1>6 DEF ReprocessBlocks, CountOp
  <2>2. \A t \in Threads : pc[t] # "idle" => pc'[t] = pc[t] BY <2>1 DEF Typed, TypeOK
  <2>3. ActivityFramed BY <2>1, <2>2 DEF ActivityFramed
  <2> QED BY <2>3, ActivityFramedKeeps
<1> QED BY <1>1, <1>2, <1>3, <1>4, <1>5, <1>6 DEF ThreadStepFramed

\* UpdateTip on the way to the target leaves it the best candidate.
LEMMA UpdateTipActivity ==
    ASSUME Inv, Coins, Cover, Activity, UpdateTip PROVE Activity'
<1> DEFINE n == op.newTip
<1> USE DEF indexVars, linkVars, chainVars, diskVars, lockVars, threadVars, csVars, lifeVars
<1>0. Typed BY DEF Inv
<1>1. /\ up = "up" /\ up' = up /\ n # None /\ tip' = n
      /\ op' = [op EXCEPT !.newTip = None]
      /\ candidates' = IF tip \in Anc[n] THEN Pruned(n, candidates) ELSE candidates
      /\ UNCHANGED <<seq, tieUp, pc, most>>
      BY DEF UpdateTip
<1>2. op'.kind = op.kind /\ op'.th = op.th /\ op'.target = op.target
      BY <1>0, <1>1 DEF Typed, TypeOK, Sections
<1>3. op.kind \in {"step", "invalidate", "reprocess"}
  <2>1. op.kind \in Kinds BY <1>0 DEF Typed, TypeOK, Sections
  <2> QED BY <1>1, <2>1 DEF Coins, SectionShape, Kinds
<1>4. Holder' BY <1>1, <1>2, <1>3 DEF Activity, Holder
<1>5. Busy' BY <1>2, <1>3 DEF Busy
<1>6. CASE op.kind # "step" BY <1>2, <1>4, <1>5, <1>6, LookingIsEnough
<1>7. CASE op.kind = "step"
  <2> DEFINE g == op.target
  <2>1. n \in Blocks /\ tip \in Blocks /\ candidates \subseteq Blocks /\ seq \in [Blocks -> Nat]
        BY <1>0, <1>1 DEF Typed, TypeOK, Sections
  <2>2. IsBest(g) /\ most[op.th] = g BY <1>7 DEF Activity, TargetBest
  <2>3. g \in candidates /\ g \in Blocks /\ ~Worse(g, tip, seq)
        BY <1>1, <2>1, <2>2 DEF IsBest, Cover, CandidatesGood
  <2>4. n \in Anc[tip] \/ n \in Anc[g] BY <1>1, <1>7 DEF Coins, NewTipNear
  <2> HIDE DEF n, g
  <2>5. g \in candidates'
    <3>1. SUFFICES ASSUME tip \in Anc[n] PROVE ~Worse(g, n, seq)
          BY <1>1, <2>3 DEF Pruned
    <3>2. CASE n = tip BY <2>3, <3>2
    <3>3. CASE n # tip /\ n \in Anc[tip]
          BY <2>1, <3>1, <3>3, AncestorWorse, WorseOrder
    <3>4. CASE n \in Anc[g]
          BY <2>1, <2>3, <3>4, AncestorWorse, WorseOrder
    <3> QED BY <2>4, <3>2, <3>3, <3>4
  <2>6. candidates' \subseteq candidates BY <1>1 DEF Pruned
  <2>7. \A c : Worse(c, g, seq)' <=> Worse(c, g, seq) BY <1>1, <1>2 DEF Worse, g
  <2>8. IsBest(op.target)' BY <1>2, <2>2, <2>5, <2>6, <2>7 DEF IsBest, g
  <2>9. TargetBest' BY <1>1, <1>2, <2>2, <2>8 DEF TargetBest, g
  <2> QED BY <1>4, <1>5, <2>9 DEF Activity, TipBest
<1> QED BY <1>6, <1>7

LEMMA SectionActivity ==
    ASSUME Inv, Coins, Cover, Activity, SectionStep
    PROVE  Activity'
<1> USE DEF indexVars, linkVars, chainVars, diskVars, lockVars, threadVars, csVars, lifeVars
<1>0. Typed BY DEF Inv
<1>t. op.kind # "free" => op.th \in Threads /\ op.th \in DOMAIN pc
      BY <1>0 DEF Activity, Holder, Typed, TypeOK
<1>1. CASE FindReject
  <2>1. op' = op /\ op.kind = "find" BY <1>1 DEF FindReject, Running
  <2> QED BY <2>1, LookingIsEnough DEF Activity, Holder, Busy
<1>2. CASE FindNothing
  <2>1. /\ up = "up" /\ op.kind = "find" /\ (candidates = {} \/ IsBest(tip)) /\ op' = FreeOp
        /\ UNCHANGED <<tip, seq, tieUp, candidates>>
        BY <1>2 DEF FindNothing, Running
  <2>2. candidates # {} BY <2>1 DEF Cover, CandidateLeft
  <2>3. IsBest(tip)' BY <2>1, <2>2 DEF IsBest, Worse
  <2>4. op'.kind = "free" BY <2>1, SectionKinds
  <2> QED BY <2>3, <2>4 DEF Activity, Holder, TargetBest, TipBest
<1>3. CASE FindChain
  <2>1. PICK b \in candidates : /\ IsBest(b) /\ op' = Section(op.th, "step", b, tip, 0)
                                /\ most' = [most EXCEPT ![op.th] = b]
        BY <1>3 DEF FindChain
  <2>2. op.th \in Threads /\ UNCHANGED <<tip, seq, tieUp, candidates>>
        BY <1>3, <1>t DEF FindChain, Running
  <2>3. op'.kind = "step" /\ op'.th = op.th /\ op'.target = b BY <2>1, SectionKinds
  <2>4. most'[op.th] = b BY <1>0, <2>1, <2>2 DEF Typed, TypeOK
  <2>5. IsBest(op.target)' BY <2>1, <2>2, <2>3 DEF IsBest, Worse
  <2> QED BY <2>2, <2>3, <2>4, <2>5 DEF Activity, Holder, TargetBest, TipBest, Busy
<1>4. CASE StepDisconnect \/ StepConnect
  <2>1. /\ up = "up" /\ up' = up /\ (\E n : op' = [op EXCEPT !.newTip = n])
        /\ UNCHANGED <<tip, seq, tieUp, candidates, most, pc>>
        BY <1>4 DEF StepDisconnect, DisconnectTip, StepConnect, Connecting, Running
  <2>2. op'.kind = op.kind /\ op'.th = op.th /\ op'.target = op.target
        BY <1>0, <2>1 DEF Typed, TypeOK, Sections
  <2>3. ActivityFramed BY <2>1, <2>2 DEF ActivityFramed
  <2> QED BY <2>3, ActivityFramedKeeps
<1>5. CASE StepInvalid
  <2>1. /\ op.kind = "step" /\ tip # op.target /\ op' = FreeOp
        /\ pc' = [pc EXCEPT ![op.th] = "check"] /\ UNCHANGED <<tip, most>>
        BY <1>5 DEF StepInvalid, Connecting, Running, Release
  <2>2. op.th \in Threads /\ pc'[op.th] = "check" /\ most'[op.th] # tip'
        BY <1>t, <2>1 DEF Activity, TargetBest
  <2>3. op'.kind = "free" BY <2>1, SectionKinds
  <2> QED BY <2>2, <2>3, LookingIsEnough DEF Holder, Busy
<1>6. CASE StepEnd
  <2>1. /\ op.kind = "step" /\ op' = FreeOp
        /\ pc' = [pc EXCEPT ![op.th] = "check"]
        /\ UNCHANGED <<tip, seq, tieUp, candidates, most>>
        BY <1>6 DEF StepEnd, Running, Release
  <2>2. op.th \in Threads /\ pc'[op.th] = "check" /\ most'[op.th] = op.target /\ IsBest(op.target)
        BY <1>t, <2>1 DEF Activity, TargetBest
  <2>3. op'.kind = "free" BY <2>1, SectionKinds
  <2>4. CASE tip = op.target
    <3>1. IsBest(tip)' BY <2>1, <2>2, <2>4 DEF IsBest, Worse
    <3> QED BY <2>3, <3>1 DEF Activity, Holder, TargetBest, TipBest
  <2>5. CASE tip # op.target
        BY <2>1, <2>2, <2>3, <2>5, LookingIsEnough DEF Holder, Busy
  <2> QED BY <2>4, <2>5
<1>7. CASE UpdateTip BY <1>7, UpdateTipActivity
<1>8. CASE InvalidateTip \/ ReprocessTip
  <2>1. /\ op.kind \in {"invalidate", "reprocess"}
        /\ op'.kind = op.kind /\ op'.th = op.th
        BY <1>0, <1>8 DEF InvalidateTip, ReprocessTip, Running, DisconnectTip, Typed, TypeOK, Sections
  <2> QED BY <2>1, LookingIsEnough DEF Activity, Holder, Busy
<1>9. CASE InvalidateEnd \/ ReprocessEnd
  <2>1. /\ op.kind # "free" /\ op' = FreeOp /\ pc' = [pc EXCEPT ![op.th] = "activate"]
        BY <1>9 DEF InvalidateEnd, ReprocessEnd, Running, Proceed
  <2>2. op.th \in Threads /\ pc'[op.th] = "activate" BY <1>t, <2>1
  <2>3. op'.kind = "free" BY <2>1, SectionKinds
  <2> QED BY <2>2, <2>3, LookingIsEnough DEF Holder, Busy
<1>10. ASSUME NEW b \in Blocks, FlushIndexEntry(b) PROVE Activity'
  <2>1. ActivityFramed BY <1>10 DEF FlushIndexEntry, ActivityFramed
  <2> QED BY <2>1, ActivityFramedKeeps
<1>11. CASE FlushCoins
  <2>1. CASE op.kind # "flush"
    <3>1. ActivityFramed BY <1>11, <2>1 DEF FlushCoins, ActivityFramed
    <3> QED BY <3>1, ActivityFramedKeeps
  <2>2. CASE op.kind = "flush"
    <3>1. /\ up = "up" /\ op' = FreeOp /\ pc' = [pc EXCEPT ![op.th] = "idle"]
          /\ UNCHANGED <<tip, seq, tieUp, candidates, most>>
          BY <1>11, <2>2 DEF FlushCoins, Drop
    <3>2. \A t \in Threads : pc[t] # "flush" => pc'[t] = pc[t]
          BY <1>0, <2>2, <3>1 DEF Activity, Holder, Typed, TypeOK
    <3>3. op'.kind = "free" BY <3>1, SectionKinds
    <3> QED BY <2>2, <3>1, <3>2, <3>3, ThreadsLook DEF Holder
  <2> QED BY <2>1, <2>2
<1> QED BY <1>1, <1>2, <1>3, <1>4, <1>5, <1>6, <1>7, <1>8, <1>9, <1>10, <1>11 DEF SectionStep

LEMMA ActivityPreserved ==
    ASSUME WritesSucceed, NothingReconsidered,
           Inv, Coins, NoneToReconsider, Cover, Activity, [Next]_vars
    PROVE  Activity'
<1> USE DEF indexVars, linkVars, chainVars, diskVars, lockVars, threadVars, csVars, lifeVars
<1>0. Typed /\ Rest BY DEF Inv
<1>1. CASE UNCHANGED vars
      BY <1>1 DEF vars, Activity, Holder, TargetBest, TipBest, Busy, IsBest, Worse
<1>2. ASSUME NEW b \in NonGenesis, BlockStepFramed(b) PROVE Activity'
      BY <1>0, <1>2, BlockStepActivity
<1>3. ASSUME NEW th \in Threads, ThreadStepFramed(th) \/ AcceptBlock(th) PROVE Activity'
      BY <1>0, <1>3, ThreadStepActivity
<1>4. CASE SectionStep BY <1>4, SectionActivity
<1>5. ASSUME NEW th \in Threads, Restart(th) PROVE Activity'
  <2>1. op' = op /\ op.kind = "free" /\ pc' = [pc EXCEPT ![th] = "activate"]
        BY <1>0, <1>5, SectionKinds DEF Restart, Rest, DeadHoldsNothing
  <2>2. pc'[th] = "activate" BY <1>0, <2>1 DEF Typed, TypeOK
  <2>3. Busy' BY <2>2 DEF Busy
  <2> QED BY <2>1, <2>3, LookingIsEnough DEF Holder
<1>6. CASE Reindex
  <2>1. /\ op' = op /\ op.kind = "free" /\ candidates' = {Genesis} /\ tip' = Genesis
        BY <1>0, <1>6, SectionKinds DEF Reindex, Rest, DeadHoldsNothing
  <2>2. IsBest(tip)' BY <2>1 DEF IsBest
  <2> QED BY <2>1, <2>2 DEF Activity, Holder, TargetBest, TipBest
<1>7. ASSUME Die PROVE Activity'
  <2>1. up' = "down" /\ op'.kind = "free" BY <1>7, SectionKinds DEF Die
  <2> QED BY <2>1 DEF Activity, Holder, TargetBest, TipBest
<1>8. CASE RestartDangling
  <2>1. up' = "dangling entry" /\ op' = op /\ op.kind = "free"
        BY <1>0, <1>8, SectionKinds DEF RestartDangling, Rest, DeadHoldsNothing
  <2> QED BY <2>1 DEF Activity, Holder, TargetBest, TipBest
<1>9. ~FlushFails BY DEF FlushFails, CountOp, WritesSucceed
<1> QED BY <1>1, <1>2, <1>3, <1>4, <1>5, <1>6, <1>7, <1>8, <1>9
    DEF Next, ThreadStep, ThreadStepFramed, BlockStepFramed, Crash, AssertionDies

LEMMA SpecActivity ==
    ASSUME WritesSucceed, NoCrashAfterInvalidate, NothingReconsidered, NoLockConflicts
    PROVE  Spec => [](Inv /\ Cover /\ Activity)
<1>1. Init => Cover /\ Activity BY InitCover, InitActivity
<1>2. Inv /\ Coins /\ Marks /\ NoneToReconsider /\ Cover /\ Activity /\ [Next]_vars
          => Cover' /\ Activity'
  <2> SUFFICES ASSUME Inv, Coins, Marks, NoneToReconsider, Cover, Activity, [Next]_vars
               PROVE  Cover' /\ Activity'
      OBVIOUS
  <2>1. Cover' BY TypePreserved, CoverPreserved
  <2>2. Activity' BY ActivityPreserved
  <2> QED BY <2>1, <2>2
<1> QED BY <1>1, <1>2, SpecInv, SpecCoins, SpecMarks, SpecNoneToReconsider, PTL DEF Spec

\* When no thread is activating, the tip is the best candidate, and every
\* eligible block that is not a candidate sorts worse than it.
LEMMA QuietTip ==
    ASSUME Inv, Cover, Activity, Quiet
    PROVE  /\ IsBest(tip) /\ \A c \in candidates : c \in linked /\ ~Worse(c, tip, seq)
           /\ \A b \in Blocks : Eligible(b) /\ b \notin candidates => Worse(b, tip, seq)
<1>1. up = "up" /\ op.kind = "free" BY DEF Quiet, Free
<1>2. IsBest(tip) BY <1>1 DEF Activity, TipBest, Busy, Quiet
<1>3. \A c \in candidates : c \in linked /\ ~Worse(c, tip, seq)
      BY <1>1 DEF Cover, CandidatesGood, Inv, Rest, CandidatesLinked
<1>4. ASSUME NEW b \in Blocks, Eligible(b), b \notin candidates PROVE Worse(b, tip, seq)
  <2>1. b \in linked /\ ~Failed(b)
        BY <1>1, <1>4, AncSelf DEF Eligible, Inv, Rest, LinkedExact
  <2>2. PICK w \in candidates : CoveredBy(w) BY <1>1 DEF Cover, CandidateLeft
  <2>3. Worse(b, w, seq) BY <1>4, <2>1, <2>2 DEF CoveredBy
  <2>4. w = tip \/ Worse(w, tip, seq) BY <1>2 DEF IsBest
  <2>5. w \in Blocks /\ tip \in Blocks /\ seq \in [Blocks -> Nat] BY DEF Inv, Typed, TypeOK
  <2> QED BY <2>3, <2>4, <2>5, WorseOrder
<1> QED BY <1>2, <1>3, <1>4

\* ActivateBestChain: when the threads are done, no branch that the node has in
\* full and has not marked invalid has more work than the active chain, in
\* whatever order headers, blocks, data that was waited for, blocks that fail to
\* connect, disconnections, flushes, invalidations or crashes, and restarts came.
THEOREM BestChainActivated ==
    ASSUME WritesSucceed, NoCrashAfterInvalidate, NothingReconsidered, NoLockConflicts
    PROVE  Spec => []BestChainActive
<1>1. Inv /\ Cover /\ Activity => BestChainActive
  <2> SUFFICES ASSUME Inv, Cover, Activity, Quiet, NEW b \in Blocks, Eligible(b)
               PROVE  Work[b] <= Work[tip]
      BY DEF BestChainActive
  <2>1. b = tip \/ Worse(b, tip, seq) BY QuietTip DEF IsBest
  <2>2. tip \in Blocks BY DEF Inv, Typed, TypeOK
  <2>3. Work[b] \in Nat /\ Work[tip] \in Nat BY <2>2, WorkAssumption
  <2> QED BY <2>1, <2>3 DEF Worse
<1> QED BY <1>1, SpecActivity, PTL

\* CheckBlockIndex on setBlockIndexCandidates, when the threads are done: each
\* unmarked branch that sorts at least as good as the tip ends in a candidate,
\* whatever was pruned in the meantime, and nothing worse is a candidate.
THEOREM CandidatesCorrect ==
    ASSUME WritesSucceed, NoCrashAfterInvalidate, NothingReconsidered, NoLockConflicts
    PROVE  Spec => []CandidatesExact
<1>1. Inv /\ Cover /\ Activity => CandidatesExact BY QuietTip DEF CandidatesExact
<1> QED BY <1>1, SpecActivity, PTL

-----------------------------------------------------------------------------
(* The active chain: what the sections of cs_main do to it                 *)

\* No candidate has less work than the tip.
Ahead == up = "up" => \A c \in candidates : Work[c] >= Work[tip]

\* ActivateBestChainStep goes from its old tip down to where the target
\* branches off and up again, over blocks that are not marked, to a target
\* worth as much.
Way ==
    op.kind = "step" =>
        /\ op.oldTip \in Blocks /\ op.target # op.oldTip
        /\ Work[op.target] >= Work[op.oldTip]
        /\ coinsTip \in Anc[op.oldTip] \cup Anc[op.target]
        /\ Anc[op.target] \cap Anc[op.oldTip] \subseteq Anc[coinsTip]
        /\ \A x \in Anc[op.target] \ Anc[op.oldTip] : ~Failed(x)

\* Only DisconnectBlocksAndReprocess counts blocks.
Budget == op.kind # "reprocess" => op.left = 0

Walk == Ahead /\ Way /\ Budget

LEMMA InitWalk == Init => Walk
BY TreeAssumption, WorkAssumption DEF Init, Walk, Ahead, Way, Budget, FreeOp

\* A step that leaves the tip, adds no candidate that is behind it, and stays
\* out of ActivateBestChainStep or leaves it as it is.
WalkFramed ==
    /\ up = "up" /\ up' = "up" /\ tip' = tip
    /\ \A c \in candidates' : c \in candidates \/ Work[c] >= Work[tip]
    /\ IF op'.kind = "step" THEN UNCHANGED <<op, coinsTip, status>>
                            ELSE op'.kind = "reprocess" \/ op'.left = 0

LEMMA WalkFramedKeeps == ASSUME Walk, WalkFramed PROVE Walk'
<1>1. Ahead' BY DEF Walk, WalkFramed, Ahead
<1>2. Way' BY DEF Walk, WalkFramed, Way, Failed
<1>3. Budget' BY DEF Walk, WalkFramed, Budget
<1> QED BY <1>1, <1>2, <1>3 DEF Walk

LEMMA NotWorse ==
    ASSUME NEW a \in Blocks, NEW b \in Blocks, NEW s, ~Worse(a, b, s)
    PROVE  Work[a] >= Work[b]
BY WorkAssumption DEF Worse

LEMMA WorseWork ==
    ASSUME NEW a \in Blocks, NEW b \in Blocks, NEW s, Worse(a, b, s)
    PROVE  Work[b] >= Work[a]
BY WorkAssumption DEF Worse

LEMMA FramedWalk ==
    ASSUME Inv, Coins, Walk,
           \/ SectionStepFramed /\ ~FindChain /\ ~StepDisconnect /\ ~UpdateTip /\ ~FlushFails
           \/ FlushCoins
           \/ \E th \in Threads : ThreadStepFramed(th) \/ AcceptBlock(th)
           \/ \E b \in NonGenesis : BlockStepFramed(b)
           \/ \E b \in Blocks : FlushIndexEntry(b)
    PROVE  WalkFramed
<1> USE DEF indexVars, linkVars, chainVars, diskVars, lockVars, threadVars, csVars, lifeVars
<1>0. Typed /\ Rest /\ tip \in Blocks /\ candidates \subseteq Blocks /\ linked \subseteq Blocks
      BY DEF Inv, Typed, TypeOK
<1>1. op.kind = "reprocess" \/ op.left = 0 BY DEF Walk, Budget
<1>2. ASSUME NEW b \in NonGenesis, AcceptBlockHeader(b) PROVE WalkFramed
      BY <1>1, <1>2 DEF WalkFramed, AcceptBlockHeader, Free
<1>3. ASSUME NEW b \in NonGenesis, LockAppears(b) \/ LockExpires(b) PROVE WalkFramed
      BY <1>1, <1>3 DEF WalkFramed, LockAppears, LockExpires
<1>4. ASSUME NEW b \in NonGenesis, NEW th \in Threads, CheckNewBlock(th, b) PROVE WalkFramed
      BY <1>1, <1>4 DEF WalkFramed, CheckNewBlock
<1>5. ASSUME NEW b \in NonGenesis, NEW th \in Threads, InvalidateBlock(th, b) PROVE WalkFramed
      BY <1>5 DEF WalkFramed, InvalidateBlock, Free, CountOp, Section
<1>6. ASSUME NEW b, Free, Reconsider(b), up' = up, UNCHANGED <<tip, op>> PROVE WalkFramed
  <2>1. \A c \in candidates' : c \in candidates \/ (c \in Blocks /\ Worse(tip, c, seq))
        BY <1>6 DEF Reconsider, Known
  <2> QED BY <1>0, <1>1, <1>6, <2>1, WorseWork DEF WalkFramed, Free
<1>7. ASSUME NEW b \in NonGenesis, NEW th \in Threads,
             ReconsiderBlock(th, b) \/ ReprocessRejected(th, b)
      PROVE WalkFramed
      BY <1>6, <1>7 DEF ReconsiderBlock, ReprocessRejected, CountOp, Free
<1>8. ASSUME NEW th \in Threads, AcceptBlock(th) PROVE WalkFramed
  <2> DEFINE b == blk[th]
  <2>1. Free /\ up' = up /\ UNCHANGED <<tip, op>> BY <1>8 DEF AcceptBlock
  <2>2. b \in Blocks BY <1>0, <1>8 DEF AcceptBlock, Typed, CheckedHasBlock, NonGenesis
  <2> HIDE DEF b
  <2>3. CASE candidates' = candidates BY <1>1, <2>1, <2>3 DEF WalkFramed, Free
  <2>4. CASE ReconsiderCheckpoint(th, b) BY <1>6, <2>1, <2>4 DEF ReconsiderCheckpoint
  <2>5. CASE StoreBlock(th, b)
    <3>1. \A c \in candidates' : c \in candidates \/ (c \in Blocks /\ ~Worse(c, tip, seq'))
          BY <1>0, <2>2, <2>5
          DEF StoreBlock, ReceivedBlockTransactions, NewlyLinked, Typed, TypeOK
    <3> QED BY <1>0, <1>1, <2>1, <3>1, NotWorse DEF WalkFramed, Free
  <2> QED BY <1>8, <2>3, <2>4, <2>5
      DEF AcceptBlock, RefuseFailed, AcceptDuplicate, RefuseContext, RefuseStake, b
<1>9. ASSUME NEW th \in Threads, ThreadStepFramed(th) PROVE WalkFramed
  <2>1. CASE Enter(th) \/ StartFlush(th) \/ ReprocessLock(th)
        BY <2>1 DEF WalkFramed, Enter, StartFlush, ReprocessLock, Free, Section
  <2>2. CASE LoopCheck(th) \/ ReprocessBlocks(th)
        BY <1>1, <2>2 DEF WalkFramed, LoopCheck, ReprocessBlocks, CountOp
  <2> QED BY <1>9, <2>1, <2>2 DEF ThreadStepFramed
<1>10. CASE FindReject BY <1>1, <1>10 DEF WalkFramed, FindReject, Running
<1>11. CASE FindNothing \/ ReprocessEnd \/ StepEnd
       BY <1>11 DEF WalkFramed, FindNothing, ReprocessEnd, StepEnd, Running, Release, FreeOp
<1>12. CASE StepInvalid
       BY <1>12 DEF WalkFramed, StepInvalid, Connecting, Running, Release, FreeOp
<1>13. CASE InvalidateTip
       BY <1>0, <1>1, <1>13
       DEF Typed, TypeOK, Sections, WalkFramed, InvalidateTip, DisconnectTip, Running
<1>14. CASE InvalidateEnd
  <2>1. \A c \in candidates' : c \in candidates \/ (c \in Blocks /\ ~Worse(c, tip, seq))
        BY <1>0, <1>14 DEF InvalidateEnd
  <2> QED BY <1>0, <1>14, <2>1, NotWorse DEF WalkFramed, InvalidateEnd, Running, FreeOp
<1>15. CASE ReprocessTip
       BY <1>0, <1>15
       DEF Typed, TypeOK, Sections, WalkFramed, ReprocessTip, DisconnectTip, Running
<1>16. ASSUME NEW b \in Blocks, FlushIndexEntry(b) PROVE WalkFramed
       BY <1>1, <1>16 DEF WalkFramed, FlushIndexEntry
<1>17. CASE FlushCoins
  <2>1. op' = FreeOp \/ UNCHANGED op BY <1>17, Zenon DEF FlushCoins
  <2> QED BY <1>1, <1>17, <2>1 DEF WalkFramed, FlushCoins, FreeOp
<1> QED BY <1>2, <1>3, <1>4, <1>5, <1>7, <1>8, <1>9, <1>10, <1>11, <1>12, <1>13, <1>14,
           <1>15, <1>16, <1>17
    DEF SectionStepFramed, BlockStepFramed

\* ActivateBestChainStep takes a block off the old branch ...
LEMMA DisconnectWalk == ASSUME Inv, Coins, Walk, StepDisconnect PROVE Walk'
<1> USE DEF indexVars, linkVars, chainVars, diskVars, lockVars, threadVars, csVars, lifeVars
<1>1. /\ up = "up" /\ up' = up /\ op.kind = "step" /\ op.newTip = None
      /\ tip \notin Anc[op.target] /\ coinsTip' = Parent[tip]
      /\ op' = [op EXCEPT !.newTip = Parent[tip]]
      /\ UNCHANGED <<tip, candidates, status>> /\ "UNDO" \in status[tip]
      BY DEF StepDisconnect, DisconnectTip, Running
<1>2. /\ op'.kind = op.kind /\ op'.target = op.target /\ op'.oldTip = op.oldTip
      /\ op'.left = op.left
      BY <1>1 DEF Inv, Typed, TypeOK, Sections
<1>3. coinsTip = tip /\ tip \in Blocks BY <1>1 DEF Coins, CoinsFollow, Inv, Typed, TypeOK
<1>4. tip \in Anc[op.oldTip] /\ op.oldTip \in Blocks BY <1>1, <1>3 DEF Walk, Way
<1>5. tip # Genesis /\ Parent[tip] \in Anc[tip] BY <1>1, OneBack
<1>6. Parent[tip] \in Anc[op.oldTip] BY <1>4, <1>5, AncTransitive
<1>7. Anc[op.target] \cap Anc[op.oldTip] \subseteq Anc[Parent[tip]]
  <2>1. Anc[tip] = {tip} \cup Anc[Parent[tip]] BY <1>3, <1>5, TreeAssumption
  <2> QED BY <1>1, <1>3, <2>1 DEF Walk, Way
<1>8. Way' BY <1>1, <1>2, <1>6, <1>7 DEF Walk, Way, Failed
<1> QED BY <1>1, <1>2, <1>8 DEF Walk, Ahead, Budget

\* ... or puts one of the new branch on.
LEMMA ConnectWalk == ASSUME Inv, Coins, Walk, StepConnect PROVE Walk'
<1> USE DEF indexVars, linkVars, chainVars, diskVars, lockVars, threadVars, csVars, lifeVars
<1> DEFINE b == NextToward(tip, op.target)
<1>1. /\ Connecting /\ up = "up" /\ up' = up /\ op.kind = "step" /\ op.newTip = None
      /\ coinsTip' = b /\ op' = [op EXCEPT !.newTip = b]
      /\ status' = [status EXCEPT ![b] = @ \cup {"UNDO", "SCRIPTS"}]
      /\ UNCHANGED <<tip, candidates>>
      BY DEF StepConnect, Connecting, Running
<1>2. b \in Anc[op.target] \ {Genesis} /\ b \in Blocks /\ Parent[b] = tip
      BY <1>1, NextBlock, StepTarget DEF Inv, Typed
<1> HIDE DEF b
<1>3. /\ op'.kind = op.kind /\ op'.target = op.target /\ op'.oldTip = op.oldTip
      /\ op'.left = op.left
      BY <1>1 DEF Inv, Typed, TypeOK, Sections
<1>4. coinsTip = tip BY <1>1 DEF Coins, CoinsFollow
<1>5. Anc[tip] \subseteq Anc[b] BY <1>2, TreeAssumption
<1>6. \A x : Failed(x)' => Failed(x) \/ x \notin Blocks
      BY <1>1 DEF Inv, Typed, TypeOK, Failed, FailedMask
<1>7. Anc[op.target] \subseteq Blocks BY <1>1, AncSelf, StepTarget
<1>8. Way' BY <1>1, <1>2, <1>3, <1>4, <1>5, <1>6, <1>7 DEF Walk, Way
<1> QED BY <1>1, <1>3, <1>8 DEF Walk, Ahead, Budget

LEMMA UpdateTipWalk == ASSUME Inv, Coins, Walk, UpdateTip PROVE Walk'
<1> USE DEF indexVars, linkVars, chainVars, diskVars, lockVars, threadVars, csVars, lifeVars
<1>1. /\ up = "up" /\ up' = up /\ op.newTip # None /\ tip' = op.newTip
      /\ op' = [op EXCEPT !.newTip = None] /\ UNCHANGED <<coinsTip, status>>
      BY DEF UpdateTip
<1>2. /\ op'.kind = op.kind /\ op'.target = op.target /\ op'.oldTip = op.oldTip
      /\ op'.left = op.left /\ op.newTip \in Blocks
      BY <1>1 DEF Inv, Typed, TypeOK, Sections
<1>3. tip \in Blocks /\ candidates \subseteq Blocks BY DEF Inv, Typed, TypeOK
<1>4. Ahead'
  <2>1. CASE tip \in Anc[op.newTip]
    <3>1. candidates' = Pruned(op.newTip, candidates) BY <2>1 DEF UpdateTip
    <3> QED BY <1>1, <1>2, <1>3, <3>1, NotWorse DEF Ahead, Pruned
  <2>2. CASE tip \notin Anc[op.newTip]
    <3>1. candidates' = candidates BY <2>2 DEF UpdateTip
    <3>2. op.newTip \in Anc[tip] BY <1>1, <2>2 DEF Coins, NewTipNear
    <3>3. Work[op.newTip] <= Work[tip] BY <1>2, <1>3, <3>2, WorkGrows, WorkAssumption
    <3>4. \A c \in candidates : Work[c] >= Work[tip] BY <1>1 DEF Walk, Ahead
    <3> QED BY <1>1, <1>2, <1>3, <3>1, <3>3, <3>4, WorkAssumption DEF Ahead
  <2> QED BY <2>1, <2>2
<1>5. Way' BY <1>1, <1>2 DEF Walk, Way, Failed
<1> QED BY <1>2, <1>4, <1>5 DEF Walk, Budget

LEMMA FindChainWalk == ASSUME Inv, Coins, Walk, FindChain PROVE Walk'
<1> USE DEF indexVars, linkVars, chainVars, diskVars, lockVars, threadVars, csVars, lifeVars
<1>1. PICK b \in candidates \ {tip} :
          /\ \A x \in Fork(b) : ~Failed(x)
          /\ op' = Section(op.th, "step", b, tip, 0)
      BY DEF FindChain
<1>2. /\ up = "up" /\ up' = up /\ op.newTip = None
      /\ UNCHANGED <<tip, coinsTip, candidates, status>>
      BY DEF FindChain, Running
<1>3. op'.kind = "step" /\ op'.target = b /\ op'.oldTip = tip /\ op'.left = 0
      BY <1>1 DEF Section
<1>4. coinsTip = tip /\ tip \in Blocks /\ tip \in Anc[tip]
      BY <1>2, AncSelf DEF Coins, CoinsFollow, Inv, Typed, TypeOK
<1>5. Work[b] >= Work[tip] BY <1>2 DEF Walk, Ahead
<1>6. Way' BY <1>1, <1>2, <1>3, <1>4, <1>5 DEF Way, Fork, Failed
<1> QED BY <1>2, <1>3, <1>6 DEF Walk, Ahead, Budget

\* A process that is down, or comes up again.
LEMMA RestartWalk ==
    ASSUME Inv, Coins, Walk,
           \/ Die \/ RestartDangling \/ Reindex
           \/ \E th \in Threads : Restart(th)
    PROVE  Walk'
<1> USE DEF indexVars, linkVars, chainVars, diskVars, lockVars, threadVars, csVars, lifeVars
<1>1. CASE Die BY <1>1 DEF Die, Walk, Ahead, Way, Budget, FreeOp
<1>2. ASSUME up # "up" PROVE op.kind = "free" /\ op.left = 0
      BY <1>2 DEF Inv, Rest, DeadHoldsNothing, Walk, Budget
<1>3. CASE RestartDangling
      BY <1>2, <1>3 DEF RestartDangling, Walk, Ahead, Way, Budget
<1>4. CASE Reindex
  <2>1. UNCHANGED op /\ op.kind = "free" /\ op.left = 0 /\ candidates' = {Genesis} /\ tip' = Genesis
        BY <1>2, <1>4 DEF Reindex
  <2>2. Work[Genesis] >= Work[Genesis] BY TreeAssumption, WorkAssumption
  <2> QED BY <2>1, <2>2 DEF Walk, Ahead, Way, Budget
<1>5. ASSUME NEW th \in Threads, Restart(th) PROVE Walk'
  <2>1. /\ up = "down" /\ UNCHANGED op /\ tip' = dCoins
        /\ candidates' = LoadedCandidates(tieUp')
        BY <1>5 DEF Restart
  <2>2. \A c \in candidates' : c \in Blocks /\ (Work[c] > Work[dCoins] \/ Work[c] = Work[dCoins])
        BY <2>1 DEF LoadedCandidates, LoadedLinked, OnDisk
  <2>3. dCoins \in Blocks BY DEF Inv, Typed, TypeOK
  <2>4. \A c \in candidates' : Work[c] >= Work[tip'] BY <2>1, <2>2, <2>3, WorkAssumption
  <2> QED BY <1>2, <2>1, <2>4 DEF Walk, Ahead, Way, Budget
<1> QED BY <1>1, <1>3, <1>4, <1>5

LEMMA WalkPreserved == ASSUME WritesSucceed, Inv, Coins, Walk, [Next]_vars PROVE Walk'
<1>1. CASE UNCHANGED vars BY <1>1 DEF vars, Walk, Ahead, Way, Budget, Failed
<1>2. ASSUME \/ SectionStepFramed /\ ~FindChain /\ ~StepDisconnect /\ ~UpdateTip /\ ~FlushFails
             \/ FlushCoins
             \/ \E th \in Threads : ThreadStepFramed(th) \/ AcceptBlock(th)
             \/ \E b \in NonGenesis : BlockStepFramed(b)
             \/ \E b \in Blocks : FlushIndexEntry(b)
      PROVE  Walk'
      BY <1>2, FramedWalk, WalkFramedKeeps
<1>3. CASE FindChain \/ StepDisconnect \/ StepConnect \/ UpdateTip
      BY <1>3, FindChainWalk, DisconnectWalk, ConnectWalk, UpdateTipWalk
<1>4. CASE \/ Crash \/ AssertionDies \/ RestartDangling \/ Reindex
           \/ \E th \in Threads : Restart(th)
      BY <1>4, RestartWalk DEF Crash, AssertionDies
<1>5. ~FlushFails BY DEF FlushFails, CountOp, WritesSucceed
<1> QED BY <1>1, <1>2, <1>3, <1>4, <1>5
    DEF Next, ThreadStep, SectionStep, SectionStepFramed, ThreadStepFramed, BlockStepFramed

LEMMA SpecWalk == ASSUME WritesSucceed PROVE Spec => []Walk
<1>1. Init => Walk BY InitWalk
<1>2. Inv /\ Coins /\ Walk /\ [Next]_vars => Walk' BY WalkPreserved
<1> QED BY <1>1, <1>2, SpecInv, SpecCoins, PTL DEF Spec

-----------------------------------------------------------------------------
(* Every step is one of ActiveChain, or is not seen                        *)

MarkedIn(s) == {b \in Blocks : "FAILED_VALID" \in s[b]}

\* What is seen of a process that runs.
LEMMA Seen ==
    ASSUME up = "up"
    PROVE  /\ IsUp = TRUE /\ CoinsNow = coinsTip /\ InvalidNow = MarkedIn(status)
           /\ op.kind # "step" => ShownTip = tip
           /\ op.kind = "step" => ShownTip = op.oldTip
BY DEF IsUp, CoinsNow, InvalidNow, ShownTip, MarkedIn

LEMMA SeenNext ==
    ASSUME up' = "up"
    PROVE  /\ IsUp' = TRUE /\ CoinsNow' = coinsTip' /\ InvalidNow' = MarkedIn(status')
           /\ op'.kind # "step" => ShownTip' = tip'
           /\ op'.kind = "step" => ShownTip' = op'.oldTip
BY DEF IsUp, CoinsNow, InvalidNow, ShownTip, MarkedIn

Apart == {"free", "find", "flush"}

\* What it is at.
LEMMA At ==
    /\ op.kind \in Apart => Doing = "rest" /\ TargetNow = None
    /\ op'.kind \in Apart => Doing' = "rest" /\ TargetNow' = None
    /\ op.kind = "step" => Doing = "activate" /\ TargetNow = None
    /\ op'.kind = "step" => Doing' = "activate" /\ TargetNow' = None
    /\ op.kind = "reprocess" => Doing = "reprocess" /\ TargetNow = None
    /\ op'.kind = "reprocess" => Doing' = "reprocess" /\ TargetNow' = None
    /\ op.kind = "invalidate" => Doing = "invalidate" /\ TargetNow = op.target
    /\ op'.kind = "invalidate" => Doing' = "invalidate" /\ TargetNow' = op'.target
BY DEF Doing, TargetNow, Apart

\* What the sections of cs_main do not touch is not seen.
LEMMA Unseen ==
    ASSUME UNCHANGED <<up, tip, coinsTip, dCoins, op>>, MarkedIn(status') = MarkedIn(status),
           UNCHANGED dStatus \/ up = "up"
    PROVE  UNCHANGED Active!all
<1>1. /\ UNCHANGED IsUp /\ UNCHANGED CoinsNow /\ UNCHANGED ShownTip
      /\ UNCHANGED Doing /\ UNCHANGED TargetNow /\ UNCHANGED op.left
      BY DEF IsUp, CoinsNow, ShownTip, Doing, TargetNow
<1>2. UNCHANGED InvalidNow BY DEF InvalidNow, IsUp, MarkedIn
<1> QED BY <1>1, <1>2 DEF Active!all

\* Outside the sections that change the chain, marks come and go.
LEMMA LearnStep ==
    ASSUME Walk, up = "up", up' = "up", UNCHANGED <<tip, coinsTip, dCoins>>,
           op.kind \in Apart, op'.kind \in Apart, op'.left = 0,
           MarkedIn(status') \cap Anc[tip] \subseteq MarkedIn(status)
    PROVE  Active!Learn
<1>1. op.left = 0 BY DEF Walk, Budget, Apart
<1>2. op.kind # "step" /\ op'.kind # "step" BY DEF Apart
<1>3. IsUp = TRUE /\ IsUp' = TRUE /\ UNCHANGED <<CoinsNow, ShownTip>> /\ ShownTip = tip
      BY <1>2, Seen, SeenNext
<1>4. InvalidNow = MarkedIn(status) /\ InvalidNow' = MarkedIn(status') BY Seen, SeenNext
<1>5. MarkedIn(status') \subseteq Blocks BY DEF MarkedIn
<1>6. Doing = "rest" /\ Doing' = "rest" /\ TargetNow = None /\ TargetNow' = None BY At
<1> QED BY <1>1, <1>3, <1>4, <1>5, <1>6 DEF Active!Learn, Active!chain, Active!task

LEMMA LearnSteps ==
    ASSUME Inv, Coins, Walk,
           \/ FindReject \/ FindNothing
           \/ \E th \in Threads : Enter(th) \/ StartFlush(th) \/ AcceptBlock(th)
           \/ \E b \in NonGenesis : \E th \in Threads :
                 ReconsiderBlock(th, b) \/ ReprocessRejected(th, b)
    PROVE  Active!Learn
<1> USE DEF indexVars, linkVars, chainVars, diskVars, lockVars, threadVars, csVars, lifeVars
<1>0. Typed /\ tip \in Blocks /\ Anc[tip] \subseteq Blocks BY AncSelf DEF Inv, Typed, TypeOK
<1>1. CASE FindReject
  <2>1. /\ up = "up" /\ up' = up /\ op.kind = "find" /\ op' = op
        /\ UNCHANGED <<tip, coinsTip, dCoins>>
        BY <1>1 DEF FindReject, Running
  <2>2. op.left = 0 BY <2>1 DEF Walk, Budget
  <2>3. \A x \in Blocks : status'[x] = status[x] \/ status'[x] = status[x] \cup {"FAILED_CHILD"}
        BY <1>1, RejectMarks
  <2>4. MarkedIn(status') \subseteq MarkedIn(status) BY <2>3 DEF MarkedIn
  <2> QED BY <2>1, <2>2, <2>4, LearnStep DEF Apart
<1>2. CASE FindNothing
  <2>1. /\ up = "up" /\ up' = up /\ op.kind = "find" /\ op'.kind = "free" /\ op'.left = 0
        /\ UNCHANGED <<tip, coinsTip, dCoins, status>>
        BY <1>2 DEF FindNothing, Running, FreeOp
  <2> QED BY <2>1, LearnStep DEF Apart
<1>3. ASSUME NEW th \in Threads, Enter(th) \/ StartFlush(th) PROVE Active!Learn
  <2>1. /\ up = "up" /\ up' = up /\ op.kind = "free" /\ op'.kind \in Apart /\ op'.left = 0
        /\ UNCHANGED <<tip, coinsTip, dCoins, status>>
        BY <1>3 DEF Enter, StartFlush, Free, Section, Apart
  <2> QED BY <2>1, LearnStep DEF Apart
<1>4. ASSUME Free, UNCHANGED <<up, tip, coinsTip, dCoins, op>>,
             MarkedIn(status') \cap Anc[tip] \subseteq MarkedIn(status)
      PROVE Active!Learn
      BY <1>4, LearnStep DEF Free, Apart, Walk, Budget
<1>5. ASSUME NEW b, Reconsider(b) PROVE MarkedIn(status') \subseteq MarkedIn(status)
      BY <1>0, <1>5 DEF MarkedIn, Reconsider
<1>6. ASSUME NEW b \in NonGenesis, NEW th \in Threads,
             ReconsiderBlock(th, b) \/ ReprocessRejected(th, b)
      PROVE Active!Learn
  <2>1. Free /\ UNCHANGED <<up, tip, coinsTip, dCoins, op>> /\ Reconsider(b)
        BY <1>6 DEF ReconsiderBlock, ReprocessRejected, CountOp
  <2> QED BY <1>4, <1>5, <2>1
<1>7. ASSUME NEW th \in Threads, AcceptBlock(th) PROVE Active!Learn
  <2> DEFINE b == blk[th]
  <2>1. Free /\ UNCHANGED <<up, tip, coinsTip, dCoins, op>> /\ b \in Blocks
        BY <1>0, <1>7 DEF AcceptBlock, Typed, CheckedHasBlock, NonGenesis
  <2>2. \A x \in Anc[tip] : HasData(x)
        BY <2>1, TipHasData DEF Free, Coins, SectionShape
  <2> HIDE DEF b
  <2>3. CASE status' = status BY <1>4, <2>1, <2>3
  <2>4. CASE ReconsiderCheckpoint(th, b)
        BY <1>4, <1>5, <2>1, <2>4 DEF ReconsiderCheckpoint
  <2>5. CASE ~HasData(b) /\ \A x \in Blocks \ {b} : status'[x] = status[x]
    <3>1. \A x \in Anc[tip] : status'[x] = status[x] BY <1>0, <2>2, <2>5
    <3>2. MarkedIn(status') \cap Anc[tip] \subseteq MarkedIn(status) BY <3>1 DEF MarkedIn
    <3> QED BY <1>4, <2>1, <3>2
  <2>6. CASE RefuseContext(th, b) \/ RefuseStake(th, b) \/ StoreBlock(th, b)
        BY <1>0, <2>1, <2>5, <2>6
        DEF Typed, TypeOK, RefuseContext, RefuseStake, StoreBlock,
            ReceivedBlockTransactions, WithHeader, Known
  <2> QED BY <1>7, <2>3, <2>4, <2>6 DEF AcceptBlock, RefuseFailed, AcceptDuplicate, b
<1> QED BY <1>1, <1>2, <1>3, <1>6, <1>7

\* What happens beside the sections, and in their course to the index on disk.
LEMMA UnseenSteps ==
    ASSUME Inv,
           \/ RestartDangling
           \/ \E th \in Threads : LoopCheck(th) \/ ReprocessBlocks(th)
           \/ \E b \in NonGenesis :
                 \/ AcceptBlockHeader(b) \/ LockAppears(b) \/ LockExpires(b)
                 \/ \E th \in Threads : CheckNewBlock(th, b)
           \/ \E b \in Blocks : FlushIndexEntry(b)
    PROVE  UNCHANGED Active!all
<1> USE DEF indexVars, linkVars, chainVars, diskVars, lockVars, threadVars, csVars, lifeVars
<1>1. CASE RestartDangling
  <2>1. up # "up" /\ up' # "up" /\ UNCHANGED <<op, dStatus, dCoins, tip>>
        BY <1>1 DEF RestartDangling
  <2>2. /\ UNCHANGED IsUp /\ UNCHANGED CoinsNow /\ UNCHANGED ShownTip
        /\ UNCHANGED Doing /\ UNCHANGED TargetNow /\ UNCHANGED InvalidNow
        BY <2>1 DEF IsUp, CoinsNow, ShownTip, Doing, TargetNow, InvalidNow
  <2> QED BY <2>1, <2>2 DEF Active!all
<1>2. ASSUME NEW th \in Threads, LoopCheck(th) \/ ReprocessBlocks(th)
      PROVE UNCHANGED Active!all
      BY <1>2, Unseen DEF LoopCheck, ReprocessBlocks, CountOp
<1>3. ASSUME NEW b \in NonGenesis, LockAppears(b) \/ LockExpires(b)
      PROVE UNCHANGED Active!all
      BY <1>3, Unseen DEF LockAppears, LockExpires
<1>4. ASSUME NEW b \in NonGenesis, NEW th \in Threads, CheckNewBlock(th, b)
      PROVE UNCHANGED Active!all
      BY <1>4, Unseen DEF CheckNewBlock
<1>5. ASSUME NEW b \in NonGenesis, AcceptBlockHeader(b) PROVE UNCHANGED Active!all
  <2>1. MarkedIn(status') = MarkedIn(status)
        BY <1>5 DEF Inv, Typed, TypeOK, AcceptBlockHeader, WithHeader, MarkedIn, Known
  <2> QED BY <1>5, <2>1, Unseen DEF AcceptBlockHeader
<1>6. ASSUME NEW b \in Blocks, FlushIndexEntry(b) PROVE UNCHANGED Active!all
      BY <1>6, Unseen DEF FlushIndexEntry
<1> QED BY <1>1, <1>2, <1>3, <1>4, <1>5, <1>6

\* A section begins.
LEMMA BeginSteps ==
    ASSUME Inv, Coins, Walk,
           \/ FindChain
           \/ \E th \in Threads : ReprocessLock(th)
           \/ \E th \in Threads : \E b \in NonGenesis : InvalidateBlock(th, b)
    PROVE  Active!Step
<1> USE DEF indexVars, linkVars, chainVars, diskVars, lockVars, threadVars, csVars, lifeVars
<1>1. /\ up = "up" /\ up' = up /\ op.kind \in Apart /\ op.kind # "step"
      /\ op.kind # "reprocess" /\ UNCHANGED <<tip, coinsTip, dCoins>>
      BY DEF FindChain, Running, ReprocessLock, InvalidateBlock, Free, CountOp, Apart
<1>2. op.left = 0 /\ Doing = "rest" /\ TargetNow = None BY <1>1, At DEF Walk, Budget
<1>3. IsUp = TRUE /\ IsUp' = TRUE /\ UNCHANGED CoinsNow /\ ShownTip = tip
      BY <1>1, Seen, SeenNext
<1>4. InvalidNow = MarkedIn(status) /\ InvalidNow' = MarkedIn(status')
      BY <1>1, Seen, SeenNext
<1>5. CASE FindChain
  <2>1. /\ op'.kind = "step" /\ op'.oldTip = tip /\ op'.left = 0 /\ UNCHANGED status
        BY <1>5 DEF FindChain, Section
  <2>2. Doing' = "activate" /\ TargetNow' = None /\ ShownTip' = tip /\ UNCHANGED InvalidNow
        BY <1>1, <1>4, <2>1, At, SeenNext
  <2>3. Active!Activate
        BY <1>1, <1>2, <1>3, <2>1, <2>2 DEF Active!Activate, Active!chain
  <2> QED BY <2>3 DEF Active!Step
<1>6. ASSUME NEW th \in Threads, ReprocessLock(th) PROVE Active!Step
  <2>1. /\ op'.kind = "reprocess" /\ op'.left = ReprocessDepth + 1 /\ UNCHANGED status
        BY <1>6 DEF ReprocessLock, Section
  <2>2. Doing' = "reprocess" /\ TargetNow' = None /\ ShownTip' = tip /\ UNCHANGED InvalidNow
        BY <1>1, <1>4, <2>1, At, SeenNext
  <2>3. Active!Reprocess
        BY <1>1, <1>2, <1>3, <2>1, <2>2 DEF Active!Reprocess, Active!chain
  <2> QED BY <2>3 DEF Active!Step
<1>7. ASSUME NEW th \in Threads, NEW b \in NonGenesis, InvalidateBlock(th, b)
      PROVE  Active!Step
  <2>1. /\ op'.kind = "invalidate" /\ op'.target = b /\ op'.left = 0
        /\ status' = [status EXCEPT ![b] = @ \cup {"FAILED_VALID"}]
        BY <1>7 DEF InvalidateBlock, Section
  <2>2. Doing' = "invalidate" /\ TargetNow' = b /\ ShownTip' = tip
        BY <1>1, <2>1, At, SeenNext
  <2>3. MarkedIn(status') = MarkedIn(status) \cup {b}
        BY <2>1 DEF MarkedIn, NonGenesis, Inv, Typed, TypeOK
  <2>4. Active!Invalidate(b)
        BY <1>1, <1>2, <1>3, <1>4, <2>1, <2>2, <2>3 DEF Active!Invalidate, Active!chain
  <2> QED BY <2>4 DEF Active!Step, NonGenesis
<1> QED BY <1>5, <1>6, <1>7

\* DisconnectTip, in each of the three sections that call it.
LEMMA TakeOffSteps ==
    ASSUME Inv, Coins, Walk,
           up = "up", up' = up, op.newTip = None, UNCHANGED <<tip, dCoins>>,
           "UNDO" \in status[tip], coinsTip' = Parent[tip],
           op'.kind = op.kind, op'.target = op.target, op'.oldTip = op.oldTip,
           MarkedIn(status') = MarkedIn(status),
           \/ op.kind = "step" /\ tip \notin Anc[op.target] /\ op'.left = op.left
           \/ op.kind = "invalidate" /\ op.target \in Anc[tip] /\ op'.left = op.left
           \/ op.kind = "reprocess" /\ op.left > 0 /\ op'.left = op.left - 1
    PROVE  Active!TakeOff
<1>1. coinsTip = tip /\ tip \in Blocks BY DEF Coins, CoinsFollow, Inv, Typed, TypeOK
<1>2. tip # Genesis BY OneBack
<1>3. tip \in Anc[tip] BY <1>1, AncSelf
<1>4. IsUp = TRUE /\ IsUp' = TRUE /\ CoinsNow = tip /\ CoinsNow' = Parent[tip]
      BY <1>1, Seen, SeenNext
<1>5. UNCHANGED InvalidNow /\ UNCHANGED Doing /\ UNCHANGED TargetNow /\ UNCHANGED ShownTip
      BY Seen, SeenNext DEF Doing, TargetNow
<1>6. CASE op.kind = "step" /\ tip \notin Anc[op.target] /\ op'.left = op.left
  <2>1. Doing = "activate" /\ ShownTip = op.oldTip BY <1>6, At, Seen
  <2>2. tip \in Anc[op.oldTip] BY <1>1, <1>6 DEF Walk, Way
  <2> QED BY <1>2, <1>4, <1>5, <1>6, <2>1, <2>2 DEF Active!TakeOff
<1>7. CASE op.kind = "invalidate" /\ op.target \in Anc[tip] /\ op'.left = op.left
  <2>1. Doing = "invalidate" /\ ShownTip = tip /\ TargetNow = op.target BY <1>7, At, Seen
  <2> QED BY <1>2, <1>3, <1>4, <1>5, <1>7, <2>1 DEF Active!TakeOff
<1>8. CASE op.kind = "reprocess" /\ op.left > 0 /\ op'.left = op.left - 1
  <2>1. Doing = "reprocess" /\ ShownTip = tip BY <1>8, At, Seen
  <2> QED BY <1>2, <1>3, <1>4, <1>5, <1>8, <2>1 DEF Active!TakeOff
<1> QED BY <1>6, <1>7, <1>8

LEMMA DisconnectSteps ==
    ASSUME Inv, Coins, Walk, StepDisconnect \/ InvalidateTip \/ ReprocessTip
    PROVE  Active!Step
<1> USE DEF indexVars, linkVars, chainVars, diskVars, lockVars, threadVars, csVars, lifeVars
<1>0. op \in Sections /\ tip \in Blocks /\ status \in [Blocks -> SUBSET Flags]
      BY DEF Inv, Typed, TypeOK
<1>1. CASE StepDisconnect
  <2>1. /\ up = "up" /\ up' = up /\ op.kind = "step" /\ op.newTip = None
        /\ tip \notin Anc[op.target] /\ coinsTip' = Parent[tip]
        /\ op' = [op EXCEPT !.newTip = Parent[tip]]
        /\ UNCHANGED <<tip, dCoins, status>> /\ "UNDO" \in status[tip]
        BY <1>1 DEF StepDisconnect, DisconnectTip, Running
  <2>2. /\ op'.kind = op.kind /\ op'.target = op.target /\ op'.oldTip = op.oldTip
        /\ op'.left = op.left
        BY <1>0, <2>1 DEF Sections
  <2>3. Active!TakeOff BY <2>1, <2>2, TakeOffSteps
  <2> QED BY <2>3 DEF Active!Step
<1>2. CASE InvalidateTip
  <2>1. /\ up = "up" /\ up' = up /\ op.kind = "invalidate" /\ op.newTip = None
        /\ op.target \in Anc[tip] /\ coinsTip' = Parent[tip]
        /\ op' = [op EXCEPT !.newTip = Parent[tip]]
        /\ status' = [status EXCEPT ![tip] = @ \cup {"FAILED_CHILD"}]
        /\ UNCHANGED <<tip, dCoins>> /\ "UNDO" \in status[tip]
        BY <1>2 DEF InvalidateTip, DisconnectTip, Running
  <2>2. /\ op'.kind = op.kind /\ op'.target = op.target /\ op'.oldTip = op.oldTip
        /\ op'.left = op.left
        BY <1>0, <2>1 DEF Sections
  <2>3. MarkedIn(status') = MarkedIn(status) BY <1>0, <2>1 DEF MarkedIn
  <2>4. Active!TakeOff BY <2>1, <2>2, <2>3, TakeOffSteps
  <2> QED BY <2>4 DEF Active!Step
<1>3. CASE ReprocessTip
  <2> DEFINE s == [op EXCEPT !.left = @ - 1]
  <2>1. /\ up = "up" /\ up' = up /\ op.kind = "reprocess" /\ op.newTip = None
        /\ op.left > 0 /\ UNCHANGED <<tip, dCoins, status>>
        BY <1>3 DEF ReprocessTip, Running
  <2>2. CASE DisconnectTip(s)
    <3>1. /\ coinsTip' = Parent[tip] /\ "UNDO" \in status[tip]
          /\ op' = [s EXCEPT !.newTip = Parent[tip]]
          BY <2>2 DEF DisconnectTip
    <3>2. /\ op'.kind = op.kind /\ op'.target = op.target /\ op'.oldTip = op.oldTip
          /\ op'.left = op.left - 1
          BY <1>0, <3>1 DEF Sections
    <3>3. Active!TakeOff BY <2>1, <3>1, <3>2, TakeOffSteps
    <3> QED BY <3>3 DEF Active!Step
  <2>3. CASE op' = s /\ UNCHANGED coinsTip
    <3>1. /\ op'.kind = op.kind /\ op'.left = op.left - 1
          BY <1>0, <2>3 DEF Sections
    <3>2. /\ IsUp = TRUE /\ UNCHANGED IsUp /\ UNCHANGED CoinsNow /\ UNCHANGED ShownTip
          /\ UNCHANGED InvalidNow
          BY <2>1, <2>3, <3>1, Seen, SeenNext
    <3>3. Doing = "reprocess" /\ UNCHANGED Doing /\ UNCHANGED TargetNow
          BY <2>1, <3>1, At
    <3>4. Active!PassOver
          BY <2>1, <3>1, <3>2, <3>3 DEF Active!PassOver, Active!chain
    <3> QED BY <3>4 DEF Active!Step
  <2> QED BY <1>3, <2>2, <2>3 DEF ReprocessTip
<1> QED BY <1>1, <1>2, <1>3

\* ConnectTip, whether ConnectBlock succeeds or not.
LEMMA ConnectSteps ==
    ASSUME Inv, Coins, Walk, StepConnect \/ StepInvalid
    PROVE  Active!Step
<1> USE DEF indexVars, linkVars, chainVars, diskVars, lockVars, threadVars, csVars, lifeVars
<1> DEFINE b == NextToward(tip, op.target)
<1>1. /\ Connecting /\ up = "up" /\ up' = up /\ op.kind = "step" /\ op.newTip = None
      /\ Work[tip] <= Work[op.oldTip] /\ UNCHANGED <<tip, dCoins>>
      BY DEF StepConnect, StepInvalid, Connecting, Running
<1>2. b \in Anc[op.target] \ {Genesis} /\ b \in Blocks /\ Parent[b] = tip
      BY <1>1, NextBlock, StepTarget DEF Inv, Typed
<1>3. coinsTip = tip BY <1>1 DEF Coins, CoinsFollow
<1>4. b \notin Anc[op.oldTip]
  <2>1. b \notin Anc[tip] BY <1>2, TreeAssumption
  <2> QED BY <1>1, <1>2, <1>3, <2>1 DEF Walk, Way
<1>5. b \notin MarkedIn(status)
      BY <1>1, <1>2, <1>4 DEF Walk, Way, MarkedIn, Failed, FailedMask
<1>6. /\ IsUp = TRUE /\ CoinsNow = tip /\ ShownTip = op.oldTip
      /\ InvalidNow = MarkedIn(status) /\ Doing = "activate" /\ TargetNow = None
      BY <1>1, <1>3, Seen, At
<1> HIDE DEF b
<1>7. Active!Next(b) BY <1>1, <1>2, <1>4, <1>5, <1>6 DEF Active!Next
<1> USE DEF b
<1>8. CASE StepConnect
  <2>1. /\ coinsTip' = b /\ op' = [op EXCEPT !.newTip = b]
        /\ status' = [status EXCEPT ![b] = @ \cup {"UNDO", "SCRIPTS"}]
        BY <1>8 DEF StepConnect
  <2> HIDE DEF b
  <2>2. /\ op'.kind = op.kind /\ op'.target = op.target /\ op'.oldTip = op.oldTip
        /\ op'.left = op.left
        BY <2>1 DEF Inv, Typed, TypeOK, Sections
  <2>3. MarkedIn(status') = MarkedIn(status)
        BY <1>2, <2>1 DEF MarkedIn, Inv, Typed, TypeOK
  <2>4. /\ UNCHANGED IsUp /\ CoinsNow' = b /\ UNCHANGED ShownTip /\ UNCHANGED InvalidNow
        /\ UNCHANGED Doing /\ UNCHANGED TargetNow
        BY <1>1, <1>6, <2>1, <2>2, <2>3, SeenNext, At
  <2>5. Active!PutOn(b) BY <1>1, <1>7, <2>2, <2>4 DEF Active!PutOn, Active!task
  <2> QED BY <1>2, <2>5 DEF Active!Step
<1>9. CASE StepInvalid
  <2>1. /\ UNCHANGED coinsTip /\ op'.kind = "free" /\ op'.left = 0
        /\ status' = [status EXCEPT ![b] = @ \cup {"FAILED_VALID"}]
        BY <1>9 DEF StepInvalid, Release, FreeOp
  <2> HIDE DEF b
  <2>2. MarkedIn(status') = MarkedIn(status) \cup {b}
        BY <1>2, <2>1 DEF MarkedIn, Inv, Typed, TypeOK
  <2>3. /\ UNCHANGED IsUp /\ UNCHANGED CoinsNow /\ ShownTip' = tip
        /\ InvalidNow' = InvalidNow \cup {b} /\ Doing' = "rest" /\ TargetNow' = None
        BY <1>1, <1>3, <1>6, <2>1, <2>2, SeenNext, At DEF Apart
  <2>4. Active!Refuse(b)
        BY <1>1, <1>6, <1>7, <2>1, <2>3 DEF Active!Refuse, Active!Resting
  <2> QED BY <1>2, <2>4 DEF Active!Step
<1> QED BY <1>8, <1>9

\* UpdateTip is seen when the section is an operator's or a lock's.
LEMMA UpdateTipSteps ==
    ASSUME Inv, Coins, Walk, UpdateTip PROVE Active!Step \/ UNCHANGED Active!all
<1> USE DEF indexVars, linkVars, chainVars, diskVars, lockVars, threadVars, csVars, lifeVars
<1>1. /\ up = "up" /\ up' = up /\ op.newTip # None /\ tip' = op.newTip
      /\ op' = [op EXCEPT !.newTip = None] /\ UNCHANGED <<coinsTip, dCoins, status>>
      BY DEF UpdateTip
<1>2. /\ op'.kind = op.kind /\ op'.target = op.target /\ op'.oldTip = op.oldTip
      /\ op'.left = op.left
      BY <1>1 DEF Inv, Typed, TypeOK, Sections
<1>3. op.kind \in {"step", "invalidate", "reprocess"}
      BY <1>1 DEF Inv, Typed, TypeOK, Sections, Kinds, Coins, SectionShape
<1>4. coinsTip = op.newTip BY <1>1 DEF Coins, CoinsFollow
<1>5. /\ IsUp = TRUE /\ UNCHANGED IsUp /\ CoinsNow = coinsTip /\ UNCHANGED CoinsNow
      /\ UNCHANGED InvalidNow /\ UNCHANGED Doing /\ UNCHANGED TargetNow
      BY <1>1, <1>2, Seen, SeenNext DEF Doing, TargetNow
<1>6. CASE op.kind = "step"
  <2>1. UNCHANGED ShownTip BY <1>1, <1>2, <1>6, Seen, SeenNext
  <2> QED BY <1>1, <1>2, <1>5, <2>1 DEF Active!all
<1>7. CASE op.kind \in {"invalidate", "reprocess"}
  <2>1. ShownTip' = CoinsNow /\ Doing \in {"invalidate", "reprocess"}
        BY <1>1, <1>2, <1>4, <1>5, <1>7, SeenNext, At
  <2>2. Active!Show BY <1>1, <1>2, <1>5, <2>1 DEF Active!Show, Active!task
  <2> QED BY <2>2 DEF Active!Step
<1> QED BY <1>3, <1>6, <1>7

\* A section ends.
LEMMA EndSteps ==
    ASSUME Inv, Coins, Walk, StepEnd \/ InvalidateEnd \/ ReprocessEnd
    PROVE  Active!Step
<1> USE DEF indexVars, linkVars, chainVars, diskVars, lockVars, threadVars, csVars, lifeVars
<1>1. /\ up = "up" /\ up' = up /\ op.newTip = None /\ op'.kind = "free" /\ op'.left = 0
      /\ UNCHANGED <<tip, coinsTip, dCoins, status>>
      BY DEF StepEnd, InvalidateEnd, ReprocessEnd, Running, Release, FreeOp
<1>2. coinsTip = tip /\ tip \in Blocks BY <1>1 DEF Coins, CoinsFollow, Inv, Typed, TypeOK
<1>3. /\ IsUp = TRUE /\ UNCHANGED IsUp /\ CoinsNow = tip /\ UNCHANGED CoinsNow
      /\ UNCHANGED InvalidNow /\ ShownTip' = tip /\ Doing' = "rest" /\ TargetNow' = None
      BY <1>1, <1>2, Seen, SeenNext, At DEF Apart
<1>4. CASE StepEnd
  <2>1. op.kind = "step" /\ (tip = op.target \/ Work[tip] > Work[op.oldTip])
        BY <1>4 DEF StepEnd, Running
  <2>2. op.oldTip \in Blocks /\ op.target # op.oldTip /\ Work[op.target] >= Work[op.oldTip]
        BY <2>1 DEF Walk, Way
  <2>3. tip # op.oldTip /\ Work[tip] >= Work[op.oldTip]
        BY <1>2, <2>1, <2>2, WorkAssumption
  <2>4. ShownTip = op.oldTip /\ Doing = "activate" BY <1>1, <2>1, Seen, At
  <2>5. Active!Settle
        BY <1>1, <1>3, <2>3, <2>4 DEF Active!Settle, Active!Resting
  <2> QED BY <2>5 DEF Active!Step
<1>5. CASE InvalidateEnd
  <2>1. op.kind = "invalidate" /\ op.target \notin Anc[tip]
        BY <1>5 DEF InvalidateEnd, Running
  <2>2. ShownTip = tip /\ Doing = "invalidate" /\ TargetNow = op.target
        BY <1>1, <2>1, Seen, At
  <2>3. Active!Finish
        BY <1>1, <1>3, <2>1, <2>2 DEF Active!Finish, Active!Resting, Active!chain
  <2> QED BY <2>3 DEF Active!Step
<1>6. CASE ReprocessEnd
  <2>1. op.kind = "reprocess" /\ op.left = 0
        BY <1>6 DEF ReprocessEnd, Running
  <2>2. ShownTip = tip /\ Doing = "reprocess" BY <1>1, <2>1, Seen, At
  <2>3. Active!Finish
        BY <1>1, <1>3, <2>1, <2>2 DEF Active!Finish, Active!Resting, Active!chain
  <2> QED BY <2>3 DEF Active!Step
<1> QED BY <1>4, <1>5, <1>6

LEMMA SaveSteps == ASSUME Inv, Walk, FlushCoins PROVE Active!Step
<1> USE DEF indexVars, linkVars, chainVars, diskVars, lockVars, threadVars, csVars, lifeVars
<1>1. /\ up = "up" /\ up' = up /\ dCoins' = coinsTip /\ UNCHANGED <<tip, coinsTip, status>>
      BY DEF FlushCoins
<1>2. IF op.kind = "flush" THEN op' = FreeOp ELSE UNCHANGED op BY Zenon DEF FlushCoins
<1>3. /\ op.kind \in Apart /\ op'.kind \in Apart /\ op'.left = 0 /\ op.left = 0
      \/ UNCHANGED op
      BY <1>2 DEF Walk, Budget, FreeOp, Apart
<1>4. /\ IsUp = TRUE /\ UNCHANGED IsUp /\ CoinsNow = coinsTip /\ UNCHANGED CoinsNow
      /\ UNCHANGED InvalidNow
      BY <1>1, Seen, SeenNext
<1>5. UNCHANGED ShownTip /\ UNCHANGED Doing /\ UNCHANGED TargetNow /\ op'.left = op.left
  <2>1. CASE UNCHANGED op BY <1>1, <2>1, Seen, SeenNext DEF Doing, TargetNow
  <2>2. CASE op.kind \in Apart /\ op'.kind \in Apart /\ op'.left = 0 /\ op.left = 0
    <3>1. op.kind # "step" /\ op'.kind # "step" BY <2>2 DEF Apart
    <3> QED BY <1>1, <2>2, <3>1, Seen, SeenNext, At
  <2> QED BY <1>3, <2>1, <2>2
<1>6. Active!Save BY <1>1, <1>4, <1>5 DEF Active!Save, Active!task
<1> QED BY <1>6 DEF Active!Step

\* The process dies, and comes up on what is on disk.
LEMMA DieSteps == ASSUME Inv, up = "up", Die PROVE Active!Step
<1>1. /\ up' = "down" /\ op'.kind = "free" /\ op'.left = 0 /\ UNCHANGED dCoins
      BY DEF Die, FreeOp, diskVars
<1>2. /\ IsUp = TRUE /\ IsUp' = FALSE /\ ShownTip' = dCoins /\ CoinsNow' = dCoins
      /\ InvalidNow' \subseteq Blocks
      BY <1>1 DEF IsUp, ShownTip, CoinsNow, InvalidNow
<1>3. Doing' = "rest" /\ TargetNow' = None BY <1>1, At DEF Apart
<1>4. Active!Die BY <1>1, <1>2, <1>3 DEF Active!Die, Active!Resting
<1> QED BY <1>4 DEF Active!Step

LEMMA StartSteps ==
    ASSUME Inv, Coins, Walk, Reindex \/ \E th \in Threads : Restart(th)
    PROVE  Active!Step \/ UNCHANGED Active!all
<1> USE DEF indexVars, linkVars, chainVars, diskVars, lockVars, threadVars, csVars, lifeVars
<1>1. up # "up" /\ UNCHANGED op BY DEF Reindex, Restart
<1>2. op.kind = "free" BY <1>1 DEF Inv, Rest, DeadHoldsNothing
<1>3. /\ IsUp = FALSE /\ ShownTip = dCoins /\ CoinsNow = dCoins
      /\ InvalidNow = MarkedIn(dStatus) /\ UNCHANGED Doing /\ UNCHANGED TargetNow
      BY <1>1 DEF IsUp, ShownTip, CoinsNow, InvalidNow, MarkedIn, Doing, TargetNow
<1>4. CASE Reindex
  <2>1. /\ up' = "up" /\ tip' = Genesis /\ coinsTip' = Genesis /\ dCoins' = Genesis
        /\ status' = [b \in Blocks |-> IF b = Genesis THEN {"TREE", "DATA"} ELSE {}]
        BY <1>4 DEF Reindex
  <2>2. MarkedIn(status') = {} BY <2>1 DEF MarkedIn
  <2>3. IsUp' = TRUE /\ ShownTip' = Genesis /\ CoinsNow' = Genesis /\ InvalidNow' = {}
        BY <1>1, <1>2, <2>1, <2>2, SeenNext
  <2>4. Active!StartOver BY <1>1, <1>3, <2>1, <2>3 DEF Active!StartOver, Active!task
  <2> QED BY <2>4 DEF Active!Step
<1>5. ASSUME NEW th \in Threads, Restart(th) PROVE Active!Step \/ UNCHANGED Active!all
  <2>1. /\ status' = dStatus /\ tip' = dCoins /\ coinsTip' = dCoins
        /\ UNCHANGED <<dStatus, dCoins>> /\ up' \in {"up", "no candidate"}
        BY <1>5 DEF Restart
  <2>2. CASE up' = "up"
    <3>1. /\ IsUp' = TRUE /\ UNCHANGED ShownTip /\ UNCHANGED CoinsNow
          /\ UNCHANGED InvalidNow
          BY <1>1, <1>2, <1>3, <2>1, <2>2, SeenNext
    <3>2. Active!Start BY <1>1, <1>3, <2>1, <3>1 DEF Active!Start, Active!task
    <3> QED BY <3>2 DEF Active!Step
  <2>3. CASE up' # "up"
    <3>1. /\ UNCHANGED IsUp /\ UNCHANGED ShownTip /\ UNCHANGED CoinsNow
          /\ UNCHANGED InvalidNow
          BY <1>1, <2>1, <2>3 DEF IsUp, ShownTip, CoinsNow, InvalidNow
    <3> QED BY <1>1, <1>3, <2>1, <3>1 DEF Active!all
  <2> QED BY <2>2, <2>3
<1> QED BY <1>4, <1>5

LEMMA StepsOfChain ==
    ASSUME WritesSucceed, Inv, Coins, Walk, [Next]_vars
    PROVE  [Active!Step]_(Active!all)
<1>1. CASE UNCHANGED vars
  <2>1. UNCHANGED <<up, tip, coinsTip, dCoins, op, dStatus, status>> BY <1>1 DEF vars
  <2> QED BY <2>1, Unseen
<1>2. CASE Next
  <2>1. CASE \/ FindReject \/ FindNothing
             \/ \E th \in Threads : Enter(th) \/ StartFlush(th) \/ AcceptBlock(th)
             \/ \E b \in NonGenesis : \E th \in Threads :
                   ReconsiderBlock(th, b) \/ ReprocessRejected(th, b)
        BY <2>1, LearnSteps DEF Active!Step
  <2>2. CASE \/ RestartDangling
             \/ \E th \in Threads : LoopCheck(th) \/ ReprocessBlocks(th)
             \/ \E b \in NonGenesis :
                   \/ AcceptBlockHeader(b) \/ LockAppears(b) \/ LockExpires(b)
                   \/ \E th \in Threads : CheckNewBlock(th, b)
             \/ \E b \in Blocks : FlushIndexEntry(b)
        BY <2>2, UnseenSteps
  <2>3. CASE \/ FindChain
             \/ \E th \in Threads : ReprocessLock(th)
             \/ \E th \in Threads : \E b \in NonGenesis : InvalidateBlock(th, b)
        BY <2>3, BeginSteps
  <2>4. CASE \/ StepDisconnect \/ InvalidateTip \/ ReprocessTip
             \/ StepConnect \/ StepInvalid
        BY <2>4, DisconnectSteps, ConnectSteps
  <2>5. CASE UpdateTip \/ StepEnd \/ InvalidateEnd \/ ReprocessEnd \/ FlushCoins
        BY <2>5, UpdateTipSteps, EndSteps, SaveSteps
  <2>6. CASE Crash \/ AssertionDies
    <3>1. up = "up" /\ Die
          BY <2>6 DEF Crash, AssertionDies, NextBlockCall, Connecting, Running
    <3> QED BY <3>1, DieSteps
  <2>7. CASE Reindex \/ \E th \in Threads : Restart(th) BY <2>7, StartSteps
  <2>8. ~FlushFails BY DEF FlushFails, CountOp, WritesSucceed
  <2> QED BY <1>2, <2>1, <2>2, <2>3, <2>4, <2>5, <2>6, <2>7, <2>8
      DEF Next, ThreadStep, SectionStep
<1> QED BY <1>1, <1>2

LEMMA InitOfChain == Init => Active!Init
<1> SUFFICES ASSUME Init PROVE Active!Init OBVIOUS
<1>1. /\ up = "up" /\ tip = Genesis /\ coinsTip = Genesis /\ dCoins = Genesis
      /\ status = [b \in Blocks |-> IF b = Genesis THEN {"TREE", "DATA"} ELSE {}]
      /\ op.kind = "free" /\ op.left = 0
      BY DEF Init, FreeOp
<1>2. MarkedIn(status) = {} BY <1>1 DEF MarkedIn
<1>3. /\ IsUp = TRUE /\ ShownTip = Genesis /\ CoinsNow = Genesis /\ InvalidNow = {}
      /\ Doing = "rest" /\ TargetNow = None
      BY <1>1, <1>2, Seen, At DEF Apart
<1> QED BY <1>1, <1>3 DEF Active!Init

\* As long as no write to disk fails, the chain between the sections of cs_main
\* only gets better, but for a block found invalid just above its tip, an
\* operator or a crash: ActivateBestChainStep releases cs_main in a better
\* position or not at all, and takes off and puts on one block at a time, in
\* every interleaving with the other threads, with crashes and with restarts.
THEOREM ChainMovesForward == ASSUME WritesSucceed PROVE Spec => ImplementsActiveChain
<1>1. Init => Active!Init BY InitOfChain
<1>2. Inv /\ Coins /\ Walk /\ [Next]_vars => [Active!Step]_(Active!all) BY StepsOfChain
<1> QED BY <1>1, <1>2, SpecInv, SpecCoins, SpecWalk, PTL
    DEF Spec, ImplementsActiveChain, Active!Spec
=============================================================================
