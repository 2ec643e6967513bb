---------------------------- MODULE DaemonProofs ----------------------------
(***************************************************************************)
(* What the daemon keeps behind its calls: the records of zerocoin spends, *)
(* and then all its parts together.                                        *)
(*                                                                         *)
(* Records, for any tree of blocks with any reveals and any depths.  The   *)
(* index knows the transactions of the chain in every state, so that a     *)
(* block is refused, or a chain found corrupt, for a repeated serial or    *)
(* transaction only.  The node that runs knows every serial of its chain,  *)
(* as long as no verification ends with a block taken off that the next    *)
(* start does not look at.  What may be missing then, whoever stopped      *)
(* where, are the records of the last CheckBlocks blocks under the tip:    *)
(* those the start takes off and puts on again.  A serial is in one block  *)
(* of a chain only, so that no record is written over, and none erased     *)
(* with another block.                                                     *)
(*                                                                         *)
(* The parts together.  A step of the daemon is a step of one part, or of  *)
(* the pool with the wallet: of each of them the daemon's behaviours are   *)
(* behaviours it has alone, and the types of the pool rest on two          *)
(* invariants, one for the pool that is alone and one for the pool with a  *)
(* wallet.                                                                 *)
(***************************************************************************)
EXTENDS MCDaemon, ServiceProofs, CoinsProofs, MempoolProofs

ZcPlaces ==
    /\ {zcTip, zcFlushed, pindexState} \subseteq ZcBlocks
    /\ zcFlushed \in ZcBranch[zcTip]
    /\ verifying \in {"back", "again"} => pindexState \in ZcBranch[zcTip]
    /\ caller \in {"start", "rpc"}

-----------------------------------------------------------------------------
(* The tree                                                                *)

LEMMA Heights ==
    ASSUME NEW b \in ZcBlocks
    PROVE  /\ NHeight(b) \in Nat
           /\ \A c \in ZcBranch[b] : NHeight(c) <= NHeight(b) /\ (NHeight(c) = NHeight(b) => c = b)
<1>1. IsFiniteSet(ZcBranch[b]) /\ b \in ZcBranch[b] /\ ZcBranch[b] \subseteq ZcBlocks
  BY ZcTree
<1>2. Cardinality(ZcBranch[b]) \in Nat /\ Cardinality(ZcBranch[b]) # 0
  BY <1>1, FS_CardinalityType, FS_EmptySet
<1>3. ASSUME NEW c \in ZcBranch[b]
      PROVE  NHeight(c) <= NHeight(b) /\ (NHeight(c) = NHeight(b) => c = b)
  <2>1. ZcBranch[c] \subseteq ZcBranch[b] /\ (b \in ZcBranch[c] => c = b)
    BY <1>3, ZcTree
  <2>2. /\ Cardinality(ZcBranch[c]) \in Nat
        /\ Cardinality(ZcBranch[c]) <= Cardinality(ZcBranch[b])
        /\ Cardinality(ZcBranch[b]) = Cardinality(ZcBranch[c]) => ZcBranch[b] = ZcBranch[c]
    BY <1>1, <2>1, FS_Subset, FS_CardinalityType
  <2> QED BY <1>1, <1>2, <2>1, <2>2 DEF NHeight
<1> QED BY <1>2, <1>3 DEF NHeight

\* A branch and one block more is one higher.
LEMMA OneHigher ==
    ASSUME NEW p \in ZcBlocks, NEW b \in ZcBlocks, b # p, ZcBranch[b] = ZcBranch[p] \cup {b}
    PROVE  b \notin ZcBranch[p] /\ NHeight(b) = NHeight(p) + 1
<1>1. p \in ZcBranch[b] /\ b \notin ZcBranch[p]
  BY ZcTree
<1>2. IsFiniteSet(ZcBranch[p]) /\ Cardinality(ZcBranch[p]) \in Nat
  BY ZcTree, FS_CardinalityType
<1>3. Cardinality(ZcBranch[b]) = Cardinality(ZcBranch[p]) + 1
  BY <1>1, <1>2, FS_AddElement
<1> QED BY <1>1, <1>2, <1>3 DEF NHeight

\* Of a branch there is one block at each height.
LEMMA SameHeight ==
    ASSUME NEW b \in ZcBlocks, NEW c \in ZcBranch[b], NEW d \in ZcBranch[b],
           NHeight(c) = NHeight(d)
    PROVE  c = d
<1>1. c \in ZcBlocks /\ d \in ZcBlocks
  BY ZcTree
<1>2. c \in ZcBranch[d] \/ d \in ZcBranch[c]
  BY ZcTree
<1> QED BY <1>1, <1>2, Heights

LEMMA ParentOf ==
    ASSUME NEW b \in ZcBlocks \ {ZcGenesis}
    PROVE  /\ ZcParent(b) \in ZcBranch[b] /\ ZcParent(b) \in ZcBlocks
           /\ ZcBranch[b] = ZcBranch[ZcParent(b)] \cup {b}
           /\ b \notin ZcBranch[ZcParent(b)]
           /\ NHeight(b) = NHeight(ZcParent(b)) + 1
<1>1. PICK p \in ZcBranch[b] : b # p /\ ZcBranch[b] = ZcBranch[p] \cup {b}
  BY ZcTree
<1>2. p \in ZcBlocks /\ b \notin ZcBranch[p] /\ NHeight(b) = NHeight(p) + 1
  BY <1>1, OneHigher, ZcTree
<1>3. NHeight(p) \in Nat /\ NHeight(b) \in Nat
  BY <1>2, Heights
<1>4. NHeight(p) = NHeight(b) - 1
  BY <1>2, <1>3
<1>5. ZcParent(b) = p
  BY <1>1, <1>4, SameHeight DEF ZcParent
<1> QED BY <1>1, <1>2, <1>5

LEMMA NextInBranch ==
    ASSUME NEW top \in ZcBlocks, NEW b \in ZcBranch[top], b # top
    PROVE  /\ NextOn(top, b) \in ZcBranch[top]
           /\ ZcBranch[NextOn(top, b)] = ZcBranch[b] \cup {NextOn(top, b)}
           /\ NextOn(top, b) \notin ZcBranch[b]
<1>1. PICK d \in ZcBranch[top] : d # b /\ ZcBranch[d] = ZcBranch[b] \cup {d}
  BY ZcTree
<1>2. b \in ZcBlocks /\ d \in ZcBlocks
  BY ZcTree
<1>3. d \notin ZcBranch[b] /\ NHeight(d) = NHeight(b) + 1
  BY <1>1, <1>2, OneHigher
<1>4. NextOn(top, b) = d
  BY <1>1, <1>3, SameHeight DEF NextOn
<1> QED BY <1>1, <1>3, <1>4

\* Who is in a branch has its branch in it.
LEMMA LowerInBranch ==
    ASSUME NEW b \in ZcBlocks, NEW c \in ZcBranch[b]
    PROVE  c \in ZcBlocks /\ ZcBranch[c] \subseteq ZcBranch[b] /\ c \in ZcBranch[c]
BY ZcTree

LEMMA ShownSerials ==
    ASSUME NEW b \in ZcBlocks
    PROVE  \A r \in Reveals[b] : r[1] \in ZcTxs /\ r[2] \in Serials /\ r = <<r[1], r[2]>>
                                 /\ r[1] \in Makers(b) /\ r[2] \in Shown(b)
BY ZcReveals DEF Makers, Shown

-----------------------------------------------------------------------------
(* Types                                                                   *)

RecordTypes ==
    /\ refused \subseteq ZcBlocks
    /\ spends \in [Serials -> ZcTxs \cup {NotRecorded}]
    /\ txIndex \in [ZcTxs -> ZcBlocks \cup {NotRecorded}]
    /\ verifying \in {"no", "back", "again", "failed", "down"}
ZcTypeInv == ZcPlaces /\ RecordTypes

\* What is recorded of a block names a transaction of it.
LEMMA RecordedTypes ==
    ASSUME ZcTypeInv, NEW b \in ZcBlocks, NEW S \in SUBSET Shown(b), NEW T, RecordSpends(b, S, T)
    PROVE  /\ spends' \in [Serials -> ZcTxs \cup {NotRecorded}]
           /\ txIndex' \in [ZcTxs -> ZcBlocks \cup {NotRecorded}]
<1>1. ASSUME NEW s \in S
      PROVE  (CHOOSE t \in ZcTxs : <<t, s>> \in Reveals[b]) \in ZcTxs
  <2>1. \E t \in ZcTxs : <<t, s>> \in Reveals[b]
    BY ShownSerials DEF Shown
  <2> QED BY <2>1
<1>2. spends' \in [Serials -> ZcTxs \cup {NotRecorded}]
  BY <1>1 DEF RecordSpends, ZcTypeInv, RecordTypes
<1>3. txIndex' \in [ZcTxs -> ZcBlocks \cup {NotRecorded}]
  BY DEF RecordSpends, ZcTypeInv, RecordTypes
<1> QED BY <1>2, <1>3

LEMMA ErasedTypes ==
    ASSUME ZcTypeInv, NEW S, EraseSpends(S)
    PROVE  /\ spends' \in [Serials -> ZcTxs \cup {NotRecorded}]
           /\ txIndex' \in [ZcTxs -> ZcBlocks \cup {NotRecorded}]
BY DEF EraseSpends, ZcTypeInv, RecordTypes

\* A process that dies comes back with a block of its chain.
LEMMA DiesTypes ==
    ASSUME ZcTypeInv, Dies, spends' \in [Serials -> ZcTxs \cup {NotRecorded}],
           txIndex' \in [ZcTxs -> ZcBlocks \cup {NotRecorded}]
    PROVE  ZcTypeInv'
<1>1. zcFlushed \in ZcBranch[zcFlushed]
  BY ZcTree DEF ZcTypeInv, ZcPlaces
<1> QED BY <1>1 DEF Dies, ZcTypeInv, ZcPlaces, RecordTypes

LEMMA InitZcTypes == ZerocoinInit => ZcTypeInv
BY ZcTree DEF ZerocoinInit, ZcTypeInv, ZcPlaces, RecordTypes

LEMMA NextZcTypes == ASSUME ZcTypeInv, [ZerocoinNext]_zcVars PROVE ZcTypeInv'
<1>0. /\ zcTip \in ZcBlocks /\ zcFlushed \in ZcBlocks /\ pindexState \in ZcBlocks
      /\ zcFlushed \in ZcBranch[zcTip]
      /\ \A b \in ZcBlocks : b \in ZcBranch[b]
  BY ZcTree DEF ZcTypeInv, ZcPlaces
<1>1. ASSUME NEW b \in ZcBlocks, ZcConnectTip(b) PROVE ZcTypeInv'
  <2>1. verifying = "no" /\ NotVerifying /\ b # ZcGenesis /\ ZcParent(b) = zcTip
    BY <1>1 DEF ZcConnectTip, Running
  <2>2. CASE zcTip' = b /\ RecordSpends(b, Shown(b), Makers(b)) /\ zcFlushed' \in {zcFlushed, b}
             /\ UNCHANGED refused
    <3>1. ZcBranch[b] = ZcBranch[zcTip] \cup {b}
      BY <2>1, ParentOf
    <3>2. /\ spends' \in [Serials -> ZcTxs \cup {NotRecorded}]
          /\ txIndex' \in [ZcTxs -> ZcBlocks \cup {NotRecorded}]
      <4>1. Shown(b) \in SUBSET Shown(b)
        OBVIOUS
      <4> QED BY <2>2, <4>1, RecordedTypes
    <3> QED BY <1>0, <2>1, <2>2, <3>1, <3>2 DEF NotVerifying, ZcTypeInv, ZcPlaces, RecordTypes
  <2>3. CASE refused' = refused \cup {b} /\ UNCHANGED <<zcTip, zcFlushed, spends, txIndex>>
    BY <2>1, <2>3 DEF NotVerifying, ZcTypeInv, ZcPlaces, RecordTypes
  <2> QED BY <1>1, <2>2, <2>3 DEF ZcConnectTip
<1>2. ASSUME ZcDisconnectTip PROVE ZcTypeInv'
  <2>1. zcTip' \in ZcBlocks /\ zcFlushed' = zcTip' /\ EraseSpends(Shown(zcTip))
        /\ verifying = "no" /\ UNCHANGED refused /\ NotVerifying
    BY <1>0, <1>2, ParentOf DEF ZcDisconnectTip, Running
  <2> QED BY <1>0, <2>1, ErasedTypes DEF NotVerifying, ZcTypeInv, ZcPlaces, RecordTypes
<1>3. ASSUME ZcFlush PROVE ZcTypeInv'
  BY <1>0, <1>3 DEF ZcFlush, NotVerifying, ZcTypeInv, ZcPlaces, RecordTypes
<1>4. ASSUME NEW from \in {"start", "rpc"}, VerifyDB(from), UNCHANGED <<zcChain, txIndex>>,
             spends' \in [Serials -> ZcTxs \cup {NotRecorded}]
      PROVE  ZcTypeInv'
  BY <1>0, <1>4 DEF VerifyDB, zcChain, ZcTypeInv, ZcPlaces, RecordTypes
<1>5. ASSUME ZcRestart \/ VerifyChain PROVE ZcTypeInv'
  BY <1>4, <1>5 DEF ZcRestart, VerifyChain, ZcTypeInv, RecordTypes
<1>6. ASSUME ZcReindex PROVE ZcTypeInv'
  <2> DEFINE t(s) == {u \in ZcTxs : \E b \in ZcBranch[zcTip] : <<u, s>> \in Reveals[b]}
  <2>1. spends' = [s \in Serials |-> IF t(s) = {} THEN NotRecorded ELSE CHOOSE u \in t(s) : TRUE]
    BY <1>6 DEF ZcReindex
  <2>2. \A s \in Serials : t(s) \subseteq ZcTxs
    OBVIOUS
  <2> HIDE DEF t
  <2>3. \A s \in Serials : t(s) # {} => (CHOOSE u \in t(s) : TRUE) \in ZcTxs
    BY <2>2
  <2>4. spends' \in [Serials -> ZcTxs \cup {NotRecorded}]
    BY <2>1, <2>3
  <2> QED BY <1>4, <1>6, <2>4 DEF ZcReindex
<1>7. ASSUME VerifyDisconnect PROVE ZcTypeInv'
  <2>1. /\ pindexState # ZcGenesis /\ EraseSpends(Shown(pindexState))
        /\ pindexState' = ZcParent(pindexState) /\ verifying = "back"
        /\ UNCHANGED <<zcChain, verifying, caller>>
    BY <1>7 DEF VerifyDisconnect, Deep
  <2>2. pindexState' \in ZcBranch[pindexState] /\ pindexState' \in ZcBlocks
    BY <1>0, <2>1, ParentOf
  <2>3. pindexState' \in ZcBranch[zcTip]
    BY <1>0, <2>1, <2>2, LowerInBranch DEF ZcTypeInv, ZcPlaces
  <2> QED BY <2>1, <2>2, <2>3, ErasedTypes DEF zcChain, ZcTypeInv, ZcPlaces, RecordTypes
<1>8. ASSUME VerifyTurn \/ VerifyEnd PROVE ZcTypeInv'
  BY <1>8 DEF VerifyTurn, VerifyEnd, zcChain, ZcTypeInv, ZcPlaces, RecordTypes
<1>9. ASSUME VerifyConnect PROVE ZcTypeInv'
  <2> DEFINE b == NextOn(zcTip, pindexState)
  <2>1. pindexState \in ZcBranch[zcTip] /\ pindexState # zcTip /\ verifying = "again"
        /\ UNCHANGED <<zcChain, caller>>
    BY <1>9 DEF VerifyConnect, ZcTypeInv, ZcPlaces
  <2>2. b \in ZcBranch[zcTip] /\ b \in ZcBlocks
    BY <1>0, <2>1, NextInBranch, LowerInBranch
  <2>3. CASE RecordSpends(b, Shown(b), Makers(b)) /\ pindexState' = b /\ UNCHANGED verifying
    <3>1. /\ spends' \in [Serials -> ZcTxs \cup {NotRecorded}]
          /\ txIndex' \in [ZcTxs -> ZcBlocks \cup {NotRecorded}]
      <4>1. Shown(b) \in SUBSET Shown(b)
        OBVIOUS
      <4> QED BY <2>2, <2>3, <4>1, RecordedTypes
    <3> HIDE DEF b
    <3> QED BY <2>1, <2>2, <2>3, <3>1 DEF zcChain, ZcTypeInv, ZcPlaces, RecordTypes
  <2>4. CASE verifying' = "failed" /\ UNCHANGED <<spends, txIndex, pindexState>>
    BY <2>1, <2>4 DEF zcChain, ZcTypeInv, ZcPlaces, RecordTypes
  <2> QED BY <1>9, <2>3, <2>4 DEF VerifyConnect
<1>10. ASSUME VerifyShutdown PROVE ZcTypeInv'
  BY <1>0, <1>10 DEF VerifyShutdown, ZcTypeInv, ZcPlaces, RecordTypes
<1>11. ASSUME ZcCrash PROVE ZcTypeInv'
  BY <1>11, DiesTypes DEF ZcCrash, ZcTypeInv, RecordTypes
<1>12. ASSUME CrashConnecting PROVE ZcTypeInv'
  <2>1. PICK b \in ZcBlocks : \E S \in SUBSET Shown(b) : RecordSpends(b, S, {})
    BY <1>12 DEF CrashConnecting
  <2>2. PICK S \in SUBSET Shown(b) : RecordSpends(b, S, {})
    BY <2>1
  <2> QED BY <1>12, <2>2, RecordedTypes, DiesTypes DEF CrashConnecting
<1>13. ASSUME CrashDisconnecting PROVE ZcTypeInv'
  <2>1. PICK b \in ZcBlocks : \E S \in SUBSET Shown(b) : EraseSpends(S)
    BY <1>13 DEF CrashDisconnecting
  <2>2. PICK S : EraseSpends(S)
    BY <2>1
  <2> QED BY <1>13, <2>2, ErasedTypes, DiesTypes DEF CrashDisconnecting
<1>14. CASE UNCHANGED zcVars
  BY <1>14 DEF zcVars, ZcTypeInv, ZcPlaces, RecordTypes
<1> QED BY <1>1, <1>2, <1>3, <1>5, <1>6, <1>7, <1>8, <1>9, <1>10, <1>11, <1>12, <1>13, <1>14
        DEF ZerocoinNext

\* However a verification or a process ends, the tips and the block that VerifyDB
\* is at are blocks, and a record names a transaction.
THEOREM ZerocoinTypeCorrect == ZerocoinSpec => []ZerocoinTypeOK
<1>1. ZcTypeInv /\ [ZerocoinNext]_zcVars => ZcTypeInv'
  BY NextZcTypes
<1>2. ZcTypeInv => ZerocoinTypeOK
  BY DEF ZcTypeInv, ZcPlaces, RecordTypes, ZerocoinTypeOK
<1> QED BY InitZcTypes, <1>1, <1>2, PTL DEF ZerocoinSpec

-----------------------------------------------------------------------------
(* The index                                                               *)

\* The index knows the transactions of the chain.
AllIndexed == \A b \in ZcBranch[zcTip] : \A t \in Makers(b) : txIndex[t] = b
IndexInv == ZcTypeInv /\ AllIndexed

LEMMA BlocksOfChain ==
    ASSUME ZcTypeInv
    PROVE  zcTip \in ZcBlocks /\ \A c \in ZcBranch[zcTip] : c \in ZcBlocks
BY LowerInBranch DEF ZcTypeInv, ZcPlaces

\* The index, when the transactions T of b, all or none, were entered.
LEMMA IndexAfter ==
    ASSUME IndexInv, NEW b \in ZcBlocks, NEW S, NEW T \in {{}, Makers(b)},
           EraseSpends(S) \/ RecordSpends(b, S, T),
           NEW c \in ZcBranch[zcTip], T = {} \/ Makers(b) \cap Makers(c) = {} \/ b = c
    PROVE  \A t \in Makers(c) : txIndex'[t] = c
<1>1. \A t \in Makers(c) : t \in ZcTxs /\ txIndex[t] = c
  BY BlocksOfChain, ZcReveals DEF IndexInv, AllIndexed, Makers
<1> QED BY <1>1 DEF EraseSpends, RecordSpends

\* A block that was put on its parent repeats no transaction.
LEMMA NewTransactions ==
    ASSUME IndexInv, verifying = "no", NEW b \in ZcBlocks, SpendsOK(b),
           NEW c \in ZcBranch[zcTip]
    PROVE  Makers(b) \cap Makers(c) = {}
<1>1. \A t \in Makers(c) : IsTransactionInChain(t)
  BY DEF IndexInv, AllIndexed, IsTransactionInChain
<1> QED BY <1>1 DEF SpendsOK, Makers

\* What VerifyConnect does to the next block of the chain.
LEMMA NextOfChain ==
    ASSUME IndexInv, VerifyConnect, NEW b, b = NextOn(zcTip, pindexState)
    PROVE  /\ verifying = "again" /\ b \in ZcBranch[zcTip] /\ b \in ZcBlocks
           /\ ZcBranch[b] = ZcBranch[pindexState] \cup {b}
           /\ ZcBranch[b] \subseteq ZcBranch[zcTip] /\ b \notin ZcBranch[pindexState]
           /\ UNCHANGED <<zcTip, zcFlushed, refused, caller>>
           /\ \/ /\ RecordSpends(b, Shown(b), Makers(b)) /\ pindexState' = b
                 /\ UNCHANGED verifying
              \/ /\ ~SpendsOK(b) /\ verifying' = "failed"
                 /\ UNCHANGED <<spends, txIndex, pindexState>>
<1>1. pindexState \in ZcBranch[zcTip] /\ pindexState # zcTip /\ zcTip \in ZcBlocks
  BY DEF VerifyConnect, IndexInv, ZcTypeInv, ZcPlaces
<1>2. /\ b \in ZcBranch[zcTip] /\ ZcBranch[b] = ZcBranch[pindexState] \cup {b}
      /\ b \notin ZcBranch[pindexState]
  BY <1>1, NextInBranch
<1>3. b \in ZcBlocks /\ ZcBranch[b] \subseteq ZcBranch[zcTip]
  BY <1>1, <1>2, LowerInBranch
<1> QED BY <1>2, <1>3 DEF VerifyConnect, zcChain

LEMMA InitIndex == ZerocoinInit => IndexInv
<1>1. ZerocoinInit => AllIndexed
  BY ZcTree, ZcReveals DEF ZerocoinInit, AllIndexed, Makers
<1> QED BY <1>1, InitZcTypes DEF IndexInv

LEMMA NextIndex == ASSUME IndexInv, [ZerocoinNext]_zcVars PROVE IndexInv'
<1>1. ZcTypeInv'
  BY NextZcTypes DEF IndexInv
<1>2. ASSUME NEW b \in ZcBlocks, ZcConnectTip(b) PROVE AllIndexed'
  <2>1. /\ verifying = "no" /\ ZcBranch[b] = ZcBranch[zcTip] \cup {b}
    BY <1>2, ParentOf DEF ZcConnectTip, Running
  <2>2. CASE SpendsOK(b) /\ zcTip' = b /\ RecordSpends(b, Shown(b), Makers(b))
    <3>1. ASSUME NEW c \in ZcBranch[zcTip] PROVE \A t \in Makers(c) : txIndex'[t] = c
      <4>1. Makers(b) \cap Makers(c) = {}
        BY <2>1, <2>2, NewTransactions
      <4>2. Makers(b) \in {{}, Makers(b)}
        OBVIOUS
      <4> QED BY <2>2, <4>1, <4>2, IndexAfter
    <3>2. \A t \in Makers(b) : t \in ZcTxs
      BY ZcReveals DEF Makers
    <3>3. \A t \in Makers(b) : txIndex'[t] = b
      BY <2>2, <3>2 DEF RecordSpends
    <3> QED BY <2>1, <2>2, <3>1, <3>3 DEF AllIndexed
  <2>3. CASE UNCHANGED <<zcTip, zcFlushed, spends, txIndex>>
    BY <2>3 DEF IndexInv, AllIndexed
  <2> QED BY <1>2, <2>2, <2>3 DEF ZcConnectTip
<1>3. ASSUME ZcDisconnectTip PROVE AllIndexed'
  <2>1. /\ zcTip' = ZcParent(zcTip) /\ zcTip \in ZcBlocks \ {ZcGenesis} /\ UNCHANGED txIndex
    BY <1>3, BlocksOfChain DEF ZcDisconnectTip, EraseSpends, IndexInv
  <2>2. ZcBranch[zcTip'] \subseteq ZcBranch[zcTip]
    BY <2>1, ParentOf
  <2> QED BY <2>1, <2>2 DEF IndexInv, AllIndexed
<1>4. ASSUME VerifyConnect PROVE AllIndexed'
  <2>1. PICK b : b = NextOn(zcTip, pindexState)
    OBVIOUS
  <2>2. CASE RecordSpends(b, Shown(b), Makers(b))
    <3>1. b \in ZcBlocks /\ b \in ZcBranch[zcTip] /\ UNCHANGED zcTip
      BY <1>4, <2>1, NextOfChain
    <3>2. ASSUME NEW c \in ZcBranch[zcTip] PROVE \A t \in Makers(c) : txIndex'[t] = c
      <4>1. Makers(b) \cap Makers(c) = {} \/ b = c
        BY <3>1 DEF IndexInv, AllIndexed
      <4>2. Makers(b) \in {{}, Makers(b)}
        OBVIOUS
      <4> QED BY <2>2, <3>1, <4>1, <4>2, IndexAfter
    <3> QED BY <3>1, <3>2 DEF AllIndexed
  <2>3. CASE UNCHANGED <<spends, txIndex, pindexState>>
    BY <1>4, <2>1, <2>3, NextOfChain DEF IndexInv, AllIndexed
  <2> QED BY <1>4, <2>1, <2>2, <2>3, NextOfChain
<1>5. ASSUME ZcCrash \/ CrashConnecting \/ CrashDisconnecting PROVE AllIndexed'
  <2>1. ZcBranch[zcTip'] \subseteq ZcBranch[zcTip]
    BY <1>5, LowerInBranch
       DEF ZcCrash, CrashConnecting, CrashDisconnecting, Dies, IndexInv, ZcTypeInv, ZcPlaces
  <2>2. ASSUME NEW c \in ZcBranch[zcTip] PROVE \A t \in Makers(c) : txIndex'[t] = c
    <3>1. CASE ZcCrash
      BY <3>1 DEF ZcCrash, IndexInv, AllIndexed
    <3>2. ASSUME NEW b \in ZcBlocks, NEW S, EraseSpends(S) \/ RecordSpends(b, S, {})
          PROVE  \A t \in Makers(c) : txIndex'[t] = c
      BY <3>2, IndexAfter
    <3>3. CASE CrashConnecting
      <4>1. PICK b \in ZcBlocks : \E S \in SUBSET Shown(b) : RecordSpends(b, S, {})
        BY <3>3 DEF CrashConnecting
      <4> QED BY <3>2, <4>1
    <3>4. CASE CrashDisconnecting
      <4>1. PICK b \in ZcBlocks : \E S \in SUBSET Shown(b) : EraseSpends(S)
        BY <3>4 DEF CrashDisconnecting
      <4> QED BY <3>2, <4>1
    <3> QED BY <1>5, <3>1, <3>3, <3>4
  <2> QED BY <2>1, <2>2 DEF AllIndexed
<1>6. ASSUME ZcFlush \/ ZcRestart \/ ZcReindex \/ VerifyChain PROVE AllIndexed'
  BY <1>6 DEF ZcFlush, ZcRestart, ZcReindex, VerifyChain, zcChain, IndexInv, AllIndexed
<1>7. ASSUME VerifyDisconnect \/ VerifyTurn \/ VerifyEnd \/ VerifyShutdown PROVE AllIndexed'
  BY <1>7 DEF VerifyDisconnect, VerifyTurn, VerifyEnd, VerifyShutdown, EraseSpends, zcChain,
              IndexInv, AllIndexed
<1>8. ASSUME UNCHANGED zcVars PROVE AllIndexed'
  BY <1>8 DEF zcVars, IndexInv, AllIndexed
<1> QED BY <1>1, <1>2, <1>3, <1>4, <1>5, <1>6, <1>7, <1>8 DEF ZerocoinNext, IndexInv

-----------------------------------------------------------------------------
(* Who is refused                                                          *)

\* Entries come from blocks.
Genuine ==
    /\ \A s \in Serials : spends[s] # NotRecorded =>
          \E b \in ZcBlocks : <<spends[s], s>> \in Reveals[b]
    /\ \A t \in ZcTxs : txIndex[t] # NotRecorded =>
          txIndex[t] \in ZcBlocks /\ t \in Makers(txIndex[t])

\* What VerifyDB has taken off and not put on again has no records of its own.
TakenOff ==
    verifying \in {"back", "again"} =>
        \A b \in ZcBranch[zcTip] \ ZcBranch[pindexState] :
            \A r \in Reveals[b] : spends[r[2]] # r[1]

JInv == Genuine /\ TakenOff /\ OnlyRepeatsRefused

\* A serial that is found in the chain was revealed by the block the index names.
LEMMA FoundInChain ==
    ASSUME ZcTypeInv, Genuine, NEW s \in Serials, IsSerialInBlockchain(s)
    PROVE  /\ spends[s] \in ZcTxs /\ txIndex[spends[s]] \in ZcBranch[zcTip]
           /\ <<spends[s], s>> \in Reveals[txIndex[spends[s]]]
           /\ s \in Shown(txIndex[spends[s]])
<1>1. spends[s] # NotRecorded /\ txIndex[spends[s]] \in ZcBranch[zcTip]
  BY DEF IsSerialInBlockchain, IsTransactionInChain
<1>2. PICK b \in ZcBlocks : <<spends[s], s>> \in Reveals[b]
  BY <1>1 DEF Genuine
<1>3. spends[s] \in ZcTxs
  BY <1>2, ZcReveals
<1>4. txIndex[spends[s]] \in ZcBlocks
  BY <1>1, BlocksOfChain
<1>5. spends[s] \in Makers(txIndex[spends[s]])
  BY <1>3, <1>4, ZcReveals DEF Genuine
<1>6. PICK q \in Reveals[txIndex[spends[s]]] : q[1] = spends[s]
  BY <1>5 DEF Makers
<1>7. <<spends[s], s>> \in Reveals[txIndex[spends[s]]]
  BY <1>2, <1>4, <1>6, ZcReveals
<1>8. s \in Shown(txIndex[spends[s]])
  BY <1>7 DEF Shown
<1> QED BY <1>1, <1>3, <1>7, <1>8

\* A block on the tip that is refused repeats something of its branch.
LEMMA RefusedRepeats ==
    ASSUME ZcTypeInv, Genuine, Running, NEW b \in ZcBlocks \ {ZcGenesis}, ZcParent(b) = zcTip,
           ~SpendsOK(b)
    PROVE  Repeats(b)
<1>1. ZcBranch[b] = ZcBranch[zcTip] \cup {b} /\ b \notin ZcBranch[zcTip]
  BY ParentOf
<1>2. PICK r \in Reveals[b] : IsTransactionInChain(r[1]) \/ IsSerialInBlockchain(r[2])
  BY DEF SpendsOK, Running
<1>3. r[1] \in ZcTxs /\ r[2] \in Serials /\ r[1] \in Makers(b) /\ r[2] \in Shown(b)
  BY ShownSerials
<1>4. CASE IsTransactionInChain(r[1])
  <2>1. txIndex[r[1]] \in ZcBranch[zcTip] /\ txIndex[r[1]] \in ZcBlocks
    BY <1>4, BlocksOfChain DEF IsTransactionInChain
  <2>2. r[1] \in Makers(txIndex[r[1]])
    BY <1>3, <2>1, ZcReveals DEF Genuine
  <2> QED BY <1>1, <1>3, <2>1, <2>2 DEF Repeats
<1>5. CASE IsSerialInBlockchain(r[2])
  BY <1>1, <1>3, <1>5, FoundInChain DEF Repeats
<1> QED BY <1>2, <1>4, <1>5

\* Where VerifyDB cannot put a block on again, a block of the chain repeats another.
LEMMA NotPutOnAgain ==
    ASSUME IndexInv, JInv, VerifyConnect, verifying' = "failed"
    PROVE  \E b \in ZcBranch[zcTip] : Repeats(b)
<1>1. PICK b : b = NextOn(zcTip, pindexState)
  OBVIOUS
<1>2. /\ verifying = "again" /\ ~SpendsOK(b)
      /\ b \in ZcBranch[zcTip] /\ b \notin ZcBranch[pindexState] /\ b \in ZcBlocks
  BY <1>1, NextOfChain
<1>3. PICK r \in Reveals[b] :
          \/ IsTransactionInChain(r[1]) /\ ~(NHeight(b) <= NHeight(txIndex[r[1]]))
          \/ IsSerialInBlockchain(r[2])
  BY <1>2 DEF SpendsOK
<1>4. r[1] \in ZcTxs /\ r[2] \in Serials /\ r[1] \in Makers(b) /\ r[2] \in Shown(b)
      /\ r = <<r[1], r[2]>>
  BY <1>2, ShownSerials
<1>5. txIndex[r[1]] = b /\ NHeight(b) <= NHeight(b)
  BY <1>2, <1>4, Heights DEF IndexInv, AllIndexed
<1>6. IsSerialInBlockchain(r[2])
  BY <1>3, <1>5
<1>7. PICK c : c = txIndex[spends[r[2]]]
  OBVIOUS
<1>8. /\ c \in ZcBranch[zcTip] /\ c \in ZcBlocks /\ zcTip \in ZcBlocks
      /\ <<spends[r[2]], r[2]>> \in Reveals[c] /\ r[2] \in Shown(c)
  BY <1>4, <1>6, <1>7, FoundInChain, BlocksOfChain DEF IndexInv, JInv
<1>9. c # b
  <2>1. spends[r[2]] # r[1]
    BY <1>2 DEF JInv, TakenOff
  <2>2. <<spends[r[2]], r[2]>> \in Reveals[b] => <<spends[r[2]], r[2]>> = r
    BY <1>2, ZcReveals
  <2> QED BY <1>4, <1>8, <2>1, <2>2
<1>10. c \in ZcBranch[b] \/ b \in ZcBranch[c]
  BY <1>2, <1>8, ZcTree
<1>11. Shown(b) \cap Shown(c) # {} /\ Shown(c) \cap Shown(b) # {}
  BY <1>4, <1>8
<1>12. Repeats(b) \/ Repeats(c)
  BY <1>9, <1>10, <1>11 DEF Repeats
<1> QED BY <1>2, <1>8, <1>12

\* Entries that are written come from their block, erased ones from none.
LEMMA GenuineAfter ==
    ASSUME Genuine, NEW b \in ZcBlocks, NEW S \in SUBSET Shown(b), NEW T \in SUBSET Makers(b),
           EraseSpends(S) \/ RecordSpends(b, S, T)
    PROVE  Genuine'
<1>1. ASSUME NEW s \in Serials, spends'[s] # NotRecorded
      PROVE  \E c \in ZcBlocks : <<spends'[s], s>> \in Reveals[c]
  <2>1. CASE spends'[s] = spends[s]
    BY <1>1, <2>1 DEF Genuine
  <2>2. CASE s \in S /\ RecordSpends(b, S, T)
    <3>1. spends'[s] = CHOOSE t \in ZcTxs : <<t, s>> \in Reveals[b]
      BY <2>2 DEF RecordSpends
    <3>2. PICK r \in Reveals[b] : r[2] = s
      BY <2>2 DEF Shown
    <3>3. r[1] \in ZcTxs /\ <<r[1], s>> \in Reveals[b]
      BY <3>2, ShownSerials
    <3>4. <<spends'[s], s>> \in Reveals[b]
      BY <3>1, <3>3
    <3> QED BY <3>4
  <2> QED BY <1>1, <2>1, <2>2 DEF EraseSpends, RecordSpends
<1>2. ASSUME NEW t \in ZcTxs, txIndex'[t] # NotRecorded
      PROVE  txIndex'[t] \in ZcBlocks /\ t \in Makers(txIndex'[t])
  BY <1>2 DEF Genuine, EraseSpends, RecordSpends
<1> QED BY <1>1, <1>2 DEF Genuine

\* Steps that leave the refused blocks and do not fail.
LEMMA RefusedKept ==
    ASSUME OnlyRepeatsRefused, UNCHANGED refused, verifying' # "failed"
    PROVE  OnlyRepeatsRefused'
BY DEF OnlyRepeatsRefused

LEMMA ChainStepJ ==
    ASSUME IndexInv, JInv, (\E b \in ZcBlocks : ZcConnectTip(b)) \/ ZcDisconnectTip \/ ZcFlush
    PROVE  JInv'
<1>1. CASE \E b \in ZcBlocks : ZcConnectTip(b)
  <2>1. PICK b \in ZcBlocks : ZcConnectTip(b)
    BY <1>1
  <2>2. /\ Running /\ verifying' = "no" /\ b # ZcGenesis /\ ZcParent(b) = zcTip
    BY <2>1 DEF ZcConnectTip, NotVerifying, Running
  <2>3. CASE RecordSpends(b, Shown(b), Makers(b)) /\ UNCHANGED refused
    <3>1. Shown(b) \in SUBSET Shown(b) /\ Makers(b) \in SUBSET Makers(b)
      OBVIOUS
    <3>2. Genuine'
      BY <2>3, <3>1, GenuineAfter DEF JInv
    <3> QED BY <2>2, <2>3, <3>2, RefusedKept DEF JInv, TakenOff
  <2>4. CASE /\ ~SpendsOK(b) /\ refused' = refused \cup {b}
             /\ UNCHANGED <<zcTip, zcFlushed, spends, txIndex>>
    <3>1. Repeats(b)
      BY <2>2, <2>4, RefusedRepeats DEF JInv, IndexInv
    <3>2. OnlyRepeatsRefused'
      BY <2>2, <2>4, <3>1 DEF JInv, OnlyRepeatsRefused
    <3> QED BY <2>2, <2>4, <3>2 DEF JInv, TakenOff, Genuine
  <2> QED BY <2>1, <2>3, <2>4 DEF ZcConnectTip
<1>2. CASE ZcDisconnectTip
  <2>1. /\ verifying' = "no" /\ UNCHANGED refused /\ EraseSpends(Shown(zcTip))
        /\ zcTip \in ZcBlocks
    BY <1>2, BlocksOfChain DEF ZcDisconnectTip, NotVerifying, Running, IndexInv
  <2>2. Shown(zcTip) \in SUBSET Shown(zcTip) /\ {} \in SUBSET Makers(zcTip)
    OBVIOUS
  <2>3. Genuine'
    BY <2>1, <2>2, GenuineAfter DEF JInv
  <2> QED BY <2>1, <2>3, RefusedKept DEF JInv, TakenOff
<1>3. CASE ZcFlush
  BY <1>3, RefusedKept DEF ZcFlush, NotVerifying, Running, JInv, TakenOff, Genuine
<1> QED BY <1>1, <1>2, <1>3

LEMMA VerifyStepJ ==
    ASSUME IndexInv, JInv,
           \/ ZcRestart \/ ZcReindex \/ VerifyChain
           \/ VerifyDisconnect \/ VerifyTurn \/ VerifyConnect \/ VerifyEnd \/ VerifyShutdown
    PROVE  JInv'
<1>1. CASE ZcRestart \/ VerifyChain
  BY <1>1, RefusedKept DEF ZcRestart, VerifyChain, VerifyDB, zcChain, JInv, TakenOff, Genuine
<1>2. CASE ZcReindex
  <2>1. /\ pindexState' = zcTip /\ verifying' # "failed"
        /\ UNCHANGED <<zcTip, refused, txIndex>>
    BY <1>2 DEF ZcReindex, VerifyDB, zcChain
  <2>2. ASSUME NEW s \in Serials, spends'[s] # NotRecorded
        PROVE  \E b \in ZcBlocks : <<spends'[s], s>> \in Reveals[b]
    <3> DEFINE t == {u \in ZcTxs : \E c \in ZcBranch[zcTip] : <<u, s>> \in Reveals[c]}
    <3>1. spends'[s] = IF t = {} THEN NotRecorded ELSE CHOOSE u \in t : TRUE
      BY <1>2 DEF ZcReindex
    <3>2. t # {} => (CHOOSE u \in t : TRUE) \in t
      OBVIOUS
    <3>3. spends'[s] \in t
      BY <2>2, <3>1, <3>2
    <3>4. \A c \in ZcBranch[zcTip] : c \in ZcBlocks
      BY BlocksOfChain DEF IndexInv
    <3> QED BY <3>3, <3>4
  <2>3. Genuine'
    BY <2>1, <2>2 DEF JInv, Genuine
  <2> QED BY <2>1, <2>3, RefusedKept DEF JInv, TakenOff
<1>3. CASE VerifyDisconnect
  <2>1. /\ verifying = "back" /\ verifying' = "back" /\ ~Deep
        /\ UNCHANGED <<zcTip, refused, txIndex>>
        /\ EraseSpends(Shown(pindexState)) /\ pindexState' = ZcParent(pindexState)
    BY <1>3 DEF VerifyDisconnect, zcChain, EraseSpends
  <2>2. pindexState \in ZcBlocks \ {ZcGenesis}
    BY <2>1 DEF Deep, IndexInv, ZcTypeInv, ZcPlaces
  <2>3. ZcBranch[pindexState] = ZcBranch[pindexState'] \cup {pindexState}
    BY <2>1, <2>2, ParentOf
  <2>4. Genuine'
    <3>1. Shown(pindexState) \in SUBSET Shown(pindexState) /\ {} \in SUBSET Makers(pindexState)
      OBVIOUS
    <3> QED BY <2>1, <2>2, <3>1, GenuineAfter DEF JInv
  <2>5. ASSUME NEW c \in ZcBranch[zcTip] \ ZcBranch[pindexState'], NEW r \in Reveals[c]
        PROVE  spends'[r[2]] # r[1]
    <3>1. r[1] \in ZcTxs /\ r[2] \in Serials /\ r[2] \in Shown(c)
      BY BlocksOfChain, ShownSerials DEF IndexInv
    <3>2. r[1] # NotRecorded
      BY <3>1, ZcReveals
    <3>3. c = pindexState \/ spends[r[2]] # r[1]
      BY <2>1, <2>3 DEF JInv, TakenOff
    <3> QED BY <2>1, <3>1, <3>2, <3>3 DEF EraseSpends
  <2>6. TakenOff'
    BY <2>1, <2>5 DEF TakenOff
  <2> QED BY <2>1, <2>4, <2>6, RefusedKept DEF JInv
<1>4. CASE VerifyConnect
  <2>1. PICK b : b = NextOn(zcTip, pindexState)
    OBVIOUS
  <2>2. /\ b \in ZcBlocks /\ b \in ZcBranch[zcTip] /\ verifying = "again"
        /\ ZcBranch[b] = ZcBranch[pindexState] \cup {b} /\ UNCHANGED <<zcTip, refused>>
    BY <1>4, <2>1, NextOfChain
  <2>3. CASE RecordSpends(b, Shown(b), Makers(b)) /\ pindexState' = b /\ UNCHANGED verifying
    <3>1. Genuine'
      <4>1. Shown(b) \in SUBSET Shown(b) /\ Makers(b) \in SUBSET Makers(b)
        OBVIOUS
      <4> QED BY <2>2, <2>3, <4>1, GenuineAfter DEF JInv
    <3>2. ASSUME NEW c \in ZcBranch[zcTip] \ ZcBranch[b], NEW r \in Reveals[c]
          PROVE  spends'[r[2]] # r[1]
      <4>1. r[1] \in ZcTxs /\ r[2] \in Serials /\ r = <<r[1], r[2]>> /\ r[1] \in Makers(c)
        BY BlocksOfChain, ShownSerials DEF IndexInv
      <4>2. spends[r[2]] # r[1] /\ c # b
        BY <2>2 DEF JInv, TakenOff
      <4>3. r[1] \notin Makers(b)
        BY <2>2, <4>1, <4>2 DEF IndexInv, AllIndexed
      <4>4. CASE r[2] \in Shown(b)
        <5>1. PICK q \in Reveals[b] : q[2] = r[2]
          BY <4>4 DEF Shown
        <5>2. q[1] \in ZcTxs /\ <<q[1], r[2]>> \in Reveals[b]
          BY <2>2, <5>1, ShownSerials
        <5>3. spends'[r[2]] = CHOOSE t \in ZcTxs : <<t, r[2]>> \in Reveals[b]
          BY <2>3, <4>1, <4>4 DEF RecordSpends
        <5>4. <<spends'[r[2]], r[2]>> \in Reveals[b]
          BY <5>2, <5>3
        <5>5. spends'[r[2]] \in Makers(b)
          BY <5>4 DEF Makers
        <5> QED BY <4>3, <5>5
      <4>5. CASE r[2] \notin Shown(b)
        BY <2>3, <4>1, <4>2, <4>5 DEF RecordSpends
      <4> QED BY <4>4, <4>5
    <3>3. TakenOff'
      BY <2>2, <2>3, <3>2 DEF TakenOff
    <3> QED BY <2>2, <2>3, <3>1, <3>3, RefusedKept DEF JInv
  <2>4. CASE verifying' = "failed" /\ UNCHANGED <<spends, txIndex, pindexState>>
    <3>1. \E c \in ZcBranch[zcTip] : Repeats(c)
      BY <1>4, <2>4, NotPutOnAgain
    <3> QED BY <2>2, <2>4, <3>1 DEF JInv, Genuine, TakenOff, OnlyRepeatsRefused
  <2> QED BY <1>4, <2>1, <2>3, <2>4, NextOfChain
<1>5. CASE VerifyTurn \/ VerifyEnd \/ VerifyShutdown
  BY <1>5, RefusedKept
     DEF VerifyTurn, VerifyEnd, VerifyShutdown, zcChain, JInv, TakenOff, Genuine
<1> QED BY <1>1, <1>2, <1>3, <1>4, <1>5

LEMMA CrashStepJ ==
    ASSUME JInv, ZcCrash \/ CrashConnecting \/ CrashDisconnecting
    PROVE  JInv'
<1>1. Dies
  BY DEF ZcCrash, CrashConnecting, CrashDisconnecting
<1>2. OnlyRepeatsRefused' /\ TakenOff'
  BY <1>1, RefusedKept DEF Dies, JInv, TakenOff
<1>3. ASSUME ZcCrash PROVE Genuine'
  BY <1>3 DEF ZcCrash, JInv, Genuine
<1>4. ASSUME CrashConnecting \/ CrashDisconnecting PROVE Genuine'
  <2>1. PICK b \in ZcBlocks :
            \E S \in SUBSET Shown(b) : EraseSpends(S) \/ RecordSpends(b, S, {})
    BY <1>4 DEF CrashConnecting, CrashDisconnecting
  <2>2. PICK S \in SUBSET Shown(b) : EraseSpends(S) \/ RecordSpends(b, S, {})
    BY <2>1
  <2>3. {} \in SUBSET Makers(b)
    OBVIOUS
  <2> QED BY <2>2, <2>3, GenuineAfter DEF JInv
<1> QED BY <1>2, <1>3, <1>4 DEF JInv

LEMMA InitJ == ZerocoinInit => JInv
BY ZcReveals DEF ZerocoinInit, JInv, Genuine, TakenOff, OnlyRepeatsRefused

LEMMA NextJ == ASSUME IndexInv, JInv, [ZerocoinNext]_zcVars PROVE JInv'
<1>1. CASE UNCHANGED zcVars
  BY <1>1 DEF zcVars, JInv, Genuine, TakenOff, OnlyRepeatsRefused, Repeats
<1> QED BY <1>1, ChainStepJ, VerifyStepJ, CrashStepJ DEF ZerocoinNext

\* Whatever was cut off before, records of blocks that were left speak against no
\* block, nor does a record of a block against that block: who is refused, or found
\* corrupt in VerifyDB, repeats a serial or a transaction of its branch.
THEOREM NoneRefusedForOldRecords == ZerocoinSpec => []OnlyRepeatsRefused
<1>1. IndexInv /\ [ZerocoinNext]_zcVars => IndexInv'
  BY NextIndex
<1>2. IndexInv /\ JInv /\ [ZerocoinNext]_zcVars => JInv'
  BY NextJ
<1>3. JInv => OnlyRepeatsRefused
  BY DEF JInv
<1> QED BY InitIndex, InitJ, <1>1, <1>2, <1>3, PTL DEF ZerocoinSpec

-----------------------------------------------------------------------------
(* The records                                                             *)

\* The records of the serials of a block are there.
Recorded(b) == \A r \in Reveals[b] : spends[r[2]] = r[1]

\* No serial comes twice in the chain.
Distinct ==
    \A b, c \in ZcBranch[zcTip] : Shown(b) \cap Shown(c) # {} => b = c

\* Which records are there, by what goes on.
Records ==
    /\ verifying = "no" => \A b \in ZcBranch[zcTip] : Recorded(b)
    /\ verifying = "down" => \A b \in ZcBranch[zcTip] : Deeper(b) => Recorded(b)
    /\ verifying = "back" =>
          \A b \in ZcBranch[pindexState] : caller = "rpc" \/ Deeper(b) => Recorded(b)
    /\ verifying = "again" => \A b \in ZcBranch[pindexState] : Recorded(b)

IInv == Distinct /\ Records

\* To erase or write the records of a block touches no block that shares no
\* serial with it.
LEMMA OthersKept ==
    ASSUME NEW b \in ZcBlocks, NEW c \in ZcBlocks, NEW S \in SUBSET Shown(b), NEW T,
           EraseSpends(S) \/ RecordSpends(b, S, T),
           Recorded(c), Shown(b) \cap Shown(c) = {}
    PROVE  Recorded(c)'
<1> SUFFICES ASSUME NEW r \in Reveals[c] PROVE spends'[r[2]] = r[1]
  BY DEF Recorded
<1>1. r[2] \in Serials /\ r[2] \in Shown(c)
  BY ShownSerials
<1>2. r[2] \notin S /\ spends[r[2]] = r[1]
  BY <1>1 DEF Recorded
<1> QED BY <1>1, <1>2 DEF EraseSpends, RecordSpends

\* Written records are there, all or, when they were, those that were.
LEMMA BlockRecorded ==
    ASSUME NEW b \in ZcBlocks, NEW S \in SUBSET Shown(b), NEW T, RecordSpends(b, S, T),
           S = Shown(b) \/ Recorded(b)
    PROVE  Recorded(b)'
<1> SUFFICES ASSUME NEW r \in Reveals[b] PROVE spends'[r[2]] = r[1]
  BY DEF Recorded
<1>1. r[1] \in ZcTxs /\ r[2] \in Serials /\ <<r[1], r[2]>> \in Reveals[b] /\ r[2] \in Shown(b)
  BY ShownSerials
<1>2. \A t \in ZcTxs : <<t, r[2]>> \in Reveals[b] => t = r[1]
  BY <1>1, ZcReveals
<1>3. (CHOOSE t \in ZcTxs : <<t, r[2]>> \in Reveals[b]) = r[1]
  BY <1>1, <1>2
<1>4. CASE r[2] \in S
  BY <1>1, <1>3, <1>4 DEF RecordSpends
<1>5. CASE r[2] \notin S
  BY <1>1, <1>5 DEF RecordSpends, Recorded
<1> QED BY <1>4, <1>5

\* A block that was put on its parent repeats no serial.
LEMMA NewSerials ==
    ASSUME IndexInv, IInv, verifying = "no", NEW b \in ZcBlocks, SpendsOK(b),
           NEW c \in ZcBranch[zcTip]
    PROVE  Shown(b) \cap Shown(c) = {}
<1>1. ASSUME NEW s \in Shown(c) PROVE IsSerialInBlockchain(s)
  <2>1. PICK r \in Reveals[c] : r[2] = s
    BY DEF Shown
  <2>2. r[1] \in ZcTxs /\ r[1] \in Makers(c)
    BY BlocksOfChain, ShownSerials DEF IndexInv
  <2>3. spends[s] = r[1] /\ txIndex[r[1]] = c
    BY <2>1, <2>2 DEF IInv, Records, Recorded, IndexInv, AllIndexed
  <2> QED BY <2>2, <2>3, ZcReveals DEF IsSerialInBlockchain, IsTransactionInChain
<1> QED BY <1>1 DEF SpendsOK, Shown

LEMMA InitRecords == ZerocoinInit => IInv
<1> SUFFICES ASSUME ZerocoinInit PROVE IInv
  OBVIOUS
<1>1. zcTip = ZcGenesis /\ ZcBranch[ZcGenesis] = {ZcGenesis} /\ Reveals[ZcGenesis] = {}
  BY ZcTree, ZcReveals DEF ZerocoinInit
<1> QED BY <1>1 DEF ZerocoinInit, IInv, Distinct, Records, Recorded

LEMMA ConnectStep ==
    ASSUME IndexInv, IInv, NEW b \in ZcBlocks, ZcConnectTip(b)
    PROVE  IInv'
<1>1. /\ verifying = "no" /\ verifying' = "no" /\ b # ZcGenesis /\ ZcParent(b) = zcTip
  BY DEF ZcConnectTip, Running, NotVerifying
<1>2. CASE SpendsOK(b) /\ zcTip' = b /\ RecordSpends(b, Shown(b), Makers(b))
  <2>1. ZcBranch[b] = ZcBranch[zcTip] \cup {b}
    BY <1>1, ParentOf
  <2>2. \A c \in ZcBranch[zcTip] : Shown(b) \cap Shown(c) = {} /\ c \in ZcBlocks
    BY <1>1, <1>2, NewSerials, BlocksOfChain DEF IndexInv
  <2>3. Distinct'
    <3>1. ASSUME NEW c \in ZcBranch[b], NEW d \in ZcBranch[b], Shown(c) \cap Shown(d) # {}
          PROVE  c = d
      BY <2>1, <2>2, <3>1 DEF IInv, Distinct
    <3> QED BY <1>2, <3>1 DEF Distinct
  <2>4. Recorded(b)'
    BY <1>2, BlockRecorded
  <2>5. ASSUME NEW c \in ZcBranch[zcTip] PROVE Recorded(c)'
    <3>1. Recorded(c)
      BY <1>1 DEF IInv, Records
    <3>2. Shown(b) \in SUBSET Shown(b)
      OBVIOUS
    <3> QED BY <1>2, <2>2, <3>1, <3>2, OthersKept
  <2> QED BY <1>1, <1>2, <2>1, <2>3, <2>4, <2>5 DEF IInv, Records
<1>3. CASE UNCHANGED <<zcTip, zcFlushed, spends, txIndex>>
  BY <1>1, <1>3 DEF IInv, Distinct, Records, Recorded
<1> QED BY <1>2, <1>3 DEF ZcConnectTip

LEMMA DisconnectStep == ASSUME IndexInv, IInv, ZcDisconnectTip PROVE IInv'
<1>1. /\ verifying = "no" /\ verifying' = "no" /\ zcTip \in ZcBlocks \ {ZcGenesis}
      /\ zcTip' = ZcParent(zcTip) /\ EraseSpends(Shown(zcTip))
  BY BlocksOfChain DEF ZcDisconnectTip, Running, NotVerifying, IndexInv
<1>2. ZcBranch[zcTip] = ZcBranch[zcTip'] \cup {zcTip} /\ zcTip \notin ZcBranch[zcTip']
  BY <1>1, ParentOf
<1>3. ASSUME NEW c \in ZcBranch[zcTip'] PROVE Recorded(c)'
  <2>1. Recorded(c) /\ c \in ZcBlocks
    BY <1>1, <1>2, BlocksOfChain DEF IndexInv, IInv, Records
  <2>2. Shown(zcTip) \cap Shown(c) = {}
    BY <1>2 DEF IInv, Distinct
  <2>3. Shown(zcTip) \in SUBSET Shown(zcTip)
    OBVIOUS
  <2> QED BY <1>1, <2>1, <2>2, <2>3, OthersKept
<1> QED BY <1>1, <1>2, <1>3 DEF IInv, Distinct, Records

\* VerifyDB is entered with the tip: verifychain, with all records there, or a
\* start, with the deeper ones.
LEMMA EnterVerify ==
    ASSUME IInv, NEW from \in {"start", "rpc"}, VerifyDB(from), UNCHANGED zcTip,
           \A b \in ZcBranch[zcTip] : from = "rpc" \/ Deeper(b) => Recorded(b)'
    PROVE  IInv'
<1>1. /\ caller' = from /\ pindexState' = zcTip
      /\ verifying' = IF zcTip = ZcGenesis THEN "no" ELSE "back"
  BY DEF VerifyDB
<1>2. zcTip = ZcGenesis => \A b \in ZcBranch[zcTip] : Recorded(b)'
  BY ZcTree, ZcReveals DEF Recorded
<1>3. Distinct'
  BY DEF IInv, Distinct
<1>4. Records'
  BY <1>1, <1>2 DEF Records, Deeper, NHeight
<1> QED BY <1>3, <1>4 DEF IInv

LEMMA RestartStep == ASSUME IInv, ZcRestart PROVE IInv'
<1>1. /\ verifying = "down" /\ VerifyDB("start") /\ UNCHANGED zcTip
      /\ \A b : Recorded(b)' <=> Recorded(b)
  BY DEF ZcRestart, zcChain, Recorded
<1> QED BY <1>1, EnterVerify DEF IInv, Records

LEMMA VerifyChainStep == ASSUME IInv, VerifyChain PROVE IInv'
<1>1. /\ verifying = "no" /\ VerifyDB("rpc") /\ UNCHANGED zcTip
      /\ \A b : Recorded(b)' <=> Recorded(b)
  BY DEF VerifyChain, Running, zcChain, Recorded
<1> QED BY <1>1, EnterVerify DEF IInv, Records

\* -reindexzerocoin makes all records again: of each serial there is one.
LEMMA ReindexStep == ASSUME IndexInv, IInv, ZcReindex PROVE IInv'
<1>1. ASSUME NEW b \in ZcBranch[zcTip] PROVE Recorded(b)'
  <2> SUFFICES ASSUME NEW r \in Reveals[b] PROVE spends'[r[2]] = r[1]
    BY DEF Recorded
  <2>1. b \in ZcBlocks
    BY BlocksOfChain DEF IndexInv
  <2>2. r[1] \in ZcTxs /\ r[2] \in Serials /\ r = <<r[1], r[2]>> /\ r[2] \in Shown(b)
    BY <2>1, ShownSerials
  <2> DEFINE t == {u \in ZcTxs : \E c \in ZcBranch[zcTip] : <<u, r[2]>> \in Reveals[c]}
  <2>3. spends'[r[2]] = IF t = {} THEN NotRecorded ELSE CHOOSE u \in t : TRUE
    BY <2>2 DEF ZcReindex
  <2>4. r[1] \in t
    BY <2>2
  <2>5. ASSUME NEW u \in t PROVE u = r[1]
    <3>1. PICK c \in ZcBranch[zcTip] : <<u, r[2]>> \in Reveals[c]
      OBVIOUS
    <3>2. r[2] \in Shown(c)
      BY <3>1 DEF Shown
    <3>3. c = b
      BY <2>2, <3>2 DEF IInv, Distinct
    <3> QED BY <2>1, <3>1, <3>3, ZcReveals
  <2>6. t = {r[1]}
    BY <2>4, <2>5
  <2> HIDE DEF t
  <2> QED BY <2>3, <2>6
<1>2. VerifyDB("start") /\ UNCHANGED zcTip
  BY DEF ZcReindex, zcChain
<1> QED BY <1>1, <1>2, EnterVerify

\* The records that go when VerifyDB takes off a block are those of no other
\* block of the chain.
LEMMA ErasedAtBlock ==
    ASSUME IndexInv, IInv, NEW b \in ZcBranch[zcTip], NEW S \in SUBSET Shown(b), EraseSpends(S),
           NEW c \in ZcBranch[zcTip], c # b, Recorded(c)
    PROVE  Recorded(c)'
<1>1. b \in ZcBlocks /\ c \in ZcBlocks
  BY BlocksOfChain DEF IndexInv
<1>2. Shown(b) \cap Shown(c) = {}
  BY DEF IInv, Distinct
<1> QED BY <1>1, <1>2, OthersKept

LEMMA VerifyDisconnectStep == ASSUME IndexInv, IInv, VerifyDisconnect PROVE IInv'
<1>1. /\ verifying = "back" /\ verifying' = "back" /\ UNCHANGED <<zcTip, caller>>
      /\ EraseSpends(Shown(pindexState)) /\ pindexState' = ZcParent(pindexState)
      /\ pindexState \in ZcBlocks \ {ZcGenesis} /\ pindexState \in ZcBranch[zcTip]
  BY DEF VerifyDisconnect, Deep, zcChain, IndexInv, ZcTypeInv, ZcPlaces
<1>2. /\ ZcBranch[pindexState] = ZcBranch[pindexState'] \cup {pindexState}
      /\ pindexState \notin ZcBranch[pindexState']
  BY <1>1, ParentOf
<1>3. ZcBranch[pindexState] \subseteq ZcBranch[zcTip]
  BY <1>1, LowerInBranch, BlocksOfChain DEF IndexInv
<1>4. ASSUME NEW c \in ZcBranch[pindexState'], Recorded(c) PROVE Recorded(c)'
  <2>1. Shown(pindexState) \in SUBSET Shown(pindexState)
    OBVIOUS
  <2> QED BY <1>1, <1>2, <1>3, <1>4, <2>1, ErasedAtBlock
<1> QED BY <1>1, <1>2, <1>4 DEF IInv, Distinct, Records, Deeper, NHeight

\* The first loop ends where all records under it are there.
LEMMA VerifyTurnStep == ASSUME IndexInv, IInv, VerifyTurn PROVE IInv'
<1>1. /\ verifying = "back" /\ Deep /\ verifying' = "again"
      /\ UNCHANGED <<zcTip, spends, pindexState>>
  BY DEF VerifyTurn, zcChain
<1>2. /\ pindexState \in ZcBlocks /\ pindexState \in ZcBranch[zcTip] /\ zcTip \in ZcBlocks
      /\ caller \in {"start", "rpc"}
  BY <1>1 DEF IndexInv, ZcTypeInv, ZcPlaces
<1>3. ASSUME NEW b \in ZcBranch[pindexState] PROVE Recorded(b)
  <2>1. CASE pindexState = ZcGenesis
    BY <1>3, <2>1, ZcTree, ZcReveals DEF Recorded
  <2>2. CASE caller = "rpc"
    BY <1>1, <1>3, <2>2 DEF IInv, Records
  <2>3. CASE pindexState # ZcGenesis /\ caller = "start"
    <3>1. NHeight(pindexState) < NHeight(zcTip) - CheckBlocks
      BY <1>1, <2>3 DEF Deep, CheckDepth
    <3>2. b \in ZcBlocks /\ NHeight(b) <= NHeight(pindexState)
      BY <1>2, <1>3, LowerInBranch, Heights
    <3>3. {NHeight(b), NHeight(pindexState), NHeight(zcTip), CheckBlocks} \subseteq Nat
      BY <1>2, <3>2, Heights, ZcDepths
    <3>4. Deeper(b)
      BY <3>1, <3>2, <3>3 DEF Deeper
    <3> QED BY <1>1, <3>4 DEF IInv, Records
  <2> QED BY <1>2, <2>1, <2>2, <2>3
<1> QED BY <1>1, <1>3 DEF IInv, Distinct, Records, Recorded

\* A block is put on again: its own records alone are written.
LEMMA VerifyConnectStep == ASSUME IndexInv, IInv, VerifyConnect PROVE IInv'
<1>1. PICK b : b = NextOn(zcTip, pindexState)
  OBVIOUS
<1>2. /\ verifying = "again" /\ b \in ZcBlocks /\ b \in ZcBranch[zcTip] /\ UNCHANGED zcTip
      /\ ZcBranch[b] = ZcBranch[pindexState] \cup {b} /\ ZcBranch[b] \subseteq ZcBranch[zcTip]
      /\ b \notin ZcBranch[pindexState]
  BY <1>1, NextOfChain
<1>3. CASE RecordSpends(b, Shown(b), Makers(b)) /\ pindexState' = b /\ UNCHANGED verifying
  <2>1. ASSUME NEW c \in ZcBranch[b] PROVE Recorded(c)'
    <3>1. CASE c = b
      BY <1>2, <1>3, <3>1, BlockRecorded
    <3>2. CASE c # b
      <4>1. Recorded(c)
        BY <1>2, <3>2 DEF IInv, Records
      <4>2. Shown(b) \cap Shown(c) = {} /\ c \in ZcBlocks
        BY <1>2, <3>2, BlocksOfChain DEF IndexInv, IInv, Distinct
      <4>3. Shown(b) \in SUBSET Shown(b)
        OBVIOUS
      <4> QED BY <1>2, <1>3, <4>1, <4>2, <4>3, OthersKept
    <3> QED BY <3>1, <3>2
  <2> QED BY <1>2, <1>3, <2>1 DEF IInv, Distinct, Records
<1>4. CASE verifying' = "failed"
  BY <1>2, <1>4 DEF IInv, Distinct, Records
<1> QED BY <1>1, <1>3, <1>4, NextOfChain

\* Whoever stops without cutting off below the depth of a start: what a start does
\* not look at is recorded, and is not what is being taken off or put on.
LEMMA KeptDeeper ==
    ASSUME IInv, ~CutOffDeep, verifying \in {"no", "back", "again"}, verifying' = "down",
           NEW c \in ZcBranch[zcTip], Deeper(c)
    PROVE  /\ Recorded(c)
           /\ verifying \in {"back", "again"} => c \in ZcBranch[pindexState]
           /\ verifying = "back" /\ ~Deep => c # pindexState
BY DEF CutOffDeep, IInv, Records

LEMMA VerifyShutdownStep == ASSUME IInv, VerifyShutdown, ~CutOffDeep PROVE IInv'
<1>1. /\ verifying = "back" /\ verifying' = "down" /\ UNCHANGED <<zcTip, spends>>
  BY DEF VerifyShutdown
<1>2. \A c \in ZcBranch[zcTip] : Deeper(c) => Recorded(c)
  BY <1>1, KeptDeeper
<1> QED BY <1>1, <1>2 DEF IInv, Distinct, Records, Recorded, Deeper, NHeight

\* The node comes back with a tip that is not higher: what was deeper is so still.
LEMMA DiesStep ==
    ASSUME IndexInv, IInv, Dies,
           \A c \in ZcBranch[zcTip] : Deeper(c) => Recorded(c)'
    PROVE  IInv'
<1>1. zcTip' = zcFlushed /\ verifying' = "down"
  BY DEF Dies
<1>2. /\ zcTip \in ZcBlocks /\ zcFlushed \in ZcBlocks /\ zcFlushed \in ZcBranch[zcTip]
      /\ ZcBranch[zcFlushed] \subseteq ZcBranch[zcTip]
  BY LowerInBranch DEF IndexInv, ZcTypeInv, ZcPlaces
<1>3. Distinct'
  BY <1>1, <1>2 DEF IInv, Distinct
<1>4. ASSUME NEW c \in ZcBranch[zcFlushed], NHeight(c) < NHeight(zcFlushed) - CheckBlocks
      PROVE  Recorded(c)'
  <2>1. c \in ZcBlocks /\ c \in ZcBranch[zcTip]
    BY <1>2, <1>4, LowerInBranch
  <2>2. NHeight(zcFlushed) <= NHeight(zcTip)
    BY <1>2, Heights
  <2>3. {NHeight(c), NHeight(zcFlushed), NHeight(zcTip), CheckBlocks} \subseteq Nat
    BY <1>2, <2>1, Heights, ZcDepths
  <2>4. Deeper(c)
    BY <1>4, <2>2, <2>3 DEF Deeper
  <2> QED BY <2>1, <2>4
<1>5. Records'
  BY <1>1, <1>4 DEF Records, Deeper, NHeight
<1> QED BY <1>3, <1>5 DEF IInv

LEMMA CrashStep == ASSUME IndexInv, IInv, ZcCrash, ~CutOffDeep PROVE IInv'
<1>1. /\ Dies /\ verifying' = "down" /\ verifying \in {"no", "back", "again"}
      /\ \A c : Recorded(c)' <=> Recorded(c)
  BY DEF ZcCrash, Dies, Recorded, IndexInv, ZcTypeInv, RecordTypes
<1>2. \A c \in ZcBranch[zcTip] : Deeper(c) => Recorded(c)'
  BY <1>1, KeptDeeper
<1> QED BY <1>1, <1>2, DiesStep

\* Some records were written: of a block that repeats none of the chain's, or of
\* one of the chain itself.
LEMMA CrashConnectingStep == ASSUME IndexInv, IInv, CrashConnecting, ~CutOffDeep PROVE IInv'
<1>1. PICK b \in ZcBlocks :
          /\ \/ verifying = "no"
             \/ verifying = "again" /\ pindexState # zcTip /\ b = NextOn(zcTip, pindexState)
          /\ SpendsOK(b)
          /\ \E S \in SUBSET Shown(b) : RecordSpends(b, S, {})
          /\ Dies
  BY DEF CrashConnecting, Running
<1>2. PICK S \in SUBSET Shown(b) : RecordSpends(b, S, {})
  BY <1>1
<1>3. verifying' = "down" /\ verifying \in {"no", "back", "again"}
  BY <1>1 DEF Dies
<1>4. ASSUME NEW c \in ZcBranch[zcTip], c # b PROVE Shown(b) \cap Shown(c) = {}
  <2>1. CASE verifying = "no"
    BY <1>1, <2>1, NewSerials
  <2>2. CASE verifying = "again" /\ pindexState # zcTip /\ b = NextOn(zcTip, pindexState)
    <3>1. b \in ZcBranch[zcTip]
      BY <2>2, NextInBranch DEF IndexInv, ZcTypeInv, ZcPlaces
    <3> QED BY <1>4, <3>1 DEF IInv, Distinct
  <2> QED BY <1>1, <2>1, <2>2
<1>5. ASSUME NEW c \in ZcBranch[zcTip], Deeper(c) PROVE Recorded(c)'
  <2>1. Recorded(c) /\ c \in ZcBlocks
    BY <1>3, <1>5, KeptDeeper, BlocksOfChain DEF IndexInv
  <2>2. CASE c = b
    BY <1>2, <2>1, <2>2, BlockRecorded
  <2>3. CASE c # b
    BY <1>2, <1>4, <2>1, <2>3, OthersKept
  <2> QED BY <2>2, <2>3
<1> QED BY <1>1, <1>5, DiesStep

\* Some records were erased, of a block that the next start takes off again.
LEMMA CrashDisconnectingStep ==
    ASSUME IndexInv, IInv, CrashDisconnecting, ~CutOffDeep PROVE IInv'
<1>1. PICK b \in ZcBlocks \ {ZcGenesis} :
          /\ \/ verifying = "no" /\ b = zcTip
             \/ verifying = "back" /\ ~Deep /\ b = pindexState
          /\ \E S \in SUBSET Shown(b) : EraseSpends(S)
          /\ Dies
  BY DEF CrashDisconnecting, Running
<1>2. PICK S \in SUBSET Shown(b) : EraseSpends(S)
  BY <1>1
<1>3. verifying' = "down" /\ verifying \in {"no", "back", "again"}
  BY <1>1 DEF Dies
<1>4. b \in ZcBranch[zcTip]
  BY <1>1, ZcTree DEF IndexInv, ZcTypeInv, ZcPlaces
<1>5. ASSUME NEW c \in ZcBranch[zcTip], Deeper(c) PROVE Recorded(c)'
  <2>1. Recorded(c) /\ (verifying = "back" /\ ~Deep => c # pindexState)
    BY <1>3, <1>5, KeptDeeper
  <2>2. c # zcTip
    <3>1. zcTip \in ZcBlocks /\ CheckBlocks \in Nat
      BY ZcDepths DEF IndexInv, ZcTypeInv, ZcPlaces
    <3>2. NHeight(zcTip) \in Nat
      BY <3>1, Heights
    <3> QED BY <1>5, <3>1, <3>2 DEF Deeper
  <2> QED BY <1>1, <1>2, <1>4, <2>1, <2>2, ErasedAtBlock
<1> QED BY <1>1, <1>5, DiesStep

LEMMA NextRecords ==
    ASSUME IndexInv, IInv, [ZerocoinNext]_zcVars, [~CutOffDeep]_zcVars
    PROVE  IInv'
<1>1. CASE UNCHANGED zcVars
  BY <1>1 DEF zcVars, IInv, Distinct, Records, Recorded, Deeper, NHeight
<1>2. CASE ZerocoinNext /\ ~CutOffDeep
  <2>1. CASE (\E b \in ZcBlocks : ZcConnectTip(b)) \/ ZcDisconnectTip
    BY <2>1, ConnectStep, DisconnectStep
  <2>2. CASE ZcFlush \/ VerifyEnd
    BY <2>2 DEF ZcFlush, Running, NotVerifying, VerifyEnd, zcChain, IInv, Distinct, Records, Recorded
  <2>3. CASE ZcRestart \/ ZcReindex \/ VerifyChain
    BY <2>3, RestartStep, ReindexStep, VerifyChainStep
  <2>4. CASE VerifyDisconnect \/ VerifyTurn \/ VerifyConnect \/ VerifyShutdown
    BY <1>2, <2>4, VerifyDisconnectStep, VerifyTurnStep, VerifyConnectStep, VerifyShutdownStep
  <2>5. CASE ZcCrash \/ CrashConnecting \/ CrashDisconnecting
    BY <1>2, <2>5, CrashStep, CrashConnectingStep, CrashDisconnectingStep
  <2> QED BY <1>2, <2>1, <2>2, <2>3, <2>4, <2>5 DEF ZerocoinNext
<1> QED BY <1>1, <1>2

\* As long as no verification ends, in a shutdown or a crash, with a block taken off
\* that the next start does not look at, a node that runs knows each serial of its
\* chain: for any depths, through reorganisations, crashes between and amid the
\* writes, and every verification that was cut off above.
THEOREM SerialsKnown == ZerocoinSpec /\ [][~CutOffDeep]_zcVars => []SpendsKnown
<1>1. IndexInv /\ [ZerocoinNext]_zcVars => IndexInv'
  BY NextIndex
<1>2. IndexInv /\ IInv /\ [ZerocoinNext]_zcVars /\ [~CutOffDeep]_zcVars => IInv'
  BY NextRecords
<1>3. IndexInv /\ IInv => SpendsKnown
  BY DEF IInv, Records, Recorded, IndexInv, AllIndexed, SpendsKnown, Running, Makers
<1> QED BY InitIndex, InitRecords, <1>1, <1>2, <1>3, PTL DEF ZerocoinSpec

-----------------------------------------------------------------------------
(* The parts together                                                      *)

\* A behaviour of the daemon is one of each of its parts: what is shown of a part
\* holds of it there.  (The pool is in two parts, alone and with the wallet.)
THEOREM DaemonPartsAlone ==
    DaemonSpec => /\ CheckQueueSpec /\ SchedulerSpec /\ WorkQueueSpec
                  /\ Spec /\ UndoSpec /\ ZerocoinSpec
<1>1. AnyInit => /\ CheckQueueInit /\ SchedulerInit /\ WorkQueueInit
                 /\ Init /\ UndoInit /\ ZerocoinInit
  BY DEF AnyInit
<1>2. [AnyNext]_<<threadVars, coinVars, part>> =>
          /\ [CheckQueueNext]_queueVars /\ [SchedulerNext]_schVars /\ [WorkQueueNext]_wqVars
          /\ [Next]_vars /\ [UndoNext]_undoVars /\ [ZerocoinNext]_zcVars
  BY DEF AnyNext, threadVars, coinVars
<1> QED BY <1>1, <1>2, PTL DEF DaemonSpec, CheckQueueSpec, SchedulerSpec, WorkQueueSpec,
           Spec, UndoSpec, ZerocoinSpec

\* The pool, alone with the orphans, or with the wallet, which has none.
NoOrphans ==
    /\ orphan = [t \in PoolTxs |-> NoTransaction]
    /\ byPrev = [t \in PoolTxs |-> {}]
PoolPartInv ==
    /\ part = "wallet" => WalletKept /\ NoOrphans
    /\ part # "wallet" => MempoolInv /\ WalletTypeOK

LEMMA InitPoolPart == AnyInit => PoolPartInv
<1> SUFFICES ASSUME AnyInit PROVE PoolPartInv
  OBVIOUS
<1>1. MempoolInit /\ WalletInit
  BY DEF AnyInit
<1>2. WalletKept /\ WalletTypeOK
  BY <1>1, InitWalletKept, WalletTypesFollow
<1>3. MempoolInv
  BY <1>1, InitPoolInv, InitOrphanInv DEF MempoolInv
<1>4. NoOrphans
  BY <1>1 DEF MempoolInit, NoOrphans
<1> QED BY <1>2, <1>3, <1>4 DEF PoolPartInv

\* The wallet's process leaves the orphans alone or loses them.
LEMMA WalletOrphans ==
    ASSUME WalletNext
    PROVE  \/ UNCHANGED <<orphan, byPrev>>
           \/ orphan' = [t \in PoolTxs |-> NoTransaction] /\ byPrev' = [t \in PoolTxs |-> {}]
<1>1. ASSUME NEW t \in PoolTxs, WalletAccepts(t) \/ Pay(t) \/ WalletLock(t)
      PROVE  UNCHANGED <<orphan, byPrev>>
  BY <1>1 DEF WalletAccepts, Pay, SetBoth, WalletLock, LockTransaction
<1>2. ASSUME NEW b \in PoolBlocks, WalletConnectTip(b)
      PROVE  UNCHANGED <<orphan, byPrev>>
  BY <1>2 DEF WalletConnectTip, SetBoth
<1>3. ASSUME NEW policy, WalletDisconnectTip(policy) \/ Restart(policy)
      PROVE  UNCHANGED <<orphan, byPrev>>
  BY <1>3 DEF WalletDisconnectTip, SetBoth, Restart
<1>4. ASSUME ReadBalance \/ WalletFlush PROVE UNCHANGED <<orphan, byPrev>>
  BY <1>4 DEF ReadBalance, WalletFlush, poolVars
<1>5. ASSUME DiesBetweenCalls \/ DiesDisconnecting \/ \E b \in PoolBlocks : DiesConnecting(b)
      PROVE  orphan' = [t \in PoolTxs |-> NoTransaction] /\ byPrev' = [t \in PoolTxs |-> {}]
  BY <1>5 DEF DiesBetweenCalls, DiesDisconnecting, DiesConnecting, ProcessDies
<1> QED BY <1>1, <1>2, <1>3, <1>4, <1>5 DEF WalletNext

LEMMA NextPoolPart ==
    ASSUME PoolPartInv, [AnyNext]_<<threadVars, coinVars, part>>
    PROVE  PoolPartInv'
<1>1. part' = part
  BY DEF AnyNext
<1>2. CASE part = "wallet"
  <2>1. WalletNext \/ UNCHANGED <<poolVars, walletVars>>
    BY <1>2 DEF AnyNext, coinVars
  <2>2. WalletKept'
    BY <1>2, <2>1, NextWalletKept DEF PoolPartInv
  <2>3. NoOrphans'
    BY <1>2, <2>1, WalletOrphans DEF PoolPartInv, NoOrphans, poolVars
  <2> QED BY <1>1, <1>2, <2>2, <2>3 DEF PoolPartInv
<1>3. CASE part # "wallet"
  <2>1. (MempoolNext \/ UNCHANGED poolVars) /\ UNCHANGED walletVars
    BY <1>3 DEF AnyNext, coinVars
  <2>2. MempoolInv /\ WalletTypeOK
    BY <1>3 DEF PoolPartInv
  <2>3. MempoolInv'
    BY <2>1, <2>2, NextPoolInv, NextOrphanInv, StutterMempoolInv DEF MempoolInv
  <2>4. WalletTypeOK'
    BY <2>1, <2>2 DEF walletVars, WalletTypeOK
  <2> QED BY <1>1, <1>3, <2>3, <2>4 DEF PoolPartInv
<1> QED BY <1>2, <1>3

LEMMA PoolPartSound == PoolPartInv => MempoolInv /\ WalletTypeOK
<1>1. ASSUME WalletKept, NoOrphans PROVE MempoolInv /\ WalletTypeOK
  <2>1. PoolInv /\ work = Idle
    BY <1>1 DEF WalletKept, WalletCounts
  <2>2. OrphanInv
    BY <1>1, <2>1, NoOrphansInv DEF NoOrphans
  <2> QED BY <1>1, <2>1, <2>2, WalletTypesFollow DEF MempoolInv
<1> QED BY <1>1 DEF PoolPartInv

\* In both of its parts the daemon keeps the types of the pool, the orphans and the
\* wallet, the pool sound and the orphans resolved.
THEOREM DaemonPool ==
    DaemonSpec => [](MempoolTypeOK /\ WalletTypeOK /\ PoolSound /\ OrphansResolved)
<1>1. PoolPartInv /\ [AnyNext]_<<threadVars, coinVars, part>> => PoolPartInv'
  BY NextPoolPart
<1>2. PoolPartInv => MempoolTypeOK /\ WalletTypeOK /\ PoolSound /\ OrphansResolved
  BY PoolPartSound, TypesFollow, PoolSoundFollows, ResolvedFollows DEF MempoolInv
<1> QED BY InitPoolPart, <1>1, <1>2, PTL DEF DaemonSpec

\* With one crash at most the wallet of the daemon agrees with its chain, and
\* CommitTransaction succeeds with what the wallet may spend.
WalletPartInv == IF part = "wallet" THEN WalletInv ELSE ~up
THEOREM DaemonWallet ==
    ASSUME MaxReloads <= 1
    PROVE  DaemonSpec => [](WalletFollowsChain /\ CommitsSucceed)
<1>1. AnyInit => WalletPartInv
  BY InitWalletInv DEF AnyInit, WalletInit, WalletPartInv
<1>2. ASSUME WalletPartInv, [AnyNext]_<<threadVars, coinVars, part>> PROVE WalletPartInv'
  <2>1. part' = part
    BY <1>2 DEF AnyNext
  <2>2. CASE part = "wallet"
    <3>1. WalletNext \/ UNCHANGED <<poolVars, walletVars>>
      BY <1>2, <2>2 DEF AnyNext, coinVars
    <3> QED BY <1>2, <2>1, <2>2, <3>1, NextWalletInv, StutterWalletInv DEF WalletPartInv
  <2>3. CASE part # "wallet"
    <3>1. UNCHANGED walletVars
      BY <1>2, <2>3 DEF AnyNext, coinVars
    <3> QED BY <1>2, <2>1, <2>3, <3>1 DEF walletVars, WalletPartInv
  <2> QED BY <2>2, <2>3
<1>3. WalletPartInv => WalletFollowsChain /\ CommitsSucceed
  BY FollowsChainFollows, CommitsFollow DEF WalletPartInv, WalletFollowsChain, CommitsSucceed
<1> QED BY <1>1, <1>2, <1>3, PTL DEF DaemonSpec

\* What its parts promise the daemon keeps: no batch runs into the assertion of
\* the caches, the coins on disk are those of their block, the caches are views;
\* a verdict is that of all checks; the scheduler and the HTTP server serve each
\* task and request once; no record of a spend that was left refuses a block; the
\* pool is sound and no orphan is forgotten.
THEOREM DaemonSound ==
    DaemonSpec => /\ [](BatchWriteAssertion /\ DiskRepresentsItsBlock)
                  /\ Implements
                  /\ [](ControlFindsIdleQueue /\ VerdictIsConjunction)
                  /\ [](ServiceIsSound /\ RequestsAnsweredOnce)
                  /\ []OnlyRepeatsRefused
                  /\ [](PoolSound /\ OrphansResolved)
BY DaemonPartsAlone, AssertionHolds, DiskCorrect, CachesImplementViews, ControlAssertion,
   VerdictCorrect, ServiceSound, AnsweredOnce, NoneRefusedForOldRecords, DaemonPool, PTL

\* The queues of the threads, the coin caches, the zerocoin records, the pool,
\* the orphans and the wallet hold what their types say.
THEOREM DaemonTypeCorrect == DaemonSpec => []DaemonTypeOK
BY DaemonPool, DaemonPartsAlone, ChecksTypeCorrect, SchedulerTypeCorrect, WorkQueueTypeCorrect,
   TypeCorrect, ZerocoinTypeCorrect, PTL DEF DaemonTypeOK
=============================================================================
