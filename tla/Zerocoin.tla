------------------------------ MODULE Zerocoin ------------------------------
(***************************************************************************)
(* The records of zerocoin spends: which transaction of the active chain   *)
(* revealed a serial (main.cpp, zpivchain.cpp; CZerocoinDB of txdb.cpp).   *)
(* ConnectBlock and DisconnectBlock write and erase them in the database   *)
(* at once, and so the transaction index, while the coins and the tip they *)
(* belong to reach the disk with the next flush only: after a disconnected *)
(* block at once, after a connected one some time later.  VerifyDB, at the *)
(* start of a node and for verifychain, takes the last blocks off and puts *)
(* them on again.                                                          *)
(*                                                                         *)
(* All this holds cs_main.  Which block is connected or disconnected next  *)
(* is left open, it is ChainState's to say.  Minted coins have records     *)
(* that are kept by the same calls in the same places and are left out, as *)
(* are spends in the memory pool, which are not in the chain, nodes without*)
(* -txindex, the limit on the cache that can end VerifyDB's first loop     *)
(* early, flushes that fail, and the moment between a shutdown asked for   *)
(* in verifychain and the end of the threads.                              *)
(***************************************************************************)
EXTENDS Integers, FiniteSets

CONSTANTS
    ZcBlocks, ZcGenesis,
    ZcBranch,      \* a block and its ancestors
    ZcTxs, Serials,
    Reveals,       \* of each block, pairs of a transaction and a serial
    NotRecorded,   \* no entry in a database
    CheckBlocks,   \* how far back VerifyDB goes at the start (-checkblocks)
    RpcBlocks,     \* and in verifychain
    DeepCuts       \* whether VerifyDB may be cut off below CheckBlocks

\* A block has a parent, and each of a branch but its last has one after it.
ASSUME ZcTree ==
    /\ ZcGenesis \in ZcBlocks /\ ZcBranch[ZcGenesis] = {ZcGenesis}
    /\ \A b \in ZcBlocks :
          /\ {b, ZcGenesis} \subseteq ZcBranch[b] /\ ZcBranch[b] \subseteq ZcBlocks
          /\ IsFiniteSet(ZcBranch[b])
          /\ \A c \in ZcBranch[b] \ {ZcGenesis} :
                \E p \in ZcBranch[b] : c # p /\ ZcBranch[c] = ZcBranch[p] \cup {c}
          /\ \A c \in ZcBranch[b] \ {b} :
                \E d \in ZcBranch[b] : d # c /\ ZcBranch[d] = ZcBranch[c] \cup {d}
          /\ \A c, d \in ZcBranch[b] : c \in ZcBranch[d] \/ d \in ZcBranch[c]
          /\ \A c \in ZcBranch[b] :
                ZcBranch[c] \subseteq ZcBranch[b] /\ (b \in ZcBranch[c] => b = c)
\* A transaction reveals the same serials in every block; a block has each once.
ASSUME ZcReveals ==
    /\ \A b \in ZcBlocks :
          /\ Reveals[b] \subseteq ZcTxs \X Serials
          /\ \A r, q \in Reveals[b] : r[2] = q[2] => r = q
          /\ \A c \in ZcBlocks : \A r \in Reveals[b] :
                (\E q \in Reveals[c] : q[1] = r[1]) => r \in Reveals[c]
    /\ Reveals[ZcGenesis] = {} /\ NotRecorded \notin ZcTxs \cup ZcBlocks
ASSUME ZcDepths == {CheckBlocks, RpcBlocks} \subseteq Nat \ {0} /\ DeepCuts \in BOOLEAN

VARIABLES
    zcTip,         \* chainActive.Tip()
    zcFlushed,     \* the best block of the coins on disk
    spends,        \* zerocoinDB: the transaction recorded for a serial
    txIndex,       \* pblocktree: the block recorded for a transaction
    refused,       \* blocks that ConnectBlock found invalid
    verifying,     \* VerifyDB: no, back (first loop), again, failed; down
    pindexState,   \* VerifyDB: the block the verified coins are at
    caller         \* VerifyDB: called at the start or by verifychain

zcVars == <<zcTip, zcFlushed, spends, txIndex, refused, verifying, pindexState, caller>>
zcChain == <<zcTip, zcFlushed, refused>>

NHeight(b) == Cardinality(ZcBranch[b]) - 1
ZcParent(b) == CHOOSE p \in ZcBranch[b] : NHeight(p) = NHeight(b) - 1
NextOn(tip, b) == CHOOSE c \in ZcBranch[tip] : NHeight(c) = NHeight(b) + 1
Shown(b) == {r[2] : r \in Reveals[b]}
Makers(b) == {r[1] : r \in Reveals[b]}

ZerocoinInit ==
    /\ zcTip = ZcGenesis /\ zcFlushed = ZcGenesis
    /\ spends = [s \in Serials |-> NotRecorded]
    /\ txIndex = [t \in ZcTxs |-> NotRecorded]
    /\ refused = {}
    /\ verifying = "no" /\ pindexState = ZcGenesis /\ caller = "start"

IsTransactionInChain(t) == txIndex[t] \in ZcBranch[zcTip]

\* Mutant: a record counts whatever block it is from.
SerialRecorded(s) == spends[s] # NotRecorded
IsSerialInBlockchain(s) ==
    spends[s] # NotRecorded /\ IsTransactionInChain(spends[s])

\* ConnectBlock's checks of the spends.  In VerifyDB the active chain still has
\* the block.
SpendsOK(b) ==
    \A r \in Reveals[b] :
        /\ IsTransactionInChain(r[1]) =>
               verifying # "no" /\ NHeight(b) <= NHeight(txIndex[r[1]])
        /\ ~IsSerialInBlockchain(r[2])

\* What the writes of ConnectBlock leave, made as far as the serials S and, the
\* index being written last, the transactions T.
RecordSpends(b, S, T) ==
    /\ spends' = [s \in Serials |->
                     IF s \in S THEN CHOOSE t \in ZcTxs : <<t, s>> \in Reveals[b]
                     ELSE spends[s]]
    /\ txIndex' = [t \in ZcTxs |-> IF t \in T THEN b ELSE txIndex[t]]

\* EraseCoinSpend in DisconnectBlock; the index keeps what it has.
EraseSpends(S) ==
    /\ spends' = [s \in Serials |-> IF s \in S THEN NotRecorded ELSE spends[s]]
    /\ UNCHANGED txIndex

-----------------------------------------------------------------------------

Running == verifying = "no"
NotVerifying == UNCHANGED <<verifying, pindexState, caller>>

ZcConnectTip(b) ==
    /\ Running /\ b # ZcGenesis /\ ZcParent(b) = zcTip /\ b \notin refused
    /\ \/ /\ SpendsOK(b)
          /\ zcTip' = b /\ RecordSpends(b, Shown(b), Makers(b))
          /\ zcFlushed' \in {zcFlushed, b}
          /\ UNCHANGED refused
       \/ /\ ~SpendsOK(b)
          /\ refused' = refused \cup {b}
          /\ UNCHANGED <<zcTip, zcFlushed, spends, txIndex>>
    /\ NotVerifying

ZcDisconnectTip ==
    /\ Running /\ zcTip # ZcGenesis
    /\ zcTip' = ZcParent(zcTip) /\ zcFlushed' = zcTip'
    /\ EraseSpends(Shown(zcTip))
    /\ UNCHANGED refused /\ NotVerifying

\* FlushStateToDisk, between two blocks.
ZcFlush ==
    /\ Running /\ zcFlushed' = zcTip
    /\ UNCHANGED <<zcTip, spends, txIndex, refused>> /\ NotVerifying

-----------------------------------------------------------------------------
(* VerifyDB, at level 4.                                                    *)

VerifyDB(from) ==
    /\ caller' = from /\ pindexState' = zcTip
    /\ verifying' = IF zcTip = ZcGenesis THEN "no" ELSE "back"

\* A node starts with the tip of the coins on disk.
ZcRestart ==
    /\ verifying = "down"
    /\ VerifyDB("start")
    /\ UNCHANGED <<zcChain, spends, txIndex>>

\* With -reindexzerocoin the records are wiped and made from the blocks first.
ZcReindex ==
    /\ verifying = "down"
    /\ spends' = [s \in Serials |->
           LET t == {u \in ZcTxs : \E b \in ZcBranch[zcTip] : <<u, s>> \in Reveals[b]}
           IN  IF t = {} THEN NotRecorded ELSE CHOOSE u \in t : TRUE]
    /\ VerifyDB("start")
    /\ UNCHANGED <<zcChain, txIndex>>

VerifyChain ==
    /\ Running /\ zcTip # ZcGenesis
    /\ VerifyDB("rpc")
    /\ UNCHANGED <<zcChain, spends, txIndex>>

CheckDepth == IF caller = "start" THEN CheckBlocks ELSE RpcBlocks
Deep == \/ pindexState = ZcGenesis
        \/ NHeight(pindexState) < NHeight(zcTip) - CheckDepth

VerifyDisconnect ==
    /\ verifying = "back" /\ ~Deep
    /\ EraseSpends(Shown(pindexState))
    /\ pindexState' = ZcParent(pindexState)
    /\ UNCHANGED <<zcChain, verifying, caller>>

\* Mutant: the blocks are not put on again, as at level 3.
StopAtLevel3 ==
    /\ verifying = "back" /\ Deep
    /\ verifying' = "no"
    /\ UNCHANGED <<zcChain, spends, txIndex, pindexState, caller>>

VerifyTurn ==
    /\ verifying = "back" /\ Deep
    /\ verifying' = "again"
    /\ UNCHANGED <<zcChain, spends, txIndex, pindexState, caller>>

VerifyConnect ==
    /\ verifying = "again" /\ pindexState # zcTip
    /\ LET b == NextOn(zcTip, pindexState) IN
       IF SpendsOK(b)
       THEN RecordSpends(b, Shown(b), Makers(b)) /\ pindexState' = b /\ UNCHANGED verifying
       ELSE verifying' = "failed" /\ UNCHANGED <<spends, txIndex, pindexState>>
    /\ UNCHANGED <<zcChain, caller>>

VerifyEnd ==
    /\ verifying = "again" /\ pindexState = zcTip
    /\ verifying' = "no"
    /\ UNCHANGED <<zcChain, spends, txIndex, pindexState, caller>>

\* Asked to shut down, VerifyDB returns true from its first loop, as it is, and
\* the node ends, writing what it has.
VerifyShutdown ==
    /\ verifying = "back"
    /\ verifying' = "down" /\ zcFlushed' = zcTip
    /\ UNCHANGED <<zcTip, refused, spends, txIndex, pindexState, caller>>

-----------------------------------------------------------------------------

Dies ==
    /\ zcTip' = zcFlushed /\ verifying' = "down"
    /\ UNCHANGED <<zcFlushed, refused, pindexState, caller>>

\* The process dies: between two calls, or with some of the writes made, of
\* which those of the index are last.
ZcCrash ==
    /\ verifying # "down" /\ verifying # "failed"
    /\ Dies /\ UNCHANGED <<spends, txIndex>>

CrashConnecting ==
    \E b \in ZcBlocks :
        /\ \/ Running /\ b # ZcGenesis /\ ZcParent(b) = zcTip /\ b \notin refused
           \/ /\ verifying = "again" /\ pindexState # zcTip
              /\ b = NextOn(zcTip, pindexState)
        /\ SpendsOK(b)
        /\ \E S \in SUBSET Shown(b) : RecordSpends(b, S, {})
        /\ Dies

CrashDisconnecting ==
    \E b \in ZcBlocks \ {ZcGenesis} :
        /\ \/ Running /\ b = zcTip
           \/ verifying = "back" /\ ~Deep /\ b = pindexState
        /\ \E S \in SUBSET Shown(b) : EraseSpends(S)
        /\ Dies

\* What a start does not look at.
Deeper(b) == NHeight(b) < NHeight(zcTip) - CheckBlocks

\* VerifyDB ends, in a shutdown or a crash, with a block that the next start does
\* not look at taken off or about to be.  Only verifychain goes that deep.
CutOffDeep ==
    /\ verifying \in {"back", "again"} /\ verifying' = "down"
    /\ \E b \in ZcBranch[zcTip] :
          /\ Deeper(b)
          /\ b \notin ZcBranch[pindexState] \/ (verifying = "back" /\ ~Deep /\ b = pindexState)

ZerocoinNext ==
    /\ \/ \E b \in ZcBlocks : ZcConnectTip(b)
       \/ ZcDisconnectTip \/ ZcFlush
       \/ ZcRestart \/ ZcReindex \/ VerifyChain
       \/ VerifyDisconnect \/ VerifyTurn \/ VerifyConnect \/ VerifyEnd \/ VerifyShutdown
       \/ ZcCrash \/ CrashConnecting \/ CrashDisconnecting
    /\ CutOffDeep => DeepCuts

ZerocoinSpec == ZerocoinInit /\ [][ZerocoinNext]_zcVars

-----------------------------------------------------------------------------

\* Types.
ZerocoinTypeOK ==
    /\ {zcTip, zcFlushed, pindexState} \cup refused \subseteq ZcBlocks
    /\ spends \in [Serials -> ZcTxs \cup {NotRecorded}]
    /\ txIndex \in [ZcTxs -> ZcBlocks \cup {NotRecorded}]
    /\ verifying \in {"no", "back", "again", "failed", "down"}
    /\ caller \in {"start", "rpc"}

\* However a node came to run, through reorganisations, crashes between and amid
\* the writes, and verifications that were cut off, IsSerialInBlockchain knows
\* every serial that the active chain revealed (main.cpp:3019, :2386, zpivchain.cpp:234).
SpendsKnown ==
    Running => \A b \in ZcBranch[zcTip] : \A r \in Reveals[b] :
                  spends[r[2]] = r[1] /\ txIndex[r[1]] = b

\* A block of the branch before b has a serial or a transaction of b.
Repeats(b) ==
    \E c \in ZcBranch[b] \ {b} :
        Shown(b) \cap Shown(c) # {} \/ Makers(b) \cap Makers(c) # {}

\* Records of blocks that were left never speak against a block, nor do those of a
\* block against itself: only one that repeats a serial or transaction of its own
\* branch is refused, and only a chain with such a block is found corrupt
\* (main.cpp:2873, :4977), which SpendsKnown says no node has.
OnlyRepeatsRefused ==
    /\ \A b \in refused : Repeats(b)
    /\ verifying = "failed" => \E b \in ZcBranch[zcTip] : Repeats(b)
=============================================================================
