----------------------------- MODULE ChainState -----------------------------
(***************************************************************************)
(* The block index, the active chain and their copy on disk (main.cpp).    *)
(*                                                                         *)
(* cs_main is held through every section that changes the chain; `op' says *)
(* which thread holds it and in the middle of what.  A section is several  *)
(* actions where the node can die between two writes to disk: the flush of *)
(* one block index entry (WriteBlockIndex) and the flush of the coins      *)
(* (pcoinsTip->Flush, one LevelDB batch) are atomic, nothing larger is.    *)
(*                                                                         *)
(* Blocks form a fixed tree; which of them arrive, in which order and how  *)
(* often is open.  A block's coins are not modelled here (module           *)
(* BlockUndo does that): coinsTip is pcoinsTip's best block.               *)
(***************************************************************************)
EXTENDS Integers, FiniteSets

CONSTANTS
    Blocks,         \* the block tree
    Genesis,
    Parent,         \* Parent[b], for b # Genesis
    Anc,            \* Anc[b]: b and all its ancestors
    Work,           \* nChainWork
    Rank,           \* the order of the CBlockIndex objects' addresses
    BadContext,     \* blocks ContextualCheckBlock refuses
    BadConnect,     \* blocks that break a consensus rule in ConnectBlock
    Checkpointed,   \* blocks of the table of checkpoints
    LockSensitive,  \* blocks a SwiftTX lock may come to conflict with
    Threads,        \* threads that process blocks or serve RPC calls
    None,
    Ops,            \* which of the rarer operations are possible
    MaxOps,         \* bound: operator calls (invalidate, reconsider, reprocess)
    MaxCrashes,     \* bound: crashes
    ReprocessDepth  \* ReprocessBlocks' argument: 15 in swifttx.cpp

ASSUME TreeAssumption ==
    /\ IsFiniteSet(Blocks) /\ Genesis \in Blocks
    /\ Parent \in [Blocks \ {Genesis} -> Blocks]
    /\ Anc \in [Blocks -> SUBSET Blocks]
    /\ Anc[Genesis] = {Genesis}
    /\ \A b \in Blocks \ {Genesis} :
          b \notin Anc[Parent[b]] /\ Anc[b] = {b} \cup Anc[Parent[b]]
ASSUME WorkAssumption ==
    /\ Work \in [Blocks -> Nat]
    /\ \A b \in Blocks \ {Genesis} : Work[Parent[b]] < Work[b]
ASSUME RankAssumption ==
    /\ Rank \in [Blocks -> Int]
    /\ \A a, b \in Blocks : Rank[a] = Rank[b] => a = b
ASSUME NoneAssumption == None \notin Blocks \cup Threads
ASSUME BoundsAssumption ==
    MaxOps \in Nat /\ MaxCrashes \in Nat /\ ReprocessDepth \in Nat
ASSUME BadAssumption ==
    /\ (BadContext \cup BadConnect \cup LockSensitive \cup Checkpointed) \subseteq Blocks
    /\ Genesis \notin BadContext \cup BadConnect \cup LockSensitive

VARIABLES
    status,     \* nStatus of every block; {} when it is not in mapBlockIndex
    next,       \* pnext
    dirty,      \* setDirtyBlockIndex
    linked,     \* the blocks with nChainTx # 0
    unlinked,   \* the second components of mapBlocksUnlinked
    seq,        \* nSequenceId
    tieUp,      \* which way addresses compare in this run of the process
    candidates, \* setBlockIndexCandidates
    tip,        \* chainActive.Tip()
    coinsTip,   \* pcoinsTip->GetBestBlock()
    dStatus,    \* nStatus in the block tree database
    dNext,      \* hashNext in the block tree database
    dCoins,     \* best block of the coin database
    conflicted, \* blocks CheckBlock would refuse just now: one conflicts with
                \* mapLockedInputs, or its masternode payee is not known
    rejected,   \* mapRejectedBlocks
    pc,         \* where each thread is
    blk,        \* the block a thread brought: pblock
    most,       \* ActivateBestChain's pindexMostWork, per thread
    op,         \* the section of cs_main being executed
    flushing,   \* whether it is inside FlushStateToDisk
    up,         \* "up", "down", or why LoadBlockIndexDB left the node unusable
    ops,        \* operator calls so far
    crashes     \* crashes so far

indexVars == <<status, next, dirty>>
linkVars == <<linked, unlinked, seq, tieUp>>
chainVars == <<tip, coinsTip>>
diskVars == <<dStatus, dNext, dCoins>>
lockVars == <<conflicted, rejected>>
threadVars == <<pc, blk, most>>
csVars == <<op, flushing>>
lifeVars == <<up, ops, crashes>>
vars == <<status, next, dirty, linked, unlinked, seq, tieUp, candidates, tip,
          coinsTip, dStatus, dNext, dCoins, conflicted, rejected, pc, blk,
          most, op, flushing, up, ops, crashes>>

\* TREE stands for BLOCK_VALID_TREE; DATA for BLOCK_HAVE_DATA, which comes
\* with BLOCK_VALID_TRANSACTIONS; SCRIPTS for BLOCK_VALID_SCRIPTS.
Flags == {"TREE", "DATA", "UNDO", "SCRIPTS", "FAILED_VALID", "FAILED_CHILD"}
FailedMask == {"FAILED_VALID", "FAILED_CHILD"}
Kinds == {"free", "find", "step", "invalidate", "reprocess", "flush"}
PC == {"idle", "checked", "activate", "check", "flush", "reprocess"}

Known == {b \in Blocks : status[b] # {}}
Failed(b) == status[b] \cap FailedMask # {}
HasData(b) == "DATA" \in status[b]

\* CBlockIndexWorkComparator: a sorts before b, given sequence ids s.
Worse(a, b, s) ==
    \/ Work[a] < Work[b]
    \/ Work[a] = Work[b] /\ s[a] > s[b]
    \/ /\ Work[a] = Work[b] /\ s[a] = s[b]
       /\ IF tieUp THEN Rank[a] < Rank[b] ELSE Rank[b] < Rank[a]

\* The first block on the way from the block a up to its descendant b.
NextToward(a, b) == CHOOSE c \in Anc[b] : c # Genesis /\ Parent[c] = a

FreeOp == [th |-> None, kind |-> "free", target |-> None, oldTip |-> None,
           newTip |-> None, left |-> 0]
Free == up = "up" /\ op.kind = "free"
Section(th, kind, target, old, left) ==
    [th |-> th, kind |-> kind, target |-> target, oldTip |-> old,
     newTip |-> None, left |-> left]

Sections ==
    [th : Threads \cup {None}, kind : Kinds, target : Blocks \cup {None},
     oldTip : Blocks \cup {None}, newTip : Blocks \cup {None},
     left : 0..(ReprocessDepth + 1)]

\* InitBlockIndex: the genesis block is connected and flushed.
Init ==
    /\ status = [b \in Blocks |-> IF b = Genesis THEN {"TREE", "DATA"} ELSE {}]
    /\ next = [b \in Blocks |-> None]
    /\ dirty = {}
    /\ linked = {Genesis}
    /\ unlinked = {}
    /\ seq = [b \in Blocks |-> IF b = Genesis THEN 1 ELSE 0]
    /\ tieUp = TRUE
    /\ candidates = {Genesis}
    /\ tip = Genesis
    /\ coinsTip = Genesis
    /\ dStatus = status
    /\ dNext = next
    /\ dCoins = Genesis
    /\ conflicted = {}
    /\ rejected = {}
    /\ pc = [t \in Threads |-> "idle"]
    /\ blk = [t \in Threads |-> None]
    /\ most = [t \in Threads |-> None]
    /\ op = FreeOp
    /\ flushing = FALSE
    /\ up = "up"
    /\ ops = 0
    /\ crashes = 0

-----------------------------------------------------------------------------
(* Blocks and headers arrive                                               *)

\* AddToBlockIndex for a header that may be known already.
WithHeader(b) == IF b \in Known THEN status ELSE [status EXCEPT ![b] = {"TREE"}]
AddHeader(b) ==
    /\ next' = IF b \in Known THEN next ELSE [next EXCEPT ![Parent[b]] = b]
    /\ dirty' = IF b \in Known THEN dirty ELSE dirty \cup {b}

\* The "headers" message: AcceptBlockHeader.
AcceptBlockHeader(b) ==
    /\ Free
    /\ b \notin Known /\ Parent[b] \in Known /\ ~Failed(Parent[b])
    /\ status' = WithHeader(b)
    /\ AddHeader(b)
    /\ UNCHANGED <<linkVars, candidates, chainVars, diskVars, lockVars,
                   threadVars, csVars, lifeVars>>

\* ProcessNewBlock before it takes cs_main: CheckBlock, which looks at the
\* SwiftTX locks, and the look-up of the previous block.
CheckNewBlock(th, b) ==
    /\ up = "up" /\ pc[th] = "idle" /\ Parent[b] \in Known
    /\ \/ /\ b \in conflicted
          /\ rejected' = rejected \cup {b}
          /\ UNCHANGED threadVars
       \/ /\ b \notin conflicted
          /\ pc' = [pc EXCEPT ![th] = "checked"]
          /\ blk' = [blk EXCEPT ![th] = b]
          /\ UNCHANGED <<rejected, most>>
    /\ UNCHANGED <<indexVars, linkVars, candidates, chainVars, diskVars,
                   conflicted, csVars, lifeVars>>

\* Mutant: what waits for b keeps waiting.
NewlyLinkedAlone(b) == {b}

\* The blocks ReceivedBlockTransactions links when b gets its data: b and
\* what waits for it, directly or through other waiting blocks.
NewlyLinked(b) ==
    {b} \cup {x \in unlinked : b \in Anc[x] /\ Anc[x] \ Anc[b] \subseteq unlinked}

\* Sequence ids are given in breadth-first order; siblings in either order.
Sequenced(new, up1) ==
    LET Before(x, y) ==
          \/ Cardinality(Anc[x]) < Cardinality(Anc[y])
          \/ /\ Cardinality(Anc[x]) = Cardinality(Anc[y])
             /\ IF up1 THEN Rank[x] < Rank[y] ELSE Rank[y] < Rank[x]
        first == 1 + Cardinality({x \in Blocks : seq[x] > 0})
    IN [x \in Blocks |-> IF x \in new
                        THEN first + Cardinality({y \in new : Before(y, x)})
                        ELSE seq[x]]

ReceivedBlockTransactions(b) ==
    /\ status' = [WithHeader(b) EXCEPT ![b] = @ \cup {"DATA"}]
    /\ next' = IF b \in Known THEN next ELSE [next EXCEPT ![Parent[b]] = b]
    /\ dirty' = dirty \cup {b}
    /\ \/ /\ Parent[b] \in linked
          /\ linked' = linked \cup NewlyLinked(b)
          /\ unlinked' = unlinked \ NewlyLinked(b)
          /\ \E up1 \in BOOLEAN : seq' = Sequenced(NewlyLinked(b), up1)
          /\ candidates' = candidates \cup {x \in NewlyLinked(b) : ~Worse(x, tip, seq')}
       \/ /\ Parent[b] \notin linked
          /\ unlinked' = unlinked \cup {b}
          /\ UNCHANGED <<linked, seq, candidates>>

\* The thread goes on to ActivateBestChain, or drops its block.
Proceed(th) ==
    /\ pc' = [pc EXCEPT ![th] = "activate"]
    /\ UNCHANGED <<blk, most>>
Drop(th) ==
    /\ pc' = [pc EXCEPT ![th] = "idle"]
    /\ blk' = [blk EXCEPT ![th] = None]
    /\ UNCHANGED most

\* ReconsiderBlock: the marks of the descendants and of the ancestors go, and
\* the descendants that are better than the tip become candidates.
Reconsider(b) ==
    LET below == {x \in Known : Failed(x) /\ b \in Anc[x]}
        above == {x \in Anc[b] : Failed(x)}
    IN /\ status' = [x \in Blocks |->
             IF x \in below \cup above THEN status[x] \ FailedMask ELSE status[x]]
       /\ dirty' = dirty \cup below \cup above
       /\ candidates' = candidates \cup
             {x \in below : HasData(x) /\ x \in linked /\ Worse(tip, x, seq)}

\* AcceptBlock refuses: the previous block or the block itself is marked.
RefuseFailed(th, b) ==
    /\ IF Failed(Parent[b]) THEN Parent[b] \notin Checkpointed ELSE Failed(b)
    /\ Drop(th)
    /\ UNCHANGED <<indexVars, linkVars, candidates>>

\* A marked block that is a checkpoint is reconsidered when a child of it
\* comes.  The child is not stored; ActivateBestChain follows.  (The code calls
\* it here, cs_main still held, and again after: one call stands for both, and
\* another thread may come before it.)
ReconsiderCheckpoint(th, b) ==
    /\ Failed(Parent[b]) /\ Parent[b] \in Checkpointed
    /\ Reconsider(Parent[b])
    /\ Proceed(th)
    /\ UNCHANGED <<next, linkVars>>

\* AcceptBlock of a block it has: true, nothing changes.
AcceptDuplicate(th, b) ==
    /\ ~Failed(Parent[b]) /\ ~Failed(b) /\ HasData(b)
    /\ Proceed(th)
    /\ UNCHANGED <<indexVars, linkVars, candidates>>

\* ContextualCheckBlock fails: the header stays, marked.
RefuseContext(th, b) ==
    /\ ~Failed(Parent[b]) /\ ~Failed(b) /\ ~HasData(b)
    /\ b \in BadContext
    /\ status' = [WithHeader(b) EXCEPT ![b] = @ \cup {"FAILED_VALID"}]
    /\ next' = IF b \in Known THEN next ELSE [next EXCEPT ![Parent[b]] = b]
    /\ dirty' = dirty \cup {b}
    /\ Drop(th)
    /\ UNCHANGED <<linkVars, candidates>>

\* The stake's inputs are spent as the active chain stands: the block is
\* refused, its header stays and is not marked.
RefuseStake(th, b) ==
    /\ "stake" \in Ops
    /\ ~Failed(Parent[b]) /\ ~Failed(b) /\ ~HasData(b) /\ b \notin BadContext
    /\ status' = WithHeader(b)
    /\ AddHeader(b)
    /\ Drop(th)
    /\ UNCHANGED <<linkVars, candidates>>

StoreBlock(th, b) ==
    /\ ~Failed(Parent[b]) /\ ~Failed(b) /\ ~HasData(b) /\ b \notin BadContext
    /\ ReceivedBlockTransactions(b)
    /\ Proceed(th)
    /\ UNCHANGED tieUp

\* ProcessNewBlock's section of cs_main.
AcceptBlock(th) ==
    /\ Free /\ pc[th] = "checked"
    /\ \/ RefuseFailed(th, blk[th])
       \/ ReconsiderCheckpoint(th, blk[th])
       \/ AcceptDuplicate(th, blk[th])
       \/ RefuseContext(th, blk[th])
       \/ RefuseStake(th, blk[th])
       \/ StoreBlock(th, blk[th])
    /\ UNCHANGED <<chainVars, diskVars, lockVars, csVars, lifeVars>>

\* A transaction lock that b conflicts with appears or expires (swifttx.cpp); or
\* the payments vote that b satisfies or not changes (node-payments.cpp).
LockAppears(b) ==
    /\ up = "up" /\ b \in LockSensitive \ conflicted
    /\ conflicted' = conflicted \cup {b}
    /\ UNCHANGED <<indexVars, linkVars, candidates, chainVars, diskVars,
                   rejected, threadVars, csVars, lifeVars>>
LockExpires(b) ==
    /\ up = "up" /\ b \in conflicted
    /\ conflicted' = conflicted \ {b}
    /\ UNCHANGED <<indexVars, linkVars, candidates, chainVars, diskVars,
                   rejected, threadVars, csVars, lifeVars>>

-----------------------------------------------------------------------------
(* ActivateBestChain                                                       *)

Enter(th) ==
    /\ Free /\ pc[th] = "activate"
    /\ op' = Section(th, "find", None, None, 0)
    /\ UNCHANGED <<indexVars, linkVars, candidates, chainVars, diskVars,
                   lockVars, threadVars, flushing, lifeVars>>

\* In a section of that kind, between two calls of ConnectTip or DisconnectTip.
Running(kind) == up = "up" /\ op.kind = kind /\ ~flushing /\ op.newTip = None

\* The best element of setBlockIndexCandidates.
IsBest(b) == b \in candidates /\ \A c \in candidates \ {b} : Worse(c, b, seq)

\* The blocks between the active chain and b, b included.
Fork(b) == Anc[b] \ Anc[tip]

\* FindMostWorkChain drops its best candidate: some block on its branch is
\* marked.  t is the marked block nearest to the candidate.
FindReject ==
    /\ Running("find")
    /\ \E b \in candidates : \E t \in Fork(b) :
          /\ IsBest(b)
          /\ Failed(t)
          /\ \A x \in Anc[b] \ Anc[t] : ~Failed(x)
          /\ status' = [x \in Blocks |->
                IF x \in Anc[b] \ Anc[t] THEN status[x] \cup {"FAILED_CHILD"} ELSE status[x]]
          /\ candidates' = candidates \ ((Anc[b] \ Anc[t]) \cup {t})
    /\ UNCHANGED <<next, dirty, linkVars, chainVars, diskVars, lockVars,
                   threadVars, csVars, lifeVars>>

\* Nothing to do: ActivateBestChain returns.
FindNothing ==
    /\ Running("find")
    /\ candidates = {} \/ IsBest(tip)
    /\ op' = FreeOp
    /\ Drop(op.th)
    /\ UNCHANGED <<indexVars, linkVars, candidates, chainVars, diskVars,
                   lockVars, flushing, lifeVars>>

FindChain ==
    /\ Running("find")
    /\ \E b \in candidates \ {tip} :
          /\ IsBest(b)
          /\ \A x \in Fork(b) : ~Failed(x)
          /\ op' = Section(op.th, "step", b, tip, 0)
          /\ most' = [most EXCEPT ![op.th] = b]
    /\ UNCHANGED <<indexVars, linkVars, candidates, chainVars, diskVars,
                   lockVars, pc, blk, flushing, lifeVars>>

\* Mutant: the view of the coins is not flushed into pcoinsTip.
DisconnectTipUnflushed(section) ==
    /\ coinsTip = tip /\ "UNDO" \in status[tip]
    /\ UNCHANGED coinsTip
    /\ op' = [section EXCEPT !.newTip = Parent[tip]]
    /\ flushing' = TRUE

\* DisconnectTip: the coins move back and FLUSH_STATE_ALWAYS starts; UpdateTip
\* follows.  DisconnectBlock asserts that the coins are those of the tip.
DisconnectTip(section) ==
    /\ coinsTip = tip /\ "UNDO" \in status[tip]
    /\ coinsTip' = Parent[tip]
    /\ op' = [section EXCEPT !.newTip = Parent[tip]]
    /\ flushing' = TRUE

StepDisconnect ==
    /\ Running("step")
    /\ tip \notin Anc[op.target]
    /\ DisconnectTip(op)
    /\ UNCHANGED <<indexVars, linkVars, candidates, tip, diskVars, lockVars,
                   threadVars, lifeVars>>

\* ActivateBestChainStep goes on connecting.
Connecting ==
    /\ Running("step")
    /\ tip \in Anc[op.target]
    /\ tip # op.target /\ Work[tip] <= Work[op.oldTip]

\* ConnectBlock repeats CheckBlock unless the block is the one this thread
\* brought and has checked (fAlreadyChecked).
LockChecked(b) == ~(b = op.target /\ b = blk[op.th])
ConnectFails(b) == b \in BadConnect \/ (LockChecked(b) /\ b \in conflicted)

\* Mutant: nothing is pruned.
PrunedNothing(t, cands) == cands

\* PruneBlockIndexCandidates for a new tip t.
Pruned(t, cands) == {c \in cands : ~Worse(c, t, seq)}

\* ConnectTip up to UpdateTip; the coin cache may be over its limit
\* (FLUSH_STATE_IF_NEEDED).  ConnectBlock asserts that the coins are the tip's.
StepConnect ==
    /\ Connecting /\ coinsTip = tip
    /\ LET b == NextToward(tip, op.target) IN
          /\ ~ConnectFails(b)
          /\ status' = [status EXCEPT ![b] = @ \cup {"UNDO", "SCRIPTS"}]
          /\ dirty' = IF {"UNDO", "SCRIPTS"} \subseteq status[b] THEN dirty ELSE dirty \cup {b}
          /\ coinsTip' = b
          /\ op' = [op EXCEPT !.newTip = b]
    /\ flushing' \in BOOLEAN
    /\ UNCHANGED <<next, linkVars, candidates, tip, diskVars, lockVars, threadVars, lifeVars>>

\* The end of ConnectTip or DisconnectTip.  A connected block is followed by
\* PruneBlockIndexCandidates.
UpdateTip ==
    /\ up = "up" /\ ~flushing /\ op.newTip # None
    /\ tip' = op.newTip
    /\ op' = [op EXCEPT !.newTip = None]
    /\ candidates' = IF tip \in Anc[op.newTip] THEN Pruned(op.newTip, candidates)
                                              ELSE candidates
    /\ UNCHANGED <<indexVars, linkVars, coinsTip, diskVars, lockVars,
                   threadVars, flushing, lifeVars>>

\* The section ends and releases cs_main; the loop of ActivateBestChain
\* compares pindexMostWork with the tip afterwards.
Release(th) ==
    /\ op' = FreeOp
    /\ pc' = [pc EXCEPT ![th] = "check"]
    /\ UNCHANGED <<blk, most, flushing>>

\* Mutants: the tip of the branch is marked in place of the block that failed;
\* nothing is.
StepInvalidTarget ==
    /\ Connecting
    /\ ConnectFails(NextToward(tip, op.target))
    /\ status' = [status EXCEPT ![op.target] = @ \cup {"FAILED_CHILD"}]
    /\ dirty' = dirty \cup {op.target}
    /\ candidates' = candidates \ {op.target}
    /\ Release(op.th)
    /\ UNCHANGED <<next, linkVars, chainVars, diskVars, lockVars, lifeVars>>

StepInvalidUnmarked ==
    /\ Connecting
    /\ ConnectFails(NextToward(tip, op.target))
    /\ Release(op.th)
    /\ UNCHANGED <<indexVars, linkVars, candidates, chainVars, diskVars,
                   lockVars, lifeVars>>

\* ConnectTip fails: InvalidBlockFound.  CheckBlock notes lock conflicts.
StepInvalid ==
    /\ Connecting /\ coinsTip = tip
    /\ LET b == NextToward(tip, op.target) IN
          /\ ConnectFails(b)
          /\ status' = [status EXCEPT ![b] = @ \cup {"FAILED_VALID"}]
          /\ dirty' = dirty \cup {b}
          /\ candidates' = candidates \ {b}
          /\ rejected' = IF LockChecked(b) /\ b \in conflicted
                          THEN rejected \cup {b} ELSE rejected
    /\ Release(op.th)
    /\ UNCHANGED <<next, linkVars, chainVars, diskVars, conflicted, lifeVars>>

\* Mutant: the lock is released after each block.
StepEndAlways ==
    /\ Running("step") /\ tip # op.oldTip
    /\ Release(op.th)
    /\ UNCHANGED <<indexVars, linkVars, candidates, chainVars, diskVars,
                   lockVars, lifeVars>>

StepEnd ==
    /\ Running("step")
    /\ tip = op.target \/ Work[tip] > Work[op.oldTip]
    /\ Release(op.th)
    /\ UNCHANGED <<indexVars, linkVars, candidates, chainVars, diskVars,
                   lockVars, lifeVars>>

\* Mutant: ActivateBestChain makes one step.
LoopCheckOnce(th) ==
    /\ up = "up" /\ pc[th] = "check"
    /\ Drop(th)
    /\ UNCHANGED <<indexVars, linkVars, candidates, chainVars, diskVars,
                   lockVars, csVars, lifeVars>>

\* "while (pindexMostWork != chainActive.Tip())", without cs_main.
LoopCheck(th) ==
    /\ up = "up" /\ pc[th] = "check"
    /\ \/ /\ most[th] # tip
          /\ Proceed(th)
       \/ /\ most[th] = tip
          /\ \/ Drop(th)
             \/ pc' = [pc EXCEPT ![th] = "flush"] /\ UNCHANGED <<blk, most>>
    /\ UNCHANGED <<indexVars, linkVars, candidates, chainVars, diskVars,
                   lockVars, csVars, lifeVars>>

-----------------------------------------------------------------------------
(* FlushStateToDisk                                                        *)

\* FLUSH_STATE_PERIODIC after the relay, when it is time to.
StartFlush(th) ==
    /\ Free /\ pc[th] = "flush"
    /\ op' = Section(th, "flush", None, None, 0)
    /\ flushing' = TRUE
    /\ UNCHANGED <<indexVars, linkVars, candidates, chainVars, diskVars,
                   lockVars, threadVars, lifeVars>>

\* WriteBlockIndex, one entry at a time, in the order of addresses.
FlushIndexEntry(b) ==
    /\ up = "up" /\ flushing /\ b \in dirty
    /\ dStatus' = [dStatus EXCEPT ![b] = status[b]]
    /\ dNext' = [dNext EXCEPT ![b] = next[b]]
    /\ dirty' = dirty \ {b}
    /\ UNCHANGED <<status, next, linkVars, candidates, chainVars, dCoins,
                   lockVars, threadVars, csVars, lifeVars>>

\* Mutant: the coins are flushed before the block index.
FlushCoinsFirst ==
    /\ up = "up" /\ flushing
    /\ dCoins' = coinsTip
    /\ flushing' = FALSE
    /\ IF op.kind = "flush"
       THEN op' = FreeOp /\ Drop(op.th)
       ELSE UNCHANGED <<op, threadVars>>
    /\ UNCHANGED <<indexVars, linkVars, candidates, chainVars, dStatus, dNext,
                   lockVars, lifeVars>>

\* "Finally flush the chainstate (which may refer to block index entries)."
FlushCoins ==
    /\ up = "up" /\ flushing /\ dirty = {}
    /\ dCoins' = coinsTip
    /\ flushing' = FALSE
    /\ IF op.kind = "flush"
       THEN op' = FreeOp /\ Drop(op.th)
       ELSE UNCHANGED <<op, threadVars>>
    /\ UNCHANGED <<indexVars, linkVars, candidates, chainVars, dStatus, dNext,
                   lockVars, lifeVars>>

CountOp(name) == name \in Ops /\ ops < MaxOps /\ ops' = ops + 1 /\ UNCHANGED <<up, crashes>>

\* A write fails or the disk is full: state.Error or state.Abort.  The caller
\* returns without UpdateTip; only DisconnectBlocksAndReprocess goes on.
\* AbortNode asks for a shutdown, and the threads run on until it comes.
FlushFails ==
    /\ up = "up" /\ flushing
    /\ CountOp("flush failure")
    /\ flushing' = FALSE
    /\ \/ /\ op.kind = "reprocess"
          /\ op' = [op EXCEPT !.newTip = None]
          /\ UNCHANGED threadVars
       \/ op.kind # "reprocess" /\ op' = FreeOp /\ Drop(op.th)
    /\ UNCHANGED <<indexVars, linkVars, candidates, chainVars, diskVars, lockVars>>

-----------------------------------------------------------------------------
(* invalidateblock, reconsiderblock, ReprocessBlocks                       *)

\* InvalidateBlock marks the block ...
InvalidateBlock(th, b) ==
    /\ Free /\ pc[th] = "idle" /\ b \in Known
    /\ CountOp("invalidate")
    /\ status' = [status EXCEPT ![b] = @ \cup {"FAILED_VALID"}]
    /\ dirty' = dirty \cup {b}
    /\ candidates' = candidates \ {b}
    /\ op' = Section(th, "invalidate", b, None, 0)
    /\ UNCHANGED <<next, linkVars, chainVars, diskVars, lockVars, threadVars, flushing>>

\* ... marks and disconnects the tip as long as it builds on the block ...
InvalidateTip ==
    /\ Running("invalidate") /\ op.target \in Anc[tip]
    /\ status' = [status EXCEPT ![tip] = @ \cup {"FAILED_CHILD"}]
    /\ dirty' = dirty \cup {tip}
    /\ candidates' = candidates \ {tip}
    /\ DisconnectTip(op)
    /\ UNCHANGED <<next, linkVars, tip, diskVars, lockVars, threadVars, lifeVars>>

\* Mutant: the block is left on the active chain.
InvalidateEndEarly ==
    /\ Running("invalidate")
    /\ op' = FreeOp
    /\ Proceed(op.th)
    /\ UNCHANGED <<indexVars, linkVars, candidates, chainVars, diskVars,
                   lockVars, flushing, lifeVars>>

\* ... and puts back the candidates that were pruned under the old tip.
InvalidateEnd ==
    /\ Running("invalidate") /\ op.target \notin Anc[tip]
    /\ candidates' = candidates \cup
          {x \in linked : ~Failed(x) /\ HasData(x) /\ ~Worse(x, tip, seq)}
    /\ op' = FreeOp
    /\ Proceed(op.th)
    /\ UNCHANGED <<indexVars, linkVars, chainVars, diskVars, lockVars, flushing, lifeVars>>

\* reconsiderblock.
ReconsiderBlock(th, b) ==
    /\ Free /\ pc[th] = "idle" /\ b \in Known
    /\ CountOp("reconsider")
    /\ Reconsider(b)
    /\ Proceed(th)
    /\ UNCHANGED <<next, linkVars, chainVars, diskVars, lockVars, csVars>>

\* ReprocessBlocks, called for a lock that won: the rejected blocks within
\* its window of time are reconsidered, each under cs_main of its own, ...
ReprocessBlocks(th) ==
    /\ up = "up" /\ pc[th] = "idle"
    /\ CountOp("reprocess")
    /\ pc' = [pc EXCEPT ![th] = "reprocess"]
    /\ UNCHANGED <<indexVars, linkVars, candidates, chainVars, diskVars,
                   lockVars, blk, most, csVars>>
ReprocessRejected(th, b) ==
    /\ Free /\ pc[th] = "reprocess" /\ b \in rejected \cap Known
    /\ Reconsider(b)
    /\ UNCHANGED <<next, linkVars, chainVars, diskVars, lockVars, threadVars,
                   csVars, lifeVars>>

\* ... cs_main is taken for DisconnectBlocksAndReprocess, ...
ReprocessLock(th) ==
    /\ Free /\ pc[th] = "reprocess"
    /\ op' = Section(th, "reprocess", None, None, ReprocessDepth + 1)
    /\ UNCHANGED <<indexVars, linkVars, candidates, chainVars, diskVars,
                   lockVars, threadVars, flushing, lifeVars>>

\* ... whose DisconnectTip fails, unnoticed, at genesis, ...
ReprocessTip ==
    /\ Running("reprocess") /\ op.left > 0
    /\ \/ DisconnectTip([op EXCEPT !.left = @ - 1])
       \/ /\ coinsTip = tip /\ "UNDO" \notin status[tip]
          /\ op' = [op EXCEPT !.left = @ - 1]
          /\ UNCHANGED <<coinsTip, flushing>>
    /\ UNCHANGED <<indexVars, linkVars, candidates, tip, diskVars, lockVars,
                   threadVars, lifeVars>>

\* ... and ActivateBestChain.
ReprocessEnd ==
    /\ Running("reprocess") /\ op.left = 0
    /\ op' = FreeOp
    /\ Proceed(op.th)
    /\ UNCHANGED <<indexVars, linkVars, candidates, chainVars, diskVars,
                   lockVars, flushing, lifeVars>>

-----------------------------------------------------------------------------
(* Crash, restart                                                          *)

\* The process dies; the databases and the block files remain.
Die ==
    /\ up' = "down"
    /\ status' = [b \in Blocks |-> {}]
    /\ next' = [b \in Blocks |-> None]
    /\ dirty' = {} /\ linked' = {} /\ unlinked' = {} /\ candidates' = {}
    /\ seq' = [b \in Blocks |-> 0]
    /\ tip' = Genesis /\ coinsTip' = Genesis
    /\ conflicted' = {} /\ rejected' = {}
    /\ pc' = [t \in Threads |-> "idle"]
    /\ blk' = [t \in Threads |-> None]
    /\ most' = [t \in Threads |-> None]
    /\ op' = FreeOp
    /\ flushing' = FALSE
    /\ UNCHANGED <<tieUp, diskVars, ops>>

Crash ==
    /\ "crash" \in Ops /\ up = "up" /\ crashes < MaxCrashes
    /\ crashes' = crashes + 1
    /\ Die

\* The next call of ConnectBlock or DisconnectBlock.
NextBlockCall ==
    \/ Running("step") /\ (tip \notin Anc[op.target] \/ Connecting)
    \/ Running("invalidate") /\ op.target \in Anc[tip]
    \/ Running("reprocess") /\ op.left > 0

\* It asserts that the coins are those of the tip.
AssertionDies ==
    /\ NextBlockCall /\ coinsTip # tip
    /\ UNCHANGED crashes
    /\ Die

OnDisk == {b \in Blocks : dStatus[b] # {}}

\* The entries LoadBlockIndexGuts makes for hashPrev and hashNext and never
\* fills in: pprev is NULL, nHeight and nStatus are 0.
Dangling ==
    ({Parent[b] : b \in OnDisk \ {Genesis}} \cup {dNext[b] : b \in OnDisk})
        \ (OnDisk \cup {None})

\* LoadBlockIndexDB, when every entry of the index is there.
LoadedLinked == {b \in OnDisk : \A x \in Anc[b] : "DATA" \in dStatus[x]}

LoadedUnlinked ==
    {b \in OnDisk \ {Genesis} : "DATA" \in dStatus[b] /\ Parent[b] \notin LoadedLinked}

LoadedCandidates(up1) ==
    {b \in LoadedLinked :
        /\ dStatus[b] \cap FailedMask = {}
        /\ \/ Work[b] > Work[dCoins]
           \/ /\ Work[b] = Work[dCoins]
              /\ IF up1 THEN Rank[b] >= Rank[dCoins] ELSE Rank[b] <= Rank[dCoins]}

\* The node starts: ActivateBestChain follows on one thread (init.cpp).
\* LoadBlockIndexDB ends in PruneBlockIndexCandidates, whose assertion
\* stops the node when no candidate is left.
Restart(th) ==
    /\ up = "down"
    /\ Dangling = {}
    /\ status' = dStatus
    /\ next' = dNext
    /\ linked' = LoadedLinked
    /\ unlinked' = LoadedUnlinked
    /\ tip' = dCoins
    /\ coinsTip' = dCoins
    /\ tieUp' \in BOOLEAN
    /\ candidates' = LoadedCandidates(tieUp')
    /\ up' = IF candidates' = {} THEN "no candidate" ELSE "up"
    /\ pc' = [pc EXCEPT ![th] = "activate"]
    /\ UNCHANGED <<dirty, seq, diskVars, lockVars, blk, most, csVars, ops, crashes>>

\* The node starts on an index with dangling entries; the model does not
\* follow it further.
RestartDangling ==
    /\ up = "down"
    /\ Dangling # {}
    /\ up' = "dangling entry"
    /\ UNCHANGED <<indexVars, linkVars, candidates, chainVars, diskVars,
                   lockVars, threadVars, csVars, ops, crashes>>

\* -reindex, the way out of an unusable index, here with no block file kept.
Reindex ==
    /\ up \in {"no candidate", "dangling entry"}
    /\ up' = "up"
    /\ status' = [b \in Blocks |-> IF b = Genesis THEN {"TREE", "DATA"} ELSE {}]
    /\ next' = [b \in Blocks |-> None]
    /\ linked' = {Genesis} /\ unlinked' = {} /\ candidates' = {Genesis}
    /\ seq' = [b \in Blocks |-> IF b = Genesis THEN 1 ELSE 0]
    /\ tip' = Genesis /\ coinsTip' = Genesis
    /\ dStatus' = status' /\ dNext' = next' /\ dCoins' = Genesis
    /\ pc' = [t \in Threads |-> "idle"]
    /\ UNCHANGED <<dirty, tieUp, lockVars, blk, most, csVars, ops, crashes>>

-----------------------------------------------------------------------------
NonGenesis == Blocks \ {Genesis}

ThreadStep(th) ==
    \/ AcceptBlock(th)
    \/ Enter(th)
    \/ LoopCheck(th)
    \/ StartFlush(th)
    \/ ReprocessLock(th)

SectionStep ==
    \/ FindReject \/ FindNothing \/ FindChain
    \/ StepDisconnect \/ StepConnect \/ StepInvalid \/ StepEnd
    \/ UpdateTip
    \/ InvalidateTip \/ InvalidateEnd
    \/ ReprocessTip \/ ReprocessEnd
    \/ \E b \in Blocks : FlushIndexEntry(b)
    \/ FlushCoins

Next ==
    \/ \E b \in NonGenesis :
          \/ AcceptBlockHeader(b)
          \/ LockAppears(b) \/ LockExpires(b)
          \/ \E th \in Threads :
                \/ CheckNewBlock(th, b)
                \/ InvalidateBlock(th, b)
                \/ ReconsiderBlock(th, b)
                \/ ReprocessRejected(th, b)
    \/ \E th \in Threads : ThreadStep(th) \/ ReprocessBlocks(th) \/ Restart(th)
    \/ SectionStep
    \/ FlushFails
    \/ Crash \/ AssertionDies \/ RestartDangling \/ Reindex

Spec == Init /\ [][Next]_vars

\* The holder of cs_main runs, and a thread that can take cs_main and keeps
\* being able to takes it.
FairSpec ==
    /\ Spec
    /\ WF_vars(SectionStep)
    /\ \A th \in Threads : WF_vars(ThreadStep(th))

-----------------------------------------------------------------------------
TypeOK ==
    /\ status \in [Blocks -> SUBSET Flags]
    /\ next \in [Blocks -> Blocks \cup {None}]
    /\ dirty \in SUBSET Blocks
    /\ linked \in SUBSET Blocks
    /\ unlinked \in SUBSET Blocks
    /\ seq \in [Blocks -> Nat]
    /\ tieUp \in BOOLEAN
    /\ candidates \in SUBSET Blocks
    /\ tip \in Blocks
    /\ coinsTip \in Blocks
    /\ dStatus \in [Blocks -> SUBSET Flags]
    /\ dNext \in [Blocks -> Blocks \cup {None}]
    /\ dCoins \in Blocks
    /\ conflicted \in SUBSET LockSensitive
    /\ rejected \in SUBSET Blocks
    /\ pc \in [Threads -> PC]
    /\ blk \in [Threads -> Blocks \cup {None}]
    /\ most \in [Threads -> Blocks \cup {None}]
    /\ op \in Sections
    /\ flushing \in BOOLEAN
    /\ up \in {"up", "down", "no candidate", "dangling entry"}
    /\ ops \in 0..MaxOps
    /\ crashes \in 0..MaxCrashes

\* A block that could be on the best chain: it and its ancestors have their
\* data, and none of them is marked invalid.
Eligible(b) == \A x \in Anc[b] : HasData(x) /\ ~Failed(x)

\* No thread is inside ActivateBestChain or about to enter it.
Quiet == Free /\ \A th \in Threads : pc[th] \in {"idle", "checked", "flush"}

\* ActivateBestChain: "The result is either failure or an activated best
\* chain".  When the threads are done, no branch the node has in full and
\* does not know to be invalid has more work than the active chain, in
\* whatever order headers, blocks, failures and restarts came.
BestChainActive == Quiet => \A b \in Blocks : Eligible(b) => Work[b] <= Work[tip]

\* CheckBlockIndex on setBlockIndexCandidates: an eligible block that sorts
\* at least as good as the tip is a candidate, and no block that sorts worse
\* is one.
CandidatesExact ==
    Quiet => /\ \A b \in Blocks : Eligible(b) /\ ~Worse(b, tip, seq) => b \in candidates
             /\ \A b \in candidates : b \in linked /\ ~Worse(b, tip, seq)

\* CheckBlockIndex on nChainTx and mapBlocksUnlinked: a block is linked
\* exactly when it and all its ancestors have data, however out of order the
\* data came, and a block with data waits in mapBlocksUnlinked exactly when
\* an ancestor's data is missing.
LinkedExact ==
    up = "up" =>
        /\ \A b \in Blocks : b \in linked <=> \A x \in Anc[b] : HasData(x)
        /\ \A b \in Blocks : b \in unlinked <=> HasData(b) /\ b \notin linked

\* CheckBlockIndex: "The failed mask cannot be set for blocks without
\* invalid parents."
FailureHasCause ==
    Free => \A b \in Blocks :
        Failed(b) => \E x \in Anc[b] : "FAILED_VALID" \in status[x]

\* The active chain can be walked back: each of its blocks was connected by
\* ConnectBlock and has data and undo data; the coins are those of its tip;
\* and no block of it is marked invalid.
ActiveChainSound ==
    Free => /\ coinsTip = tip
            /\ \A b \in Anc[tip] \ {Genesis} :
                  {"DATA", "UNDO", "SCRIPTS"} \subseteq status[b] /\ ~Failed(b)

\* Whatever FlushStateToDisk was doing when the process died, the best block
\* of the coin database is a block the block tree database knows, with the
\* data and undo data to walk from it back to genesis.
DiskCoinsBacked ==
    \A b \in Anc[dCoins] \ {Genesis} : {"DATA", "UNDO"} \subseteq dStatus[b]

\* The assertion that opens ConnectBlock and DisconnectBlock: "verify that
\* the view's current state corresponds to the previous block".
BlockCallsFindTheirCoins == NextBlockCall => coinsTip = tip

\* What is seen of the chain.  While ActivateBestChainStep runs, and holds
\* cs_main, the others see the tip from before; a process that is down has what
\* is on disk.
IsUp == up = "up"
ShownTip == IF ~IsUp THEN dCoins ELSE IF op.kind = "step" THEN op.oldTip ELSE tip
CoinsNow == IF IsUp THEN coinsTip ELSE dCoins
InvalidNow == {b \in Blocks : "FAILED_VALID" \in IF IsUp THEN status[b] ELSE dStatus[b]}
Doing == IF op.kind = "step" THEN "activate"
         ELSE IF op.kind \in {"invalidate", "reprocess"} THEN op.kind ELSE "rest"
TargetNow == IF op.kind = "invalidate" THEN op.target ELSE None

Active == INSTANCE ActiveChain WITH
    MostReprocessed <- ReprocessDepth + 1,
    running <- IsUp, shown <- ShownTip, coins <- CoinsNow, saved <- dCoins,
    invalid <- InvalidNow, doing <- Doing, target <- TargetNow, left <- op.left

\* The block index with its candidates, sections and flushes implements
\* ActiveChain.  Between the sections of cs_main the chain only gets better
\* ("We're in a better position than we were"), but for a block found invalid
\* just above its tip, an operator or a crash; the coins take one block off or
\* put one on at a time, none that is marked, none that was just taken off.
ImplementsActiveChain == Active!Spec

\* No thread stays in an operation for ever, activating the best chain above
\* all: it comes back, or the process is gone.
ActivationEnds ==
    \A th \in Threads : []<>(pc[th] = "idle" \/ up # "up")
=============================================================================
