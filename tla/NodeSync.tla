------------------------------ MODULE NodeSync ------------------------------
(***************************************************************************)
(* Synchronisation of the masternode data (master/node-sync.cpp) and of    *)
(* the maxnode data (max/node-sync.cpp), which is the same text but for    *)
(* the stage BUDGET.  Main and test network; regtest takes another way.    *)
(*                                                                         *)
(* Process runs every five seconds in ThreadCheckObfuScationPool; the      *)
(* message thread records arriving items.  Times are kept as what they are *)
(* compared with: an item came `recently' or more than ten seconds ago     *)
(* (`old'); a stage is `late' after 25 seconds.  Which of the peers that   *)
(* were not asked yet comes first in vNodes is left open.                  *)
(***************************************************************************)
EXTENDS Integers, FiniteSets

CONSTANTS
    SyncPeers,    \* places in vNodes; a new peer takes the place of a lost one
    WithBudget,   \* TRUE: the masternodes' version, FALSE: the maxnodes'
    Threshold,    \* MASTERNODE_SYNC_THRESHOLD
    MaxSleeps     \* bound: how often the computer sleeps for an hour

ASSUME ThresholdPositive == Threshold \in Nat \ {0}
ASSUME MaxSleepsNat == MaxSleeps \in Nat

VARIABLES
    sync,         \* the fields of CMasternodeSync
    fulfilled,    \* CNode::vecRequestsFulfilled of each peer
    chainSynced,  \* IsBlockchainSynced's static fBlockchainSynced
    tipRecent,    \* the tip is less than an hour old and nothing is imported
    slept,        \* the last call of IsBlockchainSynced is an hour ago
    sleeps

syncVars == <<sync, fulfilled, chainSynced, tipRecent, slept, sleeps>>

Stages == {"INITIAL", "SPORKS", "LIST", "MNW", "BUDGET", "FINISHED", "FAILED"}
Collecting == {"LIST", "MNW", "BUDGET"}   \* the stages that wait for items
Asking == {"SPORKS"} \cup Collecting      \* a peer is asked once in each

\* Reset().  got counts an item as mapSeenSync* do, up to the threshold.
ResetSync == [stage |-> "INITIAL", attempt |-> 0, late |-> FALSE,
              retry |-> FALSE,
              last |-> [s \in Collecting |-> "none"],
              got |-> [s \in Collecting |-> 0]]

NodeSyncInit ==
    /\ sync = ResetSync
    /\ fulfilled = [p \in SyncPeers |-> {}]
    /\ chainSynced = FALSE /\ tipRecent \in BOOLEAN
    /\ slept = FALSE /\ sleeps = 0

\* GetNextAsset; the maxnodes' switch has no case for BUDGET.
Following(stage) ==
    CASE stage \in {"INITIAL", "FAILED"} -> "SPORKS"
      [] stage = "SPORKS" -> "LIST"
      [] stage = "LIST" -> "MNW"
      [] stage = "MNW" -> "BUDGET"
      [] OTHER -> IF WithBudget THEN "FINISHED" ELSE stage
NextAsset(s) == [s EXCEPT !.stage = Following(s.stage), !.attempt = 0, !.late = FALSE]

AfterSleep(s) == IF slept THEN ResetSync ELSE s

\* IsBlockchainSynced with cs_main free or not: what it returns.
BlockchainSynced(lockMain) ==
    (chainSynced /\ ~slept) \/ (lockMain /\ tipRecent)

\* The stage at the top of Process: a sync that lost all nodes and a failed
\* one start again, and the first stage is left at once.
MayStart(enabled) ==
    /\ sync.stage = "FINISHED" => ~enabled
    /\ sync.stage = "FAILED" => sync.retry
Restarted ==
    LET s == IF sync.stage \in {"FINISHED", "FAILED"} THEN ResetSync ELSE sync
    IN IF s.stage = "INITIAL" THEN NextAsset(s) ELSE s

-----------------------------------------------------------------------------
(* The loop over vNodes: s is the state before it, f the fulfilled         *)
(* requests.  Each peer is asked once; the first that was not is p.        *)

ItemsOld(s) == s.last[s.stage] = "old" /\ s.attempt >= Threshold
TimedOut(s) == s.last[s.stage] = "none" /\ (s.attempt >= 3 * Threshold \/ s.late)

FailedSync(s) == [s EXCEPT !.stage = "FAILED", !.attempt = 0, !.retry = FALSE]
Asked(s) == [s EXCEPT !.attempt = @ + 1]
AskedSpork(s) ==
    LET t == IF s.attempt >= 2 THEN NextAsset(s) ELSE s IN Asked(t)

\* Mutant: a budget stage without items does not time out.
LeavesAtOnceNever(s) == s.stage \in Collecting /\ ItemsOld(s)

\* Whether the stage ends before any peer's mark is looked at.
LeavesAtOnce(s) ==
    \/ s.stage \in {"LIST", "MNW"} /\ ItemsOld(s)
    \/ s.stage = "BUDGET" /\ WithBudget /\ (ItemsOld(s) \/ TimedOut(s))

\* What is done with the first peer that was not asked in this stage.
AfterAsking(s, enforce) ==
    IF s.stage = "SPORKS" THEN AskedSpork(s)
    ELSE IF s.stage \in {"LIST", "MNW"} /\ TimedOut(s)
         THEN IF enforce THEN FailedSync(s) ELSE NextAsset(s)
         ELSE IF s.attempt >= 3 * Threshold THEN s ELSE Asked(s)

\* The loop: s, and the marks f, become the new state.
PeerLoop(s, f, enforce) ==
    LET unasked == {p \in SyncPeers : s.stage \notin f[p]}
    IN IF s.stage \notin Asking THEN sync' = s /\ fulfilled' = f
       ELSE IF LeavesAtOnce(s) /\ SyncPeers # {}
       THEN sync' = NextAsset(s) /\ fulfilled' = f
       ELSE \/ unasked = {} /\ sync' = s /\ fulfilled' = f
            \/ \E p \in unasked :
                  /\ fulfilled' = [f EXCEPT ![p] = @ \cup {s.stage}]
                  /\ sync' = AfterAsking(s, enforce)

\* Process.  Each lock is only tried: lockClear is the one in
\* ClearFulfilledRequest, lockNodes the one before the loop.
Process(enabled, enforce, lockMain, lockClear, lockNodes) ==
    /\ MayStart(enabled)
    /\ LET started == Restarted
           cleared == started.stage = "SPORKS" /\ sync.stage # "SPORKS" /\ lockClear
           f == IF cleared THEN [p \in SyncPeers |-> {}] ELSE fulfilled
           s == AfterSleep(started)
       IN /\ chainSynced' = BlockchainSynced(lockMain)
          /\ slept' = FALSE
          /\ IF (~BlockchainSynced(lockMain) /\ s.stage \notin {"INITIAL", "SPORKS"})
                \/ ~lockNodes
             THEN sync' = s /\ fulfilled' = f
             ELSE PeerLoop(s, f, enforce)
    /\ UNCHANGED <<tipRecent, sleeps>>

\* CountEnabled() > 0, spork 8 and the locks, each where the code asks for it.
AskedIn(stages) == IF sync.stage \in stages THEN BOOLEAN ELSE {TRUE}
Environment == AskedIn({"FINISHED"}) \X AskedIn({"LIST", "MNW"})
Locks == BOOLEAN \X AskedIn({"INITIAL", "FINISHED", "FAILED"}) \X BOOLEAN

AnyProcess ==
    \E e \in Environment, k \in Locks : Process(e[1], e[2], k[1], k[2], k[3])

\* A call of IsBlockchainSynced by anybody else.
CallBlockchainSynced ==
    /\ \E lockMain \in BOOLEAN : chainSynced' = BlockchainSynced(lockMain)
    /\ sync' = AfterSleep(sync)
    /\ slept' = FALSE
    /\ UNCHANGED <<fulfilled, tipRecent, sleeps>>

-----------------------------------------------------------------------------
(* The others: messages, peers, the clock, the chain                       *)

\* AddedMasternodeList, AddedMasternodeWinner, AddedBudgetItem: an item that
\* was seen often enough does not count.
AddedItem(c) ==
    /\ sync.got[c] < Threshold
    /\ sync' = [sync EXCEPT !.got[c] = @ + 1, !.last[c] = "recent"]
    /\ UNCHANGED <<fulfilled, chainSynced, tipRecent, slept, sleeps>>

ItemAges(c) ==
    /\ sync.last[c] = "recent" /\ sync' = [sync EXCEPT !.last[c] = "old"]
    /\ UNCHANGED <<fulfilled, chainSynced, tipRecent, slept, sleeps>>

StageAges ==
    /\ \/ sync.stage \in Collecting /\ ~sync.late /\ sync' = [sync EXCEPT !.late = TRUE]
       \/ sync.stage = "FAILED" /\ ~sync.retry /\ sync' = [sync EXCEPT !.retry = TRUE]
    /\ UNCHANGED <<fulfilled, chainSynced, tipRecent, slept, sleeps>>

NewPeer(p) ==
    /\ fulfilled[p] # {}
    /\ fulfilled' = [fulfilled EXCEPT ![p] = {}]
    /\ UNCHANGED <<sync, chainSynced, tipRecent, slept, sleeps>>

TipMoves ==
    /\ tipRecent' = ~tipRecent
    /\ UNCHANGED <<sync, fulfilled, chainSynced, slept, sleeps>>

Sleep ==
    /\ sleeps < MaxSleeps /\ sleeps' = sleeps + 1
    /\ slept' = TRUE /\ tipRecent' = FALSE
    /\ UNCHANGED <<sync, fulfilled, chainSynced>>

\* "mnsync reset" and "maxnodesync reset".
ResetByUser ==
    /\ sleeps < MaxSleeps /\ sleeps' = sleeps + 1
    /\ sync' = ResetSync
    /\ UNCHANGED <<fulfilled, chainSynced, tipRecent, slept>>

SyncTimePasses == StageAges \/ \E c \in Collecting : ItemAges(c)

NodeSyncNext ==
    \/ AnyProcess \/ CallBlockchainSynced
    \/ \E c \in Collecting : AddedItem(c)
    \/ SyncTimePasses \/ TipMoves \/ Sleep \/ ResetByUser
    \/ \E p \in SyncPeers : NewPeer(p)

NodeSyncSpec == NodeSyncInit /\ [][NodeSyncNext]_syncVars

\* Process, with the locks it tries, and the chain up to date.
GoodProcess ==
    tipRecent /\ \E e \in Environment : Process(e[1], e[2], TRUE, TRUE, TRUE)

-----------------------------------------------------------------------------
\* Types; the attempts of a stage stay within the bound that ends it.
NodeSyncTypeOK ==
    /\ sync \in [stage : Stages, attempt : 0..3 * Threshold, late : BOOLEAN,
                 retry : BOOLEAN,
                 last : [Collecting -> {"none", "recent", "old"}],
                 got : [Collecting -> 0..Threshold]]
    /\ fulfilled \in [SyncPeers -> SUBSET Asking]
    /\ chainSynced \in BOOLEAN /\ tipRecent \in BOOLEAN /\ slept \in BOOLEAN
    /\ sleeps \in 0..MaxSleeps

\* Every stage ends: peers that were asked already, items that come late or
\* never, and locks that are taken do not hold the synchronisation for ever.
EveryStageEnds ==
    []<>(sync.stage = "FINISHED") \/ []<><<sync.stage' # sync.stage>>_syncVars
=============================================================================
