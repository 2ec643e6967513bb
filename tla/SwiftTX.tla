------------------------------- MODULE SwiftTX -------------------------------
(***************************************************************************)
(* Transaction locks (swifttx.cpp).  A lock request comes with a           *)
(* transaction ("ix", or from the node's own wallet or RPC), votes come    *)
(* from masternodes ("txlvote"), in any order; enough votes lock the       *)
(* transaction's inputs against every other transaction, in the memory     *)
(* pool and in blocks, for an hour.                                        *)
(*                                                                         *)
(* Each handler is one step.  Nothing but luck makes it so in the code:    *)
(* ThreadCheckObfuScationPool cleans the maps without a lock while the     *)
(* message thread fills them.                                              *)
(*                                                                         *)
(* The height a vote names decides whether it counts: here it is the       *)
(* lock's height or not.  Sporks 2 and 3 are on, the node is synced.       *)
(***************************************************************************)
EXTENDS Integers, Sequences, FiniteSets

CONSTANTS
    Txs,
    Outpoints,
    Vin,        \* Vin[t]: the outpoints t spends
    Nodes,      \* the masternodes of the top SWIFTTX_SIGNATURES_TOTAL ranks
    Self,       \* this node's own masternode, or None
    None,
    Required,   \* SWIFTTX_SIGNATURES_REQUIRED
    Ops         \* what may happen: "early" votes before their request,
                \* "reject"ed requests, "local" requests the memory pool refuses,
                \* an hour passes ("expire")

ASSUME VinAssumption == Vin \in [Txs -> SUBSET Outpoints] /\ None \notin Txs \cup Nodes
ASSUME SelfAssumption == Self \in Nodes \cup {None}
ASSUME RequiredAssumption == Required \in Nat \ {0}

VARIABLES
    lockReq,       \* mapTxLockReq: no entry, the transaction, or an empty one
    rejectedReq,   \* mapTxLockReqRejected
    voteSeen,      \* mapTxLockVote: pairs of masternode and transaction
    lock,          \* mapTxLocks
    lockedInputs,  \* mapLockedInputs
    pool,          \* the memory pool
    mined          \* transactions of the active chain

reqVars == <<lockReq, rejectedReq>>
lockVars == <<voteSeen, lock, lockedInputs>>
chainVars == <<pool, mined>>
vars == <<lockReq, rejectedReq, voteSeen, lock, lockedInputs, pool, mined>>

ConsensusLock ==
    [made : BOOLEAN, height : BOOLEAN, votes : Seq([node : Nodes, right : BOOLEAN]), expired : BOOLEAN]
NoLock == [made |-> FALSE, height |-> FALSE, votes |-> <<>>, expired |-> FALSE]
Conflict(t, u) == t # u /\ Vin[t] \cap Vin[u] # {}

Init ==
    /\ lockReq = [t \in Txs |-> "none"]
    /\ rejectedReq = {}
    /\ voteSeen = {}
    /\ lock = [t \in Txs |-> NoLock]
    /\ lockedInputs = [o \in Outpoints |-> None]
    /\ pool = {}
    /\ mined = {}

-----------------------------------------------------------------------------
(* Helpers                                                                 *)

\* CountSignatures: -1 while the lock's height is not known.
CountSignatures(l) ==
    IF l.height THEN Cardinality({i \in DOMAIN l.votes : l.votes[i].right}) ELSE -1
Complete(l) == CountSignatures(l) >= Required

\* CreateNewLock, when all inputs are old enough and when not.
CreateNewLock(l, aged) == IF aged THEN [l EXCEPT !.made = TRUE, !.height = TRUE] ELSE l

\* What other transaction the inputs of t are locked for.
LockedFor(locked, t) == {locked[o] : o \in Vin[t]} \ {None, t}

\* AcceptToMemoryPool may accept t.
Acceptable(t) ==
    /\ t \notin pool \cup mined
    /\ LockedFor(lockedInputs, t) = {}
    /\ \A u \in pool \cup mined : ~Conflict(t, u)

\* The inputs of t that are not locked are locked for t.
LockInputs(t) ==
    [o \in Outpoints |-> IF o \in Vin[t] /\ lockedInputs[o] = None THEN t ELSE lockedInputs[o]]

\* Mutant: the lock of u is not looked up before it is written to.
CancelUnchecked(l, t, u) ==
    [x \in Txs |-> IF x \in {t, u} THEN [l[x] EXCEPT !.expired = TRUE] ELSE l[x]]

\* CheckForConflictingLocks found that one of the inputs is locked for u.
Cancel(l, t, u) ==
    [x \in Txs |-> IF x \in {t, u} /\ l[x].made THEN [l[x] EXCEPT !.expired = TRUE] ELSE l[x]]

\* ReprocessBlocks(15): the last blocks are disconnected, and some of them may
\* not be connected again.  Their transactions return to the memory pool,
\* except those that conflict with a lock.
Reprocess(locked) ==
    \E undone \in SUBSET mined :
        /\ mined' = mined \ undone
        /\ pool' = pool \cup {u \in undone : LockedFor(locked, u) = {}}

-----------------------------------------------------------------------------
(* Lock requests                                                           *)

NewRequest(t) == lockReq[t] = "none" /\ t \notin rejectedReq

\* An "ix" message whose transaction enters the memory pool.
RequestAccepted(t, aged) ==
    /\ NewRequest(t) /\ Acceptable(t)
    /\ lock' = [lock EXCEPT ![t] = CreateNewLock(@, aged)]
    /\ pool' = pool \cup {t}
    /\ voteSeen' = IF Self = None THEN voteSeen ELSE voteSeen \cup {<<Self, t>>}
    /\ lockReq' = [lockReq EXCEPT ![t] = "tx"]
    /\ UNCHANGED <<rejectedReq, lockedInputs, mined>>

\* One that does not: a conflict, missing inputs, a fee too small.  Its inputs
\* are locked all the same.
RequestRejected(t, aged) ==
    /\ "reject" \in Ops
    /\ NewRequest(t)
    /\ rejectedReq' = rejectedReq \cup {t}
    /\ lockedInputs' = LockInputs(t)
    /\ LET l == [lock EXCEPT ![t] = CreateNewLock(@, aged)] IN
          \/ /\ ~Complete(l[t])
             /\ lock' = l
             /\ UNCHANGED <<lockReq, chainVars>>
          \/ /\ Complete(l[t]) /\ LockedFor(lockedInputs', t) = {}
             /\ lock' = l
             /\ lockReq' = [lockReq EXCEPT ![t] = "tx"]
             /\ Reprocess(lockedInputs')
          \/ /\ Complete(l[t])
             /\ \E u \in LockedFor(lockedInputs', t) : lock' = Cancel(l, t, u)
             /\ UNCHANGED <<lockReq, chainVars>>
    /\ UNCHANGED voteSeen

\* sendrawtransaction with a lock, and RelayWalletTransaction.
LocalRequest(t, aged) ==
    /\ t \notin pool \cup mined
    /\ lockReq' = [lockReq EXCEPT ![t] = IF @ = "none" THEN "tx" ELSE @]
    /\ lock' = [lock EXCEPT ![t] = CreateNewLock(@, aged)]
    /\ \/ Acceptable(t) /\ pool' = pool \cup {t}
       \/ "local" \in Ops /\ UNCHANGED pool
    /\ UNCHANGED <<rejectedReq, voteSeen, lockedInputs, mined>>

-----------------------------------------------------------------------------
(* Votes                                                                   *)

\* Mutant: votes that were seen are counted again.
NewVoteAgain(n, t) ==
    /\ Len(lock[t].votes) <= Cardinality(Nodes)
    /\ "early" \in Ops \/ lockReq[t] # "none" \/ t \in rejectedReq
    /\ voteSeen' = voteSeen \cup {<<n, t>>}

NewVote(n, t) ==
    /\ <<n, t>> \notin voteSeen
    /\ "early" \in Ops \/ lockReq[t] # "none" \/ t \in rejectedReq
    /\ voteSeen' = voteSeen \cup {<<n, t>>}

\* The masternode is not known, or the signature does not fit: the vote is
\* dropped, and will not be looked at again.
DropVote(n, t) ==
    /\ NewVote(n, t)
    /\ UNCHANGED <<reqVars, lock, lockedInputs, chainVars>>

\* AddSignature, in a lock that is made if need be.
WithVote(n, t, right) ==
    [lock[t] EXCEPT !.made = TRUE, !.votes = Append(@, [node |-> n, right |-> right])]

\* Mutant: the inputs are locked for the first vote on.
VoteLocksEarly(n, t, right) ==
    /\ NewVote(n, t)
    /\ ~Complete(WithVote(n, t, right))
    /\ lock' = [lock EXCEPT ![t] = WithVote(n, t, right)]
    /\ lockedInputs' = IF lockReq[t] = "tx" THEN LockInputs(t) ELSE lockedInputs
    /\ UNCHANGED <<reqVars, chainVars>>

\* ProcessConsensusVote, the lock not complete.
Vote(n, t, right) ==
    /\ NewVote(n, t)
    /\ ~Complete(WithVote(n, t, right))
    /\ lock' = [lock EXCEPT ![t] = WithVote(n, t, right)]
    /\ UNCHANGED <<reqVars, lockedInputs, chainVars>>

\* ProcessConsensusVote, the lock complete.  mapTxLockReq[ctx.txHash] makes an
\* empty transaction of a request that was rejected: it has no input to lock
\* and conflicts with nothing.
VoteCompletes(n, t, right) ==
    /\ NewVote(n, t)
    /\ LET l == [lock EXCEPT ![t] = WithVote(n, t, right)] IN
          /\ Complete(l[t])
          /\ lockReq' = [lockReq EXCEPT ![t] = IF @ = "none" THEN "empty" ELSE @]
          /\ \/ /\ lockReq'[t] = "tx"
                /\ \E u \in LockedFor(lockedInputs, t) : lock' = Cancel(l, t, u)
                /\ UNCHANGED <<lockedInputs, chainVars>>
             \/ /\ lockReq'[t] = "tx" => LockedFor(lockedInputs, t) = {}
                /\ lock' = l
                /\ lockedInputs' = IF lockReq'[t] = "tx" THEN LockInputs(t) ELSE lockedInputs
                /\ IF t \in rejectedReq THEN Reprocess(lockedInputs') ELSE UNCHANGED chainVars
          /\ UNCHANGED rejectedReq

-----------------------------------------------------------------------------
(* Time, blocks                                                            *)

\* An hour has passed since the lock was made.
Expire(t) ==
    /\ "expire" \in Ops
    /\ lock[t].made /\ ~lock[t].expired
    /\ lock' = [lock EXCEPT ![t].expired = TRUE]
    /\ UNCHANGED <<reqVars, voteSeen, lockedInputs, chainVars>>

Expired == {t \in Txs : lock[t].expired}

\* Mutant: the inputs stay locked.
CleanLocksOnly ==
    /\ Expired # {}
    /\ lock' = [t \in Txs |-> IF t \in Expired THEN NoLock ELSE lock[t]]
    /\ lockReq' = [t \in Txs |-> IF t \in Expired THEN "none" ELSE lockReq[t]]
    /\ rejectedReq' = rejectedReq \ Expired
    /\ UNCHANGED <<voteSeen, lockedInputs, chainVars>>

\* CleanTransactionLocksList.  What it does beyond erasing the lock depends on
\* mapTxLockReq, and the inputs are erased whoever they are locked for.
CleanTransactionLocksList ==
    /\ Expired # {}
    /\ LET requested == {t \in Expired : lockReq[t] # "none"}
           inputs == UNION {Vin[t] : t \in {u \in requested : lockReq[u] = "tx"}}
           votes == UNION {{<<lock[t].votes[i].node, t>> : i \in DOMAIN lock[t].votes} : t \in requested}
       IN /\ lockedInputs' = [o \in Outpoints |-> IF o \in inputs THEN None ELSE lockedInputs[o]]
          /\ lockReq' = [t \in Txs |-> IF t \in requested THEN "none" ELSE lockReq[t]]
          /\ rejectedReq' = rejectedReq \ requested
          /\ voteSeen' = voteSeen \ votes
    /\ lock' = [t \in Txs |-> IF t \in Expired THEN NoLock ELSE lock[t]]
    /\ UNCHANGED chainVars

\* A block with t is connected: CheckBlock finds no conflict with a lock.
Mine(t) ==
    /\ t \notin mined
    /\ \A u \in mined : ~Conflict(t, u)
    /\ LockedFor(lockedInputs, t) = {}
    /\ mined' = mined \cup {t}
    /\ pool' = {u \in pool \ {t} : ~Conflict(t, u)}
    /\ UNCHANGED <<reqVars, lockVars>>

Next ==
    \/ \E t \in Txs, aged \in BOOLEAN :
          RequestAccepted(t, aged) \/ RequestRejected(t, aged) \/ LocalRequest(t, aged)
    \/ \E n \in Nodes \ {Self}, t \in Txs :
          \/ DropVote(n, t)
          \/ \E right \in BOOLEAN : Vote(n, t, right) \/ VoteCompletes(n, t, right)
    \/ \E t \in Txs : Expire(t) \/ Mine(t)
    \/ CleanTransactionLocksList

Spec == Init /\ [][Next]_vars

\* Time passes, and the list is cleaned every minute.
FairSpec ==
    /\ Spec
    /\ WF_vars(CleanTransactionLocksList)
    /\ \A t \in Txs : WF_vars(Expire(t))

-----------------------------------------------------------------------------
(* Properties                                                              *)

TypeOK ==
    /\ lockReq \in [Txs -> {"none", "tx", "empty"}]
    /\ rejectedReq \in SUBSET Txs
    /\ voteSeen \in SUBSET (Nodes \X Txs)
    /\ lock \in [Txs -> ConsensusLock]
    /\ \A t \in Txs : ~lock[t].made => lock[t] = NoLock
    /\ lockedInputs \in [Outpoints -> Txs \cup {None}]
    /\ pool \in SUBSET Txs /\ mined \in SUBSET Txs

\* No masternode's vote is in a lock twice, under one height or two, however
\* often votes are sent and locks cleaned; nor is this node's own.
OneVoteEach ==
    \A t \in Txs : \A i, j \in DOMAIN lock[t].votes :
        lock[t].votes[i].node = lock[t].votes[j].node => i = j

\* CheckBlock: "only reject blocks when it's based on complete consensus".
LocksAreComplete ==
    \A o \in Outpoints : lockedInputs[o] # None => Complete(lock[lockedInputs[o]])

\* "Locks expire after 60 minutes": no input stays locked.
InputLocksExpire ==
    \A o \in Outpoints : (lockedInputs[o] # None) ~> (lockedInputs[o] = None)
=============================================================================
