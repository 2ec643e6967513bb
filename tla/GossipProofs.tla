---------------------------- MODULE GossipProofs ----------------------------
(***************************************************************************)
(* What the masternode network agrees on, for any nodes, transactions,     *)
(* voters, heights and bounds: transaction locks, sporks and payees.       *)
(*                                                                         *)
(* Locks.  What keeps a vote out of a lock a second time is mapTxLockVote, *)
(* which CleanTransactionLocksList empties of the votes it finds in the    *)
(* locks it erases: the invariant is that it never forgets a vote that is  *)
(* in a lock still there.                                                  *)
(*                                                                         *)
(* Sporks.  The invariant says for two nodes what makes the one learn what *)
(* the other has in force: a message on its way, a question not yet        *)
(* answered, or a message that passed the checks and is about to be        *)
(* stored.  It rests on two others: what a node once knew it has something *)
(* as new in force, so that it need not ask for it when it is announced    *)
(* again, and what passed the checks is still newer when it is stored,     *)
(* unless UpdateSpork came between.                                        *)
(*                                                                         *)
(* Payees.  A vote is in the map before its tally counts it, so the        *)
(* invariant keeps a balance for every height and payee: votes = counted + *)
(* those a thread is about to count.  CleanPaymentList and Restart remove  *)
(* whole heights from both sides of it (KeptGood), and the file is a copy  *)
(* of two maps that were balanced with nobody about to count.  Height 0,   *)
(* where the empty votes go, is left out of the balance: CleanPaymentList  *)
(* may take such a vote between its two parts.                             *)
(*                                                                         *)
(* The masternode list.  Its types say that it stores only broadcasts that *)
(* were made, and no age beyond what removes an entry; the hashes of       *)
(* GetBlockHash are those of blocks.  At the end the parts are put         *)
(* together.                                                               *)
(***************************************************************************)
EXTENDS MCGossip, FiniteSetTheorems, StepLemmas

-----------------------------------------------------------------------------
(* Transaction locks (SwiftTX).                                             *)

\* Every vote in a lock is one that mapTxLockVote remembers.
VotesSeen ==
    \A t \in Txs : \A i \in DOMAIN lock[t].votes : <<lock[t].votes[i].node, t>> \in voteSeen

LockInv == TypeOK /\ VotesSeen /\ OneVoteEach

\* What a lock must be for VotesSeen and OneVoteEach, seen being the votes
\* that are remembered.
GoodLock(l, t, seen) ==
    /\ l \in ConsensusLock
    /\ ~l.made => l = NoLock
    /\ \A i \in DOMAIN l.votes : <<l.votes[i].node, t>> \in seen
    /\ \A i, j \in DOMAIN l.votes : l.votes[i].node = l.votes[j].node => i = j

\* The part of the type invariant that is not about locks.
RestOK ==
    /\ lockReq \in [Txs -> {"none", "tx", "empty"}]
    /\ rejectedReq \in SUBSET Txs
    /\ voteSeen \in SUBSET (Nodes \X Txs)
    /\ lockedInputs \in [Outpoints -> Txs \cup {None}]
    /\ pool \in SUBSET Txs /\ mined \in SUBSET Txs

GoodLocks(locks, seen) ==
    /\ locks = [t \in Txs |-> locks[t]]
    /\ \A t \in Txs : GoodLock(locks[t], t, seen)

LocksOK == GoodLocks(lock, voteSeen)

\* The invariant, lock by lock.
LEMMA LockParts == LockInv <=> RestOK /\ LocksOK
BY DEF LockInv, TypeOK, VotesSeen, OneVoteEach, GoodLock, RestOK, LocksOK, GoodLocks

-----------------------------------------------------------------------------
(* What the operations do to a lock                                        *)

\* No lock is a good one: it has no votes.
LEMMA NoLockGood == \A t, seen : GoodLock(NoLock, t, seen)
BY DEF NoLock, GoodLock, ConsensusLock

\* A good lock stays one when more votes are remembered.
LEMMA MoreSeen ==
    ASSUME NEW l, NEW t, NEW seen, NEW more, GoodLock(l, t, seen), seen \subseteq more
    PROVE  GoodLock(l, t, more)
BY DEF GoodLock

\* CreateNewLock leaves the votes alone.
LEMMA CreateNewLockGood ==
    ASSUME NEW l, NEW t, NEW seen, NEW aged \in BOOLEAN, GoodLock(l, t, seen)
    PROVE  GoodLock(CreateNewLock(l, aged), t, seen)
BY DEF GoodLock, ConsensusLock, CreateNewLock

\* So does the expiry of a lock that exists.
LEMMA ExpiredGood ==
    ASSUME NEW l, NEW t, NEW seen, GoodLock(l, t, seen), l.made
    PROVE  GoodLock([l EXCEPT !.expired = TRUE], t, seen)
BY DEF GoodLock, ConsensusLock

\* A vote that was not remembered is in no lock, and may be added.
LEMMA VoteGood ==
    ASSUME NEW l, NEW t, NEW seen, GoodLock(l, t, seen),
           NEW n \in Nodes, NEW right \in BOOLEAN, <<n, t>> \notin seen
    PROVE  GoodLock([l EXCEPT !.made = TRUE, !.votes = Append(@, [node |-> n, right |-> right])],
                    t, seen \cup {<<n, t>>})
<1> DEFINE v == [node |-> n, right |-> right]
           ll == [l EXCEPT !.made = TRUE, !.votes = Append(@, v)]
           Vote1 == [node : Nodes, right : BOOLEAN]
<1>1. l \in ConsensusLock /\ l.votes \in Seq(Vote1) /\ v \in Vote1
  BY DEF GoodLock, ConsensusLock
<1>2. Append(l.votes, v) \in Seq(Vote1)
  <2> DEFINE s == l.votes
  <2>1. s \in Seq(Vote1) /\ v \in Vote1
    BY <1>1
  <2> HIDE DEF s, v, Vote1
  <2> QED BY <2>1 DEF s
<1>3. ll.votes = Append(l.votes, v) /\ ll.made /\ ll \in ConsensusLock
  <2> HIDE DEF v
  <2> QED BY <1>1, <1>2 DEF ConsensusLock
<1>4. /\ DOMAIN ll.votes = DOMAIN l.votes \cup {Len(l.votes) + 1}
      /\ \A i \in DOMAIN l.votes : ll.votes[i] = l.votes[i] /\ i \in 1..Len(l.votes)
      /\ ll.votes[Len(l.votes) + 1] = v
  <2> DEFINE s == l.votes
  <2>1. s \in Seq(Vote1) /\ v \in Vote1 /\ ll.votes = Append(s, v)
    BY <1>1, <1>3
  <2> HIDE DEF s, v, ll, Vote1
  <2> QED BY <2>1 DEF s
<1>5. v.node = n
  OBVIOUS
<1>6. \A i \in DOMAIN l.votes : l.votes[i].node # n /\ <<l.votes[i].node, t>> \in seen
  BY DEF GoodLock
<1>7. \A i, j \in DOMAIN l.votes : l.votes[i].node = l.votes[j].node => i = j
  BY DEF GoodLock
<1> HIDE DEF v, ll
<1>8. \A i \in DOMAIN ll.votes : <<ll.votes[i].node, t>> \in seen \cup {<<n, t>>}
  BY <1>4, <1>5, <1>6
<1>9. \A i, j \in DOMAIN ll.votes : ll.votes[i].node = ll.votes[j].node => i = j
  BY <1>4, <1>5, <1>6, <1>7
<1>10. GoodLock(ll, t, seen \cup {<<n, t>>})
  BY <1>3, <1>8, <1>9 DEF GoodLock
<1> QED BY <1>10 DEF ll, v

-----------------------------------------------------------------------------
(* Operators of several actions                                            *)

\* LockInputs locks inputs for the transaction it is given.
LEMMA LockInputsType ==
    ASSUME NEW t \in Txs, lockedInputs \in [Outpoints -> Txs \cup {None}]
    PROVE  LockInputs(t) \in [Outpoints -> Txs \cup {None}]
BY DEF LockInputs

\* ReprocessBlocks moves transactions between the chain and the memory pool.
LEMMA ReprocessType ==
    ASSUME NEW locked, Reprocess(locked), pool \in SUBSET Txs, mined \in SUBSET Txs
    PROVE  pool' \in SUBSET Txs /\ mined' \in SUBSET Txs
BY DEF Reprocess

\* CheckForConflictingLocks lets two locks expire and leaves their votes alone.
LEMMA CancelGood ==
    ASSUME NEW l, NEW seen, NEW t, NEW u, GoodLocks(l, seen)
    PROVE  GoodLocks(Cancel(l, t, u), seen)
<1>1. ASSUME NEW x \in Txs PROVE GoodLock(Cancel(l, t, u)[x], x, seen)
  BY ExpiredGood DEF Cancel, GoodLocks
<1> QED BY <1>1 DEF Cancel, GoodLocks

\* One lock is replaced by a good one, while more votes are remembered.
LEMMA ExceptGood ==
    ASSUME NEW l, NEW seen, NEW more, seen \subseteq more, GoodLocks(l, seen),
           NEW t \in Txs, NEW new, GoodLock(new, t, more)
    PROVE  GoodLocks([l EXCEPT ![t] = new], more)
<1>1. ASSUME NEW x \in Txs, x # t PROVE GoodLock(l[x], x, more)
  BY MoreSeen DEF GoodLocks
<1> QED BY <1>1 DEF GoodLocks

\* So it is when a vote that was not remembered is added.
LEMMA WithVoteGood ==
    ASSUME LocksOK, NEW n \in Nodes, NEW t \in Txs, NEW right \in BOOLEAN, NewVote(n, t)
    PROVE  GoodLocks([lock EXCEPT ![t] = WithVote(n, t, right)], voteSeen')
<1>1. voteSeen' = voteSeen \cup {<<n, t>>} /\ <<n, t>> \notin voteSeen
  BY DEF NewVote
<1>2. GoodLock(WithVote(n, t, right), t, voteSeen')
  BY <1>1, VoteGood DEF WithVote, LocksOK, GoodLocks
<1> QED BY <1>1, <1>2, ExceptGood DEF LocksOK

-----------------------------------------------------------------------------
(* Every step preserves the invariant                                      *)

\* The initial state has no lock.
LEMMA InitParts == Init => RestOK /\ LocksOK
<1> SUFFICES ASSUME Init PROVE RestOK /\ LocksOK
  OBVIOUS
<1>1. LocksOK
  BY NoLockGood DEF Init, LocksOK, GoodLocks
<1> QED BY <1>1 DEF Init, RestOK

\* No operation of the node loses a vote that is in a lock, adds one twice, or
\* leaves the types.
LEMMA StepParts ==
    ASSUME RestOK, LocksOK, [Next]_vars
    PROVE  RestOK' /\ LocksOK'
<1> USE DEF RestOK
<1>1. ASSUME NEW t \in Txs, NEW aged \in BOOLEAN
      PROVE  GoodLocks([lock EXCEPT ![t] = CreateNewLock(@, aged)], voteSeen)
  <2>1. GoodLock(CreateNewLock(lock[t], aged), t, voteSeen)
    BY CreateNewLockGood DEF LocksOK, GoodLocks
  <2> QED BY <2>1, ExceptGood DEF LocksOK
<1>2. ASSUME NEW t \in Txs, NEW aged \in BOOLEAN, RequestAccepted(t, aged)
      PROVE  RestOK' /\ LocksOK'
  <2>1. RestOK'
    BY <1>2, SelfAssumption DEF RequestAccepted, NewRequest
  <2>2. GoodLocks(lock', voteSeen) /\ voteSeen \subseteq voteSeen'
    BY <1>1, <1>2 DEF RequestAccepted
  <2>3. LocksOK'
    BY <2>2, MoreSeen DEF LocksOK, GoodLocks
  <2> QED BY <2>1, <2>3
<1>3. ASSUME NEW t \in Txs, NEW aged \in BOOLEAN, RequestRejected(t, aged)
      PROVE  RestOK' /\ LocksOK'
  <2>1. lockedInputs' \in [Outpoints -> Txs \cup {None}]
    BY <1>3, LockInputsType DEF RequestRejected
  <2>2. /\ lockReq' \in [Txs -> {"none", "tx", "empty"}]
        /\ rejectedReq' \in SUBSET Txs
        /\ voteSeen' = voteSeen
    BY <1>3 DEF RequestRejected
  <2>3. pool' \in SUBSET Txs /\ mined' \in SUBSET Txs
    BY <1>3, ReprocessType DEF RequestRejected, chainVars
  <2>4. PICK l : GoodLocks(l, voteSeen) /\ (lock' = l \/ \E u : lock' = Cancel(l, t, u))
    BY <1>1, <1>3 DEF RequestRejected
  <2>5. LocksOK'
    BY <2>2, <2>4, CancelGood DEF LocksOK
  <2> QED BY <2>1, <2>2, <2>3, <2>5
<1>4. ASSUME NEW t \in Txs, NEW aged \in BOOLEAN, LocalRequest(t, aged)
      PROVE  RestOK' /\ LocksOK'
  <2>1. RestOK'
    BY <1>4 DEF LocalRequest
  <2>2. LocksOK'
    BY <1>1, <1>4 DEF LocalRequest, LocksOK
  <2> QED BY <2>1, <2>2
<1>5. ASSUME NEW n \in Nodes \ {Self}, NEW t \in Txs, DropVote(n, t)
      PROVE  RestOK' /\ LocksOK'
  <2>1. RestOK' /\ lock' = lock /\ voteSeen \subseteq voteSeen'
    BY <1>5 DEF DropVote, NewVote, reqVars, chainVars
  <2>2. LocksOK'
    BY <2>1, MoreSeen DEF LocksOK, GoodLocks
  <2> QED BY <2>1, <2>2
<1>6. ASSUME NEW n \in Nodes \ {Self}, NEW t \in Txs, NEW right \in BOOLEAN, Vote(n, t, right)
      PROVE  RestOK' /\ LocksOK'
  <2>1. RestOK'
    BY <1>6 DEF Vote, NewVote, reqVars, chainVars
  <2>2. LocksOK'
    BY <1>6, WithVoteGood DEF Vote, LocksOK
  <2> QED BY <2>1, <2>2
<1>7. ASSUME NEW n \in Nodes \ {Self}, NEW t \in Txs, NEW right \in BOOLEAN,
             VoteCompletes(n, t, right)
      PROVE  RestOK' /\ LocksOK'
  <2>1. NewVote(n, t)
    BY <1>7 DEF VoteCompletes
  <2>2. PICK l : GoodLocks(l, voteSeen') /\ (lock' = l \/ \E u : lock' = Cancel(l, t, u))
    BY <1>7, <2>1, WithVoteGood DEF VoteCompletes
  <2>3. LocksOK'
    BY <2>2, CancelGood DEF LocksOK
  <2>4. /\ lockReq' \in [Txs -> {"none", "tx", "empty"}]
        /\ rejectedReq' \in SUBSET Txs
        /\ voteSeen' \in SUBSET (Nodes \X Txs)
    BY <1>7 DEF VoteCompletes, NewVote
  <2>5. lockedInputs' \in [Outpoints -> Txs \cup {None}]
    BY <1>7, LockInputsType DEF VoteCompletes
  <2>6. pool' \in SUBSET Txs /\ mined' \in SUBSET Txs
    BY <1>7, ReprocessType DEF VoteCompletes, chainVars
  <2> QED BY <2>3, <2>4, <2>5, <2>6
<1>8. ASSUME NEW t \in Txs, Expire(t)
      PROVE  RestOK' /\ LocksOK'
  <2>1. RestOK' /\ voteSeen' = voteSeen
    BY <1>8 DEF Expire, reqVars, chainVars
  <2>2. GoodLock([lock[t] EXCEPT !.expired = TRUE], t, voteSeen)
    BY <1>8, ExpiredGood DEF Expire, LocksOK, GoodLocks
  <2>3. lock' = [lock EXCEPT ![t] = [lock[t] EXCEPT !.expired = TRUE]]
    BY <1>8 DEF Expire
  <2>4. LocksOK'
    BY <2>1, <2>2, <2>3, ExceptGood DEF LocksOK
  <2> QED BY <2>1, <2>4
<1>9. ASSUME NEW t \in Txs, Mine(t)
      PROVE  RestOK' /\ LocksOK'
  BY <1>9 DEF Mine, reqVars, lockVars, LocksOK
<1>10. ASSUME CleanTransactionLocksList
       PROVE  RestOK' /\ LocksOK'
  <2>1. RestOK'
    BY <1>10 DEF CleanTransactionLocksList, chainVars
  <2>2. lock' = [x \in Txs |-> IF x \in Expired THEN NoLock ELSE lock[x]]
    BY <1>10 DEF CleanTransactionLocksList
  <2>3. ASSUME NEW x \in Txs, x \notin Expired PROVE GoodLock(lock[x], x, voteSeen')
    \* Only votes for expired locks are forgotten.
    <3>1. ASSUME NEW n, <<n, x>> \in voteSeen PROVE <<n, x>> \in voteSeen'
      BY <1>10, <2>3, <3>1 DEF CleanTransactionLocksList
    <3> QED BY <3>1 DEF LocksOK, GoodLocks, GoodLock
  <2>4. LocksOK'
    BY <2>2, <2>3, NoLockGood DEF LocksOK, GoodLocks
  <2> QED BY <2>1, <2>4
<1>11. CASE UNCHANGED vars
  BY <1>11 DEF vars, LocksOK
<1> QED BY <1>2, <1>3, <1>4, <1>5, <1>6, <1>7, <1>8, <1>9, <1>10, <1>11 DEF Next

-----------------------------------------------------------------------------
(* Theorems                                                                *)

\* The invariant holds in every state.
THEOREM LockInvariant == Spec => []LockInv
<1>1. Init => LockInv
  BY InitParts, LockParts
<1>2. LockInv /\ [Next]_vars => LockInv'
  <2> SUFFICES ASSUME LockInv, [Next]_vars PROVE LockInv'
    OBVIOUS
  <2>1. RestOK /\ LocksOK
    BY LockParts
  <2>2. RestOK' /\ LocksOK'
    BY <2>1, StepParts
  <2>3. LockInv' <=> RestOK' /\ LocksOK'
    BY LockParts, PTL
  <2> QED BY <2>2, <2>3
<1> QED BY <1>1, <1>2, PTL DEF Spec

\* The maps of swifttx.cpp hold what their types say.
THEOREM LocksTypeCorrect == Spec => []TypeOK
<1>1. LockInv => TypeOK
  BY DEF LockInv
<1> QED BY <1>1, LockInvariant, PTL

\* No masternode's vote is counted twice in a lock, whatever the order of
\* requests, votes, blocks and cleaning.
THEOREM VotesCountOnce == Spec => []OneVoteEach
<1>1. LockInv => OneVoteEach
  BY DEF LockInv
<1> QED BY <1>1, LockInvariant, PTL

-----------------------------------------------------------------------------
(* Inputs are locked by consensus only                                     *)

\* What the next theorem assumes: the memory pool refuses no request.
NoneRejected == "reject" \notin Ops

\* An input is locked for a transaction that spends it, that was requested,
\* and whose lock is complete: CleanTransactionLocksList then finds the inputs
\* of whatever lock it erases.
LockedBy(o, t, requests, locks) ==
    o \in Vin[t] /\ requests[t] = "tx" /\ Complete(locks[t])
InputsOwned ==
    /\ rejectedReq = {}
    /\ \A o \in Outpoints, t \in Txs :
          lockedInputs[o] = t => LockedBy(o, t, lockReq, lock)

\* A vote more does not make a complete lock incomplete.
LEMMA VoteKeepsComplete ==
    ASSUME NEW t \in Txs, lock[t] \in ConsensusLock, NEW n \in Nodes, NEW right \in BOOLEAN,
           Complete(lock[t])
    PROVE  Complete(WithVote(n, t, right))
<1> DEFINE l == lock[t]
           w == WithVote(n, t, right)
           v == [node |-> n, right |-> right]
           Signature == [node : Nodes, right : BOOLEAN]
           S == {i \in DOMAIN l.votes : l.votes[i].right}
           W == {i \in DOMAIN w.votes : w.votes[i].right}
<1>1. l.votes \in Seq(Signature) /\ v \in Signature
      BY DEF ConsensusLock
<1>2. w.votes = Append(l.votes, v) /\ w.height = l.height
      BY DEF WithVote, ConsensusLock
<1>3. l.height /\ Cardinality(S) >= Required
      BY RequiredAssumption DEF Complete, CountSignatures
<1> DEFINE s == l.votes
           k == Len(s) + 1
<1>4. s \in Seq(Signature) /\ v \in Signature /\ w.votes = Append(s, v)
      BY <1>1, <1>2
<1>5. S \subseteq W /\ W \subseteq 1..k /\ S \subseteq 1..k /\ k \in Nat
  <2> HIDE DEF s, v, w, Signature
  <2>1. /\ k \in Nat /\ DOMAIN s = 1..Len(s) /\ DOMAIN w.votes = 1..k
        /\ \A i \in DOMAIN s : i \in 1..k /\ w.votes[i] = s[i]
        BY <1>4
  <2>2. S = {i \in DOMAIN s : s[i].right} BY DEF s
  <2> HIDE DEF l, k
  <2> QED BY <2>1, <2>2
<1> HIDE DEF S, W, k
<1>6. IsFiniteSet(1..k) BY <1>5, FS_Interval
<1>7. IsFiniteSet(S) /\ IsFiniteSet(W) BY <1>5, <1>6, FS_Subset
<1>8. Cardinality(S) <= Cardinality(W) /\ Cardinality(S) \in Nat /\ Cardinality(W) \in Nat
      BY <1>5, <1>7, FS_Subset, FS_CardinalityType
<1>9. Cardinality(W) >= Required BY <1>3, <1>8, RequiredAssumption
<1> QED BY <1>2, <1>3, <1>9 DEF Complete, CountSignatures, W

\* Nor does CreateNewLock, or expiry.
LEMMA RestKeepsComplete ==
    ASSUME NEW l \in ConsensusLock, Complete(l)
    PROVE  /\ \A aged \in BOOLEAN : Complete(CreateNewLock(l, aged))
           /\ Complete([l EXCEPT !.expired = TRUE])
<1>1. l.height BY RequiredAssumption DEF Complete, CountSignatures
<1>2. /\ [l EXCEPT !.expired = TRUE].votes = l.votes
      /\ [l EXCEPT !.expired = TRUE].height = l.height
      BY DEF ConsensusLock
<1>3. ASSUME NEW aged \in BOOLEAN
      PROVE  CreateNewLock(l, aged).votes = l.votes /\ CreateNewLock(l, aged).height
      BY <1>1 DEF ConsensusLock, CreateNewLock
<1> QED BY <1>1, <1>2, <1>3 DEF Complete, CountSignatures

\* Requests and locks stay, no input is locked.
LEMMA OwnedStays ==
    ASSUME TypeOK, InputsOwned, rejectedReq' = {},
           \A o \in Outpoints : lockedInputs'[o] = lockedInputs[o],
           \A t \in Txs : /\ lockReq[t] = "tx" => lockReq'[t] = "tx"
                          /\ Complete(lock[t]) => Complete(lock'[t])
    PROVE  InputsOwned'
BY DEF InputsOwned, LockedBy, TypeOK

LEMMA OwnedPreserved ==
    ASSUME NoneRejected, TypeOK, InputsOwned, [Next]_vars PROVE InputsOwned'
<1>1. ASSUME NEW t \in Txs, NEW aged \in BOOLEAN,
             RequestAccepted(t, aged) \/ LocalRequest(t, aged)
      PROVE  InputsOwned'
  <2>1. /\ lock' = [lock EXCEPT ![t] = CreateNewLock(lock[t], aged)]
        /\ UNCHANGED <<rejectedReq, lockedInputs>>
        BY <1>1 DEF RequestAccepted, LocalRequest
  <2>2. \A x \in Txs : Complete(lock[x]) => Complete(lock'[x])
        BY <2>1, RestKeepsComplete DEF TypeOK
  <2>3. \A x \in Txs : lockReq[x] = "tx" => lockReq'[x] = "tx"
        BY <1>1 DEF RequestAccepted, LocalRequest, TypeOK
  <2> QED BY <2>1, <2>2, <2>3, OwnedStays DEF InputsOwned
<1>2. ASSUME NEW n \in Nodes, NEW t \in Txs, DropVote(n, t) PROVE InputsOwned'
      BY <1>2 DEF DropVote, reqVars, InputsOwned
<1>3. ASSUME NEW n \in Nodes, NEW t \in Txs, NEW right \in BOOLEAN, Vote(n, t, right)
      PROVE  InputsOwned'
  <2>1. lock' = [lock EXCEPT ![t] = WithVote(n, t, right)] /\ UNCHANGED <<reqVars, lockedInputs>>
        BY <1>3 DEF Vote
  <2>2. \A x \in Txs : Complete(lock[x]) => Complete(lock'[x])
        BY <2>1, VoteKeepsComplete DEF TypeOK
  <2> QED BY <2>1, <2>2, OwnedStays DEF InputsOwned, reqVars
<1>4. ASSUME NEW n \in Nodes, NEW t \in Txs, NEW right \in BOOLEAN, VoteCompletes(n, t, right)
      PROVE  InputsOwned'
  <2> DEFINE l == [lock EXCEPT ![t] = WithVote(n, t, right)]
  <2>1. /\ Complete(l[t]) /\ rejectedReq' = {}
        /\ lockReq' = [lockReq EXCEPT ![t] = IF @ = "none" THEN "empty" ELSE @]
        BY <1>4 DEF VoteCompletes, InputsOwned
  <2>2. \A x \in Txs : Complete(lock[x]) => Complete(l[x])
        BY VoteKeepsComplete DEF TypeOK
  <2>3. \A x \in Txs : lockReq[x] = "tx" => lockReq'[x] = "tx"
        BY <2>1 DEF TypeOK
  <2>4. ASSUME NEW u, lock' = Cancel(l, t, u), lockedInputs' = lockedInputs
        PROVE  InputsOwned'
    <3>1. ASSUME NEW x \in Txs, Complete(lock[x]) PROVE Complete(lock'[x])
      <4>1. lock'[x] = l[x] \/ lock'[x] = [l[x] EXCEPT !.expired = TRUE]
            BY <2>4 DEF Cancel
      <4>2. Complete(l[x]) BY <2>2, <3>1
      <4>3. l[x].height BY <4>2, RequiredAssumption DEF Complete, CountSignatures
      <4>4. /\ [l[x] EXCEPT !.expired = TRUE].votes = l[x].votes
            /\ [l[x] EXCEPT !.expired = TRUE].height = l[x].height
        <5>1. \A r \in ConsensusLock : /\ [r EXCEPT !.expired = TRUE].votes = r.votes
                                       /\ [r EXCEPT !.expired = TRUE].height = r.height
              BY DEF ConsensusLock
        <5>2. /\ [WithVote(n, t, right) EXCEPT !.expired = TRUE].votes = WithVote(n, t, right).votes
              /\ [WithVote(n, t, right) EXCEPT !.expired = TRUE].height = WithVote(n, t, right).height
              BY DEF WithVote, TypeOK, ConsensusLock
        <5> QED BY <5>1, <5>2 DEF TypeOK
      <4> QED BY <4>1, <4>2, <4>4 DEF Complete, CountSignatures
    <3> QED BY <2>1, <2>3, <2>4, <3>1, OwnedStays
  <2>5. ASSUME lock' = l, lockedInputs' = IF lockReq'[t] = "tx" THEN LockInputs(t) ELSE lockedInputs
        PROVE  InputsOwned'
    <3>1. ASSUME NEW o \in Outpoints, NEW x \in Txs, lockedInputs'[o] = x
          PROVE  LockedBy(o, x, lockReq', lock')
      <4>1. CASE lockedInputs[o] = x
            BY <2>2, <2>3, <2>5, <4>1 DEF InputsOwned, LockedBy
      <4>2. CASE lockedInputs[o] # x
        <5>1. x = t /\ o \in Vin[t] /\ lockReq'[t] = "tx"
              BY <2>5, <3>1, <4>2 DEF LockInputs
        <5> QED BY <2>1, <2>5, <5>1 DEF LockedBy
      <4> QED BY <4>1, <4>2
    <3> QED BY <2>1, <3>1 DEF InputsOwned, LockedBy
  <2> QED BY <1>4, <2>4, <2>5 DEF VoteCompletes
<1>5. ASSUME NEW t \in Txs, Expire(t) PROVE InputsOwned'
  <2>1. lock' = [lock EXCEPT ![t] = [lock[t] EXCEPT !.expired = TRUE]]
        /\ UNCHANGED <<reqVars, lockedInputs>>
        BY <1>5 DEF Expire
  <2>2. \A x \in Txs : Complete(lock[x]) => Complete(lock'[x])
        BY <2>1, RestKeepsComplete DEF TypeOK
  <2> QED BY <2>1, <2>2, OwnedStays DEF InputsOwned, reqVars
<1>6. ASSUME NEW t \in Txs, Mine(t) PROVE InputsOwned'
      BY <1>6 DEF Mine, reqVars, lockVars, InputsOwned
<1>7. CASE CleanTransactionLocksList
  <2>1. /\ rejectedReq' = {}
        /\ \A t \in Txs : ~(t \in Expired /\ lockReq[t] # "none") => lockReq'[t] = lockReq[t]
        /\ \A t \in Txs : t \notin Expired => lock'[t] = lock[t]
        BY <1>7 DEF CleanTransactionLocksList, InputsOwned
  <2>2. \A o \in Outpoints, t \in Txs :
            lockedInputs'[o] = t => /\ lockedInputs[o] = t
                                    /\ t \in Expired /\ lockReq[t] = "tx" => o \notin Vin[t]
        BY <1>7, VinAssumption DEF CleanTransactionLocksList
  <2>3. ASSUME NEW o \in Outpoints, NEW t \in Txs, lockedInputs'[o] = t
        PROVE  LockedBy(o, t, lockReq', lock')
    <3>1. LockedBy(o, t, lockReq, lock) BY <2>2, <2>3 DEF InputsOwned
    <3>2. t \notin Expired BY <2>2, <2>3, <3>1 DEF LockedBy
    <3> QED BY <2>1, <3>1, <3>2 DEF LockedBy
  <2> QED BY <2>1, <2>3 DEF InputsOwned, LockedBy
<1>8. CASE UNCHANGED vars BY <1>8 DEF vars, InputsOwned
<1>9. \A t \in Txs, aged \in BOOLEAN : ~RequestRejected(t, aged)
      BY DEF NoneRejected, RequestRejected
<1> QED BY <1>1, <1>2, <1>3, <1>4, <1>5, <1>6, <1>7, <1>8, <1>9 DEF Next

\* CheckBlock: "only reject blocks when it's based on complete consensus".  For
\* any threshold and number of masternodes an input is locked only while the
\* lock it is locked for has the votes, across expiry, cleaning and conflicting
\* requests; as long as every request is one that the memory pool accepted.
THEOREM InputsLockedByConsensus ==
    ASSUME NoneRejected PROVE Spec => []LocksAreComplete
<1>1. Init => InputsOwned BY VinAssumption DEF Init, InputsOwned
<1>2. LockInv /\ InputsOwned /\ [Next]_vars => InputsOwned'
      BY OwnedPreserved DEF LockInv
<1>3. LockInv /\ InputsOwned => LocksAreComplete
      BY DEF LockInv, TypeOK, InputsOwned, LockedBy, LocksAreComplete
<1> QED BY <1>1, <1>2, <1>3, LockInvariant, PTL DEF Spec

-----------------------------------------------------------------------------
(* Sporks (Spork).                                                          *)

\* Node n has something in force that is as new as m.
UpToDate(n, m) == \E x \in active[n] : m.at <= x.at

\* At most one message is in force, written or about to be stored, and what is
\* in force is known.
OneInForce ==
    \A n \in SporkNodes :
        /\ \A a, b \in active[n] : a = b
        /\ \A a, b \in checked[n] : a = b
        /\ \A a, b \in sporkDB[n] : a = b
        /\ active[n] \subseteq known[n]

\* Every message was made by UpdateSpork, at a time and with a number that are
\* past, or is the one with the old signature.
Made(m) == m.at <= sporkTime /\ m.no <= updates /\ (m.key = "new" \/ m = Legacy)
AllMade ==
    /\ \A n \in SporkNodes : \A m \in known[n] \cup checked[n] \cup sporkDB[n] : Made(m)
    /\ \A f \in inFlight : Made(f[2])

\* What was accepted is newer than what is in force.
CheckedNewer == \A n \in SporkNodes : \A m \in checked[n] : Newer(n, m)

\* What a node knows it has replaced by something as new only.
KnownPassed == \A n \in SporkNodes : \A m \in known[n] : UpToDate(n, m)

\* What p has in force, n has too, or will get.
Learns(n, p, a) ==
    \/ UpToDate(n, a)
    \/ <<n, a>> \in inFlight
    \/ <<n, p>> \in asks
    \/ \E m \in checked[n] : a.at <= m.at
AllLearn ==
    \A n, p \in SporkNodes : \A a \in active[p] :
        n # p /\ a.key = "new" => Learns(n, p, a)

Ordered == CheckedNewer /\ KnownPassed /\ AllLearn
SporkInv == SporkTypeOK /\ OneInForce /\ AllMade /\ (raced \/ Ordered)

\* A message is a number of a second.
LEMMA Times == \A m \in Message : m.at \in Int /\ m.no \in Int
BY SporkTimes, SporkBounds DEF Message

\* The message with the old signature is one.
LEMMA LegacyType == Legacy \in Message
BY SporkTimes, SporkBounds, SMT DEF Legacy, Message, Keys

\* What UpdateSpork makes is new to everybody.
LEMMA NewMessage ==
    ASSUME SporkTypeOK, OneInForce, AllMade, updates < MaxUpdates
    PROVE  LET m == [at |-> sporkTime, no |-> updates + 1, key |-> "new"] IN
           /\ m \in Message
           /\ \A n \in SporkNodes : m \notin known[n]
           /\ \A n \in SporkNodes : \A a \in active[n] : a.at <= m.at
<1> DEFINE m == [at |-> sporkTime, no |-> updates + 1, key |-> "new"]
<1>1. sporkTime \in 0..MaxSporkTime /\ updates \in 0..MaxUpdates
  BY DEF SporkTypeOK
<1>2. m \in Message
  BY <1>1, SporkBounds, SporkTimes DEF Message, Keys
<1>3. ASSUME NEW n \in SporkNodes, m \in known[n] PROVE FALSE
  <2>1. m.no <= updates
    BY <1>3 DEF AllMade, Made
  <2> QED BY <2>1, <1>1, SporkBounds
<1>4. ASSUME NEW n \in SporkNodes, NEW a \in active[n] PROVE a.at <= m.at
  BY DEF OneInForce, AllMade, Made
<1> QED BY <1>2, <1>3, <1>4

-----------------------------------------------------------------------------
(* The parts of the invariant, step by step                                *)

LEMMA InitInv == SporkInit => SporkInv
<1> SUFFICES ASSUME SporkInit PROVE SporkInv
  OBVIOUS
<1>1. SporkTypeOK
  <2>1. inFlight \in SUBSET (SporkNodes \X Message)
    BY LegacyType DEF SporkInit
  <2>2. asks \in SUBSET (SporkNodes \X SporkNodes)
    BY DEF SporkInit
  <2>3. /\ 0 \in 0..MaxSporkTime /\ 0 \in 0..MaxUpdates /\ 0 \in 0..MaxRestarts
    BY SporkTimes, SporkBounds
  <2>4. [n \in SporkNodes |-> {}] \in [SporkNodes -> SUBSET Message]
    OBVIOUS
  <2> QED BY <2>1, <2>2, <2>3, <2>4, Zenon DEF SporkInit, SporkTypeOK
<1>2. OneInForce
  BY DEF SporkInit, OneInForce
<1>3. Made(Legacy)
  BY DEF SporkInit, Made, Legacy
<1>4. AllMade
  BY <1>3 DEF SporkInit, AllMade
<1>5. Ordered
  BY DEF SporkInit, Ordered, CheckedNewer, KnownPassed, AllLearn
<1> QED BY <1>1, <1>2, <1>4, <1>5 DEF SporkInv

\* ProcessSpork up to its checks.
LEMMA ReceiveStep ==
    ASSUME SporkInv, NEW n \in SporkNodes, NEW m \in Message, ReceiveSpork(n, m)
    PROVE  SporkInv'
<1> USE DEF SporkInv
<1>1. SporkTypeOK'
  BY DEF SporkTypeOK, ReceiveSpork
<1>2. Made(m)
  BY DEF ReceiveSpork, AllMade
<1>3. OneInForce'
  BY DEF OneInForce, ReceiveSpork, SporkTypeOK
<1>4. AllMade'
  BY <1>2 DEF AllMade, Made, ReceiveSpork, SporkTypeOK
<1>5. ASSUME Ordered PROVE Ordered'
  <2>1. CheckedNewer'
    BY <1>5 DEF Ordered, CheckedNewer, Newer, ReceiveSpork, SporkTypeOK
  <2>2. KnownPassed'
    BY <1>5 DEF Ordered, KnownPassed, UpToDate, ReceiveSpork
  <2>3. ASSUME NEW q \in SporkNodes, NEW p \in SporkNodes, NEW a \in active[p],
               q # p, a.key = "new"
        PROVE  Learns(q, p, a)'
    <3>1. Learns(q, p, a)
      BY <1>5, <2>3 DEF Ordered, AllLearn
    <3>2. CASE q = n /\ a = m
      <4>1. SignatureOK(m)
        BY <2>3, <3>2 DEF SignatureOK
      <4>2. CASE Newer(n, m)
        <5>1. checked'[n] = {m}
          BY <4>1, <4>2 DEF ReceiveSpork, SporkTypeOK
        <5>2. a.at <= m.at
          BY <3>2, Times
        <5> QED BY <3>2, <5>1, <5>2 DEF Learns
      <4>3. CASE ~Newer(n, m)
        <5>1. PICK x \in active[n] : ~(x.at < m.at)
          BY <4>3 DEF Newer
        <5>2. m.at <= x.at
          BY <5>1, Times DEF SporkTypeOK
        <5>3. UpToDate(q, a)'
          BY <3>2, <5>2 DEF UpToDate, ReceiveSpork
        <5> QED BY <5>3 DEF Learns
      <4> QED BY <4>2, <4>3
    <3>3. CASE ~(q = n /\ a = m)
      BY <3>1, <3>3 DEF Learns, UpToDate, ReceiveSpork, SporkTypeOK
    <3> QED BY <3>2, <3>3
  <2>4. AllLearn'
    BY <2>3 DEF AllLearn, ReceiveSpork
  <2> QED BY <2>1, <2>2, <2>4 DEF Ordered
<1>6. raced' = raced
  BY DEF ReceiveSpork
<1> QED BY <1>1, <1>3, <1>4, <1>5, <1>6

\* The rest of ProcessSpork: known need not be asked whether it is older.
LEMMA StoreStep ==
    ASSUME SporkInv, NEW n \in SporkNodes, StoreSpork(n)
    PROVE  SporkInv'
<1> USE DEF SporkInv
<1>1. PICK m \in checked[n] :
          /\ active' = [active EXCEPT ![n] = {m}]
          /\ known' = [known EXCEPT ![n] = known[n] \cup {m}]
          /\ sporkDB' = [sporkDB EXCEPT ![n] = {m}]
          /\ inFlight' = inFlight \cup Relayed(n, m)
  BY DEF StoreSpork
<1>2. /\ checked' = [checked EXCEPT ![n] = {}]
      /\ UNCHANGED <<asks, sporkTime, updates, restarts, raced>>
  BY DEF StoreSpork
<1>3. m \in Message /\ Made(m) /\ checked[n] = {m}
  BY DEF SporkTypeOK, AllMade, OneInForce
<1>4. \A f \in Relayed(n, m) : f[2] = m /\ f \in SporkNodes \X Message
  BY <1>3 DEF Relayed, Others
<1>5. SporkTypeOK'
  <2>1. inFlight' \in SUBSET (SporkNodes \X Message)
    BY <1>1, <1>4 DEF SporkTypeOK
  <2> QED BY <1>1, <1>2, <1>3, <2>1 DEF SporkTypeOK
<1>6. OneInForce'
  BY <1>1, <1>2 DEF OneInForce, SporkTypeOK
<1>7. AllMade'
  BY <1>1, <1>2, <1>3, <1>4 DEF AllMade, Made, SporkTypeOK
<1>8. ASSUME Ordered PROVE Ordered'
  \* What is stored is newer than what was in force.
  <2>1. \A a : UpToDate(n, a) /\ a \in Message => a.at <= m.at
    BY <1>3, <1>8, Times DEF Ordered, CheckedNewer, Newer, UpToDate, SporkTypeOK
  <2>2. \A q \in SporkNodes, a \in Message : UpToDate(q, a) => UpToDate(q, a)'
    BY <1>1, <2>1 DEF UpToDate, SporkTypeOK
  <2>3. UpToDate(n, m)'
    BY <1>1, <1>3, Times DEF UpToDate, SporkTypeOK
  <2>4. CheckedNewer'
    BY <1>1, <1>2, <1>8 DEF Ordered, CheckedNewer, Newer, SporkTypeOK
  <2>5. KnownPassed'
    BY <1>1, <1>8, <2>2, <2>3 DEF Ordered, KnownPassed, SporkTypeOK
  <2>6. ASSUME NEW q \in SporkNodes, NEW p \in SporkNodes, NEW a \in active'[p],
               q # p, a.key = "new"
        PROVE  Learns(q, p, a)'
    <3>1. CASE p = n
      <4>1. a = m
        BY <1>1, <2>6, <3>1 DEF SporkTypeOK
      <4>2. CASE m \in known[q]
        <5>1. UpToDate(q, m)'
          BY <1>3, <1>8, <2>2, <4>2 DEF Ordered, KnownPassed
        <5> QED BY <4>1, <5>1 DEF Learns
      <4>3. CASE m \notin known[q]
        <5>1. <<q, m>> \in inFlight'
          BY <1>1, <2>6, <3>1, <4>3 DEF Relayed, Others
        <5> QED BY <4>1, <5>1 DEF Learns
      <4> QED BY <4>2, <4>3
    <3>2. CASE p # n
      <4>1. a \in active[p] /\ a \in Message
        BY <1>1, <3>2 DEF SporkTypeOK
      <4>2. Learns(q, p, a)
        BY <1>8, <2>6, <4>1 DEF Ordered, AllLearn
      <4>3. CASE \E c \in checked[q] : a.at <= c.at
        <5>1. CASE q = n
          <6>1. UpToDate(q, a)'
            BY <1>1, <1>3, <4>3, <5>1 DEF UpToDate, SporkTypeOK
          <6> QED BY <6>1 DEF Learns
        <5>2. CASE q # n
          BY <1>2, <4>3, <5>2 DEF Learns, SporkTypeOK
        <5> QED BY <5>1, <5>2
      <4>4. CASE ~\E c \in checked[q] : a.at <= c.at
        BY <1>1, <1>2, <2>2, <4>1, <4>2, <4>4 DEF Learns
      <4> QED BY <4>3, <4>4
    <3> QED BY <3>1, <3>2
  <2>7. AllLearn'
    BY <2>6 DEF AllLearn
  <2> QED BY <2>4, <2>5, <2>7 DEF Ordered
<1> QED BY <1>2, <1>5, <1>6, <1>7, <1>8

\* The answer to "getsporks" says what is in force.
LEMMA AnswerStep ==
    ASSUME SporkInv, NEW n \in SporkNodes, NEW p \in SporkNodes, AnswerGetSporks(n, p)
    PROVE  SporkInv'
<1> USE DEF SporkInv
<1>1. SporkTypeOK'
  BY DEF SporkTypeOK, AnswerGetSporks
<1>2. OneInForce'
  BY DEF OneInForce, AnswerGetSporks
<1>3. AllMade'
  <2>1. \A m \in active[p] : Made(m)
    BY DEF AllMade, OneInForce
  <2> QED BY <2>1 DEF AllMade, Made, AnswerGetSporks
<1>4. ASSUME Ordered PROVE Ordered'
  <2>1. ASSUME NEW q \in SporkNodes, NEW r \in SporkNodes, NEW a \in active[r],
               q # r, a.key = "new"
        PROVE  Learns(q, r, a)'
    <3>1. Learns(q, r, a)
      BY <1>4, <2>1 DEF Ordered, AllLearn
    <3>2. CASE q = n /\ r = p
      <4>1. <<q, a>> \in inFlight'
        BY <3>2 DEF AnswerGetSporks
      <4> QED BY <4>1 DEF Learns
    <3>3. CASE ~(q = n /\ r = p)
      BY <3>1, <3>3 DEF Learns, UpToDate, AnswerGetSporks
    <3> QED BY <3>2, <3>3
  <2>2. AllLearn'
    BY <2>1 DEF AllLearn, AnswerGetSporks
  <2> QED BY <1>4, <2>2 DEF Ordered, CheckedNewer, Newer, KnownPassed, UpToDate, AnswerGetSporks
<1>5. raced' = raced
  BY DEF AnswerGetSporks
<1> QED BY <1>1, <1>2, <1>3, <1>4, <1>5

\* A restart: the node asks its peers again, and they ask it.
LEMMA RestartStep ==
    ASSUME SporkInv, NEW n \in SporkNodes, RestartNode(n)
    PROVE  SporkInv'
<1> USE DEF SporkInv
<1>1. SporkTypeOK'
  <2>1. restarts' \in 0..MaxRestarts
    BY SporkBounds DEF SporkTypeOK, RestartNode
  <2>2. asks' \in SUBSET (SporkNodes \X SporkNodes)
    BY DEF SporkTypeOK, RestartNode, Others
  <2>3. inFlight' \in SUBSET (SporkNodes \X Message)
    BY DEF SporkTypeOK, RestartNode
  <2> QED BY <2>1, <2>2, <2>3 DEF SporkTypeOK, RestartNode
<1>2. OneInForce'
  BY DEF OneInForce, SporkTypeOK, RestartNode
<1>3. AllMade'
  BY DEF AllMade, Made, SporkTypeOK, RestartNode
<1>4. ASSUME Ordered PROVE Ordered'
  <2>1. CheckedNewer'
    BY <1>4 DEF Ordered, CheckedNewer, Newer, SporkTypeOK, RestartNode
  <2>2. KnownPassed'
    <3>1. ASSUME NEW q \in SporkNodes, NEW m \in known'[q] PROVE UpToDate(q, m)'
      <4>1. CASE q = n
        <5>1. m \in active'[q] /\ m \in Message
          BY <3>1, <4>1 DEF SporkTypeOK, RestartNode
        <5> QED BY <5>1, Times DEF UpToDate
      <4>2. CASE q # n
        BY <1>4, <3>1, <4>2 DEF Ordered, KnownPassed, UpToDate, SporkTypeOK, RestartNode
      <4> QED BY <4>1, <4>2
    <3> QED BY <3>1 DEF KnownPassed
  <2>3. ASSUME NEW q \in SporkNodes, NEW p \in SporkNodes, NEW a \in active'[p],
               q # p, a.key = "new"
        PROVE  Learns(q, p, a)'
    <3>1. CASE n \in {q, p}
      <4>1. <<q, p>> \in asks'
        BY <2>3, <3>1 DEF RestartNode, Others
      <4> QED BY <4>1 DEF Learns
    <3>2. CASE n \notin {q, p}
      <4>1. a \in active[p]
        BY <3>2 DEF SporkTypeOK, RestartNode
      <4>2. Learns(q, p, a)
        BY <1>4, <2>3, <4>1 DEF Ordered, AllLearn
      <4> QED BY <3>2, <4>2 DEF Learns, UpToDate, SporkTypeOK, RestartNode
    <3> QED BY <3>1, <3>2
  <2>4. AllLearn'
    BY <2>3 DEF AllLearn
  <2> QED BY <2>1, <2>2, <2>4 DEF Ordered
<1>5. raced' = raced
  BY DEF RestartNode
<1> QED BY <1>1, <1>2, <1>3, <1>4, <1>5

\* The clock: what was made stays made.
LEMMA TickStep == ASSUME SporkInv, SporkTick PROVE SporkInv'
<1> USE DEF SporkInv
<1>1. SporkTypeOK'
  BY SporkTimes DEF SporkTypeOK, SporkTick
<1>2. OneInForce'
  BY DEF OneInForce, SporkTick
<1>3. \A m \in Message : Made(m) => Made(m)'
  BY Times, SporkTimes DEF Made, SporkTick, SporkTypeOK
<1>4. AllMade'
  BY <1>3 DEF AllMade, SporkTypeOK, SporkTick
<1>5. ASSUME Ordered PROVE Ordered'
  BY <1>5 DEF Ordered, CheckedNewer, Newer, KnownPassed, AllLearn, Learns,
              UpToDate, SporkTick
<1>6. raced' = raced
  BY DEF SporkTick
<1> QED BY <1>1, <1>2, <1>4, <1>5, <1>6

\* UpdateSpork: it does not look at the time in force, but its own is the
\* latest; inside a ProcessSpork of its node nothing is claimed any more.
LEMMA UpdateStep ==
    ASSUME SporkInv, NEW n \in SporkNodes, UpdateSpork(n)
    PROVE  SporkInv'
<1> USE DEF SporkInv
<1>1. PICK m \in Message :
          /\ m.at = sporkTime /\ m.no = updates + 1 /\ m.key = "new"
          /\ \A q \in SporkNodes : m \notin known[q]
          /\ \A q \in SporkNodes : \A a \in active[q] : a.at <= m.at
          /\ inFlight' = inFlight \cup Relayed(n, m)
          /\ known' = [known EXCEPT ![n] = known[n] \cup {m}]
          /\ active' = [active EXCEPT ![n] = {m}]
  <2> DEFINE u == [at |-> sporkTime, no |-> updates + 1, key |-> "new"]
  <2>1. /\ inFlight' = inFlight \cup Relayed(n, u)
        /\ known' = [known EXCEPT ![n] = known[n] \cup {u}]
        /\ active' = [active EXCEPT ![n] = {u}]
    BY DEF UpdateSpork
  <2>2. /\ u \in Message
        /\ \A q \in SporkNodes : u \notin known[q]
        /\ \A q \in SporkNodes : \A a \in active[q] : a.at <= u.at
    BY NewMessage DEF UpdateSpork
  <2>3. u.at = sporkTime /\ u.no = updates + 1 /\ u.key = "new"
    OBVIOUS
  <2> HIDE DEF u
  <2> QED BY <2>1, <2>2, <2>3
<1>2. /\ updates < MaxUpdates /\ updates' = updates + 1
      /\ raced' = (raced \/ checked[n] # {})
      /\ UNCHANGED <<sporkDB, checked, asks, sporkTime, restarts>>
  BY DEF UpdateSpork
<1>3. \A f \in Relayed(n, m) : f[2] = m /\ f \in SporkNodes \X Message
  BY DEF Relayed, Others
<1>5. SporkTypeOK'
  <2>1. inFlight' \in SUBSET (SporkNodes \X Message)
    BY <1>1, <1>3 DEF SporkTypeOK
  <2>2. updates' \in 0..MaxUpdates /\ raced' \in BOOLEAN
    BY <1>1, <1>2, SporkBounds DEF SporkTypeOK
  <2> QED BY <1>1, <1>2, <2>1, <2>2 DEF SporkTypeOK
<1>6. OneInForce'
  BY <1>1, <1>2 DEF OneInForce, SporkTypeOK
<1>7. AllMade'
  <2>1. \A x \in Message : Made(x) => Made(x)'
    BY <1>1, <1>2, Times, SporkBounds DEF Made, SporkTypeOK
  <2>2. Made(m)'
    BY <1>1, <1>2, SporkTimes, SporkBounds DEF Made, SporkTypeOK
  <2>3. ASSUME NEW q \in SporkNodes, NEW x \in known'[q] \cup checked'[q] \cup sporkDB'[q]
        PROVE  Made(x)'
    <3>1. x = m \/ x \in known[q] \cup checked[q] \cup sporkDB[q]
      BY <1>1, <1>2 DEF SporkTypeOK
    <3>2. ASSUME x \in known[q] \cup checked[q] \cup sporkDB[q] PROVE Made(x)'
      BY <2>1, <3>2 DEF AllMade, SporkTypeOK
    <3> QED BY <2>2, <3>1, <3>2
  <2>4. \A f \in inFlight' : Made(f[2])'
    BY <1>1, <1>2, <1>3, <2>1, <2>2 DEF AllMade, SporkTypeOK
  <2> QED BY <2>3, <2>4 DEF AllMade
<1>8. ASSUME Ordered, checked[n] = {} PROVE Ordered'
  <2>1. \A a \in Message : UpToDate(n, a) => a.at <= m.at
    BY <1>1, Times DEF UpToDate, SporkTypeOK
  <2>2. \A q \in SporkNodes, a \in Message : UpToDate(q, a) => UpToDate(q, a)'
    BY <1>1, <2>1 DEF UpToDate, SporkTypeOK
  <2>3. UpToDate(n, m)'
    BY <1>1, <1>2, Times DEF UpToDate, SporkTypeOK
  <2>4. CheckedNewer'
    BY <1>1, <1>2, <1>8 DEF Ordered, CheckedNewer, Newer, SporkTypeOK
  <2>5. KnownPassed'
    BY <1>1, <1>2, <1>8, <2>2, <2>3 DEF Ordered, KnownPassed, SporkTypeOK
  <2>6. ASSUME NEW q \in SporkNodes, NEW p \in SporkNodes, NEW a \in active'[p],
               q # p, a.key = "new"
        PROVE  Learns(q, p, a)'
    <3>1. CASE p = n
      <4>1. a = m
        BY <1>1, <2>6, <3>1 DEF SporkTypeOK
      <4>2. <<q, m>> \in inFlight'
        BY <1>1, <1>2, <2>6, <3>1 DEF Relayed, Others
      <4> QED BY <4>1, <4>2 DEF Learns
    <3>2. CASE p # n
      <4>1. a \in active[p] /\ a \in Message
        BY <1>1, <3>2 DEF SporkTypeOK
      <4>2. Learns(q, p, a)
        BY <1>8, <2>6, <4>1 DEF Ordered, AllLearn
      <4> QED BY <1>1, <1>2, <2>2, <4>1, <4>2 DEF Learns
    <3> QED BY <3>1, <3>2
  <2>7. AllLearn'
    BY <2>6 DEF AllLearn
  <2> QED BY <2>4, <2>5, <2>7 DEF Ordered
<1> QED BY <1>2, <1>5, <1>6, <1>7, <1>8

-----------------------------------------------------------------------------
(* The theorems                                                            *)

\* Every step of SporkNext, and a stuttering step, keeps the invariant.
LEMMA NextInv == ASSUME SporkInv, [SporkNext]_sporkVars PROVE SporkInv'
<1>1. CASE SporkDelivery
  BY <1>1, ReceiveStep, StoreStep, AnswerStep DEF SporkDelivery
<1>2. CASE \E n \in SporkNodes : UpdateSpork(n) \/ RestartNode(n)
  BY <1>2, UpdateStep, RestartStep
<1>3. CASE SporkTick
  BY <1>3, TickStep
<1>4. CASE UNCHANGED sporkVars
  BY <1>4 DEF sporkVars, SporkInv, SporkTypeOK, OneInForce, AllMade, Made, Ordered,
              CheckedNewer, Newer, KnownPassed, AllLearn, Learns, UpToDate
<1> QED BY <1>1, <1>2, <1>3, <1>4 DEF SporkNext

\* The strengthening holds in every reachable state.
THEOREM SporkInvariant == SporkSpec => []SporkInv
<1> QED BY InitInv, NextInv, PTL DEF SporkSpec

\* The maps, the database and the messages under way keep their types, for any
\* nodes and bounds.
THEOREM SporkTypeCorrect == SporkSpec => []SporkTypeOK
<1>1. SporkInv => SporkTypeOK
  BY DEF SporkInv
<1> QED BY SporkInvariant, <1>1, PTL

\* With nothing under way the invariant leaves UpToDate alone: of two nodes each
\* has something as new as the other's.
LEMMA QuietAgrees == SporkInv => SporksConverge
<1> SUFFICES ASSUME SporkInv, inFlight = {}, asks = {},
                    \A n \in SporkNodes : checked[n] = {},
                    ~Ambiguous, NEW q \in SporkNodes, NEW p \in SporkNodes
             PROVE  active[q] = active[p]
  BY DEF SporksConverge
<1>1. Ordered
  BY DEF SporkInv, Ambiguous
<1>2. \A n \in SporkNodes : \A a \in active[n] : a \in Message /\ a \in known[n] /\ a.key = "new"
  BY DEF SporkInv, SporkTypeOK, OneInForce, AllMade, Made, Ambiguous
<1>3. ASSUME NEW r \in SporkNodes, NEW s \in SporkNodes, NEW a \in active[s]
      PROVE  UpToDate(r, a)
  <2>1. CASE r = s
    BY <1>2, <2>1, Times DEF UpToDate
  <2>2. CASE r # s
    BY <1>1, <1>2, <2>2 DEF Ordered, AllLearn, Learns
  <2> QED BY <2>1, <2>2
<1>4. ASSUME NEW r \in SporkNodes, NEW s \in SporkNodes, NEW a \in active[s]
      PROVE  a \in active[r]
  <2>1. PICK x \in active[r] : a.at <= x.at
    BY <1>3 DEF UpToDate
  <2>2. PICK y \in active[s] : x.at <= y.at
    BY <1>3 DEF UpToDate
  <2>3. y = a
    BY DEF SporkInv, OneInForce
  <2>4. x.at = a.at
    BY <1>2, <2>1, <2>2, <2>3, Times
  <2>5. x = a
    BY <1>2, <2>4 DEF Ambiguous
  <2> QED BY <2>5
<1> QED BY <1>4

\* When all messages have been answered and stored, the nodes have the same
\* spork in force: the newest, whatever the order and the restarts.
THEOREM SporksAgree == SporkSpec => []SporksConverge
<1> QED BY SporkInvariant, QuietAgrees, PTL

-----------------------------------------------------------------------------
(* Payees (Payments).                                                       *)

Scripts == Payees \cup {NoPayee}
Entries == [payee : Scripts, n : Nat \ {0}]

VotesIn(votes, h, p) == {v \in votes : v.height = h /\ v.payee = p}
Late(pending, h, p) == {t \in PayThreads : \E v \in pending[t] : v.height = h /\ v.payee = p}

\* How often a list of payees counts p, which it names once at most.
CountIn(list, p) ==
    IF \E i \in DOMAIN list : list[i].payee = p
    THEN list[CHOOSE i \in DOMAIN list : list[i].payee = p].n ELSE 0
TallyIn(lists, h) == IF h \in DOMAIN lists THEN lists[h] ELSE <<>>

ListOK(list, h) ==
    /\ list \in Seq(Entries)
    /\ \A i, j \in DOMAIN list : list[i].payee = list[j].payee => i = j
    /\ h = 0 => \A i \in DOMAIN list : list[i].payee = NoPayee

VotesOK(votes) ==
    /\ votes \subseteq PayVote /\ IsFiniteSet(votes)
    /\ \A v \in votes : v.height = 0 => v.payee = NoPayee
ListsOK(lists) ==
    /\ DOMAIN lists \subseteq Nat
    /\ \A h \in DOMAIN lists : ListOK(lists[h], h)

\* The votes of a height for a payee are counted, or a thread is about to.
Balanced(votes, lists, pending) ==
    \A h \in Nat \ {0}, p \in Scripts :
        Cardinality(VotesIn(votes, h, p)) =
            Cardinality(Late(pending, h, p)) + CountIn(TallyIn(lists, h), p)

PendingOK(pending, votes) ==
    /\ pending \in [PayThreads -> SUBSET PayVote]
    /\ \A t \in PayThreads : \A v, w \in pending[t] : v = w
    /\ \A t \in PayThreads : \A v \in pending[t] :
          IF v.height = 0 THEN v.payee = NoPayee ELSE v \in votes

Nobody == [t \in PayThreads |-> {}]
Good(votes, lists, pending) ==
    /\ VotesOK(votes) /\ ListsOK(lists)
    /\ PendingOK(pending, votes) /\ Balanced(votes, lists, pending)
FileOK(file) ==
    file \notin {Missing, Broken} =>
        /\ DOMAIN file = {"votes", "tallies"}
        /\ Good(file.votes, file.tallies, Nobody)

\* The scalars of the type invariant.
PayRestOK ==
    /\ tipHeight \in StartHeight..MaxHeightSeen
    /\ lastVote \in [Voters -> Nat] /\ lastOwn \in Nat /\ ownHeight \in [PayThreads -> Nat]
    /\ dumped \in BOOLEAN /\ entered \in 0..MaxVotes /\ payRestarts \in 0..MaxPayRestarts

PayInv == PayRestOK /\ Good(payVotes, tallies, adding) /\ FileOK(mnpayments)

\* No vote is being counted while Shutdown writes the maps.
DumpsAlone == "overlap" \notin PayOps

-----------------------------------------------------------------------------
(* Lists of payees. *)

LEMMA EntryFacts ==
    ASSUME NEW list \in Seq(Entries), NEW i \in DOMAIN list
    PROVE  /\ list[i] \in Entries /\ i \in 1..Len(list)
           /\ list[i].payee \in Scripts /\ list[i].n \in Nat \ {0}
<1>1. list[i] \in Entries /\ i \in 1..Len(list) OBVIOUS
<1> QED BY <1>1 DEF Entries

\* An entry is the count of its payee.
LEMMA CountOfEntry ==
    ASSUME NEW list, NEW h, ListOK(list, h), NEW i \in DOMAIN list
    PROVE  CountIn(list, list[i].payee) = list[i].n
<1> DEFINE j == CHOOSE k \in DOMAIN list : list[k].payee = list[i].payee
<1>1. j \in DOMAIN list /\ list[j].payee = list[i].payee OBVIOUS
<1>2. j = i BY <1>1 DEF ListOK
<1> QED BY <1>2 DEF CountIn

LEMMA CountOfNone ==
    ASSUME NEW list, NEW p, \A i \in DOMAIN list : list[i].payee # p
    PROVE  CountIn(list, p) = 0
BY DEF CountIn

LEMMA CountIsNat ==
    ASSUME NEW list, NEW h, ListOK(list, h), NEW p
    PROVE  CountIn(list, p) \in Nat
<1>1. CASE \E i \in DOMAIN list : list[i].payee = p
    <2>1. PICK i \in DOMAIN list : list[i].payee = p BY <1>1
    <2>2. CountIn(list, p) = list[i].n BY <2>1, CountOfEntry
    <2> QED BY <2>2, EntryFacts DEF ListOK
<1>2. CASE \A i \in DOMAIN list : list[i].payee # p BY <1>2, CountOfNone
<1> QED BY <1>1, <1>2

LEMMA EmptyListOK ==
    ASSUME NEW h
    PROVE  ListOK(<<>>, h) /\ \A p : CountIn(<<>>, p) = 0
BY DEF ListOK, CountIn

LEMMA TallyInOK ==
    ASSUME NEW lists, ListsOK(lists), NEW h
    PROVE  ListOK(TallyIn(lists, h), h)
BY EmptyListOK DEF ListsOK, TallyIn

\* AddPayee counts one vote more for the payee, and no other.
LEMMA WithPayeeCounts ==
    ASSUME NEW list, NEW h, ListOK(list, h), NEW p \in Scripts, h = 0 => p = NoPayee
    PROVE  /\ ListOK(WithPayee(list, p), h)
           /\ \A q : CountIn(WithPayee(list, p), q) =
                        CountIn(list, q) + (IF q = p THEN 1 ELSE 0)
<1> DEFINE new == WithPayee(list, p)
<1>0. list \in Seq(Entries) BY DEF ListOK
<1>1. CASE \E i \in DOMAIN list : list[i].payee = p
    <2>1. new = [i \in DOMAIN list |->
                    IF list[i].payee = p THEN [list[i] EXCEPT !.n = @ + 1] ELSE list[i]]
          BY <1>1 DEF WithPayee
    <2> HIDE DEF new
    <2>2. ASSUME NEW i \in DOMAIN list
          PROVE  /\ new[i] \in Entries /\ new[i].payee = list[i].payee
                 /\ new[i].n = list[i].n + (IF list[i].payee = p THEN 1 ELSE 0)
        <3>1. list[i] \in Entries BY <1>0, EntryFacts
        <3>2. CASE list[i].payee = p
            <4>1. new[i] = [list[i] EXCEPT !.n = @ + 1] BY <2>1, <3>2
            <4> QED BY <3>1, <3>2, <4>1 DEF Entries
        <3>3. CASE list[i].payee # p
            <4>1. new[i] = list[i] BY <2>1, <3>3
            <4> QED BY <3>1, <3>3, <4>1 DEF Entries
        <3> QED BY <3>2, <3>3
    <2>3. DOMAIN new = DOMAIN list BY <2>1
    <2>4. new \in Seq(Entries)
        <3>1. DOMAIN list = 1..Len(list) /\ Len(list) \in Nat BY <1>0
        <3>2. new = [i \in 1..Len(list) |-> new[i]] BY <2>1, <3>1
        <3>3. \A i \in 1..Len(list) : new[i] \in Entries BY <2>2, <3>1
        <3>4. new \in [1..Len(list) -> Entries] BY <3>2, <3>3
        <3> QED BY <3>1, <3>4
    <2>5. ListOK(new, h) BY <2>2, <2>3, <2>4 DEF ListOK
    <2>6. ASSUME NEW q
          PROVE  CountIn(new, q) = CountIn(list, q) + (IF q = p THEN 1 ELSE 0)
        <3>1. CASE \E i \in DOMAIN list : list[i].payee = q
            <4>1. PICK i \in DOMAIN list : list[i].payee = q BY <3>1
            <4>2. CountIn(list, q) = list[i].n BY <4>1, CountOfEntry
            <4>3. CountIn(new, q) = new[i].n BY <4>1, <2>2, <2>3, <2>5, CountOfEntry
            <4> QED BY <2>2, <4>1, <4>2, <4>3
        <3>2. CASE \A i \in DOMAIN list : list[i].payee # q
            <4>1. q # p BY <1>1, <3>2
            <4>2. CountIn(list, q) = 0 /\ CountIn(new, q) = 0
                  BY <3>2, <2>2, <2>3, CountOfNone
            <4> QED BY <4>1, <4>2
        <3> QED BY <3>1, <3>2
    <2> QED BY <2>5, <2>6 DEF new
<1>2. CASE \A i \in DOMAIN list : list[i].payee # p
    <2> DEFINE e == [payee |-> p, n |-> 1]
    <2>1. new = Append(list, e) BY <1>2 DEF WithPayee
    <2>e. e \in Entries /\ e.payee = p /\ e.n = 1 BY DEF Entries
    <2> HIDE DEF new, e
    <2>2. /\ new \in Seq(Entries) /\ DOMAIN new = 1..Len(list) + 1
          /\ DOMAIN list = 1..Len(list) /\ Len(list) \in Nat
          /\ \A i \in DOMAIN list : new[i] = list[i]
          /\ new[Len(list) + 1] = e
          BY <1>0, <2>1, <2>e
    <2>3. \A i \in DOMAIN new : i \in DOMAIN list \/ i = Len(list) + 1 BY <2>2
    <2>4. ListOK(new, h)
        <3>1. ASSUME NEW i \in DOMAIN new, NEW j \in DOMAIN new, new[i].payee = new[j].payee
              PROVE  i = j
            <4>1. CASE i \in DOMAIN list /\ j \in DOMAIN list BY <2>2, <3>1, <4>1 DEF ListOK
            <4>2. CASE i = Len(list) + 1 /\ j \in DOMAIN list
                  BY <1>2, <2>2, <2>e, <3>1, <4>2
            <4>3. CASE i \in DOMAIN list /\ j = Len(list) + 1
                  BY <1>2, <2>2, <2>e, <3>1, <4>3
            <4> QED BY <2>3, <4>1, <4>2, <4>3
        <3>2. ASSUME h = 0, NEW i \in DOMAIN new PROVE new[i].payee = NoPayee
              BY <2>2, <2>3, <2>e, <3>2 DEF ListOK
        <3> QED BY <2>2, <3>1, <3>2 DEF ListOK
    <2>5. ASSUME NEW q
          PROVE  CountIn(new, q) = CountIn(list, q) + (IF q = p THEN 1 ELSE 0)
        <3>1. CASE q = p
            <4>1. CountIn(list, q) = 0 BY <1>2, <3>1, CountOfNone
            <4>2. Len(list) + 1 \in DOMAIN new /\ new[Len(list) + 1].payee = q
                  BY <2>2, <2>e, <3>1
            <4>3. CountIn(new, q) = new[Len(list) + 1].n BY <2>4, <4>2, CountOfEntry
            <4> QED BY <2>2, <2>e, <3>1, <4>1, <4>3
        <3>2. CASE q # p /\ \E i \in DOMAIN list : list[i].payee = q
            <4>1. PICK i \in DOMAIN list : list[i].payee = q BY <3>2
            <4>2. CountIn(list, q) = list[i].n BY <4>1, CountOfEntry
            <4>3. i \in DOMAIN new /\ new[i] = list[i] BY <2>2, <4>1
            <4>4. CountIn(new, q) = new[i].n BY <2>4, <4>1, <4>3, CountOfEntry
            <4>5. list[i].n \in Nat BY <1>0, EntryFacts
            <4> QED BY <3>2, <4>2, <4>3, <4>4, <4>5
        <3>3. CASE q # p /\ \A i \in DOMAIN list : list[i].payee # q
            <4>1. \A i \in DOMAIN new : new[i].payee # q BY <2>2, <2>3, <2>e, <3>3
            <4> QED BY <3>3, <4>1, CountOfNone
        <3> QED BY <3>1, <3>2, <3>3
    <2> QED BY <2>4, <2>5 DEF new
<1> QED BY <1>1, <1>2

\* GetPayee finds one: the payee of an entry that no other exceeds.
LEMMA MostIsLargest ==
    ASSUME NEW list \in Seq(Entries), list # <<>>,
           NEW B \in Nat, \A i \in DOMAIN list : list[i].n <= B
    PROVE  \E i \in DOMAIN list :
              Most(list) = list[i].payee /\ \A j \in DOMAIN list : list[j].n <= list[i].n
<1> DEFINE short == {B - list[i].n : i \in DOMAIN list}
<1>1. \A i \in DOMAIN list : i \in Nat \ {0} /\ list[i].n \in Nat
      BY EntryFacts
<1>2. 1 \in DOMAIN list /\ DOMAIN list = 1..Len(list) /\ Len(list) \in Nat OBVIOUS
<1>3. short \in SUBSET Nat /\ short # {} BY <1>1, <1>2
<1>4. PICK d \in short : \A k \in short : d <= k BY <1>3, LeastElement
<1>5. PICK a \in DOMAIN list : d = B - list[a].n BY <1>4
<1>6. \A j \in DOMAIN list : list[j].n <= list[a].n
    <2>1. SUFFICES ASSUME NEW j \in DOMAIN list PROVE list[j].n <= list[a].n OBVIOUS
    <2>2. B - list[j].n \in short OBVIOUS
    <2>3. d <= B - list[j].n BY <1>4, <2>2
    <2> QED BY <1>1, <1>5, <2>3
<1> DEFINE largest == {i \in DOMAIN list : \A j \in DOMAIN list : list[j].n <= list[i].n}
<1>7. largest \in SUBSET Nat /\ largest # {} BY <1>1, <1>6
<1>8. PICK i \in largest : \A k \in largest : i <= k BY <1>7, LeastElement
<1>9. \A j \in 1..i - 1 : j \in DOMAIN list /\ list[j].n < list[i].n
    <2>1. SUFFICES ASSUME NEW j \in 1..i - 1
                   PROVE  j \in DOMAIN list /\ list[j].n < list[i].n
          OBVIOUS
    <2>2. j \in DOMAIN list /\ i \in DOMAIN list /\ j < i BY <1>1, <1>2, <1>8
    <2>3. j \notin largest BY <1>1, <1>8, <2>2
    <2>4. PICK k \in DOMAIN list : ~(list[k].n <= list[j].n) BY <2>2, <2>3
    <2>5. list[k].n <= list[i].n BY <1>8
    <2> QED BY <1>1, <2>2, <2>4, <2>5
<1> DEFINE m == CHOOSE x \in DOMAIN list :
                    /\ \A j \in DOMAIN list : list[j].n <= list[x].n
                    /\ \A j \in 1..x - 1 : list[j].n < list[x].n
<1>10. m \in DOMAIN list /\ \A j \in DOMAIN list : list[j].n <= list[m].n
    <2>1. i \in DOMAIN list /\ \A j \in DOMAIN list : list[j].n <= list[i].n BY <1>8
    <2> QED BY <1>9, <2>1
<1>11. Most(list) = list[m].payee BY DEF Most
<1> QED BY <1>10, <1>11

-----------------------------------------------------------------------------
(* The balance. *)

LEMMA VotesInFinite ==
    ASSUME NEW votes, VotesOK(votes), NEW h, NEW p
    PROVE  IsFiniteSet(VotesIn(votes, h, p)) /\ Cardinality(VotesIn(votes, h, p)) \in Nat
BY FS_Subset, FS_CardinalityType DEF VotesIn, VotesOK

LEMMA LateFinite ==
    ASSUME NEW pending, NEW h, NEW p
    PROVE  IsFiniteSet(Late(pending, h, p)) /\ Cardinality(Late(pending, h, p)) \in Nat
<1>1. IsFiniteSet(PayThreads)
    <2>1. PayThreads = ({} \cup {"message"}) \cup {"stake"} BY DEF PayThreads
    <2> QED BY <2>1, FS_EmptySet, FS_AddElement
<1> QED BY <1>1, FS_Subset, FS_CardinalityType DEF Late

LEMMA NobodyIsLate ==
    ASSUME NEW h, NEW p
    PROVE  Cardinality(Late(Nobody, h, p)) = 0
<1>1. Late(Nobody, h, p) = {} BY DEF Late, Nobody
<1> QED BY <1>1, FS_EmptySet

\* The maps as they are at a start without a file.
LEMMA EmptyGood == Good({}, <<>>, Nobody)
<1>1. VotesOK({}) BY FS_EmptySet DEF VotesOK
<1>2. ListsOK(<<>>) BY DEF ListsOK
<1>3. PendingOK(Nobody, {}) BY DEF PendingOK, Nobody
<1>4. Balanced({}, <<>>, Nobody)
    <2>1. SUFFICES ASSUME NEW h \in Nat \ {0}, NEW p \in Scripts
                   PROVE  Cardinality(VotesIn({}, h, p)) =
                            Cardinality(Late(Nobody, h, p)) + CountIn(TallyIn(<<>>, h), p)
          BY DEF Balanced
    <2>2. VotesIn({}, h, p) = {} BY DEF VotesIn
    <2>3. TallyIn(<<>>, h) = <<>> BY DEF TallyIn
    <2> QED BY <2>2, <2>3, NobodyIsLate, EmptyListOK, FS_EmptySet
<1> QED BY <1>1, <1>2, <1>3, <1>4 DEF Good

\* Whole heights go, and their votes with their tallies.
LEMMA KeptGood ==
    ASSUME NEW votes, NEW lists, NEW pending, Good(votes, lists, pending),
           tipHeight \in Int,
           \A t \in PayThreads : \A v \in pending[t] : v.height = 0 \/ v \in Kept(pending[t])
    PROVE  Good(Kept(votes), KeptTallies(votes, lists), pending)
<1> DEFINE new == KeptTallies(votes, lists)
           gone == {v.height : v \in votes \ Kept(votes)}
<1>0. KeepVotes \in Nat BY PayNumbers
<1>1. /\ VotesOK(votes) /\ ListsOK(lists)
      /\ PendingOK(pending, votes) /\ Balanced(votes, lists, pending)
      BY DEF Good
<1>2. Kept(votes) \subseteq votes BY DEF Kept
<1>3. VotesOK(Kept(votes)) BY <1>1, <1>2, FS_Subset DEF VotesOK
<1>4. new = [h \in DOMAIN lists \ gone |-> lists[h]] BY DEF KeptTallies
<1>5. ListsOK(new) BY <1>1, <1>4 DEF ListsOK
<1>6. PendingOK(pending, Kept(votes))
    <2>1. ASSUME NEW t \in PayThreads, NEW v \in pending[t], v.height # 0
          PROVE  v \in Kept(votes)
        <3>1. v \in votes BY <1>1, <2>1 DEF PendingOK
        <3>2. v \in Kept(pending[t]) BY <2>1
        <3> QED BY <3>1, <3>2 DEF Kept
    <2> QED BY <1>1, <2>1 DEF PendingOK
<1>7. Balanced(Kept(votes), new, pending)
    <2>1. SUFFICES ASSUME NEW h \in Nat \ {0}, NEW p \in Scripts
                   PROVE  Cardinality(VotesIn(Kept(votes), h, p)) =
                            Cardinality(Late(pending, h, p)) + CountIn(TallyIn(new, h), p)
          BY DEF Balanced
    <2>2. CASE h \in gone
        <3>1. PICK w \in votes \ Kept(votes) : w.height = h BY <2>2
        <3>2. ~(tipHeight - h <= KeepVotes) BY <3>1 DEF Kept
        <3>3. VotesIn(Kept(votes), h, p) = {} BY <3>2 DEF VotesIn, Kept
        <3>4. Late(pending, h, p) = {} BY <3>2 DEF Late, Kept
        <3>5. TallyIn(new, h) = <<>> BY <1>4, <2>2 DEF TallyIn
        <3> QED BY <3>3, <3>4, <3>5, EmptyListOK, FS_EmptySet
    <2>3. CASE h \notin gone
        <3>1. VotesIn(Kept(votes), h, p) = VotesIn(votes, h, p)
              BY <1>2, <2>3 DEF VotesIn
        <3>2. TallyIn(new, h) = TallyIn(lists, h) BY <1>4, <2>3 DEF TallyIn
        <3> QED BY <1>1, <3>1, <3>2 DEF Balanced
    <2> QED BY <2>2, <2>3
<1> QED BY <1>3, <1>5, <1>6, <1>7 DEF Good

\* A vote is entered: it is late until it is counted.
LEMMA EntersGood ==
    ASSUME NEW votes, NEW lists, NEW pending, Good(votes, lists, pending),
           NEW t \in PayThreads, pending[t] = {},
           NEW v \in PayVote, v \notin votes, v.height = 0 => v.payee = NoPayee
    PROVE  Good(votes \cup {v}, Extend(lists, v.height, TallyIn(lists, v.height)),
                [pending EXCEPT ![t] = {v}])
<1> DEFINE new == Extend(lists, v.height, TallyIn(lists, v.height))
           late == [pending EXCEPT ![t] = {v}]
<1>1. /\ VotesOK(votes) /\ ListsOK(lists)
      /\ PendingOK(pending, votes) /\ Balanced(votes, lists, pending)
      BY DEF Good
<1>2. v.height \in Nat BY DEF PayVote
<1>3. VotesOK(votes \cup {v}) BY <1>1, FS_AddElement DEF VotesOK
<1>4. /\ DOMAIN new = DOMAIN lists \cup {v.height}
      /\ \A h \in DOMAIN new : new[h] = TallyIn(lists, h)
      BY DEF Extend, TallyIn
<1>5. ListsOK(new) BY <1>1, <1>2, <1>4, TallyInOK DEF ListsOK
<1>6. /\ late \in [PayThreads -> SUBSET PayVote] /\ late[t] = {v}
      /\ \A u \in PayThreads \ {t} : late[u] = pending[u]
      BY <1>1 DEF PendingOK
<1> HIDE DEF late, new
<1>7. PendingOK(late, votes \cup {v})
      BY <1>1, <1>6 DEF PendingOK
<1>8. Balanced(votes \cup {v}, new, late)
    <2>1. SUFFICES ASSUME NEW h \in Nat \ {0}, NEW p \in Scripts
                   PROVE  Cardinality(VotesIn(votes \cup {v}, h, p)) =
                            Cardinality(Late(late, h, p)) + CountIn(TallyIn(new, h), p)
          BY DEF Balanced
    <2>2. TallyIn(new, h) = TallyIn(lists, h) BY <1>4 DEF TallyIn
    <2>3. Cardinality(VotesIn(votes, h, p)) =
                Cardinality(Late(pending, h, p)) + CountIn(TallyIn(lists, h), p)
          BY <1>1 DEF Balanced
    <2>4. CASE v.height = h /\ v.payee = p
        <3>1. VotesIn(votes \cup {v}, h, p) = VotesIn(votes, h, p) \cup {v}
              BY <2>4 DEF VotesIn
        <3>2. Cardinality(VotesIn(votes \cup {v}, h, p)) = Cardinality(VotesIn(votes, h, p)) + 1
            <4>1. v \notin VotesIn(votes, h, p) BY DEF VotesIn
            <4>2. IsFiniteSet(VotesIn(votes, h, p)) BY <1>1, VotesInFinite
            <4> QED BY <3>1, <4>1, <4>2, FS_AddElement
        <3>3. Late(late, h, p) = Late(pending, h, p) \cup {t}
              BY <1>6, <2>4 DEF Late
        <3>4. Cardinality(Late(late, h, p)) = Cardinality(Late(pending, h, p)) + 1
            <4>1. t \notin Late(pending, h, p) BY DEF Late
            <4>2. IsFiniteSet(Late(pending, h, p)) BY LateFinite
            <4> QED BY <3>3, <4>1, <4>2, FS_AddElement
        <3>5. CountIn(TallyIn(lists, h), p) \in Nat BY <1>1, TallyInOK, CountIsNat
        <3> QED BY <2>2, <2>3, <3>2, <3>4, <3>5, LateFinite
    <2>5. CASE ~(v.height = h /\ v.payee = p)
        <3>1. VotesIn(votes \cup {v}, h, p) = VotesIn(votes, h, p)
              BY <2>5 DEF VotesIn
        <3>2. Late(late, h, p) = Late(pending, h, p)
              BY <1>6, <2>5 DEF Late
        <3> QED BY <2>2, <2>3, <3>1, <3>2
    <2> QED BY <2>4, <2>5
<1> QED BY <1>3, <1>5, <1>7, <1>8 DEF Good, new, late

\* The vote is counted.
LEMMA CountedGood ==
    ASSUME NEW votes, NEW lists, NEW pending, Good(votes, lists, pending),
           NEW t \in PayThreads, NEW v \in pending[t]
    PROVE  Good(votes,
                Extend(lists, v.height, WithPayee(TallyIn(lists, v.height), v.payee)),
                [pending EXCEPT ![t] = {}])
<1> DEFINE list == WithPayee(TallyIn(lists, v.height), v.payee)
           new == Extend(lists, v.height, list)
           rest == [pending EXCEPT ![t] = {}]
<1>1. /\ VotesOK(votes) /\ ListsOK(lists)
      /\ PendingOK(pending, votes) /\ Balanced(votes, lists, pending)
      BY DEF Good
<1>2. /\ v \in PayVote /\ pending[t] = {v}
      /\ v.height = 0 => v.payee = NoPayee
    <2>1. v \in PayVote BY <1>1 DEF PendingOK
    <2>2. pending[t] = {v} BY <1>1 DEF PendingOK
    <2> QED BY <1>1, <2>1, <2>2 DEF PendingOK
<1>3. v.height \in Nat /\ v.payee \in Scripts BY <1>2 DEF PayVote, Scripts
<1>4. /\ ListOK(list, v.height)
      /\ \A q : CountIn(list, q) =
                    CountIn(TallyIn(lists, v.height), q) + (IF q = v.payee THEN 1 ELSE 0)
      BY <1>1, <1>2, <1>3, TallyInOK, WithPayeeCounts
<1> HIDE DEF list
<1>5. /\ DOMAIN new = DOMAIN lists \cup {v.height} /\ new[v.height] = list
      /\ \A h \in DOMAIN new \ {v.height} : new[h] = lists[h]
      BY DEF Extend
<1>6. /\ rest \in [PayThreads -> SUBSET PayVote] /\ rest[t] = {}
      /\ \A u \in PayThreads \ {t} : rest[u] = pending[u]
      BY <1>1 DEF PendingOK
<1> HIDE DEF rest, new
<1>7. ListsOK(new) BY <1>1, <1>3, <1>4, <1>5 DEF ListsOK
<1>8. PendingOK(rest, votes) BY <1>1, <1>6 DEF PendingOK
<1>9. Balanced(votes, new, rest)
    <2>1. SUFFICES ASSUME NEW h \in Nat \ {0}, NEW p \in Scripts
                   PROVE  Cardinality(VotesIn(votes, h, p)) =
                            Cardinality(Late(rest, h, p)) + CountIn(TallyIn(new, h), p)
          BY DEF Balanced
    <2>2. Cardinality(VotesIn(votes, h, p)) =
                Cardinality(Late(pending, h, p)) + CountIn(TallyIn(lists, h), p)
          BY <1>1 DEF Balanced
    <2>3. CountIn(TallyIn(lists, h), p) \in Nat BY <1>1, TallyInOK, CountIsNat
    <2>4. CASE v.height = h /\ v.payee = p
        <3>1. TallyIn(new, h) = list BY <1>5, <2>4 DEF TallyIn
        <3>2. CountIn(TallyIn(new, h), p) = CountIn(TallyIn(lists, h), p) + 1
              BY <1>4, <2>4, <3>1
        <3>3. t \in Late(pending, h, p) BY <2>4 DEF Late
        <3>4. Late(rest, h, p) = Late(pending, h, p) \ {t}
              BY <1>6 DEF Late
        <3>5. Cardinality(Late(rest, h, p)) = Cardinality(Late(pending, h, p)) - 1
            <4>1. IsFiniteSet(Late(pending, h, p)) BY LateFinite
            <4> QED BY <3>3, <3>4, <4>1, FS_RemoveElement
        <3> QED BY <2>2, <2>3, <3>2, <3>5, LateFinite
    <2>5. CASE ~(v.height = h /\ v.payee = p)
        <3>1. Late(rest, h, p) = Late(pending, h, p)
            <4>1. t \notin Late(pending, h, p) BY <1>2, <2>5 DEF Late
            <4>2. t \notin Late(rest, h, p) BY <1>6 DEF Late
            <4> QED BY <1>6, <4>1, <4>2 DEF Late
        <3>2. CountIn(TallyIn(new, h), p) = CountIn(TallyIn(lists, h), p)
            <4>1. CASE h = v.height
                <5>1. TallyIn(new, h) = list /\ p # v.payee BY <1>5, <2>5, <4>1 DEF TallyIn
                <5> QED BY <1>4, <2>3, <4>1, <5>1
            <4>2. CASE h # v.height
                <5>1. TallyIn(new, h) = TallyIn(lists, h) BY <1>5, <4>2 DEF TallyIn
                <5> QED BY <5>1
            <4> QED BY <4>1, <4>2
        <3> QED BY <2>2, <3>1, <3>2
    <2> QED BY <2>4, <2>5
<1> QED BY <1>1, <1>7, <1>8, <1>9 DEF Good, new, rest, list

-----------------------------------------------------------------------------
(* The steps. *)

LEMMA TallyIsTallyIn == ASSUME NEW h PROVE Tally(h) = TallyIn(tallies, h)
BY DEF Tally, TallyIn

LEMMA InitPay == PaymentsInit => PayInv
<1> SUFFICES ASSUME PaymentsInit PROVE PayInv OBVIOUS
<1> USE DEF PaymentsInit
<1>1. PayRestOK
    <2>1. lastVote = [m \in Voters |-> 0] /\ ownHeight = [t \in PayThreads |-> 0] OBVIOUS
    <2>2. lastVote \in [Voters -> Nat] /\ ownHeight \in [PayThreads -> Nat] BY <2>1
    <2>3. /\ tipHeight = StartHeight /\ lastOwn = 0 /\ dumped = FALSE
          /\ entered = 0 /\ payRestarts = 0
          OBVIOUS
    <2>4. /\ StartHeight \in Nat /\ MaxHeightSeen \in Nat /\ StartHeight <= MaxHeightSeen
          /\ MaxVotes \in Nat /\ MaxPayRestarts \in Nat
          BY PayBounds
    <2>5. /\ tipHeight \in StartHeight..MaxHeightSeen /\ lastOwn \in Nat
          /\ entered \in 0..MaxVotes /\ payRestarts \in 0..MaxPayRestarts
          BY <2>3, <2>4
    <2>6. dumped \in BOOLEAN BY <2>3
    <2> QED BY <2>2, <2>5, <2>6 DEF PayRestOK
<1>2. Good(payVotes, tallies, adding) BY EmptyGood DEF Nobody
<1>3. FileOK(mnpayments) BY DEF FileOK
<1> QED BY <1>1, <1>2, <1>3 DEF PayInv

\* What Enters does to the maps, for both of its callers.
LEMMA EntersKeeps ==
    ASSUME PayInv, NEW t \in PayThreads, NEW v \in PayVote, Enters(t, v),
           adding[t] = {}, v \notin payVotes, v.height = 0 => v.payee = NoPayee
    PROVE  Good(payVotes, tallies, adding)' /\ entered' \in 0..MaxVotes
<1>1. Tally(v.height) = TallyIn(tallies, v.height) BY TallyIsTallyIn
<1>2. Good(payVotes', tallies', adding')
    <2>1. Good(payVotes, tallies, adding) BY DEF PayInv
    <2>2. Good(payVotes \cup {v}, Extend(tallies, v.height, TallyIn(tallies, v.height)),
               [adding EXCEPT ![t] = {v}])
          BY <2>1, EntersGood
    <2>3. /\ payVotes' = payVotes \cup {v}
          /\ tallies' = Extend(tallies, v.height, TallyIn(tallies, v.height))
          /\ adding' = [adding EXCEPT ![t] = {v}]
          BY <1>1 DEF Enters
    <2> QED BY <2>2, <2>3
<1>3. entered' \in 0..MaxVotes BY PayBounds DEF PayInv, PayRestOK, Enters
<1> QED BY <1>2, <1>3 DEF Good, VotesOK, ListsOK, PendingOK, Balanced

LEMMA NextPay == ASSUME DumpsAlone, PayInv, [PaymentsNext]_payVars PROVE PayInv'
<1> USE DEF PayInv
<1>0. /\ StartHeight \in Nat /\ MaxHeightSeen \in Nat /\ StartHeight <= MaxHeightSeen
      /\ MaxPayRestarts \in Nat /\ MaxVotes \in Nat /\ OwnAhead \in Nat \ {0}
      BY PayBounds, PayNumbers
<1>i. tipHeight \in Int BY <1>0 DEF PayRestOK
<1>1. ASSUME NEW h \in StartHeight..MaxHeightSeen, TipMovesTo(h) PROVE PayInv'
    <2>1. PayRestOK' BY <1>1 DEF TipMovesTo, PayRestOK
    <2>2. Good(payVotes, tallies, adding)' BY <1>1 DEF TipMovesTo
    <2>3. FileOK(mnpayments)' BY <1>1 DEF TipMovesTo
    <2> QED BY <2>1, <2>2, <2>3
<1>2. ASSUME NEW m \in Voters, NEW h \in HeardHeights, NEW p \in Payees,
             NEW signed \in BOOLEAN,
             HearsVote([mn |-> m, height |-> h, payee |-> p], signed)
      PROVE  PayInv'
    <2> DEFINE v == [mn |-> m, height |-> h, payee |-> p]
    <2>1. v \in PayVote /\ v.height = h /\ h # 0 /\ v.mn = m /\ h \in Nat
          BY PayBounds DEF PayVote
    <2>2. HearsVote(v, signed) BY <1>2
    <2> HIDE DEF v
    <2>3. /\ adding["message"] = {} /\ v \notin payVotes /\ "message" \in PayThreads
          /\ lastVote' = [lastVote EXCEPT ![m] = h]
          /\ UNCHANGED <<tipHeight, lastOwn, ownHeight, mnpayments, dumped, payRestarts>>
          BY <2>1, <2>2 DEF HearsVote, PayThreads
    <2>4. Good(payVotes, tallies, adding)' /\ entered' \in 0..MaxVotes
        <3>1. CASE signed
            <4>1. Enters("message", v) BY <2>2, <3>1 DEF HearsVote
            <4> QED BY <2>1, <2>3, <4>1, EntersKeeps
        <3>2. CASE ~signed
            <4>1. UNCHANGED <<payVotes, tallies, adding, entered>>
                  BY <2>2, <3>2 DEF HearsVote
            <4> QED BY <4>1 DEF PayRestOK
        <3> QED BY <3>1, <3>2
    <2>5. PayRestOK' BY <2>1, <2>3, <2>4 DEF PayRestOK
    <2>6. FileOK(mnpayments)' BY <2>3
    <2> QED BY <2>4, <2>5, <2>6
<1>3. ASSUME NEW t \in PayThreads, ProcessBlock(t) PROVE PayInv'
    <2>1. PICK v \in {[mn |-> OwnVoter, height |-> tipHeight + OwnAhead, payee |-> p] : p \in Payees}
                        \cup {EmptyVote} :
              v \notin payVotes /\ Enters(t, v)
          BY <1>3 DEF ProcessBlock
    <2>2. tipHeight + OwnAhead \in Nat \ {0} BY <1>0 DEF PayRestOK
    <2>3. v \in PayVote BY <2>1, <2>2, OwnVoterVotes DEF PayVote, EmptyVote
    <2>8. v.height = 0 => v.payee = NoPayee BY <2>1, <2>2 DEF EmptyVote
    <2>4. /\ adding[t] = {} /\ ownHeight' = [ownHeight EXCEPT ![t] = tipHeight + OwnAhead]
          /\ UNCHANGED <<tipHeight, lastVote, lastOwn, mnpayments, dumped, payRestarts>>
          BY <1>3 DEF ProcessBlock
    <2>5. Good(payVotes, tallies, adding)' /\ entered' \in 0..MaxVotes
          BY <2>1, <2>3, <2>8, <2>4, EntersKeeps
    <2>6. PayRestOK' BY <2>2, <2>4, <2>5 DEF PayRestOK
    <2>7. FileOK(mnpayments)' BY <2>4
    <2> QED BY <2>5, <2>6, <2>7
<1>4. ASSUME NEW t \in PayThreads, AddPayee(t) PROVE PayInv'
    <2>1. PICK v \in adding[t] :
              tallies' = Extend(tallies, v.height, WithPayee(Tally(v.height), v.payee))
          BY <1>4 DEF AddPayee
    <2>2. Tally(v.height) = TallyIn(tallies, v.height) BY TallyIsTallyIn
    <2>3. Good(payVotes, tallies, adding) OBVIOUS
    <2>4. Good(payVotes, tallies', [adding EXCEPT ![t] = {}])
          BY <2>1, <2>2, <2>3, CountedGood
    <2>5. /\ adding' = [adding EXCEPT ![t] = {}]
          /\ lastOwn' \in {lastOwn, ownHeight[t]} /\ ownHeight' = [ownHeight EXCEPT ![t] = 0]
          /\ UNCHANGED <<tipHeight, payVotes, lastVote, mnpayments, dumped, entered, payRestarts>>
          BY <1>4 DEF AddPayee
    <2>6. PayRestOK' BY <2>5 DEF PayRestOK
    <2>7. Good(payVotes', tallies', adding') BY <2>4, <2>5
    <2>8. FileOK(mnpayments)' BY <2>5
    <2> QED BY <2>6, <2>7, <2>8
<1>5. CASE CleanPaymentList
    <2>1. /\ payVotes' = Kept(payVotes) /\ tallies' = KeptTallies(payVotes, tallies)
          /\ UNCHANGED <<tipHeight, adding, lastVote, lastOwn, ownHeight, mnpayments, dumped,
                         entered, payRestarts>>
          BY <1>5 DEF CleanPaymentList
    <2>2. \A t \in PayThreads : \A v \in adding[t] : v.height = 0 \/ v \in Kept(adding[t])
          BY <1>5 DEF CleanPaymentList
    <2>3. Good(Kept(payVotes), KeptTallies(payVotes, tallies), adding)
          BY <1>i, <2>2, KeptGood
    <2>4. Good(payVotes', tallies', adding') BY <2>1, <2>3
    <2>5. PayRestOK' BY <2>1 DEF PayRestOK
    <2>6. FileOK(mnpayments)' BY <2>1
    <2> QED BY <2>4, <2>5, <2>6
<1>6. CASE DumpMasternodePayments
    <2>1. /\ adding = Nobody
          /\ dumped' = TRUE
          /\ mnpayments' = IF mnpayments = Broken THEN Broken
                           ELSE [votes |-> payVotes, tallies |-> tallies]
          /\ UNCHANGED <<tipHeight, payVotes, tallies, adding, lastVote, lastOwn,
                         ownHeight, entered, payRestarts>>
        <3>1. NoneBeingCounted BY <1>6 DEF DumpMasternodePayments, DumpsAlone
        <3>2. adding \in [PayThreads -> SUBSET PayVote] BY DEF Good, PendingOK
        <3>3. adding = Nobody BY <3>1, <3>2 DEF Nobody, NoneBeingCounted
        <3> QED BY <1>6, <3>3 DEF DumpMasternodePayments
    <2>2. Good(payVotes', tallies', adding') BY <2>1
    <2>3. PayRestOK' BY <2>1 DEF PayRestOK
    <2>4. Good(payVotes, tallies, Nobody) BY <2>1
    <2>5. FileOK(mnpayments')
        <3>1. CASE mnpayments = Broken BY <2>1, <3>1 DEF FileOK
        <3>2. CASE mnpayments # Broken
            <4>1. /\ DOMAIN mnpayments' = {"votes", "tallies"}
                  /\ mnpayments'.votes = payVotes /\ mnpayments'.tallies = tallies
                  BY <2>1, <3>2
            <4> QED BY <2>4, <4>1 DEF FileOK
        <3> QED BY <3>1, <3>2
    <2> QED BY <2>2, <2>3, <2>5
<1>7. CASE Restart
    <2>1. PICK votes, lists :
             /\ Good(votes, lists, Nobody)
             /\ payVotes' = Kept(votes) /\ tallies' = KeptTallies(votes, lists)
        <3>1. CASE mnpayments' \in {Missing, Broken}
            <4>1. payVotes' = Kept({}) /\ tallies' = KeptTallies({}, <<>>)
                  BY <1>7, <3>1 DEF Restart
            <4> QED BY <4>1, EmptyGood
        <3>2. CASE mnpayments' \notin {Missing, Broken}
            <4>1. mnpayments' = mnpayments BY <1>7, <3>2 DEF Restart
            <4>2. Good(mnpayments.votes, mnpayments.tallies, Nobody)
                  BY <3>2, <4>1 DEF FileOK
            <4>3. /\ payVotes' = Kept(mnpayments.votes)
                  /\ tallies' = KeptTallies(mnpayments.votes, mnpayments.tallies)
                  BY <1>7, <3>2, <4>1 DEF Restart
            <4> QED BY <4>2, <4>3
        <3> QED BY <3>1, <3>2
    <2>2. adding' = Nobody BY <1>7 DEF Restart, Nobody
    <2>3. \A t \in PayThreads : \A v \in Nobody[t] : v.height = 0 \/ v \in Kept(Nobody[t])
          BY DEF Nobody
    <2>4. Good(Kept(votes), KeptTallies(votes, lists), Nobody)
          BY <1>i, <2>1, <2>3, KeptGood
    <2>5. Good(payVotes', tallies', adding') BY <2>1, <2>2, <2>4
    <2>6. PayRestOK'
        <3>1. lastVote' = [m \in Voters |-> 0] /\ ownHeight' = [t \in PayThreads |-> 0]
              BY <1>7 DEF Restart
        <3>2. lastVote' \in [Voters -> Nat] /\ ownHeight' \in [PayThreads -> Nat] BY <3>1
        <3>3. /\ lastOwn' = 0 /\ dumped' = FALSE /\ UNCHANGED <<tipHeight, entered>>
              /\ payRestarts' = payRestarts + 1 /\ payRestarts < MaxPayRestarts
              BY <1>7 DEF Restart
        <3>4. /\ tipHeight' \in StartHeight..MaxHeightSeen /\ lastOwn' \in Nat
              /\ entered' \in 0..MaxVotes /\ payRestarts' \in 0..MaxPayRestarts
              BY <1>0, <3>3 DEF PayRestOK
        <3>5. dumped' \in BOOLEAN BY <3>3
        <3> QED BY <3>2, <3>4, <3>5 DEF PayRestOK
    <2>7. FileOK(mnpayments')
          BY <1>7 DEF Restart, FileOK
    <2> QED BY <2>5, <2>6, <2>7
<1>8. CASE UNCHANGED payVars
      BY <1>8 DEF payVars, PayRestOK
<1> QED BY <1>1, <1>2, <1>3, <1>4, <1>5, <1>6, <1>7, <1>8 DEF PaymentsNext

LEMMA PayInvariant == ASSUME DumpsAlone PROVE PaymentsSpec => []PayInv
<1>1. PaymentsInit => PayInv BY InitPay
<1>2. PayInv /\ [PaymentsNext]_payVars => PayInv' BY NextPay
<1> QED BY <1>1, <1>2, PTL DEF PaymentsSpec

-----------------------------------------------------------------------------
(* What follows. *)

LEMMA Mirrors == ASSUME PayInv PROVE TalliesMirrorVotes
<1>1. SUFFICES ASSUME NEW h \in ({v.height : v \in payVotes} \cup DOMAIN tallies) \ {0},
                      NEW p \in Payees
               PROVE  LET counted == {i \in DOMAIN Tally(h) : Tally(h)[i].payee = p}
                          late == {t \in PayThreads :
                                      \E v \in adding[t] : v.height = h /\ v.payee = p} IN
                      /\ Cardinality(counted) <= 1
                      /\ VotesFor(h, p) = Cardinality(late) + (IF counted = {} THEN 0
                                              ELSE Tally(h)[CHOOSE i \in counted : TRUE].n)
      BY DEF TalliesMirrorVotes
<1> DEFINE counted == {i \in DOMAIN Tally(h) : Tally(h)[i].payee = p}
<1>2. h \in Nat \ {0} /\ p \in Scripts
      BY DEF PayInv, Good, VotesOK, ListsOK, PayVote, Scripts
<1>3. ListOK(Tally(h), h) BY TallyIsTallyIn, TallyInOK DEF PayInv, Good
<1>4. VotesFor(h, p) = Cardinality(Late(adding, h, p)) + CountIn(Tally(h), p)
      BY <1>2, TallyIsTallyIn DEF PayInv, Good, Balanced, VotesFor, VotesIn
<1>5. CASE counted = {}
    <2>1. CountIn(Tally(h), p) = 0 BY <1>5, CountOfNone
    <2>2. Cardinality(counted) = 0 BY <1>5, FS_EmptySet
    <2>3. Cardinality(Late(adding, h, p)) \in Nat BY LateFinite
    <2> HIDE DEF counted
    <2>4. /\ Cardinality(counted) <= 1
          /\ VotesFor(h, p) = Cardinality(Late(adding, h, p)) + 0
          BY <1>4, <2>1, <2>2
    <2> QED BY <1>5, <2>4 DEF Late, counted
<1>6. CASE counted # {}
    <2>1. PICK i \in DOMAIN Tally(h) : Tally(h)[i].payee = p BY <1>6
    <2>2. counted = {i} BY <1>3, <2>1 DEF ListOK
    <2>3. (CHOOSE j \in counted : TRUE) = i BY <2>2
    <2>4. CountIn(Tally(h), p) = Tally(h)[i].n BY <1>3, <2>1, CountOfEntry
    <2>5. Cardinality(counted) = 1 BY <2>2, FS_Singleton
    <2> HIDE DEF counted
    <2>6. /\ Cardinality(counted) <= 1
          /\ VotesFor(h, p) = Cardinality(Late(adding, h, p)) +
                                Tally(h)[CHOOSE j \in counted : TRUE].n
        <3>1. Tally(h)[CHOOSE j \in counted : TRUE].n = CountIn(Tally(h), p)
              BY <2>3, <2>4
        <3> QED BY <1>4, <2>5, <3>1
    <2> QED BY <1>6, <2>6 DEF Late, counted
<1> QED BY <1>5, <1>6

\* With nobody about to count, a payee has as many votes as its entry says.
LEMMA VotesAreCounted ==
    ASSUME PayInv, NoneBeingCounted, NEW h \in Nat \ {0}, NEW p \in Scripts
    PROVE  VotesFor(h, p) = CountIn(Tally(h), p)
<1>1. Late(adding, h, p) = {} BY DEF Late, NoneBeingCounted
<1>2. Cardinality(Late(adding, h, p)) = 0 BY <1>1, FS_EmptySet
<1>3. VotesFor(h, p) = 0 + CountIn(Tally(h), p)
      BY <1>2, TallyIsTallyIn DEF PayInv, Good, Balanced, VotesFor, VotesIn
<1>4. CountIn(Tally(h), p) \in Nat
      BY TallyIsTallyIn, TallyInOK, CountIsNat DEF PayInv, Good
<1> QED BY <1>3, <1>4

LEMMA VotedFinite ==
    ASSUME PayInv, NEW h
    PROVE  IsFiniteSet(Voted(h)) /\ Cardinality(Voted(h)) \in Nat /\ Voted(h) \subseteq Scripts
<1> DEFINE W == {w \in payVotes : w.height = h}
           f == [v \in W |-> v.payee]
<1>1. VotesOK(payVotes) BY DEF PayInv, Good
<1>2. IsFiniteSet(W) BY <1>1, FS_Subset DEF VotesOK
<1>3. Voted(h) = {v.payee : v \in W} BY DEF Voted
<1>4. f \in Surjection(W, Voted(h))
      BY <1>3 DEF Surjection
<1>5. IsFiniteSet(Voted(h)) BY <1>2, <1>4, FS_Surjection
<1>6. Voted(h) \subseteq Scripts BY <1>1, <1>3 DEF VotesOK, PayVote, Scripts
<1> QED BY <1>5, <1>6, FS_CardinalityType

\* A peer's tallies name every payee that has a vote, with all its votes, and
\* nobody else.
LEMMA PeerTalliesComplete ==
    ASSUME PayInv, NEW h, NEW list \in PeerTallies(h)
    PROVE  /\ DOMAIN list = 1..Cardinality(Voted(h))
           /\ \A i \in DOMAIN list :
                 list[i].payee \in Voted(h) /\ list[i].n = VotesFor(h, list[i].payee)
           /\ \A p \in Voted(h) : \E i \in DOMAIN list : list[i].payee = p
<1> DEFINE k == Cardinality(Voted(h))
           E == {[payee |-> p, n |-> VotesFor(h, p)] : p \in Voted(h)}
           name == [p \in Voted(h) |-> [payee |-> p, n |-> VotesFor(h, p)]]
<1>1. list \in [1..k -> E] /\ \A i, j \in DOMAIN list : i # j => list[i] # list[j]
      BY DEF PeerTallies
<1>2. IsFiniteSet(Voted(h)) /\ k \in Nat BY VotedFinite
<1>3. name \in Surjection(Voted(h), E) /\ name \in Injection(Voted(h), E)
    <2>1. name \in [Voted(h) -> E] OBVIOUS
    <2>2. \A p, q \in Voted(h) : name[p] = name[q] => p = q
        <3>1. \A p \in Voted(h) : name[p].payee = p OBVIOUS
        <3> HIDE DEF name
        <3> QED BY <3>1
    <2>3. \A e \in E : \E p \in Voted(h) : name[p] = e OBVIOUS
    <2> HIDE DEF name
    <2> QED BY <2>1, <2>2, <2>3 DEF Surjection, Injection, IsInjective
<1>4. IsFiniteSet(E) /\ Cardinality(E) = k
      BY <1>2, <1>3, FS_Surjection
<1>5. Cardinality(1..k) = k
      BY <1>2, FS_Interval
<1>6. list \in Injection(1..k, E) BY <1>1 DEF Injection, IsInjective
<1>7. list \in Surjection(1..k, E) BY <1>4, <1>5, <1>6, FS_Injection
<1>8. \A p \in Voted(h) : \E i \in DOMAIN list : list[i].payee = p
    <2>1. SUFFICES ASSUME NEW p \in Voted(h) PROVE \E i \in DOMAIN list : list[i].payee = p
          OBVIOUS
    <2>2. [payee |-> p, n |-> VotesFor(h, p)] \in E OBVIOUS
    <2>3. PICK i \in 1..k : list[i] = [payee |-> p, n |-> VotesFor(h, p)]
          BY <1>7, <2>2 DEF Surjection
    <2> QED BY <1>1, <2>3
<1>9. \A i \in DOMAIN list :
         list[i].payee \in Voted(h) /\ list[i].n = VotesFor(h, list[i].payee)
      BY <1>1
<1> QED BY <1>1, <1>8, <1>9

LEMMA VotesForBounds ==
    ASSUME PayInv, NEW h, NEW p
    PROVE  /\ VotesFor(h, p) \in Nat /\ VotesFor(h, p) <= Cardinality(payVotes)
           /\ p \in Voted(h) <=> VotesFor(h, p) # 0
<1> DEFINE V == {v \in payVotes : v.height = h /\ v.payee = p}
<1>1. IsFiniteSet(payVotes) BY DEF PayInv, Good, VotesOK
<1>2. IsFiniteSet(V) /\ Cardinality(V) <= Cardinality(payVotes) BY <1>1, FS_Subset
<1>3. Cardinality(V) \in Nat BY <1>2, FS_CardinalityType
<1>4. Cardinality(V) = 0 <=> V = {} BY <1>2, FS_EmptySet
<1>5. p \in Voted(h) <=> V # {} BY DEF Voted
<1> QED BY <1>2, <1>3, <1>4, <1>5 DEF VotesFor

LEMMA PeerPays == ASSUME PayInv PROVE PeersPayeeAccepted
<1>1. SUFFICES ASSUME NoneBeingCounted, NEW h \in {v.height : v \in payVotes},
                      NEW list \in PeerTallies(h)
               PROVE  Accepts(h, Most(list))
      BY DEF PeersPayeeAccepted
<1> DEFINE k == Cardinality(Voted(h))
<1>2. /\ DOMAIN list = 1..k /\ k \in Nat
      /\ \A i \in DOMAIN list :
            list[i].payee \in Voted(h) /\ list[i].n = VotesFor(h, list[i].payee)
      /\ \A p \in Voted(h) : \E i \in DOMAIN list : list[i].payee = p
      BY PeerTalliesComplete, VotedFinite
<1>3. Voted(h) # {} BY DEF Voted
<1>4. list \in Seq(Entries) /\ list # <<>>
    <2>1. list \in [1..k -> {[payee |-> p, n |-> VotesFor(h, p)] : p \in Voted(h)}]
          BY DEF PeerTallies
    <2>2. {[payee |-> p, n |-> VotesFor(h, p)] : p \in Voted(h)} \subseteq Entries
        <3>1. ASSUME NEW p \in Voted(h)
              PROVE  VotesFor(h, p) \in Nat \ {0} /\ p \in Scripts
              BY VotesForBounds, VotedFinite
        <3> QED BY <3>1 DEF Entries
    <2>3. list \in [1..k -> Entries] BY <2>1, <2>2
    <2>4. list \in Seq(Entries) BY <1>2, <2>3
    <2> QED BY <1>2, <1>3, <2>4
<1>5. Cardinality(payVotes) \in Nat BY FS_CardinalityType DEF PayInv, Good, VotesOK
<1>6. \A i \in DOMAIN list : list[i].n <= Cardinality(payVotes)
      BY <1>2, VotesForBounds
<1>7. PICK m \in DOMAIN list :
          Most(list) = list[m].payee /\ \A j \in DOMAIN list : list[j].n <= list[m].n
      BY <1>4, <1>5, <1>6, MostIsLargest
<1> DEFINE best == list[m].payee
<1>8. best \in Voted(h) /\ list[m].n = VotesFor(h, best) /\ best \in Scripts
      BY <1>2, VotedFinite
<1>9. ListOK(Tally(h), h) BY TallyIsTallyIn, TallyInOK DEF PayInv, Good
<1>10. SUFFICES ASSUME NEW i \in DOMAIN Tally(h), Tally(h)[i].n >= SignaturesRequired
                PROVE  \E j \in DOMAIN Tally(h) :
                          Tally(h)[j].n >= SignaturesRequired /\ Tally(h)[j].payee = best
       BY <1>7 DEF Accepts
<1>11. /\ Tally(h)[i].payee \in Scripts /\ Tally(h)[i].n \in Nat
       /\ SignaturesRequired \in Nat \ {0}
       BY <1>9, EntryFacts, PayNumbers DEF ListOK
<1>12. h \in Nat BY DEF PayInv, Good, VotesOK, PayVote
<1>13. CASE h = 0
    <2>1. Tally(h)[i].payee = NoPayee BY <1>9, <1>13 DEF ListOK
    <2>2. best = NoPayee BY <1>8, <1>13 DEF Voted, PayInv, Good, VotesOK
    <2> QED BY <1>10, <2>1, <2>2
<1>14. CASE h # 0
    <2> DEFINE p == Tally(h)[i].payee
    <2>1. VotesFor(h, p) = Tally(h)[i].n
        <3>1. CountIn(Tally(h), p) = Tally(h)[i].n BY <1>9, CountOfEntry
        <3>2. VotesFor(h, p) = CountIn(Tally(h), p)
              BY <1>1, <1>11, <1>12, <1>14, VotesAreCounted
        <3> QED BY <3>1, <3>2
    <2>2. p \in Voted(h) BY <1>10, <1>11, <2>1, VotesForBounds
    <2>3. PICK j \in DOMAIN list : list[j].payee = p BY <1>2, <2>2
    <2>4. VotesFor(h, best) >= VotesFor(h, p)
          BY <1>2, <1>7, <1>8, <2>3
    <2>5. CountIn(Tally(h), best) = VotesFor(h, best)
          BY <1>1, <1>8, <1>12, <1>14, VotesAreCounted
    <2>6. VotesFor(h, best) >= SignaturesRequired
          BY <1>10, <1>11, <2>1, <2>4, VotesForBounds
    <2>7. PICK q \in DOMAIN Tally(h) : Tally(h)[q].payee = best
          BY <1>11, <2>5, <2>6, CountOfNone
    <2>8. CountIn(Tally(h), best) = Tally(h)[q].n BY <1>9, <2>7, CountOfEntry
    <2> QED BY <2>5, <2>6, <2>7, <2>8
<1> QED BY <1>12, <1>13, <1>14

\* node-payments.cpp: through cleaning, shutdowns and crashes the tally of a
\* height is that of the votes in the map, but for those a thread is about to
\* count; provided no vote is being counted while Shutdown writes the file.
THEOREM TalliesFollowVotes == ASSUME DumpsAlone PROVE PaymentsSpec => []TalliesMirrorVotes
<1>1. PayInv => TalliesMirrorVotes BY Mirrors
<1> QED BY <1>1, PayInvariant, PTL

\* CMasternodeBlockPayees::IsTransactionValid accepts the payee that GetPayee
\* chose for a peer with the same votes, whatever the order it heard them in.
THEOREM PayeeAgreed == ASSUME DumpsAlone PROVE PaymentsSpec => []PeersPayeeAccepted
<1>1. PayInv => PeersPayeeAccepted BY PeerPays
<1> QED BY <1>1, PayInvariant, PTL

-----------------------------------------------------------------------------
(* Types of the payments, which hold whenever the file is written.         *)

PayMaps(votes, lists) ==
    /\ votes \subseteq PayVote /\ DOMAIN lists \subseteq Nat
    /\ \A h \in DOMAIN lists : lists[h] \in Seq(Entries)

PayTypeInv ==
    /\ PayRestOK /\ PayMaps(payVotes, tallies)
    /\ adding \in [PayThreads -> SUBSET PayVote]
    /\ mnpayments \notin {Missing, Broken} =>
          /\ DOMAIN mnpayments = {"votes", "tallies"}
          /\ PayMaps(mnpayments.votes, mnpayments.tallies)

\* Counting a vote leaves a list of payees.
LEMMA WithPayeeType ==
    ASSUME NEW list \in Seq(Entries), NEW p \in Scripts
    PROVE  WithPayee(list, p) \in Seq(Entries)
<1>1. CASE \E i \in DOMAIN list : list[i].payee = p
    <2> DEFINE new == [i \in 1..Len(list) |->
                    IF list[i].payee = p THEN [list[i] EXCEPT !.n = @ + 1] ELSE list[i]]
    <2>1. DOMAIN list = 1..Len(list) /\ Len(list) \in Nat OBVIOUS
    <2>2. WithPayee(list, p) = new BY <1>1, <2>1 DEF WithPayee
    <2>3. ASSUME NEW i \in 1..Len(list) PROVE new[i] \in Entries
        <3>1. list[i] \in Entries BY <2>1, EntryFacts
        <3>2. CASE list[i].payee = p
            <4>1. [list[i] EXCEPT !.n = @ + 1] \in Entries BY <3>1 DEF Entries
            <4> QED BY <3>2, <4>1
        <3>3. CASE list[i].payee # p BY <3>1, <3>3
        <3> QED BY <3>2, <3>3
    <2>4. new \in [1..Len(list) -> Entries] BY <2>3
    <2> HIDE DEF new
    <2> QED BY <2>1, <2>2, <2>4
<1>2. CASE \A i \in DOMAIN list : list[i].payee # p
    <2>1. [payee |-> p, n |-> 1] \in Entries BY DEF Entries
    <2> QED BY <1>2, <2>1 DEF WithPayee
<1> QED BY <1>1, <1>2

\* A height's tally, empty or not, is replaced.
LEMMA ExtendMaps ==
    ASSUME PayMaps(payVotes, tallies), NEW votes \in SUBSET PayVote,
           NEW h \in Nat, NEW list \in Seq(Entries)
    PROVE  PayMaps(votes, Extend(tallies, h, list))
<1> DEFINE new == Extend(tallies, h, list)
<1>1. DOMAIN new = DOMAIN tallies \cup {h} BY DEF Extend
<1>2. \A x \in DOMAIN new : new[x] = IF x = h THEN list ELSE tallies[x] BY DEF Extend
<1> HIDE DEF new
<1>3. PayMaps(votes, new) BY <1>1, <1>2 DEF PayMaps
<1> QED BY <1>3 DEF new

LEMMA TallyType ==
    ASSUME PayMaps(payVotes, tallies), NEW h
    PROVE  Tally(h) \in Seq(Entries)
BY DEF PayMaps, Tally

LEMMA KeptMaps ==
    ASSUME NEW votes, NEW lists, PayMaps(votes, lists)
    PROVE  PayMaps(Kept(votes), KeptTallies(votes, lists))
<1> DEFINE gone == {v.height : v \in votes \ Kept(votes)}
           new == [h \in DOMAIN lists \ gone |-> lists[h]]
<1>1. KeptTallies(votes, lists) = new BY DEF KeptTallies
<1>2. DOMAIN new \subseteq DOMAIN lists /\ \A h \in DOMAIN new : new[h] = lists[h]
      OBVIOUS
<1> HIDE DEF new
<1> QED BY <1>1, <1>2 DEF PayMaps, Kept

LEMMA EntersTypes ==
    ASSUME PayTypeInv, NEW t \in PayThreads, NEW v \in PayVote, Enters(t, v)
    PROVE  /\ PayMaps(payVotes, tallies)' /\ entered' \in 0..MaxVotes
           /\ adding' \in [PayThreads -> SUBSET PayVote]
<1>1. /\ payVotes' = payVotes \cup {v} /\ adding' = [adding EXCEPT ![t] = {v}]
      /\ tallies' = Extend(tallies, v.height, Tally(v.height))
      /\ entered < MaxVotes /\ entered' = entered + 1
      BY DEF Enters
<1>2. payVotes \cup {v} \in SUBSET PayVote /\ v.height \in Nat
      BY DEF PayTypeInv, PayMaps, PayVote
<1>3. PayMaps(payVotes', tallies')
      BY <1>1, <1>2, TallyType, ExtendMaps DEF PayTypeInv
<1>4. entered' \in 0..MaxVotes BY <1>1, PayBounds DEF PayTypeInv, PayRestOK
<1>5. adding' \in [PayThreads -> SUBSET PayVote] BY <1>1 DEF PayTypeInv
<1> QED BY <1>3, <1>4, <1>5 DEF PayMaps

LEMMA InitPayTypes == PaymentsInit => PayTypeInv
<1> SUFFICES ASSUME PaymentsInit PROVE PayTypeInv OBVIOUS
<1>1. PayRestOK BY InitPay DEF PayInv
<1>2. PayMaps(payVotes, tallies) BY DEF PaymentsInit, PayMaps
<1>3. adding \in [PayThreads -> SUBSET PayVote]
    <2>1. adding = [t \in PayThreads |-> {}] BY DEF PaymentsInit
    <2> QED BY <2>1
<1>4. mnpayments = Missing BY DEF PaymentsInit
<1> QED BY <1>1, <1>2, <1>3, <1>4 DEF PayTypeInv

LEMMA NextPayTypes == ASSUME PayTypeInv, [PaymentsNext]_payVars PROVE PayTypeInv'
<1> USE DEF PayTypeInv
<1>0. /\ StartHeight \in Nat /\ MaxHeightSeen \in Nat /\ StartHeight <= MaxHeightSeen
      /\ MaxPayRestarts \in Nat /\ MaxVotes \in Nat /\ OwnAhead \in Nat \ {0}
      BY PayBounds, PayNumbers
<1>1. ASSUME NEW h \in StartHeight..MaxHeightSeen, TipMovesTo(h) PROVE PayTypeInv'
      BY <1>1 DEF TipMovesTo, PayRestOK, PayMaps
<1>2. ASSUME NEW m \in Voters, NEW h \in HeardHeights, NEW p \in Payees,
             NEW signed \in BOOLEAN,
             HearsVote([mn |-> m, height |-> h, payee |-> p], signed)
      PROVE  PayTypeInv'
    <2> DEFINE v == [mn |-> m, height |-> h, payee |-> p]
    <2>1. v \in PayVote /\ v.mn = m /\ v.height = h /\ h \in Nat
          BY PayBounds DEF PayVote
    <2>2. HearsVote(v, signed) BY <1>2
    <2> HIDE DEF v
    <2>3. /\ lastVote' = [lastVote EXCEPT ![m] = h]
          /\ UNCHANGED <<tipHeight, lastOwn, ownHeight, mnpayments, dumped, payRestarts>>
          BY <2>1, <2>2 DEF HearsVote
    <2>4. /\ PayMaps(payVotes, tallies)' /\ entered' \in 0..MaxVotes
          /\ adding' \in [PayThreads -> SUBSET PayVote]
        <3>1. CASE signed
            <4>1. Enters("message", v) /\ "message" \in PayThreads
                  BY <2>2, <3>1 DEF HearsVote, PayThreads
            <4> QED BY <2>1, <4>1, EntersTypes
        <3>2. CASE ~signed
            <4>1. UNCHANGED <<payVotes, tallies, adding, entered>>
                  BY <2>2, <3>2 DEF HearsVote
            <4> QED BY <4>1 DEF PayRestOK, PayMaps
        <3> QED BY <3>1, <3>2
    <2>5. PayRestOK' BY <2>1, <2>3, <2>4 DEF PayRestOK
    <2> QED BY <2>3, <2>4, <2>5 DEF PayMaps
<1>3. ASSUME NEW t \in PayThreads, ProcessBlock(t) PROVE PayTypeInv'
    <2>1. PICK v \in {[mn |-> OwnVoter, height |-> tipHeight + OwnAhead, payee |-> p] : p \in Payees}
                        \cup {EmptyVote} :
              v \notin payVotes /\ Enters(t, v)
          BY <1>3 DEF ProcessBlock
    <2>2. tipHeight + OwnAhead \in Nat BY <1>0 DEF PayRestOK
    <2>3. v \in PayVote BY <2>1, <2>2, OwnVoterVotes DEF PayVote, EmptyVote
    <2>4. /\ ownHeight' = [ownHeight EXCEPT ![t] = tipHeight + OwnAhead]
          /\ UNCHANGED <<tipHeight, lastVote, lastOwn, mnpayments, dumped, payRestarts>>
          BY <1>3 DEF ProcessBlock
    <2>5. /\ PayMaps(payVotes, tallies)' /\ entered' \in 0..MaxVotes
          /\ adding' \in [PayThreads -> SUBSET PayVote]
          BY <2>1, <2>3, EntersTypes
    <2>6. PayRestOK' BY <2>2, <2>4, <2>5 DEF PayRestOK
    <2> QED BY <2>4, <2>5, <2>6 DEF PayMaps
<1>4. ASSUME NEW t \in PayThreads, AddPayee(t) PROVE PayTypeInv'
    <2>1. PICK v \in adding[t] :
              tallies' = Extend(tallies, v.height, WithPayee(Tally(v.height), v.payee))
          BY <1>4 DEF AddPayee
    <2>2. v \in PayVote /\ v.height \in Nat /\ v.payee \in Scripts
        <3>1. v \in PayVote OBVIOUS
        <3> QED BY <3>1 DEF PayVote, Scripts
    <2>3. /\ adding' = [adding EXCEPT ![t] = {}]
          /\ lastOwn' \in {lastOwn, ownHeight[t]} /\ ownHeight' = [ownHeight EXCEPT ![t] = 0]
          /\ UNCHANGED <<tipHeight, payVotes, lastVote, mnpayments, dumped, entered, payRestarts>>
          BY <1>4 DEF AddPayee
    <2>4. PayMaps(payVotes, tallies)
          OBVIOUS
    <2>5. WithPayee(Tally(v.height), v.payee) \in Seq(Entries)
          BY <2>2, <2>4, TallyType, WithPayeeType
    <2>6. payVotes \in SUBSET PayVote BY <2>4 DEF PayMaps
    <2>7. PayMaps(payVotes, tallies') BY <2>1, <2>2, <2>4, <2>5, <2>6, ExtendMaps
    <2>8. adding' \in [PayThreads -> SUBSET PayVote] BY <2>3
    <2>9. PayRestOK' BY <2>3 DEF PayRestOK
    <2> QED BY <2>3, <2>7, <2>8, <2>9 DEF PayMaps
<1>5. CASE CleanPaymentList
    <2>1. /\ payVotes' = Kept(payVotes) /\ tallies' = KeptTallies(payVotes, tallies)
          /\ UNCHANGED <<tipHeight, adding, lastVote, lastOwn, ownHeight, mnpayments, dumped,
                         entered, payRestarts>>
          BY <1>5 DEF CleanPaymentList
    <2>2. PayMaps(payVotes', tallies') BY <2>1, KeptMaps
    <2>3. PayRestOK' BY <2>1 DEF PayRestOK
    <2> QED BY <2>1, <2>2, <2>3 DEF PayMaps
<1>6. CASE DumpMasternodePayments
    <2>1. /\ dumped' = TRUE
          /\ mnpayments' = IF mnpayments = Broken THEN Broken
                           ELSE [votes |-> payVotes, tallies |-> tallies]
          /\ UNCHANGED <<tipHeight, payVotes, tallies, adding, lastVote, lastOwn,
                         ownHeight, entered, payRestarts>>
          BY <1>6 DEF DumpMasternodePayments
    <2>2. PayRestOK' BY <2>1 DEF PayRestOK
    <2>3. mnpayments' # Broken =>
              /\ DOMAIN mnpayments' = {"votes", "tallies"}
              /\ mnpayments'.votes = payVotes /\ mnpayments'.tallies = tallies
          BY <2>1
    <2> QED BY <2>1, <2>2, <2>3 DEF PayMaps
<1>7. CASE Restart
    <2>1. PICK votes, lists :
             /\ PayMaps(votes, lists)
             /\ payVotes' = Kept(votes) /\ tallies' = KeptTallies(votes, lists)
        <3>1. CASE mnpayments' \in {Missing, Broken}
            <4>1. payVotes' = Kept({}) /\ tallies' = KeptTallies({}, <<>>)
                  BY <1>7, <3>1 DEF Restart
            <4>2. PayMaps({}, <<>>) BY DEF PayMaps
            <4> QED BY <4>1, <4>2
        <3>2. CASE mnpayments' \notin {Missing, Broken}
            <4>1. mnpayments' = mnpayments BY <1>7, <3>2 DEF Restart
            <4>2. PayMaps(mnpayments.votes, mnpayments.tallies)
                  BY <3>2, <4>1
            <4>3. /\ payVotes' = Kept(mnpayments.votes)
                  /\ tallies' = KeptTallies(mnpayments.votes, mnpayments.tallies)
                  BY <1>7, <3>2, <4>1 DEF Restart
            <4> QED BY <4>2, <4>3
        <3> QED BY <3>1, <3>2
    <2>2. PayMaps(payVotes', tallies') BY <2>1, KeptMaps
    <2>3. /\ adding' = [t \in PayThreads |-> {}] /\ lastVote' = [m \in Voters |-> 0]
          /\ ownHeight' = [t \in PayThreads |-> 0]
          BY <1>7 DEF Restart
    <2>4. adding' \in [PayThreads -> SUBSET PayVote] BY <2>3
    <2>5. lastVote' \in [Voters -> Nat] /\ ownHeight' \in [PayThreads -> Nat] BY <2>3
    <2>6. /\ lastOwn' = 0 /\ dumped' = FALSE /\ UNCHANGED <<tipHeight, entered>>
          /\ payRestarts' = payRestarts + 1 /\ payRestarts < MaxPayRestarts
          /\ mnpayments' \in {mnpayments, Broken}
          BY <1>7 DEF Restart
    <2>7. PayRestOK'
        <3>1. /\ tipHeight' \in StartHeight..MaxHeightSeen /\ lastOwn' \in Nat
              /\ entered' \in 0..MaxVotes /\ payRestarts' \in 0..MaxPayRestarts
              BY <1>0, <2>6 DEF PayRestOK
        <3>2. dumped' \in BOOLEAN BY <2>6
        <3> QED BY <2>5, <3>1, <3>2 DEF PayRestOK
    <2>8. mnpayments' \notin {Missing, Broken} => mnpayments' = mnpayments BY <2>6
    <2> QED BY <2>2, <2>4, <2>7, <2>8 DEF PayMaps
<1>8. CASE UNCHANGED payVars
      BY <1>8 DEF payVars, PayRestOK, PayMaps
<1> QED BY <1>1, <1>2, <1>3, <1>4, <1>5, <1>6, <1>7, <1>8 DEF PaymentsNext

\* The variables of Payments keep their types, even where the file is written
\* while a vote is counted.
THEOREM PaymentsTypeCorrect == PaymentsSpec => []PaymentsTypeOK
<1>1. PayTypeInv /\ [PaymentsNext]_payVars => PayTypeInv' BY NextPayTypes
<1>2. PayTypeInv => PaymentsTypeOK
      BY DEF PayTypeInv, PayMaps, PaymentsTypeOK, PayRestOK, Entries, Scripts
<1> QED BY InitPayTypes, <1>1, <1>2, PTL DEF PaymentsSpec

-----------------------------------------------------------------------------
(* The masternode list and the hashes: types                               *)

States == {"PRE_ENABLED", "ENABLED", "EXPIRED", "REMOVE", "VIN_SPENT"}
MnEntry == [sig : Broadcasts, ping : 0..Removal, st : States]
Ages == {Unseen} \cup 0..2 * Removal + 1

\* The types of the two maps that most steps change together.
EntriesOK(e) == e = [n \in ListNodes |-> e[n]] /\ \A n \in ListNodes : e[n] \in MnEntry \cup {NoEntry}
SeenOK(s) == s \in [ListNodes -> [Broadcasts -> Ages]]
ListRestOK ==
    /\ seenMnp \in SUBSET ListNodes /\ pingers \in SUBSET ListNodes
    /\ asked \in SUBSET ListNodes
    /\ offered \in SUBSET (ListNodes \X ListNodes \X Broadcasts)
    /\ age \in [Broadcasts -> {Unsigned} \cup 0..Removal]
    /\ pingAge \in 0..PingWindow
    /\ status \in {"INITIAL", "WAITING", "STARTED", "STOPPED", "OFF"}
    /\ spent \in BOOLEAN
    /\ events \in 0..MaxEvents
ListInv == EntriesOK(entry) /\ SeenOK(seenMnb) /\ ListRestOK

\* What the bounds on times come to.
LEMMA ListTimes ==
    /\ PingWindow \in Nat /\ PingWindow >= 1 /\ Removal \in Nat
    /\ PingWindow < Removal /\ MaxBroadcasts \in Nat /\ MaxBroadcasts >= 1
    /\ MaxEvents \in Nat /\ Hot \in ListNodes /\ Cold \in ListNodes
BY NodesInList, TimesOrdered, ListBounds

\* An age stays within its limit.
LEMMA OlderBounded ==
    ASSUME NEW limit \in Nat, NEW a \in {-1} \cup 0..limit
    PROVE  /\ Older(a, limit) \in {-1} \cup 0..limit
           /\ a # -1 => Older(a, limit) \in 0..limit
BY DEF Older

\* An entry is not the empty one.
LEMMA EntryIsListed == NoEntry \notin MnEntry
BY DEF NoEntry, MnEntry, States

\* Check keeps an entry one.
LEMMA CheckTypes ==
    ASSUME NEW e \in MnEntry, NEW lockMain \in BOOLEAN
    PROVE  Check(e, lockMain) \in MnEntry /\ Check(e, lockMain).sig = e.sig
<1> DEFINE s == Check(e, lockMain).st
<1>1. Check(e, lockMain) = [e EXCEPT !.st = s] /\ s \in States
  BY DEF Check, MnEntry, States
<1> HIDE DEF s
<1> QED BY <1>1 DEF MnEntry

\* So does an update with a later broadcast.
LEMMA UpdatedTypes ==
    ASSUME NEW e \in MnEntry, NEW b \in Broadcasts, NEW p \in 0..Removal
    PROVE  Updated(e, b, p) \in MnEntry
<1> DEFINE q == IF e.ping - p >= 1 THEN p ELSE e.ping
<1>1. q \in 0..Removal
  BY DEF MnEntry
<1>2. Updated(e, b, p) = [e EXCEPT !.sig = b, !.ping = q]
  BY DEF Updated, MnEntry
<1> HIDE DEF q
<1> QED BY <1>1, <1>2 DEF MnEntry

\* Changing one node's entry or what it has seen of a broadcast.
LEMMA EntryChange ==
    ASSUME NEW e, EntriesOK(e), NEW n \in ListNodes, NEW x \in MnEntry \cup {NoEntry}
    PROVE  EntriesOK([e EXCEPT ![n] = x])
BY DEF EntriesOK

LEMMA SeenChange ==
    ASSUME NEW s, SeenOK(s), NEW n \in ListNodes, NEW b \in Broadcasts, NEW x \in Ages
    PROVE  SeenOK([s EXCEPT ![n][b] = x]) /\ s[n][b] \in Ages
BY DEF SeenOK

LEMMA InitList == MasternodeListInit => ListInv
<1> SUFFICES ASSUME MasternodeListInit PROVE ListInv
  OBVIOUS
<1>1. EntriesOK(entry)
  BY DEF MasternodeListInit, EntriesOK
<1>2. SeenOK(seenMnb)
  BY DEF MasternodeListInit, SeenOK, Ages
<1>3. age \in [Broadcasts -> {Unsigned} \cup 0..Removal]
  BY DEF MasternodeListInit
<1>4. pingAge \in 0..PingWindow /\ events \in 0..MaxEvents
  BY ListTimes DEF MasternodeListInit
<1>5. ListRestOK
  BY <1>3, <1>4 DEF MasternodeListInit, ListRestOK
<1> QED BY <1>1, <1>2, <1>5 DEF ListInv

\* The masternode's thread, on lists that have aged.
LEMMA TimeStep == ASSUME ListInv, TimePasses PROVE ListInv'
<1> DEFINE aged == [n \in ListNodes |->
                      [entry[n] EXCEPT !.ping = IF Listed(n) THEN Older(@, Removal) ELSE @]]
           seen == [n \in ListNodes |->
                      [b \in Broadcasts |-> Older(seenMnb[n][b], 2 * Removal + 1)]]
<1> USE ListTimes
<1>1. EntriesOK(aged) /\ \A n \in ListNodes : aged[n] \in MnEntry <=> Listed(n)
  <2> SUFFICES ASSUME NEW n \in ListNodes
               PROVE  /\ aged[n] \in MnEntry \cup {NoEntry}
                      /\ aged[n] \in MnEntry <=> Listed(n)
    BY DEF EntriesOK
  <2>1. CASE entry[n] \in MnEntry
    <3>1. entry[n].ping \in 0..Removal /\ Listed(n)
      BY <2>1, EntryIsListed DEF MnEntry, Listed
    <3>2. Older(entry[n].ping, Removal) \in 0..Removal
      BY <3>1, OlderBounded
    <3>3. aged[n] = [entry[n] EXCEPT !.ping = Older(entry[n].ping, Removal)]
      BY <3>1
    <3> QED BY <2>1, <3>1, <3>2, <3>3 DEF MnEntry
  <2>2. CASE entry[n] = NoEntry
    BY <2>2, EntryIsListed DEF Listed, NoEntry
  <2> QED BY <2>1, <2>2 DEF ListInv, EntriesOK
<1>2. SeenOK(seen)
  BY OlderBounded DEF ListInv, SeenOK, Ages, Unseen
<1>3. age' \in [Broadcasts -> {Unsigned} \cup 0..Removal]
  BY OlderBounded DEF TimePasses, ListInv, ListRestOK, Unsigned
<1>4. ManageStatus(aged, seen) /\ asked' = {} /\ UNCHANGED <<offered, spent, events>>
  BY DEF TimePasses
<1>5. pingAge \in 0..PingWindow /\ Older(pingAge, PingWindow) \in 0..PingWindow
  BY OlderBounded DEF ListInv, ListRestOK
<1> HIDE DEF aged, seen
<1>6. ASSUME aged[Hot] \in MnEntry, SendMasternodePing(aged, seen) PROVE ListInv'
  <2>1. [aged EXCEPT ![Hot].ping = 0] = [aged EXCEPT ![Hot] = [aged[Hot] EXCEPT !.ping = 0]]
    OBVIOUS
  <2>2. [aged[Hot] EXCEPT !.ping = 0] \in MnEntry
    BY <1>6 DEF MnEntry
  <2>3. EntriesOK(entry')
    BY <1>1, <1>6, <2>1, <2>2, EntryChange DEF SendMasternodePing
  <2>4. aged[Hot].sig \in Broadcasts
    BY <1>6 DEF MnEntry
  <2>5. SeenOK(seenMnb')
    <3> DEFINE x == seen[Hot][aged[Hot].sig]
               y == IF x = Unseen THEN x ELSE 0
    <3>1. seenMnb' = [seen EXCEPT ![Hot][aged[Hot].sig] = y]
      BY <1>6 DEF SendMasternodePing
    <3>2. y \in Ages
      BY DEF Ages, Unseen
    <3> QED BY <1>2, <2>4, <3>1, <3>2, SeenChange
  <2> QED BY <1>3, <1>4, <1>6, <2>3, <2>5 DEF SendMasternodePing, ListInv, ListRestOK
<1>7. CASE \/ status = "STARTED" /\ aged[Hot] # NoEntry
           \/ status = "INITIAL" /\ aged[Hot].st = "ENABLED"
  <2>1. aged[Hot] \in MnEntry
    BY <1>1, <1>7 DEF EntriesOK, NoEntry
  <2> QED BY <1>4, <1>6, <1>7, <2>1 DEF ManageStatus
<1>8. CASE ~ \/ status = "STARTED" /\ aged[Hot] # NoEntry
             \/ status = "INITIAL" /\ aged[Hot].st = "ENABLED"
  BY <1>1, <1>2, <1>3, <1>4, <1>5, <1>8 DEF ManageStatus, ListInv, ListRestOK
<1> QED BY <1>7, <1>8

\* CheckAndRemove, on an entry e that Check has seen.
LEMMA RemovedStep ==
    ASSUME ListInv, NEW n \in ListNodes, NEW e \in MnEntry \cup {NoEntry}, NEW forced \in BOOLEAN,
           CheckAndRemoved(n, e, forced)
    PROVE  EntriesOK(entry') /\ SeenOK(seenMnb') /\ asked' \in SUBSET ListNodes
<1> DEFINE gone == e # NoEntry /\ Gone(e, forced)
           s == [b \in Broadcasts |-> IF gone THEN Unseen ELSE Unexpired(seenMnb[n][b])]
<1>1. entry' = [entry EXCEPT ![n] = IF gone THEN NoEntry ELSE e]
  BY DEF CheckAndRemoved
<1>2. EntriesOK(entry')
  <2>1. (IF gone THEN NoEntry ELSE e) \in MnEntry \cup {NoEntry}
    OBVIOUS
  <2> QED BY <1>1, <2>1, EntryChange DEF ListInv
<1>3. seenMnb' = [seenMnb EXCEPT ![n] = s]
  BY DEF CheckAndRemoved, ListInv, SeenOK
<1>4. s \in [Broadcasts -> Ages]
  BY DEF ListInv, SeenOK, Ages, Unexpired
<1> HIDE DEF s
<1>5. SeenOK(seenMnb')
  BY <1>3, <1>4 DEF ListInv, SeenOK
<1>6. asked' \in SUBSET ListNodes
  BY DEF CheckAndRemoved, ListInv, ListRestOK
<1> QED BY <1>2, <1>5, <1>6

LEMMA CheckedEntry ==
    ASSUME ListInv, NEW n \in ListNodes, NEW lockMain \in BOOLEAN
    PROVE  (IF Listed(n) THEN Check(entry[n], lockMain) ELSE NoEntry) \in MnEntry \cup {NoEntry}
BY CheckTypes DEF ListInv, EntriesOK, Listed

\* CheckInputsAndAdd, on an entry e that CheckAndUpdate has seen.
LEMMA AddStep ==
    ASSUME ListInv, NEW n \in ListNodes, NEW m \in ListNodes, NEW b \in Broadcasts,
           NEW p \in 0..Removal, NEW e \in MnEntry \cup {NoEntry}, NEW lockMain \in BOOLEAN,
           CheckInputsAndAdd(n, m, b, p, e, lockMain)
    PROVE  /\ EntriesOK(entry') /\ SeenOK(seenMnb')
           /\ offered' \in SUBSET (ListNodes \X ListNodes \X Broadcasts)
           /\ status' \in {"INITIAL", "WAITING", "STARTED", "STOPPED", "OFF"}
<1>1. Offers(n, b) \in SUBSET (ListNodes \X ListNodes \X Broadcasts)
  BY DEF Offers
<1>2. offered \in SUBSET (ListNodes \X ListNodes \X Broadcasts)
  BY DEF ListInv, ListRestOK
<1>3. p \in Ages
  BY ListTimes DEF Ages
<1>4. [sig |-> b, ping |-> p, st |-> "ENABLED"] \in MnEntry
  BY DEF MnEntry, States
<1>5. EntriesOK(entry')
  <2>1. PICK x \in MnEntry \cup {NoEntry} : entry' = [entry EXCEPT ![n] = x]
    BY <1>4 DEF CheckInputsAndAdd
  <2>2. EntriesOK([entry EXCEPT ![n] = x])
    BY EntryChange DEF ListInv
  <2> QED BY <2>1, <2>2
<1>6. SeenOK(seenMnb')
  <2>1. seenMnb' = seenMnb \/ seenMnb' = [seenMnb EXCEPT ![n][b] = p]
    BY DEF CheckInputsAndAdd
  <2> QED BY <1>3, <2>1, SeenChange DEF ListInv
<1>7. offered' \in SUBSET (ListNodes \X ListNodes \X Broadcasts)
  <2>1. offered' \subseteq offered \cup Offers(n, b)
    BY DEF CheckInputsAndAdd
  <2> QED BY <1>1, <1>2, <2>1
<1>8. status' \in {"INITIAL", "WAITING", "STARTED", "STOPPED", "OFF"}
  BY DEF CheckInputsAndAdd, ListInv, ListRestOK
<1> QED BY <1>5, <1>6, <1>7, <1>8

\* A broadcast, an announcement of one or a list entry arrives.
LEMMA MnbStep ==
    ASSUME ListInv, NEW n \in ListNodes, NEW m \in ListNodes, NEW b \in Broadcasts,
           NEW soon \in BOOLEAN, NEW lockMain \in BOOLEAN, ReceiveMnb(n, m, b, soon, lockMain)
    PROVE  ListInv'
<1> DEFINE p == seenMnb[m][b]
           e == Taken(n, b, p, soon, lockMain)
<1> USE ListTimes
<1>1. p \in Ages /\ UNCHANGED <<seenMnp, pingers, asked, age, pingAge, spent, events>>
  BY SeenChange DEF ListInv, SeenOK, ReceiveMnb
<1>2. ASSUME offered' = offered \ {<<n, m, b>>}, UNCHANGED <<entry, seenMnb, status>>
      PROVE  ListInv'
  BY <1>1, <1>2 DEF ListInv, ListRestOK
<1>3. ASSUME offered' = offered \ {<<n, m, b>>}, seenMnb' = [seenMnb EXCEPT ![n][b] = p],
             UNCHANGED <<entry, status>>
      PROVE  ListInv'
  <2>1. SeenOK(seenMnb')
    BY <1>1, <1>3, SeenChange DEF ListInv
  <2> QED BY <1>1, <1>3, <2>1 DEF ListInv, ListRestOK
<1>4. ASSUME p # Unseen, ~Refused(n, b, p), CheckInputsAndAdd(n, m, b, p, e, lockMain)
      PROVE  ListInv'
  <2>1. p \in 0..Removal
    BY <1>1, <1>4 DEF Ages, Refused
  <2>2. e \in MnEntry \cup {NoEntry}
    <3>1. entry[n] \in MnEntry \cup {NoEntry}
      BY DEF ListInv, EntriesOK
    <3>2. CASE IsEnabled(n) /\ ~soon
      <4>1. entry[n] \in MnEntry
        BY <3>1, <3>2 DEF IsEnabled, NoEntry
      <4>2. Updated(entry[n], b, p) \in MnEntry
        BY <2>1, <4>1, UpdatedTypes
      <4> QED BY <3>2, <4>2, CheckTypes DEF Taken
    <3> QED BY <3>1, <3>2 DEF Taken
  <2> HIDE DEF p, e
  <2>3. /\ EntriesOK(entry') /\ SeenOK(seenMnb')
        /\ offered' \in SUBSET (ListNodes \X ListNodes \X Broadcasts)
        /\ status' \in {"INITIAL", "WAITING", "STARTED", "STOPPED", "OFF"}
    BY <1>4, <2>1, <2>2, AddStep
  <2> QED BY <1>1, <2>3 DEF ListInv, ListRestOK
<1>5. \/ p = Unseen \/ seenMnb[n][b] # Unseen
      \/ Refused(n, b, p)
      \/ p # Unseen /\ ~Refused(n, b, p) /\ CheckInputsAndAdd(n, m, b, p, e, lockMain)
  BY DEF ReceiveMnb
<1> HIDE DEF e
<1> QED BY <1>2, <1>3, <1>4, <1>5 DEF ReceiveMnb

LEMMA StartStep == ASSUME ListInv, NEW b \in Broadcasts, StartMasternode(b) PROVE ListInv'
<1> USE ListTimes
<1>1. EntriesOK(entry')
  <2> DEFINE x == IF Listed(Cold) THEN Updated(entry[Cold], b, 0)
                  ELSE [sig |-> b, ping |-> 0, st |-> "ENABLED"]
  <2>1. entry[Cold] \in MnEntry \cup {NoEntry} /\ entry = [n \in ListNodes |-> entry[n]]
    BY DEF ListInv, EntriesOK
  <2>2. x \in MnEntry
    BY <2>1, UpdatedTypes DEF Listed, MnEntry, States
  <2>3. entry' = [entry EXCEPT ![Cold] = x]
    BY <2>1 DEF StartMasternode
  <2> HIDE DEF x
  <2> QED BY <2>2, <2>3, EntryChange DEF ListInv
<1>2. SeenOK(seenMnb')
  <2>1. 0 \in Ages
    BY DEF Ages
  <2> QED BY <2>1, SeenChange DEF StartMasternode, ListInv
<1>3. offered' \in SUBSET (ListNodes \X ListNodes \X Broadcasts)
  <2>1. Offers(Cold, b) \in SUBSET (ListNodes \X ListNodes \X Broadcasts)
    BY DEF Offers
  <2> QED BY <2>1 DEF StartMasternode, ListInv, ListRestOK
<1>4. age' \in [Broadcasts -> {Unsigned} \cup 0..Removal] /\ events' \in 0..MaxEvents
  BY DEF StartMasternode, ListInv, ListRestOK, Event
<1>5. pingAge' \in 0..PingWindow /\ seenMnp' \in SUBSET ListNodes /\ pingers' \in SUBSET ListNodes
  BY DEF StartMasternode
<1> QED BY <1>1, <1>2, <1>3, <1>4, <1>5 DEF StartMasternode, ListInv, ListRestOK

\* A ping arrives.
LEMMA MnpStep ==
    ASSUME ListInv, NEW n \in ListNodes, NEW m \in ListNodes, NEW lockMain \in BOOLEAN,
           ReceiveMnp(n, m, lockMain)
    PROVE  ListInv'
<1> USE ListTimes
<1>1. /\ seenMnp' \in SUBSET ListNodes /\ UNCHANGED <<age, pingAge, status, spent, events>>
      /\ pingAge \in 0..PingWindow
      /\ entry = [k \in ListNodes |-> entry[k]]
      /\ \A k \in ListNodes : entry[k] \in MnEntry \cup {NoEntry}
  BY DEF ReceiveMnp, ListInv, ListRestOK, EntriesOK
<1>2. ASSUME AskForMN(n, m), UNCHANGED <<entry, pingers>> PROVE ListInv'
  <2>1. asked' \in SUBSET ListNodes
    BY <1>2 DEF AskForMN, ListInv, ListRestOK
  <2>2. CASE IsEnabled(m)
    <3>1. entry[m] \in MnEntry
      BY <1>1, <2>2 DEF IsEnabled, NoEntry
    <3>2. entry[m].sig \in Broadcasts /\ entry[m].ping \in 0..Removal
      BY <3>1 DEF MnEntry
    <3>3. offered' \in SUBSET (ListNodes \X ListNodes \X Broadcasts)
      BY <1>2, <3>2 DEF AskForMN, ListInv, ListRestOK
    <3>4. SeenOK(seenMnb')
      <4> DEFINE x == seenMnb[m][entry[m].sig]
                 y == IF x = Unseen THEN entry[m].ping ELSE x
      <4>1. seenMnb' = seenMnb \/ seenMnb' = [seenMnb EXCEPT ![m][entry[m].sig] = y]
        BY <1>2 DEF AskForMN
      <4>2. x \in Ages
        BY <3>2, SeenChange DEF ListInv, SeenOK
      <4>3. y \in Ages
        BY <3>2, <4>2 DEF Ages
      <4> HIDE DEF y
      <4> QED BY <3>2, <4>1, <4>3, SeenChange DEF ListInv
    <3> QED BY <1>1, <1>2, <2>1, <3>3, <3>4 DEF ListInv, ListRestOK
  <2>3. CASE ~IsEnabled(m)
    BY <1>1, <1>2, <2>1, <2>3 DEF AskForMN, ListInv, ListRestOK
  <2> QED BY <2>2, <2>3
<1>3. ASSUME UNCHANGED <<entry, pingers, asked, offered, seenMnb>> PROVE ListInv'
  BY <1>1, <1>3 DEF ListInv, ListRestOK
<1>4. ASSUME IsEnabled(n), NEW e, e = Check([entry[n] EXCEPT !.ping = pingAge], lockMain),
             entry' = [entry EXCEPT ![n] = e],
             seenMnb' = [seenMnb EXCEPT ![n][e.sig] = IF @ = Unseen THEN @ ELSE pingAge],
             pingers' = IF e.st = "ENABLED" THEN pingers \cup {n} ELSE pingers,
             UNCHANGED <<asked, offered>>
      PROVE  ListInv'
  <2>1. entry[n] \in MnEntry
    BY <1>1, <1>4 DEF IsEnabled, NoEntry
  <2>2. pingAge \in 0..Removal
    BY <1>1
  <2>3. [entry[n] EXCEPT !.ping = pingAge] \in MnEntry
    BY <2>1, <2>2 DEF MnEntry
  <2>4. e \in MnEntry /\ e.sig \in Broadcasts
    BY <1>4, <2>3, CheckTypes DEF MnEntry
  <2>5. EntriesOK(entry')
    BY <1>4, <2>4, EntryChange DEF ListInv
  <2>6. SeenOK(seenMnb')
    <3> DEFINE x == seenMnb[n][e.sig]
               y == IF x = Unseen THEN x ELSE pingAge
    <3>1. seenMnb' = [seenMnb EXCEPT ![n][e.sig] = y]
      BY <1>4
    <3>2. y \in Ages
      BY <2>2 DEF Ages, Unseen
    <3> HIDE DEF y
    <3> QED BY <2>4, <3>1, <3>2, SeenChange DEF ListInv
  <2>7. pingers' \in SUBSET ListNodes
    BY <1>4 DEF ListInv, ListRestOK
  <2> QED BY <1>1, <1>4, <2>5, <2>6, <2>7 DEF ListInv, ListRestOK
<1> QED BY <1>2, <1>3, <1>4 DEF ReceiveMnp

LEMMA NextList == ASSUME ListInv, [MasternodeListNext]_mnVars PROVE ListInv'
<1> USE ListTimes
<1>1. ASSUME TimePasses PROVE ListInv'
  BY <1>1, TimeStep
<1>2. ASSUME NEW n \in ListNodes, NEW lockMain \in BOOLEAN, CheckEntry(n, lockMain) PROVE ListInv'
  <2>1. EntriesOK(entry')
    <3>1. Check(entry[n], lockMain) \in MnEntry
      BY <1>2, CheckTypes DEF CheckEntry, Listed, ListInv, EntriesOK
    <3> QED BY <1>2, <3>1, EntryChange DEF CheckEntry, ListInv
  <2> QED BY <1>2, <2>1 DEF CheckEntry, ListInv, ListRestOK
<1>3. ASSUME NEW n \in ListNodes, NEW lockMain \in BOOLEAN, CheckAndRemove(n, lockMain)
      PROVE  ListInv'
  <2>1. EntriesOK(entry') /\ SeenOK(seenMnb') /\ asked' \in SUBSET ListNodes
    BY <1>3, CheckedEntry, RemovedStep DEF CheckAndRemove
  <2> QED BY <1>3, <2>1 DEF CheckAndRemove, ListInv, ListRestOK
<1>4. ASSUME NEW n \in ListNodes, NEW m \in ListNodes, NEW lockMain \in BOOLEAN,
             ReceiveMnp(n, m, lockMain)
      PROVE  ListInv'
  BY <1>4, MnpStep
<1>5. ASSUME NEW n \in ListNodes, NEW m \in ListNodes, NEW b \in Broadcasts,
             NEW soon \in SoonAfter(n), NEW lockMain \in BOOLEAN,
             ReceiveMnb(n, m, b, soon, lockMain)
      PROVE  ListInv'
  <2>1. soon \in BOOLEAN
    BY <1>5 DEF SoonAfter
  <2> QED BY <1>5, <2>1, MnbStep
<1>6. ASSUME NEW b \in Broadcasts, StartMasternode(b) PROVE ListInv'
  BY <1>6, StartStep
<1>7. ASSUME NEW o \in offered, LoseOffer(o) PROVE ListInv'
  BY <1>7 DEF LoseOffer, ListInv, ListRestOK
<1>8. ASSUME StopHot PROVE ListInv'
  BY <1>8 DEF StopHot, Event, ListInv, ListRestOK
<1>9. ASSUME NEW cached \in BOOLEAN, StartHot(cached) PROVE ListInv'
  <2>1. EntriesOK(entry') /\ SeenOK(seenMnb') /\ asked' \in SUBSET ListNodes
    <3>1. CASE cached
      BY <1>9, <3>1, CheckedEntry, RemovedStep DEF StartHot
    <3>2. CASE ~cached
      <4>1. EntriesOK(entry')
        BY <1>9, <3>2, EntryChange DEF StartHot, ListInv
      <4>2. [b \in Broadcasts |-> Unseen] \in [Broadcasts -> Ages]
        BY DEF Ages
      <4>3. SeenOK(seenMnb')
        BY <1>9, <3>2, <4>2 DEF StartHot, ListInv, SeenOK
      <4> QED BY <1>9, <3>2, <4>1, <4>3 DEF StartHot, ListInv, ListRestOK
    <3> QED BY <3>1, <3>2
  <2>2. status' = "INITIAL" /\ seenMnp' \in SUBSET ListNodes
    BY <1>9 DEF StartHot, ListInv, ListRestOK
  <2> QED BY <1>9, <2>1, <2>2 DEF StartHot, ListInv, ListRestOK
<1>10. ASSUME SpendCollateral PROVE ListInv'
  BY <1>10 DEF SpendCollateral, Event, ListInv, ListRestOK
<1>11. CASE UNCHANGED mnVars
  BY <1>11 DEF mnVars, ListInv, ListRestOK
<1> QED BY <1>1, <1>2, <1>3, <1>4, <1>5, <1>6, <1>7, <1>8, <1>9, <1>10, <1>11
        DEF MasternodeListNext

LEMMA ListTypes == ASSUME ListInv PROVE MasternodeListTypeOK
BY DEF ListInv, ListRestOK, EntriesOK, SeenOK, MasternodeListTypeOK, MnEntry, States, Ages

\* Hashes: the height the walk ends at is that of a block of the branch.
LEMMA WalkedInBranch ==
    ASSUME hashTip \in HashBlocks, NEW h, WalkEnd(h) \in 1..TopHeight
    PROVE  Walked(h) \in HashBlocks
<1>1. \A i \in 0..TopHeight : \E c \in HashBranch[hashTip] : HeightOf(c) = i
  BY HashTree DEF TopHeight
<1>2. WalkEnd(h) \in 0..TopHeight
  OBVIOUS
<1>3. \E b \in HashBranch[hashTip] : HeightOf(b) = WalkEnd(h)
  BY <1>1, <1>2
<1>4. Walked(h) \in HashBranch[hashTip]
  BY <1>3 DEF Walked
<1> QED BY <1>4, HashTree

LEMMA NextHash == ASSUME HashTypeOK, [HashNext]_hashVars PROVE HashTypeOK'
<1>1. ASSUME NEW b \in HashBlocks, TipChanges(b) PROVE HashTypeOK'
  BY <1>1 DEF TipChanges, HashTypeOK
<1>2. ASSUME NEW h \in AskedHeights, GetBlockHash(h) PROVE HashTypeOK'
  <2>1. Walked(h) \in HashBlocks
    BY <1>2, WalkedInBranch DEF GetBlockHash, HashTypeOK
  <2>2. Asked(h) \in Int
    <3>1. h \in Int /\ IsFiniteSet(HashBranch[hashTip])
      BY HashTree DEF HashTypeOK
    <3>2. Cardinality(HashBranch[hashTip]) \in Nat
      BY <3>1, FS_CardinalityType
    <3> QED BY <3>1, <3>2 DEF Asked, TopHeight, HeightOf
  <2> QED BY <1>2, <2>1, <2>2 DEF GetBlockHash, HashTypeOK
<1> QED BY <1>1, <1>2 DEF HashNext, hashVars, HashTypeOK

-----------------------------------------------------------------------------
(* The parts together                                                      *)

\* A behaviour of the composition is one of each of its parts: what is shown
\* of a part holds of it there.
THEOREM PartsAlone ==
    GossipSpec => Spec /\ SporkSpec /\ MasternodeListSpec /\ PaymentsSpec /\ HashSpec
<1>1. AnyInit => Init /\ SporkInit /\ MasternodeListInit /\ PaymentsInit /\ HashInit
  BY DEF AnyInit
<1>2. [AnyNext]_<<gossipVars, part>> =>
          /\ [Next]_vars /\ [SporkNext]_sporkVars /\ [MasternodeListNext]_mnVars
          /\ [PaymentsNext]_payVars /\ [HashNext]_hashVars
  BY DEF AnyNext, gossipVars
<1> QED BY <1>1, <1>2, PTL
        DEF GossipSpec, Spec, SporkSpec, MasternodeListSpec, PaymentsSpec, HashSpec

\* The masternode lists, and the list of broadcasts that go with them, hold
\* what their types say: only a broadcast that was made, with a ping that is
\* not too old for the list.
THEOREM ListTypeCorrect == MasternodeListSpec => []MasternodeListTypeOK
<1>1. MasternodeListInit => ListInv
  BY InitList
<1>2. ListInv /\ [MasternodeListNext]_mnVars => ListInv'
  BY NextList
<1>3. ListInv => MasternodeListTypeOK
  BY ListTypes
<1> QED BY <1>1, <1>2, <1>3, PTL DEF MasternodeListSpec

\* A hash that is remembered is that of a block.
THEOREM HashTypeCorrect == HashSpec => []HashTypeOK
<1>1. HashInit => HashTypeOK
  BY HashTree DEF HashInit, HashTypeOK
<1>2. HashTypeOK /\ [HashNext]_hashVars => HashTypeOK'
  BY NextHash
<1> QED BY <1>1, <1>2, PTL DEF HashSpec

\* All maps of the masternode network hold what their types say.
THEOREM GossipTypeCorrect == GossipSpec => []GossipTypeOK
BY PartsAlone, LocksTypeCorrect, SporkTypeCorrect, ListTypeCorrect, PaymentsTypeCorrect,
   HashTypeCorrect, PTL DEF GossipTypeOK

\* A masternode's vote counts once and quiet peers hold the same sporks, next to
\* all the other gossip.
THEOREM GossipSound == GossipSpec => [](OneVoteEach /\ SporksConverge)
BY PartsAlone, VotesCountOnce, SporksAgree, PTL
=============================================================================
