------------------------------ MODULE Payments ------------------------------
(***************************************************************************)
(* Who is to be paid by the next blocks (master/node-payments.cpp): the    *)
(* masternodes' votes, their tallies per height and the file they survive  *)
(* in.  max/node-payments.cpp keeps a copy of all this.                    *)
(*                                                                         *)
(* A vote is entered in mapMasternodePayeeVotes under its lock and counted *)
(* after the lock is released; two threads do so, and others clean the     *)
(* maps or write them to mnpayments.dat.  Which voters rank high enough    *)
(* (BlockHashes) and whom a voter finds oldest are left open; amounts and  *)
(* budget blocks are left out.                                             *)
(***************************************************************************)
EXTENDS Integers, Sequences, FiniteSets

CONSTANTS
    Voters, OwnVoter,       \* masternodes, and the one this node runs
    Payees,                 \* scripts the voters find oldest
    SignaturesRequired,     \* for a payee to be asked of a block
    VoteAhead, OwnAhead,    \* 20 and 10
    VoteBack, KeepVotes,    \* 1.25 times the masternodes; that, or 1000
    NoPayee,                \* an empty script
    Missing, Broken,        \* mnpayments.dat: no file, or one cut off
    PayOps,                 \* "overlap": the file is written while a vote is counted
    StartHeight, MaxHeightSeen,   \* bounds: the tip's heights
    HeardHeights,           \* bound: heights the others vote for
    MaxVotes,               \* bound on the votes entered
    MaxPayRestarts

ASSUME PayNumbers ==
    /\ SignaturesRequired \in Nat \ {0} /\ OwnAhead \in Nat \ {0} /\ VoteAhead \in Nat
    /\ VoteBack \in Nat /\ KeepVotes \in Nat /\ VoteBack <= KeepVotes
ASSUME OwnVoterVotes == OwnVoter \in Voters /\ NoPayee \notin Payees
ASSUME PayBounds ==
    /\ StartHeight \in Nat /\ MaxHeightSeen \in Nat /\ StartHeight <= MaxHeightSeen
    /\ HeardHeights \subseteq Nat \ {0} /\ MaxVotes \in Nat /\ MaxPayRestarts \in Nat

VARIABLES
    tipHeight,   \* chainActive.Tip()->nHeight
    payVotes,    \* mapMasternodePayeeVotes
    tallies,     \* vecPayments of each height in mapMasternodeBlocks
    adding,      \* what a thread has entered in the one and not yet in the other
    lastVote,    \* mapMasternodesLastVote
    lastOwn,     \* nLastBlockHeight
    ownHeight,   \* the height of a thread's call of ProcessBlock, 0 without one
    mnpayments,  \* mnpayments.dat
    dumped,      \* Shutdown has written it
    entered,     \* votes that AddWinningMasternode took
    payRestarts

payVars == <<tipHeight, payVotes, tallies, adding, lastVote, lastOwn, ownHeight,
             mnpayments, dumped, entered, payRestarts>>

PayThreads == {"message", "stake"}
PayVote == [mn : Voters, height : Nat, payee : Payees \cup {NoPayee}]
Extend(f, x, v) == [y \in DOMAIN f \cup {x} |-> IF y = x THEN v ELSE f[y]]

PaymentsInit ==
    /\ tipHeight = StartHeight
    /\ payVotes = {} /\ tallies = <<>> /\ adding = [t \in PayThreads |-> {}]
    /\ lastVote = [m \in Voters |-> 0] /\ lastOwn = 0
    /\ ownHeight = [t \in PayThreads |-> 0]
    /\ mnpayments = Missing /\ dumped = FALSE
    /\ entered = 0 /\ payRestarts = 0

\* A block is connected or disconnected.
TipMovesTo(h) ==
    /\ h \in {tipHeight - 1, tipHeight + 1} \cap StartHeight..MaxHeightSeen
    /\ tipHeight' = h
    /\ UNCHANGED <<payVotes, tallies, adding, lastVote, lastOwn, ownHeight, mnpayments,
                   dumped, entered, payRestarts>>

-----------------------------------------------------------------------------
(* Votes. *)

\* CMasternodeBlockPayees::AddPayee
WithPayee(list, p) ==
    IF \E i \in DOMAIN list : list[i].payee = p
    THEN [i \in DOMAIN list |->
            IF list[i].payee = p THEN [list[i] EXCEPT !.n = @ + 1] ELSE list[i]]
    ELSE Append(list, [payee |-> p, n |-> 1])
Tally(h) == IF h \in DOMAIN tallies THEN tallies[h] ELSE <<>>

\* The first part of AddWinningMasternode, under the locks.
Enters(t, v) ==
    /\ entered < MaxVotes /\ entered' = entered + 1
    /\ payVotes' = payVotes \cup {v}
    /\ tallies' = Extend(tallies, v.height, Tally(v.height))
    /\ adding' = [adding EXCEPT ![t] = {v}]

\* mnw: a vote that is new, in range, and of a voter whose rank is high enough.
\* CanVote remembers the last height a voter voted for, whether the signature
\* is good or, the voter's broadcast being still to come, is not.
HearsVote(v, signed) ==
    /\ adding["message"] = {} /\ v \notin payVotes
    /\ v.height \in tipHeight - VoteBack .. tipHeight + VoteAhead
    /\ lastVote[v.mn] # v.height
    /\ lastVote' = [lastVote EXCEPT ![v.mn] = v.height]
    /\ IF signed THEN Enters("message", v)
                 ELSE UNCHANGED <<payVotes, tallies, adding, entered>>
    /\ UNCHANGED <<tipHeight, lastOwn, ownHeight, mnpayments, dumped, payRestarts>>

\* The second part, after which ProcessBlock remembers the height of its vote.
AddPayee(t) ==
    /\ \E v \in adding[t] :
          tallies' = Extend(tallies, v.height, WithPayee(Tally(v.height), v.payee))
    /\ adding' = [adding EXCEPT ![t] = {}]
    /\ lastOwn' = IF ownHeight[t] = 0 THEN lastOwn ELSE ownHeight[t]
    /\ ownHeight' = [ownHeight EXCEPT ![t] = 0]
    /\ UNCHANGED <<tipHeight, payVotes, lastVote, mnpayments, dumped, entered, payRestarts>>

\* CMasternodePayments::ProcessBlock, after every ProcessNewBlock of either
\* thread: vote for the masternode found oldest.  Where none is found, or the
\* budget is to pay, an empty vote, for height 0, is entered all the same.  Until
\* the vote is counted the other thread may vote for that height as well.
EmptyVote == [mn |-> OwnVoter, height |-> 0, payee |-> NoPayee]
ProcessBlock(t) ==
    /\ adding[t] = {} /\ tipHeight + OwnAhead > lastOwn
    /\ \E v \in {[mn |-> OwnVoter, height |-> tipHeight + OwnAhead, payee |-> p] : p \in Payees}
                \cup {EmptyVote} :
          v \notin payVotes /\ Enters(t, v)
    /\ ownHeight' = [ownHeight EXCEPT ![t] = tipHeight + OwnAhead]
    /\ UNCHANGED <<tipHeight, lastVote, lastOwn, mnpayments, dumped, payRestarts>>

\* Mutant of Most: nVotes keeps its first value.
MostLast(list) == list[Len(list)].payee
\* CMasternodeBlockPayees::GetPayee: the first of those with most votes.
Most(list) ==
    list[CHOOSE i \in DOMAIN list :
            /\ \A j \in DOMAIN list : list[j].n <= list[i].n
            /\ \A j \in 1..i - 1 : list[j].n < list[i].n].payee

\* CleanPaymentList: what remains of both maps.
Kept(votes) == {v \in votes : tipHeight - v.height <= KeepVotes}
\* Mutant of KeptTallies: the heights of votes that are removed stay.
KeptTalliesAll(votes, lists) == lists
KeptTallies(votes, lists) ==
    LET gone == {v.height : v \in votes \ Kept(votes)} IN
    [h \in DOMAIN lists \ gone |-> lists[h]]
CleanPaymentList ==
    \* Hundreds of blocks are between VoteBack and KeepVotes, of which a vote is
    \* not overtaken while it is added; height 0 is old at once.
    /\ \A t \in PayThreads : \A v \in adding[t] \ Kept(adding[t]) : v.height = 0
    /\ payVotes' = Kept(payVotes)
    /\ tallies' = KeptTallies(payVotes, tallies)
    /\ UNCHANGED <<tipHeight, adding, lastVote, lastOwn, ownHeight, mnpayments, dumped,
                   entered, payRestarts>>

-----------------------------------------------------------------------------
(* The file. *)

\* No thread is between the two parts of AddWinningMasternode.
NoneBeingCounted == \A t \in PayThreads : adding[t] = {}

\* Shutdown writes the maps while the threads still run, and without their
\* locks; a file it cannot read it leaves alone.
DumpMasternodePayments ==
    /\ ~dumped /\ payRestarts < MaxPayRestarts
    /\ "overlap" \in PayOps \/ NoneBeingCounted
    /\ dumped' = TRUE
    /\ mnpayments' = IF mnpayments = Broken THEN Broken
                     ELSE [votes |-> payVotes, tallies |-> tallies]
    /\ UNCHANGED <<tipHeight, payVotes, tallies, adding, lastVote, lastOwn, ownHeight,
                   entered, payRestarts>>

\* The process ends, after the shutdown, in a crash, or in one while it writes
\* the file, and starts again with what the file has.
Restart ==
    /\ payRestarts < MaxPayRestarts
    /\ mnpayments' \in {mnpayments} \cup (IF dumped THEN {} ELSE {Broken})
    /\ LET file == IF mnpayments' \in {Missing, Broken}
                   THEN [votes |-> {}, tallies |-> <<>>] ELSE mnpayments' IN
       /\ payVotes' = Kept(file.votes)
       /\ tallies' = KeptTallies(file.votes, file.tallies)
    /\ adding' = [t \in PayThreads |-> {}]
    /\ lastVote' = [m \in Voters |-> 0] /\ lastOwn' = 0
    /\ ownHeight' = [t \in PayThreads |-> 0]
    /\ dumped' = FALSE
    /\ payRestarts' = payRestarts + 1
    /\ UNCHANGED <<tipHeight, entered>>

-----------------------------------------------------------------------------
PaymentsNext ==
    \/ \E h \in StartHeight..MaxHeightSeen : TipMovesTo(h)
    \/ \E m \in Voters, h \in HeardHeights, p \in Payees, signed \in BOOLEAN :
          HearsVote([mn |-> m, height |-> h, payee |-> p], signed)
    \/ \E t \in PayThreads : ProcessBlock(t) \/ AddPayee(t)
    \/ CleanPaymentList \/ DumpMasternodePayments \/ Restart

PaymentsSpec == PaymentsInit /\ [][PaymentsNext]_payVars

PaymentsTypeOK ==
    /\ tipHeight \in StartHeight..MaxHeightSeen
    /\ payVotes \subseteq PayVote
    /\ DOMAIN tallies \subseteq Nat
    /\ \A h \in DOMAIN tallies :
          tallies[h] \in Seq([payee : Payees \cup {NoPayee}, n : Nat \ {0}])
    /\ adding \in [PayThreads -> SUBSET PayVote]
    /\ lastVote \in [Voters -> Nat] /\ lastOwn \in Nat /\ ownHeight \in [PayThreads -> Nat]
    /\ mnpayments \in {Missing, Broken} \/ DOMAIN mnpayments = {"votes", "tallies"}
    /\ dumped \in BOOLEAN /\ entered \in 0..MaxVotes /\ payRestarts \in 0..MaxPayRestarts

\* The votes for a payee at a height.
VotesFor(h, p) == Cardinality({v \in payVotes : v.height = h /\ v.payee = p})
Voted(h) == {v.payee : v \in {w \in payVotes : w.height = h}}

\* "Keep track of votes for payees from masternodes": through cleaning,
\* shutdowns and crashes the tally of a height that can be paid is that of the
\* votes in the map, but for those a thread is about to count.
TalliesMirrorVotes ==
    \A h \in ({v.height : v \in payVotes} \cup DOMAIN tallies) \ {0}, p \in Payees :
        LET counted == {i \in DOMAIN Tally(h) : Tally(h)[i].payee = p}
            late == {t \in PayThreads : \E v \in adding[t] : v.height = h /\ v.payee = p} IN
        /\ Cardinality(counted) <= 1
        /\ VotesFor(h, p) = Cardinality(late) + (IF counted = {} THEN 0
                                ELSE Tally(h)[CHOOSE i \in counted : TRUE].n)

\* CMasternodeBlockPayees::IsTransactionValid, of a block that pays p.
Accepts(h, p) ==
    LET enough == {i \in DOMAIN Tally(h) : Tally(h)[i].n >= SignaturesRequired} IN
    enough = {} \/ \E i \in enough : Tally(h)[i].payee = p

\* The tallies a peer has that counted the same votes in any order.
PeerTallies(h) ==
    {list \in [1..Cardinality(Voted(h)) -> {[payee |-> p, n |-> VotesFor(h, p)] : p \in Voted(h)}] :
        \A i, j \in DOMAIN list : i # j => list[i] # list[j]}

\* A block by a peer that knows the same votes is not refused for its payee,
\* whatever the order in which they came to it and to us, and whatever either
\* has forgotten and read back; unless a vote is just being counted.
PeersPayeeAccepted ==
    NoneBeingCounted =>
        \A h \in {v.height : v \in payVotes} :
            \A list \in PeerTallies(h) : Accepts(h, Most(list))
=============================================================================
