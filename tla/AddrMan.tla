------------------------------ MODULE AddrMan ------------------------------
(***************************************************************************)
(* The address manager (addrman.cpp, addrman.h) and its file peers.dat     *)
(* (net.cpp: CAddrDB, DumpAddresses, StartNode).  The message, connection  *)
(* and dump threads call it, each call being one action as it holds        *)
(* CAddrMan::cs; writing peers.dat does not and is two.                    *)
(*                                                                         *)
(* An entry is named by its address, of which mapAddr allows one, so that  *)
(* mapAddr and mapInfo are one map.  Where nKey's hashes put an address is *)
(* a constant.  Times, attempts and ports are left out: they decide        *)
(* IsTerrible, whether news of an address are new, and the odds of the     *)
(* stochastic test, all of which go either way here.  Attempt_ and         *)
(* Connected_ change nothing else.                                         *)
(***************************************************************************)
EXTENDS Integers, Sequences, FiniteSets

CONSTANTS
    Addresses, Sources,
    NewBuckets, Positions,
    TriedSlots,     \* positions in vvTried
    NewBucket,      \* GetNewBucket: bucket of an address from a source
    NewPosition,    \* GetBucketPosition: of an address in a new bucket
    TriedSlot,      \* GetTriedBucket and GetBucketPosition
    Empty,          \* -1 in the tables
    Unreadable,     \* peers.dat missing, cut off or corrupt
    MaxRefs,        \* ADDRMAN_NEW_BUCKETS_PER_ADDRESS
    OlderFiles,     \* peers.dat of other versions a node may start with
    MaxCalls        \* bound on the calls between two dumps

NewSlots == NewBuckets \X Positions

\* What another version may have written: its buckets cannot be used, so only
\* the entries count.
Foreign == [own : {FALSE}, complete : {TRUE}, entries : SUBSET Addresses,
            tried : SUBSET Addresses, source : [Addresses -> Sources],
            nNew : Nat, nTried : Nat]

ASSUME AddrHash ==
    /\ NewBucket \in [Addresses \X Sources -> NewBuckets]
    /\ NewPosition \in [Addresses \X NewBuckets -> Positions]
    /\ TriedSlot \in [Addresses -> TriedSlots]
ASSUME AddrFinite ==
    /\ IsFiniteSet(Addresses) /\ IsFiniteSet(NewBuckets)
    /\ Empty \notin Addresses
ASSUME AddrLimit == MaxRefs \in Nat \ {0} /\ MaxCalls \in Nat
ASSUME AddrFiles ==
    \A f \in OlderFiles :
        /\ f \in Foreign /\ f # Unreadable
        /\ f.entries \cap f.tried = {}
        /\ f.nNew = Cardinality(f.entries) /\ f.nTried = Cardinality(f.tried)

VARIABLES
    addrman,   \* the tables and counters of CAddrMan
    peersDat,  \* the file; complete: FALSE while it is being written
    addrUp,    \* the node is running
    calls      \* calls since the tables were read or, for the file, dumped

addrVars == <<addrman, peersDat, addrUp, calls>>

\* CAddrMan::Clear
Cleared == [info |-> <<>>, random |-> <<>>, nNew |-> 0, nTried |-> 0,
            vvNew |-> [s \in NewSlots |-> Empty],
            vvTried |-> [s \in TriedSlots |-> Empty]]

AddrManInit ==
    /\ addrman = Cleared /\ addrUp = FALSE /\ calls = 0
    /\ peersDat \in OlderFiles \cup {Unreadable}

-----------------------------------------------------------------------------
(* The helpers of CAddrMan, from tables t to tables.                        *)

Slot(a, b) == <<b, NewPosition[<<a, b>>]>>
Found(t, a) == a \in DOMAIN t.info
Tried(t, a) == Found(t, a) /\ t.info[a].fInTried
PrimarySlot(a, source) == Slot(a, NewBucket[<<a, source>>])

Create(t, a, source) ==
    [t EXCEPT !.info = [b \in DOMAIN @ \cup {a} |->
                            IF b = a THEN [source |-> source, nRefCount |-> 0,
                                           fInTried |-> FALSE,
                                           nRandomPos |-> Len(t.random) + 1]
                                     ELSE @[b]],
              !.random = Append(@, a)]

SwapRandom(t, i, j) ==
    [t EXCEPT !.random = [@ EXCEPT ![i] = t.random[j], ![j] = t.random[i]],
              !.info = [@ EXCEPT ![t.random[i]].nRandomPos = j,
                                 ![t.random[j]].nRandomPos = i]]

Delete(t, a) ==
    LET u == SwapRandom(t, t.info[a].nRandomPos, Len(t.random)) IN
    [u EXCEPT !.random = SubSeq(@, 1, Len(@) - 1),
              !.info = [b \in DOMAIN @ \ {a} |-> @[b]],
              !.nNew = @ - 1]

ClearNew(t, s) ==
    LET a == t.vvNew[s]
        u == [t EXCEPT !.info[a].nRefCount = @ - 1, !.vvNew[s] = Empty]
    IN  IF a = Empty THEN t
        ELSE IF u.info[a].nRefCount = 0 THEN Delete(u, a) ELSE u

EnterSlot(t, a, s) ==
    [t EXCEPT !.info[a].nRefCount = @ + 1, !.vvNew[s] = a]

\* The buckets that a search for the entry finds it in.
BucketsOf(t, a) == {b \in NewBuckets : t.vvNew[Slot(a, b)] = a}

Unlinked(t, a) ==
    [t EXCEPT !.vvNew = [s \in NewSlots |->
                            IF s \in {Slot(a, b) : b \in BucketsOf(t, a)}
                            THEN Empty ELSE @[s]],
              !.info[a].nRefCount = @ - Cardinality(BucketsOf(t, a)),
              !.nNew = @ - 1]

\* Mutant: the place in the new table is taken without clearing it.
EvictedOver(t, k) ==
    LET old == t.vvTried[k]
        u == [t EXCEPT !.info[old].fInTried = FALSE, !.vvTried[k] = Empty,
                       !.nTried = @ - 1]
    IN  IF old = Empty THEN t
        ELSE [u EXCEPT !.info[old].nRefCount = 1, !.nNew = @ + 1,
                       !.vvNew[PrimarySlot(old, t.info[old].source)] = old]

\* Makes room in the tried table: who is there goes back to the new one.
Evicted(t, k) ==
    LET old == t.vvTried[k]
        u == [t EXCEPT !.info[old].fInTried = FALSE, !.vvTried[k] = Empty,
                       !.nTried = @ - 1]
        s == PrimarySlot(old, t.info[old].source)
        v == ClearNew(u, s)
    IN  IF old = Empty THEN t
        ELSE [v EXCEPT !.info[old].nRefCount = 1, !.vvNew[s] = old,
                       !.nNew = @ + 1]

MakeTried(t, a) ==
    LET u == Evicted(Unlinked(t, a), TriedSlot[a]) IN
    [u EXCEPT !.vvTried[TriedSlot[a]] = a, !.nTried = @ + 1,
              !.info[a].fInTried = TRUE]

\* The entry's place for what the source said: taken when it is free, when who
\* is there is terrible, or has other places and the entry has none.
Placed(t, a, source, terrible) ==
    LET s == PrimarySlot(a, source)
        old == t.vvNew[s]
        free == \/ old = Empty
                \/ terrible
                \/ t.info[old].nRefCount > 1 /\ t.info[a].nRefCount = 0
    IN  IF old = a THEN t
        ELSE IF free THEN EnterSlot(ClearNew(t, s), a, s)
        ELSE IF t.info[a].nRefCount = 0 THEN Delete(t, a) ELSE t

-----------------------------------------------------------------------------
(* The calls.                                                               *)

Call == /\ addrUp /\ calls < MaxCalls /\ calls' = calls + 1
        /\ UNCHANGED <<peersDat, addrUp>>

\* Add_ of an address that is known; it does nothing more when the news are
\* old or the stochastic test fails.
AddKnown(a, source) ==
    /\ Call /\ Found(addrman, a)
    /\ ~addrman.info[a].fInTried
    /\ addrman.info[a].nRefCount # MaxRefs
    /\ \E terrible \in BOOLEAN :
           addrman' = Placed(addrman, a, source, terrible)

AddUnknown(a, source) ==
    /\ Call /\ ~Found(addrman, a)
    /\ LET t == [Create(addrman, a, source) EXCEPT !.nNew = @ + 1] IN
       \E terrible \in BOOLEAN : addrman' = Placed(t, a, source, terrible)

Good(a) ==
    /\ Call /\ Found(addrman, a)
    /\ ~addrman.info[a].fInTried
    /\ BucketsOf(addrman, a) # {}
    /\ addrman' = MakeTried(addrman, a)

\* GetAddr_ swaps each position with one at random from there on, until it has
\* enough addresses that are not terrible: the order becomes q.
Reordered(t, q) ==
    [t EXCEPT !.random = [n \in DOMAIN @ |-> @[q[n]]],
              !.info = [a \in DOMAIN @ |->
                  [@[a] EXCEPT !.nRandomPos =
                      CHOOSE n \in DOMAIN q : q[n] = t.info[a].nRandomPos]]]

Orders(n) == {q \in [1..n -> 1..n] : \A i, j \in 1..n : q[i] = q[j] => i = j}

GetAddr ==
    /\ Call
    /\ \E q \in Orders(Len(addrman.random)) : addrman' = Reordered(addrman, q)

-----------------------------------------------------------------------------
(* peers.dat.                                                               *)

BeingWritten == peersDat # Unreadable /\ ~peersDat.complete

Serialize(t) ==
    [own |-> TRUE, complete |-> FALSE,
     entries |-> {a \in DOMAIN t.info : t.info[a].nRefCount # 0},
     tried |-> {a \in DOMAIN t.info : t.info[a].fInTried},
     source |-> [a \in DOMAIN t.info |-> t.info[a].source],
     nNew |-> t.nNew, nTried |-> t.nTried,
     buckets |-> [b \in NewBuckets |->
                     {t.vvNew[<<b, p>>] : p \in Positions} \ {Empty}]]

\* The order of the entries in a file.  Where two want one place the first of
\* them gets it.
Ranks == {rank \in [Addresses -> 1..Cardinality(Addresses)] :
             \A a, b \in Addresses : rank[a] = rank[b] => a = b}
First(S, rank) ==
    IF S = {} THEN Empty ELSE CHOOSE a \in S : \A b \in S : rank[a] <= rank[b]

\* Mutant: the number of buckets, which is written with a bit flipped, is not
\* flipped back, so that it never matches.
ApplicantsUnmasked(f, s) ==
    {a \in f.entries : PrimarySlot(a, f.source[a]) = s}

\* Who asks for a place in the new table: the buckets in the file are good only
\* for the version that wrote it, otherwise each entry asks for its primary one.
Applicants(f, s) ==
    IF f.own THEN {a \in f.buckets[s[1]] : Slot(a, s[1]) = s}
             ELSE {a \in f.entries : PrimarySlot(a, f.source[a]) = s}

NewTable(f, rank) == [s \in NewSlots |-> First(Applicants(f, s), rank)]
TriedTable(f, rank) ==
    [s \in TriedSlots |-> First({a \in f.tried : TriedSlot[a] = s}, rank)]

Places(v, a) == {s \in DOMAIN v : v[s] = a}
Kept(S, v) == {a \in S : Places(v, a) # {}}
Survivors(f, rank) ==
    Kept(f.entries, NewTable(f, rank)) \cup Kept(f.tried, TriedTable(f, rank))

\* Unserialize.  Entries that got no place are lost: the tried ones at once, the
\* new ones by Delete, which leaves vRandom in some order.
Unserialize(f, rank, random) ==
    LET new == NewTable(f, rank)
        tried == TriedTable(f, rank)
    IN  [vvNew |-> new, vvTried |-> tried, random |-> random,
         nNew |-> f.nNew - Cardinality(f.entries \ Kept(f.entries, new)),
         nTried |-> f.nTried - Cardinality(f.tried \ Kept(f.tried, tried)),
         info |-> [a \in Survivors(f, rank) |->
                     [source |-> f.source[a], fInTried |-> a \in f.tried,
                      nRefCount |-> Cardinality(Places(new, a)),
                      nRandomPos |-> CHOOSE n \in DOMAIN random : random[n] = a]]]

\* The orders in which vRandom may hold a set.
Arrangements(S) ==
    {r \in [1..Cardinality(S) -> S] :
        \A i, j \in DOMAIN r : r[i] = r[j] => i = j}

\* StartNode: tables that cannot be read stay empty.
Start ==
    /\ ~addrUp /\ addrUp' = TRUE
    /\ \/ peersDat = Unreadable /\ UNCHANGED addrman
       \/ /\ peersDat # Unreadable
          /\ \E rank \in Ranks : \E random \in Arrangements(Survivors(peersDat, rank)) :
                 addrman' = Unserialize(peersDat, rank, random)
    /\ calls' = 0
    /\ UNCHANGED peersDat

\* DumpAddresses, from the scheduler or StopNode: the tables are serialised, the
\* file is opened for writing, which empties it, and written.  The two may overlap
\* (init.cpp:217): both write from the start of the one file, which has what one of
\* them wrote or some of each, which the checksum gives away.
DumpAddresses ==
    /\ addrUp
    /\ peersDat' \in {Serialize(addrman)} \cup
                    (IF BeingWritten THEN {peersDat, Unreadable} ELSE {})
    /\ calls' = IF peersDat' = Serialize(addrman) THEN 0 ELSE calls
    /\ UNCHANGED <<addrman, addrUp>>

\* All that was to be written is.
DumpWritten ==
    /\ addrUp /\ BeingWritten
    /\ peersDat' = [peersDat EXCEPT !.complete = TRUE]
    /\ UNCHANGED <<addrman, addrUp, calls>>

\* The process ends or dies; a file that is being written is lost.
ProcessEnds ==
    /\ addrUp /\ addrUp' = FALSE
    /\ addrman' = Cleared /\ calls' = 0
    /\ peersDat' = IF BeingWritten THEN Unreadable ELSE peersDat

AddrManNext ==
    \/ \E a \in Addresses, source \in Sources :
           AddKnown(a, source) \/ AddUnknown(a, source)
    \/ \E a \in Addresses : Good(a)
    \/ GetAddr \/ Start \/ DumpAddresses \/ DumpWritten \/ ProcessEnds

AddrManSpec == AddrManInit /\ [][AddrManNext]_addrVars

-----------------------------------------------------------------------------

\* The tables hold addresses and peers.dat is one of its forms.
AddrManTypeOK ==
    /\ addrUp \in BOOLEAN /\ calls \in 0..MaxCalls
    /\ addrman.vvNew \in [NewSlots -> Addresses \cup {Empty}]
    /\ addrman.vvTried \in [TriedSlots -> Addresses \cup {Empty}]
    /\ addrman.nNew \in Nat /\ addrman.nTried \in Nat
    /\ addrman.random \in Seq(Addresses)
    /\ DOMAIN addrman.info \subseteq Addresses
    /\ \A a \in DOMAIN addrman.info :
           addrman.info[a] \in [source : Sources, nRefCount : Nat,
                                fInTried : BOOLEAN, nRandomPos : Nat]

\* vRandom lists the entries, each at its nRandomPos (Check_: -14, and -7 with
\* the counts).
RandomAgrees(t) ==
    /\ Len(t.random) = Cardinality(DOMAIN t.info)
    /\ \A a \in DOMAIN t.info : /\ t.info[a].nRandomPos \in DOMAIN t.random
                                /\ t.random[t.info[a].nRandomPos] = a

\* The tried table holds just the tried entries, each at its place (-9, -11,
\* -13, -17, -18).
TriedAgrees(t) ==
    /\ t.nTried = Cardinality({a \in DOMAIN t.info : t.info[a].fInTried})
    /\ \A a \in DOMAIN t.info :
           t.info[a].fInTried => /\ t.info[a].nRefCount = 0
                                 /\ t.vvTried[TriedSlot[a]] = a
    /\ \A s \in TriedSlots :
           t.vvTried[s] # Empty =>
               Tried(t, t.vvTried[s]) /\ TriedSlot[t.vvTried[s]] = s

\* The new table holds just the others, each in its position of as many buckets
\* as it counts, of which there are one to MaxRefs (-3, -4, -10, -12, -15, -19).
NewAgrees(t) ==
    /\ t.nNew = Cardinality({a \in DOMAIN t.info : ~t.info[a].fInTried})
    /\ \A a \in DOMAIN t.info :
           ~t.info[a].fInTried =>
               /\ t.info[a].nRefCount \in 1..MaxRefs
               /\ t.info[a].nRefCount = Cardinality(BucketsOf(t, a))
    /\ \A s \in NewSlots :
           t.vvNew[s] # Empty => /\ Found(t, t.vvNew[s]) /\ ~Tried(t, t.vvNew[s])
                                 /\ s = Slot(t.vvNew[s], s[1])

\* Whatever was added, tried, evicted, read or lost before, the tables, the
\* entries, their reference counts and the counters agree: what Check_
\* verifies (addrman.cpp:374), only when built with DEBUG_ADDRMAN.
TablesAgree == RandomAgrees(addrman) /\ TriedAgrees(addrman) /\ NewAgrees(addrman)

\* What a dump writes is read back as the tables it was written from, whatever
\* order the entries have: no reference and no entry is lost in peers.dat
\* although vvTried and the reference counts are not in it (addrman.h:319).
DumpRestores ==
    \A rank \in Ranks :
        Unserialize(Serialize(addrman), rank, addrman.random) = addrman

=============================================================================
