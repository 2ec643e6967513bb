----------------------------- MODULE NodeProofs -----------------------------
(***************************************************************************)
(* What a node keeps about its peers: the address manager, the blocks      *)
(* asked of them and the stages of the masternode synchronisation; and     *)
(* these together with the chain.                                          *)
(***************************************************************************)
EXTENDS ChainStateProofs, MCNode, FiniteSetTheorems, SequenceTheorems, StepLemmas

-----------------------------------------------------------------------------
(* The address manager.  Between two calls its tables, entries and counters *)
(* agree, and a dump restores them.                                        *)
(*                                                                         *)
(* The helpers of CAddrMan break the agreement and repair it within a      *)
(* call.  Whole(t, X) is what each of them keeps: everything agrees, except *)
(* that an entry may have no place and those of X, which have none, are    *)
(* not counted as new either: an entry in MakeTried while it changes       *)
(* tables, and the one it evicts.  Loose(t) are the entries without place, *)
(* of which a call leaves none.  There is a lemma for each helper, and     *)
(* for its halves where the agreement is broken in between.                *)

Entry == [source : Sources, nRefCount : Nat, fInTried : BOOLEAN, nRandomPos : Nat]

IsTables(t) ==
    t = [info |-> t.info, random |-> t.random, nNew |-> t.nNew, nTried |-> t.nTried,
         vvNew |-> t.vvNew, vvTried |-> t.vvTried]

Shape(t) ==
    /\ IsTables(t)
    /\ t.vvNew \in [NewSlots -> Addresses \cup {Empty}]
    /\ t.vvTried \in [TriedSlots -> Addresses \cup {Empty}]
    /\ t.random \in Seq(Addresses)
    /\ DOMAIN t.info \subseteq Addresses /\ t.info \in [DOMAIN t.info -> Entry]

Unchanged(e, f) ==
    e.source = f.source /\ e.nRefCount = f.nRefCount /\ e.fInTried = f.fInTried

Untried(t) == {a \in DOMAIN t.info : ~t.info[a].fInTried}
InTried(t) == {a \in DOMAIN t.info : t.info[a].fInTried}

\* Counters and references of tables in which the untried entries of X, which
\* have no place, are not counted.
Counts(t, X) ==
    /\ X \subseteq Untried(t)
    /\ t.nNew = Cardinality(Untried(t) \ X) /\ t.nTried = Cardinality(InTried(t))
    /\ \A a \in X : t.info[a].nRefCount = 0
RefsOK(t) ==
    /\ \A a \in DOMAIN t.info :
          t.info[a].nRefCount = Cardinality(BucketsOf(t, a)) /\ t.info[a].nRefCount <= MaxRefs
    /\ \A s \in NewSlots : t.vvNew[s] # Empty =>
          t.vvNew[s] \in DOMAIN t.info /\ s = Slot(t.vvNew[s], s[1])
TriedOK(t) ==
    /\ \A a \in InTried(t) : t.info[a].nRefCount = 0 /\ t.vvTried[TriedSlot[a]] = a
    /\ \A k \in TriedSlots : t.vvTried[k] # Empty =>
          t.vvTried[k] \in InTried(t) /\ TriedSlot[t.vvTried[k]] = k
Whole(t, X) ==
    Shape(t) /\ RandomAgrees(t) /\ Counts(t, X) /\ RefsOK(t) /\ TriedOK(t)

\* Entries that have no place at all.
Loose(t) == {a \in Untried(t) : t.info[a].nRefCount = 0}

-----------------------------------------------------------------------------
(* The helpers.                                                             *)

\* What a change to one field of an entry leaves.
LEMMA EntryFields ==
    ASSUME NEW e \in Entry
    PROVE  /\ e.source \in Sources /\ e.nRefCount \in Nat
           /\ e.fInTried \in BOOLEAN /\ e.nRandomPos \in Nat
           /\ \A n \in Nat : [e EXCEPT !.nRandomPos = n] \in Entry
           /\ \A n : Unchanged([e EXCEPT !.nRandomPos = n], e)
           /\ \A n : [e EXCEPT !.nRandomPos = n].nRandomPos = n
           /\ \A n \in Nat : [e EXCEPT !.nRefCount = n] \in Entry
           /\ \A n : [e EXCEPT !.nRefCount = n].nRefCount = n
           /\ \A n : [e EXCEPT !.nRefCount = n].fInTried = e.fInTried
           /\ \A n : [e EXCEPT !.nRefCount = n].nRandomPos = e.nRandomPos
           /\ \A n : [e EXCEPT !.nRefCount = n].source = e.source
BY DEF Entry, Unchanged

\* Delete keeps vRandom the list of the entries and touches no other entry than
\* the one it removes, save for the position of the last.
LEMMA DeleteFields ==
    ASSUME NEW t, Shape(t), RandomAgrees(t), NEW a \in DOMAIN t.info,
           IsFiniteSet(Addresses), NEW u, u = Delete(t, a), t.nNew \in Int
    PROVE  /\ Shape(u) /\ RandomAgrees(u)
           /\ DOMAIN u.info = DOMAIN t.info \ {a}
           /\ \A b \in DOMAIN u.info : Unchanged(u.info[b], t.info[b])
           /\ u.nNew = t.nNew - 1 /\ u.nTried = t.nTried
           /\ u.vvNew = t.vvNew /\ u.vvTried = t.vvTried
<1> DEFINE i == t.info[a].nRandomPos
           n == Len(t.random)
           z == t.random[n]
           swapped == [t.random EXCEPT ![i] = t.random[n], ![n] = t.random[i]]
           moved == [t.info EXCEPT ![t.random[i]].nRandomPos = n,
                                   ![t.random[n]].nRandomPos = i]
<1>1. /\ u.random = SubSeq(swapped, 1, Len(swapped) - 1)
      /\ u.info = [b \in DOMAIN moved \ {a} |-> moved[b]]
      /\ u.nNew = t.nNew - 1 /\ u.nTried = t.nTried
      /\ u.vvNew = t.vvNew /\ u.vvTried = t.vvTried
      /\ IsTables(u)
      BY DEF Delete, SwapRandom, Shape, IsTables
<1>2. /\ t.random \in Seq(Addresses) /\ n \in Nat /\ i \in 1..n
      /\ DOMAIN t.random = 1..n /\ t.random[i] = a /\ n \in 1..n
      /\ \A b \in DOMAIN t.info : /\ t.info[b].nRandomPos \in 1..n
                                 /\ t.random[t.info[b].nRandomPos] = b
                                 /\ t.info[b] \in Entry
      /\ n = Cardinality(DOMAIN t.info)
      BY DEF Shape, RandomAgrees
<1>3. /\ swapped \in Seq(Addresses) /\ Len(swapped) = n
      /\ \A k \in 1..n : swapped[k] = IF k = n THEN a ELSE IF k = i THEN z ELSE t.random[k]
      BY <1>2
<1>4. /\ moved \in [DOMAIN t.info -> Entry]
      /\ \A b \in DOMAIN t.info : Unchanged(moved[b], t.info[b])
      /\ \A b \in DOMAIN t.info \ {a} :
            moved[b].nRandomPos = IF b = z THEN i ELSE t.info[b].nRandomPos
    <2> DEFINE half == [t.info EXCEPT ![a].nRandomPos = n]
    <2>1. /\ half \in [DOMAIN t.info -> Entry]
          /\ \A b \in DOMAIN t.info : Unchanged(half[b], t.info[b])
          /\ \A b \in DOMAIN t.info \ {a} : half[b] = t.info[b]
        <3>1. half = [t.info EXCEPT ![a] = [t.info[a] EXCEPT !.nRandomPos = n]] OBVIOUS
        <3>2. t.info \in [DOMAIN t.info -> Entry] BY DEF Shape
        <3> HIDE DEF half, n
        <3> QED BY <1>2, <3>1, <3>2, EntryFields DEF Unchanged
    <2>2. moved = [half EXCEPT ![z].nRandomPos = i] BY <1>2
    <2> HIDE DEF half, moved, z, i, n
    <2>3. CASE z \in DOMAIN t.info
        <3>1. half[z] \in Entry BY <2>1, <2>3
        <3>2. moved = [half EXCEPT ![z] = [half[z] EXCEPT !.nRandomPos = i]] BY <2>2
        <3> QED BY <1>2, <2>1, <2>3, <3>1, <3>2, EntryFields DEF Unchanged
    <2>4. CASE z \notin DOMAIN t.info
        <3>1. moved = half BY <2>1, <2>2, <2>4
        <3> QED BY <2>1, <2>4, <3>1
    <2> QED BY <2>3, <2>4
<1> HIDE DEF moved, swapped, z, n, i
<1>5. /\ DOMAIN u.info = DOMAIN t.info \ {a}
      /\ \A b \in DOMAIN u.info : u.info[b] = moved[b]
      /\ u.info \in [DOMAIN u.info -> Entry]
      BY <1>1, <1>4
<1>6. /\ u.random \in Seq(Addresses) /\ Len(u.random) = n - 1
      /\ DOMAIN u.random = 1..n - 1
      /\ \A k \in 1..n - 1 : u.random[k] = swapped[k]
      BY <1>1, <1>2, <1>3
<1>7. ASSUME NEW b \in DOMAIN u.info
      PROVE  /\ u.info[b].nRandomPos \in DOMAIN u.random
             /\ u.random[u.info[b].nRandomPos] = b
    <2>0. b \in DOMAIN t.info \ {a} /\ u.info[b].nRandomPos = moved[b].nRandomPos
          BY <1>5
    <2>1. CASE b = z
        <3>1. i # n BY <1>2, <2>0, <2>1 DEF z
        <3>2. u.info[b].nRandomPos = i BY <1>4, <2>0, <2>1
        <3> QED BY <1>2, <1>3, <1>6, <2>1, <3>1, <3>2
    <2>2. CASE b # z
        <3>1. u.info[b].nRandomPos = t.info[b].nRandomPos BY <1>4, <2>0, <2>2
        <3>2. t.random[t.info[b].nRandomPos] = b /\ t.info[b].nRandomPos \in 1..n
              BY <1>2, <2>0
        <3>3. t.info[b].nRandomPos # n BY <2>2, <3>2 DEF z
        <3>4. t.info[b].nRandomPos # i BY <1>2, <2>0, <3>2
        <3> QED BY <1>2, <1>3, <1>6, <3>1, <3>2, <3>3, <3>4
    <2> QED BY <2>1, <2>2
<1>8. RandomAgrees(u)
    <2>1. IsFiniteSet(DOMAIN t.info) BY FS_Subset DEF Shape
    <2>2. Cardinality(DOMAIN t.info \ {a}) = Cardinality(DOMAIN t.info) - 1
          BY <2>1, FS_RemoveElement
    <2>3. Cardinality(DOMAIN u.info) = n - 1 BY <1>2, <1>5, <2>2
    <2> QED BY <1>2, <1>6, <1>7, <2>3 DEF RandomAgrees
<1>9. Shape(u)
      BY <1>1, <1>5, <1>6 DEF Shape
<1> QED BY <1>1, <1>4, <1>5, <1>8, <1>9

\* What is counted is finite.
LEMMA FiniteParts ==
    ASSUME NEW t, Shape(t)
    PROVE  /\ IsFiniteSet(DOMAIN t.info) /\ IsFiniteSet(Untried(t)) /\ IsFiniteSet(InTried(t))
           /\ \A X : IsFiniteSet(Untried(t) \ X)
           /\ \A a : IsFiniteSet(BucketsOf(t, a)) /\ Cardinality(BucketsOf(t, a)) \in Nat
<1>1. IsFiniteSet(DOMAIN t.info) BY AddrFinite, FS_Subset DEF Shape
<1>2. \A a : IsFiniteSet(BucketsOf(t, a)) BY AddrFinite, FS_Subset DEF BucketsOf
<1> QED BY <1>1, <1>2, FS_Subset, FS_CardinalityType DEF Untried, InTried

\* An address has one place in each bucket.
LEMMA SlotFacts ==
    ASSUME NEW a \in Addresses, NEW b \in NewBuckets
    PROVE  Slot(a, b) \in NewSlots /\ Slot(a, b)[1] = b
BY AddrHash DEF Slot, NewSlots

LEMMA SlotBucket ==
    ASSUME NEW s \in NewSlots
    PROVE  s[1] \in NewBuckets
BY DEF NewSlots

\* Who is in the new table has a bucket, is not in the tried one, and is counted.
LEMMA Placeholder ==
    ASSUME NEW t, NEW X, Whole(t, X), NEW s \in NewSlots, t.vvNew[s] # Empty
    PROVE  /\ t.vvNew[s] \in Untried(t) \ X /\ s[1] \in BucketsOf(t, t.vvNew[s])
           /\ t.info[t.vvNew[s]].nRefCount \in Nat \ {0}
<1> DEFINE a == t.vvNew[s]
<1>1. a \in DOMAIN t.info /\ s = Slot(a, s[1]) BY DEF Whole, RefsOK
<1>2. s[1] \in BucketsOf(t, a) BY <1>1, SlotBucket DEF BucketsOf
<1>3. Shape(t) BY DEF Whole
<1>4. IsFiniteSet(BucketsOf(t, a)) /\ Cardinality(BucketsOf(t, a)) \in Nat BY <1>3, FiniteParts
<1>5. Cardinality(BucketsOf(t, a)) # 0 BY <1>2, <1>4, FS_EmptySet
<1>6. t.info[a].nRefCount \in Nat \ {0} BY <1>1, <1>4, <1>5 DEF Whole, RefsOK
<1>7. a \notin InTried(t) /\ a \notin X
      BY <1>6 DEF Whole, TriedOK, Counts
<1> QED BY <1>1, <1>2, <1>6, <1>7 DEF InTried, Untried

\* Delete takes out an entry that has no place.
LEMMA DeleteSound ==
    ASSUME NEW t, NEW X, Whole(t, X), NEW a \in Loose(t) \ X, NEW u, u = Delete(t, a)
    PROVE  /\ Whole(u, X) /\ Loose(u) = Loose(t) \ {a}
           /\ DOMAIN u.info = DOMAIN t.info \ {a}
           /\ \A b \in DOMAIN u.info : Unchanged(u.info[b], t.info[b])
           /\ u.vvNew = t.vvNew /\ u.vvTried = t.vvTried
<1>0. /\ Shape(t) /\ RandomAgrees(t) /\ Counts(t, X) /\ RefsOK(t) /\ TriedOK(t) BY DEF Whole
<1>1. a \in Untried(t) \ X /\ a \in DOMAIN t.info /\ t.info[a].nRefCount = 0
      BY DEF Loose, Untried
<1>2. t.nNew \in Nat BY <1>0, FiniteParts, FS_CardinalityType DEF Counts
<1>3. /\ Shape(u) /\ RandomAgrees(u)
      /\ DOMAIN u.info = DOMAIN t.info \ {a}
      /\ \A b \in DOMAIN u.info : Unchanged(u.info[b], t.info[b])
      /\ u.nNew = t.nNew - 1 /\ u.nTried = t.nTried
      /\ u.vvNew = t.vvNew /\ u.vvTried = t.vvTried
      BY <1>0, <1>1, <1>2, AddrFinite, DeleteFields
<1>4. /\ Untried(u) = Untried(t) \ {a} /\ InTried(u) = InTried(t)
      /\ \A b \in DOMAIN u.info : u.info[b].nRefCount = t.info[b].nRefCount
    <2>1. \A b \in DOMAIN u.info : /\ u.info[b].nRefCount = t.info[b].nRefCount
                                  /\ u.info[b].fInTried = t.info[b].fInTried
          BY <1>3 DEF Unchanged
    <2> QED BY <1>1, <1>3, <2>1 DEF Untried, InTried
<1>5. Counts(u, X)
    <2>1. X \subseteq Untried(u) BY <1>0, <1>1, <1>4 DEF Counts
    <2>2. Untried(u) \ X = (Untried(t) \ X) \ {a} BY <1>4
    <2>3. IsFiniteSet(Untried(t) \ X) BY <1>0, FiniteParts
    <2>4. Cardinality(Untried(u) \ X) = Cardinality(Untried(t) \ X) - 1
          BY <1>1, <2>2, <2>3, FS_RemoveElement
    <2>5. \A b \in X : u.info[b].nRefCount = 0
          BY <1>0, <1>4, <2>1 DEF Counts, Untried
    <2> QED BY <1>0, <1>3, <1>4, <2>1, <2>4, <2>5 DEF Counts
<1>6. RefsOK(u)
    <2>1. \A b : BucketsOf(u, b) = BucketsOf(t, b) BY <1>3 DEF BucketsOf
    <2>2. ASSUME NEW s \in NewSlots, u.vvNew[s] # Empty
          PROVE  u.vvNew[s] \in DOMAIN u.info /\ s = Slot(u.vvNew[s], s[1])
        <3>1. t.vvNew[s] # a BY <1>1, <1>3, <2>2, Placeholder
        <3> QED BY <1>0, <1>3, <2>2, <3>1 DEF RefsOK
    <2> QED BY <1>0, <1>3, <1>4, <2>1, <2>2 DEF RefsOK
<1>7. TriedOK(u)
    <2>1. \A b \in InTried(u) : b \in DOMAIN u.info BY DEF InTried
    <2> QED BY <1>0, <1>3, <1>4, <2>1 DEF TriedOK
<1>8. Loose(u) = Loose(t) \ {a}
    <2>1. \A b \in Untried(u) : b \in DOMAIN u.info BY DEF Untried
    <2> QED BY <1>1, <1>4, <2>1 DEF Loose
<1> QED BY <1>3, <1>5, <1>6, <1>7, <1>8 DEF Whole

\* The entry takes a free place, in a bucket of its own; if it was not counted
\* as new it is now.
HasRoom(t, a) == t.info[a].nRefCount < MaxRefs
Enters(t, u, a, s, X) ==
    /\ IsTables(u) /\ u.random = t.random
    /\ u.info = [t.info EXCEPT ![a] = [t.info[a] EXCEPT !.nRefCount = t.info[a].nRefCount + 1]]
    /\ u.vvNew = [t.vvNew EXCEPT ![s] = a] /\ u.vvTried = t.vvTried
    /\ u.nNew = t.nNew + (IF a \in X THEN 1 ELSE 0) /\ u.nTried = t.nTried
LEMMA EnterSound ==
    ASSUME NEW t, NEW X, Whole(t, X), NEW a \in Untried(t), NEW s \in NewSlots,
           t.vvNew[s] = Empty, s = Slot(a, s[1]), HasRoom(t, a),
           NEW u, Enters(t, u, a, s, X)
    PROVE  /\ Whole(u, X \ {a}) /\ Loose(u) \subseteq Loose(t) /\ a \notin Loose(u)
           /\ DOMAIN u.info = DOMAIN t.info
           /\ \A b \in DOMAIN t.info : /\ u.info[b].fInTried = t.info[b].fInTried
                                     /\ u.info[b].source = t.info[b].source
<1>0. /\ Shape(t) /\ RandomAgrees(t) /\ Counts(t, X) /\ RefsOK(t) /\ TriedOK(t) BY DEF Whole
<1>f. /\ IsTables(u) /\ u.random = t.random
      /\ u.info = [t.info EXCEPT ![a] = [t.info[a] EXCEPT !.nRefCount = t.info[a].nRefCount + 1]]
      /\ u.vvNew = [t.vvNew EXCEPT ![s] = a] /\ u.vvTried = t.vvTried
      /\ u.nNew = t.nNew + (IF a \in X THEN 1 ELSE 0) /\ u.nTried = t.nTried
      BY DEF Enters
<1>n. u.nNew = t.nNew + (IF a \in X THEN 1 ELSE 0) BY <1>f
<1>g. u.random = t.random /\ u.vvTried = t.vvTried /\ u.nTried = t.nTried BY <1>f
<1>v. u.vvNew = [t.vvNew EXCEPT ![s] = a] BY <1>f
<1>1. a \in DOMAIN t.info /\ a \in Addresses /\ t.info[a] \in Entry /\ s[1] \in NewBuckets
      BY <1>0, SlotBucket DEF Untried, Shape
<1>2. /\ u.info \in [DOMAIN t.info -> Entry]
      /\ \A b \in DOMAIN t.info : /\ u.info[b].fInTried = t.info[b].fInTried
                                /\ u.info[b].source = t.info[b].source
                                /\ u.info[b].nRandomPos = t.info[b].nRandomPos
      /\ \A b \in DOMAIN t.info :
            u.info[b].nRefCount = t.info[b].nRefCount + (IF b = a THEN 1 ELSE 0)
    <2>1. t.info \in [DOMAIN t.info -> Entry] BY <1>0 DEF Shape
    <2>2. t.info[a].nRefCount + 1 \in Nat BY <1>1, EntryFields
    <2>3. \A b \in DOMAIN t.info : t.info[b].nRefCount \in Nat
          BY <2>1, EntryFields
    <2> QED BY <1>1, <1>f, <2>1, <2>2, <2>3, EntryFields
<1>3. u.vvNew \in [NewSlots -> Addresses \cup {Empty}]
      BY <1>0, <1>1, <1>v DEF Shape
<1>4. Shape(u) BY <1>0, <1>2, <1>3, <1>f DEF Shape
<1>5. RandomAgrees(u) BY <1>0, <1>2, <1>g DEF RandomAgrees
<1>6. Untried(u) = Untried(t) /\ InTried(u) = InTried(t)
      BY <1>2 DEF Untried, InTried
<1>7. Counts(u, X \ {a})
    <2>1. X \subseteq DOMAIN t.info BY <1>0 DEF Counts, Untried
    <2>2. u.nNew = Cardinality(Untried(u) \ (X \ {a}))
        <3>1. CASE a \in X
            <4>1. Untried(u) \ (X \ {a}) = (Untried(t) \ X) \cup {a} BY <1>6, <3>1
            <4>2. IsFiniteSet(Untried(t) \ X) BY <1>0, FiniteParts
            <4>3. Cardinality(Untried(u) \ (X \ {a})) = Cardinality(Untried(t) \ X) + 1
                <5>1. a \notin Untried(t) \ X BY <3>1
                <5> QED BY <4>1, <4>2, <5>1, FS_AddElement
            <4> QED BY <1>0, <1>n, <3>1, <4>3 DEF Counts
        <3>2. CASE a \notin X
            <4>1. Untried(u) \ (X \ {a}) = Untried(t) \ X BY <1>6, <3>2
            <4>2. t.nNew \in Nat BY <1>0, FiniteParts, FS_CardinalityType DEF Counts
            <4>3. u.nNew = t.nNew BY <1>n, <3>2, <4>2
            <4> QED BY <1>0, <4>1, <4>3 DEF Counts
        <3> QED BY <3>1, <3>2
    <2>3. X \ {a} \subseteq Untried(u) BY <1>0, <1>6 DEF Counts
    <2>4. \A b \in X \ {a} : u.info[b].nRefCount = 0
        <3>1. \A b \in DOMAIN t.info \ {a} : u.info[b].nRefCount = t.info[b].nRefCount + 0
              BY <1>2
        <3>2. \A b \in X : t.info[b].nRefCount = 0 BY <1>0 DEF Counts
        <3> QED BY <2>1, <3>1, <3>2
    <2> QED BY <1>0, <1>6, <1>g, <2>2, <2>3, <2>4 DEF Counts
<1>8. RefsOK(u)
    <2>1. BucketsOf(u, a) = BucketsOf(t, a) \cup {s[1]}
        <3>1. \A b \in NewBuckets : Slot(a, b) \in NewSlots BY <1>1, SlotFacts
        <3>2. t.vvNew \in [NewSlots -> Addresses \cup {Empty}] BY <1>0 DEF Shape
        <3>3. \A b \in NewBuckets : Slot(a, b) = s <=> b = s[1] BY <1>1, SlotFacts
        <3>4. \A b \in NewBuckets : u.vvNew[Slot(a, b)] = a <=> b = s[1] \/ t.vvNew[Slot(a, b)] = a
              BY <1>v, <3>1, <3>2, <3>3
        <3> QED BY <1>1, <3>4 DEF BucketsOf
    <2>2. s[1] \notin BucketsOf(t, a)
          BY <1>1, AddrFinite DEF BucketsOf
    <2>3. Cardinality(BucketsOf(u, a)) = Cardinality(BucketsOf(t, a)) + 1
          BY <1>0, <2>1, <2>2, FiniteParts, FS_AddElement
    <2>4. ASSUME NEW b \in DOMAIN t.info, b # a PROVE BucketsOf(u, b) = BucketsOf(t, b)
        <3>1. b \in Addresses BY <1>0 DEF Shape
        <3>2. \A c \in NewBuckets : Slot(b, c) \in NewSlots BY <3>1, SlotFacts
        <3>3. b # Empty BY <3>1, AddrFinite
        <3> QED BY <1>0, <1>v, <2>4, <3>2, <3>3 DEF BucketsOf, Shape
    <2>5. \A b \in DOMAIN u.info :
             u.info[b].nRefCount = Cardinality(BucketsOf(u, b)) /\ u.info[b].nRefCount <= MaxRefs
        <3>1. SUFFICES ASSUME NEW b \in DOMAIN t.info
                       PROVE  /\ u.info[b].nRefCount = Cardinality(BucketsOf(u, b))
                              /\ u.info[b].nRefCount <= MaxRefs
              BY <1>2
        <3>2. CASE b = a
            <4>1. t.info[a].nRefCount \in Nat /\ MaxRefs \in Nat BY <1>1, EntryFields, AddrLimit
            <4> QED BY <1>0, <1>1, <1>2, <2>3, <3>2, <4>1 DEF RefsOK, HasRoom
        <3>3. CASE b # a
            <4>1. t.info[b].nRefCount \in Nat BY <1>0, EntryFields DEF Shape
            <4> QED BY <1>0, <1>2, <2>4, <3>3, <4>1 DEF RefsOK
        <3> QED BY <3>2, <3>3
    <2>6. ASSUME NEW r \in NewSlots, u.vvNew[r] # Empty
          PROVE  u.vvNew[r] \in DOMAIN u.info /\ r = Slot(u.vvNew[r], r[1])
          BY <1>0, <1>1, <1>2, <1>v, <2>6 DEF RefsOK, Shape
    <2> QED BY <2>5, <2>6 DEF RefsOK
<1>9. TriedOK(u)
    <2>1. \A b \in InTried(u) : b \in DOMAIN t.info /\ b # a BY <1>6 DEF InTried, Untried
    <2>2. \A b \in DOMAIN t.info : t.info[b].nRefCount \in Nat
          BY <1>0, EntryFields DEF Shape
    <2> QED BY <1>0, <1>2, <1>6, <1>g, <2>1, <2>2 DEF TriedOK
<1>10. Loose(u) \subseteq Loose(t) /\ a \notin Loose(u)
    <2>1. \A b \in Untried(t) : b \in DOMAIN t.info /\ t.info[b].nRefCount \in Nat
          BY <1>0, EntryFields DEF Shape, Untried
    <2> QED BY <1>2, <1>6, <2>1 DEF Loose
<1> QED BY <1>2, <1>4, <1>5, <1>7, <1>8, <1>9, <1>10 DEF Whole

\* The first half of ClearNew: the entry loses one of its places.
Left(t, s) == [t EXCEPT !.info[t.vvNew[s]].nRefCount = @ - 1, !.vvNew[s] = Empty]
LEMMA LeaveSound ==
    ASSUME NEW t, NEW X, Whole(t, X), NEW s \in NewSlots, t.vvNew[s] # Empty,
           NEW a, a = t.vvNew[s],
           NEW u, u = Left(t, s)
    PROVE  /\ Whole(u, X)
           /\ Loose(u) = Loose(t) \cup (IF u.info[a].nRefCount = 0 THEN {a} ELSE {})
           /\ a \in Untried(u) \ X
           /\ u.vvNew = [t.vvNew EXCEPT ![s] = Empty] /\ u.vvTried = t.vvTried
           /\ DOMAIN u.info = DOMAIN t.info
           /\ \A b \in DOMAIN u.info \ {a} : u.info[b] = t.info[b]
<1>0. /\ Shape(t) /\ RandomAgrees(t) /\ Counts(t, X) /\ RefsOK(t) /\ TriedOK(t) BY DEF Whole
<1>p. /\ a \in Untried(t) \ X /\ s[1] \in BucketsOf(t, a) /\ t.info[a].nRefCount \in Nat \ {0}
      /\ a \notin Loose(t)
      BY Placeholder DEF Loose
<1>1. a \in DOMAIN t.info /\ a \in Addresses /\ t.info[a] \in Entry /\ s[1] \in NewBuckets
      BY <1>0, <1>p, SlotBucket DEF Untried, Shape
<1>f. /\ IsTables(u) /\ u.random = t.random
      /\ u.info = [t.info EXCEPT ![a] = [t.info[a] EXCEPT !.nRefCount = t.info[a].nRefCount - 1]]
      /\ u.vvNew = [t.vvNew EXCEPT ![s] = Empty] /\ u.vvTried = t.vvTried
      /\ u.nNew = t.nNew /\ u.nTried = t.nTried
      BY <1>0 DEF Shape, IsTables, Left
<1>g. /\ u.random = t.random /\ u.vvTried = t.vvTried
      /\ u.nNew = t.nNew /\ u.nTried = t.nTried
      BY <1>f
<1>2. /\ u.info \in [DOMAIN t.info -> Entry]
      /\ \A b \in DOMAIN t.info : /\ u.info[b].fInTried = t.info[b].fInTried
                                /\ u.info[b].nRandomPos = t.info[b].nRandomPos
      /\ \A b \in DOMAIN t.info :
            u.info[b].nRefCount = t.info[b].nRefCount - (IF b = a THEN 1 ELSE 0)
      /\ \A b \in DOMAIN t.info \ {a} : u.info[b] = t.info[b]
    <2>1. t.info \in [DOMAIN t.info -> Entry] BY <1>0 DEF Shape
    <2>2. t.info[a].nRefCount - 1 \in Nat BY <1>p
    <2>3. \A b \in DOMAIN t.info : t.info[b].nRefCount \in Nat
          BY <2>1, EntryFields
    <2> QED BY <1>1, <1>f, <2>1, <2>2, <2>3, EntryFields
<1>3. u.vvNew \in [NewSlots -> Addresses \cup {Empty}]
      BY <1>0, <1>f DEF Shape
<1>4. Shape(u) BY <1>0, <1>2, <1>3, <1>f DEF Shape
<1>5. RandomAgrees(u)
    <2>1. u.random = t.random /\ DOMAIN u.info = DOMAIN t.info BY <1>2, <1>g
    <2>2. \A b \in DOMAIN t.info : u.info[b].nRandomPos = t.info[b].nRandomPos BY <1>2
    <2>3. RandomAgrees(t) BY <1>0
    <2> QED BY ONLY <2>1, <2>2, <2>3 DEF RandomAgrees
<1>6. Untried(u) = Untried(t) /\ InTried(u) = InTried(t)
      BY <1>2 DEF Untried, InTried
<1>7. Counts(u, X)
    <2>1. X \subseteq DOMAIN t.info \ {a} BY <1>0, <1>p DEF Counts, Untried
    <2>2. \A b \in X : u.info[b].nRefCount = 0 BY <1>0, <1>2, <2>1 DEF Counts
    <2> QED BY <1>0, <1>6, <1>g, <2>2 DEF Counts
<1>8. RefsOK(u)
    <2>1. BucketsOf(u, a) = BucketsOf(t, a) \ {s[1]}
        <3>1. \A b \in NewBuckets : Slot(a, b) \in NewSlots /\ Slot(a, b)[1] = b
              BY <1>1, SlotFacts
        <3>2. s = Slot(a, s[1]) BY <1>0 DEF RefsOK
        <3>3. a # Empty BY <1>1, AddrFinite
        <3> QED BY <1>0, <1>1, <1>f, <3>1, <3>2, <3>3 DEF BucketsOf, Shape
    <2>3. Cardinality(BucketsOf(u, a)) = Cardinality(BucketsOf(t, a)) - 1
        <3>1. IsFiniteSet(BucketsOf(t, a)) BY <1>0, FiniteParts
        <3> QED BY <1>p, <2>1, <3>1, FS_RemoveElement
    <2>4. ASSUME NEW b \in DOMAIN t.info, b # a PROVE BucketsOf(u, b) = BucketsOf(t, b)
        <3>1. b \in Addresses BY <1>0 DEF Shape
        <3>2. \A c \in NewBuckets : Slot(b, c) \in NewSlots BY <3>1, SlotFacts
        <3>3. b # Empty BY <3>1, AddrFinite
        <3> QED BY <1>0, <1>f, <2>4, <3>2, <3>3 DEF BucketsOf, Shape
    <2>5. \A b \in DOMAIN u.info :
             u.info[b].nRefCount = Cardinality(BucketsOf(u, b)) /\ u.info[b].nRefCount <= MaxRefs
        <3>1. SUFFICES ASSUME NEW b \in DOMAIN t.info
                       PROVE  /\ u.info[b].nRefCount = Cardinality(BucketsOf(u, b))
                              /\ u.info[b].nRefCount <= MaxRefs
              BY <1>2
        <3>4. MaxRefs \in Nat BY AddrLimit
        <3>2. CASE b = a
            <4>1. u.info[a].nRefCount = t.info[a].nRefCount - 1 BY <1>1, <1>2
            <4>2. t.info[a].nRefCount = Cardinality(BucketsOf(t, a)) /\ t.info[a].nRefCount <= MaxRefs
                  BY <1>0, <1>1 DEF RefsOK
            <4> QED BY <1>p, <2>3, <3>2, <3>4, <4>1, <4>2
        <3>3. CASE b # a
            <4>1. t.info[b].nRefCount \in Nat BY <1>0, EntryFields DEF Shape
            <4> QED BY <1>0, <1>2, <2>4, <3>3, <4>1 DEF RefsOK
        <3> QED BY <3>2, <3>3
    <2>6. ASSUME NEW r \in NewSlots, u.vvNew[r] # Empty
          PROVE  u.vvNew[r] \in DOMAIN u.info /\ r = Slot(u.vvNew[r], r[1])
        <3>1. t.vvNew \in [NewSlots -> Addresses \cup {Empty}] BY <1>0 DEF Shape
        <3>2. u.vvNew = [t.vvNew EXCEPT ![s] = Empty] BY <1>f
        <3>3. u.vvNew[r] = t.vvNew[r] /\ t.vvNew[r] # Empty BY <2>6, <3>1, <3>2
        <3> QED BY <1>0, <1>2, <3>3 DEF RefsOK
    <2> QED BY <2>5, <2>6 DEF RefsOK
<1>9. TriedOK(u)
    <2>1. \A b \in InTried(u) : b \in DOMAIN t.info \ {a} BY <1>6, <1>p DEF InTried, Untried
    <2>2. \A b \in InTried(u) : u.info[b].nRefCount = t.info[b].nRefCount BY <1>2, <2>1
    <2> QED BY <1>0, <1>6, <1>g, <2>2 DEF TriedOK
<1>10. Loose(u) = Loose(t) \cup (IF u.info[a].nRefCount = 0 THEN {a} ELSE {})
    <2>1. \A b \in Untried(t) : b \in DOMAIN t.info BY DEF Untried
    <2>2. \A b \in Untried(t) \ {a} : u.info[b].nRefCount = t.info[b].nRefCount
          BY <1>2, <2>1
    <2> QED BY <1>6, <1>p, <2>2 DEF Loose
<1> QED BY <1>2, <1>4, <1>5, <1>6, <1>7, <1>8, <1>9, <1>10, <1>f, <1>p DEF Whole

\* ClearNew empties the place, and forgets who has no other.
LEMMA ClearNewSound ==
    ASSUME NEW t, NEW X, Whole(t, X), NEW s \in NewSlots, NEW u, u = ClearNew(t, s)
    PROVE  /\ Whole(u, X) /\ Loose(u) = Loose(t)
           /\ u.vvNew = [t.vvNew EXCEPT ![s] = Empty] /\ u.vvTried = t.vvTried
           /\ \A b \in DOMAIN t.info \ {t.vvNew[s]} :
                 b \in DOMAIN u.info /\ Unchanged(u.info[b], t.info[b])
<1>a. PICK a : a = t.vvNew[s] OBVIOUS
<1>0. Shape(t) BY DEF Whole
<1>1. CASE a = Empty
    <2>1. u = t BY <1>1, <1>a DEF ClearNew
    <2>2. t.vvNew = [t.vvNew EXCEPT ![s] = Empty] BY <1>0, <1>1, <1>a DEF Shape
    <2> QED BY <2>1, <2>2 DEF Unchanged
<1>2. CASE a # Empty
    <2>1. PICK m : m = Left(t, s) OBVIOUS
    <2>u. u = IF m.info[a].nRefCount = 0 THEN Delete(m, a) ELSE m
          BY <1>2, <1>a, <2>1 DEF ClearNew, Left
    <2>2. /\ Whole(m, X)
          /\ Loose(m) = Loose(t) \cup (IF m.info[a].nRefCount = 0 THEN {a} ELSE {})
          /\ a \in Untried(m) \ X
          /\ m.vvNew = [t.vvNew EXCEPT ![s] = Empty] /\ m.vvTried = t.vvTried
          /\ DOMAIN m.info = DOMAIN t.info
          /\ \A b \in DOMAIN m.info \ {a} : m.info[b] = t.info[b]
          BY <1>2, <1>a, <2>1, LeaveSound
    <2>3. a \notin Loose(t) BY <1>2, <1>a, Placeholder DEF Loose
    <2>4. CASE m.info[a].nRefCount = 0
        <3>1. a \in Loose(m) \ X BY <2>2, <2>4
        <3>2. /\ Whole(u, X) /\ Loose(u) = Loose(m) \ {a}
              /\ DOMAIN u.info = DOMAIN m.info \ {a}
              /\ \A b \in DOMAIN u.info : Unchanged(u.info[b], m.info[b])
              /\ u.vvNew = m.vvNew /\ u.vvTried = m.vvTried
              BY <2>u, <2>2, <2>4, <3>1, DeleteSound
        <3>3. Loose(u) = Loose(t) BY <2>2, <2>3, <2>4, <3>2
        <3> QED BY <1>a, <2>2, <3>2, <3>3 DEF Unchanged
    <2>5. CASE m.info[a].nRefCount # 0
        <3>1. u = m BY <2>u, <2>5
        <3> QED BY <1>a, <2>2, <2>5, <3>1 DEF Unchanged
    <2> QED BY <2>4, <2>5
<1> QED BY <1>1, <1>2

\* A new entry, as yet without a place.
Created(t, a, source) == [Create(t, a, source) EXCEPT !.nNew = @ + 1]
LEMMA CreateSound ==
    ASSUME NEW t, Whole(t, {}), NEW a \in Addresses \ DOMAIN t.info, NEW source \in Sources,
           NEW u, u = Created(t, a, source)
    PROVE  /\ Whole(u, {}) /\ Loose(u) \subseteq Loose(t) \cup {a}
           /\ a \in Untried(u) /\ u.info[a].nRefCount = 0
<1>0. /\ Shape(t) /\ RandomAgrees(t) /\ Counts(t, {}) /\ RefsOK(t) /\ TriedOK(t) BY DEF Whole
<1> DEFINE n == Len(t.random)
           e == [source |-> source, nRefCount |-> 0, fInTried |-> FALSE, nRandomPos |-> n + 1]
<1>1. /\ IsTables(u) /\ u.random = Append(t.random, a)
      /\ u.info = [b \in DOMAIN t.info \cup {a} |-> IF b = a THEN e ELSE t.info[b]]
      /\ u.vvNew = t.vvNew /\ u.vvTried = t.vvTried
      /\ u.nNew = t.nNew + 1 /\ u.nTried = t.nTried
      BY <1>0 DEF Shape, IsTables, Create, Created
<1>2. n \in Nat /\ t.random \in Seq(Addresses) /\ DOMAIN t.random = 1..n BY <1>0 DEF Shape
<1>3. /\ e \in Entry /\ e.nRefCount = 0 /\ ~e.fInTried /\ e.nRandomPos = n + 1
      BY <1>2 DEF Entry
<1> HIDE DEF e
<1>4. /\ DOMAIN u.info = DOMAIN t.info \cup {a} /\ u.info[a] = e
      /\ \A b \in DOMAIN t.info : u.info[b] = t.info[b]
      /\ u.info \in [DOMAIN u.info -> Entry]
    <2>1. t.info \in [DOMAIN t.info -> Entry] BY <1>0 DEF Shape
    <2> QED BY <1>1, <1>3, <2>1
<1>g. /\ u.vvNew = t.vvNew /\ u.vvTried = t.vvTried
      /\ u.nNew = t.nNew + 1 /\ u.nTried = t.nTried
      BY <1>1
<1>5. /\ u.random \in Seq(Addresses) /\ Len(u.random) = n + 1 /\ DOMAIN u.random = 1..n + 1
      /\ u.random[n + 1] = a /\ \A i \in 1..n : u.random[i] = t.random[i]
    <2>1. u.random = Append(t.random, a) BY <1>1
    <2> QED BY <1>2, <2>1
<1>6. Shape(u) BY <1>0, <1>1, <1>4, <1>5, <1>g DEF Shape
<1>7. RandomAgrees(u)
    <2>1. Cardinality(DOMAIN u.info) = n + 1
        <3>1. IsFiniteSet(DOMAIN t.info) BY <1>0, FiniteParts
        <3>2. Cardinality(DOMAIN t.info \cup {a}) = Cardinality(DOMAIN t.info) + 1
              BY <3>1, FS_AddElement
        <3> QED BY <1>0, <1>4, <3>2 DEF RandomAgrees
    <2>2. ASSUME NEW b \in DOMAIN u.info
          PROVE  /\ u.info[b].nRandomPos \in DOMAIN u.random
                 /\ u.random[u.info[b].nRandomPos] = b
        <3>1. CASE b = a BY <1>2, <1>3, <1>4, <1>5, <3>1
        <3>2. CASE b # a
            <4>1. b \in DOMAIN t.info /\ u.info[b] = t.info[b] BY <1>4, <3>2
            <4>2. t.info[b].nRandomPos \in 1..n /\ t.random[t.info[b].nRandomPos] = b
                  BY <1>0, <1>2, <4>1 DEF RandomAgrees
            <4> QED BY <1>2, <1>5, <4>1, <4>2
        <3> QED BY <3>1, <3>2
    <2> QED BY <1>5, <2>1, <2>2 DEF RandomAgrees
<1>8. Untried(u) = Untried(t) \cup {a} /\ InTried(u) = InTried(t)
      BY <1>3, <1>4 DEF Untried, InTried
<1>9. a \notin Untried(t) BY DEF Untried
<1>10. Counts(u, {})
    <2>1. Untried(u) \ {} = (Untried(t) \ {}) \cup {a} BY <1>8
    <2>2. IsFiniteSet(Untried(t) \ {}) BY <1>0, FiniteParts
    <2>3. Cardinality(Untried(u) \ {}) = Cardinality(Untried(t) \ {}) + 1
          BY <1>9, <2>1, <2>2, FS_AddElement
    <2> QED BY <1>0, <1>8, <1>g, <2>3 DEF Counts
<1>11. RefsOK(u)
    <2>1. \A b : BucketsOf(u, b) = BucketsOf(t, b) BY <1>g DEF BucketsOf
    <2>2. Cardinality(BucketsOf(t, a)) = 0
        <3>1. BucketsOf(t, a) = {}
            <4>1. ASSUME NEW b \in BucketsOf(t, a) PROVE FALSE
                <5>1. Slot(a, b) \in NewSlots BY <4>1, SlotFacts DEF BucketsOf
                <5>2. t.vvNew[Slot(a, b)] = a /\ a # Empty BY <4>1, AddrFinite DEF BucketsOf
                <5> QED BY <1>0, <5>1, <5>2 DEF RefsOK
            <4> QED BY <4>1
        <3> QED BY <3>1, FS_EmptySet
    <2>3. MaxRefs \in Nat BY AddrLimit
    <2>4. \A b \in DOMAIN u.info :
             u.info[b].nRefCount = Cardinality(BucketsOf(u, b)) /\ u.info[b].nRefCount <= MaxRefs
          BY <1>0, <1>3, <1>4, <2>1, <2>2, <2>3 DEF RefsOK
    <2>5. \A r \in NewSlots : u.vvNew[r] # Empty =>
             u.vvNew[r] \in DOMAIN u.info /\ r = Slot(u.vvNew[r], r[1])
          BY <1>0, <1>4, <1>g DEF RefsOK
    <2> QED BY <2>4, <2>5 DEF RefsOK
<1>12. TriedOK(u)
    <2>1. \A b \in InTried(u) : b \in DOMAIN t.info BY <1>8 DEF InTried
    <2> QED BY <1>0, <1>4, <1>8, <1>g, <2>1 DEF TriedOK
<1>13. Loose(u) = Loose(t) \cup {a}
    <2>1. \A b \in Untried(t) : b \in DOMAIN t.info BY DEF Untried
    <2> QED BY <1>3, <1>4, <1>8, <2>1 DEF Loose
<1> QED BY <1>3, <1>4, <1>6, <1>7, <1>8, <1>10, <1>11, <1>12, <1>13 DEF Whole

\* Add_ leaves no entry without a place.
LEMMA PlacedSound ==
    ASSUME NEW t, Whole(t, {}), NEW a \in Untried(t), Loose(t) \subseteq {a},
           t.info[a].nRefCount # MaxRefs, NEW source \in Sources, NEW terrible \in BOOLEAN,
           NEW u, u = Placed(t, a, source, terrible)
    PROVE  Whole(u, {}) /\ Loose(u) = {}
<1>0. Shape(t) /\ RefsOK(t) BY DEF Whole
<1>1. PICK s : s = PrimarySlot(a, source) OBVIOUS
<1>2. a \in DOMAIN t.info /\ a \in Addresses /\ t.info[a] \in Entry
      BY <1>0 DEF Untried, Shape
<1>3. s \in NewSlots /\ s = Slot(a, s[1])
    <2>1. NewBucket[<<a, source>>] \in NewBuckets BY <1>2, AddrHash
    <2> QED BY <1>1, <1>2, <2>1, SlotFacts DEF PrimarySlot
<1>4. PICK old : old = t.vvNew[s] OBVIOUS
<1> DEFINE free == \/ old = Empty
                   \/ terrible
                   \/ t.info[old].nRefCount > 1 /\ t.info[a].nRefCount = 0
<1>5. u = IF old = a THEN t
          ELSE IF free THEN EnterSlot(ClearNew(t, s), a, s)
          ELSE IF t.info[a].nRefCount = 0 THEN Delete(t, a) ELSE t
      BY <1>1, <1>4 DEF Placed
<1> HIDE DEF free
<1>6. CASE old = a
    <2>1. a # Empty BY <1>2, AddrFinite
    <2>2. t.info[a].nRefCount \in Nat \ {0}
        <3>1. t.vvNew[s] # Empty BY <1>4, <1>6, <2>1
        <3>2. t.info[t.vvNew[s]].nRefCount \in Nat \ {0} BY <1>3, <3>1, Placeholder
        <3> QED BY <1>4, <1>6, <3>2
    <2>3. Loose(t) = {} BY <2>2 DEF Loose
    <2> QED BY <1>5, <1>6, <2>3
<1>7. CASE old # a /\ free
    <2>1. PICK v : v = ClearNew(t, s) OBVIOUS
    <2>2. /\ Whole(v, {}) /\ Loose(v) = Loose(t)
          /\ v.vvNew = [t.vvNew EXCEPT ![s] = Empty]
          /\ a \in DOMAIN v.info /\ Unchanged(v.info[a], t.info[a])
          BY <1>2, <1>3, <1>4, <1>7, <2>1, ClearNewSound
    <2>3. v.vvNew[s] = Empty BY <1>0, <1>3, <2>2 DEF Shape
    <2>4. a \in Untried(v) /\ HasRoom(v, a)
        <3>1. v.info[a].nRefCount = t.info[a].nRefCount /\ v.info[a].fInTried = t.info[a].fInTried
              BY <2>2 DEF Unchanged
        <3>2. t.info[a].nRefCount \in Nat /\ MaxRefs \in Nat BY <1>2, EntryFields, AddrLimit
        <3>3. v.info[a].nRefCount < MaxRefs BY <1>0, <1>2, <3>1, <3>2 DEF RefsOK
        <3> QED BY <2>2, <3>1, <3>3 DEF Untried, HasRoom
    <2>5. u = EnterSlot(v, a, s) BY <1>5, <1>7, <2>1
    <2>6. Shape(v) BY <2>2 DEF Whole
    <2>7. /\ IsTables(u) /\ u.random = v.random
          /\ u.info = [v.info EXCEPT ![a] = [v.info[a] EXCEPT !.nRefCount = v.info[a].nRefCount + 1]]
          /\ u.vvNew = [v.vvNew EXCEPT ![s] = a] /\ u.vvTried = v.vvTried
          /\ u.nNew = v.nNew /\ u.nTried = v.nTried
          BY <2>5, <2>6 DEF EnterSlot, Shape, IsTables
    <2>x. PICK X : X = {} OBVIOUS
    <2>8. u.nNew = v.nNew + (IF a \in X THEN 1 ELSE 0)
        <3>1. v.nNew \in Nat BY <2>2, <2>6, FiniteParts, FS_CardinalityType DEF Whole, Counts
        <3> QED BY <2>7, <2>x, <3>1
    <2>9. Whole(u, X \ {a}) /\ Loose(u) \subseteq Loose(v) /\ a \notin Loose(u)
        <3>1. Whole(v, X) BY <2>2, <2>x
        <3>2. Enters(v, u, a, s, X) BY <2>7, <2>8 DEF Enters
        <3> QED BY <1>3, <2>3, <2>4, <3>1, <3>2, EnterSound
    <2>10. X \ {a} = {} BY <2>x
    <2>11. Loose(u) = {} BY <2>2, <2>9
    <2> QED BY <2>9, <2>10, <2>11
<1>8. CASE old # a /\ ~free /\ t.info[a].nRefCount = 0
    <2>1. a \in Loose(t) \ {} BY <1>8 DEF Loose
    <2>2. u = Delete(t, a) BY <1>5, <1>8
    <2>3. Whole(u, {}) /\ Loose(u) = Loose(t) \ {a} BY <2>1, <2>2, DeleteSound
    <2> QED BY <2>3
<1>9. CASE old # a /\ ~free /\ t.info[a].nRefCount # 0
    <2>1. Loose(t) = {} BY <1>9 DEF Loose
    <2> QED BY <1>5, <1>9, <2>1
<1> QED BY <1>6, <1>7, <1>8, <1>9

\* MakeTried takes the entry out of all its buckets.
LEMMA UnlinkedSound ==
    ASSUME NEW t, Whole(t, {}), Loose(t) = {}, NEW a \in Untried(t),
           NEW u, u = Unlinked(t, a)
    PROVE  Whole(u, {a}) /\ Loose(u) \subseteq {a} /\ u.vvTried = t.vvTried
<1>0. /\ Shape(t) /\ RandomAgrees(t) /\ Counts(t, {}) /\ RefsOK(t) /\ TriedOK(t) BY DEF Whole
<1>1. a \in DOMAIN t.info /\ a \in Addresses /\ t.info[a] \in Entry /\ a # Empty
      BY <1>0, AddrFinite DEF Untried, Shape
<1>c. PICK c : c = Cardinality(BucketsOf(t, a)) OBVIOUS
<1>d. c \in Nat /\ t.info[a].nRefCount = c BY <1>0, <1>1, <1>c, FiniteParts DEF RefsOK
<1>2. PICK places : places = {Slot(a, b) : b \in BucketsOf(t, a)} OBVIOUS
<1>f. /\ IsTables(u) /\ u.random = t.random
      /\ u.info = [t.info EXCEPT ![a] = [t.info[a] EXCEPT !.nRefCount = t.info[a].nRefCount - c]]
      /\ u.vvNew = [s \in NewSlots |-> IF s \in places THEN Empty ELSE t.vvNew[s]]
      /\ u.vvTried = t.vvTried /\ u.nNew = t.nNew - 1 /\ u.nTried = t.nTried
      BY <1>0, <1>c, <1>2 DEF Shape, IsTables, Unlinked
<1>g. /\ u.random = t.random /\ u.vvTried = t.vvTried
      /\ u.nNew = t.nNew - 1 /\ u.nTried = t.nTried
      BY <1>f
<1>v. \A s \in NewSlots : u.vvNew[s] = IF s \in places THEN Empty ELSE t.vvNew[s] BY <1>f
<1>3. /\ u.info \in [DOMAIN t.info -> Entry]
      /\ \A b \in DOMAIN t.info : /\ u.info[b].fInTried = t.info[b].fInTried
                                /\ u.info[b].nRandomPos = t.info[b].nRandomPos
      /\ u.info[a].nRefCount = 0
      /\ \A b \in DOMAIN t.info \ {a} : u.info[b] = t.info[b]
    <2>1. t.info \in [DOMAIN t.info -> Entry] BY <1>0 DEF Shape
    <2>2. t.info[a].nRefCount - c = 0 BY <1>d
    <2>3. u.info = [t.info EXCEPT ![a] = [t.info[a] EXCEPT !.nRefCount = 0]] BY <1>f, <2>2
    <2> QED BY <1>1, <2>1, <2>3, EntryFields
<1>4. Shape(u)
    <2>1. u.vvNew \in [NewSlots -> Addresses \cup {Empty}]
        <3>1. t.vvNew \in [NewSlots -> Addresses \cup {Empty}] BY <1>0 DEF Shape
        <3> QED BY <1>f, <3>1
    <2> QED BY <1>0, <1>3, <1>f, <2>1 DEF Shape
<1>5. RandomAgrees(u) BY <1>0, <1>3, <1>g DEF RandomAgrees
<1>6. Untried(u) = Untried(t) /\ InTried(u) = InTried(t)
      BY <1>3 DEF Untried, InTried
<1>7. Counts(u, {a})
    <2>1. Untried(u) \ {a} = (Untried(t) \ {}) \ {a} BY <1>6
    <2>2. IsFiniteSet(Untried(t) \ {}) BY <1>0, FiniteParts
    <2>3. Cardinality(Untried(u) \ {a}) = Cardinality(Untried(t) \ {}) - 1
          BY <2>1, <2>2, FS_RemoveElement
    <2> QED BY <1>0, <1>3, <1>6, <1>g, <2>3 DEF Counts
<1>8. RefsOK(u)
    <2>1. BucketsOf(u, a) = {}
        <3>1. ASSUME NEW b \in BucketsOf(u, a) PROVE FALSE
            <4>1. b \in NewBuckets /\ u.vvNew[Slot(a, b)] = a BY <3>1 DEF BucketsOf
            <4>2. Slot(a, b) \in NewSlots BY <1>1, <4>1, SlotFacts
            <4>3. Slot(a, b) \notin places /\ t.vvNew[Slot(a, b)] = a BY <1>1, <1>v, <4>1, <4>2
            <4> QED BY <1>2, <4>1, <4>3 DEF BucketsOf
        <3> QED BY <3>1
    <2>2. Cardinality(BucketsOf(u, a)) = 0 BY <2>1, FS_EmptySet
    <2>3. ASSUME NEW s \in NewSlots PROVE s \in places <=> t.vvNew[s] = a
        <3>1. ASSUME s \in places PROVE t.vvNew[s] = a BY <1>2, <3>1 DEF BucketsOf
        <3>2. ASSUME t.vvNew[s] = a PROVE s \in places
            <4>1. s = Slot(a, s[1]) BY <1>0, <1>1, <3>2 DEF RefsOK
            <4>2. s[1] \in BucketsOf(t, a) BY <3>2, <4>1, SlotBucket DEF BucketsOf
            <4> QED BY <1>2, <4>1, <4>2
        <3> QED BY <3>1, <3>2
    <2>4. ASSUME NEW b \in DOMAIN t.info, b # a PROVE BucketsOf(u, b) = BucketsOf(t, b)
        <3>1. b \in Addresses /\ b # Empty BY <1>0, AddrFinite DEF Shape
        <3>2. ASSUME NEW d \in NewBuckets
              PROVE  u.vvNew[Slot(b, d)] = b <=> t.vvNew[Slot(b, d)] = b
            <4>1. Slot(b, d) \in NewSlots BY <3>1, SlotFacts
            <4> QED BY <1>v, <2>3, <2>4, <3>1, <4>1
        <3> QED BY <3>2 DEF BucketsOf
    <2>5. \A b \in DOMAIN u.info :
             u.info[b].nRefCount = Cardinality(BucketsOf(u, b)) /\ u.info[b].nRefCount <= MaxRefs
        <3>1. SUFFICES ASSUME NEW b \in DOMAIN t.info
                       PROVE  /\ u.info[b].nRefCount = Cardinality(BucketsOf(u, b))
                              /\ u.info[b].nRefCount <= MaxRefs
              BY <1>3
        <3>2. CASE b = a BY <1>3, <2>2, <3>2, AddrLimit
        <3>3. CASE b # a BY <1>0, <1>3, <2>4, <3>3 DEF RefsOK
        <3> QED BY <3>2, <3>3
    <2>6. ASSUME NEW r \in NewSlots, u.vvNew[r] # Empty
          PROVE  u.vvNew[r] \in DOMAIN u.info /\ r = Slot(u.vvNew[r], r[1])
        <3>1. u.vvNew[r] = t.vvNew[r] /\ t.vvNew[r] # Empty BY <1>v, <2>6
        <3> QED BY <1>0, <1>3, <3>1 DEF RefsOK
    <2> QED BY <2>5, <2>6 DEF RefsOK
<1>9. TriedOK(u)
    <2>1. \A b \in InTried(u) : b \in DOMAIN t.info \ {a} BY <1>6 DEF InTried, Untried
    <2>2. \A b \in InTried(u) : u.info[b].nRefCount = t.info[b].nRefCount BY <1>3, <2>1
    <2> QED BY <1>0, <1>6, <1>g, <2>2 DEF TriedOK
<1>10. Loose(u) \subseteq {a}
    <2>1. \A b \in Untried(t) : b \in DOMAIN t.info BY DEF Untried
    <2> QED BY <1>3, <1>6, <2>1 DEF Loose
<1> QED BY <1>4, <1>5, <1>7, <1>8, <1>9, <1>10, <1>g DEF Whole

\* The first half of Evicted: who was tried is in neither table.
Demoted(t, k) ==
    [t EXCEPT !.info[t.vvTried[k]].fInTried = FALSE, !.vvTried[k] = Empty, !.nTried = @ - 1]
LEMMA DemotedSound ==
    ASSUME NEW t, NEW X, Whole(t, X), NEW k \in TriedSlots,
           NEW a, a = t.vvTried[k], a # Empty, NEW u, u = Demoted(t, k)
    PROVE  /\ Whole(u, X \cup {a}) /\ Loose(u) \subseteq Loose(t) \cup {a}
           /\ a \in Untried(u) /\ a \notin X /\ u.info[a].nRefCount = 0
           /\ u.vvTried[k] = Empty /\ u.vvNew = t.vvNew
           /\ DOMAIN u.info = DOMAIN t.info /\ u.info[a].source \in Sources
           /\ u.info[a].source = t.info[a].source
<1>0. /\ Shape(t) /\ RandomAgrees(t) /\ Counts(t, X) /\ RefsOK(t) /\ TriedOK(t) BY DEF Whole
<1>p. /\ a \in InTried(t) /\ TriedSlot[a] = k /\ t.info[a].nRefCount = 0 BY <1>0 DEF TriedOK
<1>1. a \in DOMAIN t.info /\ t.info[a] \in Entry /\ a \notin Untried(t) /\ a \notin X
      BY <1>0, <1>p DEF InTried, Untried, Shape, Counts
<1>f. /\ IsTables(u) /\ u.random = t.random
      /\ u.info = [t.info EXCEPT ![a] = [t.info[a] EXCEPT !.fInTried = FALSE]]
      /\ u.vvTried = [t.vvTried EXCEPT ![k] = Empty] /\ u.vvNew = t.vvNew
      /\ u.nNew = t.nNew /\ u.nTried = t.nTried - 1
      BY <1>0 DEF Shape, IsTables, Demoted
<1>g. /\ u.random = t.random /\ u.vvNew = t.vvNew
      /\ u.nNew = t.nNew /\ u.nTried = t.nTried - 1
      BY <1>f
<1>2. /\ u.info \in [DOMAIN t.info -> Entry]
      /\ \A b \in DOMAIN t.info : /\ u.info[b].nRefCount = t.info[b].nRefCount
                                /\ u.info[b].source = t.info[b].source
                                /\ u.info[b].nRandomPos = t.info[b].nRandomPos
      /\ ~u.info[a].fInTried
      /\ \A b \in DOMAIN t.info \ {a} : u.info[b] = t.info[b]
    <2>1. t.info \in [DOMAIN t.info -> Entry] BY <1>0 DEF Shape
    <2>2. PICK e : e = [t.info[a] EXCEPT !.fInTried = FALSE] OBVIOUS
    <2>3. /\ e \in Entry /\ ~e.fInTried /\ e.nRefCount = t.info[a].nRefCount
          /\ e.source = t.info[a].source /\ e.nRandomPos = t.info[a].nRandomPos
          BY <1>1, <2>2 DEF Entry
    <2>4. u.info = [t.info EXCEPT ![a] = e] BY <1>f, <2>2
    <2> QED BY <1>1, <2>1, <2>3, <2>4
<1>3. Shape(u)
    <2>1. u.vvTried \in [TriedSlots -> Addresses \cup {Empty}] BY <1>0, <1>f DEF Shape
    <2> QED BY <1>0, <1>2, <1>f, <2>1 DEF Shape
<1>4. RandomAgrees(u) BY <1>0, <1>2, <1>g DEF RandomAgrees
<1>5. Untried(u) = Untried(t) \cup {a} /\ InTried(u) = InTried(t) \ {a}
      BY <1>1, <1>2 DEF Untried, InTried
<1>6. Counts(u, X \cup {a})
    <2>1. Untried(u) \ (X \cup {a}) = Untried(t) \ X BY <1>1, <1>5
    <2>2. IsFiniteSet(InTried(t)) BY <1>0, FiniteParts
    <2>3. Cardinality(InTried(u)) = Cardinality(InTried(t)) - 1
        <3>1. Cardinality(InTried(t) \ {a}) = Cardinality(InTried(t)) - 1
              BY <1>p, <2>2, FS_RemoveElement
        <3> QED BY <1>5, <3>1
    <2>4. X \cup {a} \subseteq Untried(u) BY <1>0, <1>5 DEF Counts
    <2>5. \A b \in X \cup {a} : u.info[b].nRefCount = 0
        <3>1. X \subseteq DOMAIN t.info BY <1>0 DEF Counts, Untried
        <3> QED BY <1>0, <1>1, <1>2, <1>p, <3>1 DEF Counts
    <2> QED BY <1>0, <1>g, <2>1, <2>3, <2>4, <2>5 DEF Counts
<1>7. RefsOK(u)
    <2>1. \A b : BucketsOf(u, b) = BucketsOf(t, b) BY <1>g DEF BucketsOf
    <2> QED BY <1>0, <1>2, <1>g, <2>1 DEF RefsOK
<1>8. TriedOK(u)
    <2>1. ASSUME NEW b \in InTried(u) PROVE u.info[b].nRefCount = 0 /\ u.vvTried[TriedSlot[b]] = b
        <3>1. b \in InTried(t) /\ b # a /\ b \in DOMAIN t.info BY <1>5 DEF InTried
        <3>2. t.vvTried[TriedSlot[b]] = b /\ t.info[b].nRefCount = 0 BY <1>0, <3>1 DEF TriedOK
        <3>3. TriedSlot[b] # k BY <3>1, <3>2
        <3>4. b \in Addresses /\ TriedSlot[b] \in TriedSlots BY <1>0, <3>1, AddrHash DEF Shape
        <3>5. u.vvTried[TriedSlot[b]] = b BY <1>0, <1>f, <3>2, <3>3, <3>4 DEF Shape
        <3> QED BY <1>2, <3>1, <3>2, <3>5
    <2>2. ASSUME NEW j \in TriedSlots, u.vvTried[j] # Empty
          PROVE  u.vvTried[j] \in InTried(u) /\ TriedSlot[u.vvTried[j]] = j
        <3>1. j # k /\ u.vvTried[j] = t.vvTried[j] BY <1>0, <1>f, <2>2 DEF Shape
        <3>2. t.vvTried[j] \in InTried(t) /\ TriedSlot[t.vvTried[j]] = j
              BY <1>0, <2>2, <3>1 DEF TriedOK
        <3>3. t.vvTried[j] # a BY <1>p, <3>1, <3>2
        <3> QED BY <1>5, <3>1, <3>2, <3>3
    <2> QED BY <2>1, <2>2 DEF TriedOK
<1>9. Loose(u) \subseteq Loose(t) \cup {a}
    <2>1. \A b \in Untried(t) : b \in DOMAIN t.info BY DEF Untried
    <2> QED BY <1>2, <1>5, <2>1 DEF Loose
<1>10. u.vvTried[k] = Empty BY <1>0, <1>f DEF Shape
<1> QED BY <1>1, <1>2, <1>3, <1>4, <1>5, <1>6, <1>7, <1>8, <1>9, <1>10, <1>g, <1>p, EntryFields DEF Whole

\* Who is in the way in the tried table goes back to the new one, into the place
\* its source gave it, and who was there leaves it.
LEMMA EvictedSound ==
    ASSUME NEW t, NEW X, Whole(t, X), NEW k \in TriedSlots, NEW u, u = Evicted(t, k)
    PROVE  Whole(u, X) /\ Loose(u) \subseteq Loose(t) /\ u.vvTried[k] = Empty
<1>1. PICK old : old = t.vvTried[k] OBVIOUS
<1>2. CASE old = Empty
      BY <1>1, <1>2 DEF Evicted
<1>3. CASE old # Empty
    <2>1. PICK d : d = Demoted(t, k) OBVIOUS
    <2>2. PICK s : s = PrimarySlot(old, t.info[old].source) OBVIOUS
    <2>3. PICK v : v = ClearNew(d, s) OBVIOUS
    <2>4. u = [v EXCEPT !.info[old].nRefCount = 1, !.vvNew[s] = old, !.nNew = @ + 1]
          BY <1>1, <1>3, <2>1, <2>2, <2>3 DEF Evicted, Demoted
    <2>5. PICK Y : Y = X \cup {old} OBVIOUS
    <2>6. /\ Whole(d, Y) /\ Loose(d) \subseteq Loose(t) \cup {old}
          /\ old \in Untried(d) /\ old \notin X /\ d.info[old].nRefCount = 0
          /\ d.vvTried[k] = Empty
          /\ t.info[old].source \in Sources
          BY <1>1, <1>3, <2>1, <2>5, DemotedSound
    <2>7. old \in DOMAIN d.info /\ old \in Addresses BY <2>6 DEF Untried, Whole, Shape
    <2>8. s \in NewSlots /\ s = Slot(old, s[1])
        <3>1. NewBucket[<<old, t.info[old].source>>] \in NewBuckets BY <2>6, <2>7, AddrHash
        <3> QED BY <2>2, <2>7, <3>1, SlotFacts DEF PrimarySlot
    <2>9. d.vvNew[s] # old
        <3>1. SUFFICES ASSUME d.vvNew[s] = old PROVE FALSE OBVIOUS
        <3>2. d.vvNew[s] # Empty BY <2>7, <3>1, AddrFinite
        <3>3. d.vvNew[s] \notin Y BY <2>6, <2>8, <3>2, Placeholder
        <3> QED BY <2>5, <3>1, <3>3
    <2>10. /\ Whole(v, Y) /\ Loose(v) = Loose(d)
           /\ v.vvNew = [d.vvNew EXCEPT ![s] = Empty] /\ v.vvTried = d.vvTried
           /\ old \in DOMAIN v.info /\ Unchanged(v.info[old], d.info[old])
        <3>1. Whole(d, Y) BY <2>6
        <3>2. /\ Whole(v, Y) /\ Loose(v) = Loose(d)
              /\ v.vvNew = [d.vvNew EXCEPT ![s] = Empty] /\ v.vvTried = d.vvTried
              /\ \A b \in DOMAIN d.info \ {d.vvNew[s]} :
                    b \in DOMAIN v.info /\ Unchanged(v.info[b], d.info[b])
              BY ONLY <2>3, <2>8, <3>1, ClearNewSound, s \in NewSlots
        <3>3. old \in DOMAIN d.info \ {d.vvNew[s]} BY <2>7, <2>9
        <3> QED BY <3>2, <3>3
    <2>11. /\ v.info[old].nRefCount = 0 /\ old \in Untried(v)
           BY <2>6, <2>10 DEF Unchanged, Untried
    <2>12. HasRoom(v, old) BY <2>11, AddrLimit DEF HasRoom
    <2>13. v.vvNew[s] = Empty BY <2>6, <2>8, <2>10 DEF Whole, Shape
    <2>14. Shape(v) BY <2>10 DEF Whole
    <2>15. Enters(v, u, old, s, Y) /\ u.vvTried = v.vvTried
        <3>1. v.info \in [DOMAIN v.info -> Entry] BY <2>14 DEF Shape
        <3>2. v.info[old].nRefCount + 1 = 1 BY <2>11
        <3>3. /\ IsTables(u) /\ u.random = v.random
              /\ u.info = [v.info EXCEPT ![old] = [v.info[old] EXCEPT !.nRefCount = 1]]
              /\ u.vvNew = [v.vvNew EXCEPT ![s] = old] /\ u.vvTried = v.vvTried
              /\ u.nNew = v.nNew + 1 /\ u.nTried = v.nTried
              BY <2>4, <2>14 DEF Shape, IsTables
        <3>4. u.nNew = v.nNew + (IF old \in Y THEN 1 ELSE 0) BY <2>5, <3>3
        <3> QED BY <3>2, <3>3, <3>4 DEF Enters
    <2>16. Whole(u, Y \ {old}) /\ Loose(u) \subseteq Loose(v) /\ old \notin Loose(u)
          BY <2>8, <2>10, <2>11, <2>12, <2>13, <2>15, EnterSound
    <2>17. Y \ {old} = X BY <2>5, <2>6
    <2>18. Whole(u, X) BY <2>16, <2>17
    <2>19. Loose(u) \subseteq Loose(t) BY <2>6, <2>10, <2>16
    <2> QED BY <2>6, <2>10, <2>15, <2>18, <2>19
<1> QED BY <1>2, <1>3

\* The last step of MakeTried.
Promoted(t, a) ==
    [t EXCEPT !.vvTried[TriedSlot[a]] = a, !.nTried = @ + 1, !.info[a].fInTried = TRUE]
LEMMA PromotedSound ==
    ASSUME NEW t, NEW a, Whole(t, {a}), t.vvTried[TriedSlot[a]] = Empty, Loose(t) \subseteq {a},
           NEW u, u = Promoted(t, a)
    PROVE  Whole(u, {}) /\ Loose(u) = {}
<1>0. /\ Shape(t) /\ RandomAgrees(t) /\ Counts(t, {a}) /\ RefsOK(t) /\ TriedOK(t) BY DEF Whole
<1>1. /\ a \in Untried(t) /\ a \in DOMAIN t.info /\ a \in Addresses /\ a # Empty
      /\ t.info[a] \in Entry /\ t.info[a].nRefCount = 0
      /\ a \notin InTried(t)
      BY <1>0, AddrFinite DEF Counts, Untried, InTried, Shape
<1>2. PICK k \in TriedSlots : k = TriedSlot[a] BY <1>1, AddrHash
<1>f. /\ IsTables(u) /\ u.random = t.random
      /\ u.info = [t.info EXCEPT ![a] = [t.info[a] EXCEPT !.fInTried = TRUE]]
      /\ u.vvTried = [t.vvTried EXCEPT ![k] = a] /\ u.vvNew = t.vvNew
      /\ u.nNew = t.nNew /\ u.nTried = t.nTried + 1
      BY <1>0, <1>2 DEF Shape, IsTables, Promoted
<1>g. /\ u.random = t.random /\ u.vvNew = t.vvNew
      /\ u.nNew = t.nNew /\ u.nTried = t.nTried + 1
      BY <1>f
<1>3. /\ u.info \in [DOMAIN t.info -> Entry]
      /\ \A b \in DOMAIN t.info : /\ u.info[b].nRefCount = t.info[b].nRefCount
                                /\ u.info[b].nRandomPos = t.info[b].nRandomPos
      /\ u.info[a].fInTried
      /\ \A b \in DOMAIN t.info \ {a} : u.info[b] = t.info[b]
    <2>1. t.info \in [DOMAIN t.info -> Entry] BY <1>0 DEF Shape
    <2>2. PICK e : e = [t.info[a] EXCEPT !.fInTried = TRUE] OBVIOUS
    <2>3. /\ e \in Entry /\ e.fInTried /\ e.nRefCount = t.info[a].nRefCount
          /\ e.nRandomPos = t.info[a].nRandomPos
          BY <1>1, <2>2 DEF Entry
    <2>4. u.info = [t.info EXCEPT ![a] = e] BY <1>f, <2>2
    <2> QED BY <1>1, <2>1, <2>3, <2>4
<1>4. Shape(u)
    <2>1. u.vvTried \in [TriedSlots -> Addresses \cup {Empty}] BY <1>0, <1>1, <1>f DEF Shape
    <2> QED BY <1>0, <1>3, <1>f, <2>1 DEF Shape
<1>5. RandomAgrees(u) BY <1>0, <1>3, <1>g DEF RandomAgrees
<1>6. Untried(u) = Untried(t) \ {a} /\ InTried(u) = InTried(t) \cup {a}
      BY <1>1, <1>3 DEF Untried, InTried
<1>7. Counts(u, {})
    <2>1. Untried(u) \ {} = Untried(t) \ {a} BY <1>6
    <2>2. IsFiniteSet(InTried(t)) BY <1>0, FiniteParts
    <2>3. Cardinality(InTried(t) \cup {a}) = Cardinality(InTried(t)) + 1
          BY <1>1, <2>2, FS_AddElement
    <2>4. Cardinality(InTried(u)) = Cardinality(InTried(t)) + 1 BY <1>6, <2>3
    <2> QED BY <1>0, <1>g, <2>1, <2>4 DEF Counts
<1>8. RefsOK(u)
    <2>1. \A b : BucketsOf(u, b) = BucketsOf(t, b) BY <1>g DEF BucketsOf
    <2> QED BY <1>0, <1>3, <1>g, <2>1 DEF RefsOK
<1>9. TriedOK(u)
    <2>0. t.vvTried \in [TriedSlots -> Addresses \cup {Empty}] BY <1>0 DEF Shape
    <2>v. u.vvTried = [t.vvTried EXCEPT ![k] = a] BY <1>f
    <2>1. ASSUME NEW b \in InTried(u) PROVE u.info[b].nRefCount = 0 /\ u.vvTried[TriedSlot[b]] = b
        <3>1. CASE b = a BY <1>1, <1>2, <1>3, <2>0, <2>v, <3>1
        <3>2. CASE b # a
            <4>1. b \in InTried(t) /\ b \in DOMAIN t.info BY <1>6, <3>2 DEF InTried
            <4>2. t.vvTried[TriedSlot[b]] = b /\ t.info[b].nRefCount = 0 BY <1>0, <4>1 DEF TriedOK
            <4>3. b \in Addresses /\ TriedSlot[b] \in TriedSlots BY <1>0, <4>1, AddrHash DEF Shape
            <4>4. TriedSlot[b] # k BY <1>2, <4>2, <4>3, AddrFinite
            <4>5. u.vvTried[TriedSlot[b]] = b BY <2>0, <2>v, <4>2, <4>3, <4>4
            <4> QED BY <1>3, <4>1, <4>2, <4>5
        <3> QED BY <3>1, <3>2
    <2>2. ASSUME NEW j \in TriedSlots, u.vvTried[j] # Empty
          PROVE  u.vvTried[j] \in InTried(u) /\ TriedSlot[u.vvTried[j]] = j
        <3>1. CASE j = k BY <1>2, <1>6, <2>0, <2>v, <3>1
        <3>2. CASE j # k
            <4>1. u.vvTried[j] = t.vvTried[j] BY <2>0, <2>v, <3>2
            <4>2. t.vvTried[j] \in InTried(t) /\ TriedSlot[t.vvTried[j]] = j
                  BY <1>0, <2>2, <4>1 DEF TriedOK
            <4> QED BY <1>6, <4>1, <4>2
        <3> QED BY <3>1, <3>2
    <2> QED BY <2>1, <2>2 DEF TriedOK
<1>10. Loose(u) = {}
    <2>1. \A b \in Untried(t) : b \in DOMAIN t.info BY DEF Untried
    <2> QED BY <1>3, <1>6, <2>1 DEF Loose
<1> QED BY <1>4, <1>5, <1>7, <1>8, <1>9, <1>10 DEF Whole

LEMMA MakeTriedSound ==
    ASSUME NEW t, Whole(t, {}), Loose(t) = {}, NEW a \in Untried(t), NEW u, u = MakeTried(t, a)
    PROVE  Whole(u, {}) /\ Loose(u) = {}
<1>1. PICK v : v = Unlinked(t, a) OBVIOUS
<1>2. PICK w : w = Evicted(v, TriedSlot[a]) OBVIOUS
<1>3. u = Promoted(w, a) BY <1>1, <1>2 DEF MakeTried, Promoted
<1>4. TriedSlot[a] \in TriedSlots BY AddrHash DEF Untried, Whole, Shape
<1>5. Whole(v, {a}) /\ Loose(v) \subseteq {a} BY <1>1, UnlinkedSound
<1>6. Whole(w, {a}) /\ Loose(w) \subseteq Loose(v) /\ w.vvTried[TriedSlot[a]] = Empty
      BY <1>2, <1>4, <1>5, EvictedSound
<1>7. Loose(w) \subseteq {a} BY <1>5, <1>6
<1> QED BY <1>3, <1>6, <1>7, PromotedSound

\* GetAddr_ only changes the order of vRandom and the positions in it.
LEMMA ReorderedSound ==
    ASSUME NEW t, NEW X, Whole(t, X), NEW q \in Orders(Len(t.random)),
           NEW u, u = Reordered(t, q)
    PROVE  Whole(u, X) /\ Loose(u) = Loose(t)
<1>0. /\ Shape(t) /\ RandomAgrees(t) /\ Counts(t, X) /\ RefsOK(t) /\ TriedOK(t) BY DEF Whole
<1>n. PICK n \in Nat : n = Len(t.random) BY <1>0 DEF Shape
<1>1. /\ t.random \in Seq(Addresses) /\ DOMAIN t.random = 1..n /\ Len(t.random) = n
      /\ t.random \in [1..n -> Addresses]
      /\ q \in [1..n -> 1..n] /\ DOMAIN q = 1..n
      /\ \A i, j \in 1..n : q[i] = q[j] => i = j
      BY <1>0, <1>n DEF Shape, Orders
<1>2. \A k \in 1..n : \E m \in 1..n : q[m] = k
    <2>1. q \in Injection(1..n, 1..n) BY <1>1 DEF Injection, IsInjective
    <2>2. IsFiniteSet(1..n) BY FS_Interval
    <2>3. q \in Surjection(1..n, 1..n) BY <2>1, <2>2, FS_Injection
    <2> QED BY <2>3 DEF Surjection
<1>f. /\ u.random = [m \in 1..n |-> t.random[q[m]]]
      /\ u.info = [a \in DOMAIN t.info |->
             [t.info[a] EXCEPT !.nRandomPos = CHOOSE m \in DOMAIN q : q[m] = t.info[a].nRandomPos]]
      /\ u.vvNew = t.vvNew /\ u.vvTried = t.vvTried
      /\ u.nNew = t.nNew /\ u.nTried = t.nTried /\ IsTables(u)
    <2> DEFINE order == [m \in DOMAIN t.random |-> t.random[q[m]]]
               info == [a \in DOMAIN t.info |->
                  [t.info[a] EXCEPT !.nRandomPos = CHOOSE m \in DOMAIN q : q[m] = t.info[a].nRandomPos]]
    <2>1. u = [t EXCEPT !.random = order, !.info = info] BY DEF Reordered
    <2>2. IsTables(t) BY <1>0 DEF Shape
    <2>3. order = [m \in 1..n |-> t.random[q[m]]] BY <1>1
    <2> HIDE DEF order, info
    <2>4. /\ u.random = order /\ u.info = info /\ u.vvNew = t.vvNew /\ u.vvTried = t.vvTried
          /\ u.nNew = t.nNew /\ u.nTried = t.nTried /\ IsTables(u)
          BY <2>1, <2>2 DEF IsTables
    <2> QED BY <2>3, <2>4 DEF info
<1>g. /\ u.vvNew = t.vvNew /\ u.vvTried = t.vvTried /\ u.nNew = t.nNew /\ u.nTried = t.nTried
      BY <1>f
<1>3. /\ u.random \in Seq(Addresses) /\ Len(u.random) = n /\ DOMAIN u.random = 1..n
      /\ \A m \in 1..n : u.random[m] = t.random[q[m]]
    <2>1. u.random \in [1..n -> Addresses] BY <1>1, <1>f
    <2> QED BY <1>1, <1>f, <2>1
<1>4. DOMAIN u.info = DOMAIN t.info BY <1>f
<1>5. ASSUME NEW a \in DOMAIN t.info
      PROVE  /\ u.info[a] \in Entry /\ Unchanged(u.info[a], t.info[a])
             /\ u.info[a].nRandomPos \in DOMAIN u.random
             /\ u.random[u.info[a].nRandomPos] = a
    <2>1. PICK k : k = t.info[a].nRandomPos OBVIOUS
    <2>2. k \in 1..n /\ t.random[k] = a /\ t.info[a] \in Entry
          BY <1>0, <1>1, <2>1 DEF RandomAgrees, Shape
    <2>3. PICK m : m = CHOOSE i \in DOMAIN q : q[i] = k OBVIOUS
    <2>4. m \in 1..n /\ q[m] = k BY <1>1, <1>2, <2>2, <2>3
    <2>5. u.info[a] = [t.info[a] EXCEPT !.nRandomPos = m] BY <1>f, <2>1, <2>3
    <2>6. m \in Nat BY <2>4
    <2>7. u.info[a].nRandomPos = m /\ u.info[a] \in Entry /\ Unchanged(u.info[a], t.info[a])
        <3>1. PICK e \in Entry : e = t.info[a] BY <2>2
        <3>2. PICK v : v = u.info[a] OBVIOUS
        <3>3. v = [e EXCEPT !.nRandomPos = m] BY <2>5, <3>1, <3>2
        <3>4. v.nRandomPos = m /\ v \in Entry /\ Unchanged(v, e)
              BY ONLY <2>6, <3>3, e \in Entry DEF Entry, Unchanged
        <3> QED BY <3>1, <3>2, <3>4
    <2> QED BY <1>3, <2>2, <2>4, <2>7
<1>6. Shape(u)
    <2>1. u.info \in [DOMAIN u.info -> Entry] BY <1>4, <1>5, <1>f
    <2> QED BY <1>0, <1>3, <1>4, <1>f, <2>1 DEF Shape
<1>7. RandomAgrees(u) BY <1>0, <1>1, <1>3, <1>4, <1>5 DEF RandomAgrees
<1>8. \A a \in DOMAIN t.info : /\ u.info[a].nRefCount = t.info[a].nRefCount
                              /\ u.info[a].fInTried = t.info[a].fInTried
      BY <1>5 DEF Unchanged
<1>9. Untried(u) = Untried(t) /\ InTried(u) = InTried(t) BY <1>4, <1>8 DEF Untried, InTried
<1>10. Counts(u, X)
    <2>1. X \subseteq DOMAIN t.info BY <1>0 DEF Counts, Untried
    <2> QED BY <1>0, <1>8, <1>9, <1>g, <2>1 DEF Counts
<1>11. RefsOK(u)
    <2>1. \A a : BucketsOf(u, a) = BucketsOf(t, a) BY <1>g DEF BucketsOf
    <2> QED BY <1>0, <1>4, <1>8, <1>g, <2>1 DEF RefsOK
<1>12. TriedOK(u)
    <2>1. \A a \in InTried(t) : a \in DOMAIN t.info BY DEF InTried
    <2> QED BY <1>0, <1>8, <1>9, <1>g, <2>1 DEF TriedOK
<1>13. Loose(u) = Loose(t)
    <2>1. \A a \in Untried(t) : a \in DOMAIN t.info BY DEF Untried
    <2> QED BY <1>8, <1>9, <2>1 DEF Loose
<1> QED BY <1>6, <1>7, <1>10, <1>11, <1>12, <1>13 DEF Whole

-----------------------------------------------------------------------------
(* peers.dat.                                                               *)

\* A file that can be read names entries and tried ones apart, counts them, and
\* if its buckets can be used an entry is in at most MaxRefs of them.
Fields == {"own", "complete", "entries", "tried", "source", "nNew", "nTried"}
FileOK(f) ==
    \/ f = Unreadable
    \/ /\ Fields \subseteq DOMAIN f /\ f.own \in BOOLEAN
       /\ f.entries \subseteq Addresses /\ f.tried \subseteq Addresses
       /\ f.entries \cap f.tried = {}
       /\ \A a \in f.entries \cup f.tried : f.source[a] \in Sources
       /\ f.nNew = Cardinality(f.entries) /\ f.nTried = Cardinality(f.tried)
       /\ f.own =>
            /\ "buckets" \in DOMAIN f
            /\ \A b \in NewBuckets : f.buckets[b] \subseteq f.entries
            /\ \A a \in f.entries :
                   Cardinality({b \in NewBuckets : a \in f.buckets[b]}) <= MaxRefs

\* Who gets a place is one of those who ask for it.
LEMMA FirstIsOne ==
    ASSUME NEW S \in SUBSET Addresses, NEW rank \in Ranks
    PROVE  /\ S = {} => First(S, rank) = Empty
           /\ S # {} => First(S, rank) \in S /\ First(S, rank) # Empty
<1>1. CASE S = {} BY <1>1 DEF First
<1>2. CASE S # {}
    <2>1. \A a \in S : rank[a] \in Nat
        <3>1. rank \in [Addresses -> 1..Cardinality(Addresses)] BY DEF Ranks
        <3>2. Cardinality(Addresses) \in Nat BY AddrFinite, FS_CardinalityType
        <3> QED BY <3>1, <3>2
    <2>2. PICK T : T = {rank[a] : a \in S} OBVIOUS
    <2>3. T \in SUBSET Nat /\ T # {} BY <1>2, <2>1, <2>2
    <2>4. PICK m \in T : \A k \in T : m <= k BY <2>3, LeastElement
    <2>5. PICK a \in S : rank[a] = m BY <2>2, <2>4
    <2>6. \A b \in S : rank[a] <= rank[b] BY <2>2, <2>4, <2>5
    <2>7. First(S, rank) \in S BY <1>2, <2>5, <2>6 DEF First
    <2> QED BY <1>2, <2>7, AddrFinite
<1> QED BY <1>1, <1>2

\* The places of an entry are one in each of its buckets.
LEMMA PlacesCount ==
    ASSUME NEW v \in [NewSlots -> Addresses \cup {Empty}], NEW a \in Addresses,
           \A s \in NewSlots : v[s] = a => s = Slot(a, s[1]),
           NEW B, B = {b \in NewBuckets : v[Slot(a, b)] = a}
    PROVE  /\ IsFiniteSet(B) /\ Cardinality(B) \in Nat
           /\ Cardinality(Places(v, a)) = Cardinality(B)
           /\ Places(v, a) = {} <=> Cardinality(B) = 0
<1>1. IsFiniteSet(B) /\ Cardinality(B) \in Nat BY AddrFinite, FS_Subset, FS_CardinalityType
<1>2. PICK g : g = [b \in B |-> Slot(a, b)] OBVIOUS
<1>3. PICK P : P = Places(v, a) OBVIOUS
<1>4. \A s : s \in P <=> s \in NewSlots /\ v[s] = a BY <1>3 DEF Places
<1>5. \A b \in B : Slot(a, b) \in P /\ Slot(a, b)[1] = b BY <1>4, SlotFacts
<1>6. \A s \in P : s[1] \in B /\ Slot(a, s[1]) = s BY <1>4, SlotBucket
<1>7. g \in Surjection(B, P)
    <2>1. g \in [B -> P] BY <1>2, <1>5
    <2>2. \A s \in P : \E b \in B : g[b] = s BY <1>2, <1>6
    <2> QED BY <2>1, <2>2 DEF Surjection
<1>8. g \in Injection(B, P)
    <2>1. g \in [B -> P] BY <1>2, <1>5
    <2>2. \A b, c \in B : g[b] = g[c] => b = c BY <1>2, <1>5
    <2> QED BY <2>1, <2>2 DEF Injection, IsInjective
<1>9. IsFiniteSet(P) /\ Cardinality(P) = Cardinality(B) BY <1>1, <1>7, <1>8, FS_Surjection
<1> QED BY <1>1, <1>3, <1>9, FS_EmptySet

\* The fields of a file that can be read.
LEMMA FileFields ==
    ASSUME NEW f, FileOK(f), f # Unreadable
    PROVE  /\ f.own \in BOOLEAN /\ f.entries \subseteq Addresses /\ f.tried \subseteq Addresses
           /\ IsFiniteSet(f.entries) /\ IsFiniteSet(f.tried)
           /\ f.entries \cap f.tried = {}
           /\ \A a \in f.entries \cup f.tried : f.source[a] \in Sources
           /\ f.nNew = Cardinality(f.entries) /\ f.nTried = Cardinality(f.tried)
<1>1. f.entries \subseteq Addresses /\ f.tried \subseteq Addresses BY DEF FileOK
<1>2. IsFiniteSet(f.entries) /\ IsFiniteSet(f.tried) BY <1>1, AddrFinite, FS_Subset
<1> QED BY <1>1, <1>2 DEF FileOK

\* An entry asks for places that are its own, at most MaxRefs of them.
LEMMA ApplicantsFacts ==
    ASSUME NEW f, FileOK(f), f # Unreadable
    PROVE  /\ \A s \in NewSlots :
                 /\ Applicants(f, s) \in SUBSET f.entries
                 /\ \A a \in Applicants(f, s) : s = Slot(a, s[1])
           /\ \A a \in f.entries, C \in SUBSET NewBuckets :
                 (\A b \in C : a \in Applicants(f, Slot(a, b))) => Cardinality(C) <= MaxRefs
<1>1. CASE f.own
    <2>1. /\ \A b \in NewBuckets : f.buckets[b] \subseteq f.entries
          /\ \A a \in f.entries : Cardinality({b \in NewBuckets : a \in f.buckets[b]}) <= MaxRefs
          BY <1>1 DEF FileOK
    <2>2. \A s : Applicants(f, s) = {a \in f.buckets[s[1]] : Slot(a, s[1]) = s}
          BY <1>1 DEF Applicants
    <2>3. \A s \in NewSlots : Applicants(f, s) \in SUBSET f.entries BY <2>1, <2>2, SlotBucket
    <2>4. \A s : \A a \in Applicants(f, s) : s = Slot(a, s[1]) BY <2>2
    <2>5. ASSUME NEW a \in f.entries, NEW C \in SUBSET NewBuckets,
                 \A b \in C : a \in Applicants(f, Slot(a, b))
          PROVE  Cardinality(C) <= MaxRefs
        <3>1. PICK D : D = {b \in NewBuckets : a \in f.buckets[b]} OBVIOUS
        <3>2. a \in Addresses BY FileFields
        <3>3. C \subseteq D BY <2>2, <2>5, <3>1, <3>2, SlotFacts
        <3>4. IsFiniteSet(D) BY <3>1, AddrFinite, FS_Subset
        <3>5. Cardinality(C) <= Cardinality(D) /\ IsFiniteSet(C) BY <3>3, <3>4, FS_Subset
        <3>6. Cardinality(C) \in Nat /\ Cardinality(D) \in Nat BY <3>4, <3>5, FS_CardinalityType
        <3>7. Cardinality(D) <= MaxRefs BY <2>1, <3>1
        <3> QED BY <3>5, <3>6, <3>7, AddrLimit
    <2> QED BY <2>3, <2>4, <2>5
<1>2. CASE ~f.own
    <2>1. \A s : Applicants(f, s) = {a \in f.entries : PrimarySlot(a, f.source[a]) = s}
          BY <1>2 DEF Applicants
    <2>2. \A a \in f.entries : a \in Addresses /\ NewBucket[<<a, f.source[a]>>] \in NewBuckets
          BY FileFields, AddrHash
    <2>3. \A s : \A a \in Applicants(f, s) :
             s[1] = NewBucket[<<a, f.source[a]>>] /\ s = Slot(a, s[1])
          BY <2>1, <2>2, SlotFacts DEF PrimarySlot
    <2>4. ASSUME NEW a \in f.entries, NEW C \in SUBSET NewBuckets,
                 \A b \in C : a \in Applicants(f, Slot(a, b))
          PROVE  Cardinality(C) <= MaxRefs
        <3>1. PICK d : d = NewBucket[<<a, f.source[a]>>] OBVIOUS
        <3>2. C \in SUBSET {d} BY <2>2, <2>3, <2>4, <3>1, SlotFacts
        <3>3. IsFiniteSet({d}) /\ Cardinality({d}) = 1 BY FS_Singleton
        <3>4. Cardinality(C) <= 1 /\ IsFiniteSet(C) BY <3>2, <3>3, FS_Subset
        <3>5. Cardinality(C) \in Nat BY <3>4, FS_CardinalityType
        <3> QED BY <3>4, <3>5, AddrLimit
    <2> QED BY <2>1, <2>3, <2>4
<1> QED BY <1>1, <1>2

\* The tables that are read: the entries are in places of theirs.
LEMMA TablesRead ==
    ASSUME NEW f, FileOK(f), f # Unreadable, NEW rank \in Ranks
    PROVE  /\ NewTable(f, rank) \in [NewSlots -> Addresses \cup {Empty}]
           /\ \A s \in NewSlots : NewTable(f, rank)[s] # Empty =>
                 /\ NewTable(f, rank)[s] \in f.entries
                 /\ NewTable(f, rank)[s] \in Applicants(f, s)
                 /\ s = Slot(NewTable(f, rank)[s], s[1])
           /\ TriedTable(f, rank) \in [TriedSlots -> Addresses \cup {Empty}]
           /\ \A k \in TriedSlots : TriedTable(f, rank)[k] # Empty =>
                 /\ TriedTable(f, rank)[k] \in f.tried
                 /\ TriedSlot[TriedTable(f, rank)[k]] = k
<1>1. \A s \in NewSlots : /\ Applicants(f, s) \in SUBSET f.entries
                         /\ \A a \in Applicants(f, s) : s = Slot(a, s[1])
      BY ApplicantsFacts
<1>2. f.entries \subseteq Addresses /\ f.tried \subseteq Addresses BY FileFields
<1>3. ASSUME NEW s \in NewSlots
      PROVE  /\ First(Applicants(f, s), rank) \in Addresses \cup {Empty}
             /\ First(Applicants(f, s), rank) # Empty =>
                   First(Applicants(f, s), rank) \in Applicants(f, s)
    <2>1. Applicants(f, s) \in SUBSET Addresses BY <1>1, <1>2
    <2> QED BY <2>1, FirstIsOne
<1>4. ASSUME NEW k \in TriedSlots
      PROVE  /\ TriedTable(f, rank)[k] \in Addresses \cup {Empty}
             /\ TriedTable(f, rank)[k] # Empty =>
                   TriedTable(f, rank)[k] \in {a \in f.tried : TriedSlot[a] = k}
    <2>1. PICK S : S = {a \in f.tried : TriedSlot[a] = k} OBVIOUS
    <2>2. S \in SUBSET Addresses BY <1>2, <2>1
    <2>3. TriedTable(f, rank)[k] = First(S, rank) BY <2>1 DEF TriedTable
    <2> QED BY <2>1, <2>2, <2>3, FirstIsOne
<1>5. \A s \in NewSlots : NewTable(f, rank)[s] = First(Applicants(f, s), rank) BY DEF NewTable
<1>6. NewTable(f, rank) \in [NewSlots -> Addresses \cup {Empty}] BY <1>3 DEF NewTable
<1>7. TriedTable(f, rank) \in [TriedSlots -> Addresses \cup {Empty}]
    <2>1. DOMAIN TriedTable(f, rank) = TriedSlots /\ TriedTable(f, rank) = [k \in TriedSlots |-> TriedTable(f, rank)[k]]
          BY DEF TriedTable
    <2> QED BY <1>4, <2>1
<1>8. \A s \in NewSlots : NewTable(f, rank)[s] # Empty =>
                 /\ NewTable(f, rank)[s] \in f.entries
                 /\ NewTable(f, rank)[s] \in Applicants(f, s)
                 /\ s = Slot(NewTable(f, rank)[s], s[1])
      BY <1>1, <1>3, <1>5
<1> QED BY <1>4, <1>6, <1>7, <1>8

\* Whatever file is read, the tables agree.
LEMMA UnserializeSound ==
    ASSUME NEW f, FileOK(f), f # Unreadable, NEW rank \in Ranks,
           NEW random \in Arrangements(Survivors(f, rank)),
           NEW u, u = Unserialize(f, rank, random)
    PROVE  Whole(u, {}) /\ Loose(u) = {}
<1>1. PICK new, tried : new = NewTable(f, rank) /\ tried = TriedTable(f, rank) OBVIOUS
<1>2. PICK S : S = Survivors(f, rank) OBVIOUS
<1>f. /\ f.entries \subseteq Addresses /\ f.tried \subseteq Addresses
      /\ IsFiniteSet(f.entries) /\ IsFiniteSet(f.tried)
      /\ f.entries \cap f.tried = {}
      /\ \A a \in f.entries \cup f.tried : f.source[a] \in Sources
      /\ f.nNew = Cardinality(f.entries) /\ f.nTried = Cardinality(f.tried)
      BY FileFields
<1>3. /\ new \in [NewSlots -> Addresses \cup {Empty}]
      /\ \A s \in NewSlots : new[s] # Empty =>
            new[s] \in f.entries /\ new[s] \in Applicants(f, s) /\ s = Slot(new[s], s[1])
      /\ tried \in [TriedSlots -> Addresses \cup {Empty}]
      /\ \A k \in TriedSlots : tried[k] # Empty => tried[k] \in f.tried /\ TriedSlot[tried[k]] = k
      BY <1>1, TablesRead
<1>4. PICK N, T : N = Kept(f.entries, new) /\ T = Kept(f.tried, tried) OBVIOUS
<1>5. /\ S = N \cup T /\ N \subseteq f.entries /\ T \subseteq f.tried
      /\ N \subseteq Addresses /\ T \subseteq Addresses
      BY <1>1, <1>2, <1>4, <1>f DEF Survivors, Kept
<1>6. /\ \A s \in NewSlots : new[s] # Empty => new[s] \in N
      /\ \A k \in TriedSlots : tried[k] # Empty => tried[k] \in T
      /\ \A a \in T : tried[TriedSlot[a]] = a
    <2>1. \A s \in NewSlots : new[s] # Empty => new[s] \in N
          BY <1>3, <1>4 DEF Kept, Places
    <2>2. \A k \in TriedSlots : tried[k] # Empty => tried[k] \in T
          BY <1>3, <1>4 DEF Kept, Places
    <2>3. ASSUME NEW a \in T PROVE tried[TriedSlot[a]] = a
        <3>1. PICK k \in TriedSlots : tried[k] = a BY <1>3, <1>4 DEF Kept, Places
        <3>2. a # Empty BY <1>5, AddrFinite
        <3> QED BY <1>3, <3>1, <3>2
    <2> QED BY <2>1, <2>2, <2>3
<1>7. /\ IsFiniteSet(S) /\ IsFiniteSet(N) /\ IsFiniteSet(T) /\ S \subseteq Addresses
      /\ f.nNew - Cardinality(f.entries \ N) = Cardinality(N)
      /\ f.nTried - Cardinality(f.tried \ T) = Cardinality(T)
    <2>1. IsFiniteSet(N) /\ IsFiniteSet(T) BY <1>5, <1>f, FS_Subset
    <2>2. IsFiniteSet(S) /\ S \subseteq Addresses BY <1>5, AddrFinite, FS_Subset
    <2>3. /\ Cardinality(f.entries) \in Nat /\ Cardinality(f.tried) \in Nat
          /\ Cardinality(N) \in Nat /\ Cardinality(T) \in Nat
          BY <1>f, <2>1, FS_CardinalityType
    <2>4. f.entries \cap N = N /\ f.tried \cap T = T BY <1>5
    <2>5. Cardinality(f.entries \ N) = Cardinality(f.entries) - Cardinality(N)
        <3>1. IsFiniteSet(f.entries) BY <1>f
        <3>2. Cardinality(f.entries \ N) = Cardinality(f.entries) - Cardinality(f.entries \cap N)
              BY ONLY <3>1, FS_Difference
        <3> QED BY <2>4, <3>2
    <2>6. Cardinality(f.tried \ T) = Cardinality(f.tried) - Cardinality(T)
        <3>1. IsFiniteSet(f.tried) BY <1>f
        <3>2. Cardinality(f.tried \ T) = Cardinality(f.tried) - Cardinality(f.tried \cap T)
              BY ONLY <3>1, FS_Difference
        <3> QED BY <2>4, <3>2
    <2> QED BY <1>f, <2>1, <2>2, <2>3, <2>5, <2>6
<1>8. /\ random \in [1..Cardinality(S) -> S] /\ Cardinality(S) \in Nat
      /\ DOMAIN random = 1..Cardinality(S)
      /\ random \in Seq(Addresses) /\ Len(random) = Cardinality(S)
      /\ \A a \in S : \E n \in 1..Cardinality(S) : random[n] = a
    <2>1. /\ random \in [1..Cardinality(S) -> S]
          /\ \A i, j \in 1..Cardinality(S) : random[i] = random[j] => i = j
          BY <1>2 DEF Arrangements
    <2>2. Cardinality(S) \in Nat BY <1>7, FS_CardinalityType
    <2>3. IsFiniteSet(1..Cardinality(S)) /\ Cardinality(1..Cardinality(S)) = Cardinality(S)
          BY <2>2, FS_Interval
    <2>4. random \in Injection(1..Cardinality(S), S) BY <2>1 DEF Injection, IsInjective
    <2>5. random \in Surjection(1..Cardinality(S), S) BY <1>7, <2>3, <2>4, FS_Injection
    <2>6. random \in [1..Cardinality(S) -> Addresses] BY <1>7, <2>1
    <2> QED BY <2>1, <2>2, <2>5, <2>6 DEF Surjection
<1>9. /\ u.vvNew = new /\ u.vvTried = tried /\ u.random = random
      /\ u.nNew = Cardinality(N) /\ u.nTried = Cardinality(T)
      /\ u.info = [a \in S |->
            [source |-> f.source[a], fInTried |-> a \in f.tried,
             nRefCount |-> Cardinality(Places(new, a)),
             nRandomPos |-> CHOOSE n \in DOMAIN random : random[n] = a]]
      /\ IsTables(u)
    <2>1. u = [vvNew |-> new, vvTried |-> tried, random |-> random,
               nNew |-> f.nNew - Cardinality(f.entries \ N),
               nTried |-> f.nTried - Cardinality(f.tried \ T),
               info |-> [a \in S |->
                  [source |-> f.source[a], fInTried |-> a \in f.tried,
                   nRefCount |-> Cardinality(Places(new, a)),
                   nRandomPos |-> CHOOSE n \in DOMAIN random : random[n] = a]]]
          BY <1>1, <1>2, <1>4 DEF Unserialize
    <2> QED BY <1>7, <2>1 DEF IsTables
<1>10. ASSUME NEW a \in Addresses
       PROVE  /\ Cardinality(Places(new, a)) = Cardinality(BucketsOf(u, a))
              /\ Cardinality(BucketsOf(u, a)) \in Nat
              /\ Places(new, a) = {} <=> Cardinality(BucketsOf(u, a)) = 0
              /\ \A b \in BucketsOf(u, a) : b \in NewBuckets /\ new[Slot(a, b)] = a
    <2>1. BucketsOf(u, a) = {b \in NewBuckets : new[Slot(a, b)] = a} BY <1>9 DEF BucketsOf
    <2>2. a # Empty BY AddrFinite
    <2>3. \A s \in NewSlots : new[s] = a => s = Slot(a, s[1]) BY <1>3, <2>2
    <2> QED BY <1>3, <2>1, <2>3, PlacesCount
<1>11. ASSUME NEW a \in S
       PROVE  /\ u.info[a] \in Entry /\ u.info[a].fInTried = (a \in f.tried)
              /\ u.info[a].nRefCount = Cardinality(BucketsOf(u, a))
              /\ u.info[a].nRandomPos \in DOMAIN random /\ random[u.info[a].nRandomPos] = a
    <2>1. a \in Addresses /\ a \in f.entries \cup f.tried BY <1>5
    <2>2. PICK n : n = CHOOSE m \in DOMAIN random : random[m] = a OBVIOUS
    <2>3. n \in 1..Cardinality(S) /\ random[n] = a BY <1>8, <2>2
    <2>4. u.info[a] = [source |-> f.source[a], fInTried |-> a \in f.tried,
                       nRefCount |-> Cardinality(Places(new, a)), nRandomPos |-> n]
          BY <1>9, <2>2
    <2>5. PICK x : x = (a \in f.tried) OBVIOUS
    <2>6. x \in BOOLEAN BY <2>5
    <2>7. PICK e : e = u.info[a] OBVIOUS
    <2>8. f.source[a] \in Sources BY <1>f, <2>1
    <2>9. n \in Nat /\ n \in DOMAIN random BY <1>8, <2>3
    <2>10. Cardinality(Places(new, a)) \in Nat BY <1>10, <2>1
    <2>11. e = [source |-> f.source[a], fInTried |-> x,
                nRefCount |-> Cardinality(Places(new, a)), nRandomPos |-> n]
          BY <2>4, <2>5, <2>7
    <2>12. e \in Entry BY <2>6, <2>8, <2>9, <2>10, <2>11 DEF Entry
    <2>13. e.fInTried = x /\ e.nRefCount = Cardinality(Places(new, a)) /\ e.nRandomPos = n
          BY <2>11
    <2> QED BY <1>10, <2>1, <2>3, <2>5, <2>7, <2>9, <2>12, <2>13
<1>12. DOMAIN u.info = S BY <1>9
<1>13. Untried(u) = N /\ InTried(u) = T
    <2>1. \A a \in S : u.info[a].fInTried <=> a \in T BY <1>5, <1>11, <1>f
    <2>2. N \cap T = {} BY <1>5, <1>f
    <2> QED BY <1>5, <1>12, <2>1, <2>2 DEF Untried, InTried
<1>14. Shape(u)
    <2>1. u.info \in [DOMAIN u.info -> Entry] BY <1>9, <1>11, <1>12
    <2> QED BY <1>3, <1>7, <1>8, <1>9, <1>12, <2>1 DEF Shape
<1>15. RandomAgrees(u) BY <1>8, <1>9, <1>11, <1>12 DEF RandomAgrees
<1>16. Counts(u, {}) BY <1>9, <1>13 DEF Counts
<1>17. RefsOK(u)
    <2>1. ASSUME NEW a \in S PROVE u.info[a].nRefCount <= MaxRefs
        <3>1. PICK C : C = BucketsOf(u, a) OBVIOUS
        <3>2. a \in Addresses /\ a # Empty BY <1>5, AddrFinite
        <3>3. C \in SUBSET NewBuckets BY <3>1 DEF BucketsOf
        <3>4. ASSUME NEW b \in C PROVE a \in f.entries /\ a \in Applicants(f, Slot(a, b))
            <4>1. b \in NewBuckets /\ new[Slot(a, b)] = a BY <1>10, <3>1, <3>2
            <4>2. Slot(a, b) \in NewSlots BY <3>2, <4>1, SlotFacts
            <4> QED BY <1>3, <3>2, <4>1, <4>2
        <3>5. CASE a \in f.entries
            <4>1. Cardinality(C) <= MaxRefs BY <3>3, <3>4, <3>5, ApplicantsFacts
            <4> QED BY <1>11, <3>1, <4>1
        <3>6. CASE a \notin f.entries
            <4>1. C = {} BY <3>4, <3>6
            <4>2. u.info[a].nRefCount = Cardinality({}) BY <1>11, <3>1, <4>1
            <4>3. u.info[a].nRefCount = 0 BY <4>2, FS_EmptySet
            <4> QED BY <4>3, AddrLimit
        <3> QED BY <3>5, <3>6
    <2>2. \A s \in NewSlots : u.vvNew[s] # Empty =>
             u.vvNew[s] \in DOMAIN u.info /\ s = Slot(u.vvNew[s], s[1])
          BY <1>3, <1>5, <1>6, <1>9, <1>12
    <2> QED BY <1>11, <1>12, <2>1, <2>2 DEF RefsOK
<1>18. TriedOK(u)
    <2>1. ASSUME NEW a \in T PROVE u.info[a].nRefCount = 0
        <3>1. a \in S /\ a \in Addresses /\ a \notin f.entries /\ a # Empty
              BY <1>5, <1>f, AddrFinite
        <3>2. Places(new, a) = {} BY <1>3, <3>1 DEF Places
        <3> QED BY <1>10, <1>11, <3>1, <3>2
    <2>2. \A k \in TriedSlots : u.vvTried[k] # Empty =>
             u.vvTried[k] \in InTried(u) /\ TriedSlot[u.vvTried[k]] = k
          BY <1>3, <1>6, <1>9, <1>13
    <2> QED BY <1>6, <1>9, <1>13, <2>1, <2>2 DEF TriedOK
<1>19. Loose(u) = {}
    <2>1. ASSUME NEW a \in N PROVE u.info[a].nRefCount # 0
        <3>1. a \in S /\ a \in Addresses BY <1>5
        <3>2. Places(new, a) # {} BY <1>4 DEF Kept
        <3> QED BY <1>10, <1>11, <3>1, <3>2
    <2> QED BY <1>13, <2>1 DEF Loose
<1> QED BY <1>14, <1>15, <1>16, <1>17, <1>18, <1>19 DEF Whole

\* A dump of tables that agree can be read.
LEMMA SerializeOK ==
    ASSUME NEW t, Whole(t, {}), Loose(t) = {}
    PROVE  FileOK(Serialize(t))
<1>0. /\ Shape(t) /\ Counts(t, {}) /\ RefsOK(t) /\ TriedOK(t) BY DEF Whole
<1>1. PICK f : f = Serialize(t) OBVIOUS
<1>2. /\ Fields \subseteq DOMAIN f /\ "buckets" \in DOMAIN f /\ f.own
      /\ f.entries = {a \in DOMAIN t.info : t.info[a].nRefCount # 0}
      /\ f.tried = InTried(t) /\ f.nNew = t.nNew /\ f.nTried = t.nTried
      /\ \A a \in DOMAIN t.info : f.source[a] = t.info[a].source
      /\ \A b \in NewBuckets : f.buckets[b] = {t.vvNew[<<b, p>>] : p \in Positions} \ {Empty}
      BY <1>1 DEF Serialize, Fields, InTried
<1>3. DOMAIN t.info \subseteq Addresses /\ \A a \in DOMAIN t.info : t.info[a].source \in Sources
      BY <1>0, EntryFields DEF Shape
<1>4. f.entries = Untried(t)
      BY <1>0, <1>2 DEF Untried, InTried, TriedOK, Loose
<1>5. Untried(t) \cap InTried(t) = {} /\ Untried(t) \subseteq DOMAIN t.info /\ InTried(t) \subseteq DOMAIN t.info
      BY DEF Untried, InTried
<1>6. Untried(t) \ {} = Untried(t) OBVIOUS
<1>7. f.nNew = Cardinality(f.entries) /\ f.nTried = Cardinality(f.tried)
      BY <1>0, <1>2, <1>4, <1>6 DEF Counts
<1>8. ASSUME NEW b \in NewBuckets, NEW a \in f.buckets[b]
      PROVE  a \in Untried(t) /\ b \in BucketsOf(t, a)
    <2>1. PICK p \in Positions : a = t.vvNew[<<b, p>>] /\ a # Empty BY <1>2
    <2>2. PICK s \in NewSlots : s = <<b, p>> BY DEF NewSlots
    <2>3. s[1] = b BY <2>2
    <2> QED BY <2>1, <2>2, <2>3, Placeholder
<1>9. ASSUME NEW a \in f.entries
      PROVE  Cardinality({b \in NewBuckets : a \in f.buckets[b]}) <= MaxRefs
    <2>1. PICK C : C = {b \in NewBuckets : a \in f.buckets[b]} OBVIOUS
    <2>2. C \subseteq BucketsOf(t, a) BY <1>8, <2>1
    <2>3. IsFiniteSet(BucketsOf(t, a)) BY <1>0, FiniteParts
    <2>4. Cardinality(C) <= Cardinality(BucketsOf(t, a)) BY <2>2, <2>3, FS_Subset
    <2>5. IsFiniteSet(C) BY <2>2, <2>3, FS_Subset
    <2>6. Cardinality(C) \in Nat /\ Cardinality(BucketsOf(t, a)) \in Nat
          BY <2>3, <2>5, FS_CardinalityType
    <2>7. Cardinality(BucketsOf(t, a)) <= MaxRefs
        <3>1. a \in DOMAIN t.info BY <1>2
        <3> QED BY <1>0, <3>1 DEF RefsOK
    <2> QED BY <2>1, <2>4, <2>6, <2>7, AddrLimit
<1>10. \A a \in f.entries \cup f.tried : f.source[a] \in Sources
       BY <1>2, <1>3, <1>4, <1>5
<1>11. f.entries \subseteq Addresses /\ f.tried \subseteq Addresses /\ f.entries \cap f.tried = {}
       BY <1>2, <1>3, <1>4, <1>5
<1>12. \A b \in NewBuckets : f.buckets[b] \subseteq f.entries BY <1>4, <1>8
<1>13. f.own \in BOOLEAN BY <1>1 DEF Serialize
<1> QED BY <1>1, <1>2, <1>7, <1>9, <1>10, <1>11, <1>12, <1>13 DEF FileOK

\* Who is at a position of vRandom is at no other.
LEMMA PositionUnique ==
    ASSUME NEW t, Shape(t), RandomAgrees(t), NEW a \in DOMAIN t.info,
           NEW n \in DOMAIN t.random, t.random[n] = a
    PROVE  n = t.info[a].nRandomPos
<1>1. PICK l \in Nat : l = Len(t.random) BY DEF Shape
<1>2. PICK I : I = DOMAIN t.info OBVIOUS
<1>3. /\ DOMAIN t.random = 1..l /\ l = Cardinality(I) /\ IsFiniteSet(I)
      /\ \A b \in I : t.info[b].nRandomPos \in 1..l /\ t.random[t.info[b].nRandomPos] = b
      BY <1>1, <1>2, FiniteParts DEF Shape, RandomAgrees
<1>4. PICK g : g = [b \in I |-> t.info[b].nRandomPos] OBVIOUS
<1>5. g \in Injection(I, 1..l)
    <2>1. g \in [I -> 1..l] BY <1>3, <1>4
    <2>2. \A b, c \in I : g[b] = g[c] => b = c BY <1>3, <1>4
    <2> QED BY <2>1, <2>2 DEF Injection, IsInjective
<1>6. IsFiniteSet(1..l) /\ Cardinality(1..l) = l BY FS_Interval
<1>7. g \in Surjection(I, 1..l) BY <1>3, <1>5, <1>6, FS_Injection
<1>8. PICK b \in I : g[b] = n BY <1>3, <1>7 DEF Surjection
<1>9. n = t.info[b].nRandomPos /\ t.random[n] = b BY <1>3, <1>4, <1>8
<1> QED BY <1>9

\* Reading a dump gives back the tables.
LEMMA Restored ==
    ASSUME NEW t, Whole(t, {}), Loose(t) = {}, NEW rank \in Ranks
    PROVE  Unserialize(Serialize(t), rank, t.random) = t
<1>0. /\ Shape(t) /\ RandomAgrees(t) /\ Counts(t, {}) /\ RefsOK(t) /\ TriedOK(t) BY DEF Whole
<1>1. PICK f : f = Serialize(t) OBVIOUS
<1>2. /\ f.own
      /\ f.entries = {a \in DOMAIN t.info : t.info[a].nRefCount # 0}
      /\ f.tried = InTried(t) /\ f.nNew = t.nNew /\ f.nTried = t.nTried
      /\ \A a \in DOMAIN t.info : f.source[a] = t.info[a].source
      /\ \A b \in NewBuckets : f.buckets[b] = {t.vvNew[<<b, p>>] : p \in Positions} \ {Empty}
      BY <1>1 DEF Serialize, InTried
<1>3. /\ f.entries = Untried(t) /\ Untried(t) \cap InTried(t) = {}
      /\ DOMAIN t.info = Untried(t) \cup InTried(t) /\ DOMAIN t.info \subseteq Addresses
    <2>1. f.entries = Untried(t) BY <1>0, <1>2 DEF Untried, InTried, TriedOK, Loose
    <2> QED BY <1>0, <2>1 DEF Untried, InTried, Shape
<1>4. ASSUME NEW s \in NewSlots
      PROVE  Applicants(f, s) = IF t.vvNew[s] = Empty THEN {} ELSE {t.vvNew[s]}
    <2>1. Applicants(f, s) = {a \in f.buckets[s[1]] : Slot(a, s[1]) = s}
          BY <1>2 DEF Applicants
    <2>2. PICK b \in NewBuckets, p \in Positions : s = <<b, p>> BY DEF NewSlots
    <2>3. f.buckets[s[1]] = {t.vvNew[<<b, r>>] : r \in Positions} \ {Empty} BY <1>2, <2>2
    <2>4. ASSUME NEW a \in Applicants(f, s) PROVE a = t.vvNew[s] /\ a # Empty
        <3>1. PICK r \in Positions : a = t.vvNew[<<b, r>>] /\ a # Empty BY <2>1, <2>3
        <3>2. <<b, r>> \in NewSlots /\ <<b, r>>[1] = b BY DEF NewSlots
        <3>3. <<b, r>> = Slot(a, b) BY <1>0, <3>1, <3>2 DEF RefsOK
        <3>4. s[1] = b BY <2>2
        <3> QED BY <2>1, <3>1, <3>3, <3>4
    <2>5. ASSUME t.vvNew[s] # Empty PROVE t.vvNew[s] \in Applicants(f, s)
        <3>1. t.vvNew[s] \in f.buckets[s[1]] BY <2>2, <2>3, <2>5
        <3>2. s = Slot(t.vvNew[s], s[1]) BY <1>0, <2>5 DEF RefsOK
        <3> QED BY <2>1, <3>1, <3>2
    <2> QED BY <2>4, <2>5
<1>5. \A x \in Addresses : First({x}, rank) = x
    <2>1. ASSUME NEW x \in Addresses PROVE First({x}, rank) = x
        <3>1. {x} \in SUBSET Addresses OBVIOUS
        <3>2. First({x}, rank) \in {x} BY <3>1, FirstIsOne
        <3> QED BY <3>2
    <2> QED BY <2>1
<1>6. First({}, rank) = Empty BY DEF First
<1>7. NewTable(f, rank) = t.vvNew
    <2>1. ASSUME NEW s \in NewSlots PROVE First(Applicants(f, s), rank) = t.vvNew[s]
        <3>1. t.vvNew[s] \in Addresses \cup {Empty} BY <1>0 DEF Shape
        <3> QED BY <1>4, <1>5, <1>6, <3>1
    <2>2. t.vvNew \in [NewSlots -> Addresses \cup {Empty}] BY <1>0 DEF Shape
    <2> QED BY <2>1, <2>2 DEF NewTable
<1>8. TriedTable(f, rank) = t.vvTried
    <2>1. ASSUME NEW k \in TriedSlots
          PROVE  First({a \in f.tried : TriedSlot[a] = k}, rank) = t.vvTried[k]
        <3>1. t.vvTried[k] \in Addresses \cup {Empty} BY <1>0 DEF Shape
        <3>2. PICK A : A = {a \in f.tried : TriedSlot[a] = k} OBVIOUS
        <3>3. \A a \in A : a = t.vvTried[k] /\ a # Empty
              BY <1>0, <1>2, <1>3, <3>2, AddrFinite DEF TriedOK
        <3>4. t.vvTried[k] # Empty => t.vvTried[k] \in A BY <1>0, <1>2, <3>2 DEF TriedOK
        <3>5. A = IF t.vvTried[k] = Empty THEN {} ELSE {t.vvTried[k]} BY <3>3, <3>4
        <3> QED BY <1>5, <1>6, <3>1, <3>2, <3>5
    <2>2. t.vvTried \in [TriedSlots -> Addresses \cup {Empty}] BY <1>0 DEF Shape
    <2> QED BY <2>1, <2>2 DEF TriedTable
<1>9. ASSUME NEW a \in DOMAIN t.info
      PROVE  /\ Cardinality(Places(t.vvNew, a)) = t.info[a].nRefCount
             /\ a \in Untried(t) => Places(t.vvNew, a) # {}
    <2>1. t.vvNew \in [NewSlots -> Addresses \cup {Empty}] /\ a \in Addresses /\ a # Empty
          BY <1>0, <1>3, AddrFinite DEF Shape
    <2>2. \A s \in NewSlots : t.vvNew[s] = a => s = Slot(a, s[1]) BY <1>0, <2>1 DEF RefsOK
    <2>3. /\ Cardinality(Places(t.vvNew, a)) = Cardinality(BucketsOf(t, a))
          /\ Places(t.vvNew, a) = {} <=> Cardinality(BucketsOf(t, a)) = 0
          BY <2>1, <2>2, PlacesCount DEF BucketsOf
    <2>4. Cardinality(BucketsOf(t, a)) = t.info[a].nRefCount BY <1>0 DEF RefsOK
    <2> QED BY <2>3, <2>4 DEF Loose
<1>10. /\ Kept(f.entries, t.vvNew) = Untried(t) /\ Kept(f.tried, t.vvTried) = InTried(t)
    <2>1. ASSUME NEW a \in InTried(t) PROVE Places(t.vvTried, a) # {}
        <3>1. TriedSlot[a] \in TriedSlots BY <1>3, AddrHash
        <3>2. TriedSlot[a] \in DOMAIN t.vvTried /\ t.vvTried[TriedSlot[a]] = a
              BY <1>0, <3>1 DEF TriedOK, Shape
        <3> QED BY <3>2 DEF Places
    <2> QED BY <1>2, <1>3, <1>9, <2>1 DEF Kept
<1>11. Survivors(f, rank) = DOMAIN t.info BY <1>3, <1>7, <1>8, <1>10 DEF Survivors
<1>12. /\ f.nNew - Cardinality(f.entries \ Untried(t)) = t.nNew
       /\ f.nTried - Cardinality(f.tried \ InTried(t)) = t.nTried
    <2>1. f.entries \ Untried(t) = {} /\ f.tried \ InTried(t) = {} BY <1>2, <1>3
    <2>2. t.nNew \in Nat /\ t.nTried \in Nat
          BY <1>0, FiniteParts, FS_CardinalityType DEF Counts
    <2>3. Cardinality({}) = 0 BY FS_EmptySet
    <2>4. /\ Cardinality(f.entries \ Untried(t)) = 0
          /\ Cardinality(f.tried \ InTried(t)) = 0
          BY <2>1, <2>3
    <2>5. f.nNew = t.nNew /\ f.nTried = t.nTried BY <1>2
    <2> QED BY <2>2, <2>4, <2>5
<1>13. ASSUME NEW a \in DOMAIN t.info
       PROVE  [source |-> f.source[a], fInTried |-> a \in f.tried,
               nRefCount |-> Cardinality(Places(t.vvNew, a)),
               nRandomPos |-> CHOOSE n \in DOMAIN t.random : t.random[n] = a] = t.info[a]
    <2>1. PICK e \in Entry : e = t.info[a] BY <1>0 DEF Shape
    <2>2. PICK n : n = CHOOSE m \in DOMAIN t.random : t.random[m] = a OBVIOUS
    <2>3. e.nRandomPos \in DOMAIN t.random /\ t.random[e.nRandomPos] = a
          BY <1>0, <2>1 DEF RandomAgrees
    <2>4. n \in DOMAIN t.random /\ t.random[n] = a BY <2>2, <2>3
    <2>5. n = e.nRandomPos BY <1>0, <2>1, <2>4, PositionUnique
    <2>6. PICK x : x = (a \in f.tried) OBVIOUS
    <2>7. x \in BOOLEAN BY <2>6
    <2>8. e.fInTried = x
        <3>1. e.fInTried \in BOOLEAN BY EntryFields
        <3>2. e.fInTried <=> a \in f.tried BY <1>2, <2>1 DEF InTried
        <3> QED BY <2>6, <2>7, <3>1, <3>2
    <2>9. e = [source |-> f.source[a], fInTried |-> x,
               nRefCount |-> Cardinality(Places(t.vvNew, a)), nRandomPos |-> n]
        <3>1. e.source = f.source[a] /\ e.nRefCount = Cardinality(Places(t.vvNew, a))
              BY <1>2, <1>9, <2>1
        <3> QED BY ONLY <2>5, <2>8, <3>1, e \in Entry DEF Entry
    <2> QED BY <2>1, <2>2, <2>6, <2>9
<1>14. t.info \in [DOMAIN t.info -> Entry] BY <1>0 DEF Shape
<1>15. t.info = [a \in DOMAIN t.info |->
           [source |-> f.source[a], fInTried |-> a \in f.tried,
            nRefCount |-> Cardinality(Places(t.vvNew, a)),
            nRandomPos |-> CHOOSE n \in DOMAIN t.random : t.random[n] = a]]
       BY <1>13, <1>14
<1>16. Unserialize(f, rank, t.random) =
           [vvNew |-> t.vvNew, vvTried |-> t.vvTried, random |-> t.random,
            nNew |-> t.nNew, nTried |-> t.nTried, info |-> t.info]
    <2>1. Unserialize(f, rank, t.random) =
           [vvNew |-> t.vvNew, vvTried |-> t.vvTried, random |-> t.random,
            nNew |-> f.nNew - Cardinality(f.entries \ Untried(t)),
            nTried |-> f.nTried - Cardinality(f.tried \ InTried(t)),
            info |-> [a \in DOMAIN t.info |->
               [source |-> f.source[a], fInTried |-> a \in f.tried,
                nRefCount |-> Cardinality(Places(t.vvNew, a)),
                nRandomPos |-> CHOOSE n \in DOMAIN t.random : t.random[n] = a]]]
          BY <1>7, <1>8, <1>10, <1>11 DEF Unserialize
    <2> QED BY <1>12, <1>15, <2>1
<1>17. IsTables(t) BY <1>0 DEF Shape
<1> QED BY <1>1, <1>16, <1>17 DEF IsTables

-----------------------------------------------------------------------------
(* The specification.                                                       *)

\* Between two calls every entry has a place, everything agrees, and peers.dat
\* can be read or is known to be unreadable.
AddrInv ==
    /\ Whole(addrman, {}) /\ Loose(addrman) = {}
    /\ FileOK(peersDat)
    /\ addrUp \in BOOLEAN /\ calls \in 0..MaxCalls

\* The empty tables agree.
LEMMA ClearedSound == Whole(Cleared, {}) /\ Loose(Cleared) = {}
<1>1. PICK t : t = Cleared OBVIOUS
<1>2. /\ t.info = <<>> /\ t.random = <<>> /\ t.nNew = 0 /\ t.nTried = 0 /\ IsTables(t)
      /\ t.vvNew = [s \in NewSlots |-> Empty] /\ t.vvTried = [s \in TriedSlots |-> Empty]
      BY <1>1 DEF Cleared, IsTables
<1>3. DOMAIN t.info = {} /\ Len(t.random) = 0 /\ t.random \in Seq(Addresses) BY <1>2
<1>4. Untried(t) = {} /\ InTried(t) = {} BY <1>3 DEF Untried, InTried
<1>5. Cardinality({}) = 0 BY FS_EmptySet
<1>6. Shape(t) BY <1>2, <1>3 DEF Shape
<1>7. RandomAgrees(t) BY <1>3, <1>5 DEF RandomAgrees
<1>8. Counts(t, {}) BY <1>2, <1>4, <1>5 DEF Counts
<1>9. RefsOK(t) BY <1>2, <1>3 DEF RefsOK
<1>10. TriedOK(t) BY <1>2, <1>4 DEF TriedOK
<1>11. Loose(t) = {} BY <1>4 DEF Loose
<1> QED BY <1>1, <1>6, <1>7, <1>8, <1>9, <1>10, <1>11 DEF Whole

\* A peers.dat of another version can be read.
LEMMA OlderFilesOK == \A f \in OlderFiles : FileOK(f)
<1>1. SUFFICES ASSUME NEW f \in OlderFiles PROVE FileOK(f) OBVIOUS
<1>2. f \in Foreign /\ f.entries \cap f.tried = {}
      /\ f.nNew = Cardinality(f.entries) /\ f.nTried = Cardinality(f.tried)
      BY AddrFiles
<1>3. /\ Fields \subseteq DOMAIN f /\ f.own = FALSE
      /\ f.entries \subseteq Addresses /\ f.tried \subseteq Addresses
      /\ f.source \in [Addresses -> Sources]
      BY <1>2 DEF Foreign, Fields
<1>4. \A a \in f.entries \cup f.tried : f.source[a] \in Sources BY <1>3
<1> QED BY <1>2, <1>3, <1>4 DEF FileOK

\* The first start.
LEMMA AddrInitially == AddrManInit => AddrInv
<1> SUFFICES ASSUME AddrManInit PROVE AddrInv OBVIOUS
<1>1. addrman = Cleared /\ addrUp = FALSE /\ calls = 0 /\ peersDat \in OlderFiles \cup {Unreadable}
      BY DEF AddrManInit
<1>2. FileOK(peersDat) BY <1>1, OlderFilesOK DEF FileOK
<1>3. Whole(addrman, {}) /\ Loose(addrman) = {} BY <1>1, ClearedSound
<1>4. addrUp \in BOOLEAN BY <1>1
<1>5. calls \in 0..MaxCalls
    <2>1. calls = 0 BY <1>1
    <2> QED BY ONLY <2>1, AddrLimit
<1> QED BY <1>2, <1>3, <1>4, <1>5 DEF AddrInv

\* A call changes the tables only.
LEMMA CallKeeps ==
    ASSUME AddrInv, Call, Whole(addrman', {}), Loose(addrman') = {}
    PROVE  AddrInv'
BY AddrLimit DEF AddrInv, Call

\* Every action.
LEMMA AddrStep == AddrInv /\ [AddrManNext]_addrVars => AddrInv'
<1> SUFFICES ASSUME AddrInv, [AddrManNext]_addrVars PROVE AddrInv' OBVIOUS
<1>0. /\ Whole(addrman, {}) /\ Loose(addrman) = {} /\ FileOK(peersDat)
      /\ addrUp \in BOOLEAN /\ calls \in 0..MaxCalls
      BY DEF AddrInv
<1>1. \A a : Found(addrman, a) /\ ~addrman.info[a].fInTried => a \in Untried(addrman)
      BY DEF Found, Untried
<1>2. ASSUME NEW a \in Addresses, NEW source \in Sources, AddKnown(a, source)
      PROVE  AddrInv'
    <2>1. PICK terrible \in BOOLEAN : addrman' = Placed(addrman, a, source, terrible)
          BY <1>2 DEF AddKnown
    <2>2. a \in Untried(addrman) /\ addrman.info[a].nRefCount # MaxRefs /\ Call
          BY <1>1, <1>2 DEF AddKnown
    <2>3. Loose(addrman) \subseteq {a} BY <1>0
    <2>4. Whole(addrman', {}) /\ Loose(addrman') = {} BY <1>0, <2>1, <2>2, <2>3, PlacedSound
    <2> QED BY <2>2, <2>4, CallKeeps
<1>3. ASSUME NEW a \in Addresses, NEW source \in Sources, AddUnknown(a, source)
      PROVE  AddrInv'
    <2>1. PICK t : t = Created(addrman, a, source) OBVIOUS
    <2>2. PICK terrible \in BOOLEAN : addrman' = Placed(t, a, source, terrible)
          BY <1>3, <2>1 DEF AddUnknown, Created
    <2>3. Call /\ a \in Addresses \ DOMAIN addrman.info BY <1>3 DEF AddUnknown, Found
    <2>4. /\ Whole(t, {}) /\ Loose(t) \subseteq Loose(addrman) \cup {a}
          /\ a \in Untried(t) /\ t.info[a].nRefCount = 0
        <3>1. Whole(addrman, {}) BY <1>0
        <3>2. a \in Addresses \ DOMAIN addrman.info BY <2>3
        <3> QED BY ONLY <2>1, <3>1, <3>2, CreateSound, source \in Sources
    <2>5. Loose(t) \subseteq {a} BY <1>0, <2>4
    <2>6. t.info[a].nRefCount # MaxRefs BY <2>4, AddrLimit
    <2>7. Whole(addrman', {}) /\ Loose(addrman') = {} BY <2>2, <2>4, <2>5, <2>6, PlacedSound
    <2> QED BY <2>3, <2>7, CallKeeps
<1>4. ASSUME NEW a \in Addresses, Good(a) PROVE AddrInv'
    <2>1. Call /\ a \in Untried(addrman) /\ addrman' = MakeTried(addrman, a)
          BY <1>1, <1>4 DEF Good
    <2>2. Whole(addrman', {}) /\ Loose(addrman') = {} BY <1>0, <2>1, MakeTriedSound
    <2> QED BY <2>1, <2>2, CallKeeps
<1>5. ASSUME GetAddr PROVE AddrInv'
    <2>1. PICK q \in Orders(Len(addrman.random)) : Call /\ addrman' = Reordered(addrman, q)
          BY <1>5 DEF GetAddr
    <2>2. Whole(addrman', {}) /\ Loose(addrman') = {} BY <1>0, <2>1, ReorderedSound
    <2> QED BY <2>1, <2>2, CallKeeps
<1>6. ASSUME Start PROVE AddrInv'
    <2>1. addrUp' = TRUE /\ calls' = 0 /\ peersDat' = peersDat BY <1>6 DEF Start
    <2>2. Whole(addrman', {}) /\ Loose(addrman') = {}
        <3>1. CASE peersDat = Unreadable /\ addrman' = addrman BY <1>0, <3>1
        <3>2. CASE /\ peersDat # Unreadable
                   /\ \E rank \in Ranks : \E random \in Arrangements(Survivors(peersDat, rank)) :
                          addrman' = Unserialize(peersDat, rank, random)
              BY <1>0, <3>2, UnserializeSound
        <3> QED BY <1>6, <3>1, <3>2 DEF Start
    <2> QED BY <1>0, <2>1, <2>2, AddrLimit DEF AddrInv
<1>7. ASSUME DumpAddresses PROVE AddrInv'
    <2>1. /\ peersDat' \in {Serialize(addrman), peersDat, Unreadable}
          /\ calls' \in {0, calls} /\ addrman' = addrman /\ addrUp' = addrUp
          BY <1>7 DEF DumpAddresses
    <2>2. FileOK(peersDat')
        <3>1. FileOK(Serialize(addrman)) BY <1>0, SerializeOK
        <3>2. FileOK(Unreadable) BY DEF FileOK
        <3> QED BY <1>0, <2>1, <3>1, <3>2
    <2> QED BY <1>0, <2>1, <2>2, AddrLimit DEF AddrInv
<1>8. ASSUME DumpWritten PROVE AddrInv'
    <2>1. /\ peersDat # Unreadable /\ peersDat' = [peersDat EXCEPT !.complete = TRUE]
          /\ addrman' = addrman /\ addrUp' = addrUp /\ calls' = calls
          BY <1>8 DEF DumpWritten, BeingWritten
    <2>2. PICK f : f = peersDat OBVIOUS
    <2>3. PICK g : g = [f EXCEPT !.complete = TRUE] OBVIOUS
    <2>4. FileOK(f) /\ f # Unreadable BY <1>0, <2>1, <2>2
    <2>5. Fields \subseteq DOMAIN f /\ (f.own => "buckets" \in DOMAIN f) BY <2>4 DEF FileOK
    <2>6. /\ DOMAIN g = DOMAIN f /\ g.own = f.own /\ g.entries = f.entries /\ g.tried = f.tried
          /\ g.source = f.source /\ g.nNew = f.nNew /\ g.nTried = f.nTried
          BY <2>3, <2>5 DEF Fields
    <2>7. f.own => g.buckets = f.buckets BY <2>3, <2>5
    <2>8. FileOK(g) BY <2>4, <2>6, <2>7 DEF FileOK
    <2> QED BY <1>0, <2>1, <2>2, <2>3, <2>8 DEF AddrInv
<1>9. ASSUME ProcessEnds PROVE AddrInv'
    <2>1. /\ addrUp' = FALSE /\ addrman' = Cleared /\ calls' = 0
          /\ peersDat' = IF BeingWritten THEN Unreadable ELSE peersDat
          BY <1>9 DEF ProcessEnds
    <2>2. FileOK(peersDat')
        <3>1. CASE BeingWritten BY <2>1, <3>1 DEF FileOK
        <3>2. CASE ~BeingWritten BY <1>0, <2>1, <3>2
        <3> QED BY <3>1, <3>2
    <2>3. Whole(addrman', {}) /\ Loose(addrman') = {} BY <2>1, ClearedSound
    <2>4. addrUp' \in BOOLEAN BY <2>1
    <2>5. calls' \in 0..MaxCalls
        <3>1. calls' = 0 BY <2>1
        <3> QED BY ONLY <3>1, AddrLimit
    <2> QED BY <2>2, <2>3, <2>4, <2>5 DEF AddrInv
<1>10. CASE UNCHANGED addrVars
    <2>1. addrman' = addrman /\ peersDat' = peersDat /\ addrUp' = addrUp /\ calls' = calls
          BY <1>10 DEF addrVars
    <2> QED BY <1>0, <2>1 DEF AddrInv
<1> QED BY <1>2, <1>3, <1>4, <1>5, <1>6, <1>7, <1>8, <1>9, <1>10 DEF AddrManNext

\* The invariant of the address manager, for any hash, any number of buckets,
\* positions and references, and any peers.dat it starts with.
THEOREM AddrManInvariant == AddrManSpec => []AddrInv
<1>1. AddrManInit => AddrInv BY AddrInitially
<1>2. AddrInv /\ [AddrManNext]_addrVars => AddrInv' BY AddrStep
<1> QED BY <1>1, <1>2, PTL DEF AddrManSpec

\* The tables hold addresses, and counts and positions are natural numbers: no
\* reference count is taken below zero (ClearNew and MakeTried, addrman.cpp).
THEOREM AddrManTypeCorrect == AddrManSpec => []AddrManTypeOK
<1>1. AddrInv => AddrManTypeOK
    <2> SUFFICES ASSUME AddrInv PROVE AddrManTypeOK OBVIOUS
    <2>1. Shape(addrman) /\ Counts(addrman, {}) BY DEF AddrInv, Whole
    <2>2. addrman.nNew \in Nat /\ addrman.nTried \in Nat
          BY <2>1, FiniteParts, FS_CardinalityType DEF Counts
    <2> QED BY <2>1, <2>2 DEF AddrManTypeOK, AddrInv, Shape, Entry
<1> QED BY <1>1, AddrManInvariant, PTL

\* Whatever was added, tried, evicted, read or lost, all that Check_ verifies
\* (addrman.cpp:374) holds between two calls.
THEOREM TablesAlwaysAgree == AddrManSpec => []TablesAgree
<1>1. AddrInv => TablesAgree
    <2> SUFFICES ASSUME AddrInv PROVE TablesAgree OBVIOUS
    <2>1. /\ Shape(addrman) /\ RandomAgrees(addrman) /\ Counts(addrman, {})
          /\ RefsOK(addrman) /\ TriedOK(addrman) /\ Whole(addrman, {}) /\ Loose(addrman) = {}
          BY DEF AddrInv, Whole
    <2>2. TriedAgrees(addrman)
        <3>1. \A a : Tried(addrman, a) <=> a \in InTried(addrman) BY DEF Tried, Found, InTried
        <3> QED BY <2>1, <3>1 DEF TriedAgrees, Counts, TriedOK, InTried
    <2>3. NewAgrees(addrman)
        <3>1. Untried(addrman) \ {} = {a \in DOMAIN addrman.info : ~addrman.info[a].fInTried}
              BY DEF Untried
        <3>2. addrman.nNew = Cardinality({a \in DOMAIN addrman.info : ~addrman.info[a].fInTried})
              BY <2>1, <3>1 DEF Counts
        <3>3. ASSUME NEW a \in DOMAIN addrman.info, ~addrman.info[a].fInTried
              PROVE  /\ addrman.info[a].nRefCount \in 1..MaxRefs
                     /\ addrman.info[a].nRefCount = Cardinality(BucketsOf(addrman, a))
            <4>1. addrman.info[a].nRefCount # 0 BY <2>1, <3>3 DEF Loose, Untried
            <4>2. addrman.info[a].nRefCount \in Nat BY <2>1, EntryFields DEF Shape
            <4> QED BY <2>1, <4>1, <4>2, AddrLimit DEF RefsOK
        <3>4. ASSUME NEW s \in NewSlots, addrman.vvNew[s] # Empty
              PROVE  /\ Found(addrman, addrman.vvNew[s]) /\ ~Tried(addrman, addrman.vvNew[s])
                     /\ s = Slot(addrman.vvNew[s], s[1])
            <4>1. addrman.vvNew[s] \in Untried(addrman) BY <2>1, <3>4, Placeholder
            <4>2. s = Slot(addrman.vvNew[s], s[1]) BY <2>1, <3>4 DEF RefsOK
            <4> QED BY <4>1, <4>2 DEF Found, Tried, Untried
        <3> QED BY <3>2, <3>3, <3>4 DEF NewAgrees
    <2> QED BY <2>1, <2>2, <2>3 DEF TablesAgree
<1> QED BY <1>1, AddrManInvariant, PTL

\* At any time a dump would be read back as the very tables it was made from,
\* though neither vvTried nor the reference counts are in it (addrman.h:319).
THEOREM DumpAlwaysRestores == AddrManSpec => []DumpRestores
<1>1. AddrInv => DumpRestores BY Restored DEF AddrInv, DumpRestores
<1> QED BY <1>1, AddrManInvariant, PTL

-----------------------------------------------------------------------------
(* Block download.  mapBlocksInFlight and the lists of the peers are two   *)
(* views of the same requests.                                             *)
(*                                                                         *)
(* RequestsAgree and the types are almost inductive: what is missing is    *)
(* that genesis has its data (so that there is a tip, and an ancestor in   *)
(* common).  The loops of FindNextBlocksToDownload and of SendMessages are *)
(* where the work is: what is found names peers that are there, and is no  *)
(* more than the peer may still be asked; and each block that is asked for *)
(* leaves the list it was in, if any, before it enters the new one.        *)

Slots == [DlPeers -> PeerStates \cup {Nobody}]
Holders == [DlBlocks -> DlPeers \cup {Nobody}]
RequestSets == [peer : Slots, holder : Holders, queued : Int]

\* A block is held by p just when it is in the list of p, and once.
AgreeOn(pr, hl) ==
    /\ pr \in Slots /\ hl \in Holders
    /\ \A q \in DlPeers : pr[q] # Nobody => IsInjective(pr[q].flight)
    /\ \A c \in DlBlocks, q \in DlPeers :
          hl[c] = q <=> pr[q] # Nobody /\ Contains(pr[q].flight, c)

\* At most n requests of p, as many as allowed of any other.
Within(pr, p, n) ==
    \A q \in DlPeers : pr[q] # Nobody =>
        Len(pr[q].flight) <= IF q = p THEN n ELSE MaxInTransit

\* The same peers, with the same preferences.
SamePeers(pr, qr) ==
    \A q \in DlPeers : /\ qr[q] = Nobody <=> pr[q] = Nobody
                       /\ pr[q] # Nobody => qr[q].pref = pr[q].pref

Preferred(pr) == {q \in DlPeers : pr[q] # Nobody /\ pr[q].pref}

DownloadInv ==
    /\ index \in [DlBlocks -> {"absent", "header", "data", "failed"}]
    /\ index[Origin] = "data" /\ dlTip \in DlBlocks
    /\ AgreeOn(peer, holder) /\ Within(peer, Nobody, 0)
    /\ nPreferredDownload = Cardinality(Preferred(peer))
    /\ nQueuedValidatedHeaders \in Int

-----------------------------------------------------------------------------
(* Lists of requests                                                        *)

\* A block is taken from a list, and the rest of the list is as it was.
LEMMA WithoutBlockFacts ==
    ASSUME NEW flight \in Seq(DlBlocks), IsInjective(flight),
           NEW b, Contains(flight, b), NEW w, w = WithoutBlock(flight, b)
    PROVE  /\ w \in Seq(DlBlocks) /\ Len(w) = Len(flight) - 1 /\ IsInjective(w)
           /\ \A c \in DlBlocks : Contains(w, c) <=> Contains(flight, c) /\ c # b
<1>1. Len(flight) \in Nat /\ DOMAIN flight = 1..Len(flight)
      /\ \A j \in 1..Len(flight) : flight[j] \in DlBlocks
      BY LenProperties
<1>2. PICK i : i = CHOOSE j \in DOMAIN flight : flight[j] = b OBVIOUS
<1>3. i \in 1..Len(flight) /\ flight[i] = b BY <1>1, <1>2 DEF Contains
<1>4. PICK n \in Nat : n = Len(flight) BY <1>1
<1>5. PICK s : s = SubSeq(flight, 1, i - 1) OBVIOUS
<1>6. PICK t : t = SubSeq(flight, i + 1, n) OBVIOUS
<1>7. s \in Seq(DlBlocks) /\ Len(s) = i - 1 /\ \A j \in 1..i - 1 : s[j] = flight[j]
    <2>1. \A j \in 1..i - 1 : flight[j] \in DlBlocks BY <1>1, <1>3
    <2>2. 1 \in Int /\ i - 1 \in Int BY <1>3
    <2>3. /\ SubSeq(flight, 1, i - 1) \in Seq(DlBlocks)
          /\ Len(SubSeq(flight, 1, i - 1)) = IF 1 <= i - 1 THEN (i - 1) - 1 + 1 ELSE 0
          /\ \A j \in 1..(i - 1) - 1 + 1 : SubSeq(flight, 1, i - 1)[j] = flight[1 + j - 1]
          BY <2>1, <2>2, SubSeqProperties
    <2> QED BY <1>3, <1>5, <2>3
<1>8. t \in Seq(DlBlocks) /\ Len(t) = n - i /\ \A j \in 1..n - i : t[j] = flight[i + j]
    <2>1. \A j \in i + 1..n : flight[j] \in DlBlocks BY <1>1, <1>3, <1>4
    <2>2. i + 1 \in Int /\ n \in Int BY <1>3
    <2>3. /\ SubSeq(flight, i + 1, n) \in Seq(DlBlocks)
          /\ Len(SubSeq(flight, i + 1, n)) = IF i + 1 <= n THEN n - (i + 1) + 1 ELSE 0
          /\ \A j \in 1..n - (i + 1) + 1 : SubSeq(flight, i + 1, n)[j] = flight[i + 1 + j - 1]
          BY <2>1, <2>2, SubSeqProperties
    <2> QED BY <1>3, <1>4, <1>6, <2>3
<1>9. w = s \o t BY <1>2, <1>4, <1>5, <1>6 DEF WithoutBlock, RemoveAt
<1>10. /\ w \in Seq(DlBlocks) /\ Len(w) = Len(s) + Len(t)
       /\ \A j \in 1..Len(s) + Len(t) : w[j] = IF j <= Len(s) THEN s[j] ELSE t[j - Len(s)]
    <2>1. s \in Seq(DlBlocks) /\ t \in Seq(DlBlocks) BY <1>7, <1>8
    <2> QED BY ONLY <1>9, <2>1, ConcatProperties
<1>11. Len(w) = n - 1 /\ DOMAIN w = 1..n - 1
    <2>1. Len(s) + Len(t) = n - 1 BY <1>3, <1>4, <1>7, <1>8
    <2>2. DOMAIN w = 1..Len(w) BY <1>10, LenProperties
    <2> QED BY <1>10, <2>1, <2>2
<1>12. ASSUME NEW j \in 1..n - 1 PROVE w[j] = flight[IF j < i THEN j ELSE j + 1]
    <2>1. j \in 1..Len(s) + Len(t) BY <1>3, <1>4, <1>7, <1>8
    <2>2. CASE j < i
        <3>1. j \in 1..i - 1 /\ j <= Len(s) BY <1>7, <2>2, <1>3
        <3> QED BY <1>7, <1>10, <2>1, <2>2, <3>1
    <2>3. CASE ~(j < i)
        <3>1. j - Len(s) \in 1..n - i /\ ~(j <= Len(s)) /\ i + (j - Len(s)) = j + 1
              BY <1>3, <1>4, <1>7, <2>3
        <3> QED BY <1>8, <1>10, <2>1, <2>3, <3>1
    <2> QED BY <2>2, <2>3
<1>13. IsInjective(w)
    <2> SUFFICES ASSUME NEW j \in 1..n - 1, NEW k \in 1..n - 1, w[j] = w[k] PROVE j = k
        BY <1>11 DEF IsInjective
    <2>1. PICK x \in 1..n : x = IF j < i THEN j ELSE j + 1 OBVIOUS
    <2>2. PICK y \in 1..n : y = IF k < i THEN k ELSE k + 1 OBVIOUS
    <2>3. flight[x] = flight[y] BY <1>12, <2>1, <2>2
    <2>4. x = y BY <1>1, <1>4, <2>3 DEF IsInjective
    <2> QED BY <1>3, <2>1, <2>2, <2>4
<1>14. ASSUME NEW c \in DlBlocks PROVE Contains(w, c) <=> Contains(flight, c) /\ c # b
    <2>1. ASSUME Contains(w, c) PROVE Contains(flight, c) /\ c # b
        <3>1. PICK j \in 1..n - 1 : w[j] = c BY <1>11, <2>1 DEF Contains
        <3>2. PICK x \in 1..n : x = IF j < i THEN j ELSE j + 1 OBVIOUS
        <3>3. flight[x] = c /\ x # i BY <1>3, <1>12, <3>1, <3>2
        <3> QED BY <1>1, <1>3, <1>4, <3>3 DEF Contains, IsInjective
    <2>2. ASSUME Contains(flight, c), c # b PROVE Contains(w, c)
        <3>1. PICK x \in 1..n : flight[x] = c BY <1>4, <2>2 DEF Contains
        <3>2. x # i BY <1>3, <2>2, <3>1
        <3>3. PICK j \in 1..n - 1 : x = IF j < i THEN j ELSE j + 1
            <4>1. CASE x < i BY <1>3, <1>4, <4>1
            <4>2. CASE x > i
                <5>1. x - 1 \in 1..n - 1 /\ ~(x - 1 < i) /\ x = (x - 1) + 1
                      BY <1>3, <4>2
                <5> QED BY <5>1
            <4> QED BY <1>3, <3>2, <4>1, <4>2
        <3>4. w[j] = c BY <1>12, <3>1, <3>3
        <3> QED BY <1>11, <3>4 DEF Contains
    <2> QED BY <2>1, <2>2
<1> QED BY <1>4, <1>10, <1>11, <1>13, <1>14

LEMMA AppendFacts ==
    ASSUME NEW flight \in Seq(DlBlocks), IsInjective(flight),
           NEW b \in DlBlocks, ~Contains(flight, b), NEW w, w = Append(flight, b)
    PROVE  /\ w \in Seq(DlBlocks) /\ Len(w) = Len(flight) + 1 /\ IsInjective(w)
           /\ \A c \in DlBlocks : Contains(w, c) <=> Contains(flight, c) \/ c = b
<1>1. PICK n \in Nat : n = Len(flight) BY LenProperties
<1>2. /\ w \in Seq(DlBlocks) /\ Len(w) = n + 1 /\ DOMAIN w = 1..n + 1
      /\ w[n + 1] = b /\ \A j \in 1..n : w[j] = flight[j]
      BY <1>1
<1>3. DOMAIN flight = 1..n BY <1>1, LenProperties
<1>4. \A j \in 1..n : flight[j] # b BY <1>1 DEF Contains
<1>5. IsInjective(w)
    <2> SUFFICES ASSUME NEW j \in 1..n + 1, NEW k \in 1..n + 1, w[j] = w[k] PROVE j = k
        BY <1>2 DEF IsInjective
    <2>1. CASE j \in 1..n /\ k \in 1..n BY <1>2, <1>3, <2>1 DEF IsInjective
    <2>2. CASE j = n + 1 \/ k = n + 1 BY <1>2, <1>4, <2>2
    <2> QED BY <2>1, <2>2
<1>6. ASSUME NEW c \in DlBlocks PROVE Contains(w, c) <=> Contains(flight, c) \/ c = b
    <2>1. ASSUME Contains(w, c) PROVE Contains(flight, c) \/ c = b
        <3>1. PICK j \in 1..n + 1 : w[j] = c BY <1>2, <2>1 DEF Contains
        <3> QED BY <1>1, <1>2, <3>1 DEF Contains
    <2>2. ASSUME Contains(flight, c) PROVE Contains(w, c)
        <3>1. PICK j \in 1..n : flight[j] = c BY <1>1, <2>2 DEF Contains
        <3> QED BY <1>2, <3>1 DEF Contains
    <2>3. ASSUME c = b PROVE Contains(w, c)
        <3>1. n + 1 \in 1..Len(w) BY <1>2
        <3> QED BY <1>2, <2>3, <3>1 DEF Contains
    <2> QED BY <2>1, <2>2, <2>3
<1> QED BY <1>1, <1>2, <1>5, <1>6

-----------------------------------------------------------------------------
(* Marking requests                                                         *)

LEMMA StateFields ==
    ASSUME NEW s \in PeerStates
    PROVE  /\ s = [pref |-> s.pref, best |-> s.best, unknown |-> s.unknown,
                   common |-> s.common, flight |-> s.flight, overdue |-> s.overdue,
                   stalling |-> s.stalling, disconnect |-> s.disconnect]
           /\ s.pref \in BOOLEAN /\ s.best \in DlBlocks \cup {NoBlock}
           /\ s.unknown \in DlBlocks \cup {NoBlock} /\ s.common \in DlBlocks \cup {NoBlock}
           /\ s.flight \in Seq(DlBlocks) /\ s.overdue \in BOOLEAN
           /\ s.stalling \in 0..2 /\ s.disconnect \in BOOLEAN
BY DEF PeerStates

\* What is written to a peer other than its list.
LEMMA TouchKeeps ==
    ASSUME NEW pr, NEW hl, AgreeOn(pr, hl), NEW p \in DlPeers, pr[p] # Nobody,
           NEW x \in PeerStates, x.flight = pr[p].flight, NEW qr, qr = [pr EXCEPT ![p] = x]
    PROVE  /\ AgreeOn(qr, hl)
           /\ \A r, n : Within(pr, r, n) => Within(qr, r, n)
           /\ x.pref = pr[p].pref => SamePeers(pr, qr)
<1>0. x # Nobody BY DownloadNobody
<1>1. pr \in Slots BY DEF AgreeOn
<1>2. qr \in Slots /\ \A q \in DlPeers : qr[q] = IF q = p THEN x ELSE pr[q]
      BY <1>1 DEF Slots
<1>3. AgreeOn(qr, hl) BY <1>0, <1>2 DEF AgreeOn
<1>4. ASSUME NEW r, NEW n, Within(pr, r, n) PROVE Within(qr, r, n)
      BY <1>0, <1>2, <1>4 DEF Within
<1>5. x.pref = pr[p].pref => SamePeers(pr, qr) BY <1>0, <1>2 DEF SamePeers
<1> QED BY <1>3, <1>4, <1>5

\* MarkBlockAsReceived: nobody holds the block any more.
LEMMA ReceivedKeeps ==
    ASSUME NEW d \in RequestSets, AgreeOn(d.peer, d.holder), NEW b \in DlBlocks,
           NEW e, e = MarkBlockAsReceived(d, b)
    PROVE  /\ e \in RequestSets /\ AgreeOn(e.peer, e.holder) /\ e.holder[b] = Nobody
           /\ SamePeers(d.peer, e.peer)
           /\ \A r : \A n \in Int : Within(d.peer, r, n) => Within(e.peer, r, n)
<1>1. PICK pr : pr = d.peer OBVIOUS
<1>2. PICK hl : hl = d.holder OBVIOUS
<1>3. PICK p : p = hl[b] OBVIOUS
<1>4. pr \in Slots /\ hl \in Holders /\ p \in DlPeers \cup {Nobody} /\ d.queued \in Int
      BY <1>1, <1>2, <1>3 DEF RequestSets, Holders
<1>5. CASE p = Nobody
    <2>1. e = d BY <1>2, <1>3, <1>5 DEF MarkBlockAsReceived
    <2> QED BY <1>2, <1>3, <1>5, <2>1 DEF SamePeers
<1>6. CASE p # Nobody
  <2>0. p \in DlPeers BY <1>4, <1>6
  <2>1. PICK s : s = pr[p] OBVIOUS
  <2>2. s # Nobody /\ Contains(s.flight, b) /\ IsInjective(s.flight)
        BY <1>1, <1>2, <1>3, <2>0, <2>1 DEF AgreeOn
  <2>3. s \in PeerStates BY <1>4, <2>0, <2>1, <2>2 DEF Slots
  <2>4. PICK w : w = WithoutBlock(s.flight, b) OBVIOUS
  <2>5. s.flight \in Seq(DlBlocks) BY <2>3, StateFields
  <2>6. /\ w \in Seq(DlBlocks) /\ Len(w) = Len(s.flight) - 1 /\ IsInjective(w)
        /\ \A c \in DlBlocks : Contains(w, c) <=> Contains(s.flight, c) /\ c # b
        BY <2>2, <2>4, <2>5, WithoutBlockFacts
  <2>7. PICK x : x = [pref |-> s.pref, best |-> s.best, unknown |-> s.unknown,
                      common |-> s.common, flight |-> w,
                      overdue |-> (s.overdue /\ Head(s.flight) # b),
                      stalling |-> 0, disconnect |-> s.disconnect]
        OBVIOUS
  <2>8. x \in PeerStates BY <2>3, <2>6, <2>7, StateFields DEF PeerStates
  <2>9. x # Nobody BY <2>8, DownloadNobody
  <2>10. PICK qr : qr = [pr EXCEPT ![p] = x] OBVIOUS
  <2>11. PICK gl : gl = [hl EXCEPT ![b] = Nobody] OBVIOUS
  <2>12. qr \in Slots /\ \A q \in DlPeers : qr[q] = IF q = p THEN x ELSE pr[q]
         BY <1>4, <2>8, <2>10 DEF Slots
  <2>13. gl \in Holders /\ \A c \in DlBlocks : gl[c] = IF c = b THEN Nobody ELSE hl[c]
         BY <1>4, <2>11 DEF Holders
  <2>14. e = [peer |-> qr, holder |-> gl, queued |-> d.queued - 1]
    <3>1. e = [peer |-> [d.peer EXCEPT ![p].flight = WithoutBlock(@, b), ![p].stalling = 0,
                         ![p].overdue = @ /\ Head(d.peer[p].flight) # b],
             holder |-> [d.holder EXCEPT ![b] = Nobody],
             queued |-> d.queued - 1]
          BY <1>2, <1>3, <1>6 DEF MarkBlockAsReceived
    <3>2. [d.peer EXCEPT ![p].flight = WithoutBlock(@, b), ![p].stalling = 0,
                         ![p].overdue = @ /\ Head(d.peer[p].flight) # b] = qr
          BY <1>1, <1>4, <2>0, <2>1, <2>3, <2>4, <2>7, <2>10, StateFields DEF Slots
    <3> QED BY <1>2, <2>11, <3>1, <3>2
  <2>15. e \in RequestSets /\ e.peer = qr /\ e.holder = gl
         BY <1>4, <2>12, <2>13, <2>14 DEF RequestSets
  <2>16. AgreeOn(qr, gl)
    <3>1. ASSUME NEW q \in DlPeers, qr[q] # Nobody PROVE IsInjective(qr[q].flight)
          BY <1>1, <2>6, <2>7, <2>12, <3>1 DEF AgreeOn
    <3>2. ASSUME NEW c \in DlBlocks, NEW q \in DlPeers
          PROVE  gl[c] = q <=> qr[q] # Nobody /\ Contains(qr[q].flight, c)
      <4>1. hl[c] = q <=> pr[q] # Nobody /\ Contains(pr[q].flight, c)
            BY <1>1, <1>2 DEF AgreeOn
      <4>2. Nobody # q BY DownloadNobody
      <4>3. CASE q = p
        <5>1. qr[q] # Nobody /\ qr[q].flight = w BY <2>7, <2>9, <2>12, <4>3
        <5>2. Contains(w, c) <=> Contains(pr[q].flight, c) /\ c # b
              BY <2>1, <2>6, <4>3
        <5> QED BY <2>1, <2>2, <2>13, <4>1, <4>2, <4>3, <5>1, <5>2
      <4>4. CASE q # p
        <5>1. qr[q] = pr[q] BY <2>12, <4>4
        <5>2. c = b => hl[c] # q BY <1>3, <4>4
        <5> QED BY <2>13, <4>1, <4>2, <5>1, <5>2
      <4> QED BY <4>3, <4>4
    <3> QED BY <2>12, <2>13, <3>1, <3>2 DEF AgreeOn
  <2>17. SamePeers(pr, qr)
         BY <2>1, <2>2, <2>7, <2>9, <2>12 DEF SamePeers
  <2>18. ASSUME NEW r, NEW n \in Int, Within(pr, r, n) PROVE Within(qr, r, n)
    <3> SUFFICES ASSUME NEW q \in DlPeers, qr[q] # Nobody
                 PROVE  Len(qr[q].flight) <= IF q = r THEN n ELSE MaxInTransit
        BY DEF Within
    <3>1. CASE q = p
      <4>1. Len(s.flight) \in Nat BY <2>5, LenProperties
      <4>2. Len(s.flight) <= IF q = r THEN n ELSE MaxInTransit
            BY <2>1, <2>2, <2>18, <3>1 DEF Within
      <4>3. qr[q].flight = w BY <2>7, <2>12, <3>1
      <4> QED BY <2>6, <4>1, <4>2, <4>3, DownloadLimits
    <3>2. CASE q # p BY <2>12, <2>18, <3>2 DEF Within
    <3> QED BY <3>1, <3>2
  <2> QED BY <1>1, <2>13, <2>15, <2>16, <2>17, <2>18
<1> QED BY <1>5, <1>6

\* MarkBlockAsInFlight: p holds the block, whoever held it before.
LEMMA InFlightKeeps ==
    ASSUME NEW d \in RequestSets, AgreeOn(d.peer, d.holder), NEW b \in DlBlocks,
           NEW p \in DlPeers, d.peer[p] # Nobody,
           NEW e, e = MarkBlockAsInFlight(d, p, b)
    PROVE  /\ e \in RequestSets /\ AgreeOn(e.peer, e.holder)
           /\ SamePeers(d.peer, e.peer)
           /\ \A n \in Int : Within(d.peer, p, n) => Within(e.peer, p, n + 1)
<1>1. PICK r : r = MarkBlockAsReceived(d, b) OBVIOUS
<1>2. /\ r \in RequestSets /\ AgreeOn(r.peer, r.holder) /\ r.holder[b] = Nobody
      /\ SamePeers(d.peer, r.peer)
      /\ \A n \in Int : Within(d.peer, p, n) => Within(r.peer, p, n)
      BY <1>1, ReceivedKeeps
<1>3. PICK pr : pr = r.peer OBVIOUS
<1>4. PICK hl : hl = r.holder OBVIOUS
<1>5. PICK s : s = pr[p] OBVIOUS
<1>6. pr \in Slots /\ hl \in Holders /\ r.queued \in Int
      BY <1>2, <1>3, <1>4 DEF RequestSets
<1>7. s # Nobody BY <1>2, <1>3, <1>5 DEF SamePeers
<1>8. s \in PeerStates BY <1>5, <1>6, <1>7 DEF Slots
<1>9. s.flight \in Seq(DlBlocks) BY <1>8, StateFields
<1>10. IsInjective(s.flight) BY <1>2, <1>3, <1>5, <1>7 DEF AgreeOn
<1>11. ~Contains(s.flight, b)
    <2>1. p # Nobody BY DownloadNobody
    <2> QED BY <1>2, <1>3, <1>5, <1>7, <2>1 DEF AgreeOn
<1>12. PICK w : w = Append(s.flight, b) OBVIOUS
<1>13. /\ w \in Seq(DlBlocks) /\ Len(w) = Len(s.flight) + 1 /\ IsInjective(w)
       /\ \A c \in DlBlocks : Contains(w, c) <=> Contains(s.flight, c) \/ c = b
    <2>1. PICK f : f = s.flight OBVIOUS
    <2>2. f \in Seq(DlBlocks) /\ IsInjective(f) /\ ~Contains(f, b) /\ w = Append(f, b)
          BY <1>9, <1>10, <1>11, <1>12, <2>1
    <2>3. /\ w \in Seq(DlBlocks) /\ Len(w) = Len(f) + 1 /\ IsInjective(w)
          /\ \A c \in DlBlocks : Contains(w, c) <=> Contains(f, c) \/ c = b
          BY <2>2, AppendFacts
    <2> QED BY <2>1, <2>3
<1>14. PICK x : x = [pref |-> s.pref, best |-> s.best, unknown |-> s.unknown,
                     common |-> s.common, flight |-> w, overdue |-> s.overdue,
                     stalling |-> s.stalling, disconnect |-> s.disconnect]
       OBVIOUS
<1>15. x \in PeerStates BY <1>8, <1>13, <1>14, StateFields DEF PeerStates
<1>16. x # Nobody BY <1>15, DownloadNobody
<1>17. PICK qr : qr = [pr EXCEPT ![p] = x] OBVIOUS
<1>18. PICK gl : gl = [hl EXCEPT ![b] = p] OBVIOUS
<1>19. qr \in Slots /\ \A q \in DlPeers : qr[q] = IF q = p THEN x ELSE pr[q]
       BY <1>6, <1>15, <1>17 DEF Slots
<1>20. gl \in Holders /\ \A c \in DlBlocks : gl[c] = IF c = b THEN p ELSE hl[c]
       BY <1>6, <1>18 DEF Holders
<1>21. e = [peer |-> qr, holder |-> gl, queued |-> r.queued + 1]
    <2>1. e = [peer |-> [r.peer EXCEPT ![p].flight = Append(@, b)],
               holder |-> [r.holder EXCEPT ![b] = p],
               queued |-> r.queued + 1]
          BY <1>1 DEF MarkBlockAsInFlight
    <2>2. [r.peer EXCEPT ![p].flight = Append(@, b)] = qr
      <3>1. [s EXCEPT !.flight = w] = x BY <1>8, <1>14, StateFields
      <3>2. pr \in [DlPeers -> PeerStates \cup {Nobody}] BY <1>6 DEF Slots
      <3> QED BY ONLY <1>3, <1>5, <1>12, <1>17, <3>1, <3>2
    <2> QED BY <1>4, <1>18, <2>1, <2>2
<1>22. e \in RequestSets /\ e.peer = qr /\ e.holder = gl
       BY <1>6, <1>19, <1>20, <1>21 DEF RequestSets
<1>23. AgreeOn(qr, gl)
  <2>1. ASSUME NEW q \in DlPeers, qr[q] # Nobody PROVE IsInjective(qr[q].flight)
        BY <1>2, <1>3, <1>13, <1>14, <1>19, <2>1 DEF AgreeOn
  <2>2. ASSUME NEW c \in DlBlocks, NEW q \in DlPeers
        PROVE  gl[c] = q <=> qr[q] # Nobody /\ Contains(qr[q].flight, c)
    <3>1. hl[c] = q <=> pr[q] # Nobody /\ Contains(pr[q].flight, c)
          BY <1>2, <1>3, <1>4 DEF AgreeOn
    <3>2. CASE q = p
      <4>1. qr[q] # Nobody /\ qr[q].flight = w BY <1>14, <1>16, <1>19, <3>2
      <4>2. Contains(w, c) <=> Contains(pr[q].flight, c) \/ c = b
            BY <1>5, <1>13, <3>2
      <4> QED BY <1>5, <1>7, <1>20, <3>1, <3>2, <4>1, <4>2
    <3>3. CASE q # p
      <4>1. qr[q] = pr[q] BY <1>19, <3>3
      <4>2. c = b => hl[c] # q
        <5>1. Nobody # q BY DownloadNobody
        <5> QED BY <1>2, <1>4, <5>1
      <4> QED BY <1>20, <3>1, <3>3, <4>1, <4>2
    <3> QED BY <3>2, <3>3
  <2> QED BY <1>19, <1>20, <2>1, <2>2 DEF AgreeOn
<1>24. SamePeers(d.peer, qr)
  <2>1. SamePeers(pr, qr) BY <1>5, <1>7, <1>14, <1>16, <1>19 DEF SamePeers
  <2> QED BY <1>2, <1>3, <2>1 DEF SamePeers
<1>25. ASSUME NEW n \in Int, Within(d.peer, p, n) PROVE Within(qr, p, n + 1)
  <2> SUFFICES ASSUME NEW q \in DlPeers, qr[q] # Nobody
               PROVE  Len(qr[q].flight) <= IF q = p THEN n + 1 ELSE MaxInTransit
      BY DEF Within
  <2>1. Within(pr, p, n) BY <1>2, <1>3, <1>25
  <2>2. CASE q = p
    <3>1. Len(s.flight) \in Nat BY <1>9, LenProperties
    <3>2. Len(s.flight) <= n BY <1>5, <1>7, <2>1 DEF Within
    <3>3. qr[q].flight = w BY <1>14, <1>19, <2>2
    <3> QED BY <1>13, <2>2, <3>1, <3>2, <3>3
  <2>3. CASE q # p BY <1>19, <2>1, <2>3 DEF Within
  <2> QED BY <2>2, <2>3
<1> QED BY <1>22, <1>23, <1>24, <1>25

\* Asking p for blocks one by one.
LEMMA RequestedFacts ==
    ASSUME NEW d \in RequestSets, AgreeOn(d.peer, d.holder),
           NEW p \in DlPeers, d.peer[p] # Nobody,
           NEW blocks \in Seq(DlBlocks), NEW n \in Int, Within(d.peer, p, n),
           NEW e, e = Requested(d, p, blocks)[Len(blocks)]
    PROVE  /\ e \in RequestSets /\ AgreeOn(e.peer, e.holder) /\ SamePeers(d.peer, e.peer)
           /\ Within(e.peer, p, n + Len(blocks))
<1>1. PICK k \in Nat : k = Len(blocks) BY LenProperties
<1>2. \A i \in 1..k : blocks[i] \in DlBlocks BY <1>1, LenProperties
<1>3. PICK S : S = {x \in RequestSets : AgreeOn(x.peer, x.holder) /\ SamePeers(d.peer, x.peer)}
      OBVIOUS
<1>4. d \in S BY <1>3 DEF SamePeers
<1>5. ASSUME NEW x \in S, NEW i \in 1..k, NEW y, y = MarkBlockAsInFlight(x, p, blocks[i])
      PROVE  y \in S /\ \A m \in Int : Within(x.peer, p, m) => Within(y.peer, p, m + 1)
    <2>1. x \in RequestSets /\ AgreeOn(x.peer, x.holder) /\ SamePeers(d.peer, x.peer)
          BY <1>3
    <2>2. x.peer[p] # Nobody BY <2>1 DEF SamePeers
    <2>3. blocks[i] \in DlBlocks BY <1>2
    <2>4. /\ y \in RequestSets /\ AgreeOn(y.peer, y.holder) /\ SamePeers(x.peer, y.peer)
          /\ \A m \in Int : Within(x.peer, p, m) => Within(y.peer, p, m + 1)
          BY <1>5, <2>1, <2>2, <2>3, InFlightKeeps
    <2>5. SamePeers(d.peer, y.peer) BY <2>1, <2>4 DEF SamePeers
    <2> QED BY <1>3, <2>4, <2>5
<1>6. PICK step : step = [i \in 1..k |-> [x \in S |-> MarkBlockAsInFlight(x, p, blocks[i])]]
      OBVIOUS
<1>7. Steps(step, k, S) BY <1>5, <1>6 DEF Steps
<1>8. PICK f : IsFold(f, k, S, d, step) BY <1>4, <1>7, FoldExists
<1>9. f \in [0..k -> S] /\ f[0] = d /\ \A i \in 1..k : f[i] = step[i][f[i - 1]]
      BY <1>8 DEF IsFold
<1>10. \A i \in 1..k : f[i] = MarkBlockAsInFlight(f[i - 1], p, blocks[i])
    <2> SUFFICES ASSUME NEW i \in 1..k
                 PROVE  f[i] = MarkBlockAsInFlight(f[i - 1], p, blocks[i])
        OBVIOUS
    <2>1. f[i - 1] \in S BY <1>9
    <2> QED BY <1>6, <1>9, <2>1
<1>11. f = [i \in 0..k |-> IF i = 0 THEN d
                           ELSE MarkBlockAsInFlight(f[i - 1], p, blocks[i])]
      BY <1>9, <1>10
<1>12. PICK g : g = Requested(d, p, blocks) OBVIOUS
<1>13. g = [i \in 0..k |-> IF i = 0 THEN d
                           ELSE MarkBlockAsInFlight(g[i - 1], p, blocks[i])]
      BY <1>1, <1>11, <1>12 DEF Requested
<1>14. g[0] = d /\ \A i \in 1..k : g[i] = MarkBlockAsInFlight(g[i - 1], p, blocks[i])
    <2>1. 0 \in 0..k /\ \A i \in 1..k : i \in 0..k /\ i # 0 OBVIOUS
    <2> QED BY <1>13, <2>1
<1>15. PICK T : T = {i \in 0..k : g[i] \in S /\ Within(g[i].peer, p, n + i)} OBVIOUS
<1>16. 0 \in T BY <1>4, <1>14, <1>15
<1>17. ASSUME NEW i \in 1..k, i - 1 \in T PROVE i \in T
    <2>1. g[i - 1] \in S /\ Within(g[i - 1].peer, p, n + (i - 1)) BY <1>15, <1>17
    <2>2. g[i] \in S /\ \A m \in Int : Within(g[i - 1].peer, p, m) => Within(g[i].peer, p, m + 1)
          BY <1>5, <1>14, <2>1
    <2>3. n + (i - 1) \in Int /\ (n + (i - 1)) + 1 = n + i OBVIOUS
    <2>4. Within(g[i].peer, p, (n + (i - 1)) + 1) BY <2>1, <2>2, <2>3
    <2> QED BY <1>15, <2>2, <2>3, <2>4
<1>18. k \in T
    <2>1. \A i \in 0..k : i \in T BY <1>16, <1>17, StepByStep
    <2> QED BY <2>1
<1>19. e = g[k] BY <1>1, <1>12
<1> QED BY <1>1, <1>3, <1>15, <1>18, <1>19

-----------------------------------------------------------------------------
(* Finding blocks                                                           *)

\* What FindNextBlocksToDownload has found, of count blocks at most.
Finds(count) ==
    {f \in [common : DlBlocks \cup {NoBlock}, get : Seq(DlBlocks),
            waiting : DlPeers \cup {Nobody}, staller : DlPeers \cup {Nobody},
            done : BOOLEAN] :
        /\ f.waiting # Nobody => Connected(f.waiting)
        /\ f.staller # Nobody => Connected(f.staller)
        /\ Len(f.get) <= count /\ (~f.done => Len(f.get) < count)}

LEMMA VisitFinds ==
    ASSUME AgreeOn(peer, holder), NEW count \in Nat, NEW f \in Finds(count),
           NEW p, NEW b \in DlBlocks, NEW end, NEW g, g = Visit(f, p, b, end, count)
    PROVE  g \in Finds(count)
<1>1. /\ f = [common |-> f.common, get |-> f.get, waiting |-> f.waiting,
              staller |-> f.staller, done |-> f.done]
      /\ f.common \in DlBlocks \cup {NoBlock} /\ f.get \in Seq(DlBlocks)
      /\ f.waiting \in DlPeers \cup {Nobody} /\ f.staller \in DlPeers \cup {Nobody}
      /\ f.done \in BOOLEAN
      /\ f.waiting # Nobody => Connected(f.waiting)
      /\ f.staller # Nobody => Connected(f.staller)
      /\ Len(f.get) <= count /\ (~f.done => Len(f.get) < count)
      BY DEF Finds
<1>2. PICK n \in Nat : n = Len(f.get) BY <1>1, LenProperties
<1>3. /\ holder[b] \in DlPeers \cup {Nobody}
      /\ holder[b] # Nobody => Connected(holder[b])
      BY DEF AgreeOn, Holders, Connected
<1>4. ASSUME NEW common, common \in DlBlocks \cup {NoBlock}, NEW get, get \in Seq(DlBlocks),
             NEW waiting, waiting \in DlPeers \cup {Nobody},
             NEW staller, staller \in DlPeers \cup {Nobody}, NEW done, done \in BOOLEAN,
             waiting # Nobody => Connected(waiting),
             staller # Nobody => Connected(staller),
             Len(get) <= count, ~done => Len(get) < count,
             g = [common |-> common, get |-> get, waiting |-> waiting,
                  staller |-> staller, done |-> done]
      PROVE  g \in Finds(count)
      BY <1>4 DEF Finds
<1>5. CASE f.done \/ index[b] = "failed"
    <2>1. g = [f EXCEPT !.done = TRUE] BY <1>5 DEF Visit
    <2>2. g = [common |-> f.common, get |-> f.get, waiting |-> f.waiting,
               staller |-> f.staller, done |-> TRUE]
          BY <1>1, <2>1
    <2> QED BY <1>1, <1>4, <2>2
<1>6. CASE ~(f.done \/ index[b] = "failed") /\ index[b] = "data"
    <2>1. CASE HasChainTx(b, index)
        <3>1. g = [f EXCEPT !.common = b] BY <1>6, <2>1 DEF Visit
        <3>2. g = [common |-> b, get |-> f.get, waiting |-> f.waiting,
                   staller |-> f.staller, done |-> f.done]
              BY <1>1, <3>1
        <3> QED BY <1>1, <1>4, <3>2
    <2>2. CASE ~HasChainTx(b, index)
        <3>1. g = f BY <1>6, <2>2 DEF Visit
        <3> QED BY <3>1
    <2> QED BY <2>1, <2>2
<1>7. CASE /\ ~(f.done \/ index[b] = "failed") /\ index[b] # "data"
           /\ holder[b] # Nobody
    <2>1. CASE f.waiting = Nobody
        <3>1. g = [f EXCEPT !.waiting = holder[b]] BY <1>7, <2>1 DEF Visit
        <3>2. g = [common |-> f.common, get |-> f.get, waiting |-> holder[b],
                   staller |-> f.staller, done |-> f.done]
              BY <1>1, <3>1
        <3> QED BY <1>1, <1>3, <1>4, <3>2
    <2>2. CASE f.waiting # Nobody
        <3>1. g = f BY <1>7, <2>2 DEF Visit
        <3> QED BY <3>1
    <2> QED BY <2>1, <2>2
<1>8. CASE /\ ~(f.done \/ index[b] = "failed") /\ index[b] # "data"
           /\ ~(holder[b] # Nobody) /\ Height[b] > end
    <2>1. PICK x : x = IF f.get = <<>> /\ f.waiting # p THEN f.waiting ELSE f.staller
          OBVIOUS
    <2>2. g = [f EXCEPT !.done = TRUE, !.staller = x]
          BY <1>8, <2>1 DEF Visit
    <2>3. g = [common |-> f.common, get |-> f.get, waiting |-> f.waiting,
               staller |-> x, done |-> TRUE]
          BY <1>1, <2>2
    <2>4. x \in DlPeers \cup {Nobody} /\ (x # Nobody => Connected(x)) BY <1>1, <2>1
    <2> QED BY <1>1, <1>4, <2>3, <2>4
<1>9. CASE /\ ~(f.done \/ index[b] = "failed") /\ index[b] # "data"
           /\ ~(holder[b] # Nobody) /\ ~(Height[b] > end)
    <2>1. PICK w : w = Append(f.get, b) OBVIOUS
    <2>2. w \in Seq(DlBlocks) /\ Len(w) = n + 1 BY <1>1, <1>2, <2>1
    <2>3. PICK z \in BOOLEAN : z <=> n + 1 = count OBVIOUS
    <2>4. g = [f EXCEPT !.get = w, !.done = z]
        <3>1. (n + 1 = count) = z BY <2>3
        <3>2. g = [f EXCEPT !.get = Append(@, b), !.done = Len(f.get) + 1 = count]
              BY <1>9 DEF Visit
        <3> QED BY <1>2, <2>1, <3>1, <3>2
    <2>5. g = [common |-> f.common, get |-> w, waiting |-> f.waiting,
               staller |-> f.staller, done |-> z]
          BY <1>1, <2>4
    <2>6. n + 1 <= count /\ (~z => n + 1 < count) BY <1>1, <1>2, <1>9, <2>3
    <2> QED BY <1>1, <1>4, <2>2, <2>5, <2>6
<1> QED BY <1>5, <1>6, <1>7, <1>8, <1>9

\* The loop of FindNextBlocksToDownload.
LEMMA VisitsFind ==
    ASSUME AgreeOn(peer, holder), NEW count \in Nat, NEW start \in Finds(count),
           NEW p, NEW blocks \in Seq(DlBlocks), NEW end,
           NEW g, g = Visits(p, blocks, start, end, count)[Len(blocks)]
    PROVE  g \in Finds(count)
<1>1. PICK k \in Nat : k = Len(blocks) BY LenProperties
<1>2. \A i \in 1..k : blocks[i] \in DlBlocks BY <1>1, LenProperties
<1>3. PICK S : S = Finds(count) OBVIOUS
<1>4. \A x \in S, i \in 1..k : Visit(x, p, blocks[i], end, count) \in S
      BY <1>2, <1>3, VisitFinds
<1>5. PICK step : step = [i \in 1..k |-> [x \in S |-> Visit(x, p, blocks[i], end, count)]]
      OBVIOUS
<1>6. Steps(step, k, S) BY <1>4, <1>5 DEF Steps
<1>7. PICK f : IsFold(f, k, S, start, step) BY <1>3, <1>6, FoldExists
<1>8. f \in [0..k -> S] /\ f[0] = start /\ \A i \in 1..k : f[i] = step[i][f[i - 1]]
      BY <1>7 DEF IsFold
<1>9. \A i \in 1..k : f[i] = Visit(f[i - 1], p, blocks[i], end, count)
    <2> SUFFICES ASSUME NEW i \in 1..k
                 PROVE  f[i] = Visit(f[i - 1], p, blocks[i], end, count)
        OBVIOUS
    <2>1. f[i - 1] \in S BY <1>8
    <2> QED BY <1>5, <1>8, <2>1
<1>10. f = [i \in 0..k |-> IF i = 0 THEN start
                           ELSE Visit(f[i - 1], p, blocks[i], end, count)]
      BY <1>8, <1>9
<1>11. PICK h : h = Visits(p, blocks, start, end, count) OBVIOUS
<1>12. h = [i \in 0..k |-> IF i = 0 THEN start
                           ELSE Visit(h[i - 1], p, blocks[i], end, count)]
      BY <1>1, <1>10, <1>11 DEF Visits
<1>13. h[0] = start /\ \A i \in 1..k : h[i] = Visit(h[i - 1], p, blocks[i], end, count)
    <2>1. 0 \in 0..k /\ \A i \in 1..k : i \in 0..k /\ i # 0 OBVIOUS
    <2> QED BY <1>12, <2>1
<1>14. PICK T : T = {i \in 0..k : h[i] \in S} OBVIOUS
<1>15. 0 \in T BY <1>3, <1>13, <1>14
<1>16. \A i \in 1..k : i - 1 \in T => i \in T BY <1>4, <1>13, <1>14
<1>17. \A i \in 0..k : i \in T BY <1>15, <1>16, StepByStep
<1> QED BY <1>1, <1>3, <1>11, <1>14, <1>17

\* Of a set of blocks up to a height one is the highest.
LEMMA Highest ==
    ASSUME NEW X \in SUBSET DlBlocks, X # {}, NEW n \in Nat, \A b \in X : Height[b] <= n
    PROVE  \E b \in X : \A c \in X : Height[c] <= Height[b]
<1>1. \A b \in X : Height[b] \in Nat BY DownloadTree
<1>2. PICK T : T = {n - Height[b] : b \in X} OBVIOUS
<1>3. T \in SUBSET Nat /\ T # {} BY <1>1, <1>2
<1>4. PICK m \in T : \A k \in T : m <= k BY <1>3, LeastElement
<1>5. PICK b \in X : m = n - Height[b] BY <1>2
<1>6. \A c \in X : n - Height[b] <= n - Height[c] BY <1>2, <1>4, <1>5
<1> QED BY <1>1, <1>6

LEMMA CommonAncestor ==
    ASSUME NEW a \in DlBlocks, NEW b \in DlBlocks, NEW c, c = LastCommonAncestor(a, b)
    PROVE  c \in DlBlocks /\ c \in Branch[a] /\ c \in Branch[b]
<1>1. PICK X : X = Branch[a] \cap Branch[b] OBVIOUS
<1>2. X \in SUBSET DlBlocks /\ Origin \in X BY <1>1, DownloadTree
<1>3. Height[b] \in Nat /\ \A d \in X : Height[d] <= Height[b] BY <1>1, DownloadTree
<1>4. X # {} BY <1>2
<1>5. \E d \in X : \A e \in X : Height[e] <= Height[d] BY <1>2, <1>3, <1>4, Highest
<1>6. c \in X BY <1>1, <1>5 DEF LastCommonAncestor
<1> QED BY <1>1, <1>2, <1>6

LEMMA AtHeightFacts ==
    ASSUME NEW b \in DlBlocks, NEW h \in 0..Height[b]
    PROVE  AtHeight(b, h) \in DlBlocks
<1>1. \E a \in Branch[b] : Height[a] = h BY DownloadTree
<1>2. AtHeight(b, h) \in Branch[b] BY <1>1 DEF AtHeight
<1> QED BY <1>2, DownloadTree

\* There is a best chain: genesis at least.
LEMMA NextTipFacts ==
    ASSUME NEW idx, idx[Origin] = "data", dlTip \in DlBlocks
    PROVE  NextTip(idx) \in DlBlocks
<1>1. PICK X : X = {b \in DlBlocks : HasChainTx(b, idx)} OBVIOUS
<1>2. Origin \in X BY <1>1, DownloadTree DEF HasChainTx
<1>3. \A b \in X : Height[b] \in Nat BY <1>1, DownloadTree
<1>4. IsFiniteSet(X) BY <1>1, DownloadTree, FS_Subset
<1> DEFINE Above(b) == {c \in X : Height[c] > Height[b]}
<1>5. \A b \in X : IsFiniteSet(Above(b)) /\ Cardinality(Above(b)) \in Nat
      BY <1>4, FS_Subset, FS_CardinalityType
<1>6. PICK T : T = {Cardinality(Above(b)) : b \in X} OBVIOUS
<1>7. T \in SUBSET Nat /\ T # {} BY <1>2, <1>5, <1>6
<1>8. PICK m \in T : \A k \in T : m <= k BY <1>7, LeastElement
<1>9. PICK b \in X : m = Cardinality(Above(b)) BY <1>6
<1>10. ASSUME NEW c \in X PROVE Height[c] <= Height[b]
    <2> SUFFICES ASSUME Height[c] > Height[b] PROVE FALSE BY <1>3
    <2>1. Above(c) \subseteq Above(b) /\ c \in Above(b) /\ c \notin Above(c) BY <1>3
    <2>2. Cardinality(Above(c)) <= Cardinality(Above(b))
          /\ Cardinality(Above(c)) # Cardinality(Above(b))
        <3>1. PICK A : A = Above(b) OBVIOUS
        <3>2. PICK B : B = Above(c) OBVIOUS
        <3>3. IsFiniteSet(A) /\ B \in SUBSET A /\ A # B BY <1>5, <2>1, <3>1, <3>2
        <3> HIDE DEF Above
        <3>4. Cardinality(B) <= Cardinality(A) /\ (Cardinality(A) = Cardinality(B) => A = B)
              BY <3>3, FS_Subset
        <3> QED BY <3>1, <3>2, <3>3, <3>4
    <2>3. Cardinality(Above(c)) \in T BY <1>6
    <2> HIDE DEF Above
    <2>4. Cardinality(Above(b)) <= Cardinality(Above(c)) BY <1>8, <1>9, <2>3
    <2> QED BY <1>5, <1>9, <2>2, <2>4
<1>11. b \in Tips(idx) BY <1>1, <1>10 DEF Tips
<1>12. Tips(idx) \subseteq DlBlocks BY DEF Tips
<1> QED BY <1>11, <1>12 DEF NextTip

\* FindNextBlocksToDownload: the blocks it walks over are those of the peer's
\* chain above the common ancestor, up to the window's end and one more.
LEMMA FindFacts ==
    ASSUME AgreeOn(peer, holder), dlTip \in DlBlocks, NEW s \in PeerStates,
           Len(s.flight) < MaxInTransit, NEW p \in DlPeers,
           NEW found, found = FindNextBlocksToDownload(s, p)
    PROVE  found \in Finds(MaxInTransit - Len(s.flight))
<1>1. PICK count : count = MaxInTransit - Len(s.flight) OBVIOUS
<1>2. count \in Nat /\ 0 < count
    <2>1. Len(s.flight) \in Nat
        <3>1. s.flight \in Seq(DlBlocks) BY StateFields
        <3> QED BY <3>1, LenProperties
    <2> QED BY <1>1, <2>1, DownloadLimits
<1>3. /\ s.common \in DlBlocks \cup {NoBlock} /\ s.best \in DlBlocks \cup {NoBlock}
      BY StateFields
<1>4. PICK nothing : nothing = [common |-> s.common, get |-> <<>>, waiting |-> Nobody,
                                staller |-> Nobody, done |-> FALSE]
      OBVIOUS
<1>5. ASSUME NEW common, common \in DlBlocks \cup {NoBlock},
             NEW f, f = [common |-> common, get |-> <<>>, waiting |-> Nobody,
                         staller |-> Nobody, done |-> FALSE]
      PROVE  f \in Finds(count)
    <2>1. <<>> \in Seq(DlBlocks) /\ Len(<<>>) = 0 BY EmptySeq
    <2> QED BY <1>2, <1>5, <2>1 DEF Finds
<1>6. nothing \in Finds(count) BY <1>3, <1>4, <1>5
<1>7. CASE s.best = NoBlock
    <2>1. found = nothing BY <1>4, <1>7 DEF FindNextBlocksToDownload
    <2> QED BY <1>1, <1>6, <2>1
<1>8. CASE s.best # NoBlock /\ Height[s.best] < Height[dlTip]
    <2>1. found = nothing BY <1>4, <1>8 DEF FindNextBlocksToDownload
    <2> QED BY <1>1, <1>6, <2>1
<1>9. CASE s.best # NoBlock /\ ~(Height[s.best] < Height[dlTip])
  <2>1. s.best \in DlBlocks /\ Height[s.best] \in Nat /\ Height[dlTip] \in Nat
        BY <1>3, <1>9, DownloadTree
  <2>2. PICK guess : guess = IF s.common # NoBlock THEN s.common
                             ELSE IF Height[s.best] <= Height[dlTip]
                             THEN AtHeight(dlTip, Height[s.best]) ELSE dlTip
        OBVIOUS
  <2>3. guess \in DlBlocks
    <3>1. CASE s.common # NoBlock BY <1>3, <2>2, <3>1
    <3>2. CASE s.common = NoBlock /\ Height[s.best] <= Height[dlTip]
      <4>1. Height[s.best] \in 0..Height[dlTip] BY <2>1, <3>2
      <4> QED BY <2>2, <3>2, <4>1, AtHeightFacts
    <3>3. CASE s.common = NoBlock /\ ~(Height[s.best] <= Height[dlTip])
          BY <2>2, <3>3
    <3> QED BY <3>1, <3>2, <3>3
  <2>4. PICK common : common = LastCommonAncestor(guess, s.best) OBVIOUS
  <2>5. common \in DlBlocks /\ common \in Branch[s.best] BY <2>1, <2>3, <2>4, CommonAncestor
  <2>6. Height[common] \in Nat /\ Height[common] <= Height[s.best]
        BY <2>1, <2>5, DownloadTree
  <2>7. PICK end : end = Height[common] + Window OBVIOUS
  <2>8. PICK last : last = IF Height[s.best] <= end THEN Height[s.best] ELSE end + 1 OBVIOUS
  <2>9. last \in Nat /\ Height[common] <= last /\ last <= Height[s.best]
        BY <2>1, <2>6, <2>7, <2>8, DownloadLimits
  <2>10. PICK n \in Nat : n = last - Height[common] BY <2>6, <2>9
  <2>11. PICK walk : walk = [i \in 1..n |-> AtHeight(s.best, Height[common] + i)] OBVIOUS
  <2>12. walk \in Seq(DlBlocks) /\ Len(walk) = n
    <3>1. ASSUME NEW i \in 1..n PROVE AtHeight(s.best, Height[common] + i) \in DlBlocks
      <4>1. Height[common] + i \in 0..Height[s.best] BY <2>1, <2>6, <2>9, <2>10
      <4> QED BY <2>1, <4>1, AtHeightFacts
    <3> QED BY <2>11, <3>1
  <2>13. PICK start : start = [nothing EXCEPT !.common = common] OBVIOUS
  <2>14. start = [common |-> common, get |-> <<>>, waiting |-> Nobody,
                  staller |-> Nobody, done |-> FALSE]
         BY <1>4, <2>13
  <2>15. start \in Finds(count) BY <1>5, <2>5, <2>14
  <2>16. found = Visits(p, walk, start, end, count)[Len(walk)]
         BY <1>1, <1>4, <1>9, <2>2, <2>4, <2>7, <2>8, <2>10, <2>11, <2>13
         DEF FindNextBlocksToDownload
  <2>17. found \in Finds(count) BY <1>2, <2>12, <2>15, <2>16, VisitsFind
  <2> QED BY <1>1, <2>17
<1> QED BY <1>7, <1>8, <1>9

-----------------------------------------------------------------------------
(* The actions                                                              *)

LEMMA AvailabilityFacts ==
    ASSUME NEW s \in PeerStates, NEW idx, NEW t, t = ProcessBlockAvailability(s, idx)
    PROVE  t \in PeerStates /\ t.flight = s.flight /\ t.pref = s.pref
<1>1. CASE s.unknown = NoBlock \/ idx[s.unknown] = "absent"
    <2>1. t = s BY <1>1 DEF ProcessBlockAvailability
    <2> QED BY <2>1
<1>2. CASE ~(s.unknown = NoBlock \/ idx[s.unknown] = "absent")
    <2>1. PICK best : best = IF s.best = NoBlock \/ Height[s.unknown] >= Height[s.best]
                             THEN s.unknown ELSE s.best
          OBVIOUS
    <2>2. t = [s EXCEPT !.unknown = NoBlock, !.best = best]
          BY <1>2, <2>1 DEF ProcessBlockAvailability
    <2>3. best \in DlBlocks \cup {NoBlock} BY <2>1, StateFields
    <2>4. t = [pref |-> s.pref, best |-> best, unknown |-> NoBlock,
               common |-> s.common, flight |-> s.flight, overdue |-> s.overdue,
               stalling |-> s.stalling, disconnect |-> s.disconnect]
          BY <2>2, StateFields
    <2> QED BY <2>3, <2>4, StateFields DEF PeerStates
<1> QED BY <1>1, <1>2

LEMMA UpdateFacts ==
    ASSUME NEW s \in PeerStates, NEW b \in DlBlocks, NEW t, t = UpdateBlockAvailability(s, b)
    PROVE  t \in PeerStates /\ t.flight = s.flight /\ t.pref = s.pref
<1>1. PICK r : r = ProcessBlockAvailability(s, index) OBVIOUS
<1>2. r \in PeerStates /\ r.flight = s.flight /\ r.pref = s.pref BY <1>1, AvailabilityFacts
<1>3. CASE t = [r EXCEPT !.unknown = b]
    <2>1. t = [pref |-> r.pref, best |-> r.best, unknown |-> b,
               common |-> r.common, flight |-> r.flight, overdue |-> r.overdue,
               stalling |-> r.stalling, disconnect |-> r.disconnect]
          BY <1>2, <1>3, StateFields
    <2> QED BY <1>2, <2>1, StateFields DEF PeerStates
<1>4. CASE t = [r EXCEPT !.best = b]
    <2>1. t = [pref |-> r.pref, best |-> b, unknown |-> r.unknown,
               common |-> r.common, flight |-> r.flight, overdue |-> r.overdue,
               stalling |-> r.stalling, disconnect |-> r.disconnect]
          BY <1>2, <1>4, StateFields
    <2> QED BY <1>2, <2>1, StateFields DEF PeerStates
<1>5. CASE t = r BY <1>2, <1>5
<1> QED BY <1>1, <1>3, <1>4, <1>5 DEF UpdateBlockAvailability

LEMMA SameCount ==
    ASSUME NEW pr, NEW qr, SamePeers(pr, qr)
    PROVE  Preferred(pr) = Preferred(qr)
BY DEF SamePeers, Preferred

\* A step that writes to one peer, but not to its list.
LEMMA TouchedInv ==
    ASSUME DownloadInv, NEW p \in DlPeers, Connected(p),
           NEW x \in PeerStates, x.flight = peer[p].flight, x.pref = peer[p].pref,
           peer' = [peer EXCEPT ![p] = x],
           UNCHANGED <<index, dlTip, holder, nPreferredDownload, nQueuedValidatedHeaders>>
    PROVE  DownloadInv'
<1>1. AgreeOn(peer, holder) /\ Within(peer, Nobody, 0) /\ peer[p] # Nobody
      BY DEF DownloadInv, Connected
<1>2. PICK qr : qr = [peer EXCEPT ![p] = x] OBVIOUS
<1>3. /\ AgreeOn(qr, holder) /\ SamePeers(peer, qr)
      /\ \A r, n : Within(peer, r, n) => Within(qr, r, n)
      BY <1>1, <1>2, TouchKeeps
<1>4. Within(qr, Nobody, 0) BY <1>1, <1>3
<1>5. Preferred(peer) = Preferred(qr) BY <1>3, SameCount
<1>6. peer' = qr BY <1>2
<1> QED BY <1>3, <1>4, <1>5, <1>6 DEF DownloadInv

LEMMA PeerState ==
    ASSUME DownloadInv, NEW p \in DlPeers, Connected(p)
    PROVE  peer[p] \in PeerStates /\ peer[p].flight \in Seq(DlBlocks)
           /\ Len(peer[p].flight) \in Nat /\ Len(peer[p].flight) <= MaxInTransit
           /\ peer \in Slots
<1>1. peer[p] \in PeerStates /\ peer \in Slots
      BY DEF DownloadInv, AgreeOn, Slots, Connected
<1>2. peer[p].flight \in Seq(DlBlocks) BY <1>1, StateFields
<1>3. p # Nobody BY DownloadNobody
<1> QED BY <1>1, <1>2, <1>3, LenProperties DEF DownloadInv, Within, Connected

LEMMA DisconnectKeeps ==
    ASSUME DownloadInv, NEW p \in DlPeers, Connected(p),
           peer' = [peer EXCEPT ![p].disconnect = TRUE],
           UNCHANGED <<index, dlTip, holder, nPreferredDownload, nQueuedValidatedHeaders>>
    PROVE  DownloadInv'
<1>1. PICK s \in PeerStates : s = peer[p] BY PeerState
<1>2. PICK x : x = [s EXCEPT !.disconnect = TRUE] OBVIOUS
<1>3. x = [pref |-> s.pref, best |-> s.best, unknown |-> s.unknown,
           common |-> s.common, flight |-> s.flight, overdue |-> s.overdue,
           stalling |-> s.stalling, disconnect |-> TRUE]
    <2>1. s = [pref |-> s.pref, best |-> s.best, unknown |-> s.unknown,
              common |-> s.common, flight |-> s.flight, overdue |-> s.overdue,
              stalling |-> s.stalling, disconnect |-> s.disconnect]
          BY StateFields
    <2> QED BY <1>2, <2>1
<1>4. x \in PeerStates /\ x.flight = s.flight /\ x.pref = s.pref
      BY <1>3, StateFields DEF PeerStates
<1>5. peer' = [peer EXCEPT ![p] = x] BY <1>1, <1>2
<1> QED BY <1>1, <1>4, <1>5, TouchedInv

LEMMA OverdueKeeps ==
    ASSUME DownloadInv, NEW p \in DlPeers, Overdue(p)
    PROVE  DownloadInv'
<1>0. Connected(p)
      /\ UNCHANGED <<index, dlTip, holder, nPreferredDownload, nQueuedValidatedHeaders>>
      BY DEF Overdue
<1>1. PICK s \in PeerStates : s = peer[p] BY <1>0, PeerState
<1>2. CASE peer' = [peer EXCEPT ![p].overdue = TRUE]
    <2>1. PICK x : x = [s EXCEPT !.overdue = TRUE] OBVIOUS
    <2>2. x = [pref |-> s.pref, best |-> s.best, unknown |-> s.unknown,
               common |-> s.common, flight |-> s.flight, overdue |-> TRUE,
               stalling |-> s.stalling, disconnect |-> s.disconnect]
        <3>1. s = [pref |-> s.pref, best |-> s.best, unknown |-> s.unknown,
                  common |-> s.common, flight |-> s.flight, overdue |-> s.overdue,
                  stalling |-> s.stalling, disconnect |-> s.disconnect]
              BY StateFields
        <3> QED BY <2>1, <3>1
    <2>3. x \in PeerStates /\ x.flight = s.flight /\ x.pref = s.pref
          BY <2>2, StateFields DEF PeerStates
    <2>4. peer' = [peer EXCEPT ![p] = x] BY <1>1, <1>2, <2>1
    <2> QED BY <1>0, <1>1, <2>3, <2>4, TouchedInv
<1>3. CASE peer' = [peer EXCEPT ![p].stalling = 2]
    <2>1. PICK x : x = [s EXCEPT !.stalling = 2] OBVIOUS
    <2>2. x = [pref |-> s.pref, best |-> s.best, unknown |-> s.unknown,
               common |-> s.common, flight |-> s.flight, overdue |-> s.overdue,
               stalling |-> 2, disconnect |-> s.disconnect]
          BY <2>1, StateFields
    <2>3. x \in PeerStates /\ x.flight = s.flight /\ x.pref = s.pref
          BY <2>2, StateFields DEF PeerStates
    <2>4. peer' = [peer EXCEPT ![p] = x] BY <1>1, <1>3, <2>1
    <2> QED BY <1>0, <1>1, <2>3, <2>4, TouchedInv
<1> QED BY <1>2, <1>3 DEF Overdue

LEMMA AnnounceKeeps ==
    ASSUME DownloadInv, NEW p \in DlPeers, NEW b \in DlBlocks, Announce(p, b)
    PROVE  DownloadInv'
<1>1. Connected(p)
      /\ UNCHANGED <<index, dlTip, holder, nPreferredDownload, nQueuedValidatedHeaders>>
      BY DEF Announce
<1>2. PICK s \in PeerStates : s = peer[p] BY <1>1, PeerState
<1>3. PICK x : x = UpdateBlockAvailability(s, b) OBVIOUS
<1>4. x \in PeerStates /\ x.flight = s.flight /\ x.pref = s.pref BY <1>3, UpdateFacts
<1>5. peer' = [peer EXCEPT ![p] = x] BY <1>2, <1>3 DEF Announce
<1> QED BY <1>1, <1>2, <1>4, <1>5, TouchedInv

\* A step that changes the requests of the same peers.
LEMMA RequestsKeep ==
    ASSUME DownloadInv, NEW d \in RequestSets, AgreeOn(d.peer, d.holder),
           SamePeers(peer, d.peer), Within(d.peer, Nobody, 0), SetRequests(d),
           UNCHANGED nPreferredDownload,
           index' \in [DlBlocks -> {"absent", "header", "data", "failed"}],
           index'[Origin] = "data", dlTip' \in DlBlocks
    PROVE  DownloadInv'
<1>1. peer' = d.peer /\ holder' = d.holder /\ nQueuedValidatedHeaders' \in Int
      BY DEF SetRequests, RequestSets
<1>2. PICK qr : qr = d.peer OBVIOUS
<1>3. Preferred(peer) = Preferred(qr) BY <1>2, SameCount
<1> QED BY <1>1, <1>2, <1>3 DEF DownloadInv

LEMMA NewBlockKeeps ==
    ASSUME DownloadInv, NEW b \in DlBlocks \ {Origin},
           NEW outcome \in {"absent", "header", "data", "failed"}, ProcessNewBlock(b, outcome)
    PROVE  DownloadInv'
<1>1. PICK d : d = Requests OBVIOUS
<1>2. d \in RequestSets /\ d.peer = peer /\ d.holder = holder
      BY <1>1 DEF Requests, RequestSets, DownloadInv, AgreeOn
<1>3. AgreeOn(d.peer, d.holder) /\ Within(d.peer, Nobody, 0) BY <1>2 DEF DownloadInv
<1>4. PICK e : e = MarkBlockAsReceived(d, b) OBVIOUS
<1>5. /\ e \in RequestSets /\ AgreeOn(e.peer, e.holder) /\ SamePeers(d.peer, e.peer)
      /\ \A r : \A n \in Int : Within(d.peer, r, n) => Within(e.peer, r, n)
      BY <1>2, <1>3, <1>4, ReceivedKeeps
<1>6. Within(e.peer, Nobody, 0) BY <1>3, <1>5
<1>7. SetRequests(e) /\ UNCHANGED nPreferredDownload BY <1>1, <1>4 DEF ProcessNewBlock
<1>8. PICK idx : idx = [index EXCEPT ![b] = outcome] OBVIOUS
<1>9. /\ idx \in [DlBlocks -> {"absent", "header", "data", "failed"}]
      /\ idx[Origin] = "data"
      BY <1>8, DownloadTree DEF DownloadInv
<1>10. index' = idx /\ dlTip' = NextTip(idx) BY <1>8 DEF ProcessNewBlock
<1>11. dlTip' \in DlBlocks
    <2>1. dlTip \in DlBlocks BY DEF DownloadInv
    <2> QED BY <1>9, <1>10, <2>1, NextTipFacts
<1>12. SamePeers(peer, e.peer) BY <1>2, <1>5
<1> QED BY <1>5, <1>6, <1>7, <1>9, <1>10, <1>11, <1>12, RequestsKeep

\* The getdata of SendMessages.
LEMMA RequestKeeps ==
    ASSUME DownloadInv, NEW p \in DlPeers, RequestBlocks(p)
    PROVE  DownloadInv'
<1>0. /\ Connected(p) /\ Len(peer[p].flight) < MaxInTransit
      /\ UNCHANGED <<index, dlTip, nPreferredDownload>>
      BY DEF RequestBlocks
<1>1. AgreeOn(peer, holder) /\ Within(peer, Nobody, 0) /\ peer[p] # Nobody
      BY <1>0 DEF DownloadInv, Connected
<1>2. PICK r \in PeerStates : r = peer[p] BY <1>0, PeerState
<1>3. PICK s : s = ProcessBlockAvailability(r, index) OBVIOUS
<1>4. s \in PeerStates /\ s.flight = r.flight /\ s.pref = r.pref BY <1>3, AvailabilityFacts
<1>5. PICK n \in Nat : n = Len(s.flight) BY <1>0, <1>2, <1>4, PeerState
<1>6. n < MaxInTransit BY <1>0, <1>2, <1>4, <1>5
<1>7. PICK found : found = FindNextBlocksToDownload(s, p) OBVIOUS
<1>8. found \in Finds(MaxInTransit - n)
    <2>1. dlTip \in DlBlocks BY DEF DownloadInv
    <2> QED BY <1>1, <1>4, <1>5, <1>6, <1>7, <2>1, FindFacts
<1>9. /\ found.common \in DlBlocks \cup {NoBlock} /\ found.get \in Seq(DlBlocks)
      /\ found.staller \in DlPeers \cup {Nobody}
      /\ found.staller # Nobody => Connected(found.staller)
      /\ Len(found.get) <= MaxInTransit - n
      BY <1>8 DEF Finds
<1>10. PICK x : x = [s EXCEPT !.common = found.common] OBVIOUS
<1>11. x = [pref |-> s.pref, best |-> s.best, unknown |-> s.unknown,
            common |-> found.common, flight |-> s.flight, overdue |-> s.overdue,
            stalling |-> s.stalling, disconnect |-> s.disconnect]
       BY <1>4, <1>10, StateFields
<1>12. x \in PeerStates /\ x.flight = r.flight /\ x.pref = r.pref
       BY <1>4, <1>9, <1>11, StateFields DEF PeerStates
<1>13. PICK qr : qr = [peer EXCEPT ![p] = x] OBVIOUS
<1>14. AgreeOn(qr, holder) /\ SamePeers(peer, qr) /\ Within(qr, Nobody, 0)
       BY <1>1, <1>2, <1>12, <1>13, TouchKeeps
<1>15. qr \in Slots /\ qr[p] = x /\ holder \in Holders /\ nQueuedValidatedHeaders \in Int
       BY <1>12, <1>13, <1>14 DEF AgreeOn, Slots, DownloadInv
<1>16. PICK asking : asking = [peer |-> qr, holder |-> holder,
                               queued |-> nQueuedValidatedHeaders]
       OBVIOUS
<1>17. asking \in RequestSets /\ asking.peer = qr /\ asking.holder = holder
       BY <1>15, <1>16 DEF RequestSets
<1>18. Within(asking.peer, p, n)
    <2> SUFFICES ASSUME NEW q \in DlPeers, qr[q] # Nobody
                 PROVE  Len(qr[q].flight) <= IF q = p THEN n ELSE MaxInTransit
        BY <1>17 DEF Within
    <2>1. CASE q = p BY <1>4, <1>5, <1>12, <1>15, <2>1
    <2>2. CASE q # p
        <3>1. q # Nobody BY DownloadNobody
        <3> QED BY <1>14, <2>2, <3>1 DEF Within
    <2> QED BY <2>1, <2>2
<1>19. PICK d : d = Requested(asking, p, found.get)[Len(found.get)] OBVIOUS
<1>20. /\ d \in RequestSets /\ AgreeOn(d.peer, d.holder) /\ SamePeers(asking.peer, d.peer)
       /\ Within(d.peer, p, n + Len(found.get))
    <2>1. asking.peer[p] # Nobody
        <3>1. x # Nobody BY <1>12, DownloadNobody
        <3> QED BY <1>15, <1>17, <3>1
    <2>2. AgreeOn(asking.peer, asking.holder) BY <1>14, <1>17
    <2>3. PICK blocks \in Seq(DlBlocks) : blocks = found.get BY <1>9
    <2>4. d = Requested(asking, p, blocks)[Len(blocks)] BY <1>19, <2>3
    <2>5. /\ d \in RequestSets /\ AgreeOn(d.peer, d.holder)
          /\ SamePeers(asking.peer, d.peer) /\ Within(d.peer, p, n + Len(blocks))
          BY <1>17, <1>18, <2>1, <2>2, <2>4, RequestedFacts
    <2> QED BY <2>3, <2>5
<1>21. SamePeers(peer, d.peer) BY <1>14, <1>17, <1>20 DEF SamePeers
<1>22. Within(d.peer, Nobody, 0)
    <2> SUFFICES ASSUME NEW q \in DlPeers, d.peer[q] # Nobody
                 PROVE  Len(d.peer[q].flight) <= MaxInTransit
        BY DownloadNobody DEF Within
    <2>1. PICK g \in Nat : g = Len(found.get) BY <1>9, LenProperties
    <2>2. MaxInTransit \in Nat /\ n \in Nat /\ g \in Nat BY DownloadLimits
    <2>3. g <= MaxInTransit - n BY <1>9, <2>1
    <2>4. n + g <= MaxInTransit BY ONLY <2>2, <2>3
    <2>5. PICK m \in Nat : m = Len(d.peer[q].flight)
        <3>1. d.peer[q] \in PeerStates BY <1>20 DEF RequestSets, Slots
        <3>2. d.peer[q].flight \in Seq(DlBlocks) BY <3>1, StateFields
        <3> QED BY <3>2, LenProperties
    <2>6. m <= IF q = p THEN n + g ELSE MaxInTransit
          BY <1>20, <2>1, <2>5 DEF Within
    <2>7. m <= MaxInTransit BY ONLY <2>2, <2>4, <2>5, <2>6
    <2> QED BY <2>5, <2>7
<1>23. SetRequests(IF d.peer[p].flight = <<>> /\ found.staller # Nobody
                   THEN [d EXCEPT !.peer[found.staller].stalling = IF @ = 0 THEN 1 ELSE @]
                   ELSE d)
    <2>1. [Requests EXCEPT !.peer[p] = x] = asking BY <1>13, <1>16 DEF Requests
    <2> QED BY <1>2, <1>3, <1>7, <1>10, <1>19, <2>1 DEF RequestBlocks
<1>24. /\ index' \in [DlBlocks -> {"absent", "header", "data", "failed"}]
       /\ index'[Origin] = "data" /\ dlTip' \in DlBlocks
       BY <1>0 DEF DownloadInv
<1>25. CASE ~(d.peer[p].flight = <<>> /\ found.staller # Nobody)
    <2>1. SetRequests(d) BY <1>23, <1>25
    <2> QED BY <1>0, <1>20, <1>21, <1>22, <1>24, <2>1, RequestsKeep
<1>26. CASE d.peer[p].flight = <<>> /\ found.staller # Nobody
    <2>1. PICK w \in DlPeers : w = found.staller BY <1>9, <1>26
    <2>2. d.peer[w] # Nobody BY <1>9, <1>21, <1>26, <2>1 DEF SamePeers, Connected
    <2>3. PICK pr : pr = d.peer OBVIOUS
    <2>4. pr \in Slots /\ d.holder \in Holders /\ d.queued \in Int
          BY <1>20, <2>3 DEF RequestSets
    <2>5. PICK t \in PeerStates : t = pr[w] BY <2>2, <2>3, <2>4 DEF Slots
    <2>6. PICK k : k = IF t.stalling = 0 THEN 1 ELSE t.stalling OBVIOUS
    <2>7. PICK y : y = [t EXCEPT !.stalling = k] OBVIOUS
    <2>8. y = [pref |-> t.pref, best |-> t.best, unknown |-> t.unknown,
               common |-> t.common, flight |-> t.flight, overdue |-> t.overdue,
               stalling |-> k, disconnect |-> t.disconnect]
          BY <2>7, StateFields
    <2>9. y \in PeerStates /\ y.flight = t.flight /\ y.pref = t.pref
        <3>1. k \in 0..2 BY <2>6, StateFields
        <3> QED BY <2>8, <3>1, StateFields DEF PeerStates
    <2>10. PICK zr : zr = [pr EXCEPT ![w] = y] OBVIOUS
    <2>11. AgreeOn(zr, d.holder) /\ SamePeers(pr, zr) /\ Within(zr, Nobody, 0)
        <3>1. AgreeOn(pr, d.holder) /\ pr[w] # Nobody /\ Within(pr, Nobody, 0)
              BY <1>20, <1>22, <2>2, <2>3
        <3> QED BY <2>5, <2>9, <2>10, <3>1, TouchKeeps
    <2>12. PICK e : e = [peer |-> zr, holder |-> d.holder, queued |-> d.queued] OBVIOUS
    <2>13. e \in RequestSets /\ e.peer = zr /\ e.holder = d.holder
           BY <2>4, <2>11, <2>12 DEF RequestSets, AgreeOn
    <2>14. SetRequests(e)
        <3>1. [d EXCEPT !.peer[w].stalling = IF @ = 0 THEN 1 ELSE @] = e
            <4>1. d = [peer |-> pr, holder |-> d.holder, queued |-> d.queued]
                  BY <1>20, <2>3 DEF RequestSets
            <4>2. [pr EXCEPT ![w].stalling = IF @ = 0 THEN 1 ELSE @] = zr
                <5>1. [pr[w] EXCEPT !.stalling = IF @ = 0 THEN 1 ELSE @] = y
                      BY <2>5, <2>6, <2>7
                <5> QED BY <2>10, <5>1
            <4> QED BY <2>12, <4>1, <4>2
        <3> QED BY <1>23, <1>26, <2>1, <3>1
    <2>15. SamePeers(peer, zr) BY <1>21, <2>3, <2>11 DEF SamePeers
    <2>16. AgreeOn(e.peer, e.holder) /\ Within(e.peer, Nobody, 0) /\ SamePeers(peer, e.peer)
           BY <2>11, <2>13, <2>15
    <2> QED BY <1>0, <1>24, <2>13, <2>14, <2>16, RequestsKeep
<1> QED BY <1>25, <1>26

LEMMA ConnectKeeps ==
    ASSUME DownloadInv, NEW p \in DlPeers, NEW pref \in BOOLEAN, Connect(p, pref)
    PROVE  DownloadInv'
<1>0. peer[p] = Nobody /\ UNCHANGED <<index, dlTip, holder, nQueuedValidatedHeaders>>
      BY DEF Connect, Connected
<1>1. /\ AgreeOn(peer, holder) /\ Within(peer, Nobody, 0) /\ peer \in Slots
      /\ nPreferredDownload = Cardinality(Preferred(peer))
      BY DEF DownloadInv, AgreeOn
<1>2. PICK x : x = [NewState EXCEPT !.pref = pref] OBVIOUS
<1>3. x = [pref |-> pref, best |-> NoBlock, unknown |-> NoBlock,
           common |-> NoBlock, flight |-> <<>>, overdue |-> FALSE,
           stalling |-> 0, disconnect |-> FALSE]
      BY <1>2 DEF NewState
<1>4. <<>> \in Seq(DlBlocks) /\ Len(<<>>) = 0 BY EmptySeq
<1>5. x \in PeerStates /\ x.flight = <<>> /\ x.pref = pref BY <1>3, <1>4 DEF PeerStates
<1>6. x # Nobody BY <1>5, DownloadNobody
<1>7. PICK qr : qr = [peer EXCEPT ![p] = x] OBVIOUS
<1>8. qr \in Slots /\ \A q \in DlPeers : qr[q] = IF q = p THEN x ELSE peer[q]
      BY <1>1, <1>5, <1>7 DEF Slots
<1>9. IsInjective(<<>>) /\ \A c : ~Contains(<<>>, c)
      BY <1>4 DEF IsInjective, Contains
<1>10. AgreeOn(qr, holder) BY <1>0, <1>1, <1>5, <1>6, <1>8, <1>9 DEF AgreeOn
<1>11. Within(qr, Nobody, 0)
    <2> SUFFICES ASSUME NEW q \in DlPeers, qr[q] # Nobody
                 PROVE  Len(qr[q].flight) <= MaxInTransit
        BY DownloadNobody DEF Within
    <2>1. CASE q = p BY <1>4, <1>5, <1>8, <2>1, DownloadLimits
    <2>2. CASE q # p
        <3>1. q # Nobody BY DownloadNobody
        <3> QED BY <1>1, <1>8, <2>2, <3>1 DEF Within
    <2> QED BY <2>1, <2>2
<1>12. IsFiniteSet(Preferred(peer))
    <2>1. Preferred(peer) \in SUBSET DlPeers BY DEF Preferred
    <2> QED BY <2>1, DownloadNobody, FS_Subset
<1>13. nPreferredDownload' = Cardinality(Preferred(qr))
    <2>1. CASE pref
        <3>1. Preferred(qr) = Preferred(peer) \cup {p} /\ p \notin Preferred(peer)
              BY <1>0, <1>5, <1>6, <1>8, <2>1 DEF Preferred
        <3>2. Cardinality(Preferred(qr)) = Cardinality(Preferred(peer)) + 1
              BY <1>12, <3>1, FS_AddElement
        <3> QED BY <1>1, <2>1, <3>2 DEF Connect
    <2>2. CASE ~pref
        <3>1. Preferred(qr) = Preferred(peer)
              BY <1>0, <1>5, <1>6, <1>8, <2>2 DEF Preferred
        <3>2. Cardinality(Preferred(peer)) \in Nat BY <1>12, FS_CardinalityType
        <3> QED BY <1>1, <2>2, <3>1, <3>2 DEF Connect
    <2> QED BY <2>1, <2>2
<1>14. peer' = qr BY <1>2, <1>7 DEF Connect
<1> QED BY <1>0, <1>10, <1>11, <1>13, <1>14 DEF DownloadInv

LEMMA FinalizeKeeps ==
    ASSUME DownloadInv, NEW p \in DlPeers, FinalizeNode(p)
    PROVE  DownloadInv'
<1>0. peer[p] # Nobody /\ UNCHANGED <<index, dlTip, nQueuedValidatedHeaders>>
      BY DEF FinalizeNode, Connected
<1>1. /\ AgreeOn(peer, holder) /\ Within(peer, Nobody, 0)
      /\ peer \in Slots /\ holder \in Holders
      /\ nPreferredDownload = Cardinality(Preferred(peer))
      BY DEF DownloadInv, AgreeOn
<1>2. PICK qr : qr = [peer EXCEPT ![p] = Nobody] OBVIOUS
<1>3. qr \in Slots /\ \A q \in DlPeers : qr[q] = IF q = p THEN Nobody ELSE peer[q]
      BY <1>1, <1>2 DEF Slots
<1>4. PICK gl : gl = [b \in DlBlocks |-> IF Contains(peer[p].flight, b) THEN Nobody
                                         ELSE holder[b]]
      OBVIOUS
<1>5. gl \in Holders BY <1>1, <1>4 DEF Holders
<1>6. AgreeOn(qr, gl)
    <2>1. ASSUME NEW q \in DlPeers, qr[q] # Nobody PROVE IsInjective(qr[q].flight)
          BY <1>1, <1>3, <2>1 DEF AgreeOn
    <2>2. ASSUME NEW c \in DlBlocks, NEW q \in DlPeers
          PROVE  gl[c] = q <=> qr[q] # Nobody /\ Contains(qr[q].flight, c)
        <3>1. /\ holder[c] = q <=> peer[q] # Nobody /\ Contains(peer[q].flight, c)
              /\ holder[c] = p <=> Contains(peer[p].flight, c)
              BY <1>0, <1>1 DEF AgreeOn
        <3>2. gl[c] = IF holder[c] = p THEN Nobody ELSE holder[c] BY <1>4, <3>1
        <3>3. Nobody # q BY DownloadNobody
        <3> QED BY <1>3, <3>1, <3>2, <3>3
    <2> QED BY <1>3, <1>5, <2>1, <2>2 DEF AgreeOn
<1>7. Within(qr, Nobody, 0) BY <1>1, <1>3 DEF Within
<1>8. IsFiniteSet(Preferred(peer))
    <2>1. Preferred(peer) \in SUBSET DlPeers BY DEF Preferred
    <2> QED BY <2>1, DownloadNobody, FS_Subset
<1>9. Preferred(qr) = Preferred(peer) \ {p} BY <1>3 DEF Preferred
<1>10. p \in Preferred(peer) <=> peer[p].pref BY <1>0 DEF Preferred
<1>11. Cardinality(Preferred(peer)) \in Nat BY <1>8, FS_CardinalityType
<1>12. Cardinality(Preferred(qr)) = IF p \in Preferred(peer)
                                    THEN Cardinality(Preferred(peer)) - 1
                                    ELSE Cardinality(Preferred(peer))
       BY <1>8, <1>9, FS_RemoveElement
<1>13. nPreferredDownload' = Cardinality(Preferred(qr))
    <2>1. CASE peer[p].pref BY <1>1, <1>10, <1>12, <2>1 DEF FinalizeNode
    <2>2. CASE ~peer[p].pref BY <1>1, <1>10, <1>11, <1>12, <2>2 DEF FinalizeNode
    <2> QED BY <2>1, <2>2
<1>14. peer' = qr /\ holder' = gl BY <1>2, <1>4 DEF FinalizeNode
<1> QED BY <1>0, <1>6, <1>7, <1>13, <1>14 DEF DownloadInv

LEMMA InitDownload == BlockDownloadInit => DownloadInv
<1> SUFFICES ASSUME BlockDownloadInit PROVE DownloadInv OBVIOUS
<1>1. /\ index = [b \in DlBlocks |-> IF b = Origin THEN "data" ELSE "absent"]
      /\ dlTip = Origin /\ nPreferredDownload = 0 /\ nQueuedValidatedHeaders = 0
      /\ peer = [q \in DlPeers |-> Nobody] /\ holder = [b \in DlBlocks |-> Nobody]
      BY DEF BlockDownloadInit
<1>2. Origin \in DlBlocks BY DownloadTree
<1>3. AgreeOn(peer, holder) /\ Within(peer, Nobody, 0)
      BY <1>1, DownloadNobody DEF AgreeOn, Within, Slots, Holders
<1>4. Preferred(peer) = {} BY <1>1 DEF Preferred
<1>5. Cardinality({}) = 0 BY FS_EmptySet
<1> QED BY <1>1, <1>2, <1>3, <1>4, <1>5 DEF DownloadInv

LEMMA NextDownload == DownloadInv /\ [BlockDownloadNext]_dlVars => DownloadInv'
<1> SUFFICES ASSUME DownloadInv, [BlockDownloadNext]_dlVars PROVE DownloadInv' OBVIOUS
<1>1. CASE UNCHANGED dlVars
      BY <1>1 DEF dlVars, DownloadInv
<1>2. ASSUME NEW p \in DlPeers, GiveUp(p) \/ Hangup(p) PROVE DownloadInv'
      BY <1>2, DisconnectKeeps DEF GiveUp, Hangup
<1>3. ASSUME NEW p \in DlPeers, NEW b \in DlBlocks \ {Origin},
             NEW outcome \in {"absent", "header", "data", "failed"},
             ReceiveBlock(p, b, outcome)
      PROVE  DownloadInv'
    <2>1. ProcessNewBlock(b, outcome) BY <1>3 DEF ReceiveBlock
    <2> QED BY <2>1, NewBlockKeeps
<1>4. ASSUME NEW b \in DlBlocks, SubmitBlock(b) PROVE DownloadInv'
    <2>1. ProcessNewBlock(b, "data") /\ index[b] = "header" BY <1>4 DEF SubmitBlock
    <2>2. b \in DlBlocks \ {Origin} BY <2>1 DEF DownloadInv
    <2> QED BY <2>1, <2>2, NewBlockKeeps
<1> QED BY <1>1, <1>2, <1>3, <1>4, RequestKeeps, FinalizeKeeps, OverdueKeeps, ConnectKeeps,
           AnnounceKeeps
    DEF BlockDownloadNext

THEOREM DownloadInvariant == BlockDownloadSpec => []DownloadInv
BY InitDownload, NextDownload, PTL DEF BlockDownloadSpec

\* The variables of BlockDownload keep their types.
THEOREM DownloadTypeCorrect == BlockDownloadSpec => []BlockDownloadTypeOK
<1>1. DownloadInv => BlockDownloadTypeOK
  <2> SUFFICES ASSUME DownloadInv PROVE BlockDownloadTypeOK OBVIOUS
  <2>1. nPreferredDownload \in Nat
    <3>1. Preferred(peer) \in SUBSET DlPeers BY DEF Preferred
    <3>2. IsFiniteSet(Preferred(peer)) BY <3>1, DownloadNobody, FS_Subset
    <3> QED BY <3>2, FS_CardinalityType DEF DownloadInv
  <2>2. ASSUME NEW p \in DlPeers, Connected(p)
        PROVE  /\ peer[p].best \in DlBlocks \cup {NoBlock}
               /\ peer[p].unknown \in DlBlocks \cup {NoBlock}
               /\ peer[p].common \in DlBlocks \cup {NoBlock}
               /\ peer[p].flight \in Seq(DlBlocks) /\ Len(peer[p].flight) <= MaxInTransit
        BY <2>2, PeerState, StateFields
  <2>3. holder \in [DlBlocks -> DlPeers \cup {Nobody}]
        BY DEF DownloadInv, AgreeOn, Holders
  <2> QED BY <2>1, <2>2, <2>3 DEF BlockDownloadTypeOK, DownloadInv
<1> QED BY <1>1, DownloadInvariant, PTL

\* mapBlocksInFlight and the lists of the peers are two views of the same
\* requests, and the count of preferred peers is exact, for any number of peers
\* and blocks: whoever hangs up, stalls, times out or sends what another was
\* asked for.
THEOREM RequestsAlwaysAgree == BlockDownloadSpec => []RequestsAgree
<1>1. DownloadInv => RequestsAgree
  <2>1. Preferred(peer) = {p \in DlPeers : Connected(p) /\ peer[p].pref}
        BY DEF Preferred, Connected
  <2> QED BY <2>1 DEF DownloadInv, AgreeOn, RequestsAgree, Connected
<1> QED BY <1>1, DownloadInvariant, PTL

-----------------------------------------------------------------------------
(* The synchronisation: types                                              *)

SyncState == [stage : Stages, attempt : 0..3 * Threshold, late : BOOLEAN, retry : BOOLEAN,
              last : [Collecting -> {"none", "recent", "old"}],
              got : [Collecting -> 0..Threshold]]
SyncMarks == [SyncPeers -> SUBSET Asking]

\* A stage lasts three asked peers at least.
LEMMA SyncBounds ==
    /\ Threshold \in Nat /\ 3 * Threshold \in Nat /\ 3 * Threshold >= 3 /\ MaxSleeps \in Nat
    /\ 0 \in 0..3 * Threshold
BY ThresholdPositive, MaxSleepsNat

LEMMA ResetType == ResetSync \in SyncState
BY SyncBounds DEF ResetSync, SyncState, Stages

LEMMA NextAssetType ==
    ASSUME NEW s \in SyncState
    PROVE  NextAsset(s) \in SyncState /\ NextAsset(s).attempt = 0
<1>1. Following(s.stage) \in Stages
  BY DEF Following, SyncState, Stages
<1>2. NextAsset(s) = [s EXCEPT !.stage = Following(s.stage), !.attempt = 0, !.late = FALSE]
  BY DEF NextAsset
<1>3. 0 \in 0..3 * Threshold
  BY SyncBounds
<1> QED BY <1>1, <1>2, <1>3 DEF SyncState

LEMMA AskedType ==
    ASSUME NEW s \in SyncState, s.attempt < 3 * Threshold
    PROVE  Asked(s) \in SyncState
<1>1. s.attempt \in 0..3 * Threshold
  BY DEF SyncState
<1>2. s.attempt + 1 \in 0..3 * Threshold
  BY <1>1, SyncBounds
<1>3. Asked(s) = [s EXCEPT !.attempt = s.attempt + 1]
  BY DEF Asked, SyncState
<1> QED BY <1>2, <1>3 DEF SyncState

LEMMA FailedType == ASSUME NEW s \in SyncState PROVE FailedSync(s) \in SyncState
<1>1. 0 \in 0..3 * Threshold /\ "FAILED" \in Stages
  BY SyncBounds DEF Stages
<1> QED BY <1>1 DEF FailedSync, SyncState

\* A peer is asked: the attempts of the stage stay within three thresholds,
\* those of the sporks within two.
LEMMA AfterAskingType ==
    ASSUME NEW s \in SyncState, NEW enforce \in BOOLEAN
    PROVE  AfterAsking(s, enforce) \in SyncState
<1>1. s.attempt \in 0..3 * Threshold
  BY DEF SyncState
<1>2. CASE s.stage = "SPORKS"
  <2> DEFINE t == IF s.attempt >= 2 THEN NextAsset(s) ELSE s
  <2>1. t \in SyncState /\ t.attempt < 3 * Threshold
    BY <1>1, NextAssetType, SyncBounds
  <2>2. AfterAsking(s, enforce) = Asked(t)
    BY <1>2 DEF AfterAsking, AskedSpork
  <2> HIDE DEF t
  <2> QED BY <2>1, <2>2, AskedType
<1>3. CASE s.stage # "SPORKS" /\ ~(s.attempt >= 3 * Threshold)
  BY <1>1, <1>3, AskedType, NextAssetType, FailedType, SyncBounds DEF AfterAsking
<1>4. CASE s.stage # "SPORKS" /\ s.attempt >= 3 * Threshold
  BY <1>4, NextAssetType, FailedType DEF AfterAsking
<1> QED BY <1>2, <1>3, <1>4

LEMMA PeerLoopTypes ==
    ASSUME NEW s \in SyncState, NEW f \in SyncMarks, NEW enforce \in BOOLEAN, PeerLoop(s, f, enforce)
    PROVE  sync' \in SyncState /\ fulfilled' \in SyncMarks
<1>1. CASE s.stage \notin Asking
  BY <1>1 DEF PeerLoop
<1>2. CASE s.stage \in Asking /\ LeavesAtOnce(s) /\ SyncPeers # {}
  BY <1>2, NextAssetType DEF PeerLoop
<1>3. CASE s.stage \in Asking /\ ~(LeavesAtOnce(s) /\ SyncPeers # {})
  <2>1. CASE sync' = s /\ fulfilled' = f
    BY <2>1
  <2>2. ASSUME NEW p \in SyncPeers, fulfilled' = [f EXCEPT ![p] = @ \cup {s.stage}],
               sync' = AfterAsking(s, enforce)
        PROVE  sync' \in SyncState /\ fulfilled' \in SyncMarks
    BY <1>3, <2>2, AfterAskingType DEF SyncMarks
  <2> QED BY <1>3, <2>1, <2>2 DEF PeerLoop
<1> QED BY <1>1, <1>2, <1>3

LEMMA ProcessTypes ==
    ASSUME NodeSyncTypeOK, NEW enabled \in BOOLEAN, NEW enforce \in BOOLEAN,
           NEW lockMain \in BOOLEAN, NEW lockClear \in BOOLEAN, NEW lockNodes \in BOOLEAN,
           Process(enabled, enforce, lockMain, lockClear, lockNodes)
    PROVE  NodeSyncTypeOK'
<1> DEFINE cleared == Restarted.stage = "SPORKS" /\ sync.stage # "SPORKS" /\ lockClear
           f == IF cleared THEN [p \in SyncPeers |-> {}] ELSE fulfilled
           s == AfterSleep(Restarted)
<1>1. sync \in SyncState /\ fulfilled \in SyncMarks
  BY DEF NodeSyncTypeOK, SyncState, SyncMarks
<1>2. Restarted \in SyncState
  BY <1>1, ResetType, NextAssetType DEF Restarted
<1>3. s \in SyncState
  BY <1>2, ResetType DEF AfterSleep
<1>4. f \in SyncMarks
  BY <1>1 DEF SyncMarks
<1>5. (sync' = s /\ fulfilled' = f) \/ PeerLoop(s, f, enforce)
  BY DEF Process
<1>6. chainSynced' = BlockchainSynced(lockMain) /\ slept' = FALSE /\ UNCHANGED <<tipRecent, sleeps>>
  BY DEF Process
<1> HIDE DEF s, f
<1>7. sync' \in SyncState /\ fulfilled' \in SyncMarks
  BY <1>3, <1>4, <1>5, PeerLoopTypes
<1>8. chainSynced' \in BOOLEAN
  BY <1>6 DEF BlockchainSynced, NodeSyncTypeOK
<1> QED BY <1>6, <1>7, <1>8 DEF NodeSyncTypeOK, SyncState, SyncMarks

LEMMA NextSync == ASSUME NodeSyncTypeOK, [NodeSyncNext]_syncVars PROVE NodeSyncTypeOK'
<1>1. sync \in SyncState /\ fulfilled \in SyncMarks
  BY DEF NodeSyncTypeOK, SyncState, SyncMarks
<1>2. ASSUME AnyProcess PROVE NodeSyncTypeOK'
  <2>1. PICK e \in Environment, k \in Locks : Process(e[1], e[2], k[1], k[2], k[3])
    BY <1>2 DEF AnyProcess
  <2>2. e[1] \in BOOLEAN /\ e[2] \in BOOLEAN /\ k[1] \in BOOLEAN /\ k[2] \in BOOLEAN /\ k[3] \in BOOLEAN
    BY DEF Environment, Locks, AskedIn
  <2> QED BY <2>1, <2>2, ProcessTypes
<1>3. ASSUME CallBlockchainSynced PROVE NodeSyncTypeOK'
  <2>1. chainSynced' \in BOOLEAN
    BY <1>3 DEF CallBlockchainSynced, BlockchainSynced, NodeSyncTypeOK
  <2>2. sync' \in SyncState
    BY <1>1, <1>3, ResetType DEF CallBlockchainSynced, AfterSleep
  <2> QED BY <1>3, <2>1, <2>2 DEF CallBlockchainSynced, NodeSyncTypeOK, SyncState
<1>4. ASSUME NEW c \in Collecting, AddedItem(c) \/ ItemAges(c) PROVE NodeSyncTypeOK'
  <2>1. sync.got[c] \in 0..Threshold /\ sync.last \in [Collecting -> {"none", "recent", "old"}]
        /\ sync.got \in [Collecting -> 0..Threshold]
    BY <1>1 DEF SyncState
  <2>2. CASE AddedItem(c)
    <3> DEFINE g == [sync.got EXCEPT ![c] = sync.got[c] + 1]
               l == [sync.last EXCEPT ![c] = "recent"]
    <3>1. sync' = [sync EXCEPT !.got = g, !.last = l]
      BY <1>1, <2>2 DEF AddedItem, SyncState
    <3>2. g \in [Collecting -> 0..Threshold] /\ l \in [Collecting -> {"none", "recent", "old"}]
      BY <2>1, <2>2, SyncBounds DEF AddedItem
    <3> HIDE DEF g, l
    <3>3. sync' \in SyncState
      BY <1>1, <3>1, <3>2 DEF SyncState
    <3> QED BY <2>2, <3>3 DEF AddedItem, NodeSyncTypeOK, SyncState
  <2>3. CASE ItemAges(c)
    <3> DEFINE l == [sync.last EXCEPT ![c] = "old"]
    <3>1. sync' = [sync EXCEPT !.last = l]
      BY <1>1, <2>3 DEF ItemAges, SyncState
    <3>2. l \in [Collecting -> {"none", "recent", "old"}]
      BY <2>1
    <3> HIDE DEF l
    <3>3. sync' \in SyncState
      BY <1>1, <3>1, <3>2 DEF SyncState
    <3> QED BY <2>3, <3>3 DEF ItemAges, NodeSyncTypeOK, SyncState
  <2> QED BY <1>4, <2>2, <2>3
<1>5. ASSUME StageAges PROVE NodeSyncTypeOK'
  <2>1. sync' \in SyncState
    BY <1>1, <1>5 DEF StageAges, SyncState
  <2> QED BY <1>5, <2>1 DEF StageAges, NodeSyncTypeOK, SyncState
<1>6. ASSUME NEW p \in SyncPeers, NewPeer(p) PROVE NodeSyncTypeOK'
  BY <1>6 DEF NewPeer, NodeSyncTypeOK
<1>7. ASSUME TipMoves PROVE NodeSyncTypeOK'
  BY <1>7 DEF TipMoves, NodeSyncTypeOK
<1>8. ASSUME Sleep PROVE NodeSyncTypeOK'
  <2>1. sleeps' \in 0..MaxSleeps
    BY <1>8, SyncBounds DEF Sleep, NodeSyncTypeOK
  <2> QED BY <1>8, <2>1 DEF Sleep, NodeSyncTypeOK
<1>9. ASSUME ResetByUser PROVE NodeSyncTypeOK'
  <2>1. sleeps' \in 0..MaxSleeps
    BY <1>9, SyncBounds DEF ResetByUser, NodeSyncTypeOK
  <2> QED BY <1>9, <2>1, ResetType DEF ResetByUser, NodeSyncTypeOK, SyncState
<1>10. CASE UNCHANGED syncVars
  BY <1>10 DEF syncVars, NodeSyncTypeOK
<1> QED BY <1>2, <1>3, <1>4, <1>5, <1>6, <1>7, <1>8, <1>9, <1>10
        DEF NodeSyncNext, SyncTimePasses

\* The stages, and the requests a peer was sent, keep their types; no stage
\* asks more peers than three thresholds, which is what lets it time out.
THEOREM SyncTypeCorrect == NodeSyncSpec => []NodeSyncTypeOK
<1>1. NodeSyncInit => NodeSyncTypeOK
  <2> SUFFICES ASSUME NodeSyncInit PROVE NodeSyncTypeOK
    OBVIOUS
  <2>1. sleeps \in 0..MaxSleeps
    BY SyncBounds DEF NodeSyncInit
  <2> QED BY <2>1, ResetType DEF NodeSyncInit, NodeSyncTypeOK, SyncState
<1>2. NodeSyncTypeOK /\ [NodeSyncNext]_syncVars => NodeSyncTypeOK'
  BY NextSync
<1> QED BY <1>1, <1>2, PTL DEF NodeSyncSpec

-----------------------------------------------------------------------------
(* The parts together                                                      *)

\* A behaviour of the node is one of each of its parts: what is shown of a part
\* holds of it there.
THEOREM NodePartsAlone ==
    NodeSpec => Spec /\ BlockDownloadSpec /\ NodeSyncSpec /\ AddrManSpec
<1>1. AnyInit => Init /\ BlockDownloadInit /\ NodeSyncInit /\ AddrManInit
  BY DEF AnyInit
<1>2. [AnyNext]_<<nodeVars, part>> =>
          /\ [Next]_vars /\ [BlockDownloadNext]_dlVars /\ [NodeSyncNext]_syncVars
          /\ [AddrManNext]_addrVars
  BY DEF AnyNext, nodeVars
<1> QED BY <1>1, <1>2, PTL
        DEF NodeSpec, Spec, BlockDownloadSpec, NodeSyncSpec, AddrManSpec

\* All that a node keeps up with its peers, and its chain, holds what its types
\* say.
THEOREM NodeTypeCorrect == NodeSpec => []NodeTypeOK
BY NodePartsAlone, TypeCorrect, DownloadTypeCorrect, SyncTypeCorrect, AddrManTypeCorrect, PTL
   DEF NodeTypeOK

\* What is asked of which peer agrees with what is in flight, and the tables of
\* addresses agree and come back from peers.dat, next to all the node does.
THEOREM NodeSound == NodeSpec => [](RequestsAgree /\ TablesAgree /\ DumpRestores)
BY NodePartsAlone, RequestsAlwaysAgree, TablesAlwaysAgree, DumpAlwaysRestores, PTL
=============================================================================
