----------------------------- MODULE StepLemmas -----------------------------
(***************************************************************************)
(* What the proofs about loops share.  A loop over a sequence of length n  *)
(* is a recursive function on 0..n, its value at i the state after i       *)
(* rounds.  Such a function exists, and what holds at 0 and is kept by each *)
(* step holds at n: otherwise there would be a least i at which it fails.  *)
(***************************************************************************)
EXTENDS Integers, WellFoundedInduction, NaturalsInduction, TLAPS

\* A nonempty set of natural numbers has a least element.
LEMMA LeastElement ==
    ASSUME NEW T \in SUBSET Nat, T # {}
    PROVE  \E m \in T : \A k \in T : m <= k
<1> DEFINE R == OpToRel(<, Nat)
<1>1. IsWellFoundedOn(R, Nat)
      BY NatLessThanWellFounded
<1>2. PICK m \in T : \A k \in T : ~ (<<k, m>> \in R)
      BY <1>1, WFMin
<1>3. \A k \in T : ~ (k < m)
      BY <1>2 DEF OpToRel
<1> HIDE DEF R
<1>4. \A k \in T : m <= k BY <1>2, <1>3
<1> QED BY <1>2, <1>4

LEMMA StepByStep ==
    ASSUME NEW n \in Nat, NEW S, 0 \in S,
           \A i \in 1..n : i - 1 \in S => i \in S
    PROVE  \A i \in 0..n : i \in S
<1>1. SUFFICES ASSUME NEW j \in 0..n, j \notin S PROVE FALSE OBVIOUS
<1>2. PICK T : T = {i \in 0..n : i \notin S} OBVIOUS
<1>3. T \in SUBSET Nat /\ j \in T BY <1>1, <1>2
<1>4. PICK m \in T : \A k \in T : m <= k BY <1>3, LeastElement
<1>5. m \in 1..n /\ m - 1 \in 0..n /\ m - 1 < m BY <1>2, <1>4
<1>6. m - 1 \in S BY <1>2, <1>4, <1>5
<1> QED BY <1>2, <1>4, <1>5, <1>6

\* f is the state after each of n steps, whatever the steps are.
Steps(step, n, S) == n \in Nat /\ step \in [1..n -> [S -> S]]
IsFold(f, n, S, start, step) ==
    f \in [0..n -> S] /\ f[0] = start /\ \A i \in 1..n : f[i] = step[i][f[i - 1]]
LEMMA FoldExists ==
    ASSUME NEW n, NEW S, NEW start \in S, NEW step, Steps(step, n, S)
    PROVE  \E f : IsFold(f, n, S, start, step)
<1>0. n \in Nat /\ step \in [1..n -> [S -> S]] BY DEF Steps
<1> DEFINE Upto(k) == {f \in [0..k -> S] :
                          f[0] = start /\ \A i \in 1..k : f[i] = step[i][f[i - 1]]}
<1>1. PICK T : T = {k \in Nat : \E f : f \in Upto(k)} OBVIOUS
<1>2. 0 \in T
    <2>1. PICK f : f = [i \in 0..0 |-> start] OBVIOUS
    <2>2. f \in [0..0 -> S] /\ f[0] = start BY <2>1
    <2>3. f \in Upto(0) BY <2>2
    <2> QED BY <1>1, <2>3
<1>3. ASSUME NEW k \in 1..n, k - 1 \in T PROVE k \in T
    <2>1. PICK f : f \in Upto(k - 1) BY <1>1, <1>3
    <2>2. /\ f \in [0..k - 1 -> S] /\ f[0] = start
          /\ \A i \in 1..k - 1 : f[i] = step[i][f[i - 1]]
          BY <2>1
    <2>3. f[k - 1] \in S BY <2>2
    <2>4. PICK x \in S : x = step[k][f[k - 1]] BY <1>0, <2>3
    <2>5. PICK g : g = [i \in 0..k |-> IF i = k THEN x ELSE f[i]] OBVIOUS
    <2>6. g \in [0..k -> S] BY <2>2, <2>5
    <2>7. g[0] = start BY <2>2, <2>5
    <2>8. ASSUME NEW i \in 1..k PROVE g[i] = step[i][g[i - 1]]
        <3>1. g[i - 1] = f[i - 1] BY <1>0, <2>5
        <3>2. CASE i = k
            <4>1. g[i] = x BY <2>5, <3>2
            <4>2. g[i - 1] = f[k - 1] BY <3>1, <3>2
            <4> QED BY <2>4, <3>2, <4>1, <4>2
        <3>3. CASE i # k
            <4>1. i \in 1..k - 1 BY <3>3
            <4>2. g[i] = f[i] BY <2>5, <3>3
            <4> QED BY <2>2, <3>1, <4>1, <4>2
        <3> QED BY <3>2, <3>3
    <2>9. g \in Upto(k) BY <2>6, <2>7, <2>8
    <2> QED BY <1>1, <2>9
<1>4. n \in T
    <2>1. \A i \in 0..n : i \in T BY <1>0, <1>2, <1>3, StepByStep
    <2> QED BY <1>0, <2>1
<1> QED BY <1>1, <1>4 DEF IsFold
=============================================================================
