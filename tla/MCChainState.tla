---------------------------- MODULE MCChainState ----------------------------
(* Two branches from genesis, gen - a1 - a2 and gen - b1 - b2; every block  *)
(* has the same proof, so that a1 ties with b1 and a2 with b2.             *)
EXTENDS ChainState, TLC

CONSTANTS gen, a1, a2, b1, b2, t1, t2

MCParent == [x \in Blocks \ {gen} |-> CASE x = a2 -> a1 [] x = b2 -> b1 [] OTHER -> gen]
MCAnc == [x \in Blocks |->
            CASE x = a2 -> {gen, a1, a2} [] x = b2 -> {gen, b1, b2} [] OTHER -> {gen, x}]
MCWork == [x \in Blocks |-> Cardinality(MCAnc[x])]
MCRank == [x \in Blocks |->
            CASE x = gen -> 0 [] x = a1 -> 1 [] x = b1 -> 2 [] x = a2 -> 4 [] x = b2 -> 3]

\* The threads are interchangeable.
Symmetry == Permutations({t1, t2})

\* Bound: two threads are looked at as long as nothing is done by the operator
\* and nothing crashes, one thread at a time from then on.
OneThing ==
    (crashes = 0 /\ ops = 0) \/ Cardinality({t \in Threads : pc[t] # "idle"}) <= 1
=============================================================================
