------------------------------- MODULE Spork -------------------------------
(***************************************************************************)
(* Network parameters that a key holder changes at run time (spork.cpp,    *)
(* sporkdb.cpp): one spork id on several nodes.                            *)
(*                                                                         *)
(* A message carries a time and the key it was signed with; `no' tells the *)
(* messages of one second apart.  Neither mapSporks nor mapSporksActive    *)
(* has a lock: ProcessSpork, in the message thread, is two actions, before *)
(* and after its checks, and UpdateSpork, in an RPC thread, may come       *)
(* between them.  Connections do not lose messages; a restart does.        *)
(***************************************************************************)
EXTENDS Integers, FiniteSets

CONSTANTS
    SporkNodes,
    Signers,            \* the nodes that were given the new key (-sporkkey)
    NewSporkStart,      \* from this time on only the new key may sign
    RejectOldSporkKey,  \* from this time on no old signature is accepted
    MaxSporkTime,       \* bound: the clock stops here
    MaxUpdates,         \* bound on calls of UpdateSpork
    MaxRestarts         \* bound on crashes of nodes

ASSUME SignersAreNodes == Signers \subseteq SporkNodes
ASSUME SporkTimes == /\ NewSporkStart \in Nat /\ RejectOldSporkKey \in Nat
                     /\ MaxSporkTime \in Nat
ASSUME SporkBounds == MaxUpdates \in Nat /\ MaxRestarts \in Nat

VARIABLES
    active,        \* mapSporksActive: the message in force, or none
    known,         \* mapSporks, by which inventories are answered
    sporkDB,       \* the database: what was written last, or nothing
    checked,       \* the message ProcessSpork has accepted and not yet stored
    inFlight,      \* messages on their way: receiver and message
    asks,          \* getsporks messages on their way: asker and asked
    sporkTime,     \* the clock
    updates, restarts,
    raced          \* history: UpdateSpork ran inside ProcessSpork

sporkVars == <<active, known, sporkDB, checked, inFlight, asks, sporkTime,
               updates, restarts, raced>>

Keys == {"old", "new"}
Message == [at : 0..MaxSporkTime, no : 0..MaxUpdates, key : Keys]
Legacy == [at |-> 0, no |-> 0, key |-> "old"]   \* signed before the change of keys

Others(n) == SporkNodes \ {n}
\* RelayInv, the getdata and the answer; a node that has it does not ask.
Relayed(n, m) == {<<p, m>> : p \in {q \in Others(n) : m \notin known[q]}}

SporkInit ==
    /\ active = [n \in SporkNodes |-> {}]
    /\ known = [n \in SporkNodes |-> {}]
    /\ sporkDB = [n \in SporkNodes |-> {}]
    /\ checked = [n \in SporkNodes |-> {}]
    /\ inFlight \in {{}} \cup {{<<n, Legacy>>} : n \in SporkNodes}
    /\ asks = {a \in SporkNodes \X SporkNodes : a[1] # a[2]}
    /\ sporkTime = 0 /\ updates = 0 /\ restarts = 0
    /\ raced = FALSE

-----------------------------------------------------------------------------
\* CheckSignature, with fCheckSigner from NewSporkStart on.
SignatureOK(m) ==
    m.key = "new" \/ (m.at < NewSporkStart /\ sporkTime < RejectOldSporkKey)

\* Mutant: a message is accepted whatever the time it was signed.
NewerAny(n, m) == TRUE

Newer(n, m) == \A a \in active[n] : a.at < m.at

\* ProcessSpork up to its checks: what fails them is dropped.
ReceiveSpork(n, m) ==
    /\ <<n, m>> \in inFlight /\ checked[n] = {}
    /\ inFlight' = inFlight \ {<<n, m>>}
    /\ checked' = [checked EXCEPT ![n] =
                      IF Newer(n, m) /\ SignatureOK(m) THEN {m} ELSE {}]
    /\ UNCHANGED <<active, known, sporkDB, asks, sporkTime, updates, restarts, raced>>

\* The rest of ProcessSpork: both maps, the relay, the database.
StoreSpork(n) ==
    /\ \E m \in checked[n] :
          /\ active' = [active EXCEPT ![n] = {m}]
          /\ known' = [known EXCEPT ![n] = @ \cup {m}]
          /\ sporkDB' = [sporkDB EXCEPT ![n] = {m}]
          /\ inFlight' = inFlight \cup Relayed(n, m)
    /\ checked' = [checked EXCEPT ![n] = {}]
    /\ UNCHANGED <<asks, sporkTime, updates, restarts, raced>>

\* "getsporks": the node sends what is in force.
AnswerGetSporks(n, p) ==
    /\ <<n, p>> \in asks
    /\ asks' = asks \ {<<n, p>>}
    /\ inFlight' = inFlight \cup {<<n, m>> : m \in active[p]}
    /\ UNCHANGED <<active, known, sporkDB, checked, sporkTime, updates,
                   restarts, raced>>

\* UpdateSpork: no look at the time of the spork in force, and no write to
\* the database.
UpdateSpork(n) ==
    /\ n \in Signers /\ updates < MaxUpdates
    /\ LET m == [at |-> sporkTime, no |-> updates + 1, key |-> "new"]
       IN /\ inFlight' = inFlight \cup Relayed(n, m)
          /\ known' = [known EXCEPT ![n] = @ \cup {m}]
          /\ active' = [active EXCEPT ![n] = {m}]
    /\ updates' = updates + 1
    /\ raced' = (raced \/ checked[n] # {})
    /\ UNCHANGED <<sporkDB, checked, asks, sporkTime, restarts>>

\* LoadSporksFromDB after a crash or a stop; the node asks its peers again
\* (NodeSync's first stage), and they announce nothing to it by themselves.
RestartNode(n) ==
    /\ restarts < MaxRestarts /\ restarts' = restarts + 1
    /\ active' = [active EXCEPT ![n] = sporkDB[n]]
    /\ known' = [known EXCEPT ![n] = sporkDB[n]]
    /\ checked' = [checked EXCEPT ![n] = {}]
    /\ inFlight' = {f \in inFlight : f[1] # n}
    /\ asks' = {a \in asks : n \notin {a[1], a[2]}}
               \cup {<<n, p>> : p \in Others(n)} \cup {<<p, n>> : p \in Others(n)}
    /\ UNCHANGED <<sporkDB, sporkTime, updates, raced>>

SporkTick ==
    /\ sporkTime < MaxSporkTime /\ sporkTime' = sporkTime + 1
    /\ UNCHANGED <<active, known, sporkDB, checked, inFlight, asks, updates,
                   restarts, raced>>

SporkDelivery ==
    \/ \E n \in SporkNodes, m \in Message : ReceiveSpork(n, m)
    \/ \E n \in SporkNodes : StoreSpork(n)
    \/ \E n, p \in SporkNodes : AnswerGetSporks(n, p)

SporkNext ==
    \/ SporkDelivery
    \/ \E n \in SporkNodes : UpdateSpork(n) \/ RestartNode(n)
    \/ SporkTick

SporkSpec == SporkInit /\ [][SporkNext]_sporkVars

-----------------------------------------------------------------------------
\* Types of the variables.
SporkTypeOK ==
    /\ active \in [SporkNodes -> SUBSET Message]
    /\ known \in [SporkNodes -> SUBSET Message]
    /\ sporkDB \in [SporkNodes -> SUBSET Message]
    /\ checked \in [SporkNodes -> SUBSET Message]
    /\ inFlight \in SUBSET (SporkNodes \X Message)
    /\ asks \in SUBSET (SporkNodes \X SporkNodes)
    /\ sporkTime \in 0..MaxSporkTime
    /\ updates \in 0..MaxUpdates /\ restarts \in 0..MaxRestarts
    /\ raced \in BOOLEAN

\* What the code leaves open: two messages of one second, of which each node
\* keeps the one it saw first; an update between the checks and the store of
\* an older message; a message with the old signature, which only nodes that
\* got it in time accept.
Ambiguous ==
    \/ raced
    \/ \E n, p \in SporkNodes : \E a \in known[n], b \in known[p] :
          a # b /\ a.at = b.at
    \/ \E n \in SporkNodes : Legacy \in active[n]

\* When nothing is under way any more, all nodes have the same value in force,
\* whatever the order of messages and restarts: the newest wins, a node that
\* lost an update it never wrote gets it back, and old messages that come again
\* change nothing.
SporksConverge ==
    inFlight = {} /\ asks = {} /\ (\A n \in SporkNodes : checked[n] = {})
        => Ambiguous \/ \A n, p \in SporkNodes : active[n] = active[p]
=============================================================================
