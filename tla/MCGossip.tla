------------------------------- MODULE MCGossip -------------------------------
(* Two transactions that share one input, each with one of its own; three  *)
(* masternodes, two of whose votes make a lock complete.  And, as parts of  *)
(* their own, the sporks that switch the locks on and off, the list of those*)
(* who vote, their votes for two payees and the hashes they are ranked by.  *)
(* A behaviour is one of the part chosen at the start.                      *)
EXTENDS SwiftTX, Spork, MasternodeList, Payments, BlockHashes, TLC

CONSTANTS Parts, t1, t2, o1, o2, o3, n1, n2, n3, y1, y2, hot, cold

MCVin == (t1 :> {o1, o2}) @@ (t2 :> {o2, o3})

\* BlockHashes: two branches from the first block.
MCHashBlocks == {"g", "c1", "c2", "c3", "d2", "d3"}
MCHashBranch == [b \in MCHashBlocks |->
    CASE b = "c2" -> {"g", "c1", "c2"} [] b = "c3" -> {"g", "c1", "c2", "c3"}
      [] b = "d2" -> {"g", "c1", "d2"} [] b = "d3" -> {"g", "c1", "d2", "d3"}
      [] OTHER -> {"g", b}]
MCAskedHeights == {-1, 0, 2}   \* an empty vote, the tip, a lock

\* The other masternodes are interchangeable, and so are the transactions if
\* their own inputs change places with them, and the payees.
Symmetry == Permutations({n1, n2, n3} \ {Self})
            \cup {t1 :> t2 @@ t2 :> t1 @@ o1 :> o3 @@ o3 :> o1 @@ y1 :> y2 @@ y2 :> y1}

VARIABLE part

gossipVars == <<vars, sporkVars, mnVars, payVars, hashVars>>

AnyInit == /\ Init /\ SporkInit /\ MasternodeListInit /\ PaymentsInit /\ HashInit
           /\ part \in Parts
           /\ part # "sporks" => inFlight = {}
AnyNext ==
    \/ /\ part = "locks" /\ Next
       /\ UNCHANGED <<sporkVars, mnVars, payVars, hashVars, part>>
    \/ /\ part = "sporks" /\ SporkNext
       /\ UNCHANGED <<vars, mnVars, payVars, hashVars, part>>
    \/ /\ part = "list" /\ MasternodeListNext
       /\ UNCHANGED <<vars, sporkVars, payVars, hashVars, part>>
    \/ /\ part = "payments" /\ PaymentsNext
       /\ UNCHANGED <<vars, sporkVars, mnVars, hashVars, part>>
    \/ /\ part = "hashes" /\ HashNext
       /\ UNCHANGED <<vars, sporkVars, mnVars, payVars, part>>

GossipSpec == AnyInit /\ [][AnyNext]_<<gossipVars, part>>

\* Time passes, and the lists of locks and of masternodes are cleaned every
\* minute; the masternode's pings reach the wallet's node, and so do its
\* broadcasts, if they are offered often enough.
FairGossipSpec ==
    /\ GossipSpec
    /\ WF_vars(part = "locks" /\ CleanTransactionLocksList)
    /\ \A t \in Txs : WF_vars(part = "locks" /\ Expire(t))
    /\ WF_mnVars(part = "list" /\ TimePasses)
    /\ \A n \in ListNodes : WF_mnVars(part = "list" /\ Cleans(n))
    /\ WF_mnVars(part = "list" /\ HearsPing(Cold, Hot))
    /\ SF_mnVars(part = "list" /\ HearsBroadcast(Cold, Hot))

\* Types of the parts.
GossipTypeOK ==
    /\ TypeOK /\ SporkTypeOK /\ MasternodeListTypeOK
    /\ PaymentsTypeOK /\ HashTypeOK
=============================================================================
