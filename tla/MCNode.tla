-------------------------------- MODULE MCNode --------------------------------
(* What a node keeps up with its peers: the block requests, over a chain of  *)
(* blocks, the stages of the synchronisation and the addresses; and, with    *)
(* the tree of MCChainState, what its operator's commands do to its chain.   *)
(* A behaviour is one of the part chosen at the start.                       *)
EXTENDS MCChainState, BlockDownload, NodeSync, AddrMan

CONSTANTS Parts, p1, p2, x1, x2, e1, e2, e3

MCHeight == gen :> 0 @@ x1 :> 1 @@ x2 :> 2
MCBranch == gen :> {gen} @@ x1 :> {gen, x1} @@ x2 :> {gen, x1, x2}

\* All three addresses want the same place in new bucket 1, and two the same in
\* bucket 2; two want the same tried place.  One older file has entries that
\* collide in the new table, one in the tried table.
MCNewBucket == [x \in Addresses \X Sources |-> x[2]]
MCNewPosition == [x \in Addresses \X NewBuckets |-> IF x = <<e1, 2>> THEN 2 ELSE 1]
MCTriedSlot == [a \in Addresses |-> IF a = e3 THEN 2 ELSE 1]
MCFile(entries, tried) ==
    [own |-> FALSE, complete |-> TRUE, entries |-> entries, tried |-> tried,
     source |-> [a \in Addresses |-> 1],
     nNew |-> Cardinality(entries), nTried |-> Cardinality(tried)]
MCOlderFiles == {MCFile({e1, e2}, {e3}), MCFile({e3}, {e1, e2})}

VARIABLE part

nodeVars == <<vars, dlVars, syncVars, addrVars>>

AnyInit == /\ Init /\ BlockDownloadInit /\ NodeSyncInit /\ AddrManInit
           /\ part \in Parts
           /\ part # "sync" => tipRecent
           /\ part # "addresses" => peersDat = Unreadable
AnyNext ==
    \/ /\ part = "chain" /\ Next
       /\ UNCHANGED <<dlVars, syncVars, addrVars, part>>
    \/ /\ part = "blocks" /\ BlockDownloadNext
       /\ UNCHANGED <<vars, syncVars, addrVars, part>>
    \/ /\ part = "sync" /\ NodeSyncNext
       /\ UNCHANGED <<vars, dlVars, addrVars, part>>
    \/ /\ part = "addresses" /\ AddrManNext
       /\ UNCHANGED <<vars, dlVars, syncVars, part>>
    \* Peers may all be gone and nothing more to do; the chain always goes on.
    \/ part # "chain" /\ UNCHANGED <<nodeVars, part>>

\* Messages that are under way arrive, the main loop of the threads goes round,
\* peers that were lost are replaced, time passes; who holds cs_main goes on,
\* and who can have it takes it.
NodeSpec ==
    /\ AnyInit /\ [][AnyNext]_<<nodeVars, part>>
    /\ \A p \in DlPeers :
          /\ WF_dlVars(part = "blocks" /\ Overdue(p))
          /\ WF_dlVars(part = "blocks" /\ GiveUp(p))
          /\ WF_dlVars(part = "blocks" /\ FinalizeNode(p))
    /\ SF_syncVars(part = "sync" /\ GoodProcess)
    /\ WF_syncVars(part = "sync" /\ SyncTimePasses)
    /\ \A p \in SyncPeers : WF_syncVars(part = "sync" /\ NewPeer(p))
    /\ WF_vars(part = "chain" /\ SectionStep)
    /\ \A t \in Threads : WF_vars(part = "chain" /\ ThreadStep(t))
    /\ WF_syncVars(part = "sync" /\ ~tipRecent /\ TipMoves)

\* Types of the parts.
NodeTypeOK ==
    TypeOK /\ BlockDownloadTypeOK /\ NodeSyncTypeOK /\ AddrManTypeOK

\* Where the synchronisation is what goes on, every stage of it ends.
SynchronisationEnds == part = "sync" => EveryStageEnds

\* The chain's own liveness, where the chain is what goes on.
ChainActivationEnds == part = "chain" => ActivationEnds
=============================================================================
