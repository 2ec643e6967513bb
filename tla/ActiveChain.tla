----------------------------- MODULE ActiveChain -----------------------------
(***************************************************************************)
(* What the active chain promises to whoever takes cs_main, to the coins   *)
(* and to a restart.  Three tips: the one that is shown between the        *)
(* sections of cs_main, the one the coins in memory have got to, and the   *)
(* one of the coins on disk.                                               *)
(*                                                                         *)
(* A reorganisation takes blocks off the old branch, then puts blocks of   *)
(* the new one on, and is shown when it is worth more ("We're in a better  *)
(* position than we were"), or as much at its end.  Work is lost only to a *)
(* block that turns out invalid on the way, to an operator, or to a crash, *)
(* which leaves the tip of the coins on disk.                              *)
(***************************************************************************)
EXTENDS Integers

CONSTANTS
    Blocks, Genesis, Parent, Anc, Work,   \* the block tree of ChainState
    None,
    MostReprocessed   \* how many blocks one reprocessing takes off at most

VARIABLES
    running,    \* whether the process runs
    shown,      \* the tip
    coins,      \* the block of the coins in memory
    saved,      \* the block of the coins on disk
    invalid,    \* the blocks found or declared invalid
    doing,      \* "rest", or why the chain is being changed
    target,     \* the block an operator declared invalid
    left        \* how many blocks may still be taken off to be reprocessed

chain == <<running, shown, coins, saved>>
task == <<doing, target, left>>
all == <<running, shown, coins, saved, invalid, doing, target, left>>

Resting == doing' = "rest" /\ target' = None /\ left' = 0

Init ==
    /\ running = TRUE
    /\ shown = Genesis /\ coins = Genesis /\ saved = Genesis
    /\ invalid = {}
    /\ doing = "rest" /\ target = None /\ left = 0

\* Marks come and go, but none comes on the chain.
Learn ==
    /\ running /\ doing = "rest"
    /\ invalid' \subseteq Blocks /\ (invalid' \ invalid) \cap Anc[shown] = {}
    /\ UNCHANGED <<chain, task>>

Activate ==
    /\ running /\ doing = "rest" /\ doing' = "activate"
    /\ UNCHANGED <<chain, invalid, target, left>>

Invalidate(b) ==
    /\ running /\ doing = "rest" /\ doing' = "invalidate"
    /\ target' = b /\ invalid' = invalid \cup {b}
    /\ UNCHANGED <<chain, left>>

Reprocess ==
    /\ running /\ doing = "rest" /\ doing' = "reprocess"
    /\ left' = MostReprocessed
    /\ UNCHANGED <<chain, invalid, target>>

\* A block is taken off: one of the shown chain, before any is put on.
TakeOff ==
    /\ running /\ coins # Genesis /\ coins \in Anc[shown]
    /\ \/ doing = "activate" /\ left' = left
       \/ doing = "invalidate" /\ coins = shown /\ target \in Anc[shown] /\ left' = left
       \/ doing = "reprocess" /\ coins = shown /\ left > 0 /\ left' = left - 1
    /\ coins' = Parent[coins]
    /\ UNCHANGED <<running, shown, saved, invalid, doing, target>>

\* One that cannot be is passed over.
PassOver ==
    /\ running /\ doing = "reprocess" /\ left > 0 /\ left' = left - 1
    /\ UNCHANGED <<chain, invalid, doing, target>>

\* What comes next on a branch that is worth nothing more so far.
Next(b) ==
    /\ running /\ doing = "activate"
    /\ b # Genesis /\ Parent[b] = coins
    /\ b \notin Anc[shown] \cup invalid
    /\ Work[coins] <= Work[shown]

PutOn(b) ==
    /\ Next(b) /\ coins' = b
    /\ UNCHANGED <<running, shown, saved, invalid, task>>

\* The next block is invalid: what has been put on so far is what there is.
Refuse(b) ==
    /\ Next(b) /\ invalid' = invalid \cup {b}
    /\ shown' = coins /\ Resting
    /\ UNCHANGED <<running, coins, saved>>

\* Another chain, worth at least as much, is what the tip is taken from.
Settle ==
    /\ running /\ doing = "activate"
    /\ coins # shown /\ Work[coins] >= Work[shown]
    /\ shown' = coins /\ Resting
    /\ UNCHANGED <<running, coins, saved, invalid>>

\* An operator's doing is shown block by block, to its end.
Show ==
    /\ running /\ doing \in {"invalidate", "reprocess"}
    /\ shown' = coins
    /\ UNCHANGED <<running, coins, saved, invalid, task>>

Finish ==
    /\ running /\ coins = shown
    /\ \/ doing = "invalidate" /\ target \notin Anc[shown]
       \/ doing = "reprocess" /\ left = 0
    /\ Resting
    /\ UNCHANGED <<chain, invalid>>

Save ==
    /\ running /\ saved' = coins
    /\ UNCHANGED <<running, shown, coins, invalid, task>>

\* Marks that were not written are lost, and those written over come back.
Die ==
    /\ running /\ running' = FALSE
    /\ shown' = saved /\ coins' = saved
    /\ invalid' \subseteq Blocks /\ Resting
    /\ UNCHANGED saved

Start ==
    /\ ~running /\ running' = TRUE
    /\ UNCHANGED <<shown, coins, saved, invalid, task>>

\* -reindex: what is on disk cannot be used.
StartOver ==
    /\ ~running /\ running' = TRUE
    /\ shown' = Genesis /\ coins' = Genesis /\ saved' = Genesis
    /\ invalid' = {}
    /\ UNCHANGED task

Step ==
    \/ \E b \in Blocks : Invalidate(b) \/ PutOn(b) \/ Refuse(b)
    \/ Learn \/ Activate \/ Reprocess \/ TakeOff \/ PassOver
    \/ Settle \/ Show \/ Finish \/ Save
    \/ Die \/ Start \/ StartOver

Spec == Init /\ [][Step]_all
=============================================================================
