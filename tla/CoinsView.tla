------------------------------ MODULE CoinsView ------------------------------
(***************************************************************************)
(* What the stack of coin views promises (coins.h, CCoinsView): the coin   *)
(* database, pcoinsTip and the view a block is connected in are three maps *)
(* of coins, each with the block "whose state this CCoinsView currently    *)
(* represents".  A view is committed to pcoinsTip or dropped as a whole,   *)
(* pcoinsTip is written to the database as a whole, and coins never move   *)
(* without their block, except that a write that fails loses the coins of  *)
(* pcoinsTip and not its block.                                            *)
(***************************************************************************)

CONSTANTS
    Txids,
    Coins,      \* what a transaction's CCoins may hold while an output is unspent
    Pruned,     \* a CCoins with every output spent, or none at all
    NoTx,
    Hashes,     \* block hashes
    After       \* After[h]: the coins when h is the best block

VARIABLES
    disk,       \* CCoinsViewDB
    tip,        \* pcoinsTip
    view,       \* ConnectTip's or DisconnectTip's view; tip when there is none
    modifying   \* the transaction whose coins are being changed in the view

State(h) == [coins |-> After[h], best |-> h]

Init ==
    /\ \E h \in Hashes : disk = State(h)
    /\ tip = disk
    /\ view = disk
    /\ modifying = NoTx

\* A CCoinsModifier is created and destroyed; only in between do coins change.
Modify(t) ==
    /\ modifying = NoTx
    /\ modifying' = t
    /\ UNCHANGED <<disk, tip, view>>

Write(c) ==
    /\ modifying # NoTx
    /\ view' = [view EXCEPT !.coins = [@ EXCEPT ![modifying] = c]]
    /\ UNCHANGED <<disk, tip, modifying>>

Release ==
    /\ modifying' = NoTx
    /\ UNCHANGED <<disk, tip, view>>

\* ConnectBlock or DisconnectBlock has turned the view into the state of h.
Commit(h) ==
    /\ modifying = NoTx
    /\ view.coins = After[h]
    /\ tip' = State(h)
    /\ view' = State(h)
    /\ UNCHANGED <<disk, modifying>>

Discard ==
    /\ modifying = NoTx
    /\ view' = tip
    /\ UNCHANGED <<disk, tip, modifying>>

Flush ==
    /\ disk' = tip
    /\ UNCHANGED <<tip, view, modifying>>

WriteFails ==
    /\ view = tip
    /\ tip' = [tip EXCEPT !.coins = disk.coins]
    /\ view' = tip'
    /\ UNCHANGED <<disk, modifying>>

Crash ==
    /\ tip' = disk
    /\ view' = disk
    /\ modifying' = NoTx
    /\ UNCHANGED disk

Next ==
    \/ \E t \in Txids : Modify(t)
    \/ \E c \in Coins \cup {Pruned} : Write(c)
    \/ \E h \in Hashes : Commit(h)
    \/ Release \/ Discard \/ Flush \/ WriteFails \/ Crash

Spec == Init /\ [][Next]_<<disk, tip, view, modifying>>
=============================================================================
