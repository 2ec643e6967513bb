------------------------------ MODULE BlockUndo ------------------------------
(***************************************************************************)
(* What ConnectBlock and DisconnectBlock do to the unspent outputs         *)
(* (main.cpp), and the undo data that lets one take back the other         *)
(* (undo.h).  Both work in a view that is dropped when they fail, so each  *)
(* is one step.                                                            *)
(*                                                                         *)
(* A transaction's outputs are known by their index; a CCoins is the set   *)
(* of the indices still unspent, with its metadata.  Blocks are sequences  *)
(* of transactions; zerocoin transactions, amounts and scripts are left    *)
(* out.                                                                    *)
(***************************************************************************)
EXTENDS Integers, Sequences, SequencesExt

CONSTANTS
    Txs,
    Kind,       \* Kind[t]: "coinbase", "coinstake" or "plain"
    Vin,        \* Vin[t]: the sequence of outpoints <<tx, index>> it spends
    Vout,       \* Vout[t]: the indices of its outputs
    Unspendable,\* the outpoints whose script is unspendable
    Blocks,     \* the blocks that may come: sequences of transactions
    Maturity,   \* COINBASE_MATURITY
    MaxHeight   \* bound: length of the chain

\* CheckTransaction: no input twice.  CheckBlock: the first transaction and no
\* other is the coinbase, and none is there twice.
ASSUME TxsAssumption ==
    \A t \in Txs :
        /\ Kind[t] \in {"coinbase", "coinstake", "plain"}
        /\ (Kind[t] = "coinbase") <=> Vin[t] = <<>>
        /\ Vin[t] \in Seq(Txs \X Nat) /\ IsInjective(Vin[t])
        /\ Vout[t] \subseteq Nat
ASSUME BlocksAssumption ==
    \A b \in Blocks :
        /\ b \in Seq(Txs) /\ IsInjective(b) /\ b # <<>>
        /\ \A i \in DOMAIN b : Kind[b[i]] = "coinbase" <=> i = 1
ASSUME BoundAssumption == Maturity \in Nat /\ MaxHeight \in Nat

VARIABLES
    connected,      \* the active chain above the genesis block
    undos,      \* the undo data on disk of each of its blocks
    coins       \* the unspent outputs: pcoinsTip

undoVars == <<connected, undos, coins>>

NoCoins == [outs |-> {}, base |-> FALSE, stake |-> FALSE, height |-> 0, version |-> 0]

\* A pruned CCoins is like any other (operator==).
IsPruned(c) == c.outs = {}
Same(c, d) == c = d \/ (IsPruned(c) /\ IsPruned(d))

\* CCoins::FromTx, with ClearUnspendable.
FromTx(t, h) ==
    [outs |-> {n \in Vout[t] : <<t, n>> \notin Unspendable},
     base |-> Kind[t] = "coinbase", stake |-> Kind[t] = "coinstake",
     height |-> h, version |-> 1]

UndoInit ==
    /\ connected = <<>>
    /\ undos = <<>>
    /\ coins = [t \in Txs |-> NoCoins]

-----------------------------------------------------------------------------
(* Undo data                                                               *)

\* CTxInUndo, made by CCoins::Spend: the metadata are kept with the last output.
SpendUndo(c, n) ==
    [n |-> n, base |-> c.base, stake |-> c.stake, height |-> c.height, version |-> c.version]
NoMetaUndo(n) == [n |-> n, base |-> FALSE, stake |-> FALSE, height |-> 0, version |-> 0]

Spend(c, n) ==
    [coins |-> [c EXCEPT !.outs = @ \ {n}],
     undo |-> IF c.outs = {n} THEN SpendUndo(c, n) ELSE NoMetaUndo(n)]

\* Mutant: the two flags are read the wrong way round.
StoredSwapped(u) ==
    [u EXCEPT !.base = u.stake, !.stake = u.base]

\* CTxInUndo::Serialize, then Unserialize: height and flags share one number;
\* the version is written when there is a height.
Stored(u) ==
    LET nCode == u.height * 4 + (IF u.base THEN 2 ELSE 0) + (IF u.stake THEN 1 ELSE 0)
        nHeight == nCode \div 4
    IN [n |-> u.n, base |-> (nCode \div 2) % 2 = 1, stake |-> nCode % 2 = 1,
        height |-> nHeight, version |-> IF nHeight > 0 THEN u.version ELSE 0]

-----------------------------------------------------------------------------
(* ConnectBlock                                                            *)

\* Mutant: an output matures one block early.
InputOKEarly(view, out, h) ==
    LET c == view[out[1]] IN
        /\ out[2] \in c.outs
        /\ c.base \/ c.stake => h - c.height >= Maturity - 1

\* HaveInputs, and CheckInputs' rule on coinbases and coinstakes.
InputOK(view, out, h) ==
    LET c == view[out[1]] IN
        /\ out[2] \in c.outs
        /\ c.base \/ c.stake => h - c.height >= Maturity

\* UpdateCoins spends one input.
SpendInput(acc, out) ==
    LET s == Spend(acc.view[out[1]], out[2]) IN
        [view |-> [acc.view EXCEPT ![out[1]] = s.coins], undo |-> Append(acc.undo, s.undo)]

Spendings(view, ins) ==
    LET spent[j \in 0..Len(ins)] ==
            IF j = 0 THEN [view |-> view, undo |-> <<>>] ELSE SpendInput(spent[j - 1], ins[j])
    IN  spent

\* One transaction of the block: the checks, then UpdateCoins.
ConnectTx(acc, t, h) ==
    IF acc.ok /\ \A i \in DOMAIN Vin[t] : InputOK(acc.view, Vin[t][i], h)
    THEN LET s == Spendings(acc.view, Vin[t])[Len(Vin[t])] IN
         [view |-> [s.view EXCEPT ![t] = FromTx(t, h)],
          undo |-> IF Kind[t] = "coinbase" THEN acc.undo ELSE Append(acc.undo, s.undo),
          ok |-> TRUE]
    ELSE [acc EXCEPT !.ok = FALSE]

Connections(b, h) ==
    LET after[i \in 0..Len(b)] ==
            IF i = 0 THEN [view |-> coins, undo |-> <<>>, ok |-> TRUE]
            ELSE ConnectTx(after[i - 1], b[i], h)
    IN  after

\* BIP30: no transaction of the block is there already, unless fully spent.
NotOverwriting(b) == \A i \in DOMAIN b : IsPruned(coins[b[i]])

ConnectBlock(b) ==
    /\ Len(connected) < MaxHeight
    /\ NotOverwriting(b)
    /\ LET h == Len(connected) + 1
           done == Connections(b, h)[Len(b)]
           stored == [i \in DOMAIN done.undo |->
                         [j \in DOMAIN done.undo[i] |-> Stored(done.undo[i][j])]]
       IN /\ done.ok
          /\ connected' = Append(connected, b)
          /\ undos' = Append(undos, stored)
          /\ coins' = done.view

-----------------------------------------------------------------------------
(* DisconnectBlock                                                         *)

\* One input is put back.  The metadata come from the undo data when it has a
\* height; fCoinStake is not among those copied.
Restore(c, u) ==
    LET base == IF u.height = 0 THEN c
                ELSE [NoCoins EXCEPT !.base = u.base, !.height = u.height,
                                     !.version = u.version]
    IN [coins |-> [base EXCEPT !.outs = @ \cup {u.n}],
        clean |-> /\ (u.height # 0) = IsPruned(c)
                  /\ u.n \notin base.outs]

RestoreInput(acc, out, u) ==
    LET r == Restore(acc.view[out[1]], u) IN
        [view |-> [acc.view EXCEPT ![out[1]] = r.coins], clean |-> acc.clean /\ r.clean]

\* The last input is the first to be put back.
Restorings(acc, ins, undo) ==
    LET n == Len(ins)
        restored[k \in 0..n] ==
            IF k = 0 THEN acc
            ELSE RestoreInput(restored[k - 1], ins[n + 1 - k], undo[n + 1 - k])
    IN  restored

\* One transaction is taken back: its outputs must be as they were made.
DisconnectTx(acc, t, undo, h) ==
    LET outs == acc.view[t]
        removed == [view |-> [acc.view EXCEPT ![t] = NoCoins],
                    clean |-> acc.clean /\ Same(outs, FromTx(t, h))]
    IN Restorings(removed, Vin[t], undo)[Len(Vin[t])]

\* The block b, at height h, is taken back, last transaction first; the coinbase,
\* which is the first, has no undo data.
Disconnections(view, b, undo, h) ==
    LET n == Len(b)
        undone[k \in 0..n] ==
            IF k = 0 THEN [view |-> view, clean |-> TRUE]
            ELSE DisconnectTx(undone[k - 1], b[n + 1 - k],
                              IF k = n THEN <<>> ELSE undo[n - k], h)
    IN  undone
Undone(view, b, undo, h) == Disconnections(view, b, undo, h)[Len(b)]

DisconnectBlock ==
    /\ connected # <<>>
    /\ LET h == Len(connected)
           done == Undone(coins, connected[h], undos[h], h)
       IN /\ done.clean
          /\ coins' = done.view
          /\ connected' = Front(connected)
          /\ undos' = Front(undos)

UndoNext == DisconnectBlock \/ \E b \in Blocks : ConnectBlock(b)

UndoSpec == UndoInit /\ [][UndoNext]_undoVars

-----------------------------------------------------------------------------
(* Properties                                                              *)

\* Where transaction t is in a chain: <<height, place>>.
Places(chain, t) ==
    UNION {{<<h, i>> : i \in {j \in DOMAIN chain[h] : chain[h][j] = t}} : h \in DOMAIN chain}
Later(p, q) == p[1] > q[1] \/ (p[1] = q[1] /\ p[2] > q[2])
LastOf(places) == CHOOSE p \in places : \A q \in places \ {p} : Later(p, q)
LastPlace(chain, t) == LastOf(Places(chain, t))

\* The outputs of t the chain has not spent since the place p.
UnspentSince(chain, t, p) ==
    {n \in FromTx(t, 0).outs :
        ~\E u \in Txs : \E q \in Places(chain, u) :
            Later(q, p) /\ \E i \in DOMAIN Vin[u] : Vin[u][i] = <<t, n>>}

\* The unspent outputs of t, and their metadata, as the chain determines them.
Determined(chain, t) ==
    LET p == LastPlace(chain, t)
    IN  IF Places(chain, t) = {} THEN NoCoins
        ELSE [FromTx(t, p[1]) EXCEPT !.outs = UnspentSince(chain, t, p)]
Matches(view, chain) == \A t \in Txs : Same(view[t], Determined(chain, t))

\* The transactions of blocks, and the outputs of t that none of them spends.
Sent == {t \in Txs : \E b \in Blocks : \E i \in DOMAIN b : b[i] = t}
Kept(t) ==
    {n \in FromTx(t, 0).outs : \A u \in Sent : \A i \in DOMAIN Vin[u] : Vin[u][i] # <<t, n>>}

\* No block spends a coinstake's last output: once spent whole, a coinstake comes
\* back without its fCoinStake.
StakesKept == \A t \in Txs : Kind[t] = "coinstake" => Kept(t) # {}

\* After any sequence of blocks connected and disconnected, the unspent outputs
\* and their metadata are those the chain itself determines: DisconnectBlock
\* does "undo the effects of this block" (main.h), and of the tip it can always
\* be done, with no "database corrupted".
CoinsMatchChain ==
    /\ Matches(coins, connected)
    /\ connected # <<>> => Undone(coins, Last(connected), Last(undos), Len(connected)).clean

\* No chain the node accepts spends the output of a coinbase or a coinstake
\* before it has matured.
Matured(chain) ==
    \A t, u \in Txs : Kind[u] # "plain" =>
        \A p \in Places(chain, t), q \in Places(chain, u) :
            (\E i \in DOMAIN Vin[t] : Vin[t][i][1] = u) /\ Later(p, q) => p[1] - q[1] >= Maturity
MaturityKept == Matured(connected)
=============================================================================
