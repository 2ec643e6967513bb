------------------------------- MODULE MCDaemon -------------------------------
(* The parts of one daemon that share no state with the others: the script   *)
(* checks, the scheduler and the HTTP server, which are threads around a     *)
(* queue, and the coin caches, the undo data, the zerocoin records, and the  *)
(* memory pool with its orphans or with the wallet, which cs_main protects.  *)
(* A behaviour is one of the part chosen at the start.                       *)
EXTENDS CheckQueue, Scheduler, WorkQueue, CoinsCache, BlockUndo, Zerocoin, Wallet, TLC

CONSTANTS
    Parts,
    StakeSpentWhole   \* whether a block may spend a coinstake's last output

\* CoinsCache: two transactions that come, change, go and come back.
MCAfter ==
    ("h0" :> ("t1" :> Pruned @@ "t2" :> "c1")) @@ ("h1" :> ("t1" :> "c1" @@ "t2" :> Pruned)) @@
    ("h2" :> ("t1" :> Pruned @@ "t2" :> Pruned)) @@ ("h3" :> ("t1" :> "c2" @@ "t2" :> "c1"))

\* BlockUndo: three coinbases, two coinstakes, and payments: one that spends a
\* transaction of its own block, one that spends two outputs of another, one
\* that is spent whole.
MCTxs == {"cb1", "cb2", "cb3", "st", "pay", "chg", "all", "whole"}
MCKind == [t \in MCTxs |-> CASE t \in {"cb1", "cb2", "cb3"} -> "coinbase"
                             [] t = "st" -> "coinstake"
                             [] OTHER -> "plain"]
MCVin == [t \in MCTxs |->
    CASE t = "st" -> <<<<"cb1", 0>>>>
      [] t = "pay" -> <<<<"cb1", 1>>, <<"st", 0>>>>
      [] t = "chg" -> <<<<"pay", 0>>>>
      [] t = "all" -> <<<<"chg", 0>>, <<"pay", 1>>, <<"cb2", 0>>>>
      [] t = "whole" -> <<<<"st", 1>>>>
      [] OTHER -> <<>>]
MCVout == [t \in MCTxs |-> IF t \in {"cb1", "st", "pay"} THEN {0, 1}
                           ELSE IF t = "chg" THEN {0, 2} ELSE {0}]
MCUnspendable == {<<"chg", 2>>, <<"cb3", 0>>}
MCBlocks ==
    {<<"cb1">>, <<"cb2">>, <<"cb3">>, <<"cb3", "st">>, <<"cb2", "pay", "chg">>,
     <<"cb3", "pay">>, <<"cb3", "chg">>, <<"cb3", "all">>}
    \cup (IF StakeSpentWhole THEN {<<"cb3", "whole">>, <<"cb3", "pay", "whole">>} ELSE {})

\* The hypothesis of the theorems on BlockUndo holds where the invariants are
\* checked, and fails where they are violated.
ASSUME StakeAssumption == StakeSpentWhole <=> ~StakesKept

\* Mempool: a and c conflict, b spends from a, d from both, e, whose script is
\* bad, from a; f spends a coinbase, z is a zerocoin spend.
MCPoolTxs == {"cb0", "cb1", "a", "b", "c", "d", "e", "f", "z"}
MCSpends == [t \in MCPoolTxs |->
    CASE t \in {"a", "c"} -> {<<"cb0", 0>>}
      [] t = "b" -> {<<"a", 0>>}
      [] t = "d" -> {<<"b", 0>>, <<"a", 1>>}
      [] t = "e" -> {<<"a", 1>>}
      [] t = "f" -> {<<"cb1", 0>>}
      [] OTHER -> {}]
MCMakes == [t \in MCPoolTxs |->
    CASE t \in {"cb0", "a"} -> {<<t, 0>>, <<t, 1>>}
      [] t \in {"cb1", "b", "c"} -> {<<t, 0>>}
      [] OTHER -> {}]
MCContents == "g" :> <<"cb0">> @@ "e1" :> <<"cb1">> @@ "x2" :> <<"z">>
              @@ "x3" :> <<"a", "b", "f">> @@ "y2" :> <<"c">>
MCBefore == "g" :> "g" @@ "e1" :> "g" @@ "x2" :> "e1" @@ "x3" :> "x2" @@ "y2" :> "e1"

\* Wallet: the outputs it owns; by hash b comes before its
\* parent a.  The part "pool" never starts the wallet.
MCMine == {<<"cb0", 0>>, <<"a", 0>>, <<"c", 0>>}
MCTxOrder == <<"b", "a", "c">>

\* Zerocoin: a1 and b2 have the same spend, a2 and b1 reveal the same serial in
\* different spends, a3 one of its own branch again, b3 has none.
MCZcBlocks == {"g", "a1", "a2", "a3", "b1", "b2", "b3"}
MCZcBranch == [b \in MCZcBlocks |->
    CASE b = "a2" -> {"g", "a1", "a2"} [] b = "a3" -> {"g", "a1", "a2", "a3"}
      [] b = "b2" -> {"g", "b1", "b2"} [] b = "b3" -> {"g", "b1", "b2", "b3"}
      [] OTHER -> {"g", b}]
MCReveals == [b \in MCZcBlocks |->
    CASE b \in {"a1", "b2"} -> {<<"z1", "s1">>}
      [] b = "a2" -> {<<"z2", "s2">>, <<"z2", "s3">>}
      [] b = "a3" -> {<<"z4", "s1">>}
      [] b = "b1" -> {<<"z3", "s3">>}
      [] OTHER -> {}]

VARIABLE part

threadVars == <<queueVars, schVars, wqVars>>
coinVars == <<vars, undoVars, zcVars, poolVars, walletVars>>

AnyInit ==
    /\ CheckQueueInit /\ SchedulerInit /\ WorkQueueInit
    /\ Init /\ UndoInit /\ ZerocoinInit
    /\ MempoolInit /\ WalletInit
    /\ part \in Parts
    /\ part # "caches" => diskBest = "h0"

AnyNext ==
    \/ /\ part = "checks" /\ CheckQueueNext
       /\ UNCHANGED <<schVars, wqVars, coinVars, part>>
    \/ /\ part = "scheduler" /\ SchedulerNext
       /\ UNCHANGED <<queueVars, wqVars, coinVars, part>>
    \/ /\ part = "http" /\ WorkQueueNext
       /\ UNCHANGED <<queueVars, schVars, coinVars, part>>
    \/ /\ part = "caches" /\ Next
       /\ UNCHANGED <<threadVars, undoVars, zcVars, poolVars, walletVars, part>>
    \/ /\ part = "undo" /\ UndoNext
       /\ UNCHANGED <<threadVars, vars, zcVars, poolVars, walletVars, part>>
    \/ /\ part = "zerocoin" /\ ZerocoinNext
       /\ UNCHANGED <<threadVars, vars, undoVars, poolVars, walletVars, part>>
    \/ /\ part = "pool" /\ MempoolNext
       /\ UNCHANGED <<threadVars, vars, undoVars, zcVars, walletVars, part>>
    \/ /\ part = "wallet" /\ WalletNext
       /\ UNCHANGED <<threadVars, vars, undoVars, zcVars, part>>
    \* The scheduler and the server may stop, the script checks may not.
    \/ part \in {"scheduler", "http", "pool", "wallet"} /\ UNCHANGED <<threadVars, coinVars, part>>

\* A thread that can go on does, time passes, and the main thread, asked to
\* shut down, goes through with it.
DaemonSpec ==
    /\ AnyInit /\ [][AnyNext]_<<threadVars, coinVars, part>>
    /\ \A t \in Threads : WF_queueVars(part = "checks" /\ ThreadStep(t))
    /\ WF_schVars(part = "scheduler" /\ Tick)
    /\ \A s \in SchThreads : WF_schVars(part = "scheduler" /\ ServiceStep(s))
    /\ WF_wqVars(part = "http" /\ ~wrecked /\ Shutdown)
    /\ \A w \in HttpWorkers : WF_wqVars(part = "http" /\ ~wrecked /\ WorkerStep(w))
    /\ \A r \in Requests : WF_wqVars(part = "http" /\ ~wrecked /\ EventStep(r))

\* Types of the parts, the undo data excepted.
DaemonTypeOK ==
    /\ CheckQueueTypeOK /\ SchedulerTypeOK /\ WorkQueueTypeOK
    /\ TypeOK /\ ZerocoinTypeOK /\ MempoolTypeOK /\ WalletTypeOK

\* Nothing of the three kinds of threads waits for ever: Wait returns, the
\* scheduler's tasks are served and its stop comes to an end, and the HTTP
\* server stops once it is asked to (checkqueue.h, scheduler.cpp, httpserver.cpp).
EveryWaitEnds == WaitReturns /\ SchedulerServes /\ HttpStops
=============================================================================
