----------------------------- MODULE CheckQueue -----------------------------
(***************************************************************************)
(* The script verification queue of checkqueue.h.                          *)
(*                                                                         *)
(* One master (ConnectBlock, under cs_main) opens a CCheckQueueControl,    *)
(* adds batches of checks and calls Wait; worker threads run Loop(false).  *)
(* CCheckQueue::mutex is held from the top of the critical section to the  *)
(* wait or to its end, so one critical section is one action here; the     *)
(* execution of a batch, outside the mutex, is an action of its own.       *)
(*                                                                         *)
(* The vector `queue' is a set: the code says the order does not matter,   *)
(* and the model lets a thread take any nNow elements, the last nNow       *)
(* among them.                                                             *)
(*                                                                         *)
(* boost::condition_variable::wait may return spuriously, and is an        *)
(* interruption point: threadGroup.interrupt_all() (init.cpp) makes it     *)
(* throw, which leaves Loop without undoing nIdle++ and nTotal++.          *)
(***************************************************************************)
EXTENDS Integers, FiniteSets

CONSTANTS
    Workers,        \* the -par script verification threads
    Master,         \* the thread inside ConnectBlock
    Checks,         \* the CScriptCheck objects a block can give rise to
    Bad,            \* those whose operator() returns false
    BatchSize,      \* nBatchSize
    MaxInterrupts   \* bound: how often the master may be interrupted

ASSUME MasterIsNoWorker == Master \notin Workers
ASSUME WorkersFinite == IsFiniteSet(Workers)
ASSUME ChecksFinite == IsFiniteSet(Checks)
ASSUME BadIsChecks == Bad \subseteq Checks
ASSUME BatchSizePositive == BatchSize \in Nat \ {0}
ASSUME MaxInterruptsNat == MaxInterrupts \in Nat

VARIABLES
    queue,      \* CCheckQueue::queue
    nIdle,      \* CCheckQueue::nIdle
    nTotal,     \* CCheckQueue::nTotal
    fAllOk,     \* CCheckQueue::fAllOk
    nTodo,      \* CCheckQueue::nTodo
    vChecks,    \* Loop's local batch; its cardinality is nNow
    fOk,        \* Loop's local verdict on the batch
    pc,         \* where each thread is
    added,      \* history: the checks added through the current control
    verdict,    \* what the last Wait returned: {} before the first one
    interrupts  \* how often the master was interrupted

shared == <<queue, nIdle, nTotal, fAllOk, nTodo>>
queueVars == <<queue, nIdle, nTotal, fAllOk, nTodo, vChecks, fOk, pc, added,
          verdict, interrupts>>

Threads == Workers \cup {Master}

\* "out":    not in Loop (a worker not started, a master with no control)
\* "adding": the master holds a control and has not called Wait
\* "enter":  about to lock the mutex for the first iteration
\* "wait":   blocked in cond.wait;  "woken": notified, wants the mutex
\* "work":   runs its batch;        "done": wants the mutex for the clean-up
\* "dead":   a worker that left Loop by boost::thread_interrupted
PC == {"out", "adding", "enter", "wait", "woken", "work", "done", "dead"}

Lesser(a, b) == IF a < b THEN a ELSE b
Greater(a, b) == IF a > b THEN a ELSE b

BatchCount(q, total, idle) ==
    Greater(1, Lesser(BatchSize, Cardinality(q) \div (total + idle + 1)))

IsIdle == nTotal = nIdle /\ nTodo = 0 /\ fAllOk

CheckQueueInit ==
    /\ queue = {}
    /\ nIdle = 0
    /\ nTotal = 0
    /\ fAllOk = TRUE
    /\ nTodo = 0
    /\ vChecks = [t \in Threads |-> {}]
    /\ fOk = [t \in Threads |-> TRUE]
    /\ pc = [t \in Threads |-> "out"]
    /\ added = {}
    /\ verdict = {}
    /\ interrupts = 0

-----------------------------------------------------------------------------
(* The critical section from "while (queue.empty())" on.  The arguments are *)
(* the values its first half left behind; a batch that was executed is gone *)
(* (vChecks.clear()), and Take alone makes a new one.                       *)

\* Mutants: the master returns as soon as the queue is empty; the verdict
\* is not reset for the next block.
LeaveEarly(t, idle, total, todo, allOk, p) ==
    /\ queue = {} /\ t = Master
    /\ nTotal' = total - 1
    /\ verdict' = {allOk}
    /\ fAllOk' = TRUE
    /\ nIdle' = idle
    /\ nTodo' = todo
    /\ vChecks' = [vChecks EXCEPT ![t] = {}]
    /\ pc' = [p EXCEPT ![t] = "out"]
    /\ UNCHANGED <<queue, fOk>>
LeaveWithoutReset(t, idle, total, todo, allOk, p) ==
    /\ queue = {} /\ t = Master /\ todo = 0
    /\ nTotal' = total - 1
    /\ verdict' = {allOk}
    /\ fAllOk' = allOk
    /\ nIdle' = idle
    /\ nTodo' = todo
    /\ vChecks' = [vChecks EXCEPT ![t] = {}]
    /\ pc' = [p EXCEPT ![t] = "out"]
    /\ UNCHANGED <<queue, fOk>>

\* The master leaves Loop: every check is done.
Leave(t, idle, total, todo, allOk, p) ==
    /\ queue = {} /\ t = Master /\ todo = 0
    /\ nTotal' = total - 1
    /\ verdict' = {allOk}
    /\ fAllOk' = TRUE
    /\ nIdle' = idle
    /\ nTodo' = todo
    /\ vChecks' = [vChecks EXCEPT ![t] = {}]
    /\ pc' = [p EXCEPT ![t] = "out"]
    /\ UNCHANGED <<queue, fOk>>

\* cond.wait: the mutex is released with nIdle counting this thread.
Sleep(t, idle, total, todo, allOk, p) ==
    /\ queue = {} /\ ~(t = Master /\ todo = 0)
    /\ nIdle' = idle + 1
    /\ nTotal' = total
    /\ nTodo' = todo
    /\ fAllOk' = allOk
    /\ vChecks' = [vChecks EXCEPT ![t] = {}]
    /\ pc' = [p EXCEPT ![t] = "wait"]
    /\ UNCHANGED <<queue, fOk, verdict>>

\* Move nNow elements of the queue into the local batch.
Take(t, idle, total, todo, allOk, p) ==
    /\ \E b \in SUBSET queue :
          /\ Cardinality(b) = BatchCount(queue, total, idle)
          /\ queue' = queue \ b
          /\ vChecks' = [vChecks EXCEPT ![t] = b]
    /\ fOk' = [fOk EXCEPT ![t] = allOk]
    /\ nIdle' = idle
    /\ nTotal' = total
    /\ nTodo' = todo
    /\ fAllOk' = allOk
    /\ pc' = [p EXCEPT ![t] = "work"]
    /\ UNCHANGED verdict

LoopBody(t, idle, total, todo, allOk, p) ==
    /\ \/ Leave(t, idle, total, todo, allOk, p)
       \/ Sleep(t, idle, total, todo, allOk, p)
       \/ queue # {} /\ Take(t, idle, total, todo, allOk, p)
    /\ UNCHANGED <<added, interrupts>>

-----------------------------------------------------------------------------
(* Steps of a thread in Loop                                               *)

\* Thread(): a worker thread starts.
Start(w) ==
    /\ pc[w] = "out"
    /\ pc' = [pc EXCEPT ![w] = "enter"]
    /\ UNCHANGED <<shared, vChecks, fOk, added, verdict, interrupts>>

\* Mutant: the first iteration does not count the thread.
EnterUncounted(t) ==
    /\ pc[t] = "enter"
    /\ LoopBody(t, nIdle, nTotal, nTodo, fAllOk, pc)

\* First iteration of Loop.
Enter(t) ==
    /\ pc[t] = "enter"
    /\ LoopBody(t, nIdle, nTotal + 1, nTodo, fAllOk, pc)

\* The batch is executed outside the mutex; the first failure stops it.
Execute(t) ==
    /\ pc[t] = "work"
    /\ fOk' = [fOk EXCEPT ![t] = fOk[t] /\ vChecks[t] \cap Bad = {}]
    /\ pc' = [pc EXCEPT ![t] = "done"]
    /\ UNCHANGED <<shared, vChecks, added, verdict, interrupts>>

\* Mutant: only the master looks at nTodo after the clean-up.
NotifyNobody(t, todo) == pc

\* condMaster.notify_one() when a worker finished the last check.
NotifyMaster(t, todo) ==
    IF todo = 0 /\ t # Master /\ pc[Master] = "wait"
    THEN [pc EXCEPT ![Master] = "woken"]
    ELSE pc

\* The critical section after a batch: the clean-up, then the loop.
Finish(t) ==
    /\ pc[t] = "done"
    /\ LET todo == nTodo - Cardinality(vChecks[t])
       IN LoopBody(t, nIdle, nTotal, todo, fAllOk /\ fOk[t],
                   NotifyMaster(t, todo))

\* cond.wait returns with the mutex held.
Reacquire(t) == LoopBody(t, nIdle - 1, nTotal, nTodo, fAllOk, pc)

Wake(t) == pc[t] = "woken" /\ Reacquire(t)

SpuriousWake(t) == pc[t] = "wait" /\ Reacquire(t)

\* cond.wait throws boost::thread_interrupted in a worker: the thread ends
\* and stays counted in nIdle and in nTotal.
InterruptWorker(w) ==
    /\ pc[w] \in {"wait", "woken"}
    /\ pc' = [pc EXCEPT ![w] = "dead"]
    /\ UNCHANGED <<shared, vChecks, fOk, added, verdict, interrupts>>

-----------------------------------------------------------------------------
(* The master                                                              *)

\* CCheckQueueControl(pqueue): asserts IsIdle().
NewControl ==
    /\ pc[Master] = "out"
    /\ pc' = [pc EXCEPT ![Master] = "adding"]
    /\ added' = {}
    /\ verdict' = {}
    /\ UNCHANGED <<shared, vChecks, fOk, interrupts>>

\* Which workers Add wakes: none, one, or all that wait.
Notified(n) ==
    LET waiting == {w \in Workers : pc[w] = "wait"}
    IN CASE n = 0 -> {{}}
         [] n = 1 -> IF waiting = {} THEN {{}} ELSE {{w} : w \in waiting}
         [] OTHER -> {waiting}

Add ==
    /\ pc[Master] = "adding"
    /\ \E new \in SUBSET (Checks \ added) :
          /\ queue' = queue \cup new
          /\ nTodo' = nTodo + Cardinality(new)
          /\ added' = added \cup new
          /\ \E ws \in Notified(Cardinality(new)) :
                pc' = [t \in Threads |-> IF t \in ws THEN "woken" ELSE pc[t]]
    /\ UNCHANGED <<nIdle, nTotal, fAllOk, vChecks, fOk, verdict, interrupts>>

\* CCheckQueueControl::Wait, or the destructor when ConnectBlock returned
\* early: both run Loop(true).
Wait ==
    /\ pc[Master] = "adding"
    /\ pc' = [pc EXCEPT ![Master] = "enter"]
    /\ UNCHANGED <<shared, vChecks, fOk, added, verdict, interrupts>>

\* cond.wait throws in the master: the control's destructor finds fDone
\* unset and enters Loop(true) a second time.
InterruptMaster ==
    /\ interrupts < MaxInterrupts
    /\ pc[Master] \in {"wait", "woken"}
    /\ pc' = [pc EXCEPT ![Master] = "enter"]
    /\ interrupts' = interrupts + 1
    /\ UNCHANGED <<shared, vChecks, fOk, added, verdict>>

ThreadStep(t) == Enter(t) \/ Execute(t) \/ Finish(t) \/ Wake(t)

CheckQueueNext ==
    \/ \E t \in Threads : ThreadStep(t) \/ SpuriousWake(t)
    \/ \E w \in Workers : Start(w) \/ InterruptWorker(w)
    \/ NewControl \/ Add \/ Wait \/ InterruptMaster

CheckQueueSpec == CheckQueueInit /\ [][CheckQueueNext]_queueVars

\* A thread that can run is run by the operating system; nobody owes a
\* spurious wake-up, an interruption, a new block or the end of Add.
FairCheckQueueSpec == CheckQueueSpec /\ \A t \in Threads : WF_queueVars(ThreadStep(t))

-----------------------------------------------------------------------------
CheckQueueTypeOK ==
    /\ queue \in SUBSET Checks
    /\ nIdle \in Nat
    /\ nTotal \in Nat
    /\ fAllOk \in BOOLEAN
    /\ nTodo \in Nat
    /\ vChecks \in [Threads -> SUBSET Checks]
    /\ fOk \in [Threads -> BOOLEAN]
    /\ pc \in [Threads -> PC]
    /\ added \in SUBSET Checks
    /\ verdict \in SUBSET BOOLEAN
    /\ interrupts \in 0..MaxInterrupts

\* assert(isIdle) in the constructor of CCheckQueueControl never fails:
\* whenever no control exists, no worker is between two critical sections,
\* nothing is pending and the verdict was reset, even after interruptions
\* left threads counted that are gone.
ControlFindsIdleQueue == pc[Master] = "out" => IsIdle

\* Wait returns true exactly when every check added through this control
\* would succeed: no check is lost in a worker's batch, none is skipped but
\* after a failure, and no failure of an earlier block leaks into this one.
VerdictIsConjunction == \A v \in verdict : v = (added \cap Bad = {})

\* The checks that are queued or in some thread's batch.
Pending ==
    {c \in Checks : c \in queue \/ \E t \in Threads : c \in vChecks[t]}

\* "Number of verifications that haven't completed yet. This includes
\* elements that are not anymore in queue, but still in worker's own
\* batches": nTodo counts exactly those, and no check is in two batches.
TodoCountsPending ==
    /\ nTodo = Cardinality(Pending)
    /\ \A t \in Threads : vChecks[t] \cap queue = {}
    /\ \A t, u \in Threads : t # u => vChecks[t] \cap vChecks[u] = {}

\* Wait returns: the notification that the last check is done is never
\* lost, even when every worker has been interrupted.
WaitReturns == (pc[Master] = "enter") ~> (pc[Master] = "out")
=============================================================================
