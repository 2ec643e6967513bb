----------------------------- MODULE Scheduler -----------------------------
(***************************************************************************)
(* The task scheduler of scheduler.cpp.                                    *)
(*                                                                         *)
(* newTaskMutex is held from the top of a critical section of              *)
(* serviceQueue to the wait, the call of the task or the end, so one       *)
(* critical section is one action; the task runs in an action of its own.  *)
(* The multimap taskQueue is a sequence in its order: by time, and among   *)
(* equal times by insertion.  A task of Repeating puts itself back when it *)
(* ends, as scheduleEvery's Repeat does, one unit of time later.           *)
(***************************************************************************)
EXTENDS Integers, Sequences, FiniteSets

CONSTANTS
    SchThreads,   \* threads that may run serviceQueue
    SchTasks,     \* the functions that are scheduled
    Repeating,    \* those scheduled with scheduleEvery
    MaxTime       \* bound: the clock stops here

ASSUME SchThreadsFinite == IsFiniteSet(SchThreads)
ASSUME RepeatingAreTasks == Repeating \subseteq SchTasks
ASSUME MaxTimeNat == MaxTime \in Nat

VARIABLES
    taskQueue,       \* CScheduler::taskQueue
    nThreadsServicingQueue,
    stopRequested,
    stopWhenEmpty,
    now,             \* the system clock
    schPc,           \* where each thread is
    deadline,        \* what the last wait_until of a thread waits for
    running,         \* the tasks a thread runs: one, or none
    asked,           \* history: the tasks that were ever scheduled
    early,           \* history: some task was begun before its time
    interrupted      \* threadGroup.interrupt_all() was called

schVars == <<taskQueue, nThreadsServicingQueue, stopRequested, stopWhenEmpty,
             now, schPc, deadline, running, asked, early, interrupted>>

\* "out":  serviceQueue not called;    "ready": wants newTaskMutex
\* "wait": in the untimed wait;        "timed": in wait_until
\* "run":  runs its task;              "left", "thrown": the thread is gone
SchPC == {"out", "ready", "wait", "timed", "run", "left", "thrown"}

Entry == [task : SchTasks, at : 0..MaxTime]
Queued == {taskQueue[i].task : i \in DOMAIN taskQueue}
Inside == {t \in SchThreads : schPc[t] \in {"ready", "wait", "timed", "run"}}

\* multimap::insert: behind the entries that are not later.
Inserted(q, k, at) ==
    LET n == Cardinality({i \in DOMAIN q : q[i].at <= at})
    IN SubSeq(q, 1, n) \o <<[task |-> k, at |-> at]>> \o SubSeq(q, n + 1, Len(q))

\* Mutant: stop(true) ends the threads at once; only stop(false) ends them.
ShouldStopLate == stopRequested

ShouldStop == stopRequested \/ (stopWhenEmpty /\ taskQueue = <<>>)

\* notify_one wakes one waiter, if there is any.
Waiting(p) == {t \in SchThreads : p[t] \in {"wait", "timed"}}
Woken(p, ws) == [t \in SchThreads |-> IF t \in ws THEN "ready" ELSE p[t]]
WokenOne(p) == IF Waiting(p) = {} THEN {p}
               ELSE {Woken(p, {t}) : t \in Waiting(p)}

SchedulerInit ==
    /\ taskQueue = <<>>
    /\ nThreadsServicingQueue = 0
    /\ stopRequested = FALSE /\ stopWhenEmpty = FALSE
    /\ now = 0
    /\ schPc = [t \in SchThreads |-> "out"]
    /\ deadline = [t \in SchThreads |-> 0]
    /\ running = [t \in SchThreads |-> {}]
    /\ asked = {}
    /\ early = FALSE
    /\ interrupted = FALSE

-----------------------------------------------------------------------------
(* serviceQueue                                                            *)

\* The mutex is held and the loop begins, with n threads counted: leave,
\* wait for a task, or wait for the first task's time.
LoopFrom(t, n) ==
    /\ \/ /\ ShouldStop
          /\ nThreadsServicingQueue' = n - 1
          /\ schPc' \in WokenOne([schPc EXCEPT ![t] = "left"])
          /\ UNCHANGED deadline
       \/ /\ ~ShouldStop /\ taskQueue = <<>>
          /\ nThreadsServicingQueue' = n
          /\ schPc' = [schPc EXCEPT ![t] = "wait"]
          /\ UNCHANGED deadline
       \/ /\ ~ShouldStop /\ taskQueue # <<>>
          /\ nThreadsServicingQueue' = n
          /\ schPc' = [schPc EXCEPT ![t] = "timed"]
          /\ deadline' = [deadline EXCEPT ![t] = Head(taskQueue).at]
    /\ UNCHANGED <<taskQueue, stopRequested, stopWhenEmpty, now, running,
                   asked, early, interrupted>>

ServiceQueue(t) == schPc[t] = "out" /\ LoopFrom(t, nThreadsServicingQueue + 1)

\* A wait returned before its time, or a task was done.
Resume(t) == schPc[t] = "ready" /\ LoopFrom(t, nThreadsServicingQueue)

SpuriousReturn(t) ==
    schPc[t] \in {"wait", "timed"} /\ LoopFrom(t, nThreadsServicingQueue)

\* wait_until timed out and there is nothing to take.
TimeOutIdle(t) ==
    /\ schPc[t] = "timed" /\ deadline[t] <= now
    /\ ShouldStop \/ taskQueue = <<>>
    /\ LoopFrom(t, nThreadsServicingQueue)

\* wait_until timed out: begin() is taken, whatever its time.
TimeOutTake(t) ==
    /\ schPc[t] = "timed" /\ deadline[t] <= now
    /\ ~ShouldStop /\ taskQueue # <<>>
    /\ running' = [running EXCEPT ![t] = {Head(taskQueue).task}]
    /\ early' = (early \/ Head(taskQueue).at > now)
    /\ taskQueue' = Tail(taskQueue)
    /\ schPc' = [schPc EXCEPT ![t] = "run"]
    /\ UNCHANGED <<nThreadsServicingQueue, stopRequested, stopWhenEmpty, now,
                   deadline, asked, interrupted>>

\* f() returns without the mutex; Repeat has scheduled itself again.
RunTask(t) ==
    /\ schPc[t] = "run"
    /\ LET again == running[t] \cap Repeating
           at == IF now < MaxTime THEN now + 1 ELSE MaxTime
           back == [schPc EXCEPT ![t] = "ready"]
       IN IF again = {}
          THEN schPc' = back /\ UNCHANGED taskQueue
          ELSE /\ \E k \in again : taskQueue' = Inserted(taskQueue, k, at)
               /\ schPc' \in WokenOne(back)
    /\ running' = [running EXCEPT ![t] = {}]
    /\ UNCHANGED <<nThreadsServicingQueue, stopRequested, stopWhenEmpty, now,
                   deadline, asked, early, interrupted>>

\* Mutant: the handler of the exception does not count the thread down.
ThrowCounted(t) ==
    /\ interrupted /\ schPc[t] \in {"wait", "timed", "run"}
    /\ schPc' = [schPc EXCEPT ![t] = "thrown"]
    /\ running' = [running EXCEPT ![t] = {}]
    /\ UNCHANGED <<taskQueue, nThreadsServicingQueue, stopRequested,
                   stopWhenEmpty, now, deadline, asked, early, interrupted>>

\* boost::thread_interrupted leaves a wait or the task: nobody is notified,
\* and a task that was interrupted is not scheduled again.
Throw(t) ==
    /\ interrupted /\ schPc[t] \in {"wait", "timed", "run"}
    /\ nThreadsServicingQueue' = nThreadsServicingQueue - 1
    /\ schPc' = [schPc EXCEPT ![t] = "thrown"]
    /\ running' = [running EXCEPT ![t] = {}]
    /\ UNCHANGED <<taskQueue, stopRequested, stopWhenEmpty, now, deadline,
                   asked, early, interrupted>>

-----------------------------------------------------------------------------
(* The others                                                              *)

\* schedule, scheduleFromNow, scheduleEvery by another thread.
Schedule(k) ==
    /\ k \notin asked
    /\ \E at \in now..MaxTime : taskQueue' = Inserted(taskQueue, k, at)
    /\ asked' = asked \cup {k}
    /\ schPc' \in WokenOne(schPc)
    /\ UNCHANGED <<nThreadsServicingQueue, stopRequested, stopWhenEmpty, now,
                   deadline, running, early, interrupted>>

Stop(drain) ==
    /\ ~stopRequested /\ ~stopWhenEmpty
    /\ stopWhenEmpty' = drain
    /\ stopRequested' = ~drain
    /\ schPc' = Woken(schPc, Waiting(schPc))
    /\ UNCHANGED <<taskQueue, nThreadsServicingQueue, now, deadline, running,
                   asked, early, interrupted>>

\* threadGroup.interrupt_all() at shutdown.
InterruptAll ==
    /\ ~interrupted
    /\ interrupted' = TRUE
    /\ UNCHANGED <<taskQueue, nThreadsServicingQueue, stopRequested,
                   stopWhenEmpty, now, schPc, deadline, running, asked, early>>

Tick ==
    /\ now < MaxTime
    /\ now' = now + 1
    /\ UNCHANGED <<taskQueue, nThreadsServicingQueue, stopRequested,
                   stopWhenEmpty, schPc, deadline, running, asked, early,
                   interrupted>>

ServiceStep(t) ==
    ServiceQueue(t) \/ Resume(t) \/ TimeOutIdle(t) \/ TimeOutTake(t)
        \/ RunTask(t) \/ Throw(t)

SchedulerNext ==
    \/ \E t \in SchThreads : ServiceStep(t) \/ SpuriousReturn(t)
    \/ \E k \in SchTasks : Schedule(k)
    \/ \E drain \in BOOLEAN : Stop(drain)
    \/ InterruptAll \/ Tick

SchedulerSpec == SchedulerInit /\ [][SchedulerNext]_schVars

-----------------------------------------------------------------------------
\* Types: the count of threads never goes below zero, and no task is queued
\* for a time after the last.
SchedulerTypeOK ==
    /\ taskQueue \in Seq(Entry)
    /\ nThreadsServicingQueue \in Nat
    /\ stopRequested \in BOOLEAN /\ stopWhenEmpty \in BOOLEAN
    /\ now \in 0..MaxTime
    /\ schPc \in [SchThreads -> SchPC]
    /\ deadline \in [SchThreads -> 0..MaxTime]
    /\ running \in [SchThreads -> SUBSET SchTasks]
    /\ asked \in SUBSET SchTasks
    /\ early \in BOOLEAN /\ interrupted \in BOOLEAN

\* ~CScheduler asserts nThreadsServicingQueue == 0: the count is that of the
\* threads inside serviceQueue however they left it.  And "Call func at/after
\* time t" holds as long as one thread, the one init.cpp starts, serves: a
\* timeout for one task does not run another before its time.
ServiceIsSound ==
    /\ nThreadsServicingQueue = Cardinality(Inside)
    /\ Cardinality({t \in SchThreads : schPc[t] # "out"}) <= 1 => ~early

\* No wake-up is lost, whichever waiter notify_one picks: a queued task is
\* taken, unless the scheduler is stopped or interrupted.  Every thread
\* leaves after stop(false), and after stop(true) unless a repeating task
\* keeps the queue from draining.
Ended == stopRequested \/ stopWhenEmpty \/ interrupted
TasksAreServed == \A k \in SchTasks : k \in Queued ~> (k \notin Queued \/ Ended)
StopEndsService ==
    (stopRequested \/ stopWhenEmpty)
        ~> (Inside = {} \/ (~stopRequested /\ asked \cap Repeating # {}))
SchedulerServes == TasksAreServed /\ StopEndsService
=============================================================================
