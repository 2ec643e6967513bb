----------------------------- MODULE WorkQueue -----------------------------
(***************************************************************************)
(* The HTTP server's work queue and its shutdown (httpserver.cpp).         *)
(*                                                                         *)
(* The event thread runs http_request_cb, which answers a request or       *)
(* queues it; detached worker threads run the handlers; the main thread    *)
(* calls InterruptHTTPServer and StopHTTPServer, which delete the queue.   *)
(* WorkQueue::cs is held by whole critical sections, one action each.      *)
(*                                                                         *)
(* A use of the queue after it was deleted is undefined: `wrecked' is then *)
(* set and nothing more is said of the process.                            *)
(***************************************************************************)
EXTENDS Integers, Sequences, FiniteSets

CONSTANTS
    HttpWorkers,   \* the -rpcthreads threads, detached
    Requests,      \* the HTTP requests a client sends
    MaxDepth       \* WorkQueue::maxDepth (-rpcworkqueue)

ASSUME HttpWorkersFinite == IsFiniteSet(HttpWorkers)
ASSUME MaxDepthPositive == MaxDepth \in Nat \ {0}

VARIABLES
    workQueue,     \* WorkQueue::queue
    wqRunning,     \* WorkQueue::running
    numThreads,    \* WorkQueue::numThreads
    wqPc,          \* where each worker is
    item,          \* the request a worker handles: one, or none
    callback,      \* the request the event thread has in http_request_cb
    received,      \* requests the event loop gave to a callback
    replies,       \* how often each request was answered
    mainPc,        \* how far the main thread is with the shutdown
    wrecked        \* the queue was used after it was deleted

wqVars == <<workQueue, wqRunning, numThreads, wqPc, item, callback, received,
            replies, mainPc, wrecked>>

\* "unborn": not yet in Run;  "ready": wants cs;  "wait": in cond.wait
\* "work": runs the item;     "leaving": before ~ThreadCounter;  "left"
WqPC == {"unborn", "ready", "wait", "work", "leaving", "left"}

\* The main thread, in this order.
MainPC == {"up", "rejecting", "interrupted", "wait", "exited", "deleted",
           "stopped"}
Alive == mainPc \notin {"deleted", "stopped"}

Answered(rs) == [r \in Requests |-> replies[r] + IF r \in rs THEN 1 ELSE 0]

\* cond is shared by the workers and by WaitExit.
WokenWorkers(p, ws) == [w \in HttpWorkers |-> IF w \in ws THEN "ready" ELSE p[w]]
Sleeping == {w \in HttpWorkers : wqPc[w] = "wait"}

WorkQueueInit ==
    /\ workQueue = <<>> /\ wqRunning = TRUE /\ numThreads = 0
    /\ wqPc = [w \in HttpWorkers |-> "unborn"]
    /\ item = [w \in HttpWorkers |-> {}]
    /\ callback = {} /\ received = {}
    /\ replies = [r \in Requests |-> 0]
    /\ mainPc = "up" /\ wrecked = FALSE

Wreck ==
    /\ wrecked' = TRUE
    /\ UNCHANGED <<workQueue, wqRunning, numThreads, wqPc, item, callback,
                   received, replies, mainPc>>

-----------------------------------------------------------------------------
(* The event thread                                                        *)

\* The event loop hands a request to the callback that is installed; one
\* that fails the checks, or finds no handler, is answered there.
ReceiveRequest(r) ==
    /\ r \notin received /\ callback = {} /\ mainPc # "stopped"
    /\ received' = received \cup {r}
    /\ \/ replies' = Answered({r}) /\ UNCHANGED callback
       \/ mainPc = "up" /\ callback' = {r} /\ UNCHANGED replies
    /\ UNCHANGED <<workQueue, wqRunning, numThreads, wqPc, item, mainPc, wrecked>>

\* Enqueue, and the answer if the queue is full.  It does not look at
\* `running': a request may be queued after Interrupt.
Enqueue(r) ==
    /\ r \in callback /\ Alive
    /\ IF Len(workQueue) >= MaxDepth
       THEN replies' = Answered({r}) /\ UNCHANGED <<workQueue, wqPc>>
       ELSE /\ workQueue' = Append(workQueue, r)
            /\ wqPc' \in IF Sleeping = {} THEN {wqPc}
                         ELSE {WokenWorkers(wqPc, {w}) : w \in Sleeping}
            /\ UNCHANGED replies
    /\ callback' = {}
    /\ UNCHANGED <<wqRunning, numThreads, item, received, mainPc, wrecked>>

EnqueueDeleted(r) == r \in callback /\ ~Alive /\ Wreck

-----------------------------------------------------------------------------
(* The workers                                                             *)

\* ThreadCounter's constructor: the thread is counted only when it runs.
StartWorker(w) ==
    /\ wqPc[w] = "unborn" /\ Alive
    /\ numThreads' = numThreads + 1
    /\ wqPc' = [wqPc EXCEPT ![w] = "ready"]
    /\ UNCHANGED <<workQueue, wqRunning, item, callback, received, replies,
                   mainPc, wrecked>>

\* cond.wait may return for no reason.
SpuriousWorker(w) ==
    /\ wqPc[w] = "wait" /\ Alive
    /\ wqPc' = [wqPc EXCEPT ![w] = "ready"]
    /\ UNCHANGED <<workQueue, wqRunning, numThreads, item, callback, received,
                   replies, mainPc, wrecked>>

\* Run's critical section: leave, wait, or take the first item.
TakeItem(w) ==
    /\ wqPc[w] = "ready" /\ Alive
    /\ \/ ~wqRunning /\ wqPc' = [wqPc EXCEPT ![w] = "leaving"]
          /\ UNCHANGED <<workQueue, item>>
       \/ wqRunning /\ workQueue = <<>> /\ wqPc' = [wqPc EXCEPT ![w] = "wait"]
          /\ UNCHANGED <<workQueue, item>>
       \/ wqRunning /\ workQueue # <<>>
          /\ item' = [item EXCEPT ![w] = {Head(workQueue)}]
          /\ workQueue' = Tail(workQueue)
          /\ wqPc' = [wqPc EXCEPT ![w] = "work"]
    /\ UNCHANGED <<wqRunning, numThreads, callback, received, replies, mainPc,
                   wrecked>>

\* Mutant: the handler answers and ~HTTPRequest answers again.
HandleTwice(w) ==
    /\ wqPc[w] = "work"
    /\ replies' = [r \in Requests |-> replies[r] + IF r \in item[w] THEN 2 ELSE 0]
    /\ item' = [item EXCEPT ![w] = {}]
    /\ wqPc' = [wqPc EXCEPT ![w] = "ready"]
    /\ UNCHANGED <<workQueue, wqRunning, numThreads, callback, received, mainPc,
                   wrecked>>

\* (*i)(); delete i: the handler answers, or else ~HTTPRequest does.
HandleItem(w) ==
    /\ wqPc[w] = "work"
    /\ replies' = Answered(item[w])
    /\ item' = [item EXCEPT ![w] = {}]
    /\ wqPc' = [wqPc EXCEPT ![w] = "ready"]
    /\ UNCHANGED <<workQueue, wqRunning, numThreads, callback, received, mainPc,
                   wrecked>>

\* Mutant: the last worker does not tell WaitExit.
LeaveQuietly(w) ==
    /\ wqPc[w] = "leaving" /\ Alive
    /\ numThreads' = numThreads - 1
    /\ wqPc' = [wqPc EXCEPT ![w] = "left"]
    /\ UNCHANGED <<workQueue, wqRunning, item, callback, received, replies,
                   mainPc, wrecked>>

\* ThreadCounter's destructor; its notify_all reaches WaitExit.
LeaveRun(w) ==
    /\ wqPc[w] = "leaving" /\ Alive
    /\ numThreads' = numThreads - 1
    /\ wqPc' = [WokenWorkers(wqPc, Sleeping) EXCEPT ![w] = "left"]
    /\ mainPc' = IF mainPc = "wait" THEN "interrupted" ELSE mainPc
    /\ UNCHANGED <<workQueue, wqRunning, item, callback, received, replies, wrecked>>

\* A worker that the system starts, or lets go on, after the delete.
WorkerTooLate(w) ==
    wqPc[w] \in {"unborn", "ready", "wait", "leaving"} /\ ~Alive /\ Wreck

-----------------------------------------------------------------------------
(* The main thread: InterruptHTTPServer, StopHTTPServer                    *)

SetRejectCallback ==
    /\ mainPc = "up" /\ mainPc' = "rejecting"
    /\ UNCHANGED <<workQueue, wqRunning, numThreads, wqPc, item, callback,
                   received, replies, wrecked>>

InterruptQueue ==
    /\ mainPc = "rejecting" /\ mainPc' = "interrupted"
    /\ wqRunning' = FALSE
    /\ wqPc' = WokenWorkers(wqPc, Sleeping)
    /\ UNCHANGED <<workQueue, numThreads, item, callback, received, replies, wrecked>>

\* WaitExit looks at numThreads and waits on cond.
WaitExit ==
    /\ mainPc = "interrupted"
    /\ mainPc' = IF numThreads > 0 THEN "wait" ELSE "exited"
    /\ UNCHANGED <<workQueue, wqRunning, numThreads, wqPc, item, callback,
                   received, replies, wrecked>>

\* ~WorkQueue deletes what is queued; ~HTTPRequest answers it.
DeleteQueue ==
    /\ mainPc = "exited" /\ mainPc' = "deleted"
    /\ replies' = Answered({workQueue[i] : i \in DOMAIN workQueue})
    /\ workQueue' = <<>>
    /\ UNCHANGED <<wqRunning, numThreads, wqPc, item, callback, received, wrecked>>

\* The event loop ends or is broken, and its thread is joined.
JoinEvents ==
    /\ mainPc = "deleted" /\ callback = {}
    /\ mainPc' = "stopped"
    /\ UNCHANGED <<workQueue, wqRunning, numThreads, wqPc, item, callback,
                   received, replies, wrecked>>

EventStep(r) == Enqueue(r) \/ EnqueueDeleted(r)
WorkerStep(w) ==
    StartWorker(w) \/ TakeItem(w) \/ HandleItem(w) \/ LeaveRun(w)
Shutdown == InterruptQueue \/ WaitExit \/ DeleteQueue \/ JoinEvents

WorkQueueNext ==
    /\ ~wrecked
    /\ \/ \E r \in Requests : ReceiveRequest(r) \/ EventStep(r)
       \/ \E w \in HttpWorkers : WorkerStep(w) \/ SpuriousWorker(w) \/ WorkerTooLate(w)
       \/ SetRejectCallback \/ Shutdown

WorkQueueSpec == WorkQueueInit /\ [][WorkQueueNext]_wqVars

-----------------------------------------------------------------------------
\* Types; the queue never grows over maxDepth.
WorkQueueTypeOK ==
    /\ workQueue \in Seq(Requests) /\ Len(workQueue) <= MaxDepth
    /\ wqRunning \in BOOLEAN /\ numThreads \in Nat
    /\ wqPc \in [HttpWorkers -> WqPC]
    /\ item \in [HttpWorkers -> SUBSET Requests]
    /\ callback \in SUBSET Requests /\ received \in SUBSET Requests
    /\ replies \in [Requests -> Nat]
    /\ mainPc \in MainPC /\ wrecked \in BOOLEAN

\* WriteReply asserts !replySent: a request is answered at most once, and
\* when the server has stopped every request it received was answered,
\* those that were queued after Interrupt and those the queue refused too.
RequestsAnsweredOnce ==
    \A r \in Requests :
        /\ replies[r] <= 1
        /\ mainPc = "stopped" /\ ~wrecked /\ r \in received => replies[r] = 1

\* StopHTTPServer returns: no wake-up of WaitExit is lost, though it shares
\* its condition variable with the workers.
HttpStops == mainPc # "up" ~> (mainPc = "stopped" \/ wrecked)

\* "Precondition: worker threads have all stopped (call WaitExit)".
DeletedUnused == ~wrecked
=============================================================================
