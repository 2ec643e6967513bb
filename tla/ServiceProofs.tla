---------------------------- MODULE ServiceProofs ----------------------------
(***************************************************************************)
(* The three parts of the daemon that are threads around a queue of what   *)
(* others bring: the HTTP server's work queue, for any number of workers   *)
(* and requests and any depth, the scheduler, for any threads, tasks and   *)
(* clock, and the script verification queue.                               *)
(***************************************************************************)
EXTENDS WorkQueue, Scheduler, CheckQueue, FiniteSetTheorems, SequenceTheorems, TLAPS

-----------------------------------------------------------------------------
(* The work queue.  Every request is answered exactly once, through the    *)
(* shutdown.                                                               *)
(*                                                                         *)
(* A request is in one place: with the event thread, in the queue or with a*)
(* worker; once it has left the last place it was answered, once.  That    *)
(* nothing is left when the server has stopped rests on the shutdown: after*)
(* WaitExit no worker has a request, for the last to leave counted itself  *)
(* out, and a worker that starts later finds that the queue does not run.  *)

\* The threads that numThreads counts.
Serving(p) == {w \in HttpWorkers : p[w] \in {"ready", "wait", "work", "leaving"}}

\* Where a request that was not yet answered is.
InQueue(r) == \E i \in DOMAIN workQueue : workQueue[i] = r
Unanswered(r) == r \in callback \/ InQueue(r) \/ \E w \in HttpWorkers : r \in item[w]

\* In one place, and in one only.
OnePlace ==
    /\ \A i, j \in DOMAIN workQueue : workQueue[i] = workQueue[j] => i = j
    /\ \A r, s \in callback : r = s
    /\ \A r \in callback : ~InQueue(r)
    /\ \A w \in HttpWorkers : \A r \in item[w] : r \notin callback /\ ~InQueue(r)
    /\ \A w, v \in HttpWorkers : w # v => item[w] \cap item[v] = {}
    /\ \A r \in Requests : Unanswered(r) => r \in received

\* Answered when it is in none any more.
AnsweredAfter ==
    \A r \in Requests : replies[r] = IF r \in received /\ ~Unanswered(r) THEN 1 ELSE 0

\* The workers and the shutdown.
Stages ==
    /\ numThreads = Cardinality(Serving(wqPc))
    /\ \A w \in HttpWorkers : wqPc[w] # "work" => item[w] = {}
    /\ wqRunning <=> mainPc \in {"up", "rejecting"}
    /\ mainPc \in {"exited", "deleted", "stopped"} => \A w \in HttpWorkers : item[w] = {}
    /\ ~Alive => workQueue = <<>>
    /\ mainPc = "stopped" => callback = {}

RequestsInv == WorkQueueTypeOK /\ OnePlace /\ AnsweredAfter /\ Stages

-----------------------------------------------------------------------------
\* A worker that comes in, and one that goes, changes the count by one.
LEMMA ServingFinite == \A p : IsFiniteSet(Serving(p)) /\ Cardinality(Serving(p)) \in Nat
BY HttpWorkersFinite, FS_Subset, FS_CardinalityType DEF Serving

LEMMA ComesIn ==
    ASSUME NEW p, NEW q, NEW w \in HttpWorkers, w \notin Serving(p),
           Serving(q) = Serving(p) \cup {w}
    PROVE  Cardinality(Serving(q)) = Cardinality(Serving(p)) + 1
BY ServingFinite, FS_AddElement

LEMMA GoesOut ==
    ASSUME NEW p, NEW q, NEW w \in HttpWorkers, w \in Serving(p),
           Serving(q) = Serving(p) \ {w}
    PROVE  Cardinality(Serving(q)) = Cardinality(Serving(p)) - 1
BY ServingFinite, FS_RemoveElement

LEMMA InitRequests == WorkQueueInit => RequestsInv
<1> SUFFICES ASSUME WorkQueueInit PROVE RequestsInv
  OBVIOUS
<1>1. Serving(wqPc) = {}
  BY DEF WorkQueueInit, Serving
<1>2. Stages
  BY <1>1, FS_EmptySet DEF WorkQueueInit, Stages, Alive
<1>3. WorkQueueTypeOK
  <2>1. workQueue \in Seq(Requests) /\ Len(workQueue) <= MaxDepth
    BY MaxDepthPositive DEF WorkQueueInit
  <2>2. replies \in [Requests -> Nat] /\ numThreads \in Nat
    BY DEF WorkQueueInit
  <2> QED BY <2>1, <2>2, Zenon DEF WorkQueueInit, WorkQueueTypeOK, WqPC, MainPC
<1>4. \A r : ~Unanswered(r)
  BY DEF WorkQueueInit, Unanswered, InQueue
<1> QED BY <1>2, <1>3, <1>4 DEF WorkQueueInit, RequestsInv, OnePlace, AnsweredAfter, InQueue

-----------------------------------------------------------------------------
(* The event thread                                                        *)

LEMMA ReceiveStep ==
    ASSUME RequestsInv, NEW r \in Requests, ReceiveRequest(r)
    PROVE  RequestsInv'
<1> USE DEF RequestsInv
<1>1. /\ received' = received \cup {r} /\ r \notin received /\ callback = {}
      /\ mainPc # "stopped" /\ ~Unanswered(r)
      /\ UNCHANGED <<workQueue, wqRunning, numThreads, wqPc, item, mainPc, wrecked>>
  BY DEF ReceiveRequest, OnePlace
<1>2. CASE replies' = Answered({r}) /\ UNCHANGED callback
  <2>1. \A s : Unanswered(s)' <=> Unanswered(s)
    BY <1>1, <1>2 DEF Unanswered, InQueue
  <2>2. WorkQueueTypeOK'
    BY <1>1, <1>2 DEF WorkQueueTypeOK, Answered
  <2>3. OnePlace'
    BY <1>1, <1>2, <2>1 DEF OnePlace, InQueue
  <2>4. AnsweredAfter'
    BY <1>1, <1>2, <2>1 DEF AnsweredAfter, Answered
  <2> QED BY <1>1, <1>2, <2>2, <2>3, <2>4 DEF Stages, Alive, Serving
<1>3. CASE mainPc = "up" /\ callback' = {r} /\ UNCHANGED replies
  <2>1. \A s : Unanswered(s)' <=> Unanswered(s) \/ s = r
    BY <1>1, <1>3 DEF Unanswered, InQueue
  <2>2. WorkQueueTypeOK'
    BY <1>1, <1>3 DEF WorkQueueTypeOK
  <2>3. OnePlace'
    BY <1>1, <1>3, <2>1 DEF OnePlace, InQueue, Unanswered
  <2>4. AnsweredAfter'
    BY <1>1, <1>3, <2>1 DEF AnsweredAfter
  <2> QED BY <1>1, <1>3, <2>2, <2>3, <2>4 DEF Stages, Alive, Serving
<1> QED BY <1>2, <1>3 DEF ReceiveRequest

LEMMA EnqueueStep ==
    ASSUME RequestsInv, NEW r \in Requests, Enqueue(r)
    PROVE  RequestsInv'
<1> USE DEF RequestsInv
<1>1. /\ callback = {r} /\ callback' = {} /\ Alive
      /\ UNCHANGED <<wqRunning, numThreads, item, received, mainPc, wrecked>>
  BY DEF Enqueue, OnePlace
<1>2. r \in received /\ ~InQueue(r) /\ \A w \in HttpWorkers : r \notin item[w]
  BY <1>1 DEF OnePlace, Unanswered
<1>3. CASE Len(workQueue) >= MaxDepth
  <2>1. replies' = Answered({r}) /\ UNCHANGED <<workQueue, wqPc>>
    BY <1>3 DEF Enqueue
  <2>2. \A s : Unanswered(s)' <=> Unanswered(s) /\ s # r
    BY <1>1, <1>2, <2>1 DEF Unanswered, InQueue
  <2>3. WorkQueueTypeOK'
    BY <1>1, <2>1 DEF WorkQueueTypeOK, Answered
  <2>4. OnePlace'
    BY <1>1, <2>1, <2>2 DEF OnePlace, InQueue
  <2>5. Unanswered(r)
    BY <1>1 DEF Unanswered
  <2>6. AnsweredAfter'
    BY <1>1, <1>2, <2>1, <2>2, <2>5 DEF AnsweredAfter, Answered
  <2> QED BY <1>1, <2>1, <2>3, <2>4, <2>6 DEF Stages, Alive, Serving
<1>4. CASE ~(Len(workQueue) >= MaxDepth)
  <2>1. /\ workQueue' = Append(workQueue, r) /\ UNCHANGED replies
        /\ wqPc' \in IF Sleeping = {} THEN {wqPc}
                     ELSE {WokenWorkers(wqPc, {w}) : w \in Sleeping}
    BY <1>4 DEF Enqueue
  <2>2. /\ workQueue \in Seq(Requests) /\ Len(workQueue) \in Nat
        /\ DOMAIN workQueue = 1..Len(workQueue)
        /\ workQueue' \in Seq(Requests) /\ Len(workQueue') = Len(workQueue) + 1
        /\ DOMAIN workQueue' = 1..Len(workQueue')
        /\ \A i \in 1..Len(workQueue) : workQueue'[i] = workQueue[i]
        /\ workQueue'[Len(workQueue) + 1] = r
    BY <2>1, AppendProperties, LenProperties DEF WorkQueueTypeOK
  <2>3. \A s : InQueue(s)' <=> InQueue(s) \/ s = r
    <3>1. \A s : InQueue(s) => InQueue(s)'
      BY <2>2 DEF InQueue
    <3>2. InQueue(r)'
      BY <2>2 DEF InQueue
    <3>3. ASSUME NEW s, InQueue(s)' PROVE InQueue(s) \/ s = r
      <4>1. PICK i \in 1..Len(workQueue) + 1 : workQueue'[i] = s
        BY <2>2, <3>3 DEF InQueue
      <4>2. CASE i = Len(workQueue) + 1
        BY <2>2, <4>1, <4>2
      <4>3. CASE i # Len(workQueue) + 1
        BY <2>2, <4>1, <4>3 DEF InQueue
      <4> QED BY <4>2, <4>3
    <3> QED BY <3>1, <3>2, <3>3
  <2>4. \A s : Unanswered(s)' <=> Unanswered(s)
    BY <1>1, <2>3 DEF Unanswered
  <2>5. wqPc' \in [HttpWorkers -> WqPC] /\ Serving(wqPc') = Serving(wqPc)
    <3>1. CASE wqPc' = wqPc
      BY <3>1 DEF WorkQueueTypeOK
    <3>2. CASE \E w \in Sleeping : wqPc' = WokenWorkers(wqPc, {w})
      BY <3>2 DEF WorkQueueTypeOK, WokenWorkers, Sleeping, Serving, WqPC
    <3> QED BY <2>1, <3>1, <3>2
  <2>6. \A w \in HttpWorkers : wqPc'[w] # "work" => wqPc[w] # "work"
    <3>1. CASE wqPc' = wqPc
      BY <3>1
    <3>2. CASE \E w \in Sleeping : wqPc' = WokenWorkers(wqPc, {w})
      BY <3>2 DEF WokenWorkers, Sleeping
    <3> QED BY <2>1, <3>1, <3>2
  <2>7. Len(workQueue') <= MaxDepth
    BY <1>4, <2>2, MaxDepthPositive
  <2>8. WorkQueueTypeOK'
    BY <1>1, <2>1, <2>2, <2>5, <2>7 DEF WorkQueueTypeOK
  <2>9. \A i, j \in DOMAIN workQueue' : workQueue'[i] = workQueue'[j] => i = j
    <3>1. ASSUME NEW i \in 1..Len(workQueue) + 1, NEW j \in 1..Len(workQueue) + 1,
                 workQueue'[i] = workQueue'[j]
          PROVE  i = j
      <4>1. CASE i \in 1..Len(workQueue) /\ j \in 1..Len(workQueue)
        BY <2>2, <3>1, <4>1 DEF OnePlace
      <4>2. CASE i = Len(workQueue) + 1 \/ j = Len(workQueue) + 1
        BY <1>2, <2>2, <3>1, <4>2 DEF InQueue
      <4> QED BY <2>2, <4>1, <4>2
    <3> QED BY <2>2, <3>1
  <2>10. OnePlace'
    BY <1>1, <1>2, <2>3, <2>4, <2>9 DEF OnePlace
  <2>11. AnsweredAfter'
    BY <1>1, <2>1, <2>4 DEF AnsweredAfter
  <2>12. Stages'
    BY <1>1, <2>5, <2>6 DEF Stages, Alive
  <2> QED BY <2>8, <2>10, <2>11, <2>12
<1> QED BY <1>3, <1>4

-----------------------------------------------------------------------------
(* The workers                                                             *)

LEMMA StartStep ==
    ASSUME RequestsInv, NEW w \in HttpWorkers, StartWorker(w)
    PROVE  RequestsInv'
<1> USE DEF RequestsInv
<1>1. /\ wqPc[w] = "unborn" /\ numThreads' = numThreads + 1
      /\ wqPc' = [wqPc EXCEPT ![w] = "ready"]
      /\ UNCHANGED <<workQueue, wqRunning, item, callback, received, replies,
                     mainPc, wrecked>>
  BY DEF StartWorker
<1>2. w \notin Serving(wqPc) /\ Serving(wqPc') = Serving(wqPc) \cup {w}
  BY <1>1 DEF Serving, WorkQueueTypeOK
<1>3. numThreads' = Cardinality(Serving(wqPc'))
  BY <1>1, <1>2, ComesIn DEF Stages
<1>4. WorkQueueTypeOK'
  BY <1>1 DEF WorkQueueTypeOK, WqPC
<1>5. OnePlace' /\ AnsweredAfter'
  BY <1>1 DEF OnePlace, AnsweredAfter, Unanswered, InQueue
<1>6. Stages'
  BY <1>1, <1>3 DEF Stages, Alive, WorkQueueTypeOK
<1> QED BY <1>4, <1>5, <1>6

LEMMA SpuriousStep ==
    ASSUME RequestsInv, NEW w \in HttpWorkers, SpuriousWorker(w)
    PROVE  RequestsInv'
<1> USE DEF RequestsInv
<1>1. /\ wqPc[w] = "wait" /\ wqPc' = [wqPc EXCEPT ![w] = "ready"]
      /\ UNCHANGED <<workQueue, wqRunning, numThreads, item, callback, received,
                     replies, mainPc, wrecked>>
  BY DEF SpuriousWorker
<1>2. Serving(wqPc') = Serving(wqPc)
  BY <1>1 DEF Serving, WorkQueueTypeOK
<1>3. WorkQueueTypeOK'
  BY <1>1 DEF WorkQueueTypeOK, WqPC
<1>4. OnePlace' /\ AnsweredAfter'
  BY <1>1 DEF OnePlace, AnsweredAfter, Unanswered, InQueue
<1>5. Stages'
  BY <1>1, <1>2 DEF Stages, Alive, WorkQueueTypeOK
<1> QED BY <1>3, <1>4, <1>5

LEMMA TakeItemStep ==
    ASSUME RequestsInv, NEW w \in HttpWorkers, TakeItem(w)
    PROVE  RequestsInv'
<1> USE DEF RequestsInv
<1>1. /\ wqPc[w] = "ready"
      /\ UNCHANGED <<wqRunning, numThreads, callback, received, replies, mainPc,
                     wrecked>>
  BY DEF TakeItem
<1>2. CASE /\ \E x \in {"leaving", "wait"} : wqPc' = [wqPc EXCEPT ![w] = x]
           /\ UNCHANGED <<workQueue, item>>
  <2>1. Serving(wqPc') = Serving(wqPc)
    BY <1>1, <1>2 DEF Serving, WorkQueueTypeOK
  <2>2. WorkQueueTypeOK'
    BY <1>1, <1>2 DEF WorkQueueTypeOK, WqPC
  <2>3. OnePlace' /\ AnsweredAfter'
    BY <1>1, <1>2 DEF OnePlace, AnsweredAfter, Unanswered, InQueue
  <2>4. Stages'
    BY <1>1, <1>2, <2>1 DEF Stages, Alive, WorkQueueTypeOK
  <2> QED BY <2>2, <2>3, <2>4
<1>3. CASE /\ wqRunning /\ workQueue # <<>>
           /\ item' = [item EXCEPT ![w] = {Head(workQueue)}]
           /\ workQueue' = Tail(workQueue)
           /\ wqPc' = [wqPc EXCEPT ![w] = "work"]
  <2> DEFINE r == Head(workQueue)
  <2>1. Serving(wqPc') = Serving(wqPc)
    BY <1>1, <1>3 DEF Serving, WorkQueueTypeOK
  <2>2. /\ workQueue \in Seq(Requests) /\ Len(workQueue) \in Nat
        /\ DOMAIN workQueue = 1..Len(workQueue) /\ 1 \in DOMAIN workQueue
        /\ r = workQueue[1] /\ r \in Requests
        /\ workQueue' \in Seq(Requests) /\ Len(workQueue') = Len(workQueue) - 1
        /\ DOMAIN workQueue' = 1..Len(workQueue')
        /\ \A i \in 1..Len(workQueue') : workQueue'[i] = workQueue[i + 1]
    BY <1>3, HeadTailProperties, LenProperties DEF WorkQueueTypeOK
  <2>3. \A i, j \in DOMAIN workQueue : workQueue[i] = workQueue[j] => i = j
    BY DEF OnePlace
  <2>4. InQueue(r) /\ item[w] = {}
    BY <1>1, <2>2 DEF InQueue, Stages
  <2> HIDE DEF r
  <2>5. \A s : InQueue(s)' <=> InQueue(s) /\ s # r
    <3>1. ASSUME NEW s, InQueue(s)' PROVE InQueue(s) /\ s # r
      <4>1. PICK i \in 1..Len(workQueue') : workQueue'[i] = s
        BY <2>2, <3>1 DEF InQueue
      <4>2. i + 1 \in DOMAIN workQueue /\ workQueue[i + 1] = s /\ i + 1 # 1
        BY <2>2, <4>1
      <4> QED BY <2>2, <2>3, <4>2 DEF InQueue
    <3>2. ASSUME NEW s, InQueue(s), s # r PROVE InQueue(s)'
      <4>1. PICK i \in DOMAIN workQueue : workQueue[i] = s
        BY <3>2 DEF InQueue
      <4>2. i - 1 \in 1..Len(workQueue') /\ workQueue'[i - 1] = s
        BY <2>2, <3>2, <4>1
      <4> QED BY <2>2, <4>2 DEF InQueue
    <3> QED BY <3>1, <3>2
  <2>6. item' = [item EXCEPT ![w] = {r}]
    BY <1>3 DEF r
  <2>7. \A s : Unanswered(s)' <=> Unanswered(s)
    BY <1>1, <2>4, <2>5, <2>6 DEF Unanswered, WorkQueueTypeOK
  <2>8. \A i, j \in DOMAIN workQueue' : workQueue'[i] = workQueue'[j] => i = j
    <3>1. ASSUME NEW i \in 1..Len(workQueue'), NEW j \in 1..Len(workQueue'),
                 workQueue'[i] = workQueue'[j]
          PROVE  i = j
      <4>1. i + 1 \in DOMAIN workQueue /\ j + 1 \in DOMAIN workQueue
        BY <2>2
      <4>2. i + 1 = j + 1
        BY <2>2, <2>3, <3>1, <4>1
      <4> QED BY <4>2
    <3> QED BY <2>2, <3>1
  <2>9. WorkQueueTypeOK'
    <3>1. Len(workQueue') <= MaxDepth
      BY <2>2, MaxDepthPositive DEF WorkQueueTypeOK
    <3> QED BY <1>1, <1>3, <2>2, <2>6, <3>1 DEF WorkQueueTypeOK, WqPC
  <2>10. r \notin callback /\ \A v \in HttpWorkers : r \notin item[v]
    BY <2>4 DEF OnePlace
  <2>11. OnePlace'
    BY <1>1, <2>5, <2>6, <2>7, <2>8, <2>10 DEF OnePlace, WorkQueueTypeOK
  <2>12. AnsweredAfter'
    BY <1>1, <2>7 DEF AnsweredAfter
  <2>13. Stages'
    BY <1>1, <1>3, <2>1, <2>6 DEF Stages, Alive, WorkQueueTypeOK, MainPC
  <2> QED BY <2>9, <2>11, <2>12, <2>13
<1> QED BY <1>2, <1>3 DEF TakeItem

LEMMA HandleStep ==
    ASSUME RequestsInv, NEW w \in HttpWorkers, HandleItem(w)
    PROVE  RequestsInv'
<1> USE DEF RequestsInv
<1>1. /\ wqPc[w] = "work" /\ replies' = Answered(item[w])
      /\ item' = [item EXCEPT ![w] = {}]
      /\ wqPc' = [wqPc EXCEPT ![w] = "ready"]
      /\ UNCHANGED <<workQueue, wqRunning, numThreads, callback, received, mainPc,
                     wrecked>>
  BY DEF HandleItem
<1>2. Serving(wqPc') = Serving(wqPc)
  BY <1>1 DEF Serving, WorkQueueTypeOK
<1>3. \A r : Unanswered(r)' <=> Unanswered(r) /\ r \notin item[w]
  BY <1>1 DEF Unanswered, OnePlace, InQueue, WorkQueueTypeOK
<1>4. \A r \in item[w] : Unanswered(r) /\ r \in received
  BY DEF Unanswered, OnePlace, WorkQueueTypeOK
<1>5. WorkQueueTypeOK'
  BY <1>1 DEF WorkQueueTypeOK, WqPC, Answered
<1>6. OnePlace'
  BY <1>1, <1>3 DEF OnePlace, InQueue, WorkQueueTypeOK
<1>7. AnsweredAfter'
  BY <1>1, <1>3, <1>4 DEF AnsweredAfter, Answered
<1>8. Stages'
  BY <1>1, <1>2 DEF Stages, Alive, WorkQueueTypeOK
<1> QED BY <1>5, <1>6, <1>7, <1>8

LEMMA LeaveStep ==
    ASSUME RequestsInv, NEW w \in HttpWorkers, LeaveRun(w)
    PROVE  RequestsInv'
<1> USE DEF RequestsInv
<1>1. /\ wqPc[w] = "leaving" /\ Alive /\ numThreads' = numThreads - 1
      /\ wqPc' = [WokenWorkers(wqPc, Sleeping) EXCEPT ![w] = "left"]
      /\ mainPc' = IF mainPc = "wait" THEN "interrupted" ELSE mainPc
      /\ UNCHANGED <<workQueue, wqRunning, item, callback, received, replies, wrecked>>
  BY DEF LeaveRun
<1>2. /\ wqPc' \in [HttpWorkers -> WqPC]
      /\ w \in Serving(wqPc) /\ Serving(wqPc') = Serving(wqPc) \ {w}
      /\ \A v \in HttpWorkers : wqPc'[v] # "work" => wqPc[v] # "work"
  BY <1>1 DEF Serving, WorkQueueTypeOK, WokenWorkers, Sleeping, WqPC
<1>3. numThreads' = Cardinality(Serving(wqPc')) /\ numThreads' \in Nat
  <2>1. Cardinality(Serving(wqPc')) = Cardinality(Serving(wqPc)) - 1
    BY <1>2, GoesOut
  <2> QED BY <1>1, <2>1, ServingFinite DEF Stages
<1>4. WorkQueueTypeOK'
  BY <1>1, <1>2, <1>3 DEF WorkQueueTypeOK, MainPC
<1>5. OnePlace' /\ AnsweredAfter'
  BY <1>1 DEF OnePlace, AnsweredAfter, Unanswered, InQueue
<1>6. Stages'
  BY <1>1, <1>2, <1>3 DEF Stages, Alive, WorkQueueTypeOK, MainPC
<1> QED BY <1>4, <1>5, <1>6

-----------------------------------------------------------------------------
(* The main thread                                                         *)

LEMMA RejectStep == ASSUME RequestsInv, SetRejectCallback PROVE RequestsInv'
<1> USE DEF RequestsInv
<1>1. WorkQueueTypeOK'
  BY DEF WorkQueueTypeOK, SetRejectCallback, MainPC
<1>2. OnePlace' /\ AnsweredAfter'
  BY DEF OnePlace, AnsweredAfter, Unanswered, InQueue, SetRejectCallback
<1>3. Stages'
  BY DEF Stages, Alive, Serving, SetRejectCallback
<1> QED BY <1>1, <1>2, <1>3

LEMMA InterruptStep == ASSUME RequestsInv, InterruptQueue PROVE RequestsInv'
<1> USE DEF RequestsInv
<1>1. /\ mainPc = "rejecting" /\ mainPc' = "interrupted" /\ wqRunning' = FALSE
      /\ wqPc' = WokenWorkers(wqPc, Sleeping)
      /\ UNCHANGED <<workQueue, numThreads, item, callback, received, replies, wrecked>>
  BY DEF InterruptQueue
<1>2. /\ wqPc' \in [HttpWorkers -> WqPC] /\ Serving(wqPc') = Serving(wqPc)
      /\ \A v \in HttpWorkers : wqPc'[v] # "work" => wqPc[v] # "work"
  BY <1>1 DEF Serving, WorkQueueTypeOK, WokenWorkers, Sleeping, WqPC
<1>3. WorkQueueTypeOK'
  BY <1>1, <1>2 DEF WorkQueueTypeOK, MainPC
<1>4. OnePlace' /\ AnsweredAfter'
  BY <1>1 DEF OnePlace, AnsweredAfter, Unanswered, InQueue
<1>5. Stages'
  BY <1>1, <1>2 DEF Stages, Alive
<1> QED BY <1>3, <1>4, <1>5

\* WaitExit goes on when no thread is counted: then none has a request.
LEMMA WaitExitStep == ASSUME RequestsInv, WaitExit PROVE RequestsInv'
<1> USE DEF RequestsInv
<1>1. /\ mainPc = "interrupted"
      /\ mainPc' = IF numThreads > 0 THEN "wait" ELSE "exited"
      /\ UNCHANGED <<workQueue, wqRunning, numThreads, wqPc, item, callback,
                     received, replies, wrecked>>
  BY DEF WaitExit
<1>2. WorkQueueTypeOK'
  BY <1>1 DEF WorkQueueTypeOK, MainPC
<1>3. OnePlace' /\ AnsweredAfter'
  BY <1>1 DEF OnePlace, AnsweredAfter, Unanswered, InQueue
<1>4. ASSUME ~(numThreads > 0), NEW w \in HttpWorkers PROVE item[w] = {}
  <2>1. numThreads = 0
    BY <1>4 DEF WorkQueueTypeOK
  <2>2. Serving(wqPc) = {}
    BY <2>1, ServingFinite, FS_EmptySet DEF Stages
  <2> QED BY <2>2 DEF Serving, Stages
<1>5. Serving(wqPc)' = Serving(wqPc)
  BY <1>1 DEF Serving
<1>6. Stages'
  BY <1>1, <1>4, <1>5 DEF Stages, Alive
<1> QED BY <1>2, <1>3, <1>6

LEMMA DeleteStep == ASSUME RequestsInv, DeleteQueue PROVE RequestsInv'
<1> USE DEF RequestsInv
<1> DEFINE queued == {workQueue[i] : i \in DOMAIN workQueue}
<1>1. /\ mainPc = "exited" /\ mainPc' = "deleted"
      /\ replies' = Answered(queued) /\ workQueue' = <<>>
      /\ UNCHANGED <<wqRunning, numThreads, wqPc, item, callback, received, wrecked>>
  BY DEF DeleteQueue
<1>2. \A r : r \in queued <=> InQueue(r)
  BY DEF InQueue
<1> HIDE DEF queued
<1>3. \A r : ~InQueue(r)'
  BY <1>1 DEF InQueue
<1>4. \A r : Unanswered(r)' <=> Unanswered(r) /\ ~InQueue(r)
  BY <1>1, <1>3 DEF Unanswered, OnePlace
<1>5. WorkQueueTypeOK'
  <2>1. workQueue' \in Seq(Requests) /\ Len(workQueue') <= MaxDepth
    BY <1>1, MaxDepthPositive
  <2> QED BY <1>1, <2>1 DEF WorkQueueTypeOK, MainPC, Answered
<1>6. OnePlace'
  BY <1>1, <1>3, <1>4 DEF OnePlace
<1>7. \A r \in Requests : InQueue(r) => Unanswered(r) /\ r \in received
  BY DEF Unanswered, OnePlace
<1>8. AnsweredAfter'
  BY <1>1, <1>2, <1>4, <1>7 DEF AnsweredAfter, Answered
<1>9. Serving(wqPc)' = Serving(wqPc)
  BY <1>1 DEF Serving
<1>10. Stages'
  BY <1>1, <1>9 DEF Stages, Alive
<1> QED BY <1>5, <1>6, <1>8, <1>10

LEMMA JoinStep == ASSUME RequestsInv, JoinEvents PROVE RequestsInv'
<1> USE DEF RequestsInv
<1>1. WorkQueueTypeOK'
  BY DEF WorkQueueTypeOK, JoinEvents, MainPC
<1>2. OnePlace' /\ AnsweredAfter'
  BY DEF OnePlace, AnsweredAfter, Unanswered, InQueue, JoinEvents
<1>3. Stages'
  BY DEF Stages, Alive, Serving, JoinEvents
<1> QED BY <1>1, <1>2, <1>3

-----------------------------------------------------------------------------
(* The theorems                                                            *)

\* A use of the queue after its end changes nothing that is said here.
LEMMA WreckStep == ASSUME RequestsInv, Wreck PROVE RequestsInv'
BY DEF RequestsInv, Wreck, WorkQueueTypeOK, OnePlace, AnsweredAfter, Unanswered, InQueue,
       Stages, Alive, Serving

LEMMA RequestsPreserved == ASSUME RequestsInv, [WorkQueueNext]_wqVars PROVE RequestsInv'
<1>1. CASE \E r \in Requests : ReceiveRequest(r) \/ EventStep(r)
  BY <1>1, ReceiveStep, EnqueueStep, WreckStep DEF EventStep, EnqueueDeleted
<1>2. CASE \E w \in HttpWorkers : WorkerStep(w) \/ SpuriousWorker(w) \/ WorkerTooLate(w)
  BY <1>2, StartStep, TakeItemStep, HandleStep, LeaveStep, SpuriousStep, WreckStep
     DEF WorkerStep, WorkerTooLate
<1>3. CASE SetRejectCallback \/ Shutdown
  BY <1>3, RejectStep, InterruptStep, WaitExitStep, DeleteStep, JoinStep DEF Shutdown
<1>4. CASE UNCHANGED wqVars
  BY <1>4 DEF wqVars, RequestsInv, WorkQueueTypeOK, OnePlace, AnsweredAfter, Unanswered,
              InQueue, Stages, Alive, Serving
<1> QED BY <1>1, <1>2, <1>3, <1>4 DEF WorkQueueNext

\* The strengthening holds in every reachable state.
THEOREM RequestsInvariant == WorkQueueSpec => []RequestsInv
<1> QED BY InitRequests, RequestsPreserved, PTL DEF WorkQueueSpec

\* The queue stays within maxDepth and the counter of threads is a number,
\* for any number of workers.
THEOREM WorkQueueTypeCorrect == WorkQueueSpec => []WorkQueueTypeOK
<1>1. RequestsInv => WorkQueueTypeOK
  BY DEF RequestsInv
<1> QED BY RequestsInvariant, <1>1, PTL

\* The assertion of WriteReply holds, and a server that has stopped has answered
\* every request it received.
THEOREM AnsweredOnce == WorkQueueSpec => []RequestsAnsweredOnce
<1>1. RequestsInv => RequestsAnsweredOnce
  <2> SUFFICES ASSUME RequestsInv, NEW r \in Requests
               PROVE  /\ replies[r] <= 1
                      /\ mainPc = "stopped" /\ r \in received => replies[r] = 1
    BY DEF RequestsAnsweredOnce
  <2>1. replies[r] \in {0, 1}
    BY DEF RequestsInv, AnsweredAfter
  <2>2. ASSUME mainPc = "stopped" PROVE ~Unanswered(r)
    BY <2>2 DEF RequestsInv, Stages, Unanswered, InQueue, Alive
  <2> QED BY <2>1, <2>2 DEF RequestsInv, AnsweredAfter
<1> QED BY RequestsInvariant, <1>1, PTL

-----------------------------------------------------------------------------
(* The scheduler.  The count of the threads in serviceQueue, and the times *)
(* at which a single thread runs the tasks.                                *)
(*                                                                         *)
(* A thread in wait_until waits for the first task of the queue, as long as*)
(* it is the only one: what is put in front of it wakes it up.             *)

\* The threads that ever called serviceQueue are one at most.
Alone == \A t, u \in SchThreads : schPc[t] # "out" /\ schPc[u] # "out" => t = u

\* wait_until was given the time of the first task.
AwaitsFirst(t) == taskQueue # <<>> /\ deadline[t] = Head(taskQueue).at

OnTime == Alone => ~early /\ \A t \in SchThreads : schPc[t] = "timed" => AwaitsFirst(t)
ThreadsCounted == nThreadsServicingQueue = Cardinality(Inside)
ServiceInv == SchedulerTypeOK /\ ThreadsCounted /\ OnTime

-----------------------------------------------------------------------------
(* Lemmas about the operators                                              *)

\* An insertion makes a queue of entries.
LEMMA InsertedType ==
    ASSUME NEW q \in Seq(Entry), NEW k \in SchTasks, NEW at \in 0..MaxTime
    PROVE  Inserted(q, k, at) \in Seq(Entry)
<1> DEFINE S == {i \in DOMAIN q : q[i].at <= at}
           n == Cardinality(S)
           e == [task |-> k, at |-> at]
<1>1. Len(q) \in Nat /\ DOMAIN q = 1..Len(q)
  BY LenProperties
<1>2. n \in Nat /\ n <= Len(q)
  <2>1. IsFiniteSet(1..Len(q)) /\ Cardinality(1..Len(q)) = Len(q)
    <3>1. 1 \in Int /\ Len(q) \in Int
      BY <1>1
    <3>2. /\ IsFiniteSet(1..Len(q))
          /\ Cardinality(1..Len(q)) = IF 1 > Len(q) THEN 0 ELSE Len(q) - 1 + 1
      BY <3>1, FS_Interval, Zenon
    <3> QED BY <1>1, <3>2
  <2>2. S \in SUBSET (1..Len(q))
    BY <1>1
  <2> HIDE DEF S
  <2> QED BY <2>1, <2>2, FS_Subset, FS_CardinalityType
<1> HIDE DEF S, n
<1>3. \A i \in 1..Len(q) : q[i] \in Entry
  BY <1>1, ElementOfSeq
<1>4. SubSeq(q, 1, n) \in Seq(Entry) /\ SubSeq(q, n + 1, Len(q)) \in Seq(Entry)
  BY <1>1, <1>2, <1>3, SubSeqProperties
<1>5. <<e>> \in Seq(Entry)
  BY DEF Entry
<1> HIDE DEF e
<1>6. SubSeq(q, 1, n) \o <<e>> \o SubSeq(q, n + 1, Len(q)) \in Seq(Entry)
  BY <1>4, <1>5, ConcatProperties
<1> QED BY <1>6 DEF Inserted, S, n, e

\* notify_one changes no more than that one waiter is ready.
LEMMA WokenOneType ==
    ASSUME NEW p \in [SchThreads -> SchPC], NEW q \in WokenOne(p)
    PROVE  /\ q \in [SchThreads -> SchPC]
           /\ \A t \in SchThreads : q[t] = p[t] \/ (t \in Waiting(p) /\ q[t] = "ready")
           /\ Waiting(p) # {} => \E t \in Waiting(p) : q[t] = "ready"
<1>1. CASE Waiting(p) = {}
  BY <1>1 DEF WokenOne
<1>2. CASE Waiting(p) # {}
  <2>1. PICK u \in Waiting(p) : q = Woken(p, {u})
    BY <1>2 DEF WokenOne
  <2> QED BY <2>1 DEF Woken, Waiting, SchPC
<1> QED BY <1>1, <1>2

LEMMA InsideFinite == IsFiniteSet(Inside) /\ Cardinality(Inside) \in Nat
BY SchThreadsFinite, FS_Subset, FS_CardinalityType DEF Inside

LEMMA InitService == SchedulerInit => ServiceInv
<1> SUFFICES ASSUME SchedulerInit PROVE ServiceInv
  OBVIOUS
<1>1. Inside = {}
  BY DEF SchedulerInit, Inside
<1>2. ThreadsCounted
  BY <1>1, FS_EmptySet DEF SchedulerInit, ThreadsCounted
<1>3. SchedulerTypeOK
  <2>1. 0 \in 0..MaxTime /\ taskQueue \in Seq(Entry)
    BY MaxTimeNat DEF SchedulerInit
  <2> QED BY <2>1 DEF SchedulerInit, SchedulerTypeOK, SchPC
<1>4. OnTime
  BY DEF SchedulerInit, OnTime
<1> QED BY <1>2, <1>3, <1>4 DEF ServiceInv

-----------------------------------------------------------------------------
(* serviceQueue                                                            *)

\* The loop, from its top: thread t is inside and is counted.
LEMMA LoopStep ==
    ASSUME ServiceInv, NEW t \in SchThreads, NEW n, n = Cardinality(Inside \cup {t}),
           LoopFrom(t, n)
    PROVE  ServiceInv'
<1> USE DEF ServiceInv
<1> DEFINE I == Inside \cup {t}
<1>1. UNCHANGED <<taskQueue, stopRequested, stopWhenEmpty, now, running, asked,
                  early, interrupted>>
  BY DEF LoopFrom
<1>2. IsFiniteSet(I) /\ n \in Nat /\ Cardinality(I \ {t}) = n - 1 /\ n - 1 \in Nat
  <2>1. IsFiniteSet(I)
    BY InsideFinite, FS_AddElement
  <2>2. t \in I /\ IsFiniteSet(I \ {t}) /\ Cardinality(I \ {t}) = Cardinality(I) - 1
    BY <2>1, FS_RemoveElement
  <2>3. Cardinality(I) \in Nat /\ Cardinality(I \ {t}) \in Nat
    BY <2>1, <2>2, FS_CardinalityType
  <2> QED BY <2>1, <2>2, <2>3
<1>3. CASE /\ nThreadsServicingQueue' = n - 1 /\ UNCHANGED deadline
           /\ schPc' \in WokenOne([schPc EXCEPT ![t] = "left"])
  <2> DEFINE p == [schPc EXCEPT ![t] = "left"]
  <2>1. p \in [SchThreads -> SchPC]
    BY DEF SchedulerTypeOK, SchPC
  <2>2. /\ schPc' \in [SchThreads -> SchPC]
        /\ \A u \in SchThreads : schPc'[u] = p[u] \/ (u \in Waiting(p) /\ schPc'[u] = "ready")
    BY <1>3, <2>1, WokenOneType
  <2>3. /\ schPc'[t] = "left"
        /\ \A u \in SchThreads \ {t} :
              schPc'[u] = schPc[u] \/ (schPc[u] \in {"wait", "timed"} /\ schPc'[u] = "ready")
    BY <2>2 DEF SchedulerTypeOK, Waiting
  <2>4. Inside' = I \ {t}
    BY <2>3 DEF Inside
  <2>5. ThreadsCounted'
    BY <1>2, <1>3, <2>4 DEF ThreadsCounted
  <2>6. SchedulerTypeOK'
    BY <1>1, <1>2, <1>3, <2>2 DEF SchedulerTypeOK
  <2>7. OnTime'
    BY <1>1, <1>3, <2>3 DEF OnTime, Alone, AwaitsFirst
  <2> QED BY <2>5, <2>6, <2>7
<1>4. CASE /\ nThreadsServicingQueue' = n
           /\ \/ schPc' = [schPc EXCEPT ![t] = "wait"] /\ UNCHANGED deadline
              \/ /\ taskQueue # <<>>
                 /\ schPc' = [schPc EXCEPT ![t] = "timed"]
                 /\ deadline' = [deadline EXCEPT ![t] = Head(taskQueue).at]
  <2>1. Inside' = I
    BY <1>4 DEF Inside, SchedulerTypeOK
  <2>2. ThreadsCounted'
    BY <1>4, <2>1 DEF ThreadsCounted
  <2>3. taskQueue # <<>> => Head(taskQueue).at \in 0..MaxTime
    <3>1. taskQueue # <<>> => Head(taskQueue) \in Entry
      BY HeadTailProperties DEF SchedulerTypeOK
    <3> QED BY <3>1 DEF Entry
  <2>4. SchedulerTypeOK'
    BY <1>1, <1>2, <1>4, <2>3 DEF SchedulerTypeOK, SchPC
  <2>5. Alone' => Alone /\ \A u \in SchThreads \ {t} : schPc'[u] = "out"
    BY <1>4 DEF Alone, SchedulerTypeOK
  <2>6. OnTime'
    BY <1>1, <1>4, <2>5 DEF OnTime, AwaitsFirst, SchedulerTypeOK
  <2> QED BY <2>2, <2>4, <2>6
<1> QED BY <1>3, <1>4 DEF LoopFrom

\* What comes to the loop counts itself in, or was counted.
LEMMA ServiceStepInv ==
    ASSUME ServiceInv, NEW t \in SchThreads,
           ServiceQueue(t) \/ Resume(t) \/ SpuriousReturn(t) \/ TimeOutIdle(t)
    PROVE  ServiceInv'
<1> USE DEF ServiceInv
<1>1. CASE ServiceQueue(t)
  <2>1. t \notin Inside
    BY <1>1 DEF ServiceQueue, Inside
  <2>2. nThreadsServicingQueue + 1 = Cardinality(Inside \cup {t})
    BY <2>1, InsideFinite, FS_AddElement DEF ThreadsCounted
  <2> QED BY <1>1, <2>2, LoopStep DEF ServiceQueue
<1>2. CASE Resume(t) \/ SpuriousReturn(t) \/ TimeOutIdle(t)
  <2>1. Inside \cup {t} = Inside
    BY <1>2 DEF Resume, SpuriousReturn, TimeOutIdle, Inside
  <2>2. nThreadsServicingQueue = Cardinality(Inside \cup {t})
    BY <2>1 DEF ThreadsCounted
  <2> QED BY <1>2, <2>2, LoopStep DEF Resume, SpuriousReturn, TimeOutIdle
<1> QED BY <1>1, <1>2

\* A task is taken: the first, whose time it is if t is the only thread.
LEMMA TakeTaskStep == ASSUME ServiceInv, NEW t \in SchThreads, TimeOutTake(t) PROVE ServiceInv'
<1> USE DEF ServiceInv
<1>1. /\ schPc[t] = "timed" /\ deadline[t] <= now /\ taskQueue # <<>>
      /\ running' = [running EXCEPT ![t] = {Head(taskQueue).task}]
      /\ early' = (early \/ Head(taskQueue).at > now)
      /\ taskQueue' = Tail(taskQueue)
      /\ schPc' = [schPc EXCEPT ![t] = "run"]
      /\ UNCHANGED <<nThreadsServicingQueue, stopRequested, stopWhenEmpty, now,
                     deadline, asked, interrupted>>
  BY DEF TimeOutTake
<1>2. Head(taskQueue) \in Entry /\ taskQueue' \in Seq(Entry)
  BY <1>1, HeadTailProperties DEF SchedulerTypeOK
<1>3. early' \in BOOLEAN
  BY <1>1, Zenon DEF SchedulerTypeOK
<1>4. SchedulerTypeOK'
  BY <1>1, <1>2, <1>3 DEF SchedulerTypeOK, SchPC, Entry
<1>5. Inside' = Inside
  BY <1>1 DEF Inside, SchedulerTypeOK
<1>6. ASSUME Alone' PROVE ~early' /\ \A u \in SchThreads : schPc'[u] # "timed"
  <2>1. Alone /\ \A u \in SchThreads : schPc'[u] # "timed"
    BY <1>1, <1>6 DEF Alone, SchedulerTypeOK
  <2>2. ~early /\ deadline[t] = Head(taskQueue).at
    BY <1>1, <2>1 DEF OnTime, AwaitsFirst
  <2>3. deadline[t] \in Int /\ now \in Int
    BY MaxTimeNat DEF SchedulerTypeOK
  <2>4. ~(Head(taskQueue).at > now)
    BY <1>1, <2>2, <2>3
  <2> QED BY <1>1, <2>1, <2>2, <2>4
<1>7. ThreadsCounted'
  BY <1>1, <1>5 DEF ThreadsCounted
<1> QED BY <1>4, <1>6, <1>7 DEF OnTime

\* A task ends; what it puts back may wake another thread.
LEMMA RunStep == ASSUME ServiceInv, NEW t \in SchThreads, RunTask(t) PROVE ServiceInv'
<1> USE DEF ServiceInv
<1> DEFINE back == [schPc EXCEPT ![t] = "ready"]
           at == IF now < MaxTime THEN now + 1 ELSE MaxTime
<1>1. /\ schPc[t] = "run" /\ running' = [running EXCEPT ![t] = {}]
      /\ UNCHANGED <<nThreadsServicingQueue, stopRequested, stopWhenEmpty, now,
                     deadline, asked, early, interrupted>>
  BY DEF RunTask
<1>2. \/ schPc' = back /\ UNCHANGED taskQueue
      \/ /\ \E k \in running[t] \cap Repeating : taskQueue' = Inserted(taskQueue, k, at)
         /\ schPc' \in WokenOne(back)
  BY DEF RunTask
<1>3. back \in [SchThreads -> SchPC]
  BY DEF SchedulerTypeOK, SchPC
<1>4. /\ schPc' \in [SchThreads -> SchPC]
      /\ \A u \in SchThreads :
            schPc'[u] = back[u] \/ (u \in Waiting(back) /\ schPc'[u] = "ready")
  BY <1>2, <1>3, WokenOneType
<1>5. taskQueue' \in Seq(Entry)
  <2>1. at \in 0..MaxTime
    BY MaxTimeNat DEF SchedulerTypeOK
  <2>2. running[t] \subseteq SchTasks
    BY DEF SchedulerTypeOK
  <2> HIDE DEF at
  <2> QED BY <1>2, <2>1, <2>2, InsertedType DEF SchedulerTypeOK
<1>6. SchedulerTypeOK'
  BY <1>1, <1>4, <1>5 DEF SchedulerTypeOK
<1>7. /\ schPc'[t] = "ready"
      /\ \A u \in SchThreads \ {t} :
            schPc'[u] = schPc[u] \/ (schPc[u] \in {"wait", "timed"} /\ schPc'[u] = "ready")
  BY <1>4 DEF Waiting, SchedulerTypeOK
<1>8. Inside' = Inside
  BY <1>1, <1>7 DEF Inside
<1>9. ThreadsCounted'
  BY <1>1, <1>8 DEF ThreadsCounted
<1>10. ASSUME Alone' PROVE Alone /\ \A u \in SchThreads : schPc'[u] # "timed"
  BY <1>1, <1>7, <1>10 DEF Alone
<1>11. OnTime'
  BY <1>1, <1>10 DEF OnTime
<1> QED BY <1>6, <1>9, <1>11

LEMMA ThrowStep == ASSUME ServiceInv, NEW t \in SchThreads, Throw(t) PROVE ServiceInv'
<1> USE DEF ServiceInv
<1>1. /\ schPc[t] \in {"wait", "timed", "run"}
      /\ nThreadsServicingQueue' = nThreadsServicingQueue - 1
      /\ schPc' = [schPc EXCEPT ![t] = "thrown"]
      /\ running' = [running EXCEPT ![t] = {}]
      /\ UNCHANGED <<taskQueue, stopRequested, stopWhenEmpty, now, deadline,
                     asked, early, interrupted>>
  BY DEF Throw
<1>2. t \in Inside /\ Inside' = Inside \ {t}
  BY <1>1 DEF Inside, SchedulerTypeOK
<1>3. Cardinality(Inside \ {t}) = Cardinality(Inside) - 1 /\ Cardinality(Inside \ {t}) \in Nat
  BY <1>2, InsideFinite, FS_RemoveElement, FS_CardinalityType
<1>4. ThreadsCounted'
  BY <1>1, <1>2, <1>3 DEF ThreadsCounted
<1>5. nThreadsServicingQueue' \in Nat
  BY <1>1, <1>3 DEF ThreadsCounted
<1>6. SchedulerTypeOK'
  BY <1>1, <1>5 DEF SchedulerTypeOK, SchPC
<1>7. OnTime'
  BY <1>1 DEF OnTime, Alone, AwaitsFirst, SchedulerTypeOK
<1> QED BY <1>4, <1>6, <1>7

-----------------------------------------------------------------------------
(* The others                                                              *)

\* A new task wakes a waiter: the only one, if there is but one thread.
LEMMA ScheduleStep == ASSUME ServiceInv, NEW k \in SchTasks, Schedule(k) PROVE ServiceInv'
<1> USE DEF ServiceInv
<1>1. /\ asked' = asked \cup {k} /\ schPc' \in WokenOne(schPc)
      /\ UNCHANGED <<nThreadsServicingQueue, stopRequested, stopWhenEmpty, now,
                     deadline, running, early, interrupted>>
  BY DEF Schedule
<1>2. PICK at \in now..MaxTime : taskQueue' = Inserted(taskQueue, k, at)
  BY DEF Schedule
<1>3. /\ schPc' \in [SchThreads -> SchPC]
      /\ \A u \in SchThreads :
            schPc'[u] = schPc[u] \/ (u \in Waiting(schPc) /\ schPc'[u] = "ready")
      /\ Waiting(schPc) # {} => \E u \in Waiting(schPc) : schPc'[u] = "ready"
  BY <1>1, WokenOneType DEF SchedulerTypeOK
<1>4. taskQueue' \in Seq(Entry)
  <2>1. at \in 0..MaxTime
    BY MaxTimeNat DEF SchedulerTypeOK
  <2> QED BY <1>2, <2>1, InsertedType DEF SchedulerTypeOK
<1>5. SchedulerTypeOK'
  BY <1>1, <1>3, <1>4 DEF SchedulerTypeOK
<1>6. Inside' = Inside
  BY <1>3 DEF Inside, Waiting
<1>7. ThreadsCounted'
  BY <1>1, <1>6 DEF ThreadsCounted
<1>8. ASSUME Alone' PROVE Alone /\ \A u \in SchThreads : schPc'[u] # "timed"
  BY <1>3, <1>8 DEF Alone, Waiting
<1>9. OnTime'
  BY <1>1, <1>8 DEF OnTime
<1> QED BY <1>5, <1>7, <1>9

LEMMA StopStep == ASSUME ServiceInv, NEW drain \in BOOLEAN, Stop(drain) PROVE ServiceInv'
<1> USE DEF ServiceInv
<1>1. /\ stopWhenEmpty' = drain /\ stopRequested' = ~drain
      /\ schPc' = Woken(schPc, Waiting(schPc))
      /\ UNCHANGED <<taskQueue, nThreadsServicingQueue, now, deadline, running,
                     asked, early, interrupted>>
  BY DEF Stop
<1>2. /\ schPc' \in [SchThreads -> SchPC]
      /\ \A u \in SchThreads :
            schPc'[u] = IF schPc[u] \in {"wait", "timed"} THEN "ready" ELSE schPc[u]
  BY <1>1 DEF Woken, Waiting, SchedulerTypeOK, SchPC
<1>3. stopWhenEmpty' \in BOOLEAN /\ stopRequested' \in BOOLEAN
  BY <1>1
<1>4. SchedulerTypeOK'
  BY <1>1, <1>2, <1>3 DEF SchedulerTypeOK
<1>5. Inside' = Inside
  BY <1>2 DEF Inside
<1>6. ThreadsCounted'
  BY <1>1, <1>5 DEF ThreadsCounted
<1>7. OnTime'
  BY <1>1, <1>2 DEF OnTime, Alone, AwaitsFirst
<1> QED BY <1>4, <1>6, <1>7

LEMMA OtherStep ==
    ASSUME ServiceInv, InterruptAll \/ Tick \/ UNCHANGED schVars
    PROVE  ServiceInv'
<1> USE DEF ServiceInv
<1>1. SchedulerTypeOK'
  <2>1. CASE InterruptAll
    BY <2>1 DEF SchedulerTypeOK, InterruptAll
  <2>2. CASE Tick
    BY <2>2, MaxTimeNat DEF SchedulerTypeOK, Tick
  <2>3. CASE UNCHANGED schVars
    BY <2>3 DEF SchedulerTypeOK, schVars
  <2> QED BY <2>1, <2>2, <2>3
<1>2. UNCHANGED <<taskQueue, nThreadsServicingQueue, schPc, deadline, early>>
  BY DEF InterruptAll, Tick, schVars
<1>3. ThreadsCounted' /\ OnTime'
  BY <1>2 DEF ThreadsCounted, Inside, OnTime, Alone, AwaitsFirst
<1> QED BY <1>1, <1>3

-----------------------------------------------------------------------------
(* The theorems                                                            *)

LEMMA ServicePreserved == ASSUME ServiceInv, [SchedulerNext]_schVars PROVE ServiceInv'
<1>1. CASE \E t \in SchThreads : ServiceStep(t) \/ SpuriousReturn(t)
  BY <1>1, ServiceStepInv, TakeTaskStep, RunStep, ThrowStep DEF ServiceStep
<1>2. CASE \E k \in SchTasks : Schedule(k)
  BY <1>2, ScheduleStep
<1>3. CASE \E drain \in BOOLEAN : Stop(drain)
  BY <1>3, StopStep
<1>4. CASE InterruptAll \/ Tick \/ UNCHANGED schVars
  BY <1>4, OtherStep
<1> QED BY <1>1, <1>2, <1>3, <1>4 DEF SchedulerNext

\* The strengthening holds in every reachable state.
THEOREM ServiceInvariant == SchedulerSpec => []ServiceInv
<1> QED BY InitService, ServicePreserved, PTL DEF SchedulerSpec

\* The queue holds tasks at times, and the count of threads is a number, for any
\* threads, tasks and clock.
THEOREM SchedulerTypeCorrect == SchedulerSpec => []SchedulerTypeOK
<1>1. ServiceInv => SchedulerTypeOK
  BY DEF ServiceInv
<1> QED BY ServiceInvariant, <1>1, PTL

\* The assertion of ~CScheduler is about a true count, and a thread that serves
\* alone runs no task before its time.
THEOREM ServiceSound == SchedulerSpec => []ServiceIsSound
<1>1. ASSUME ServiceInv, Cardinality({t \in SchThreads : schPc[t] # "out"}) <= 1
      PROVE  Alone
  <2> DEFINE E == {t \in SchThreads : schPc[t] # "out"}
  <2>1. ASSUME NEW t \in E, NEW u \in E, t # u PROVE FALSE
    <3>1. IsFiniteSet(E) /\ IsFiniteSet(E \ {t}) /\ IsFiniteSet((E \ {t}) \ {u})
      BY SchThreadsFinite, FS_Subset
    <3>2. Cardinality(E \ {t}) = Cardinality(E) - 1
      BY <3>1, FS_RemoveElement
    <3>3. Cardinality((E \ {t}) \ {u}) = Cardinality(E \ {t}) - 1
      BY <2>1, <3>1, FS_RemoveElement
    <3>4. Cardinality((E \ {t}) \ {u}) \in Nat /\ Cardinality(E) \in Nat
      BY <3>1, FS_CardinalityType
    <3>5. Cardinality(E) <= 1
      BY <1>1
    <3> HIDE DEF E
    <3> QED BY <3>2, <3>3, <3>4, <3>5
  <2> QED BY <2>1 DEF Alone
<1>2. ServiceInv => ServiceIsSound
  BY <1>1 DEF ServiceInv, ThreadsCounted, OnTime, ServiceIsSound
<1> QED BY ServiceInvariant, <1>2, PTL

-----------------------------------------------------------------------------
(* The script verification queue, for any number of workers, any set of    *)
(* checks and any batch size.                                              *)
(*                                                                         *)
(* The argument follows the code: every critical section of Loop consists  *)
(* of a first half (the clean-up, the first iteration, or the return from  *)
(* cond.wait) and of LoopBody.  Mid says what holds between the halves;    *)
(* each first half establishes it from QInv, and LoopBody turns it back    *)
(* into QInv.                                                              *)

\* The threads nTotal counts, and those among them nIdle counts.
AmongTotal(p) == {t \in Threads : p[t] \in {"wait", "woken", "work", "done", "dead"}}
Asleep(p) == {t \in Threads : p[t] \in {"wait", "woken", "dead"}}

\* Each interruption of the master leaves one phantom in both counters.
Counters ==
    /\ nTotal = Cardinality(AmongTotal(pc)) + interrupts
    /\ nIdle = Cardinality(Asleep(pc)) + interrupts

\* The types of everything but the counters.
Shapes ==
    /\ queue \in SUBSET Checks
    /\ fAllOk \in BOOLEAN
    /\ vChecks \in [Threads -> SUBSET Checks]
    /\ fOk \in [Threads -> BOOLEAN]
    /\ pc \in [Threads -> PC]
    /\ added \in SUBSET Checks
    /\ verdict \in SUBSET BOOLEAN
    /\ interrupts \in 0..MaxInterrupts

\* A thread owns a batch exactly while it works on it.
Batches ==
    /\ \A t \in Threads : pc[t] \in {"work", "done"} <=> vChecks[t] # {}
    /\ \A t \in Threads : vChecks[t] \cap queue = {}
    /\ \A t, u \in Threads : t # u => vChecks[t] \cap vChecks[u] = {}
    /\ nTodo = Cardinality(Pending)

\* How the three places a failure is recorded in relate to the checks added.
Failures ==
    /\ Pending \subseteq added
    /\ ~fAllOk => added \cap Bad # {}
    /\ \A t \in Threads : pc[t] \in {"work", "done"} /\ ~fOk[t] => added \cap Bad # {}
    /\ \A t \in Threads : pc[t] = "done" /\ vChecks[t] \cap Bad # {} => ~fOk[t]
    /\ pc[Master] # "out" => \A c \in (added \cap Bad) \ Pending : ~fAllOk
    /\ pc[Master] = "out" => fAllOk /\ Pending = {}
    /\ pc[Master] # "out" => verdict = {}
    /\ VerdictIsConjunction

QInv == Shapes /\ Counters /\ Batches /\ Failures

-----------------------------------------------------------------------------
\* What is pending besides the batch of thread t.
Rest(t) ==
    {c \in Checks : c \in queue \/ \E u \in Threads \ {t} : c \in vChecks[u]}

\* Between the two halves of a critical section of t: t counts as running,
\* and its old batch as done.
Mid(t, idle, total, todo, allOk, p) ==
    /\ Shapes
    /\ p \in [Threads -> PC]
    /\ allOk \in BOOLEAN
    /\ t = Master => p[t] # "out"
    /\ p[Master] # "out"  \/ (Rest(t) = {} /\ allOk)
    /\ total = Cardinality(AmongTotal(p) \ {t}) + 1 + interrupts
    /\ idle = Cardinality(Asleep(p) \ {t}) + interrupts
    /\ todo = Cardinality(Rest(t))
    /\ \A u \in Threads \ {t} : p[u] \in {"work", "done"} <=> vChecks[u] # {}
    /\ \A u \in Threads \ {t} : vChecks[u] \cap queue = {}
    /\ \A u, v \in Threads \ {t} : u # v => vChecks[u] \cap vChecks[v] = {}
    /\ Rest(t) \subseteq added
    /\ ~allOk => added \cap Bad # {}
    /\ \A u \in Threads \ {t} :
          p[u] \in {"work", "done"} /\ ~fOk[u] => added \cap Bad # {}
    /\ \A u \in Threads \ {t} : p[u] = "done" /\ vChecks[u] \cap Bad # {} => ~fOk[u]
    /\ p[Master] # "out" => \A c \in (added \cap Bad) \ Rest(t) : ~allOk
    /\ p[Master] # "out" => verdict = {}
    /\ VerdictIsConjunction

-----------------------------------------------------------------------------
\* Every set of threads and every set of checks is finite.
LEMMA Finite ==
    /\ \A S \in SUBSET Threads : IsFiniteSet(S) /\ Cardinality(S) \in Nat
    /\ \A S \in SUBSET Checks : IsFiniteSet(S) /\ Cardinality(S) \in Nat
<1>1. IsFiniteSet(Threads)
  BY WorkersFinite, FS_AddElement DEF Threads
<1>2. ASSUME NEW S \in SUBSET Threads PROVE IsFiniteSet(S) /\ Cardinality(S) \in Nat
  BY <1>1, FS_Subset, FS_CardinalityType
<1>3. ASSUME NEW S \in SUBSET Checks PROVE IsFiniteSet(S) /\ Cardinality(S) \in Nat
  BY ChecksFinite, FS_Subset, FS_CardinalityType
<1>4. QED BY <1>2, <1>3

\* Splitting one thread off a set of threads.
LEMMA SplitThread ==
    ASSUME NEW S \in SUBSET Threads, NEW t \in S
    PROVE  Cardinality(S) = Cardinality(S \ {t}) + 1
BY Finite, FS_RemoveElement

\* nNow is at least one and at most the size of the queue.
LEMMA BatchCountPositive ==
    ASSUME NEW q \in SUBSET Checks, NEW total \in Nat, NEW idle \in Nat
    PROVE  BatchCount(q, total, idle) \in Nat \ {0}
<1>1. Cardinality(q) \in Nat
  BY Finite
<1>2. Cardinality(q) \div (total + idle + 1) \in Int
  BY <1>1
<1>3. QED
  BY <1>2, BatchSizePositive DEF BatchCount, Greater, Lesser

-----------------------------------------------------------------------------
(* The first halves of the critical sections                               *)

\* What is pending is the batch of t and the rest, and they do not overlap.
LEMMA PendingSplit ==
    ASSUME Shapes, Batches, NEW t \in Threads
    PROVE  /\ Rest(t) = Pending \ vChecks[t]
           /\ vChecks[t] \subseteq Pending
           /\ Cardinality(Rest(t)) = nTodo - Cardinality(vChecks[t])
<1>1. /\ Rest(t) = Pending \ vChecks[t]
      /\ vChecks[t] \subseteq Pending
  BY DEF Shapes, Batches, Rest, Pending
<1>2. Pending \cap vChecks[t] = vChecks[t]
  BY <1>1
<1>3. IsFiniteSet(Pending)
  BY Finite DEF Pending
<1>4. Cardinality(Pending \ vChecks[t]) =
         Cardinality(Pending) - Cardinality(Pending \cap vChecks[t])
  BY <1>3, FS_Difference
<1>5. Cardinality(Rest(t)) = nTodo - Cardinality(vChecks[t])
  BY <1>1, <1>2, <1>4, Zenon DEF Batches
<1>6. QED
  BY <1>1, <1>5

LEMMA EnterMid ==
    ASSUME QInv, NEW t \in Threads, pc[t] = "enter"
    PROVE  Mid(t, nIdle, nTotal + 1, nTodo, fAllOk, pc)
<1>0. Shapes /\ Counters /\ Batches /\ Failures
  BY DEF QInv
<1>1. vChecks[t] = {}
  BY <1>0 DEF Batches
<1>2. Rest(t) = Pending /\ Cardinality(Rest(t)) = nTodo
  BY <1>0, <1>1, PendingSplit DEF Batches
<1>3. /\ Cardinality(AmongTotal(pc) \ {t}) = Cardinality(AmongTotal(pc))
      /\ Cardinality(Asleep(pc) \ {t}) = Cardinality(Asleep(pc))
  <2>1. AmongTotal(pc) \ {t} = AmongTotal(pc) /\ Asleep(pc) \ {t} = Asleep(pc)
    BY DEF AmongTotal, Asleep
  <2>2. QED BY <2>1, Zenon
<1>4. Cardinality(AmongTotal(pc)) \in Nat /\ interrupts \in Nat
  BY <1>0, Finite, MaxInterruptsNat DEF AmongTotal, Shapes
<1>5. nTotal + 1 = Cardinality(AmongTotal(pc) \ {t}) + 1 + interrupts
  BY <1>0, <1>3, <1>4 DEF Counters
<1>6. nIdle = Cardinality(Asleep(pc) \ {t}) + interrupts
  BY <1>0, <1>3 DEF Counters
<1>7. QED
  BY <1>0, <1>2, <1>5, <1>6 DEF Mid, Shapes, Batches, Failures, VerdictIsConjunction

LEMMA WakeMid ==
    ASSUME QInv, NEW t \in Threads, pc[t] \in {"wait", "woken"}
    PROVE  Mid(t, nIdle - 1, nTotal, nTodo, fAllOk, pc)
<1>0. Shapes /\ Counters /\ Batches /\ Failures
  BY DEF QInv
<1>1. vChecks[t] = {}
  BY <1>0 DEF Batches
<1>2. Rest(t) = Pending /\ Cardinality(Rest(t)) = nTodo
  BY <1>0, <1>1, PendingSplit DEF Batches
<1>3. t \in AmongTotal(pc) /\ t \in Asleep(pc)
  BY DEF AmongTotal, Asleep
<1>4. /\ Cardinality(AmongTotal(pc)) = Cardinality(AmongTotal(pc) \ {t}) + 1
      /\ Cardinality(Asleep(pc)) = Cardinality(Asleep(pc) \ {t}) + 1
  BY <1>3, SplitThread DEF AmongTotal, Asleep
<1>5. /\ Cardinality(AmongTotal(pc) \ {t}) \in Nat
      /\ Cardinality(Asleep(pc) \ {t}) \in Nat
      /\ interrupts \in Nat
  BY <1>0, Finite, MaxInterruptsNat DEF AmongTotal, Asleep, Shapes
<1>6. /\ nTotal = Cardinality(AmongTotal(pc) \ {t}) + 1 + interrupts
      /\ nIdle - 1 = Cardinality(Asleep(pc) \ {t}) + interrupts
  BY <1>0, <1>4, <1>5 DEF Counters
<1>7. QED
  BY <1>0, <1>2, <1>6 DEF Mid, Shapes, Batches, Failures, VerdictIsConjunction

LEMMA FinishMid ==
    ASSUME QInv, NEW t \in Threads, pc[t] = "done"
    PROVE  LET todo == nTodo - Cardinality(vChecks[t])
           IN Mid(t, nIdle, nTotal, todo, fAllOk /\ fOk[t], NotifyMaster(t, todo))
<1> DEFINE todo == nTodo - Cardinality(vChecks[t])
           p == NotifyMaster(t, todo)
<1>0. Shapes /\ Counters /\ Batches /\ Failures
  BY DEF QInv
<1>1. /\ Rest(t) = Pending \ vChecks[t]
      /\ vChecks[t] \subseteq Pending
      /\ Cardinality(Rest(t)) = todo
  BY <1>0, PendingSplit
<1>2. vChecks[t] # {}
  BY <1>0 DEF Batches
<1>3. pc[Master] # "out"
  BY <1>0, <1>1, <1>2 DEF Failures
<1>4. /\ p \in [Threads -> PC]
      /\ p = pc \/ (/\ t # Master
                   /\ pc[Master] = "wait"
                   /\ p = [pc EXCEPT ![Master] = "woken"])
  BY <1>0 DEF NotifyMaster, Shapes, PC
<1>5. /\ p[Master] # "out"
      /\ \A u \in Threads : p[u] \in {"work", "done"} <=> pc[u] \in {"work", "done"}
      /\ \A u \in Threads : p[u] = "done" <=> pc[u] = "done"
      /\ AmongTotal(p) = AmongTotal(pc)
      /\ Asleep(p) = Asleep(pc)
  BY <1>0, <1>3, <1>4 DEF Shapes, AmongTotal, Asleep
<1>6. t \in AmongTotal(pc) /\ t \notin Asleep(pc)
  BY DEF AmongTotal, Asleep
<1>7. /\ Cardinality(AmongTotal(pc)) = Cardinality(AmongTotal(pc) \ {t}) + 1
      /\ Asleep(pc) = Asleep(pc) \ {t}
  BY <1>6, SplitThread DEF AmongTotal
<1>8. /\ nTotal = Cardinality(AmongTotal(p) \ {t}) + 1 + interrupts
      /\ nIdle = Cardinality(Asleep(p) \ {t}) + interrupts
  <2>1. /\ Cardinality(AmongTotal(p) \ {t}) = Cardinality(AmongTotal(pc) \ {t})
        /\ Cardinality(Asleep(p) \ {t}) = Cardinality(Asleep(pc))
    <3> HIDE DEF p
    <3> QED BY <1>5, <1>7, Zenon
  <2>2. QED
    BY <1>0, <1>7, <2>1 DEF Counters
<1>9. /\ (fAllOk /\ fOk[t]) \in BOOLEAN
      /\ ~(fAllOk /\ fOk[t]) => added \cap Bad # {}
  BY <1>0 DEF Failures, Shapes
<1>10. \A c \in (added \cap Bad) \ Rest(t) : ~(fAllOk /\ fOk[t])
  <2> SUFFICES ASSUME NEW c \in (added \cap Bad) \ Rest(t)
               PROVE  ~(fAllOk /\ fOk[t])
    OBVIOUS
  <2>1. CASE c \in Pending
    BY <2>1, <1>0, <1>1 DEF Failures
  <2>2. CASE c \notin Pending
    BY <2>2, <1>0, <1>3 DEF Failures
  <2>3. QED BY <2>1, <2>2
<1>11. Rest(t) \subseteq added
  BY <1>0, <1>1 DEF Failures
<1>12. verdict = {} /\ VerdictIsConjunction
  BY <1>0, <1>3 DEF Failures
<1>13. /\ \A u \in Threads \ {t} : p[u] \in {"work", "done"} <=> vChecks[u] # {}
       /\ \A u \in Threads \ {t} : vChecks[u] \cap queue = {}
       /\ \A u, v \in Threads \ {t} : u # v => vChecks[u] \cap vChecks[v] = {}
  BY <1>0, <1>5 DEF Batches
<1>14. /\ \A u \in Threads \ {t} :
             p[u] \in {"work", "done"} /\ ~fOk[u] => added \cap Bad # {}
       /\ \A u \in Threads \ {t} :
             p[u] = "done" /\ vChecks[u] \cap Bad # {} => ~fOk[u]
  BY <1>0, <1>5 DEF Failures
<1>15. Mid(t, nIdle, nTotal, todo, fAllOk /\ fOk[t], p)
  BY <1>0, <1>1, <1>4, <1>5, <1>8, <1>9, <1>10, <1>11, <1>12, <1>13, <1>14 DEF Mid
<1>16. QED BY <1>15

-----------------------------------------------------------------------------
(* The second half                                                         *)

\* The second half of a critical section re-establishes the invariant.
LEMMA LoopBodyInv ==
    ASSUME NEW t \in Threads, NEW idle, NEW total, NEW todo, NEW allOk, NEW p,
           Mid(t, idle, total, todo, allOk, p),
           LoopBody(t, idle, total, todo, allOk, p)
    PROVE  QInv'
<1> DEFINE S == Asleep(p) \ {t}
           C == AmongTotal(p) \ {t}
<1>0. /\ Cardinality(S) \in Nat /\ Cardinality(C) \in Nat
      /\ interrupts \in Nat
      /\ Cardinality(C \cup {t}) = Cardinality(C) + 1
      /\ Cardinality(S \cup {t}) = Cardinality(S) + 1
  <2>1. /\ C \in SUBSET Threads /\ t \notin C
        /\ S \in SUBSET Threads /\ t \notin S
    BY DEF AmongTotal, Asleep
  <2>2. IsFiniteSet(S) /\ IsFiniteSet(C)
        /\ Cardinality(S) \in Nat /\ Cardinality(C) \in Nat
    BY <2>1, Finite
  <2>3. interrupts \in Nat
    BY MaxInterruptsNat DEF Mid, Shapes
  <2>4. /\ Cardinality(C \cup {t}) = Cardinality(C) + 1
        /\ Cardinality(S \cup {t}) = Cardinality(S) + 1
    BY <2>1, <2>2, FS_AddElement
  <2>5. QED BY <2>2, <2>3, <2>4
<1>1. total \in Nat /\ idle \in Nat
  BY <1>0 DEF Mid
<1>2. UNCHANGED <<added, interrupts>>
  BY DEF LoopBody
<1>3. CASE Leave(t, idle, total, todo, allOk, p)
  <2> USE <1>3 DEF Leave
  <2>1. Shapes'
    BY <1>2 DEF Mid, Shapes, PC
  <2>2. /\ AmongTotal(pc') = C /\ Asleep(pc') = S
    BY DEF Mid, AmongTotal, Asleep
  <2>3. Counters'
    <3>1. nTotal' = Cardinality(C) + interrupts /\ nIdle' = Cardinality(S) + interrupts
      BY <1>0 DEF Mid
    <3>2. QED BY <3>1, <2>2, <1>2, Zenon DEF Counters
  <2>4. Rest(t) = {}
    <3>1. IsFiniteSet(Rest(t))
      BY Finite DEF Rest
    <3>2. QED BY <3>1, FS_EmptySet DEF Mid
  <2>5. Pending' = {}
    BY <2>4 DEF Mid, Shapes, Rest, Pending
  <2>6. Batches'
    <3>1. nTodo' = Cardinality(Pending')
      BY <2>5, FS_EmptySet DEF Mid
    <3>2. QED
      BY <3>1, <2>4 DEF Mid, Shapes, Batches
  <2>7. Failures'
    BY <2>4, <2>5, <1>2 DEF Mid, Shapes, Failures, VerdictIsConjunction
  <2>8. QED
    BY <2>1, <2>3, <2>6, <2>7 DEF QInv
<1>4. CASE Sleep(t, idle, total, todo, allOk, p)
  <2> USE <1>4 DEF Sleep
  <2>1. Shapes'
    BY <1>2 DEF Mid, Shapes, PC
  <2>2. /\ AmongTotal(pc') = C \cup {t} /\ Asleep(pc') = S \cup {t}
    BY DEF Mid, AmongTotal, Asleep
  <2>3. Counters'
    <3>1. /\ nTotal' = Cardinality(C \cup {t}) + interrupts
          /\ nIdle' = Cardinality(S \cup {t}) + interrupts
      BY <1>0 DEF Mid
    <3>2. QED BY <3>1, <2>2, <1>2, Zenon DEF Counters
  <2>4. Pending' = Rest(t)
    BY DEF Mid, Shapes, Rest, Pending
  <2>5. Batches'
    <3>1. nTodo' = Cardinality(Pending')
      BY <2>4, Zenon DEF Mid
    <3>2. QED
      BY <3>1 DEF Mid, Shapes, Batches
  <2>6. Failures'
    BY <2>4, <1>2 DEF Mid, Shapes, Failures, VerdictIsConjunction
  <2>7. QED
    BY <2>1, <2>3, <2>5, <2>6 DEF QInv
<1>5. CASE Take(t, idle, total, todo, allOk, p)
  <2>1. PICK b \in SUBSET queue :
          /\ Cardinality(b) = BatchCount(queue, total, idle)
          /\ queue' = queue \ b
          /\ vChecks' = [vChecks EXCEPT ![t] = b]
    BY <1>5 DEF Take
  <2>2. /\ fOk' = [fOk EXCEPT ![t] = allOk]
        /\ nIdle' = idle /\ nTotal' = total /\ nTodo' = todo /\ fAllOk' = allOk
        /\ pc' = [p EXCEPT ![t] = "work"]
        /\ verdict' = verdict
    BY <1>5 DEF Take
  <2>3. b # {}
    <3>1. queue \in SUBSET Checks
      BY DEF Mid, Shapes
    <3>2. Cardinality(b) # 0
      BY <3>1, <2>1, <1>1, BatchCountPositive
    <3>3. QED BY <3>2, FS_EmptySet
  <2>4. Shapes'
    BY <2>1, <2>2, <1>2 DEF Mid, Shapes, PC
  <2>5. /\ AmongTotal(pc') = C \cup {t} /\ Asleep(pc') = S
    BY <2>2 DEF Mid, AmongTotal, Asleep
  <2>6. Counters'
    <3>1. /\ nTotal' = Cardinality(C \cup {t}) + interrupts
          /\ nIdle' = Cardinality(S) + interrupts
      BY <1>0, <2>2 DEF Mid
    <3>2. QED BY <3>1, <2>5, <1>2, Zenon DEF Counters
  <2>7. Pending' = Rest(t)
    BY <2>1 DEF Mid, Shapes, Rest, Pending
  <2>8. Batches'
    <3>1. nTodo' = Cardinality(Pending')
      BY <2>2, <2>7, Zenon DEF Mid
    <3>2. \A u \in Threads : pc'[u] \in {"work", "done"} <=> vChecks'[u] # {}
      BY <2>1, <2>2, <2>3 DEF Mid, Shapes
    <3>3. \A u \in Threads : vChecks'[u] \cap queue' = {}
      BY <2>1 DEF Mid, Shapes
    <3>4. \A u, v \in Threads : u # v => vChecks'[u] \cap vChecks'[v] = {}
      BY <2>1 DEF Mid, Shapes
    <3>5. QED
      BY <3>1, <3>2, <3>3, <3>4 DEF Batches
  <2>9. Failures'
    <3>1. pc'[Master] # "out"
      BY <2>1, <2>2, <2>3 DEF Mid, Shapes, Rest
    <3>2. p[Master] # "out"
      BY <2>1, <2>3 DEF Mid, Shapes, Rest
    <3>3. /\ \A u \in Threads :
               pc'[u] \in {"work", "done"} /\ ~fOk'[u] => added' \cap Bad # {}
          /\ \A u \in Threads :
               pc'[u] = "done" /\ vChecks'[u] \cap Bad # {} => ~fOk'[u]
      BY <2>1, <2>2, <1>2 DEF Mid, Shapes
    <3>4. QED
      BY <3>1, <3>2, <3>3, <2>2, <2>7, <1>2 DEF Mid, Failures, VerdictIsConjunction
  <2>10. QED
    BY <2>4, <2>6, <2>8, <2>9 DEF QInv
<1>6. QED
  BY <1>3, <1>4, <1>5 DEF LoopBody

-----------------------------------------------------------------------------
(* The invariant is inductive                                              *)

LEMMA InitChecks == CheckQueueInit => QInv
<1> SUFFICES ASSUME CheckQueueInit PROVE QInv
  OBVIOUS
<1> USE DEF CheckQueueInit
<1>1. Shapes
  BY MaxInterruptsNat DEF Shapes, PC
<1>2. Pending = {} /\ AmongTotal(pc) = {} /\ Asleep(pc) = {}
  BY DEF Pending, AmongTotal, Asleep
<1>3. Counters
  BY <1>2, FS_EmptySet DEF Counters
<1>4. Batches
  BY <1>2, FS_EmptySet DEF Batches
<1>5. Failures
  BY <1>2 DEF Failures, VerdictIsConjunction, Threads
<1>6. QED
  BY <1>1, <1>3, <1>4, <1>5 DEF QInv

\* Steps that move threads between places without touching what is pending.
LEMMA MoveInv ==
    ASSUME QInv, pc' \in [Threads -> PC],
           AmongTotal(pc') = AmongTotal(pc), Asleep(pc') = Asleep(pc),
           UNCHANGED <<shared, vChecks, fOk, added, verdict>>,
           interrupts' = interrupts,
           \A t \in Threads : pc'[t] \in {"work", "done"} <=> pc[t] \in {"work", "done"},
           \A t \in Threads : pc'[t] = "done" <=> pc[t] = "done",
           pc'[Master] = "out" <=> pc[Master] = "out"
    PROVE  QInv'
<1>0. Shapes /\ Counters /\ Batches /\ Failures
  BY DEF QInv
<1>1. Shapes'
  BY <1>0 DEF Shapes, shared
<1>2. Counters'
  BY <1>0, Zenon DEF Counters, shared
<1>3. Pending' = Pending
  BY DEF Pending, shared
<1>4. Batches'
  BY <1>0, <1>3 DEF Batches, shared
<1>5. Failures'
  BY <1>0, <1>3 DEF Failures, shared, VerdictIsConjunction, Threads
<1>6. QED
  BY <1>1, <1>2, <1>4, <1>5 DEF QInv

LEMMA ExecuteInv ==
    ASSUME QInv, NEW t \in Threads, Execute(t)
    PROVE  QInv'
<1> USE DEF Execute, shared
<1>0. Shapes /\ Counters /\ Batches /\ Failures
  BY DEF QInv
<1>1. Shapes'
  BY <1>0 DEF Shapes, PC
<1>2. AmongTotal(pc') = AmongTotal(pc) /\ Asleep(pc') = Asleep(pc)
  BY <1>0 DEF Shapes, AmongTotal, Asleep
<1>3. Counters'
  BY <1>0, <1>2, Zenon DEF Counters
<1>4. Pending' = Pending
  BY DEF Pending
<1>5. Batches'
  BY <1>0, <1>4 DEF Batches, Shapes
<1>6. pc'[Master] = "out" <=> pc[Master] = "out"
  BY <1>0 DEF Shapes, Threads
<1>7. vChecks[t] \subseteq added
  BY <1>0 DEF Shapes, Failures, Pending
<1>8. Failures'
  BY <1>0, <1>4, <1>6, <1>7 DEF Failures, Shapes, VerdictIsConjunction
<1>9. QED
  BY <1>1, <1>3, <1>5, <1>8 DEF QInv

LEMMA AddInv ==
    ASSUME QInv, Add
    PROVE  QInv'
<1>0. Shapes /\ Counters /\ Batches /\ Failures
  BY DEF QInv
<1>1. PICK new \in SUBSET (Checks \ added) :
        /\ queue' = queue \cup new
        /\ nTodo' = nTodo + Cardinality(new)
        /\ added' = added \cup new
        /\ \E ws \in Notified(Cardinality(new)) :
              pc' = [t \in Threads |-> IF t \in ws THEN "woken" ELSE pc[t]]
  BY DEF Add
<1>2. PICK ws \in Notified(Cardinality(new)) :
        pc' = [t \in Threads |-> IF t \in ws THEN "woken" ELSE pc[t]]
  BY <1>1
<1>3. ws \subseteq {w \in Workers : pc[w] = "wait"}
  BY <1>2 DEF Notified
<1>4. UNCHANGED <<nIdle, nTotal, fAllOk, vChecks, fOk, verdict, interrupts>>
      /\ pc[Master] = "adding"
  BY DEF Add
<1>5. Shapes'
  BY <1>0, <1>1, <1>2, <1>4 DEF Shapes, PC
<1>6. AmongTotal(pc') = AmongTotal(pc) /\ Asleep(pc') = Asleep(pc)
  BY <1>0, <1>2, <1>3 DEF AmongTotal, Asleep, Shapes
<1>7. Counters'
  BY <1>0, <1>4, <1>6, Zenon DEF Counters
<1>8. /\ \A t \in Threads : pc'[t] \in {"work", "done"} <=> pc[t] \in {"work", "done"}
      /\ \A t \in Threads : pc'[t] = "done" <=> pc[t] = "done"
      /\ pc'[Master] = "adding"
  BY <1>2, <1>3, <1>4, MasterIsNoWorker DEF Threads
<1>9. Pending' = Pending \cup new /\ Pending \cap new = {}
  BY <1>0, <1>1, <1>4 DEF Pending, Failures
<1>10. nTodo' = Cardinality(Pending')
  <2>1. IsFiniteSet(Pending) /\ IsFiniteSet(new) /\ Cardinality(Pending) \in Nat
        /\ Cardinality(new) \in Nat
    BY Finite DEF Pending
  <2>2. Cardinality(Pending \cup new) =
           Cardinality(Pending) + Cardinality(new) - Cardinality(Pending \cap new)
    BY <2>1, FS_Union
  <2>3. Cardinality(Pending \cap new) = 0
    BY <1>9, FS_EmptySet, Zenon
  <2>4. Cardinality(Pending \cup new) = Cardinality(Pending) + Cardinality(new)
    BY <2>1, <2>2, <2>3
  <2>5. QED
    BY <2>4, <1>0, <1>1, <1>9, Zenon DEF Batches
<1>11. Batches'
  BY <1>0, <1>1, <1>4, <1>8, <1>9, <1>10 DEF Batches, Failures, Shapes, Pending
<1>12. Failures'
  BY <1>0, <1>1, <1>4, <1>8, <1>9 DEF Failures, Shapes, VerdictIsConjunction
<1>13. QED
  BY <1>5, <1>7, <1>11, <1>12 DEF QInv

LEMMA NewControlInv ==
    ASSUME QInv, NewControl
    PROVE  QInv'
<1> USE DEF NewControl, shared
<1>0. Shapes /\ Counters /\ Batches /\ Failures
  BY DEF QInv
<1>1. Shapes'
  BY <1>0 DEF Shapes, PC
<1>2. AmongTotal(pc') = AmongTotal(pc) /\ Asleep(pc') = Asleep(pc)
  BY <1>0 DEF Shapes, AmongTotal, Asleep
<1>3. Counters'
  BY <1>0, <1>2, Zenon DEF Counters
<1>4. Pending = {} /\ Pending' = Pending
  BY <1>0 DEF Pending, Failures
<1>5. Batches'
  BY <1>0, <1>4 DEF Batches, Shapes
<1>6. pc'[Master] = "adding" /\ fAllOk /\ \A t \in Threads : pc'[t] \notin {"work", "done"}
  BY <1>0, <1>4 DEF Failures, Shapes, Threads, Batches, Pending
<1>7. Failures'
  BY <1>4, <1>6 DEF Failures, VerdictIsConjunction
<1>8. QED
  BY <1>1, <1>3, <1>5, <1>7 DEF QInv

LEMMA InterruptMasterInv ==
    ASSUME QInv, InterruptMaster
    PROVE  QInv'
<1> USE DEF InterruptMaster, shared
<1>0. Shapes /\ Counters /\ Batches /\ Failures
  BY DEF QInv
<1>1. Shapes'
  <2>1. interrupts' \in 0..MaxInterrupts
    BY <1>0, MaxInterruptsNat DEF Shapes
  <2>2. pc' \in [Threads -> PC]
    BY <1>0 DEF Shapes, PC
  <2>3. QED
    BY <1>0, <2>1, <2>2 DEF Shapes
<1>2. /\ AmongTotal(pc') = AmongTotal(pc) \ {Master} /\ Asleep(pc') = Asleep(pc) \ {Master}
      /\ Master \in AmongTotal(pc) /\ Master \in Asleep(pc)
  BY <1>0 DEF Shapes, AmongTotal, Asleep, Threads
<1>3. Counters'
  <2>1. /\ Cardinality(AmongTotal(pc)) = Cardinality(AmongTotal(pc) \ {Master}) + 1
        /\ Cardinality(Asleep(pc)) = Cardinality(Asleep(pc) \ {Master}) + 1
    BY <1>2, SplitThread DEF AmongTotal, Asleep
  <2>2. /\ Cardinality(AmongTotal(pc) \ {Master}) \in Nat
        /\ Cardinality(Asleep(pc) \ {Master}) \in Nat
        /\ interrupts \in Nat
    BY <1>0, Finite, MaxInterruptsNat DEF AmongTotal, Asleep, Shapes
  <2>3. /\ nTotal' = Cardinality(AmongTotal(pc) \ {Master}) + interrupts'
        /\ nIdle' = Cardinality(Asleep(pc) \ {Master}) + interrupts'
    BY <1>0, <2>1, <2>2 DEF Counters
  <2>4. QED
    BY <1>2, <2>3, Zenon DEF Counters
<1>4. Pending' = Pending
  BY DEF Pending
<1>5. Batches'
  BY <1>0, <1>4 DEF Batches, Shapes
<1>6. Failures'
  BY <1>0, <1>4 DEF Failures, Shapes, VerdictIsConjunction, Threads
<1>7. QED
  BY <1>1, <1>3, <1>5, <1>6 DEF QInv

LEMMA NextChecks == QInv /\ [CheckQueueNext]_queueVars => QInv'
<1> SUFFICES ASSUME QInv, [CheckQueueNext]_queueVars PROVE QInv'
  OBVIOUS
<1>0. Shapes
  BY DEF QInv
<1>1. ASSUME NEW t \in Threads, ThreadStep(t) \/ SpuriousWake(t) PROVE QInv'
  <2>1. CASE Enter(t)
    BY <2>1, EnterMid, LoopBodyInv DEF Enter
  <2>2. CASE Execute(t)
    BY <2>2, ExecuteInv
  <2>3. CASE Finish(t)
    BY <2>3, FinishMid, LoopBodyInv DEF Finish
  <2>4. CASE Wake(t) \/ SpuriousWake(t)
    BY <2>4, WakeMid, LoopBodyInv DEF Wake, SpuriousWake, Reacquire
  <2>5. QED
    BY <1>1, <2>1, <2>2, <2>3, <2>4 DEF ThreadStep
<1>2. ASSUME NEW w \in Workers, Start(w) PROVE QInv'
  <2>1. w \in Threads /\ w # Master
    BY MasterIsNoWorker DEF Threads
  <2>2. QED
    BY <1>0, <1>2, <2>1, MoveInv DEF Start, Shapes, PC, AmongTotal, Asleep, Threads
<1>3. ASSUME NEW w \in Workers, InterruptWorker(w) PROVE QInv'
  <2>1. w \in Threads /\ w # Master
    BY MasterIsNoWorker DEF Threads
  <2>2. QED
    BY <1>0, <1>3, <2>1, MoveInv DEF InterruptWorker, Shapes, PC, AmongTotal, Asleep, Threads
<1>4. CASE Wait
  BY <1>0, <1>4, MoveInv DEF Wait, Shapes, PC, AmongTotal, Asleep, Threads
<1>5. CASE UNCHANGED queueVars
  BY <1>0, <1>5, MoveInv DEF queueVars, shared, Shapes, AmongTotal, Asleep
<1>6. QED
  BY <1>1, <1>2, <1>3, <1>4, <1>5, NewControlInv, AddInv, InterruptMasterInv DEF CheckQueueNext

-----------------------------------------------------------------------------
(* Results                                                                 *)

\* The counters of CCheckQueue never leave their types: nTodo, which is
\* unsigned, is never decremented below zero, nor are nIdle and nTotal.
THEOREM ChecksTypeCorrect == CheckQueueSpec => []CheckQueueTypeOK
<1>1. QInv => CheckQueueTypeOK
  <2> SUFFICES ASSUME QInv PROVE CheckQueueTypeOK
    OBVIOUS
  <2>1. /\ Cardinality(Pending) \in Nat /\ Cardinality(AmongTotal(pc)) \in Nat
        /\ Cardinality(Asleep(pc)) \in Nat
    BY Finite DEF Pending, AmongTotal, Asleep
  <2>2. interrupts \in Nat
    BY MaxInterruptsNat DEF QInv, Shapes
  <2>3. QED
    BY <2>1, <2>2 DEF QInv, Shapes, Counters, Batches, CheckQueueTypeOK
<1>2. QED
  BY InitChecks, NextChecks, <1>1, PTL DEF CheckQueueSpec

\* A CCheckQueueControl always finds the queue idle: assert(isIdle) holds.
THEOREM ControlAssertion == CheckQueueSpec => []ControlFindsIdleQueue
<1>1. QInv => ControlFindsIdleQueue
  <2> SUFFICES ASSUME QInv, pc[Master] = "out" PROVE IsIdle
    BY DEF ControlFindsIdleQueue
  <2>1. Pending = {} /\ fAllOk
    BY DEF QInv, Failures
  <2>2. \A t \in Threads : pc[t] \notin {"work", "done"}
    BY <2>1 DEF QInv, Shapes, Batches, Pending
  <2>3. AmongTotal(pc) = Asleep(pc)
    BY <2>2 DEF AmongTotal, Asleep
  <2>4. nTotal = nIdle
    BY <2>3, Zenon DEF QInv, Counters
  <2>5. nTodo = 0
    BY <2>1, FS_EmptySet, Zenon DEF QInv, Batches
  <2>6. QED
    BY <2>1, <2>4, <2>5 DEF IsIdle
<1>2. QED
  BY InitChecks, NextChecks, <1>1, PTL DEF CheckQueueSpec

\* CCheckQueueControl::Wait returns the conjunction of the checks added.
THEOREM VerdictCorrect == CheckQueueSpec => []VerdictIsConjunction
<1>1. QInv => VerdictIsConjunction
  BY DEF QInv, Failures
<1>2. QED
  BY InitChecks, NextChecks, <1>1, PTL DEF CheckQueueSpec

\* nTodo is the number of checks queued or being executed.
THEOREM TodoCorrect == CheckQueueSpec => []TodoCountsPending
<1>1. QInv => TodoCountsPending
  BY DEF QInv, Batches, TodoCountsPending
<1>2. QED
  BY InitChecks, NextChecks, <1>1, PTL DEF CheckQueueSpec
=============================================================================
