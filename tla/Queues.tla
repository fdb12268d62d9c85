------------------------------ MODULE Queues ------------------------------
(***************************************************************************)
(* The two queues of the scheduler with their heaps, and delayLoop between *)
(* them (internal/scheduler/scheduler.go): jobs wait in DelayQueue until   *)
(* their NextRunAt, delayLoop moves them to PriorityQueue, and there the   *)
(* dispatchLoop of JobQueue takes them.  This module adds to JobQueue what *)
(* is in the heaps, the clock, and the second queue; delayLoop is one of   *)
(* JobQueue's producers.                                                   *)
(*                                                                         *)
(* Whether the store accepts an update, and what becomes of a dispatched   *)
(* job, is left open here: that is the subject of JobScheduler.            *)
(***************************************************************************)
EXTENDS JobQueue, Heap

CONSTANTS
    Priority,       \* the priority every job is submitted with
    DelayLoop,      \* delayLoop, as a producer of PriorityQueue
    MaxTime,        \* the last instant of the clock
    MaxAgain        \* job -> bound on its retries and recoveries

ASSUME DelayLoopProduces == DelayLoop \in Producers
ASSUME PriorityType == Priority \in [Jobs -> Int]
ASSUME MaxTimeNat == MaxTime \in Nat

Submitters == Producers \ {DelayLoop}

VARIABLES
    heap,           \* PriorityQueue.heap.items
    hand,           \* what dispatchLoop dequeued last
    delayed,        \* DelayQueue.heap.items
    dNotify,        \* whether DelayQueue.notify holds its token
    dEnq,           \* the processes between push and send in DelayQueue.Enqueue
    dPc, dJob,      \* delayLoop, and the entry it looks at
    dUntil,         \* when its timer fires
    now,            \* the clock
    runAt,          \* NextRunAt of every job, in the store
    known,          \* the jobs submitted so far
    out,            \* job -> executions under way
    again,          \* job -> retries and recoveries so far
    rekeyed         \* whether NextRunAt has changed under an entry of DelayQueue

delayVars == <<delayed, dNotify, dEnq>>
loopVars == <<dPc, dJob, dUntil>>
jobVars == <<runAt, known, out, again, rekeyed>>
queuesVars == <<vars, heap, hand, delayVars, loopVars, now, jobVars>>

\* Mutant: lower priority first.
PriorityComparatorMut == Priority

\* The comparators: higher priority first, and earlier NextRunAt first.
PriorityComparator == [j \in Jobs |-> -Priority[j]]
DelayComparator == runAt

\* JobQueue's number of entries is the length of the heap, and the heaps, the
\* loop and the clock keep their types.
QueuesTypeOK ==
    /\ TypeOK
    /\ items = Len(heap)
    /\ Contents(heap) \cup Contents(delayed) \cup {hand, dJob} \subseteq known \cup {0}
    /\ dEnq \subseteq Submitters /\ dNotify \in BOOLEAN
    /\ dPc \in {"peek", "empty", "head", "sleep", "process", "peeked", "due", "popped"}
    /\ now \in 0 .. MaxTime /\ runAt \in [Jobs -> 0 .. MaxTime]
    /\ out \in [Jobs -> Nat]

QueuesInit ==
    /\ Init
    /\ heap = <<>> /\ hand = 0
    /\ delayed = <<>> /\ dNotify = FALSE /\ dEnq = {}
    /\ dPc = "peek" /\ dJob = 0 /\ dUntil = 0
    /\ now = 0
    /\ runAt = [j \in Jobs |-> 0] /\ known = {} /\ out = [j \in Jobs |-> 0]
    /\ again = [j \in Jobs |-> 0] /\ rekeyed = FALSE
---------------------------------------------------------------------------
(***************************************************************************)
(* Who enqueues.                                                           *)
(***************************************************************************)

EnqueueReady(p, j) ==
    /\ Enqueue(p)
    /\ heap' = HeapPush(heap, PriorityComparator, j)
    /\ UNCHANGED hand

\* The push of DelayQueue.Enqueue, after NextRunAt was stored.
EnqueueDelayed(p, j, t) ==
    /\ p \notin dEnq /\ enq[p] = "idle"
    /\ runAt' = [runAt EXCEPT ![j] = t]
    /\ delayed' = HeapPush(delayed, runAt', j)
    /\ dEnq' = dEnq \cup {p}
    /\ UNCHANGED <<vars, heap, hand, dNotify, loopVars, now>>

\* Mutant: only the first entry of an empty queue is announced.
NotifyDelayedMut(p) ==
    /\ p \in dEnq
    /\ dNotify' = (dNotify \/ Len(delayed) = 1)
    /\ dEnq' = dEnq \ {p}
    /\ UNCHANGED <<vars, heap, hand, delayed, loopVars, now, jobVars>>

\* Mutant: no token is sent.
NotifyDelayedMut2(p) ==
    /\ p \in dEnq
    /\ dEnq' = dEnq \ {p}
    /\ UNCHANGED <<vars, heap, hand, delayed, dNotify, loopVars, now, jobVars>>

NotifyDelayed(p) ==
    /\ p \in dEnq
    /\ dNotify' = TRUE
    /\ dEnq' = dEnq \ {p}
    /\ UNCHANGED <<vars, heap, hand, delayed, loopVars, now, jobVars>>

SubmitJob(p, j) ==
    /\ j \notin known /\ known' = known \cup {j}
    /\ p \notin dEnq
    /\ EnqueueReady(p, j)
    /\ UNCHANGED <<delayVars, loopVars, now, runAt, out, again, rekeyed>>

\* The handler refuses a run_at in the past, but by the time of the push the
\* instant may have passed.
SubmitJobAt(p, j, t) ==
    /\ j \notin known /\ known' = known \cup {j}
    /\ t > 0
    /\ EnqueueDelayed(p, j, t)
    /\ UNCHANGED <<out, again, rekeyed>>

\* resultLoop: an execution failed.  NextRunAt is later than the failure, not than
\* the push.  An update that the store refuses leaves NextRunAt as it is, and the
\* job is enqueued all the same.  When the job was
\* executing twice, its first failure may have left an entry in DelayQueue whose
\* key changes here.
Retry(p, j, t) ==
    /\ out[j] > 0 /\ out' = [out EXCEPT ![j] = @ - 1]
    /\ again[j] < MaxAgain[j] /\ again' = [again EXCEPT ![j] = @ + 1]
    /\ t > 0 \/ t = runAt[j]
    /\ EnqueueDelayed(p, j, t)
    /\ rekeyed' = (rekeyed \/ (j \in Contents(delayed) /\ runAt[j] # t))
    /\ UNCHANGED known

\* recoveryLoop: the worker is presumed dead; its execution goes on all the same.
\* Bound: a retry may follow.
Recover(p, j) ==
    /\ out[j] > 0
    /\ again[j] + 1 < MaxAgain[j] /\ again' = [again EXCEPT ![j] = @ + 1]
    /\ p \notin dEnq
    /\ EnqueueReady(p, j)
    /\ UNCHANGED <<delayVars, loopVars, now, runAt, known, out, rekeyed>>
---------------------------------------------------------------------------
(***************************************************************************)
(* dispatchLoop, with the entries.                                         *)
(***************************************************************************)

TakeReady ==
    /\ Dequeue
    /\ IF items > 0
       THEN hand' = heap[1] /\ heap' = HeapPop(heap, PriorityComparator)
       ELSE UNCHANGED <<heap, hand>>
    /\ UNCHANGED <<delayVars, loopVars, now, jobVars>>

\* The job goes to a worker, or is dropped because it has ended meanwhile.  Bound: an
\* execution is followed only while the job may come back.
DispatchHand ==
    /\ Dispatched
    /\ \/ UNCHANGED out
       \/ again[hand] < MaxAgain[hand] /\ out' = [out EXCEPT ![hand] = @ + 1]
    /\ hand' = 0
    /\ UNCHANGED <<heap, delayVars, loopVars, now, runAt, known, again, rekeyed>>

\* No worker.
RequeueHand ==
    /\ Requeue
    /\ heap' = HeapPush(heap, PriorityComparator, hand)
    /\ hand' = 0
    /\ UNCHANGED <<delayVars, loopVars, now, jobVars>>

\* The steps of JobQueue that do not touch the heap.
Wake == Receive /\ UNCHANGED <<heap, hand, delayVars, loopVars, now, jobVars>>

FinishEnqueue(p) ==
    /\ CountUp(p) \/ Notify(p)
    /\ UNCHANGED <<heap, hand, delayVars, loopVars, now, jobVars>>
---------------------------------------------------------------------------
(***************************************************************************)
(* delayLoop and ProcessDelayedJobs.                                       *)
(***************************************************************************)

dOthers == <<vars, heap, hand, dEnq, now, jobVars>>

\* The loop goes on from one point to another, with this entry and this timer.
Go(from, to, j, until) ==
    /\ dPc = from /\ enq[DelayLoop] = "idle"
    /\ dPc' = to /\ dJob' = j /\ dUntil' = until

\* The top of the loop: Peek.
PeekDelayed ==
    /\ IF delayed = <<>> THEN Go("peek", "empty", 0, 0)
                         ELSE Go("peek", "head", delayed[1], 0)
    /\ UNCHANGED <<delayed, dNotify, dOthers>>

\* Store.Get of the entry: due, or the loop sleeps until then.
SetTimer ==
    /\ dPc = "head"
    /\ IF runAt[dJob] <= now THEN Go("head", "process", 0, 0)
                             ELSE Go("head", "sleep", 0, runAt[dJob])
    /\ UNCHANGED <<delayed, dNotify, dOthers>>

TimerFires ==
    /\ now >= dUntil
    /\ Go("sleep", "process", 0, 0)
    /\ UNCHANGED <<delayed, dNotify, dOthers>>

\* A token of DelayQueue.notify ends either wait.
ReceiveDelayed ==
    /\ dNotify /\ dNotify' = FALSE
    /\ Go("empty", "peek", 0, 0) \/ Go("sleep", "peek", 0, 0)
    /\ UNCHANGED <<delayed, dOthers>>

\* ProcessDelayedJobs: Peek again, and return when there is no entry ...
PeekDue ==
    /\ IF delayed = <<>> THEN Go("process", "peek", 0, 0)
                         ELSE Go("process", "peeked", delayed[1], 0)
    /\ UNCHANGED <<delayed, dNotify, dOthers>>

\* ... or it is not due.
CheckDue ==
    /\ dPc = "peeked"
    /\ IF runAt[dJob] > now THEN Go("peeked", "peek", 0, 0)
                            ELSE Go("peeked", "due", dJob, 0)
    /\ UNCHANGED <<delayed, dNotify, dOthers>>

\* Removes the root, which need not be the entry that was looked at.
DequeueDelayed ==
    /\ Go("due", "popped", dJob, 0)
    /\ delayed' = HeapPop(delayed, DelayComparator)
    /\ UNCHANGED <<dNotify, dOthers>>

\* The store accepts the job as pending, and it is enqueued; or it does not.
Promote ==
    /\ Go("popped", "process", 0, 0)
    /\ EnqueueReady(DelayLoop, dJob)
    /\ UNCHANGED <<delayVars, now, jobVars>>

PromoteRefused ==
    /\ Go("popped", "process", 0, 0)
    /\ UNCHANGED <<delayed, dNotify, dOthers>>

Tick == /\ now < MaxTime /\ now' = now + 1
        /\ UNCHANGED <<vars, heap, hand, delayVars, loopVars, jobVars>>
---------------------------------------------------------------------------
DispatchStep == Wake \/ TakeReady \/ DispatchHand \/ RequeueHand

DelayStep == \/ PeekDelayed \/ SetTimer \/ TimerFires \/ ReceiveDelayed \/ PeekDue
             \/ CheckDue \/ DequeueDelayed \/ Promote \/ PromoteRefused

QueuesNext ==
    \/ \E p \in Submitters, j \in Jobs :
          \/ SubmitJob(p, j) \/ Recover(p, j)
          \/ \E t \in 0 .. MaxTime : SubmitJobAt(p, j, t) \/ Retry(p, j, t)
    \/ \E p \in Submitters : NotifyDelayed(p)
    \/ \E p \in Procs : FinishEnqueue(p)
    \/ DispatchStep \/ DelayStep \/ Tick

\* The loops run, a process inside an Enqueue leaves it, and time passes.
QueuesSpec ==
    /\ QueuesInit /\ [][QueuesNext]_queuesVars
    /\ \A p \in Procs : WF_queuesVars(FinishEnqueue(p))
    /\ \A p \in Submitters : WF_queuesVars(NotifyDelayed(p))
    /\ WF_queuesVars(DispatchStep) /\ WF_queuesVars(DelayStep) /\ WF_queuesVars(Tick)
---------------------------------------------------------------------------
(***************************************************************************)
(* Properties.                                                             *)
(***************************************************************************)

\* dispatchLoop gets a job of the highest priority in the queue, and Dequeue
\* removes exactly that entry: no other is lost or doubled in the heap.
HighestFirst ==
    [][pc = "drain" /\ pc' = "have" =>
         \A j \in Jobs :
            /\ j \in Contents(heap) => Priority[hand'] >= Priority[j]
            /\ Count(heap', j) = Count(heap, j) - (IF j = hand' THEN 1 ELSE 0)]_queuesVars

\* delayLoop does not sleep past a deadline: no entry is due before its timer
\* fires unless a token that will wake it is in the channel or on its way.  (A
\* second failure of a job that executes twice moves NextRunAt under an entry of
\* the heap, whose root is then no longer the earliest.)
NoOversleep ==
    dPc = "sleep" /\ ~rekeyed /\ ~dNotify /\ dEnq = {} =>
        \A j \in Contents(delayed) : runAt[j] >= dUntil

\* Every entry of DelayQueue gets out, also when keys have changed in the heap.
DelayedGetsOut == (delayed # <<>>) ~> (dPc = "popped")

===========================================================================
