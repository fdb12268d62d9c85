--------------------------- MODULE QueuesProofs ---------------------------
(***************************************************************************)
(* Proofs about JobQueue, the wake-up protocol, and about Queues, which    *)
(* puts the heaps, the clock and delayLoop around it, for every number of  *)
(* producers, jobs, entries and priorities and every length of time.       *)
(***************************************************************************)
EXTENDS Queues, HeapProofs

\* Leaves are for Zenon unless they name another prover: SMT for arithmetic,
\* sequences and function updates, PTL for temporal steps.
USE Zenon

IInv == TypeOK /\ NoLostWakeup

\* A new queue is empty.
LEMMA InitIInv == Init => IInv
<1> SUFFICES ASSUME Init PROVE IInv
  OBVIOUS
<1>1. TypeOK
  <2>1. enq \in [Procs -> {"idle", "pushed", "counted"}]
    BY DEF Init
  <2>2. items \in Nat /\ depth \in Int
    BY SMT DEF Init
  <2>3. QED
    BY <2>1, <2>2 DEF Init, TypeOK
<1>2. NoLostWakeup
  BY SMT DEF Init, NoLostWakeup
<1>3. QED
  BY <1>1, <1>2 DEF IInv

\* Every step keeps the types.
LEMMA NextTypeOK == TypeOK /\ [Next]_vars => TypeOK'
<1> SUFFICES ASSUME TypeOK, [Next]_vars PROVE TypeOK'
  OBVIOUS
<1> USE DEF TypeOK, Procs
<1>1. ASSUME NEW p \in Producers, Enqueue(p) PROVE TypeOK'
  BY SMT, <1>1 DEF Enqueue, Push
<1>2. ASSUME NEW p \in Procs, CountUp(p) PROVE TypeOK'
  BY SMT, <1>2 DEF CountUp
<1>3. ASSUME NEW p \in Procs, Notify(p) PROVE TypeOK'
  BY <1>3 DEF Notify
<1>4. CASE Receive
  BY <1>4 DEF Receive
<1>5. CASE Dequeue
  BY SMT, <1>5 DEF Dequeue
<1>6. CASE Dispatched
  BY <1>6 DEF Dispatched
<1>7. CASE Requeue
  BY SMT, <1>7 DEF Requeue, Push
<1>8. CASE UNCHANGED vars
  BY <1>8 DEF vars
<1>9. QED
  BY <1>1, <1>2, <1>3, <1>4, <1>5, <1>6, <1>7, <1>8 DEF Next, LoopStep

\* Every step keeps the wake-up pending: a push by the pusher itself, which is
\* inside Enqueue until its send; the loop by going to sleep on an empty queue.
LEMMA NextNoLostWakeup == TypeOK /\ NoLostWakeup /\ [Next]_vars => NoLostWakeup'
<1> SUFFICES ASSUME TypeOK, NoLostWakeup, [Next]_vars PROVE NoLostWakeup'
  OBVIOUS
<1>0. enq \in [Procs -> {"idle", "pushed", "counted"}] /\ items \in Nat
  BY DEF TypeOK
<1>1. ASSUME NEW p \in Producers, Enqueue(p) PROVE NoLostWakeup'
  <2>1. p \in Procs /\ enq'[p] = "pushed"
    BY <1>0, <1>1 DEF Enqueue, Push, Procs
  <2>2. QED
    BY <2>1 DEF NoLostWakeup
<1>2. ASSUME NEW p \in Procs, CountUp(p) PROVE NoLostWakeup'
  <2>1. enq'[p] = "counted"
    BY <1>0, <1>2 DEF CountUp
  <2>2. QED
    BY <2>1 DEF NoLostWakeup
<1>3. ASSUME NEW p \in Procs, Notify(p) PROVE NoLostWakeup'
  BY <1>3 DEF Notify, NoLostWakeup
<1>4. CASE Receive \/ Dispatched \/ Requeue
  BY <1>4 DEF Receive, Dispatched, Requeue, NoLostWakeup
<1>5. CASE Dequeue
  BY <1>0, <1>5 DEF Dequeue, NoLostWakeup
<1>6. CASE UNCHANGED vars
  BY <1>6 DEF vars, NoLostWakeup
<1>7. QED
  BY <1>1, <1>2, <1>3, <1>4, <1>5, <1>6 DEF Next, LoopStep

\* dispatchLoop never sleeps on a non-empty queue without a wake-up pending.
THEOREM WakeupNeverLost == Spec => []NoLostWakeup
<1>1. IInv /\ [Next]_vars => IInv'
  BY NextTypeOK, NextNoLostWakeup DEF IInv
<1>2. IInv => NoLostWakeup
  BY DEF IInv
<1>3. QED
  BY <1>1, <1>2, InitIInv, PTL DEF Spec
---------------------------------------------------------------------------
\* The processes between their push and their increment.
Uncounted == {p \in Procs : enq[p] = "pushed"}

\* The processes are finitely many, and so are those inside Enqueue.
LEMMA UncountedFinite == IsFiniteSet(Uncounted) /\ Cardinality(Uncounted) \in Nat
<1>1. IsFiniteSet(Procs)
  BY ProducersFinite, FS_AddElement DEF Procs
<1>2. QED
  BY <1>1, FS_Subset, FS_CardinalityType DEF Uncounted

\* A push makes one more uncounted entry.
LEMMA PushUncounted ==
    ASSUME TypeOK, NEW p \in Procs, Push(p)
    PROVE  Cardinality(Uncounted') = Cardinality(Uncounted) + 1
<1>1. Uncounted' = Uncounted \cup {p} /\ p \notin Uncounted
  BY DEF Push, TypeOK, Uncounted
<1>2. QED
  BY <1>1, UncountedFinite, FS_AddElement

\* Every step moves the gauge with the length, or the entry with its pusher.
LEMMA NextDepthExact == TypeOK /\ DepthExact /\ [Next]_vars => DepthExact'
<1> SUFFICES ASSUME TypeOK, DepthExact, [Next]_vars PROVE DepthExact'
  OBVIOUS
<1>0. depth \in Int /\ items \in Nat /\ depth = items - Cardinality(Uncounted)
  BY DEF TypeOK, DepthExact, Uncounted
<1> SUFFICES depth' = items' - Cardinality(Uncounted')
  BY DEF DepthExact, Uncounted
<1>1. ASSUME NEW p \in Procs, Push(p) PROVE depth' = items' - Cardinality(Uncounted')
  <2>1. Cardinality(Uncounted') = Cardinality(Uncounted) + 1
    BY <1>1, PushUncounted
  <2>2. QED
    BY SMTT(60), <1>0, <1>1, <2>1, UncountedFinite DEF Push
<1>2. ASSUME NEW p \in Procs, CountUp(p) PROVE depth' = items' - Cardinality(Uncounted')
  <2>1. Uncounted' = Uncounted \ {p} /\ p \in Uncounted
    BY <1>2 DEF CountUp, TypeOK, Uncounted
  <2>2. Cardinality(Uncounted') = Cardinality(Uncounted) - 1
    BY <2>1, UncountedFinite, FS_RemoveElement
  <2>3. QED
    BY SMT, <1>0, <1>2, <2>2, UncountedFinite DEF CountUp
<1>3. ASSUME NEW p \in Procs, Notify(p) PROVE depth' = items' - Cardinality(Uncounted')
  <2>1. Uncounted' = Uncounted
    BY <1>3 DEF Notify, TypeOK, Uncounted
  <2>2. QED
    BY <1>0, <1>3, <2>1 DEF Notify
<1>4. CASE Dequeue
  <2>1. Uncounted' = Uncounted
    BY <1>4 DEF Dequeue, Uncounted
  <2>2. QED
    BY SMTT(60), <1>0, <1>4, <2>1, UncountedFinite DEF Dequeue
<1>5. CASE Receive \/ Dispatched \/ UNCHANGED vars
  <2>1. Uncounted' = Uncounted
    BY <1>5 DEF Receive, Dispatched, vars, Uncounted
  <2>2. QED
    BY <1>0, <1>5, <2>1 DEF Receive, Dispatched, vars
<1>6. QED
  <2>1. Loop \in Procs /\ Producers \subseteq Procs
    BY DEF Procs
  <2>2. QED
    BY <1>1, <1>2, <1>3, <1>4, <1>5, <2>1 DEF Next, LoopStep, Enqueue, Requeue

\* The gauge is off by exactly the entries whose increment is under way, however
\* the producers and the loop interleave inside Enqueue.
THEOREM GaugeExact == Spec => []DepthExact
<1>1. Init => TypeOK /\ DepthExact
  <2>1. ASSUME Init PROVE Uncounted = {}
    BY <2>1 DEF Init, Uncounted
  <2>2. ASSUME Init PROVE DepthExact
    BY SMT, <2>1, <2>2, FS_EmptySet DEF Init, DepthExact, Uncounted
  <2>3. QED
    BY <2>2, InitIInv DEF IInv
<1>2. TypeOK /\ DepthExact /\ [Next]_vars => (TypeOK /\ DepthExact)'
  BY NextTypeOK, NextDepthExact
<1>3. QED
  BY <1>1, <1>2, PTL DEF Spec

---------------------------------------------------------------------------
(***************************************************************************)
(* Queues.  What is in the heaps is known, PriorityQueue is ordered (its   *)
(* keys never change), the loops have an entry in hand where they use one, *)
(* and an entry delayLoop has looked at and not yet removed keeps          *)
(* DelayQueue from being empty: delayLoop alone removes entries.           *)
(***************************************************************************)
ReadyInv ==
    /\ heap \in Seq(Jobs) /\ items = Len(heap)
    /\ Contents(heap) \subseteq known
    /\ Ordered(heap, PriorityComparator)
    /\ hand \in known \cup {0}
    /\ pc = "have" => hand \in known

DelayInv ==
    /\ delayed \in Seq(Jobs) /\ Contents(delayed) \subseteq known
    /\ dJob \in known \cup {0}
    /\ dPc \in {"head", "peeked", "due", "popped"} => dJob \in known
    /\ dPc \in {"peeked", "due"} => delayed # <<>>

ShapeInv ==
    /\ known \subseteq Jobs
    /\ \A j \in Jobs : out[j] > 0 => j \in known
    /\ ReadyInv /\ DelayInv

FieldsInv ==
    /\ dEnq \subseteq Submitters /\ dNotify \in BOOLEAN
    /\ dPc \in {"peek", "empty", "head", "sleep", "process", "peeked", "due", "popped"}
    /\ now \in 0 .. MaxTime /\ runAt \in [Jobs -> 0 .. MaxTime]
    /\ dUntil \in 0 .. MaxTime
    /\ out \in [Jobs -> Nat] /\ rekeyed \in BOOLEAN

\* DelayQueue is ordered until a key has changed under an entry.
OrderInv == ~rekeyed => Ordered(delayed, runAt)

\* delayLoop is about to set its timer to, or sleeps until, the earliest entry,
\* or a token is on its way.
SleepInv ==
    /\ dPc = "head" /\ ~rekeyed /\ ~dNotify /\ dEnq = {} =>
          \A j \in Contents(delayed) : runAt[dJob] <= runAt[j]
    /\ NoOversleep

\* The comparator of PriorityQueue reads integers.
LEMMA PriorityKeys == PriorityComparator \in [Jobs -> Int]
  BY SMT, PriorityType DEF PriorityComparator

\* Every step of the queues with their heaps is a step of the wake-up protocol, or
\* leaves its variables alone.
LEMMA QueuesStepIsQueueStep == [QueuesNext]_queuesVars => [Next]_vars
<1> SUFFICES ASSUME [QueuesNext]_queuesVars PROVE [Next]_vars
  OBVIOUS
<1>1. ASSUME NEW p \in Producers, NEW j, EnqueueReady(p, j) PROVE Next
  BY <1>1 DEF EnqueueReady, Next
<1>2. ASSUME NEW p \in Submitters, NEW j \in Jobs, SubmitJob(p, j) \/ Recover(p, j)
      PROVE  Next
  BY <1>1, <1>2 DEF SubmitJob, Recover, Submitters
<1>3. ASSUME NEW p \in Submitters, NEW j \in Jobs, NEW t \in 0 .. MaxTime,
             SubmitJobAt(p, j, t) \/ Retry(p, j, t)
      PROVE  UNCHANGED vars
  BY <1>3 DEF SubmitJobAt, Retry, EnqueueDelayed
<1>4. ASSUME NEW p \in Submitters, NotifyDelayed(p) PROVE UNCHANGED vars
  BY <1>4 DEF NotifyDelayed
<1>5. ASSUME NEW p \in Procs, FinishEnqueue(p) PROVE Next
  BY <1>5 DEF FinishEnqueue, Next
<1>6. ASSUME DispatchStep PROVE Next
  BY <1>6 DEF DispatchStep, Wake, TakeReady, DispatchHand, RequeueHand, Next, LoopStep
<1>7. ASSUME Promote PROVE Next
  BY <1>1, <1>7, DelayLoopProduces DEF Promote
<1>8. ASSUME DelayStep, ~Promote PROVE UNCHANGED vars
  BY <1>8 DEF DelayStep, PeekDelayed, SetTimer, TimerFires, ReceiveDelayed, PeekDue,
     CheckDue, DequeueDelayed, PromoteRefused, dOthers
<1>9. CASE Tick \/ UNCHANGED queuesVars
  BY <1>9 DEF Tick, queuesVars
<1>10. QED
  BY <1>2, <1>3, <1>4, <1>5, <1>6, <1>7, <1>8, <1>9 DEF QueuesNext

\* QueuesNext takes its steps on PriorityQueue from JobQueue, so that what is proved
\* of JobQueue carries over.
LEMMA QueuesImplementJobQueue == QueuesSpec => Spec
<1>1. QueuesInit => Init
  BY DEF QueuesInit
<1>2. QED
  BY <1>1, QueuesStepIsQueueStep, PTL DEF QueuesSpec, Spec

\* So what is proved of the wake-up protocol holds in the scheduler: dispatchLoop is
\* never left blocked on a queue that is not empty, and the gauge is exact.
THEOREM QueuesWakeup == QueuesSpec => [](NoLostWakeup /\ DepthExact)
<1>1. QueuesSpec => Spec
  BY QueuesImplementJobQueue
<1>2. QED
  BY <1>1, WakeupNeverLost, GaugeExact, PTL
---------------------------------------------------------------------------
\* The loop, the clock and the jobs keep the types of their fields.
LEMMA NextFields ==
    ShapeInv /\ FieldsInv /\ [QueuesNext]_queuesVars => FieldsInv'
<1> SUFFICES ASSUME ShapeInv, FieldsInv, [QueuesNext]_queuesVars PROVE FieldsInv'
  OBVIOUS
<1> DEFINE A == <<dEnq, dNotify>>
           B == <<dPc, dUntil>>
           C == <<now, runAt, out, rekeyed>>
<1>1. ASSUME NEW p \in Submitters, NEW j \in Jobs, SubmitJob(p, j) \/ Recover(p, j)
      PROVE  UNCHANGED <<A, B, C>>
  BY <1>1 DEF SubmitJob, Recover, delayVars, loopVars
<1>2. ASSUME NEW p \in Submitters, NEW j \in Jobs, NEW t \in 0 .. MaxTime,
             EnqueueDelayed(p, j, t), out' \in [Jobs -> Nat], rekeyed' \in BOOLEAN
      PROVE  FieldsInv'
  <2>1. UNCHANGED <<dNotify, B, now>> /\ dEnq' = dEnq \cup {p}
    BY <1>2 DEF EnqueueDelayed, loopVars
  <2>2. runAt' \in [Jobs -> 0 .. MaxTime]
    BY <1>2 DEF EnqueueDelayed, FieldsInv
  <2>3. QED
    BY <1>2, <2>1, <2>2 DEF FieldsInv
<1>3. ASSUME NEW p \in Submitters, NEW j \in Jobs, NEW t \in 0 .. MaxTime,
             SubmitJobAt(p, j, t)
      PROVE  FieldsInv'
  <2>1. EnqueueDelayed(p, j, t) /\ out' = out /\ rekeyed' = rekeyed
    BY <1>3 DEF SubmitJobAt
  <2>2. QED
    BY <1>2, <2>1 DEF FieldsInv
<1>4. ASSUME NEW p \in Submitters, NEW j \in Jobs, NEW t \in 0 .. MaxTime, Retry(p, j, t)
      PROVE  FieldsInv'
  <2>1. EnqueueDelayed(p, j, t)
    BY <1>4 DEF Retry
  <2>2. out' \in [Jobs -> Nat]
    BY SMT, <1>4 DEF Retry, FieldsInv
  <2>3. rekeyed' \in BOOLEAN
    BY <1>4 DEF Retry
  <2>4. QED
    BY <1>2, <2>1, <2>2, <2>3
<1>5. ASSUME NEW p \in Submitters, NotifyDelayed(p) PROVE FieldsInv'
  <2>1. dNotify' = TRUE /\ dEnq' \subseteq dEnq /\ UNCHANGED <<B, C>>
    BY <1>5 DEF NotifyDelayed, loopVars, jobVars
  <2>2. QED
    BY <2>1 DEF FieldsInv
<1>6. ASSUME NEW p \in Procs, FinishEnqueue(p) PROVE UNCHANGED <<A, B, C>>
  BY <1>6 DEF FinishEnqueue, delayVars, loopVars, jobVars
<1>7. CASE DispatchHand
  <2>1. UNCHANGED <<A, B, now, runAt, rekeyed>>
    BY <1>7 DEF DispatchHand, delayVars, loopVars
  <2>2. hand \in Jobs
    BY <1>7 DEF DispatchHand, Dispatched, ShapeInv, ReadyInv
  <2>3. out' \in [Jobs -> Nat]
    BY SMT, <1>7, <2>2 DEF DispatchHand, FieldsInv
  <2>4. QED
    BY <2>1, <2>3 DEF FieldsInv
<1>8. CASE Wake \/ TakeReady \/ RequeueHand
  <2>1. UNCHANGED <<A, B, C>>
    BY <1>8 DEF Wake, TakeReady, RequeueHand, delayVars, loopVars, jobVars
  <2>2. QED
    BY <2>1 DEF FieldsInv
<1>9. CASE DelayStep
  <2>1. UNCHANGED <<dEnq, C>>
    BY <1>9 DEF DelayStep, PeekDelayed, SetTimer, TimerFires, ReceiveDelayed, PeekDue,
       CheckDue, DequeueDelayed, Promote, PromoteRefused, dOthers, delayVars, jobVars
  <2>2. dNotify' \in {dNotify, FALSE}
    BY <1>9 DEF DelayStep, PeekDelayed, SetTimer, TimerFires, ReceiveDelayed, PeekDue,
       CheckDue, DequeueDelayed, Promote, PromoteRefused, delayVars
  <2>3. dPc' \in {"peek", "empty", "head", "sleep", "process", "peeked", "due", "popped"}
    BY <1>9 DEF DelayStep, PeekDelayed, SetTimer, TimerFires, ReceiveDelayed, PeekDue,
       CheckDue, DequeueDelayed, Promote, PromoteRefused, Go
  <2>4. dUntil' = 0 \/ (SetTimer /\ dUntil' = runAt[dJob])
    BY <1>9 DEF DelayStep, PeekDelayed, SetTimer, TimerFires, ReceiveDelayed, PeekDue,
       CheckDue, DequeueDelayed, Promote, PromoteRefused, Go
  <2>5. SetTimer => dJob \in Jobs
    BY DEF SetTimer, ShapeInv, DelayInv
  <2>6. dUntil' \in 0 .. MaxTime
    BY SMT, <2>4, <2>5, MaxTimeNat DEF FieldsInv
  <2>7. QED
    BY <2>1, <2>2, <2>3, <2>6 DEF FieldsInv
<1>10. CASE Tick
  <2>1. UNCHANGED <<A, B, runAt, out, rekeyed>> /\ now < MaxTime /\ now' = now + 1
    BY <1>10 DEF Tick, delayVars, loopVars, jobVars
  <2>2. now' \in 0 .. MaxTime
    BY SMT, <2>1, MaxTimeNat DEF FieldsInv
  <2>3. QED
    BY <2>1, <2>2 DEF FieldsInv
<1>11. ASSUME UNCHANGED <<A, B, C>> PROVE FieldsInv'
  BY <1>11 DEF FieldsInv
<1>12. CASE UNCHANGED queuesVars
  BY <1>11, <1>12 DEF queuesVars, delayVars, loopVars, jobVars
<1>13. QED
  BY <1>1, <1>3, <1>4, <1>5, <1>6, <1>7, <1>8, <1>9, <1>10, <1>11, <1>12
  DEF QueuesNext, DispatchStep
---------------------------------------------------------------------------
\* A push on PriorityQueue of a job that is known.
LEMMA PushReady ==
    ASSUME ShapeInv, known \subseteq known', known' \subseteq Jobs, NEW x \in known',
           items' = items + 1, heap' = HeapPush(heap, PriorityComparator, x),
           hand' \in {hand, 0}, pc' = "have" => pc = "have" /\ hand' = hand
    PROVE  ReadyInv'
<1> DEFINE g == HeapPush(heap, PriorityComparator, x)
<1>0. heap \in Seq(Jobs) /\ x \in Jobs /\ Ordered(heap, PriorityComparator)
      /\ items = Len(heap) /\ Contents(heap) \subseteq known
  BY DEF ShapeInv, ReadyInv
<1>1. g \in Seq(Jobs) /\ Len(g) = Len(heap) + 1 /\ Ordered(g, PriorityComparator)
  BY <1>0, PushIsRight, PriorityKeys
<1>2. Contents(g) = Contents(heap) \cup {x}
  BY <1>0, PushContents, PriorityKeys
<1>3. heap' = g
  OBVIOUS
<1> HIDE DEF g
<1>4. heap' \in Seq(Jobs) /\ items' = Len(heap') /\ Contents(heap') \subseteq known'
  BY <1>0, <1>1, <1>2, <1>3
<1>5. Ordered(heap', PriorityComparator)
  BY <1>1, <1>3
<1>6. hand' \in known' \cup {0} /\ (pc' = "have" => hand' \in known')
  BY DEF ShapeInv, ReadyInv
<1>7. QED
  BY <1>4, <1>5, <1>6 DEF ReadyInv, PriorityComparator

\* A push on DelayQueue.
LEMMA PushDelayed ==
    ASSUME ShapeInv, FieldsInv, NEW p, NEW j \in Jobs, NEW t \in 0 .. MaxTime,
           known \subseteq known', known' \subseteq Jobs, j \in known',
           EnqueueDelayed(p, j, t)
    PROVE  /\ ReadyInv' /\ DelayInv'
           /\ Ordered(delayed, runAt') => Ordered(delayed', runAt')
<1> DEFINE g == HeapPush(delayed, runAt', j)
<1>0. /\ delayed \in Seq(Jobs) /\ Contents(delayed) \subseteq known
      /\ dJob \in known \cup {0}
      /\ dPc \in {"head", "peeked", "due", "popped"} => dJob \in known
  BY DEF ShapeInv, DelayInv
<1>1. runAt' = [runAt EXCEPT ![j] = t] /\ delayed' = g
      /\ UNCHANGED <<items, pc, heap, hand, dPc, dJob>>
  BY DEF EnqueueDelayed, vars, loopVars
<1>2. runAt' \in [Jobs -> Int]
  BY SMT, <1>1 DEF FieldsInv
<1>3. g \in Seq(Jobs) /\ Len(g) = Len(delayed) + 1
      /\ (Ordered(delayed, runAt') => Ordered(g, runAt'))
  BY <1>0, <1>2, PushIsRight
<1>4. Contents(g) = Contents(delayed) \cup {j}
  BY <1>0, <1>2, PushContents
<1> HIDE DEF g
<1>5. delayed' \in Seq(Jobs) /\ delayed' # <<>> /\ Contents(delayed') \subseteq known'
  BY SMT, <1>0, <1>1, <1>3, <1>4
<1>6. DelayInv'
  BY <1>0, <1>1, <1>5 DEF DelayInv
<1>7. ReadyInv'
  BY <1>1 DEF ShapeInv, ReadyInv, PriorityComparator
<1>8. QED
  BY <1>1, <1>3, <1>6, <1>7

\* Jobs become known and stay so, and what executes is known.
LEMMA NextKnown ==
    ASSUME ShapeInv, FieldsInv, [QueuesNext]_queuesVars
    PROVE  /\ known \subseteq known' /\ known' \subseteq Jobs
           /\ \A j \in Jobs : out'[j] > 0 => j \in known'
<1>0. known \subseteq Jobs /\ out \in [Jobs -> Nat] /\ \A j \in Jobs : out[j] > 0 => j \in known
  BY DEF ShapeInv, FieldsInv
<1>1. ASSUME NEW p \in Submitters, NEW j \in Jobs, NEW t \in 0 .. MaxTime,
             SubmitJob(p, j) \/ SubmitJobAt(p, j, t)
      PROVE  known' = known \cup {j} /\ out' = out
  BY <1>1 DEF SubmitJob, SubmitJobAt
<1>2. ASSUME NEW p \in Submitters, NEW j \in Jobs, SubmitJob(p, j)
      PROVE  known' = known \cup {j} /\ out' = out
  BY <1>2 DEF SubmitJob
<1>3. ASSUME NEW p \in Submitters, NEW j \in Jobs, NEW t \in 0 .. MaxTime, Retry(p, j, t)
      PROVE  known' = known /\ \A i \in Jobs : out'[i] > 0 => out[i] > 0
  BY <1>0, <1>3 DEF Retry
<1>4. CASE DispatchHand
  <2>1. hand \in known /\ known' = known /\ out' \in {out, [out EXCEPT ![hand] = @ + 1]}
    BY <1>4 DEF DispatchHand, Dispatched, ShapeInv, ReadyInv
  <2>2. QED
    BY <1>0, <2>1
<1>5. ASSUME NEW p \in Submitters, NEW j \in Jobs, Recover(p, j) PROVE UNCHANGED <<known, out>>
  BY <1>5 DEF Recover
<1>6. ASSUME NEW p \in Submitters, NotifyDelayed(p) PROVE UNCHANGED <<known, out>>
  BY <1>6 DEF NotifyDelayed, jobVars
<1>7. ASSUME NEW p \in Procs, FinishEnqueue(p) PROVE UNCHANGED <<known, out>>
  BY <1>7 DEF FinishEnqueue, jobVars
<1>8. CASE Wake \/ TakeReady \/ RequeueHand \/ DelayStep \/ Tick \/ UNCHANGED queuesVars
  <2>1. UNCHANGED <<known, out>>
    BY <1>8 DEF Wake, TakeReady, RequeueHand, DelayStep, PeekDelayed, SetTimer, TimerFires,
       ReceiveDelayed, PeekDue, CheckDue, DequeueDelayed, Promote, PromoteRefused, dOthers,
       Tick, queuesVars, jobVars
  <2>2. QED
    BY <1>0, <2>1
<1>9. QED
  BY <1>0, <1>1, <1>2, <1>3, <1>4, <1>5, <1>6, <1>7, <1>8 DEF QueuesNext, DispatchStep

\* A step of the queues keeps the heaps in shape and PriorityQueue ordered.
LEMMA NextShape ==
    ShapeInv /\ FieldsInv /\ [QueuesNext]_queuesVars => ShapeInv'
<1> SUFFICES ASSUME ShapeInv, FieldsInv, [QueuesNext]_queuesVars PROVE ShapeInv'
  OBVIOUS
<1> DEFINE R == <<heap, items, hand, pc>>
           D == <<delayed, dJob, dPc>>
<1>0. /\ known \subseteq Jobs /\ known \subseteq known' /\ known' \subseteq Jobs
      /\ \A j \in Jobs : out[j] > 0 => j \in known
      /\ \A j \in Jobs : out'[j] > 0 => j \in known'
  BY NextKnown DEF ShapeInv
<1> SUFFICES ReadyInv' /\ DelayInv'
  BY <1>0 DEF ShapeInv
<1>a. ASSUME UNCHANGED R PROVE ReadyInv'
  BY <1>a, <1>0 DEF ShapeInv, ReadyInv, PriorityComparator
<1>b. ASSUME UNCHANGED D PROVE DelayInv'
  BY <1>b, <1>0 DEF ShapeInv, DelayInv
<1>1. ASSUME NEW p \in Submitters, NEW j \in Jobs, SubmitJob(p, j) \/ Recover(p, j)
      PROVE  ReadyInv' /\ DelayInv'
  <2>1. UNCHANGED D /\ EnqueueReady(p, j)
    BY <1>1 DEF SubmitJob, Recover, delayVars, loopVars
  <2>2. j \in known'
    BY <1>0, <1>1 DEF SubmitJob, Recover
  <2>3. ReadyInv'
    BY <1>0, <2>1, <2>2, PushReady DEF EnqueueReady, Enqueue, Push
  <2>4. QED
    BY <1>b, <2>1, <2>3
<1>2. ASSUME NEW p \in Submitters, NEW j \in Jobs, NEW t \in 0 .. MaxTime,
             SubmitJobAt(p, j, t) \/ Retry(p, j, t)
      PROVE  ReadyInv' /\ DelayInv'
  <2>1. EnqueueDelayed(p, j, t)
    BY <1>2 DEF SubmitJobAt, Retry
  <2>2. j \in known'
    BY <1>0, <1>2 DEF SubmitJobAt, Retry
  <2>3. QED
    BY <1>0, <2>1, <2>2, PushDelayed
<1>3. ASSUME NEW p \in Submitters, NotifyDelayed(p) PROVE UNCHANGED <<R, D>>
  BY <1>3 DEF NotifyDelayed, vars, loopVars
<1>4. ASSUME NEW p \in Procs, FinishEnqueue(p) PROVE UNCHANGED <<R, D>>
  BY <1>4 DEF FinishEnqueue, CountUp, Notify, delayVars, loopVars
<1>5. CASE Wake
  <2>1. UNCHANGED <<D, heap, items, hand>> /\ pc' # "have"
    BY <1>5 DEF Wake, Receive, delayVars, loopVars
  <2>2. ReadyInv'
    BY <1>0, <2>1 DEF ShapeInv, ReadyInv, PriorityComparator
  <2>3. QED
    BY <1>b, <2>1, <2>2
<1>6. CASE TakeReady
  <2>0. UNCHANGED D
    BY <1>6 DEF TakeReady, delayVars, loopVars
  <2>1. heap \in Seq(Jobs) /\ items = Len(heap) /\ Contents(heap) \subseteq known
        /\ Ordered(heap, PriorityComparator) /\ hand \in known \cup {0}
    BY DEF ShapeInv, ReadyInv
  <2>2. CASE items > 0
    <3> DEFINE g == HeapPop(heap, PriorityComparator)
    <3>1. heap' = g /\ hand' = heap[1] /\ items' = items - 1
      BY <1>6, <2>2 DEF TakeReady, Dequeue
    <3>2. Len(heap) > 0 /\ heap[1] \in Contents(heap)
      BY SMT, <2>1, <2>2 DEF Contents
    <3>3. g \in Seq(Jobs) /\ Len(g) = Len(heap) - 1 /\ Ordered(g, PriorityComparator)
      BY <2>1, <3>2, PopIsRight, PriorityKeys
    <3>4. Contents(g) \subseteq Contents(heap)
      BY <2>1, <3>2, PopContents, PriorityKeys
    <3> HIDE DEF g
    <3>5. heap' \in Seq(Jobs) /\ items' = Len(heap') /\ Contents(heap') \subseteq known'
          /\ Ordered(heap', PriorityComparator) /\ hand' \in known'
      BY <1>0, <2>1, <3>1, <3>2, <3>3, <3>4
    <3>6. ReadyInv'
      BY <3>5 DEF ReadyInv, PriorityComparator
    <3>7. QED
      BY <1>b, <2>0, <3>6
  <2>3. CASE ~(items > 0)
    <3>1. UNCHANGED <<heap, items, hand>> /\ pc' # "have"
      BY <1>6, <2>3 DEF TakeReady, Dequeue
    <3>2. ReadyInv'
      BY <1>0, <3>1 DEF ShapeInv, ReadyInv, PriorityComparator
    <3>3. QED
      BY <1>b, <2>0, <3>2
  <2>4. QED
    BY <2>2, <2>3
<1>7. CASE DispatchHand
  <2>1. UNCHANGED <<D, heap, items>> /\ pc' # "have" /\ hand' = 0
    BY <1>7 DEF DispatchHand, Dispatched, delayVars, loopVars
  <2>2. ReadyInv'
    BY <1>0, <2>1 DEF ShapeInv, ReadyInv, PriorityComparator
  <2>3. QED
    BY <1>b, <2>1, <2>2
<1>8. CASE RequeueHand
  <2>1. UNCHANGED D /\ heap' = HeapPush(heap, PriorityComparator, hand) /\ hand' = 0
        /\ pc = "have" /\ pc' # "have" /\ items' = items + 1
    BY <1>8 DEF RequeueHand, Requeue, Push, delayVars, loopVars
  <2>2. hand \in known'
    BY <1>0, <2>1 DEF ShapeInv, ReadyInv
  <2>3. ReadyInv'
    BY <1>0, <2>1, <2>2, PushReady
  <2>4. QED
    BY <1>b, <2>1, <2>3
<1>9. CASE PeekDelayed \/ PeekDue
  <2>1. UNCHANGED <<R, delayed>>
    BY <1>9 DEF PeekDelayed, PeekDue, dOthers, vars
  <2>2. \/ dJob' = 0 /\ dPc' \in {"empty", "peek"}
        \/ delayed # <<>> /\ dJob' = delayed[1]
    BY <1>9 DEF PeekDelayed, PeekDue, Go
  <2>3. delayed \in Seq(Jobs) /\ Contents(delayed) \subseteq known
    BY DEF ShapeInv, DelayInv
  <2>4. delayed # <<>> => delayed[1] \in Contents(delayed)
    BY SMT, <2>3 DEF Contents
  <2>5. DelayInv'
    BY <1>0, <2>1, <2>2, <2>3, <2>4 DEF DelayInv
  <2>6. QED
    BY <1>a, <2>1, <2>5
<1>10. CASE SetTimer \/ TimerFires \/ ReceiveDelayed \/ CheckDue \/ PromoteRefused
  <2>1. UNCHANGED <<R, delayed>>
    BY <1>10 DEF SetTimer, TimerFires, ReceiveDelayed, CheckDue, PromoteRefused, dOthers, vars
  <2>2. \/ dJob' = 0 /\ dPc' \in {"peek", "sleep", "process"}
        \/ dPc = "peeked" /\ dPc' = "due" /\ dJob' = dJob
    BY <1>10 DEF SetTimer, TimerFires, ReceiveDelayed, CheckDue, PromoteRefused, Go
  <2>3. DelayInv'
    BY <1>0, <2>1, <2>2 DEF ShapeInv, DelayInv
  <2>4. QED
    BY <1>a, <2>1, <2>3
<1>11. CASE DequeueDelayed
  <2> DEFINE g == HeapPop(delayed, runAt)
  <2>1. UNCHANGED R /\ delayed' = g /\ dPc = "due" /\ dPc' = "popped" /\ dJob' = dJob
    BY <1>11 DEF DequeueDelayed, Go, dOthers, vars, DelayComparator
  <2>2. delayed \in Seq(Jobs) /\ Contents(delayed) \subseteq known /\ delayed # <<>>
        /\ dJob \in known
    BY <2>1 DEF ShapeInv, DelayInv
  <2>3. Len(delayed) > 0 /\ runAt \in [Jobs -> Int]
    BY SMT, <2>2 DEF FieldsInv
  <2>4. g \in Seq(Jobs)
    BY <2>2, <2>3, PopIsRight
  <2>5. Contents(g) \subseteq Contents(delayed)
    BY <2>2, <2>3, PopContents
  <2> HIDE DEF g
  <2>6. DelayInv'
    BY <1>0, <2>1, <2>2, <2>4, <2>5 DEF DelayInv
  <2>7. QED
    BY <1>a, <2>1, <2>6
<1>12. CASE Promote
  <2>1. dPc = "popped" /\ dPc' = "process" /\ dJob' = 0 /\ UNCHANGED delayed
        /\ EnqueueReady(DelayLoop, dJob)
    BY <1>12 DEF Promote, Go, delayVars
  <2>2. dJob \in known'
    BY <1>0, <2>1 DEF ShapeInv, DelayInv
  <2>3. ReadyInv'
    BY <1>0, <2>1, <2>2, PushReady DEF EnqueueReady, Enqueue, Push
  <2>4. DelayInv'
    BY <1>0, <2>1 DEF ShapeInv, DelayInv
  <2>5. QED
    BY <2>3, <2>4
<1>13. CASE Tick \/ UNCHANGED queuesVars
  <2>1. UNCHANGED <<R, D>>
    BY <1>13 DEF Tick, queuesVars, vars, delayVars, loopVars
  <2>2. QED
    BY <1>a, <1>b, <2>1
<1>14. QED
  BY <1>a, <1>b, <1>1, <1>2, <1>3, <1>4, <1>5, <1>6, <1>7, <1>8, <1>9, <1>10, <1>11,
     <1>12, <1>13 DEF QueuesNext, DispatchStep, DelayStep
---------------------------------------------------------------------------
\* A heap is ordered by every key that agrees with its own on what it holds.
LEMMA OrderedByBoth ==
    ASSUME NEW h \in Seq(Jobs), NEW key, NEW key2, Ordered(h, key),
           \A v \in Contents(h) : key2[v] = key[v]
    PROVE  Ordered(h, key2)
<1>1. ASSUME NEW k \in 2 .. Len(h)
      PROVE  k \div 2 \in 1 .. Len(h) /\ k \in 1 .. Len(h)
  BY SMT
<1>2. \A k \in 1 .. Len(h) : h[k] \in Contents(h)
  BY SMT DEF Contents
<1>3. QED
  BY <1>1, <1>2 DEF Ordered, OrderedTo

\* A job comes into DelayQueue, or comes in a second time: the heap keeps its order
\* unless the job's key has changed under an entry.
LEMMA PushKeepsOrder ==
    ASSUME ShapeInv, FieldsInv, NEW p, NEW j \in Jobs, NEW t \in 0 .. MaxTime,
           known \subseteq known', known' \subseteq Jobs, j \in known',
           EnqueueDelayed(p, j, t), Ordered(delayed, runAt),
           j \notin Contents(delayed) \/ runAt[j] = t
    PROVE  Ordered(delayed', runAt')
<1>1. delayed \in Seq(Jobs) /\ Contents(delayed) \subseteq Jobs
  BY DEF ShapeInv, DelayInv
<1>2. runAt' = [runAt EXCEPT ![j] = t] /\ runAt \in [Jobs -> 0 .. MaxTime]
  BY DEF EnqueueDelayed, FieldsInv
<1>3. \A v \in Contents(delayed) : runAt'[v] = runAt[v]
  BY <1>1, <1>2
<1>4. Ordered(delayed, runAt')
  BY <1>1, <1>3, OrderedByBoth
<1>5. QED
  BY <1>4, PushDelayed

\* A step of the queues keeps DelayQueue ordered unless it changes a key in it.
LEMMA NextOrder ==
    ShapeInv /\ FieldsInv /\ OrderInv /\ [QueuesNext]_queuesVars => OrderInv'
<1> SUFFICES ASSUME ShapeInv, FieldsInv, OrderInv, [QueuesNext]_queuesVars, ~rekeyed'
             PROVE  Ordered(delayed', runAt')
  BY DEF OrderInv
<1>0. /\ known \subseteq Jobs /\ known \subseteq known' /\ known' \subseteq Jobs
      /\ Contents(delayed) \subseteq known
      /\ \A j \in Jobs : out[j] > 0 => j \in known
  BY NextKnown DEF ShapeInv, DelayInv
<1>1. ASSUME UNCHANGED <<delayed, runAt, rekeyed>> PROVE Ordered(delayed', runAt')
  BY <1>1 DEF OrderInv
<1>2. ASSUME NEW p \in Submitters, NEW j \in Jobs, SubmitJob(p, j) \/ Recover(p, j)
      PROVE  UNCHANGED <<delayed, runAt, rekeyed>>
  BY <1>2 DEF SubmitJob, Recover, delayVars
<1>3. ASSUME NEW p \in Submitters, NEW j \in Jobs, NEW t \in 0 .. MaxTime,
             SubmitJobAt(p, j, t)
      PROVE  Ordered(delayed', runAt')
  <2>1. EnqueueDelayed(p, j, t) /\ j \in known' /\ j \notin known /\ rekeyed' = rekeyed
    BY <1>3 DEF SubmitJobAt
  <2>2. Ordered(delayed, runAt)
    BY <2>1 DEF OrderInv
  <2>3. QED
    BY <1>0, <2>1, <2>2, PushKeepsOrder
<1>4. ASSUME NEW p \in Submitters, NEW j \in Jobs, NEW t \in 0 .. MaxTime, Retry(p, j, t)
      PROVE  Ordered(delayed', runAt')
  <2>1. EnqueueDelayed(p, j, t) /\ out[j] > 0
        /\ rekeyed' = (rekeyed \/ (j \in Contents(delayed) /\ runAt[j] # t))
    BY <1>4 DEF Retry
  <2>2. ~rekeyed /\ (j \notin Contents(delayed) \/ runAt[j] = t)
    BY <2>1
  <2>3. Ordered(delayed, runAt)
    BY <2>2 DEF OrderInv
  <2>4. QED
    BY <1>0, <2>1, <2>2, <2>3, PushKeepsOrder
<1>5. ASSUME NEW p \in Submitters, NotifyDelayed(p)
      PROVE  UNCHANGED <<delayed, runAt, rekeyed>>
  BY <1>5 DEF NotifyDelayed, jobVars
<1>6. ASSUME NEW p \in Procs, FinishEnqueue(p) PROVE UNCHANGED <<delayed, runAt, rekeyed>>
  BY <1>6 DEF FinishEnqueue, delayVars, jobVars
<1>7. CASE DispatchStep
  BY <1>1, <1>7 DEF DispatchStep, Wake, TakeReady, DispatchHand, RequeueHand, delayVars, jobVars
<1>8. CASE DequeueDelayed
  <2>1. delayed' = HeapPop(delayed, runAt) /\ UNCHANGED <<runAt, rekeyed>> /\ dPc = "due"
    BY <1>8 DEF DequeueDelayed, Go, DelayComparator, dOthers, jobVars
  <2>2. delayed \in Seq(Jobs) /\ Len(delayed) > 0 /\ runAt \in [Jobs -> Int]
    BY SMT, <2>1 DEF ShapeInv, DelayInv, FieldsInv
  <2>3. Ordered(delayed, runAt)
    BY <2>1 DEF OrderInv
  <2>4. QED
    BY <2>1, <2>2, <2>3, PopIsRight
<1>9. CASE DelayStep /\ ~DequeueDelayed
  <2>1. UNCHANGED <<delayed, runAt, rekeyed>>
    BY <1>9 DEF DelayStep, PeekDelayed, SetTimer, TimerFires, ReceiveDelayed, PeekDue,
       CheckDue, Promote, PromoteRefused, dOthers, delayVars, jobVars
  <2>2. QED
    BY <1>1, <2>1
<1>10. CASE Tick \/ UNCHANGED queuesVars
  BY <1>1, <1>10 DEF Tick, queuesVars, delayVars, jobVars
<1>11. QED
  BY <1>1, <1>2, <1>3, <1>4, <1>5, <1>6, <1>7, <1>8, <1>9, <1>10 DEF QueuesNext

\* A step of the queues does not leave delayLoop asleep past an entry with no token
\* on its way.
LEMMA NextSleep ==
    ShapeInv /\ FieldsInv /\ OrderInv /\ SleepInv /\ [QueuesNext]_queuesVars => SleepInv'
<1> SUFFICES ASSUME ShapeInv, FieldsInv, OrderInv, SleepInv, [QueuesNext]_queuesVars
             PROVE  SleepInv'
  OBVIOUS
<1> DEFINE S == <<dPc, rekeyed, dNotify, dEnq, delayed, runAt, dJob, dUntil>>
<1>1. ASSUME UNCHANGED S PROVE SleepInv'
  BY <1>1 DEF SleepInv, NoOversleep
<1>2. ASSUME NEW p \in Submitters, NEW j \in Jobs, SubmitJob(p, j) \/ Recover(p, j)
      PROVE  UNCHANGED S
  BY <1>2 DEF SubmitJob, Recover, delayVars, loopVars
<1>3. ASSUME NEW p \in Submitters, NEW j \in Jobs, NEW t \in 0 .. MaxTime,
             SubmitJobAt(p, j, t) \/ Retry(p, j, t)
      PROVE  SleepInv'
  <2>1. dEnq' # {}
    BY <1>3 DEF SubmitJobAt, Retry, EnqueueDelayed
  <2>2. QED
    BY <2>1 DEF SleepInv, NoOversleep
<1>4. ASSUME NEW p \in Submitters, NotifyDelayed(p) PROVE SleepInv'
  <2>1. dNotify'
    BY <1>4 DEF NotifyDelayed
  <2>2. QED
    BY <2>1 DEF SleepInv, NoOversleep
<1>5. ASSUME NEW p \in Procs, FinishEnqueue(p) PROVE UNCHANGED S
  BY <1>5 DEF FinishEnqueue, delayVars, loopVars, jobVars
<1>6. CASE DispatchStep
  <2>1. UNCHANGED S
    BY <1>6 DEF DispatchStep, Wake, TakeReady, DispatchHand, RequeueHand, delayVars,
       loopVars, jobVars
  <2>2. QED
    BY <1>1, <2>1
<1>7. CASE PeekDelayed
  <2>1. UNCHANGED <<rekeyed, delayed, runAt>> /\ dPc' \in {"empty", "head"}
        /\ (dPc' = "head" => delayed # <<>> /\ dJob' = delayed[1])
    BY <1>7 DEF PeekDelayed, Go, dOthers, jobVars
  <2>2. delayed \in Seq(Jobs) /\ runAt \in [Jobs -> Int]
    BY SMT DEF ShapeInv, DelayInv, FieldsInv
  <2>3. ~rekeyed => \A k \in 1 .. Len(delayed) : runAt[delayed[1]] <= runAt[delayed[k]]
    BY <2>2, RootLeast DEF OrderInv
  <2>4. ~rekeyed => \A j \in Contents(delayed) : runAt[delayed[1]] <= runAt[j]
    BY SMT, <2>2, <2>3 DEF Contents
  <2>5. QED
    BY <2>1, <2>4 DEF SleepInv, NoOversleep
<1>8. CASE SetTimer
  <2>1. UNCHANGED <<rekeyed, dNotify, dEnq, delayed, runAt>> /\ dPc = "head" /\ dPc' # "head"
        /\ (dPc' = "sleep" => dUntil' = runAt[dJob])
    BY <1>8 DEF SetTimer, Go, dOthers, jobVars
  <2>2. Contents(delayed) \subseteq Jobs /\ dJob \in Jobs /\ \A j \in Jobs : runAt[j] \in Int
    BY SMT, <2>1 DEF ShapeInv, DelayInv, FieldsInv
  <2>3. ASSUME ~rekeyed, ~dNotify, dEnq = {}
        PROVE  \A j \in Contents(delayed) : runAt[j] >= runAt[dJob]
    BY <2>1, <2>2, <2>3 DEF SleepInv
  <2>4. QED
    BY <2>1, <2>3 DEF SleepInv, NoOversleep
<1>9. CASE DelayStep /\ ~PeekDelayed /\ ~SetTimer
  <2>1. dPc' \notin {"head", "sleep"}
    BY <1>9 DEF DelayStep, TimerFires, ReceiveDelayed, PeekDue, CheckDue, DequeueDelayed,
       Promote, PromoteRefused, Go
  <2>2. QED
    BY <2>1 DEF SleepInv, NoOversleep
<1>10. CASE Tick \/ UNCHANGED queuesVars
  <2>1. UNCHANGED S
    BY <1>10 DEF Tick, queuesVars, delayVars, loopVars, jobVars
  <2>2. QED
    BY <1>1, <2>1
<1>11. QED
  BY <1>1, <1>2, <1>3, <1>4, <1>5, <1>6, <1>7, <1>8, <1>9, <1>10 DEF QueuesNext
---------------------------------------------------------------------------
QueuesInv == TypeOK /\ ShapeInv /\ FieldsInv /\ OrderInv /\ SleepInv

\* The heaps are empty when the scheduler starts.
LEMMA InitQueuesInv == QueuesInit => QueuesInv
<1> SUFFICES ASSUME QueuesInit PROVE QueuesInv
  OBVIOUS
<1>1. TypeOK
  BY InitIInv DEF QueuesInit, IInv
<1>2. Contents(heap) = {} /\ Contents(delayed) = {} /\ Len(heap) = 0 /\ Len(delayed) = 0
      /\ heap \in Seq(Jobs) /\ delayed \in Seq(Jobs) /\ items = 0 /\ pc = "wait"
  BY SMT DEF QueuesInit, Init, Contents
<1>3. Ordered(heap, PriorityComparator) /\ Ordered(delayed, runAt)
  BY SMT, <1>2 DEF Ordered, OrderedTo
<1>4. ShapeInv
  BY SMT, <1>2, <1>3 DEF QueuesInit, ShapeInv, ReadyInv, DelayInv
<1>5. FieldsInv
  <2>1. 0 \in 0 .. MaxTime
    BY SMT, MaxTimeNat
  <2>2. runAt \in [Jobs -> 0 .. MaxTime] /\ out \in [Jobs -> Nat]
    BY <2>1 DEF QueuesInit
  <2>3. QED
    BY <2>1, <2>2 DEF QueuesInit, FieldsInv
<1>6. OrderInv /\ SleepInv
  BY <1>3 DEF QueuesInit, OrderInv, SleepInv, NoOversleep
<1>7. QED
  BY <1>1, <1>4, <1>5, <1>6 DEF QueuesInv

\* What every behaviour of the queues keeps true.
THEOREM QueuesSafe == QueuesSpec => []QueuesInv
<1>1. TypeOK /\ [QueuesNext]_queuesVars => TypeOK'
  BY NextTypeOK, QueuesStepIsQueueStep
<1>2. QueuesInv /\ [QueuesNext]_queuesVars => QueuesInv'
  BY <1>1, NextShape, NextFields, NextOrder, NextSleep DEF QueuesInv
<1>3. QED
  BY <1>2, InitQueuesInv, PTL DEF QueuesSpec

\* The number of entries JobQueue counts is the length of the heap, and heaps, loops
\* and clock keep their types.
THEOREM QueuesTypes == QueuesSpec => []QueuesTypeOK
<1>1. QueuesInv => QueuesTypeOK
  BY DEF QueuesInv, ShapeInv, ReadyInv, DelayInv, FieldsInv, QueuesTypeOK
<1>2. QED
  BY <1>1, QueuesSafe, PTL

\* delayLoop does not sleep past a deadline, however many jobs are delayed.
THEOREM NeverOversleeps == QueuesSpec => []NoOversleep
<1>1. QueuesInv => NoOversleep
  BY DEF QueuesInv, SleepInv
<1>2. QED
  BY <1>1, QueuesSafe, PTL

\* dispatchLoop gets a job of the highest priority, and Dequeue takes exactly that
\* entry from the heap, whatever its length.
THEOREM BestJobFirst == QueuesSpec => HighestFirst
<1> DEFINE A == pc = "drain" /\ pc' = "have" =>
         \A j \in Jobs :
            /\ j \in Contents(heap) => Priority[hand'] >= Priority[j]
            /\ Count(heap', j) = Count(heap, j) - (IF j = hand' THEN 1 ELSE 0)
<1>1. ASSUME QueuesInv, [QueuesNext]_queuesVars, pc = "drain", pc' = "have"
      PROVE  TakeReady /\ items > 0
  <2>1. ASSUME NEW p \in Submitters, NEW j \in Jobs, NEW t \in 0 .. MaxTime,
               SubmitJob(p, j) \/ Recover(p, j) \/ SubmitJobAt(p, j, t) \/ Retry(p, j, t)
        PROVE  pc' = pc
    BY <2>1 DEF SubmitJob, Recover, SubmitJobAt, Retry, EnqueueReady, Enqueue,
       EnqueueDelayed, vars
  <2>2. ASSUME NEW p, NotifyDelayed(p) \/ FinishEnqueue(p) PROVE pc' = pc
    BY <2>2 DEF NotifyDelayed, FinishEnqueue, CountUp, Notify, vars
  <2>3. ~(Wake \/ DispatchHand \/ RequeueHand)
    BY <1>1 DEF Wake, Receive, DispatchHand, Dispatched, RequeueHand, Requeue
  <2>4. ASSUME DelayStep \/ Tick \/ UNCHANGED queuesVars PROVE pc' = pc
    BY <2>4 DEF DelayStep, PeekDelayed, SetTimer, TimerFires, ReceiveDelayed, PeekDue,
       CheckDue, DequeueDelayed, Promote, PromoteRefused, EnqueueReady, Enqueue, dOthers,
       Tick, queuesVars, vars
  <2>5. TakeReady
    BY SMT, <1>1, <2>1, <2>2, <2>3, <2>4, MaxTimeNat DEF QueuesNext, DispatchStep
  <2>6. QED
    BY <1>1, <2>5 DEF TakeReady, Dequeue
<1>2. ASSUME QueuesInv, TakeReady, items > 0
      PROVE  \A j \in Jobs :
               /\ j \in Contents(heap) => Priority[hand'] >= Priority[j]
               /\ Count(heap', j) = Count(heap, j) - (IF j = hand' THEN 1 ELSE 0)
  <2>1. heap \in Seq(Jobs) /\ Len(heap) > 0 /\ Ordered(heap, PriorityComparator)
    BY <1>2 DEF QueuesInv, ShapeInv, ReadyInv
  <2>2. hand' = heap[1] /\ heap' = HeapPop(heap, PriorityComparator)
    BY <1>2 DEF TakeReady
  <2>3. \A j : Count(heap', j) = Count(heap, j) - (IF j = hand' THEN 1 ELSE 0)
    BY <2>1, <2>2, PopIsRight, PriorityKeys
  <2>4. \A k \in 1 .. Len(heap) :
           PriorityComparator[heap[1]] <= PriorityComparator[heap[k]]
    BY <2>1, RootLeast, PriorityKeys
  <2>5. ASSUME NEW j \in Jobs, j \in Contents(heap) PROVE Priority[hand'] >= Priority[j]
    <3>1. PICK k \in 1 .. Len(heap) : j = heap[k]
      BY SMT, <2>1, <2>5 DEF Contents
    <3>2. heap[1] \in Jobs
      BY SMT, <2>1
    <3>3. -Priority[heap[1]] <= -Priority[j]
      BY <2>4, <3>1, <3>2 DEF PriorityComparator
    <3>4. Priority[heap[1]] \in Int /\ Priority[j] \in Int
      BY <3>2, PriorityType
    <3>5. QED
      BY SMT, <2>2, <3>3, <3>4
  <2>6. QED
    BY <2>3, <2>5
<1>3. QueuesInv /\ [QueuesNext]_queuesVars => A
  BY <1>1, <1>2
<1>4. QueuesInv /\ [QueuesNext]_queuesVars => [A]_queuesVars
  BY <1>3
<1>5. QED
  BY <1>4, QueuesSafe, PTL DEF QueuesSpec, HighestFirst
===========================================================================
