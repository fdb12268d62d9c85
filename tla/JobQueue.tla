----------------------------- MODULE JobQueue -----------------------------
(***************************************************************************)
(* The wake-up protocol of JobQueue (internal/queue/queue.go) and of the   *)
(* loop that consumes it, dispatchLoop of internal/scheduler/scheduler.go. *)
(* Enqueue is three steps: the push under the mutex, the increment of the  *)
(* QueueDepth gauge, and a non-blocking send on the one-place channel      *)
(* notify.  The loop blocks on notify, then dequeues until the queue is    *)
(* empty; a job without a worker it enqueues again itself.                 *)
(***************************************************************************)
EXTENDS Integers, FiniteSets

CONSTANTS
    Producers,      \* submitters and the other loops
    Loop,           \* dispatchLoop
    MaxItems        \* bound on the entries explored

ASSUME LoopFresh == Loop \notin Producers
ASSUME MaxItemsNat == MaxItems \in Nat
ASSUME ProducersFinite == IsFiniteSet(Producers)

Procs == Producers \cup {Loop}

VARIABLES
    items,          \* number of entries in the heap
    notify,         \* whether the channel holds its token
    depth,          \* the queue's contribution to the gauge QueueDepth
    enq,            \* process -> how far it is inside Enqueue
    pc              \* the loop: "wait", "drain" or "have" (a job in hand)

vars == <<items, notify, depth, enq, pc>>

\* The heap, the channel, the gauge and the loop keep their types; the heap is
\* never popped when it is empty.
TypeOK ==
    /\ items \in Nat
    /\ notify \in BOOLEAN
    /\ depth \in Int
    /\ enq \in [Procs -> {"idle", "pushed", "counted"}]
    /\ pc \in {"wait", "drain", "have"}

Init ==
    /\ items = 0 /\ depth = 0
    /\ notify = FALSE
    /\ enq = [p \in Procs |-> "idle"]
    /\ pc = "wait"
---------------------------------------------------------------------------
Push(p) ==
    /\ enq[p] = "idle"
    /\ items' = items + 1
    /\ enq' = [enq EXCEPT ![p] = "pushed"]
    /\ UNCHANGED <<notify, depth>>

CountUp(p) ==
    /\ enq[p] = "pushed"
    /\ depth' = depth + 1
    /\ enq' = [enq EXCEPT ![p] = "counted"]
    /\ UNCHANGED <<items, notify, pc>>

\* Mutant: the send is left out.
NotifyMut(p) ==
    /\ enq[p] = "counted"
    /\ enq' = [enq EXCEPT ![p] = "idle"]
    /\ UNCHANGED <<items, notify, depth, pc>>

\* Sends a token, or finds the channel full.
Notify(p) ==
    /\ enq[p] = "counted"
    /\ notify' = TRUE
    /\ enq' = [enq EXCEPT ![p] = "idle"]
    /\ UNCHANGED <<items, depth, pc>>

Enqueue(p) == items < MaxItems /\ Push(p) /\ UNCHANGED pc
---------------------------------------------------------------------------
Receive ==
    /\ pc = "wait" /\ notify
    /\ notify' = FALSE
    /\ pc' = "drain"
    /\ UNCHANGED <<items, depth, enq>>

\* Mutant: the gauge is not decremented.
DequeueMut ==
    /\ pc = "drain" /\ enq[Loop] = "idle"
    /\ IF items > 0 THEN items' = items - 1 /\ pc' = "have"
                    ELSE UNCHANGED items /\ pc' = "wait"
    /\ UNCHANGED <<notify, enq, depth>>

\* Mutant: the heap is popped without a look at its length.
DequeueMut2 ==
    /\ pc = "drain" /\ enq[Loop] = "idle"
    /\ items' = items - 1 /\ depth' = depth - 1 /\ pc' = "have"
    /\ UNCHANGED <<notify, enq>>

Dequeue ==
    /\ pc = "drain" /\ enq[Loop] = "idle"
    /\ IF items > 0
       THEN items' = items - 1 /\ depth' = depth - 1 /\ pc' = "have"
       ELSE UNCHANGED <<items, depth>> /\ pc' = "wait"
    /\ UNCHANGED <<notify, enq>>

\* Mutant: the loop waits for the next token after each job.
DispatchedMut == pc = "have" /\ pc' = "wait" /\ UNCHANGED <<items, notify, depth, enq>>

Dispatched == pc = "have" /\ pc' = "drain" /\ UNCHANGED <<items, notify, depth, enq>>

Requeue == pc = "have" /\ Push(Loop) /\ pc' = "drain"

LoopStep == Receive \/ Dequeue \/ Dispatched \/ Requeue

Next ==
    \/ \E p \in Producers : Enqueue(p)
    \/ \E p \in Procs : CountUp(p) \/ Notify(p)
    \/ LoopStep

Spec == Init /\ [][Next]_vars
---------------------------------------------------------------------------
\* No wake-up is lost: when the loop is blocked on notify and the queue is not
\* empty, a token is in the channel or on its way there.
NoLostWakeup ==
    pc = "wait" /\ items > 0 => notify \/ \E p \in Procs : enq[p] # "idle"

\* The gauge is the length of the queue, less the entries that are pushed and
\* not yet counted.
DepthExact == depth = items - Cardinality({p \in Procs : enq[p] = "pushed"})

\* A queue that holds a job does not stay unread.
EventuallyDequeued == (items > 0) ~> (pc = "have")
===========================================================================
