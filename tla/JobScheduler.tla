--------------------------- MODULE JobScheduler ---------------------------
(***************************************************************************)
(* The control node of Quorum and its remote workers: the scheduler's four *)
(* loops (dispatch, result, delay, recovery), the engine operations that   *)
(* feed them, the lease table, the worker registry and the worker          *)
(* processes, with worker crashes, false suspicions, failed RPCs,          *)
(* evictions and control-node restarts.                                    *)
(*                                                                         *)
(* Each loop is a process with a program counter.  One action is one       *)
(* access to shared state (a store transaction, a queue or lease operation *)
(* under its mutex, a channel operation), so that what one loop read may   *)
(* be stale when it acts on it.                                            *)
(***************************************************************************)
EXTENDS Job, Integers, Sequences

CONSTANTS
    Jobs,           \* job IDs handed out by Engine.nextJobID
    Workers,        \* IDs of the remote workers (cmd/worker processes)
    NoJob, NoWorker,
    Handles,        \* Handles[w]: the jobs whose type is among w's topics
    RaftModes,      \* values of Config.RaftEnabled: a single-node Raft cluster
    AvailableCap,   \* capacity of Manager.Available
    DeadCap,        \* capacity of Manager.DeadWorkers
    ResultBuffer,   \* capacity of Scheduler.Results
    FaultKinds,     \* the kinds of fault that happen
    MaxFaults       \* how many of them in a behaviour

\* A worker crashes; a running worker's heartbeats come too late; an RPC fails;
\* an operator evicts a worker; the control node restarts.
Faults == {"crash", "suspect", "rpc", "evict", "restart"}

ASSUME NoJobFresh == NoJob \notin Jobs
ASSUME NoWorkerFresh == NoWorker \notin Workers
ASSUME HandlesType == Handles \in [Workers -> SUBSET Jobs]
ASSUME RaftModesType == RaftModes \subseteq BOOLEAN
ASSUME CapsPositive == /\ AvailableCap \in Nat \ {0}
                       /\ DeadCap \in Nat \ {0}
                       /\ ResultBuffer \in Nat \ {0}
ASSUME FaultsType == FaultKinds \subseteq Faults /\ MaxFaults \in Nat

VARIABLES
    store,          \* BoltStore: job ID -> record
    dlq,            \* IDs in the dead-letter bucket of the store
    dlqMem,         \* IDs in the in-memory DeadLetterQueue
    cut,            \* history: IDs a restart came before the dead-letter write of
    snapshot,       \* the newest Raft snapshot of the store
    raft,           \* Config.RaftEnabled
    pq,             \* PriorityQueue: job ID -> number of entries
    dq, dqHead,     \* DelayQueue: entries, and the root of its heap
    lease,          \* LeaseManager: job ID -> lease
    toPQ, toDQ,     \* jobs added to the store whose submitter has yet to
                    \*   put them on the priority / delay queue
    available,      \* Manager.Available
    deadWorkers,    \* Manager.DeadWorkers
    results,        \* Scheduler.Results
    workers,        \* Manager.workers: worker -> "absent", "alive", "dead"
    up,             \* the worker processes that run
    exec,           \* worker -> job -> number of running executions
    dPc, dJob, dWorker,     \* dispatchLoop
    rPc, rResult, rCopy,    \* resultLoop, and its copy of the job
    lPc, lJob, lCopy,       \* delayLoop, and its copy of the job
    vSet, vJob,             \* recoveryLoop: released jobs left, job to enqueue
    faults          \* number of faults so far

queueVars == <<pq, dq, dqHead, toPQ, toDQ>>
keptVars == <<dlq, dlqMem, cut, snapshot, raft>>
poolVars == <<available, deadWorkers, workers>>
nodeVars == <<up, exec>>
dVars == <<dPc, dJob, dWorker>>
rVars == <<rPc, rResult, rCopy>>
lVars == <<lPc, lJob, lCopy>>
vVars == <<vSet, vJob>>
vars == <<store, keptVars, queueVars, lease, poolVars, results, nodeVars,
          dVars, rVars, lVars, vVars, faults>>

Lease == [WorkerID : Workers \cup {NoWorker}, Attempt : Nat]
NoLease == [WorkerID |-> NoWorker, Attempt |-> 0]

\* "from" is the reporting worker; job.Result itself has no such field.
Result == [JobID : Jobs, Success : BOOLEAN, Attempt : Nat, from : Workers]
NoResult == [JobID |-> NoJob, Success |-> FALSE, Attempt |-> 0,
             from |-> NoWorker]

NoExec == [j \in Jobs |-> 0]

StoreType ==
    /\ store \in [Jobs -> JobRecord]
    /\ dlq \subseteq Jobs
    /\ dlqMem \subseteq dlq
    /\ cut \subseteq Jobs
    /\ snapshot \in [Jobs -> JobRecord]
    /\ raft \in RaftModes
    /\ lease \in [Jobs -> Lease]

QueueType ==
    /\ pq \in [Jobs -> Nat]
    /\ dq \in [Jobs -> Nat]
    /\ dqHead \in Jobs \cup {NoJob}
    /\ dqHead # NoJob => dq[dqHead] > 0
    /\ toPQ \subseteq Jobs
    /\ toDQ \subseteq Jobs

PoolType ==
    /\ available \in Seq(Workers)
    /\ deadWorkers \in Seq(Workers)
    /\ results \in Seq(Result)
    /\ workers \in [Workers -> {"absent", "alive", "dead"}]

NodeType ==
    /\ up \subseteq Workers
    /\ exec \in [Workers -> [Jobs -> Nat]]

DispatchType ==
    /\ dPc \in {"idle", "fetched", "submit", "accepted"}
    /\ dJob \in Jobs \cup {NoJob}
    /\ dPc # "idle" => dJob \in Jobs
    /\ dWorker \in Workers \cup {NoWorker}
    /\ dPc \in {"submit", "accepted"} => dWorker \in Workers

ResultType ==
    /\ rPc \in {"idle", "fetched", "released", "retry", "dead"}
    /\ rResult \in Result \cup {NoResult}
    /\ rPc # "idle" => rResult \in Result
    /\ rCopy \in JobRecord

DelayType ==
    /\ lPc \in {"idle", "peeked", "read", "popped", "promoted"}
    /\ lJob \in Jobs \cup {NoJob}
    /\ lPc # "idle" => lJob \in Jobs
    /\ lCopy \in JobRecord

RecoveryType == vSet \subseteq Jobs /\ vJob \in Jobs \cup {NoJob}

\* Every variable has its type: the root of the delay queue is one of its
\* entries, each loop has a job in hand whenever it is not idle, and no retry
\* count exceeds the limit.
TypeOK ==
    /\ StoreType /\ QueueType /\ PoolType /\ NodeType
    /\ DispatchType /\ ResultType /\ DelayType /\ RecoveryType
    /\ faults \in 0 .. MaxFaults

Init ==
    /\ store = [j \in Jobs |-> Absent]
    /\ dlq = {} /\ dlqMem = {} /\ cut = {}
    /\ snapshot = [j \in Jobs |-> Absent]
    /\ raft \in RaftModes
    /\ pq = [j \in Jobs |-> 0]
    /\ dq = [j \in Jobs |-> 0]
    /\ dqHead = NoJob
    /\ lease = [j \in Jobs |-> NoLease]
    /\ toPQ = {} /\ toDQ = {}
    /\ available = <<>>
    /\ deadWorkers = <<>>
    /\ results = <<>>
    /\ workers = [w \in Workers |-> "absent"]
    /\ up = {}
    /\ exec = [w \in Workers |-> NoExec]
    /\ dPc = "idle" /\ dJob = NoJob /\ dWorker = NoWorker
    /\ rPc = "idle" /\ rResult = NoResult /\ rCopy = Absent
    /\ lPc = "idle" /\ lJob = NoJob /\ lCopy = Absent
    /\ vSet = {} /\ vJob = NoJob
    /\ faults = 0

Fault(f) == f \in FaultKinds /\ faults < MaxFaults /\ faults' = faults + 1
---------------------------------------------------------------------------
(***************************************************************************)
(* Queues.  Priorities and run times are abstracted: any queued ID may be  *)
(* the one PriorityQueue.Dequeue returns.  The delay queue keeps the root  *)
(* of its heap, because delayLoop looks at it (Peek) and removes it        *)
(* (Dequeue) in two steps: an Enqueue in between may install a new root.   *)
(***************************************************************************)
PushPQ(j) == pq' = [pq EXCEPT ![j] = @ + 1]

PushDQ(j) ==
    /\ dq' = [dq EXCEPT ![j] = @ + 1]
    /\ dqHead' \in IF dqHead = NoJob THEN {j} ELSE {dqHead, j}

Roots(q) == IF \E j \in Jobs : q[j] > 0 THEN {j \in Jobs : q[j] > 0} ELSE {NoJob}

PopDQ == LET q == [dq EXCEPT ![dqHead] = @ - 1]
         IN  dq' = q /\ dqHead' \in Roots(q)
---------------------------------------------------------------------------
(***************************************************************************)
(* Engine operations, called by HTTP handlers.  Adding a job to the store  *)
(* and enqueuing it are two steps; a Raft node proposes the AddJob command *)
(* (whose FSM applies Store.Add) and has no second step.                   *)
(***************************************************************************)
Add(j, rec) ==
    /\ store[j].Status = "None"
    /\ store' = [store EXCEPT ![j] = rec]
    /\ UNCHANGED <<keptVars, pq, dq, dqHead, lease, poolVars, results, nodeVars,
                   dVars, rVars, lVars, vVars, faults>>

\* Mutant: the job is handed to the queue although the store refused it.
SubmitJobMut(j) ==
    /\ \/ Add(j, NewJob)
       \/ UNCHANGED <<store, keptVars, pq, dq, dqHead, lease, poolVars, results,
                      nodeVars, dVars, rVars, lVars, vVars, faults>>
    /\ toPQ' = IF raft THEN toPQ ELSE toPQ \cup {j}
    /\ UNCHANGED toDQ

SubmitJob(j) ==
    /\ Add(j, NewJob)
    /\ toPQ' = IF raft THEN toPQ ELSE toPQ \cup {j}
    /\ UNCHANGED toDQ

SubmitJobAt(j) ==
    /\ Add(j, [NewJob EXCEPT !.Status = "Scheduled"])
    /\ toDQ' = IF raft THEN toDQ ELSE toDQ \cup {j}
    /\ UNCHANGED toPQ

sOthers == <<store, keptVars, lease, poolVars, results, nodeVars,
             dVars, rVars, lVars, vVars, faults>>

EnqueueSubmitted(j) ==
    /\ j \in toPQ
    /\ toPQ' = toPQ \ {j}
    /\ PushPQ(j)
    /\ UNCHANGED <<toDQ, dq, dqHead, sOthers>>

EnqueueSubmittedAt(j) ==
    /\ j \in toDQ
    /\ toDQ' = toDQ \ {j}
    /\ PushDQ(j)
    /\ UNCHANGED <<toPQ, pq, sOthers>>

\* Mutant: a cancelled job is recorded as failed.
CancelJobMut(j) ==
    /\ store[j].Status \in {"Pending", "Scheduled"}
    /\ store' = [store EXCEPT ![j].Status = "Failed"]
    /\ UNCHANGED <<keptVars, queueVars, lease, poolVars, results, nodeVars,
                   dVars, rVars, lVars, vVars, faults>>

CancelJob(j) ==
    /\ store[j].Status \in {"Pending", "Scheduled"}
    /\ store' = [store EXCEPT ![j].Status = "Cancelled"]
    /\ UNCHANGED <<keptVars, queueVars, lease, poolVars, results, nodeVars,
                   dVars, rVars, lVars, vVars, faults>>
---------------------------------------------------------------------------
(***************************************************************************)
(* dispatchLoop.  It alone takes from the priority queue and from          *)
(* Available, so its Dequeue is merged with the Store.Get that follows,    *)
(* and putting a job back with the step before it.                         *)
(***************************************************************************)
dOthers == <<keptVars, dq, dqHead, toPQ, toDQ, deadWorkers, workers, results,
             rVars, lVars, vVars>>

DispatchDequeue(j) ==
    /\ dPc = "idle" /\ pq[j] > 0 /\ store[j].Status \notin Terminal
    /\ pq' = [pq EXCEPT ![j] = @ - 1]
    /\ dPc' = "fetched" /\ dJob' = j
    /\ UNCHANGED <<dWorker, store, lease, available, nodeVars, faults, dOthers>>

SkipTerminal(j) ==
    /\ dPc = "idle" /\ pq[j] > 0 /\ store[j].Status \in Terminal
    /\ pq' = [pq EXCEPT ![j] = @ - 1]
    /\ UNCHANGED <<dVars, store, lease, available, nodeVars, faults, dOthers>>

dDone == dPc' = "idle" /\ dJob' = NoJob /\ dWorker' = NoWorker

\* Mutant: topics are not looked at.
CanHandleMut(w, j) == workers[w] # "absent" \/ j \in Handles[w]

\* Broker.CanHandle: a worker the broker does not know handles every type.
CanHandle(w, j) == workers[w] = "absent" \/ j \in Handles[w]

NoWorkerAvailable ==
    /\ dPc = "fetched"
    /\ \A i \in 1 .. Len(available) : ~CanHandle(available[i], dJob)
    /\ PushPQ(dJob)
    /\ dDone
    /\ UNCHANGED <<store, lease, available, nodeVars, faults, dOthers>>

\* LeaseManager.Acquire: the entry of the job is replaced.
Acquire(j, w, attempt) ==
    lease' = [lease EXCEPT ![j] = [WorkerID |-> w, Attempt |-> attempt]]

(***************************************************************************)
(* Broker.SelectWorker takes the first capable worker of the channel; the  *)
(* incapable ones popped before it go to the back.  That is one step: when *)
(* others fill the channel meanwhile the code drops an incapable worker,   *)
(* here the last of the others finds it full and is dropped.  Neither      *)
(* happens where the channel has room for every worker.  Dispatch then     *)
(* leases the job, counting from a lease that is still there.              *)
(***************************************************************************)
SelectWorker(i) ==
    /\ dPc = "fetched"
    /\ CanHandle(available[i], dJob)
    /\ \A k \in 1 .. i - 1 : ~CanHandle(available[k], dJob)
    /\ available' = SubSeq(available, i + 1, Len(available))
                        \o SubSeq(available, 1, i - 1)
    /\ Acquire(dJob, available[i], lease[dJob].Attempt + 1)
    /\ dPc' = "submit" /\ dWorker' = available[i]
    /\ UNCHANGED <<dJob, pq, store, nodeVars, faults, dOthers>>

\* Mutant: the worker takes a job and stays in the pool.
DeliverJobMut ==
    /\ dPc = "submit" /\ dWorker \in up
    /\ exec' = [exec EXCEPT ![dWorker][dJob] = @ + 1]
    /\ available' = Append(available, dWorker)
    /\ dPc' = "accepted"
    /\ UNCHANGED <<dJob, dWorker, up, pq, store, lease, faults, dOthers>>

\* The SubmitJob RPC reaches the worker, which starts executing (go Execute).
DeliverJob ==
    /\ dPc = "submit" /\ dWorker \in up
    /\ exec' = [exec EXCEPT ![dWorker][dJob] = @ + 1]
    /\ dPc' = "accepted"
    /\ UNCHANGED <<dJob, dWorker, up, pq, store, lease, available, faults, dOthers>>

SubmitOK ==
    /\ dPc = "accepted"
    /\ dDone
    /\ UNCHANGED <<pq, store, lease, available, nodeVars, faults, dOthers>>

\* Mutant: the job of a failed RPC is not put back.
SubmitErrorMut ==
    /\ dPc \in {"submit", "accepted"}
    /\ IF dWorker \in up THEN Fault("rpc") ELSE UNCHANGED faults
    /\ lease' = [lease EXCEPT ![dJob] = NoLease]
    /\ dDone
    /\ UNCHANGED <<pq, store, available, nodeVars, dOthers>>

\* The RPC fails, before or after the worker took the job.
SubmitError ==
    /\ dPc \in {"submit", "accepted"}
    /\ IF dWorker \in up THEN Fault("rpc") ELSE UNCHANGED faults
    /\ lease' = [lease EXCEPT ![dJob] = NoLease]
    /\ PushPQ(dJob)
    /\ dDone
    /\ UNCHANGED <<store, available, nodeVars, dOthers>>

Dispatch ==
    \/ \E j \in Jobs : DispatchDequeue(j) \/ SkipTerminal(j)
    \/ NoWorkerAvailable
    \/ \E i \in 1 .. Len(available) : SelectWorker(i)
    \/ DeliverJob
    \/ SubmitOK
    \/ SubmitError
---------------------------------------------------------------------------
(***************************************************************************)
(* resultLoop.                                                             *)
(***************************************************************************)
rOthers == <<pq, toPQ, toDQ, poolVars, nodeVars, dVars, lVars, vVars, faults>>

ReceiveResult ==
    /\ rPc = "idle" /\ results # <<>>
    /\ results' = Tail(results)
    /\ rResult' = Head(results)
    /\ rCopy' = store[Head(results).JobID]
    /\ rPc' = "fetched"
    /\ UNCHANGED <<store, keptVars, dq, dqHead, lease, rOthers>>

\* Results carry no attempt number (see ReportResult), so that the check and
\* the Release after it cannot disagree and are one step.
rDone == rPc' = "idle" /\ rResult' = NoResult /\ rCopy' = Absent

IsStale == LET l == lease[rResult.JobID]
           IN  l # NoLease /\ rResult.Attempt > 0 /\ rResult.Attempt # l.Attempt

ReleaseLease ==
    /\ rPc = "fetched"
    /\ IF IsStale
       THEN rDone /\ UNCHANGED lease
       ELSE /\ lease' = [lease EXCEPT ![rResult.JobID] = NoLease]
            /\ rPc' = "released"
            /\ UNCHANGED <<rResult, rCopy>>
    /\ UNCHANGED <<results, store, keptVars, dq, dqHead, rOthers>>

CompleteJob ==
    /\ rPc = "released" /\ rResult.Success
    /\ store' = Update(store, rResult.JobID, [rCopy EXCEPT !.Status = "Completed"])
    /\ rDone
    /\ UNCHANGED <<results, keptVars, dq, dqHead, lease, rOthers>>

RetryJob ==
    /\ rPc = "released" /\ ~rResult.Success /\ ShouldRetry(rCopy)
    /\ store' = Update(store, rResult.JobID,
                       [Status |-> "Scheduled", RetryCount |-> rCopy.RetryCount + 1])
    /\ rPc' = "retry"
    /\ UNCHANGED <<rResult, rCopy, results, keptVars, dq, dqHead, lease, rOthers>>

\* Mutant: the retry is recorded and not enqueued.
EnqueueRetryMut ==
    /\ rPc = "retry"
    /\ rDone
    /\ UNCHANGED <<results, store, keptVars, dq, dqHead, lease, rOthers>>

\* The retry is enqueued whether or not the update was accepted.
EnqueueRetry ==
    /\ rPc = "retry"
    /\ PushDQ(rResult.JobID)
    /\ rDone
    /\ UNCHANGED <<results, store, keptVars, lease, rOthers>>

\* Mutant: the failed job is not added to the dead-letter queue.
FailJobMut ==
    /\ rPc = "released" /\ ~rResult.Success /\ ~ShouldRetry(rCopy)
    /\ store' = Update(store, rResult.JobID, [rCopy EXCEPT !.Status = "Failed"])
    /\ rDone
    /\ UNCHANGED <<results, keptVars, dq, dqHead, lease, rOthers>>

\* The update also sets last_error, which the record leaves out.  It is accepted
\* when the job has failed before (a second failing result): then only that field
\* changes.
FailJob ==
    /\ rPc = "released" /\ ~rResult.Success /\ ~ShouldRetry(rCopy)
    /\ store' = Update(store, rResult.JobID, [rCopy EXCEPT !.Status = "Failed"])
    /\ rPc' = "dead"
    /\ UNCHANGED <<rResult, rCopy, results, keptVars, dq, dqHead, lease, rOthers>>

\* The store's bucket and the in-memory queue one after the other.
AddDLQ ==
    /\ rPc = "dead"
    /\ dlq' = dlq \cup {rResult.JobID}
    /\ dlqMem' = dlqMem \cup {rResult.JobID}
    /\ rDone
    /\ UNCHANGED <<cut, snapshot, raft, results, store, dq, dqHead, lease, rOthers>>

HandleResult ==
    \/ ReceiveResult \/ ReleaseLease
    \/ CompleteJob \/ RetryJob \/ EnqueueRetry \/ FailJob \/ AddDLQ
---------------------------------------------------------------------------
(***************************************************************************)
(* delayLoop and ProcessDelayedJobs.  Time is abstracted: the head of the  *)
(* delay queue may be due at any moment.                                   *)
(***************************************************************************)
lOthers == <<keptVars, toPQ, toDQ, lease, poolVars, results, nodeVars,
             dVars, rVars, vVars, faults>>

PeekDelayed ==
    /\ lPc = "idle" /\ dqHead # NoJob
    /\ lJob' = dqHead
    /\ lPc' = "peeked"
    /\ UNCHANGED <<lCopy, store, pq, dq, dqHead, lOthers>>

GetDelayed ==
    /\ lPc = "peeked"
    /\ lCopy' = store[lJob]
    /\ lPc' = "read"
    /\ UNCHANGED <<lJob, store, pq, dq, dqHead, lOthers>>

\* The entry removed is the root of now, not the one Peek returned.
DequeueDelayed ==
    /\ lPc = "read"
    /\ PopDQ
    /\ lPc' = "popped"
    /\ UNCHANGED <<lJob, lCopy, store, pq, lOthers>>

lDone == lPc' = "idle" /\ lJob' = NoJob /\ lCopy' = Absent

PromoteJob ==
    LET j == [lCopy EXCEPT !.Status = "Pending"] IN
    /\ lPc = "popped"
    /\ store' = Update(store, lJob, j)
    /\ IF UpdateOK(store, lJob, j)
       THEN lPc' = "promoted" /\ UNCHANGED <<lJob, lCopy>>
       ELSE lDone
    /\ UNCHANGED <<pq, dq, dqHead, lOthers>>

EnqueuePromoted ==
    /\ lPc = "promoted"
    /\ PushPQ(lJob)
    /\ lDone
    /\ UNCHANGED <<store, dq, dqHead, lOthers>>

ProcessDelayed ==
    PeekDelayed \/ GetDelayed \/ DequeueDelayed \/ PromoteJob \/ EnqueuePromoted
---------------------------------------------------------------------------
(***************************************************************************)
(* recoveryLoop.                                                           *)
(***************************************************************************)
vOthers == <<store, keptVars, dq, dqHead, toPQ, toDQ, available, workers, results,
             nodeVars, dVars, rVars, lVars, faults>>

ReleaseByWorker ==
    /\ vSet = {} /\ vJob = NoJob /\ deadWorkers # <<>>
    /\ vSet' = {j \in Jobs : lease[j].WorkerID = Head(deadWorkers)}
    /\ lease' = [j \in Jobs |-> IF lease[j].WorkerID = Head(deadWorkers)
                                THEN NoLease ELSE lease[j]]
    /\ deadWorkers' = Tail(deadWorkers)
    /\ UNCHANGED <<vJob, pq, vOthers>>

CheckReleased(j) ==
    /\ vJob = NoJob /\ j \in vSet
    /\ vSet' = vSet \ {j}
    /\ vJob' = IF store[j].Status = "Pending" THEN j ELSE NoJob
    /\ UNCHANGED <<pq, lease, deadWorkers, vOthers>>

EnqueueRecovered ==
    /\ vJob # NoJob
    /\ PushPQ(vJob)
    /\ vJob' = NoJob
    /\ UNCHANGED <<vSet, lease, deadWorkers, vOthers>>

Recover == ReleaseByWorker \/ (\E j \in Jobs : CheckReleased(j)) \/ EnqueueRecovered
---------------------------------------------------------------------------
(***************************************************************************)
(* Worker processes and the registry.                                      *)
(***************************************************************************)
wOthers == <<store, keptVars, queueVars, lease, dVars, rVars, lVars, vVars>>

MakeAvailable(w) == available' = IF Len(available) < AvailableCap
                                 THEN Append(available, w) ELSE available

Register(w) == workers' = [workers EXCEPT ![w] = "alive"]

RegisterWorker(w) == Register(w) /\ MakeAvailable(w)

\* A worker process starts and registers; it does so once in its life.  When the
\* registration fails the process sends no heartbeats and does not try again: if
\* the control node has not seen it nobody sends it a job, as if it had not been
\* started; if only the answer was lost it is a worker whose heartbeats stop.
StartWorker(w) ==
    /\ w \notin up
    /\ up' = up \cup {w}
    /\ RegisterWorker(w)
    /\ UNCHANGED <<deadWorkers, results, exec, faults, wOthers>>

CrashWorker(w) ==
    /\ w \in up
    /\ Fault("crash")
    /\ up' = up \ {w}
    /\ exec' = [exec EXCEPT ![w] = NoExec]
    /\ UNCHANGED <<poolVars, results, wOthers>>

\* What Runner.Execute of a worker process sends: Attempt is not filled in.
Outcome(w, j, success) ==
    [JobID |-> j, Success |-> success, Attempt |-> 0, from |-> w]

(***************************************************************************)
(* An execution ends and the worker's ReportResult RPC is handled.  The    *)
(* handler waits while the results channel is full, then returns the       *)
(* worker to the pool.  The two are one step: only dispatchLoop reads      *)
(* Available, and it may take a token as late as it likes.                 *)
(***************************************************************************)
ReportResult(w, j, success) ==
    /\ exec[w][j] > 0 /\ Len(results) < ResultBuffer
    /\ exec' = [exec EXCEPT ![w][j] = @ - 1]
    /\ results' = Append(results, Outcome(w, j, success))
    /\ IF workers[w] = "absent" THEN UNCHANGED available ELSE MakeAvailable(w)
    /\ UNCHANGED <<deadWorkers, workers, up, faults, wOthers>>

\* ReportResult fails: the worker logs the error and drops the result.
LoseResult(w, j) ==
    /\ exec[w][j] > 0
    /\ Fault("rpc")
    /\ exec' = [exec EXCEPT ![w][j] = @ - 1]
    /\ UNCHANGED <<poolVars, results, up, wOthers>>

Heartbeat(w) ==
    /\ w \in up /\ workers[w] = "dead"
    /\ workers' = [workers EXCEPT ![w] = "alive"]
    /\ UNCHANGED <<available, deadWorkers, results, nodeVars, faults, wOthers>>

\* Manager.Monitor: the last heartbeat is too old.  For a worker that runs
\* that is a late heartbeat, a fault.
Timeout(w) ==
    /\ workers[w] = "alive"
    /\ IF w \in up THEN Fault("suspect") ELSE UNCHANGED faults
    /\ workers' = [workers EXCEPT ![w] = "dead"]
    /\ deadWorkers' = IF Len(deadWorkers) < DeadCap
                      THEN Append(deadWorkers, w) ELSE deadWorkers
    /\ UNCHANGED <<available, results, nodeVars, wOthers>>

\* Manager.Remove: the registry and the broker forget the worker; Available,
\* the leases and DeadWorkers are left as they are.
Remove(w) ==
    /\ workers[w] # "absent"
    /\ workers' = [workers EXCEPT ![w] = "absent"]
    /\ UNCHANGED <<available, deadWorkers>>

\* DELETE /cluster/nodes/{id}.
Evict(w) ==
    /\ Fault("evict")
    /\ Remove(w)
    /\ UNCHANGED <<results, nodeVars, wOthers>>

WorkerStep(w) ==
    \/ StartWorker(w) \/ CrashWorker(w) \/ Heartbeat(w) \/ Timeout(w) \/ Evict(w)
    \/ \E j \in Jobs : \/ \E success \in BOOLEAN : ReportResult(w, j, success)
                       \/ LoseResult(w, j)
---------------------------------------------------------------------------
(***************************************************************************)
(* Raft.  FSM.Snapshot writes the jobs of the store to a file.  When a     *)
(* Raft node boots, FSM.Restore adds the jobs of the newest file to the    *)
(* store, over the records that are there.  Bound: no snapshot is taken    *)
(* that no restart can read.                                               *)
(***************************************************************************)
Snapshot ==
    /\ raft /\ faults < MaxFaults
    /\ snapshot' = store
    /\ UNCHANGED <<store, dlq, dlqMem, cut, raft, queueVars, lease, poolVars, results,
                   nodeVars, dVars, rVars, lVars, vVars, faults>>

Snapshotted == {j \in Jobs : raft /\ snapshot[j].Status # "None"}

Restored == IF raft
            THEN [j \in Jobs |-> IF j \in Snapshotted THEN snapshot[j] ELSE store[j]]
            ELSE store

(***************************************************************************)
(* The control node stops and boots again on its Bolt file.  Everything    *)
(* but the store and the snapshot is lost.  Engine.Restore rebuilds the    *)
(* queues, and so does Engine.Start (on a Raft node: the leadership        *)
(* claim), each enqueuing every job listed as pending and every job listed *)
(* as scheduled.  FSM.Restore leaves the jobs it overwrites listed under   *)
(* their earlier statuses too (IndexedStore): which of them are still      *)
(* listed so is left open.                                                 *)
(***************************************************************************)
Rebuilt(status, stale) ==
    [j \in Jobs |-> IF Restored[j].Status = status \/ j \in stale THEN 2 ELSE 0]

Restart ==
    /\ Fault("restart")
    /\ store' = Restored
    /\ \E stale \in SUBSET Snapshotted : pq' = Rebuilt("Pending", stale)
    /\ \E stale \in SUBSET Snapshotted :
          LET q == Rebuilt("Scheduled", stale) IN dq' = q /\ dqHead' \in Roots(q)
    /\ toPQ' = {} /\ toDQ' = {}
    /\ lease' = [j \in Jobs |-> NoLease]
    /\ available' = <<>> /\ deadWorkers' = <<>> /\ results' = <<>>
    /\ workers' = [w \in Workers |-> "absent"]
    /\ dDone /\ rDone /\ lDone /\ vSet' = {} /\ vJob' = NoJob
    /\ dlqMem' = {}
    /\ cut' = IF rPc = "dead" THEN cut \cup {rResult.JobID} ELSE cut
    /\ UNCHANGED <<dlq, snapshot, raft, nodeVars>>

Next ==
    \/ \E j \in Jobs : \/ SubmitJob(j) \/ SubmitJobAt(j)
                       \/ EnqueueSubmitted(j) \/ EnqueueSubmittedAt(j)
                       \/ CancelJob(j)
    \/ Dispatch \/ HandleResult \/ ProcessDelayed \/ Recover
    \/ \E w \in Workers : WorkerStep(w)
    \/ Snapshot \/ Restart

Spec == Init /\ [][Next]_vars

(***************************************************************************)
(* Every loop is a goroutine, so the Go scheduler runs each of them again  *)
(* and again; a submitter finishes its call; an execution ends and is      *)
(* reported; Monitor's ticker notices a worker that is gone.  Nothing      *)
(* forces a client, an operator, a fault or the start of a worker, except  *)
(* that a cluster has workers: each worker is started at least once.       *)
(***************************************************************************)
Fairness ==
    /\ WF_vars(Dispatch)
    /\ WF_vars(HandleResult)
    /\ WF_vars(ProcessDelayed)
    /\ WF_vars(Recover)
    /\ \A j \in Jobs : WF_vars(EnqueueSubmitted(j) \/ EnqueueSubmittedAt(j))
    /\ \A w \in Workers :
        /\ WF_vars(StartWorker(w))
        /\ \A j \in Jobs :
            WF_vars(\E success \in BOOLEAN : ReportResult(w, j, success))
        /\ WF_vars(w \notin up /\ Timeout(w))

FairSpec == Spec /\ Fairness
---------------------------------------------------------------------------
(***************************************************************************)
(* Properties.                                                             *)
(***************************************************************************)

\* Job j is in the priority queue, under a lease, in the hands of the submitter
\* that is about to enqueue it, or in the hands of one of the four loops: popped
\* by dispatchLoop, being decided by resultLoop, promoted by delayLoop, released
\* by recoveryLoop.
InCustody(j) ==
    \/ pq[j] > 0
    \/ lease[j] # NoLease
    \/ j \in toPQ
    \/ dPc = "fetched" /\ dJob = j
    \/ rPc = "released" /\ rResult.JobID = j
    \/ lPc = "promoted" /\ lJob = j
    \/ j \in vSet \/ vJob = j

\* A node without Raft never drops a pending job: at every moment somebody has it
\* in custody, whatever crashes, suspicions, lost RPCs, evictions and restarts.
PendingCustody ==
    ~raft => \A j \in Jobs : store[j].Status = "Pending" => InCustody(j)

\* No queue, lease, loop, worker or result refers to job j.
Unreferenced(j) ==
    /\ pq[j] = 0 /\ dq[j] = 0 /\ j \notin toPQ \cup toDQ
    /\ lease[j] = NoLease
    /\ dJob # j /\ rResult.JobID # j /\ lJob # j /\ j \notin vSet /\ vJob # j
    /\ \A w \in Workers : exec[w][j] = 0
    /\ \A i \in 1 .. Len(results) : results[i].JobID # j

\* Whatever the queues, leases, workers and loops refer to is in the store: a
\* submitter adds a job before it enqueues it, and no fault revives an ID the
\* store never had, so that no Store.Get of the loops misses.
OnlyStoredJobs ==
    \A j \in Jobs : store[j].Status = "None" => Unreferenced(j)

\* A scheduled job is in the delay queue or in the hands of whoever is about
\* to put it there or to promote it.
ScheduledCustody ==
    \A j \in Jobs : store[j].Status = "Scheduled" =>
        \/ dq[j] > 0
        \/ j \in toDQ
        \/ rPc = "retry" /\ rResult.JobID = j
        \/ lPc = "popped" /\ lJob = j

\* A job that is completed, failed or cancelled keeps its status and its retry
\* count for ever, although the loops write back copies they read earlier and late
\* results keep arriving.  (Its last_error may change: see FailJob.)  Only the
\* restart of a Raft node, which puts back the records of a snapshot, ends that.
TerminalStable ==
    [][\A j \in Jobs : store[j].Status \in Terminal =>
          \/ /\ store'[j].Status = store[j].Status
             /\ store'[j].RetryCount = store[j].RetryCount
          \/ raft /\ Restart]_vars

\* Only resultLoop ends a job as completed or failed: between its read of a job
\* and its update nobody else does, so when it finds the job in one of these
\* states its copy is that very record and writing it back changes neither its
\* status nor its retry count.
ResultCopyFresh ==
    rPc \in {"fetched", "released"} =>
        LET cur == store[rResult.JobID]
        IN  cur.Status \in {"Completed", "Failed"} => rCopy = cur

\* A job is given up as FAILED only with its retry budget spent.
FailedExhausted ==
    \A j \in Jobs : store[j].Status = "Failed" => store[j].RetryCount = MaxRetries

\* Engine.DeadJobs: the bucket, or the in-memory queue while that is empty.
DeadJobs == IF dlq = {} THEN dlqMem ELSE dlq

\* Every failed job is among the dead jobs, unless resultLoop has still to add it or
\* a restart came between the update that failed the job and that write: nothing
\* else keeps a failed job from the dead-letter queue, not even a restored snapshot.
FailedInDLQ ==
    \A j \in Jobs : store[j].Status = "Failed" =>
        j \in DeadJobs \cup cut \/ (rPc = "dead" /\ rResult.JobID = j)

\* An execution of j is under way or its outcome is still on its way.
InFlight(j) ==
    \/ dPc \in {"submit", "accepted"} /\ dJob = j
    \/ \E w \in Workers : exec[w][j] > 0
    \/ \E i \in 1 .. Len(results) : results[i].JobID = j
    \/ rPc # "idle" /\ rResult.JobID = j

\* A lease whose execution is gone, and with it the only trace of a pending
\* job, is held by a worker whose loss Monitor will still notice, or has
\* already signalled to recoveryLoop.
LostJobRecovered ==
    \A j \in Jobs :
        LET w == lease[j].WorkerID IN
        store[j].Status = "Pending" /\ lease[j] # NoLease /\ ~InFlight(j) =>
            \/ workers[w] = "alive" /\ w \notin up
            \/ \E i \in 1 .. Len(deadWorkers) : deadWorkers[i] = w

\* resultLoop discards the result of a worker that no longer holds the job.
StaleResultDiscarded ==
    [][rPc = "fetched" /\ rPc' = "released" =>
          lease[rResult.JobID].WorkerID \in {rResult.from, NoWorker}]_vars

\* As long as no worker is evicted and the control node does not restart, a worker
\* executes only jobs of its topics: the broker keeps the pools of specialised
\* workers apart.  (To a broker that has forgotten a worker it handles every type.)
TopicIsolation ==
    \A w \in Workers, j \in Jobs : exec[w][j] > 0 => j \in Handles[w]

\* As long as no worker registers twice, a worker executes at most one job at a
\* time, also after a false suspicion: its place in Available comes back only
\* with its result.
OneJobPerWorker ==
    \A w \in Workers : \A j, k \in Jobs :
        exec[w][j] > 0 /\ exec[w][k] > 0 => j = k /\ exec[w][j] = 1

\* Every submitted job ends, in success, failure or cancellation.
EventuallyTerminal ==
    \A j \in Jobs : (store[j].Status # "None") ~> (store[j].Status \in Terminal)

Life == INSTANCE JobLifecycle WITH job <- store, dead <- DeadJobs

\* What a client reads of a job follows the lifecycle of JobLifecycle: with the
\* five goroutines, their stale copies, late and repeated results and faults,
\* every write of the store is a legal transition of one job, made from the
\* job's current status, and the dead-letter list only grows.  On a Raft node there
\* are the snapshots and the restarts that go back to them besides.
ImplementsLifecycle == Life!Spec
===========================================================================
