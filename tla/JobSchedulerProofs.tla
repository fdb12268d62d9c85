------------------------ MODULE JobSchedulerProofs ------------------------
(***************************************************************************)
(* Safety of JobScheduler, for every set of jobs and workers, every        *)
(* channel capacity, retry limit, topic assignment and number of faults.   *)
(*                                                                         *)
(* Each invariant is proved from TypeOK and the ones before it.            *)
(***************************************************************************)
EXTENDS JobSchedulerPoolProofs

\* Leaves are for Zenon unless they name another prover: SMT for arithmetic,
\* sequences and function updates, PTL for temporal steps.
USE Zenon

\* The steps that write the store: Store.Add, Store.Cancel and the four calls
\* of Store.Update.
StoreWrite ==
    \/ \E j \in Jobs : SubmitJob(j) \/ SubmitJobAt(j) \/ CancelJob(j)
    \/ CompleteJob \/ RetryJob \/ FailJob
    \/ PromoteJob

\* Nothing else writes it but FSM.Restore.
LEMMA StoreWriters == [Next]_vars => UNCHANGED store \/ StoreWrite \/ (raft /\ Restart)
<1> SUFFICES ASSUME [Next]_vars PROVE UNCHANGED store \/ StoreWrite \/ (raft /\ Restart)
  OBVIOUS
<1>1. ASSUME NEW j \in Jobs, EnqueueSubmitted(j) \/ EnqueueSubmittedAt(j)
      PROVE  UNCHANGED store
  BY <1>1 DEF EnqueueSubmitted, EnqueueSubmittedAt, sOthers
<1>2. CASE Dispatch
  BY <1>2 DEF Dispatch, DispatchDequeue, SkipTerminal, NoWorkerAvailable,
     SelectWorker, Acquire, DeliverJob, SubmitOK, SubmitError
<1>3. CASE HandleResult
  BY <1>3 DEF HandleResult, StoreWrite, ReceiveResult, ReleaseLease,
     EnqueueRetry, AddDLQ
<1>4. CASE ProcessDelayed
  BY <1>4 DEF ProcessDelayed, StoreWrite, PeekDelayed, GetDelayed,
     DequeueDelayed, EnqueuePromoted
<1>5. CASE Recover
  BY <1>5 DEF Recover, ReleaseByWorker, CheckReleased, EnqueueRecovered, vOthers
<1>6. ASSUME NEW w \in Workers, WorkerStep(w)
      PROVE  UNCHANGED store
  BY <1>6 DEF WorkerStep, StartWorker, RegisterWorker, Register, CrashWorker,
                        ReportResult, LoseResult,
     Heartbeat, Timeout, Evict, Remove, wOthers
<1>7. CASE Restart
  BY <1>7 DEF Restart, Restored
<1>8. CASE Snapshot \/ UNCHANGED vars
  BY <1>8 DEF Snapshot, vars
<1>9. QED
  BY <1>1, <1>2, <1>3, <1>4, <1>5, <1>6, <1>7, <1>8 DEF Next, StoreWrite

\* What each of them writes, and what Store.Update demands of the record there.
LEMMA StoreWriteEffect ==
    ASSUME TypeOK, StoreWrite, NEW k \in Jobs, store'[k] # store[k]
    PROVE  \/ /\ store[k].Status = "None"
              /\ store'[k].Status \in {"Pending", "Scheduled"}
           \/ /\ store[k].Status \in {"Pending", "Scheduled"}
              /\ store'[k].Status = "Cancelled"
           \/ /\ store[k].Status \in {"Pending", "Scheduled"}
              /\ store'[k].Status = "Pending"
           \/ /\ rPc = "released" /\ k = rResult.JobID
              /\ store'[k].Status \in {"Completed", "Scheduled", "Failed"}
              /\ store[k].Status \in {"Pending", store'[k].Status}
              /\ store'[k].Status = "Completed" => store'[k].RetryCount = rCopy.RetryCount
              /\ store'[k].Status = "Failed" =>
                    store'[k].RetryCount = rCopy.RetryCount /\ ~ShouldRetry(rCopy)
<1>1. store \in [Jobs -> JobRecord] /\ rCopy \in JobRecord /\ lCopy \in JobRecord
  BY DEF TypeOK, StoreType, ResultType, DelayType
<1>2. ASSUME NEW j \in Jobs, SubmitJob(j) \/ SubmitJobAt(j)
      PROVE  /\ store[k].Status = "None"
             /\ store'[k].Status \in {"Pending", "Scheduled"}
  BY SMT, <1>1, <1>2 DEF SubmitJob, SubmitJobAt, Add, NewJob
<1>3. ASSUME NEW j \in Jobs, CancelJob(j)
      PROVE  /\ store[k].Status \in {"Pending", "Scheduled"}
             /\ store'[k].Status = "Cancelled"
  BY <1>1, <1>3 DEF CancelJob, JobRecord
<1>4. CASE CompleteJob
  <2> DEFINE rec == [rCopy EXCEPT !.Status = "Completed"]
  <2>1. rec.Status = "Completed" /\ rec.RetryCount = rCopy.RetryCount
    BY <1>1 DEF JobRecord
  <2>2. k = rResult.JobID /\ store'[k] = rec /\ UpdateOK(store, k, rec)
    BY <1>1, <1>4 DEF CompleteJob, Update
  <2>3. QED
    BY <1>4, <2>1, <2>2 DEF CompleteJob, UpdateOK, IsValidTransition
<1>5. CASE RetryJob
  <2> DEFINE rec == [Status |-> "Scheduled", RetryCount |-> rCopy.RetryCount + 1]
  <2>1. k = rResult.JobID /\ store'[k] = rec /\ UpdateOK(store, k, rec)
    BY <1>1, <1>5 DEF RetryJob, Update
  <2>2. QED
    BY SMT, <1>5, <2>1 DEF RetryJob, UpdateOK, IsValidTransition
<1>6. CASE FailJob
  <2> DEFINE rec == [rCopy EXCEPT !.Status = "Failed"]
  <2>1. rec.Status = "Failed" /\ rec.RetryCount = rCopy.RetryCount
    BY <1>1 DEF JobRecord
  <2>2. k = rResult.JobID /\ store'[k] = rec /\ UpdateOK(store, k, rec)
    BY <1>1, <1>6 DEF FailJob, Update
  <2>3. QED
    BY <1>6, <2>1, <2>2 DEF FailJob, UpdateOK, IsValidTransition
<1>7. CASE PromoteJob
  <2> DEFINE rec == [lCopy EXCEPT !.Status = "Pending"]
  <2>1. rec.Status = "Pending"
    BY <1>1 DEF JobRecord
  <2>2. store'[k] = rec /\ UpdateOK(store, k, rec)
    BY <1>1, <1>7 DEF PromoteJob, Update
  <2>3. QED
    BY <2>1, <2>2 DEF UpdateOK, IsValidTransition
<1>8. QED
  BY <1>2, <1>3, <1>4, <1>5, <1>6, <1>7 DEF StoreWrite

\* The writers other than resultLoop leave an ended job alone and end none but
\* by cancelling it.
LEMMA OtherWriters ==
    ASSUME TypeOK, StoreWrite, ~(CompleteJob \/ RetryJob \/ FailJob),
           NEW k \in Jobs, store'[k] # store[k]
    PROVE  store'[k].Status \in {"Pending", "Scheduled", "Cancelled"}
<1>1. store \in [Jobs -> JobRecord] /\ lCopy \in JobRecord
  BY DEF TypeOK, StoreType, DelayType
<1>2. ASSUME NEW j \in Jobs, SubmitJob(j) \/ SubmitJobAt(j) \/ CancelJob(j)
      PROVE  store'[k].Status \in {"Pending", "Scheduled", "Cancelled"}
  BY SMT, <1>1, <1>2 DEF SubmitJob, SubmitJobAt, Add, NewJob, CancelJob, JobRecord
<1>3. CASE PromoteJob
  BY <1>1, <1>3 DEF PromoteJob, Update, JobRecord
<1>4. QED
  BY <1>2, <1>3 DEF StoreWrite

\* resultLoop's variables change in its own steps and in a restart only.
LEMMA ResultVarsWriters == [Next]_vars => UNCHANGED rVars \/ HandleResult \/ Restart
<1> SUFFICES ASSUME [Next]_vars PROVE UNCHANGED rVars \/ HandleResult \/ Restart
  OBVIOUS
<1>1. ASSUME NEW j \in Jobs, SubmitJob(j) \/ SubmitJobAt(j) \/ EnqueueSubmitted(j)
                                \/ EnqueueSubmittedAt(j) \/ CancelJob(j)
      PROVE  UNCHANGED rVars
  BY <1>1 DEF SubmitJob, SubmitJobAt, Add, EnqueueSubmitted, EnqueueSubmittedAt,
     CancelJob, sOthers
<1>2. CASE Dispatch
  BY <1>2 DEF Dispatch, DispatchDequeue, SkipTerminal, NoWorkerAvailable,
     SelectWorker, Acquire, DeliverJob, SubmitOK, SubmitError, dOthers
<1>3. CASE ProcessDelayed
  BY <1>3 DEF ProcessDelayed, PeekDelayed, GetDelayed, DequeueDelayed,
     PromoteJob, EnqueuePromoted, lOthers
<1>4. CASE Recover
  BY <1>4 DEF Recover, ReleaseByWorker, CheckReleased, EnqueueRecovered, vOthers
<1>5. ASSUME NEW w \in Workers, WorkerStep(w)
      PROVE  UNCHANGED rVars
  BY <1>5 DEF WorkerStep, StartWorker, RegisterWorker, Register, CrashWorker,
                        ReportResult, LoseResult,
     Heartbeat, Timeout, Evict, Remove, wOthers
<1>6. CASE Snapshot \/ UNCHANGED vars
  BY <1>6 DEF Snapshot, vars
<1>7. QED
  BY <1>1, <1>2, <1>3, <1>4, <1>5, <1>6 DEF Next

\* What FSM.Restore puts into the store.
LEMMA RestoreEffect ==
    ASSUME TypeOK, Restart, NEW k \in Jobs
    PROVE  /\ store'[k] \in {store[k], snapshot[k]}
           /\ store'[k].Status = "None" => store'[k] = store[k]
<1>1. store' = Restored
  BY DEF Restart
<1>2. CASE raft
  BY <1>1, <1>2 DEF Restored, Snapshotted
<1>3. CASE ~raft
  BY <1>1, <1>3 DEF Restored
<1>4. QED
  BY <1>2, <1>3

\* The configuration is fixed, and nothing but FSM.Snapshot writes a snapshot.
LEMMA RaftWriters == [Next]_vars => raft' = raft /\ (UNCHANGED snapshot \/ Snapshot)
<1> SUFFICES ASSUME [Next]_vars PROVE raft' = raft /\ (UNCHANGED snapshot \/ Snapshot)
  OBVIOUS
<1>1. ASSUME NEW j \in Jobs, SubmitJob(j) \/ SubmitJobAt(j) \/ EnqueueSubmitted(j)
                                \/ EnqueueSubmittedAt(j) \/ CancelJob(j)
      PROVE  UNCHANGED <<snapshot, raft>>
  BY <1>1 DEF SubmitJob, SubmitJobAt, Add, EnqueueSubmitted, EnqueueSubmittedAt,
     CancelJob, sOthers, keptVars
<1>2. CASE Dispatch
  BY <1>2 DEF Dispatch, DispatchDequeue, SkipTerminal, NoWorkerAvailable,
     SelectWorker, DeliverJob, SubmitOK, SubmitError, dOthers, keptVars
<1>3. CASE HandleResult
  BY <1>3 DEF HandleResult, ReceiveResult, ReleaseLease, CompleteJob, RetryJob,
     EnqueueRetry, FailJob, AddDLQ, keptVars
<1>4. CASE ProcessDelayed
  BY <1>4 DEF ProcessDelayed, PeekDelayed, GetDelayed, DequeueDelayed,
     PromoteJob, EnqueuePromoted, lOthers, keptVars
<1>5. CASE Recover
  BY <1>5 DEF Recover, ReleaseByWorker, CheckReleased, EnqueueRecovered, vOthers,
     keptVars
<1>6. ASSUME NEW w \in Workers, WorkerStep(w)
      PROVE  UNCHANGED <<snapshot, raft>>
  BY <1>6 DEF WorkerStep, StartWorker, CrashWorker, ReportResult, LoseResult,
     Heartbeat, Timeout, Evict, wOthers, keptVars
<1>7. CASE Snapshot \/ Restart \/ UNCHANGED vars
  BY <1>7 DEF Snapshot, Restart, vars, keptVars
<1>8. QED
  BY <1>1, <1>2, <1>3, <1>4, <1>5, <1>6, <1>7 DEF Next

\* Without Raft among the configurations the node runs without it.
LEMMA NoRaft ==
    ASSUME TypeOK, TRUE \notin RaftModes
    PROVE  ~raft
BY RaftModesType DEF TypeOK, StoreType

---------------------------------------------------------------------------
\* The failed jobs of the snapshot have spent their retries too.
SnapshotExhausted ==
    \A j \in Jobs : snapshot[j].Status = "Failed" => snapshot[j].RetryCount = MaxRetries

\* resultLoop gives a job up only with its retry budget spent, and no other
\* step fails a job.
LEMMA NextFailedExhausted ==
    TypeOK /\ FailedExhausted /\ SnapshotExhausted /\ [Next]_vars => FailedExhausted'
<1> SUFFICES ASSUME TypeOK, FailedExhausted, SnapshotExhausted, [Next]_vars,
                    NEW k \in Jobs, store'[k].Status = "Failed"
             PROVE  store'[k].RetryCount = MaxRetries
  BY DEF FailedExhausted
<1>1. CASE store'[k] = store[k]
  BY <1>1 DEF FailedExhausted
<1>2. CASE StoreWrite /\ store'[k] # store[k]
  <2>1. store'[k].RetryCount = rCopy.RetryCount /\ ~ShouldRetry(rCopy)
    BY <1>2, StoreWriteEffect
  <2>2. rCopy \in JobRecord
    BY DEF TypeOK, ResultType
  <2>3. QED
    BY SMT, <2>1, <2>2, MaxRetriesNat DEF ShouldRetry, JobRecord
<1>3. CASE Restart
  BY <1>3, RestoreEffect DEF FailedExhausted, SnapshotExhausted
<1>4. QED
  BY <1>1, <1>2, <1>3, StoreWriters

\* A job is failed (the last branch of resultLoop) only when its recorded
\* RetryCount has reached MaxRetries, in every interleaving of the loops, and on a
\* Raft node after a restored snapshot too.
THEOREM RetriesExhausted == Spec => []FailedExhausted
<1>1. Init => FailedExhausted /\ SnapshotExhausted
  BY SMT DEF Init, FailedExhausted, SnapshotExhausted, Absent
<1>2. FailedExhausted /\ SnapshotExhausted /\ [Next]_vars => SnapshotExhausted'
  <2> SUFFICES ASSUME FailedExhausted, SnapshotExhausted, [Next]_vars
               PROVE  SnapshotExhausted'
    OBVIOUS
  <2>1. CASE UNCHANGED snapshot
    BY <2>1 DEF SnapshotExhausted
  <2>2. CASE Snapshot
    BY <2>2 DEF Snapshot, FailedExhausted, SnapshotExhausted
  <2>3. QED
    BY <2>1, <2>2, RaftWriters
<1>3. QED
  BY <1>1, <1>2, TypeCorrect, NextFailedExhausted, PTL DEF Spec

---------------------------------------------------------------------------
\* resultLoop's copy of a job that has ended is the stored record.
LEMMA NextResultCopyFresh ==
    TypeOK /\ ResultCopyFresh /\ [Next]_vars => ResultCopyFresh'
<1> SUFFICES ASSUME TypeOK, ResultCopyFresh, [Next]_vars,
                    (rPc \in {"fetched", "released"})',
                    (store[rResult.JobID].Status \in {"Completed", "Failed"})'
             PROVE  (rCopy = store[rResult.JobID])'
  BY DEF ResultCopyFresh
<1>1. CASE UNCHANGED rVars
  <2>1. rPc \in {"fetched", "released"} /\ rResult' = rResult /\ rCopy' = rCopy
    BY <1>1 DEF rVars
  <2>2. rResult.JobID \in Jobs
    BY <2>1 DEF TypeOK, ResultType, Result
  <2>3. store'[rResult.JobID] = store[rResult.JobID]
    <3> SUFFICES ASSUME store'[rResult.JobID] # store[rResult.JobID]
                 PROVE  FALSE
      OBVIOUS
    <3>1. StoreWrite
      BY <2>1, StoreWriters DEF Restart, rDone
    <3>2. store'[rResult.JobID].Status \in {"Completed", "Failed"}
      BY <2>1
    <3>3. ~(CompleteJob \/ RetryJob \/ FailJob)
      BY <1>1 DEF CompleteJob, RetryJob, FailJob, rDone, rVars
    <3>4. QED
      BY <2>2, <3>1, <3>2, <3>3, OtherWriters
  <2>4. QED
    BY <2>1, <2>3 DEF ResultCopyFresh
<1>2. CASE HandleResult
  <2>1. ReceiveResult \/ ReleaseLease
    BY <1>2 DEF HandleResult, CompleteJob, RetryJob, EnqueueRetry, FailJob, AddDLQ,
       rDone
  <2>2. CASE ReceiveResult
    BY <2>2 DEF ReceiveResult
  <2>3. CASE ReleaseLease
    BY <2>3 DEF ReleaseLease, rDone, ResultCopyFresh
  <2>4. QED
    BY <2>1, <2>2, <2>3
<1>3. CASE Restart
  BY <1>3 DEF Restart, rDone
<1>4. QED
  BY <1>1, <1>2, <1>3, ResultVarsWriters

\* Whenever resultLoop is about to act on a job that has ended, its copy of the
\* job (the Store.Get before the lease check) is the record in the store.
THEOREM ResultCopyIsFresh == Spec => []ResultCopyFresh
<1>1. Init => ResultCopyFresh
  BY DEF Init, ResultCopyFresh
<1>2. QED
  BY <1>1, TypeCorrect, NextResultCopyFresh, PTL DEF Spec

\* Ended jobs stay as they are: IsValidTransition rejects every other status,
\* and writing back resultLoop's copy of an ended job changes neither its status
\* nor its retry count.
LEMMA NextTerminalStable ==
    ASSUME TypeOK, ResultCopyFresh, [Next]_vars, ~(raft /\ Restart),
           NEW k \in Jobs, store[k].Status \in Terminal
    PROVE  store'[k].Status = store[k].Status /\ store'[k].RetryCount = store[k].RetryCount
<1>1. CASE store'[k] = store[k]
  BY <1>1
<1>2. CASE store'[k] # store[k]
  <2>1. StoreWrite
    BY <1>2, StoreWriters
  <2>2. /\ rPc = "released" /\ k = rResult.JobID
        /\ store'[k].Status \in {"Completed", "Failed"}
        /\ store[k].Status = store'[k].Status
        /\ store'[k].RetryCount = rCopy.RetryCount
    BY <1>2, <2>1, StoreWriteEffect DEF Terminal
  <2>3. rCopy = store[k]
    BY <2>2 DEF ResultCopyFresh
  <2>4. QED
    BY <2>2, <2>3
<1>3. QED
  BY <1>1, <1>2

\* A completed, failed or cancelled job keeps its status and its retry count,
\* whatever late results, stale copies and recoveries follow, and on a node without
\* Raft whatever restarts; on a Raft node a restart may put an older record back.
THEOREM EndedJobsNeverChange == Spec => TerminalStable
<1>1. TypeOK /\ ResultCopyFresh /\ [Next]_vars =>
        [\A j \in Jobs : store[j].Status \in Terminal =>
            \/ /\ store'[j].Status = store[j].Status
               /\ store'[j].RetryCount = store[j].RetryCount
            \/ raft /\ Restart]_vars
  BY NextTerminalStable
<1>2. QED
  BY <1>1, TypeCorrect, ResultCopyIsFresh, PTL DEF Spec, TerminalStable

---------------------------------------------------------------------------
(***************************************************************************)
(* PendingCustody.  One lemma per process; in each the goal is custody of  *)
(* one job k that is pending after the step.                               *)
(***************************************************************************)

\* Custody rests on these variables only.
LEMMA CustodyStable ==
    ASSUME NEW k \in Jobs, InCustody(k),
           UNCHANGED <<pq, lease, toPQ, dVars, rVars, lVars, vVars>>
    PROVE  InCustody(k)'
BY DEF InCustody, dVars, rVars, lVars, vVars

\* A submitted job passes from its submitter to the priority queue.
LEMMA EngineCustody ==
    ASSUME TypeOK, PendingCustody, ~raft, NEW k \in Jobs,
           store'[k].Status = "Pending", NEW j \in Jobs,
           SubmitJob(j) \/ SubmitJobAt(j) \/ EnqueueSubmitted(j)
              \/ EnqueueSubmittedAt(j) \/ CancelJob(j)
    PROVE  InCustody(k)'
<1> USE DEF PendingCustody
<1>0. store \in [Jobs -> JobRecord] /\ pq \in [Jobs -> Nat]
  BY DEF TypeOK, StoreType, QueueType
<1>1. CASE SubmitJob(j)
  <2>1. CASE k = j
    BY <1>1, <2>1 DEF SubmitJob, InCustody
  <2>2. CASE k # j
    <3>1. InCustody(k)
      BY <1>0, <1>1, <2>2 DEF SubmitJob, Add
    <3>2. QED
      BY <1>1, <3>1 DEF SubmitJob, Add, InCustody, dVars, rVars, lVars, vVars
  <2>3. QED
    BY <2>1, <2>2
<1>2. CASE SubmitJobAt(j)
  <2>1. InCustody(k)
    BY <1>0, <1>2 DEF SubmitJobAt, Add, NewJob
  <2>2. QED
    BY <1>2, <2>1, CustodyStable DEF SubmitJobAt, Add
<1>3. CASE EnqueueSubmitted(j)
  <2>1. InCustody(k)
    BY <1>3 DEF EnqueueSubmitted, sOthers
  <2>2. QED
    BY SMT, <1>0, <1>3, <2>1
    DEF EnqueueSubmitted, PushPQ, sOthers, InCustody, dVars, rVars, lVars, vVars
<1>4. CASE EnqueueSubmittedAt(j)
  BY <1>4, CustodyStable DEF EnqueueSubmittedAt, sOthers
<1>5. CASE CancelJob(j)
  <2>1. InCustody(k)
    BY <1>0, <1>5 DEF CancelJob, JobRecord
  <2>2. QED
    BY <1>5, <2>1, CustodyStable DEF CancelJob, queueVars
<1>6. QED
  BY <1>1, <1>2, <1>3, <1>4, <1>5

\* dispatchLoop puts a job back or leases it before it lets go of it.
LEMMA DispatchCustody ==
    ASSUME TypeOK, PendingCustody, ~raft, NEW k \in Jobs, store'[k].Status = "Pending",
           Dispatch
    PROVE  InCustody(k)'
<1>0. pq \in [Jobs -> Nat] /\ lease \in [Jobs -> Lease] /\ (dPc # "idle" => dJob \in Jobs)
  BY DEF TypeOK, StoreType, QueueType, DispatchType
<1>1. store' = store
  BY DEF Dispatch, DispatchDequeue, SkipTerminal, NoWorkerAvailable,
     SelectWorker, Acquire, DeliverJob, SubmitOK, SubmitError
<1>2. InCustody(k)
  BY <1>1 DEF PendingCustody
<1>3. ASSUME NEW j \in Jobs, DispatchDequeue(j)
      PROVE  InCustody(k)'
  BY <1>0, <1>2, <1>3 DEF DispatchDequeue, dOthers, InCustody, rVars, lVars, vVars
<1>4. ASSUME NEW j \in Jobs, SkipTerminal(j)
      PROVE  InCustody(k)'
  <2>1. k # j
    BY <1>1, <1>4 DEF SkipTerminal, Terminal
  <2>2. QED
    BY <1>0, <1>2, <1>4, <2>1
    DEF SkipTerminal, dOthers, InCustody, dVars, rVars, lVars, vVars
<1>5. CASE NoWorkerAvailable
  BY SMT, <1>0, <1>2, <1>5
  DEF NoWorkerAvailable, PushPQ, dDone, dOthers, InCustody, rVars, lVars, vVars
<1>6. ASSUME NEW i \in 1 .. Len(available), SelectWorker(i)
      PROVE  InCustody(k)'
  <2>1. available[i] \in Workers /\ dJob \in Jobs
    BY SMT, <1>0, <1>6 DEF SelectWorker, Acquire, TypeOK, PoolType
  <2>2. lease'[dJob] # NoLease
    BY <1>0, <1>6, <2>1, NoWorkerFresh DEF SelectWorker, Acquire, NoLease
  <2>3. k # dJob => lease'[k] = lease[k]
    BY <1>0, <1>6, <2>1 DEF SelectWorker, Acquire
  <2>4. QED
    BY <1>2, <1>6, <2>2, <2>3
    DEF SelectWorker, Acquire, dOthers, InCustody, rVars, lVars, vVars
<1>7. CASE DeliverJob \/ SubmitOK
  BY <1>2, <1>7
  DEF DeliverJob, SubmitOK, dDone, dOthers, InCustody, rVars, lVars, vVars
<1>8. CASE SubmitError
  <2>1. dJob \in Jobs
    BY <1>0, <1>8 DEF SubmitError
  <2>2. QED
    BY SMT, <1>0, <1>2, <1>8, <2>1
    DEF SubmitError, PushPQ, dDone, dOthers, InCustody, rVars, lVars, vVars
<1>9. QED
  BY <1>3, <1>4, <1>5, <1>6, <1>7, <1>8 DEF Dispatch

\* resultLoop's update of a pending job always succeeds and moves it on.
LEMMA HandleResultCustody ==
    ASSUME TypeOK, PendingCustody, ~raft, NEW k \in Jobs, store'[k].Status = "Pending",
           HandleResult
    PROVE  InCustody(k)'
<1>0. /\ store \in [Jobs -> JobRecord] /\ lease \in [Jobs -> Lease]
      /\ rCopy \in JobRecord
      /\ rPc # "idle" => rResult.JobID \in Jobs
  BY DEF TypeOK, StoreType, ResultType, Result
<1>1. CASE ReceiveResult
  <2>1. InCustody(k)
    BY <1>1 DEF ReceiveResult, PendingCustody
  <2>2. QED
    BY <1>1, <2>1 DEF ReceiveResult, rOthers, InCustody, dVars, lVars, vVars
<1>2. CASE ReleaseLease
  <2>1. InCustody(k)
    BY <1>2 DEF ReleaseLease, PendingCustody
  <2>2. CASE IsStale
    BY <1>2, <2>1, <2>2
    DEF ReleaseLease, rDone, rOthers, InCustody, dVars, lVars, vVars
  <2>3. CASE ~IsStale
    BY <1>0, <1>2, <2>1, <2>3
    DEF ReleaseLease, rOthers, InCustody, dVars, lVars, vVars
  <2>4. QED
    BY <2>2, <2>3
<1>3. CASE CompleteJob \/ RetryJob \/ FailJob
  <2>1. PICK rec \in [Status : {"Completed", "Scheduled", "Failed"}, RetryCount : Nat] :
            store' = Update(store, rResult.JobID, rec)
    <3>1. CASE CompleteJob
      <4>1. [rCopy EXCEPT !.Status = "Completed"]
               \in [Status : {"Completed", "Scheduled", "Failed"}, RetryCount : Nat]
        BY SMT, <1>0, MaxRetriesNat DEF JobRecord
      <4>2. QED
        BY <3>1, <4>1 DEF CompleteJob
    <3>2. CASE RetryJob
      <4>1. [Status |-> "Scheduled", RetryCount |-> rCopy.RetryCount + 1]
               \in [Status : {"Completed", "Scheduled", "Failed"}, RetryCount : Nat]
        BY SMT, <1>0, MaxRetriesNat DEF JobRecord
      <4>2. QED
        BY <3>2, <4>1 DEF RetryJob
    <3>3. CASE FailJob
      <4>1. [rCopy EXCEPT !.Status = "Failed"]
               \in [Status : {"Completed", "Scheduled", "Failed"}, RetryCount : Nat]
        BY SMT, <1>0, MaxRetriesNat DEF JobRecord
      <4>2. QED
        BY <3>3, <4>1 DEF FailJob
    <3>4. QED
      BY <1>3, <3>1, <3>2, <3>3
  <2>2. rResult.JobID \in Jobs
    BY <1>0, <1>3 DEF CompleteJob, RetryJob, FailJob
  <2>3. k # rResult.JobID
    <3> SUFFICES ASSUME k = rResult.JobID PROVE FALSE
      OBVIOUS
    <3>1. CASE UpdateOK(store, k, rec)
      BY <1>0, <2>1, <3>1 DEF Update
    <3>2. CASE ~UpdateOK(store, k, rec)
      BY <1>0, <2>1, <3>2 DEF Update, UpdateOK, IsValidTransition, Status
    <3>3. QED
      BY <3>1, <3>2
  <2>4. InCustody(k)
    BY <1>0, <2>1, <2>2, <2>3 DEF Update, PendingCustody
  <2>5. QED
    BY <1>3, <2>3, <2>4
    DEF CompleteJob, RetryJob, FailJob, rDone, rOthers, InCustody, dVars, lVars, vVars
<1>4. CASE EnqueueRetry \/ AddDLQ
  <2>1. InCustody(k)
    BY <1>4 DEF EnqueueRetry, AddDLQ, PendingCustody
  <2>2. QED
    BY <1>4, <2>1
    DEF EnqueueRetry, AddDLQ, rDone, rOthers, InCustody, dVars, lVars, vVars
<1>5. QED
  BY <1>1, <1>2, <1>3, <1>4 DEF HandleResult

\* delayLoop holds a job from the update that makes it pending to its enqueue.
LEMMA ProcessDelayedCustody ==
    ASSUME TypeOK, PendingCustody, ~raft, NEW k \in Jobs, store'[k].Status = "Pending",
           ProcessDelayed
    PROVE  InCustody(k)'
<1>0. /\ store \in [Jobs -> JobRecord] /\ pq \in [Jobs -> Nat]
      /\ lPc # "idle" => lJob \in Jobs
  BY DEF TypeOK, StoreType, QueueType, DelayType
<1>1. CASE PeekDelayed \/ GetDelayed \/ DequeueDelayed
  <2>1. InCustody(k)
    BY <1>1 DEF PeekDelayed, GetDelayed, DequeueDelayed, PendingCustody
  <2>2. QED
    BY <1>1, <2>1
    DEF PeekDelayed, GetDelayed, DequeueDelayed, lOthers, InCustody, dVars, rVars, vVars
<1>2. CASE PromoteJob
  <2> DEFINE rec == [lCopy EXCEPT !.Status = "Pending"]
  <2>1. CASE k = lJob /\ UpdateOK(store, lJob, rec)
    BY <1>2, <2>1 DEF PromoteJob, InCustody
  <2>2. CASE ~(k = lJob /\ UpdateOK(store, lJob, rec))
    <3>1. InCustody(k)
      BY <1>0, <1>2, <2>2 DEF PromoteJob, Update, PendingCustody
    <3>2. QED
      BY <1>2, <3>1 DEF PromoteJob, lDone, lOthers, InCustody, dVars, rVars, vVars
  <2>3. QED
    BY <2>1, <2>2
<1>3. CASE EnqueuePromoted
  <2>1. InCustody(k)
    BY <1>3 DEF EnqueuePromoted, PendingCustody
  <2>2. QED
    BY SMT, <1>0, <1>3, <2>1
    DEF EnqueuePromoted, PushPQ, lDone, lOthers, InCustody, dVars, rVars, vVars
<1>4. QED
  BY <1>1, <1>2, <1>3 DEF ProcessDelayed

\* recoveryLoop holds the jobs whose leases it released until it has enqueued
\* those that are pending, and starts with the next worker only then.
LEMMA RecoverCustody ==
    ASSUME TypeOK, PendingCustody, ~raft, NEW k \in Jobs, store'[k].Status = "Pending",
           Recover
    PROVE  InCustody(k)'
<1>0. pq \in [Jobs -> Nat] /\ lease \in [Jobs -> Lease] /\ vJob \in Jobs \cup {NoJob}
  BY DEF TypeOK, StoreType, QueueType, RecoveryType
<1>1. store' = store
  BY DEF Recover, ReleaseByWorker, CheckReleased, EnqueueRecovered, vOthers
<1>2. InCustody(k)
  BY <1>1 DEF PendingCustody
<1>3. CASE ReleaseByWorker
  BY <1>0, <1>2, <1>3, NoJobFresh
  DEF ReleaseByWorker, vOthers, InCustody, dVars, rVars, lVars
<1>4. ASSUME NEW j \in Jobs, CheckReleased(j)
      PROVE  InCustody(k)'
  BY <1>1, <1>2, <1>4, NoJobFresh
  DEF CheckReleased, vOthers, InCustody, dVars, rVars, lVars
<1>5. CASE EnqueueRecovered
  BY SMT, <1>0, <1>2, <1>5
  DEF EnqueueRecovered, PushPQ, vOthers, InCustody, dVars, rVars, lVars
<1>6. QED
  BY <1>3, <1>4, <1>5 DEF Recover

\* No step of a worker or of the registry touches what custody rests on.
LEMMA WorkerCustody ==
    ASSUME PendingCustody, ~raft, NEW k \in Jobs, store'[k].Status = "Pending",
           NEW w \in Workers, WorkerStep(w)
    PROVE  InCustody(k)'
<1>1. UNCHANGED wOthers
  BY DEF WorkerStep, StartWorker, RegisterWorker, Register, CrashWorker,
                        ReportResult, LoseResult,
     Heartbeat, Timeout, Evict, Remove
<1>2. QED
  BY <1>1, CustodyStable DEF wOthers, queueVars, PendingCustody

\* RebuildQueuesFromStore enqueues every pending job.
LEMMA RestartCustody ==
    ASSUME NEW k \in Jobs, store'[k].Status = "Pending", Restart
    PROVE  InCustody(k)'
<1>1. Restored[k].Status = "Pending"
  BY DEF Restart
<1>2. PICK stale \in SUBSET Snapshotted : pq' = Rebuilt("Pending", stale)
  BY DEF Restart
<1>3. pq'[k] = 2
  BY <1>1, <1>2 DEF Rebuilt
<1>4. QED
  BY SMT, <1>3 DEF InCustody

\* Every step of the control node and of the workers keeps pending jobs in custody.
LEMMA NextPendingCustody == TypeOK /\ PendingCustody /\ [Next]_vars => PendingCustody'
<1> SUFFICES ASSUME TypeOK, PendingCustody, [Next]_vars, ~raft',
                    NEW k \in Jobs, store'[k].Status = "Pending"
             PROVE  InCustody(k)'
  BY DEF PendingCustody
<1>0. ~raft
  BY RaftWriters
<1>1. CASE Next
  BY <1>0, <1>1, EngineCustody, DispatchCustody, HandleResultCustody,
     ProcessDelayedCustody, RecoverCustody, WorkerCustody, RestartCustody DEF Next, Snapshot
<1>2. CASE UNCHANGED vars
  BY <1>0, <1>2, CustodyStable DEF vars, queueVars, PendingCustody
<1>3. QED
  BY <1>1, <1>2

\* On a node without Raft no pending job is ever dropped by the engine and the
\* scheduler's loops, whatever worker crashes, false suspicions, failed RPCs,
\* evictions and restarts of the control node.
THEOREM PendingNeverDropped == Spec => []PendingCustody
<1>1. Init => PendingCustody
  BY SMT DEF Init, PendingCustody, Absent
<1>2. QED
  BY <1>1, TypeCorrect, NextPendingCustody, PTL DEF Spec
---------------------------------------------------------------------------
(***************************************************************************)
(* OnlyStoredJobs.  A job k the store does not hold after a step was not   *)
(* held before it, and hence nothing referred to it.                       *)
(***************************************************************************)

\* The variables Unreferenced looks at.
refVars == <<pq, dq, toPQ, toDQ, lease, dJob, rResult, lJob, vVars, exec, results>>

\* No job leaves the store.
LEMMA StoreKeepsJobs ==
    ASSUME TypeOK, [Next]_vars, NEW k \in Jobs, store'[k].Status = "None"
    PROVE  store[k].Status = "None" /\ store'[k] = store[k]
<1>1. CASE store'[k] = store[k]
  BY <1>1
<1>2. CASE store'[k] # store[k]
  <2>1. StoreWrite
    BY <1>2, StoreWriters, RestoreEffect
  <2>2. store'[k].Status # "None"
    BY <1>2, <2>1, StoreWriteEffect
  <2>3. QED
    BY <2>2
<1>3. QED
  BY <1>1, <1>2

\* Steps that leave the references alone.
LEMMA RefsStable ==
    ASSUME NEW k \in Jobs, Unreferenced(k), UNCHANGED refVars
    PROVE  Unreferenced(k)'
BY DEF Unreferenced, refVars, vVars

\* A submitter enqueues what it added.
LEMMA EngineRefs ==
    ASSUME TypeOK, NEW k \in Jobs, Unreferenced(k), store'[k].Status = "None",
           NEW j \in Jobs,
           SubmitJob(j) \/ SubmitJobAt(j) \/ EnqueueSubmitted(j)
              \/ EnqueueSubmittedAt(j) \/ CancelJob(j)
    PROVE  Unreferenced(k)'
<1>0. store \in [Jobs -> JobRecord] /\ pq \in [Jobs -> Nat] /\ dq \in [Jobs -> Nat]
  BY DEF TypeOK, StoreType, QueueType
<1>1. CASE SubmitJob(j)
  <2>1. k # j
    BY <1>0, <1>1 DEF SubmitJob, Add, NewJob
  <2>2. QED
    BY <1>1, <2>1 DEF SubmitJob, Add, Unreferenced, dVars, rVars, lVars, vVars, nodeVars
<1>2. CASE SubmitJobAt(j)
  <2>1. k # j
    BY <1>0, <1>2 DEF SubmitJobAt, Add, NewJob
  <2>2. QED
    BY <1>2, <2>1 DEF SubmitJobAt, Add, Unreferenced, dVars, rVars, lVars, vVars, nodeVars
<1>3. CASE EnqueueSubmitted(j)
  BY <1>0, <1>3
  DEF EnqueueSubmitted, PushPQ, sOthers, Unreferenced, dVars, rVars, lVars, vVars, nodeVars
<1>4. CASE EnqueueSubmittedAt(j)
  BY <1>0, <1>4
  DEF EnqueueSubmittedAt, PushDQ, sOthers, Unreferenced, dVars, rVars, lVars, vVars, nodeVars
<1>5. CASE CancelJob(j)
  BY <1>5, RefsStable
  DEF CancelJob, queueVars, refVars, dVars, rVars, lVars, vVars, nodeVars
<1>6. QED
  BY <1>1, <1>2, <1>3, <1>4, <1>5

\* dispatchLoop handles what it dequeued.
LEMMA DispatchRefs ==
    ASSUME TypeOK, NEW k \in Jobs, Unreferenced(k), Dispatch
    PROVE  Unreferenced(k)'
<1>0. /\ pq \in [Jobs -> Nat] /\ lease \in [Jobs -> Lease]
      /\ exec \in [Workers -> [Jobs -> Nat]]
      /\ dPc # "idle" => dJob \in Jobs
  BY DEF TypeOK, StoreType, QueueType, DispatchType, NodeType
<1>1. ASSUME NEW j \in Jobs, DispatchDequeue(j) \/ SkipTerminal(j)
      PROVE  Unreferenced(k)'
  <2>1. j # k
    BY SMT, <1>0, <1>1 DEF DispatchDequeue, SkipTerminal, Unreferenced
  <2>2. CASE DispatchDequeue(j)
    BY <1>0, <2>1, <2>2
    DEF DispatchDequeue, dOthers, Unreferenced, rVars, lVars, vVars, nodeVars
  <2>3. CASE SkipTerminal(j)
    BY <1>0, <2>1, <2>3
    DEF SkipTerminal, dOthers, Unreferenced, dVars, rVars, lVars, vVars, nodeVars
  <2>4. QED
    BY <1>1, <2>2, <2>3
<1>2. CASE NoWorkerAvailable
  BY <1>0, <1>2, NoJobFresh
  DEF NoWorkerAvailable, PushPQ, dDone, dOthers, Unreferenced, rVars, lVars, vVars, nodeVars
<1>3. ASSUME NEW i \in 1 .. Len(available), SelectWorker(i)
      PROVE  Unreferenced(k)'
  BY <1>0, <1>3
  DEF SelectWorker, Acquire, dOthers, Unreferenced, rVars, lVars, vVars, nodeVars
<1>4. CASE DeliverJob
  <2>1. dJob \in Jobs /\ dJob # k
    BY <1>0, <1>4 DEF DeliverJob, Unreferenced
  <2>2. ASSUME NEW w \in Workers PROVE exec'[w][k] = 0
    BY <1>0, <1>4, <2>1 DEF DeliverJob, Unreferenced
  <2>3. QED
    BY <1>4, <2>2 DEF DeliverJob, dOthers, Unreferenced, rVars, lVars, vVars
<1>5. CASE SubmitOK
  BY <1>5, NoJobFresh
  DEF SubmitOK, dDone, dOthers, Unreferenced, rVars, lVars, vVars, nodeVars
<1>6. CASE SubmitError
  BY <1>0, <1>6, NoJobFresh
  DEF SubmitError, PushPQ, dDone, dOthers, Unreferenced, rVars, lVars, vVars, nodeVars
<1>7. QED
  BY <1>1, <1>2, <1>3, <1>4, <1>5, <1>6 DEF Dispatch

\* resultLoop handles the job of the result it received.
LEMMA HandleResultRefs ==
    ASSUME TypeOK, NEW k \in Jobs, Unreferenced(k), HandleResult
    PROVE  Unreferenced(k)'
<1>0. /\ dq \in [Jobs -> Nat] /\ lease \in [Jobs -> Lease]
      /\ results \in Seq(Result)
      /\ NoResult.JobID # k
  BY NoJobFresh DEF TypeOK, StoreType, QueueType, PoolType, NoResult
<1>1. CASE ReceiveResult
  <2>1. Head(results).JobID # k
    BY SMT, <1>0, <1>1 DEF ReceiveResult, Unreferenced
  <2>2. \A i \in 1 .. Len(results') : results'[i].JobID # k
    BY SMT, <1>0, <1>1 DEF ReceiveResult, Unreferenced
  <2>3. QED
    BY <1>1, <2>1, <2>2
    DEF ReceiveResult, rOthers, Unreferenced, dVars, lVars, vVars, nodeVars
<1>2. CASE ReleaseLease
  BY <1>0, <1>2
  DEF ReleaseLease, rDone, rOthers, Unreferenced, dVars, lVars, vVars, nodeVars
<1>3. CASE CompleteJob \/ RetryJob \/ FailJob \/ AddDLQ
  BY <1>0, <1>3
  DEF CompleteJob, RetryJob, FailJob, AddDLQ, rDone, rOthers, Unreferenced, dVars,
      lVars, vVars, nodeVars
<1>4. CASE EnqueueRetry
  BY <1>0, <1>4
  DEF EnqueueRetry, PushDQ, rDone, rOthers, Unreferenced, dVars, lVars, vVars, nodeVars
<1>5. QED
  BY <1>1, <1>2, <1>3, <1>4 DEF HandleResult

\* delayLoop handles the job at the root of the delay queue.
LEMMA ProcessDelayedRefs ==
    ASSUME TypeOK, NEW k \in Jobs, Unreferenced(k), ProcessDelayed
    PROVE  Unreferenced(k)'
<1>0. /\ dq \in [Jobs -> Nat] /\ pq \in [Jobs -> Nat]
      /\ dqHead # NoJob => dq[dqHead] > 0
  BY DEF TypeOK, QueueType
<1>1. CASE PeekDelayed \/ GetDelayed
  BY SMT, <1>0, <1>1
  DEF PeekDelayed, GetDelayed, lOthers, Unreferenced, dVars, rVars, vVars, nodeVars
<1>2. CASE DequeueDelayed
  <2>1. dq'[k] = 0
    <3>1. CASE dqHead = k
      BY SMT, <1>0, <3>1, NoJobFresh DEF Unreferenced
    <3>2. CASE dqHead # k
      BY <1>0, <1>2, <3>2 DEF DequeueDelayed, PopDQ, Unreferenced
    <3>3. QED
      BY <3>1, <3>2
  <2>2. QED
    BY <1>2, <2>1 DEF DequeueDelayed, lOthers, Unreferenced, dVars, rVars, vVars, nodeVars
<1>3. CASE PromoteJob
  BY <1>3, NoJobFresh
  DEF PromoteJob, lDone, lOthers, Unreferenced, dVars, rVars, vVars, nodeVars
<1>4. CASE EnqueuePromoted
  BY <1>0, <1>4, NoJobFresh
  DEF EnqueuePromoted, PushPQ, lDone, lOthers, Unreferenced, dVars, rVars, vVars, nodeVars
<1>5. QED
  BY <1>1, <1>2, <1>3, <1>4 DEF ProcessDelayed

\* recoveryLoop handles the jobs whose leases it released.
LEMMA RecoverRefs ==
    ASSUME TypeOK, NEW k \in Jobs, Unreferenced(k), Recover
    PROVE  Unreferenced(k)'
<1>0. /\ pq \in [Jobs -> Nat] /\ lease \in [Jobs -> Lease]
      /\ deadWorkers \in Seq(Workers)
  BY DEF TypeOK, StoreType, QueueType, PoolType
<1>1. CASE ReleaseByWorker
  <2>1. Head(deadWorkers) \in Workers
    BY SMT, <1>0, <1>1 DEF ReleaseByWorker
  <2>2. lease[k].WorkerID # Head(deadWorkers)
    BY SMT, <2>1, NoWorkerFresh DEF Unreferenced, NoLease
  <2>3. QED
    BY <1>0, <1>1, <2>2
    DEF ReleaseByWorker, vOthers, Unreferenced, dVars, rVars, lVars, nodeVars
<1>2. ASSUME NEW j \in Jobs, CheckReleased(j)
      PROVE  Unreferenced(k)'
  BY <1>2, NoJobFresh
  DEF CheckReleased, vOthers, Unreferenced, dVars, rVars, lVars, nodeVars
<1>3. CASE EnqueueRecovered
  BY <1>0, <1>3, NoJobFresh
  DEF EnqueueRecovered, PushPQ, vOthers, Unreferenced, dVars, rVars, lVars, nodeVars
<1>4. QED
  BY <1>1, <1>2, <1>3 DEF Recover

\* A worker reports on the jobs it executes.
LEMMA WorkerRefs ==
    ASSUME TypeOK, NEW k \in Jobs, Unreferenced(k), NEW w \in Workers, WorkerStep(w)
    PROVE  Unreferenced(k)'
<1>0. /\ results \in Seq(Result)
      /\ exec \in [Workers -> [Jobs -> Nat]]
  BY DEF TypeOK, PoolType, NodeType
<1>1. \A j \in Jobs : exec[w][j] > 0 => j # k
  BY SMT DEF Unreferenced
<1>2. CASE StartWorker(w) \/ Heartbeat(w) \/ Timeout(w) \/ Evict(w)
  BY <1>2, RefsStable
  DEF StartWorker, Heartbeat, Timeout, Evict, wOthers, queueVars, refVars, dVars,
      rVars, lVars, vVars, nodeVars
<1>3. CASE CrashWorker(w)
  <2>1. ASSUME NEW u \in Workers PROVE exec'[u][k] = 0
    BY <1>0, <1>3 DEF CrashWorker, NoExec, Unreferenced
  <2>2. QED
    BY ZenonT(60), <1>3, <2>1
    DEF CrashWorker, wOthers, queueVars, Unreferenced, dVars, rVars, lVars, vVars
<1>4. ASSUME NEW j \in Jobs, NEW success \in BOOLEAN, ReportResult(w, j, success)
      PROVE  Unreferenced(k)'
  <2>1. j # k
    BY <1>1, <1>4 DEF ReportResult
  <2>2. ASSUME NEW u \in Workers PROVE exec'[u][k] = 0
    BY <1>0, <1>4, <2>1 DEF ReportResult, Unreferenced
  <2>3. Outcome(w, j, success).JobID = j /\ Outcome(w, j, success) \in Result
    BY DEF Outcome, Result
  <2>4. \A i \in 1 .. Len(results') : results'[i].JobID # k
    BY SMT, <1>0, <1>4, <2>1, <2>3 DEF ReportResult, Unreferenced
  <2>5. QED
    BY <1>4, <2>2, <2>4
    DEF ReportResult, wOthers, queueVars, Unreferenced, dVars, rVars, lVars, vVars
<1>5. ASSUME NEW j \in Jobs, LoseResult(w, j)
      PROVE  Unreferenced(k)'
  <2>1. j # k
    BY <1>1, <1>5 DEF LoseResult
  <2>2. ASSUME NEW u \in Workers PROVE exec'[u][k] = 0
    BY <1>0, <1>5, <2>1 DEF LoseResult, Unreferenced
  <2>3. QED
    BY <1>5, <2>2
    DEF LoseResult, wOthers, queueVars, Unreferenced, dVars, rVars, lVars, vVars
<1>6. QED
  BY <1>2, <1>3, <1>4, <1>5 DEF WorkerStep

\* RebuildQueuesFromStore enqueues stored jobs only.
LEMMA RestartRefs ==
    ASSUME NEW k \in Jobs, store'[k].Status = "None", Unreferenced(k), Restart
    PROVE  Unreferenced(k)'
<1>1. pq'[k] = 0 /\ dq'[k] = 0
  <2>1. Restored[k].Status = "None"
    BY DEF Restart
  <2>2. k \notin Snapshotted
    BY <2>1 DEF Restored, Snapshotted
  <2>3. PICK stale \in SUBSET Snapshotted : pq' = Rebuilt("Pending", stale)
    BY DEF Restart
  <2>4. PICK late \in SUBSET Snapshotted : dq' = Rebuilt("Scheduled", late)
    BY DEF Restart
  <2>5. QED
    BY <2>1, <2>2, <2>3, <2>4 DEF Rebuilt
<1>2. k \notin (toPQ \cup toDQ)' /\ lease'[k] = NoLease
  BY DEF Restart
<1>3. dJob' # k /\ rResult'.JobID # k /\ lJob' # k /\ k \notin vSet' /\ vJob' # k
  BY NoJobFresh DEF Restart, dDone, rDone, lDone, NoResult
<1>4. results' = <<>> /\ exec' = exec
  BY DEF Restart, nodeVars
<1>5. \A i \in 1 .. Len(results') : results'[i].JobID # k
  BY SMT, <1>4
<1>6. \A w \in Workers : exec'[w][k] = 0
  BY <1>4 DEF Unreferenced
<1>7. QED
  BY <1>1, <1>2, <1>3, <1>5, <1>6 DEF Unreferenced, NoLease

\* At every moment whatever the queues, leases, loops, workers and results refer
\* to is in the store, whatever crashes, restarts, lost and late results.
THEOREM ReferencesStored == Spec => []OnlyStoredJobs
<1>1. Init => OnlyStoredJobs
  BY SMT, NoJobFresh
  DEF Init, OnlyStoredJobs, Unreferenced, NoExec, NoResult, NoLease
<1>2. TypeOK /\ OnlyStoredJobs /\ [Next]_vars => OnlyStoredJobs'
  <2> SUFFICES ASSUME TypeOK, OnlyStoredJobs, [Next]_vars,
                      NEW k \in Jobs, store'[k].Status = "None"
               PROVE  Unreferenced(k)'
    BY DEF OnlyStoredJobs
  <2>1. store[k].Status = "None" /\ Unreferenced(k)
    BY StoreKeepsJobs DEF OnlyStoredJobs
  <2>2. CASE Next /\ ~Snapshot
    BY <2>1, <2>2, EngineRefs, DispatchRefs, HandleResultRefs, ProcessDelayedRefs,
       RecoverRefs, WorkerRefs, RestartRefs DEF Next
  <2>3. CASE Snapshot \/ UNCHANGED vars
    BY <2>1, <2>3, RefsStable
    DEF Snapshot, vars, queueVars, refVars, dVars, rVars, lVars, vVars, nodeVars
  <2>4. QED
    BY <2>2, <2>3
<1>3. QED
  BY <1>1, <1>2, TypeCorrect, PTL DEF Spec

---------------------------------------------------------------------------
(***************************************************************************)
(* The scheduler implements JobLifecycle.  The dead-letter list DeadJobs   *)
(* returns is the store's bucket, and changes in AddDLQ only; every write  *)
(* of the store is a move of the lifecycle, restores a snapshot or changes *)
(* nothing.                                                                *)
(***************************************************************************)
\* The in-memory queue is lost in a restart; the bucket changes in AddDLQ only.
LEMMA DeadWriters == [Next]_vars => UNCHANGED dlq \/ AddDLQ
<1> SUFFICES ASSUME [Next]_vars PROVE UNCHANGED dlq \/ AddDLQ
  OBVIOUS
<1>1. ASSUME NEW j \in Jobs, SubmitJob(j) \/ SubmitJobAt(j) \/ EnqueueSubmitted(j)
                                \/ EnqueueSubmittedAt(j) \/ CancelJob(j)
      PROVE  UNCHANGED dlq
  BY <1>1 DEF SubmitJob, SubmitJobAt, Add, EnqueueSubmitted, EnqueueSubmittedAt,
     CancelJob, sOthers, keptVars
<1>2. CASE Dispatch
  BY <1>2 DEF Dispatch, DispatchDequeue, SkipTerminal, NoWorkerAvailable,
     SelectWorker, DeliverJob, SubmitOK, SubmitError, dOthers, keptVars
<1>3. CASE HandleResult
  BY <1>3 DEF HandleResult, ReceiveResult, ReleaseLease, CompleteJob, RetryJob,
     EnqueueRetry, FailJob, keptVars
<1>4. CASE ProcessDelayed
  BY <1>4 DEF ProcessDelayed, PeekDelayed, GetDelayed, DequeueDelayed,
     PromoteJob, EnqueuePromoted, lOthers, keptVars
<1>5. CASE Recover
  BY <1>5 DEF Recover, ReleaseByWorker, CheckReleased, EnqueueRecovered, vOthers,
     keptVars
<1>6. ASSUME NEW w \in Workers, WorkerStep(w)
      PROVE  UNCHANGED dlq
  BY <1>6 DEF WorkerStep, StartWorker, CrashWorker, ReportResult, LoseResult,
     Heartbeat, Timeout, Evict, wOthers, keptVars
<1>7. CASE Snapshot \/ Restart
  BY <1>7 DEF Snapshot, Restart
<1>8. CASE UNCHANGED vars
  BY <1>8 DEF vars, keptVars
<1>9. QED
  BY <1>1, <1>2, <1>3, <1>4, <1>5, <1>6, <1>7, <1>8 DEF Next

\* A write of the store leaves both dead-letter lists and the snapshot alone.
LEMMA StoreWriteDead == StoreWrite => UNCHANGED <<DeadJobs, snapshot, raft>>
<1> SUFFICES ASSUME StoreWrite PROVE UNCHANGED keptVars
  BY DEF DeadJobs, keptVars
<1>1. ASSUME NEW j \in Jobs, SubmitJob(j) \/ SubmitJobAt(j) \/ CancelJob(j)
      PROVE  UNCHANGED keptVars
  BY <1>1 DEF SubmitJob, SubmitJobAt, Add, CancelJob
<1>2. CASE CompleteJob \/ RetryJob \/ FailJob
  BY <1>2 DEF CompleteJob, RetryJob, FailJob
<1>3. CASE PromoteJob
  BY <1>3 DEF PromoteJob, lOthers
<1>4. QED
  BY <1>1, <1>2, <1>3 DEF StoreWrite

\* A call of Store.Update with status to is a move of the lifecycle from the
\* job's current status, when it is accepted and changes anything.
LEMMA UpdateIsMove ==
    ASSUME TypeOK, NEW k \in Jobs, NEW to \in Status, NEW n \in Nat,
           UNCHANGED <<DeadJobs, snapshot, raft>>,
           store' = Update(store, k, [Status |-> to, RetryCount |-> n])
    PROVE  \/ store' = store
           \/ /\ IsValidTransition(store[k].Status, to)
              /\ Life!Move(k, {store[k].Status}, to, {n})
<1>1. CASE UpdateOK(store, k, [Status |-> to, RetryCount |-> n])
  BY <1>1 DEF Update, UpdateOK, Life!Move
<1>2. CASE ~UpdateOK(store, k, [Status |-> to, RetryCount |-> n])
  BY <1>2 DEF Update
<1>3. QED
  BY <1>1, <1>2

\* Every write of the store is one transition of the lifecycle.  When resultLoop
\* finds the job already completed or failed, its copy is the stored record
\* (ResultCopyFresh) and the write changes nothing.
LEMMA StoreWriteIsTransition ==
    TypeOK /\ ResultCopyFresh /\ StoreWrite => store' = store \/ Life!Next
<1> SUFFICES ASSUME TypeOK, ResultCopyFresh, StoreWrite, store' # store
             PROVE  Life!Next
  OBVIOUS
<1> DEFINE id == rResult.JobID
<1>0. /\ store \in [Jobs -> JobRecord] /\ rCopy \in JobRecord /\ lCopy \in JobRecord
      /\ rPc # "idle" => id \in Jobs
      /\ lPc # "idle" => lJob \in Jobs
  BY DEF TypeOK, StoreType, ResultType, DelayType, Result
<1>1. UNCHANGED <<DeadJobs, snapshot, raft>>
  BY StoreWriteDead
<1>2. ASSUME NEW j \in Jobs, SubmitJob(j)
      PROVE  Life!Submit(j)
  BY <1>1, <1>2 DEF SubmitJob, Add, NewJob, Life!Submit, Life!Move
<1>3. ASSUME NEW j \in Jobs, SubmitJobAt(j)
      PROVE  Life!SubmitAt(j)
  <2>1. [NewJob EXCEPT !.Status = "Scheduled"] = [Status |-> "Scheduled", RetryCount |-> 0]
    BY SMT DEF NewJob
  <2>2. store' = [store EXCEPT ![j] = [Status |-> "Scheduled", RetryCount |-> 0]]
    BY <1>3, <2>1 DEF SubmitJobAt, Add
  <2>3. QED
    BY <1>1, <1>3, <2>2 DEF SubmitJobAt, Add, Life!SubmitAt, Life!Move
<1>4. ASSUME NEW j \in Jobs, CancelJob(j)
      PROVE  Life!Cancel(j)
  <2> DEFINE rec == [Status |-> "Cancelled", RetryCount |-> store[j].RetryCount]
  <2>1. store[j] \in JobRecord
    BY <1>0
  <2>2. [store[j] EXCEPT !.Status = "Cancelled"] = rec
    BY SMT, <2>1 DEF JobRecord
  <2>3. store' = [store EXCEPT ![j] = rec]
    BY <1>0, <1>4, <2>2 DEF CancelJob
  <2>4. QED
    BY <1>1, <1>4, <2>3 DEF CancelJob, Life!Cancel, Life!Move
<1>5. CASE CompleteJob
  <2> DEFINE n == rCopy.RetryCount
  <2>1. [rCopy EXCEPT !.Status = "Completed"] = [Status |-> "Completed", RetryCount |-> n]
    BY SMT, <1>0 DEF JobRecord
  <2>2. id \in Jobs /\ n \in Life!Count /\ n \in Nat
    BY SMT, <1>0, <1>5, MaxRetriesNat DEF CompleteJob, JobRecord, Life!Count
  <2>3. store' = Update(store, id, [Status |-> "Completed", RetryCount |-> n])
    BY <1>5, <2>1 DEF CompleteJob
  <2>4. store[id].Status # "Completed"
    BY SMT, <1>0, <1>5, <2>2, <2>3
    DEF CompleteJob, ResultCopyFresh, Update, JobRecord
  <2>5. Life!Move(id, {"Pending"}, "Completed", {n})
    BY <1>1, <2>2, <2>3, <2>4, UpdateIsMove DEF IsValidTransition, Status
  <2>6. Life!Complete(id)
    BY <2>2, <2>5 DEF Life!Move, Life!Complete
  <2>7. QED
    BY <2>2, <2>6 DEF Life!Next
<1>6. CASE RetryJob
  <2> DEFINE n == rCopy.RetryCount + 1
  <2>1. id \in Jobs /\ n \in 1 .. MaxRetries /\ n \in Nat
    BY SMT, <1>0, <1>6, MaxRetriesNat DEF RetryJob, JobRecord, ShouldRetry
  <2>2. store' = Update(store, id, [Status |-> "Scheduled", RetryCount |-> n])
    BY <1>6 DEF RetryJob
  <2>3. store[id].Status \in {"Pending", "Scheduled"}
            /\ Life!Move(id, {store[id].Status}, "Scheduled", {n})
    BY <1>1, <2>1, <2>2, UpdateIsMove DEF IsValidTransition, Status
  <2>4. Life!Retry(id)
    BY <2>1, <2>3 DEF Life!Move, Life!Retry
  <2>5. QED
    BY <2>1, <2>4 DEF Life!Next
<1>7. CASE FailJob
  <2> DEFINE n == rCopy.RetryCount
  <2>1. [rCopy EXCEPT !.Status = "Failed"] = [Status |-> "Failed", RetryCount |-> n]
    BY SMT, <1>0 DEF JobRecord
  <2>2. id \in Jobs /\ n = MaxRetries /\ n \in Nat
    BY SMT, <1>0, <1>7, MaxRetriesNat DEF FailJob, JobRecord, ShouldRetry
  <2>3. store' = Update(store, id, [Status |-> "Failed", RetryCount |-> n])
    BY <1>7, <2>1 DEF FailJob
  <2>4. store[id].Status # "Failed"
    BY SMT, <1>0, <1>7, <2>2, <2>3
    DEF FailJob, ResultCopyFresh, Update, JobRecord
  <2>5. Life!Move(id, {"Pending"}, "Failed", {n})
    BY <1>1, <2>2, <2>3, <2>4, UpdateIsMove DEF IsValidTransition, Status
  <2>6. Life!GiveUp(id)
    BY <2>2, <2>5 DEF Life!Move, Life!GiveUp
  <2>7. QED
    BY <2>2, <2>6 DEF Life!Next
<1>8. CASE PromoteJob
  <2> DEFINE n == lCopy.RetryCount
  <2>1. [lCopy EXCEPT !.Status = "Pending"] = [Status |-> "Pending", RetryCount |-> n]
    BY SMT, <1>0 DEF JobRecord
  <2>2. lJob \in Jobs /\ n \in Life!Count /\ n \in Nat
    BY SMT, <1>0, <1>8, MaxRetriesNat DEF PromoteJob, JobRecord, Life!Count
  <2>3. store' = Update(store, lJob, [Status |-> "Pending", RetryCount |-> n])
    BY <1>8, <2>1 DEF PromoteJob
  <2>4. store[lJob].Status \in {"Pending", "Scheduled"}
            /\ Life!Move(lJob, {store[lJob].Status}, "Pending", {n})
    BY <1>1, <2>2, <2>3, UpdateIsMove DEF IsValidTransition, Status
  <2>5. Life!Promote(lJob)
    BY <2>2, <2>4 DEF Life!Move, Life!Promote
  <2>6. QED
    BY <2>2, <2>5 DEF Life!Next
<1>9. QED
  BY <1>2, <1>3, <1>4, <1>5, <1>6, <1>7, <1>8 DEF StoreWrite, Life!Next

\* The job records a client reads and the dead-letter list follow JobLifecycle,
\* whatever the interleaving of engine, loops, workers and faults.
THEOREM SchedulerImplementsLifecycle == Spec => ImplementsLifecycle
<1>1. Init => Life!Init
  <2> SUFFICES ASSUME Init PROVE Life!Init
    OBVIOUS
  <2>1. raft \in BOOLEAN
    BY RaftModesType DEF Init
  <2>2. QED
    BY <2>1 DEF Init, Absent, DeadJobs, Life!Init, Life!Absent
<1>2. TypeOK /\ TypeOK' /\ ResultCopyFresh /\ OnlyStoredJobs /\ [Next]_vars
        => [Life!Next]_<<store, DeadJobs, snapshot, raft>>
  <2> SUFFICES ASSUME TypeOK, TypeOK', ResultCopyFresh, OnlyStoredJobs,
                      [Next]_vars
               PROVE  Life!Next \/ UNCHANGED <<store, DeadJobs, snapshot, raft>>
    OBVIOUS
  <2>0. DeadJobs = dlq /\ DeadJobs' = dlq'
    BY DEF TypeOK, StoreType, DeadJobs
  <2>1. CASE StoreWrite
    BY <2>1, StoreWriteIsTransition, StoreWriteDead
  <2>2. CASE AddDLQ
    <3>1. rResult.JobID \in Jobs
      BY <2>2 DEF AddDLQ, TypeOK, ResultType, Result
    <3>2. store[rResult.JobID].Status # "None"
      BY <3>1 DEF OnlyStoredJobs, Unreferenced
    <3>3. Life!Bury(rResult.JobID)
      BY <2>0, <2>2, <3>2 DEF AddDLQ, Life!Bury
    <3>4. QED
      BY <3>1, <3>3 DEF Life!Next
  <2>3. CASE Snapshot
    BY <2>0, <2>3 DEF Snapshot, Life!Snapshot, Life!Next
  <2>4. CASE raft /\ Restart
    <3>1. store' = [j \in Jobs |-> IF snapshot[j].Status = "None"
                                   THEN store[j] ELSE snapshot[j]]
      BY <2>4 DEF Restart, Restored, Snapshotted
    <3>2. Life!Restore
      BY <2>0, <2>4, <3>1 DEF Restart, Life!Restore
    <3>3. QED
      BY <3>2 DEF Life!Next
  <2>5. CASE UNCHANGED <<store, dlq, snapshot, raft>>
    BY <2>0, <2>5
  <2>6. QED
    <3>1. ~StoreWrite /\ ~AddDLQ /\ ~Snapshot /\ ~(raft /\ Restart)
             => UNCHANGED <<store, dlq, snapshot, raft>>
      BY StoreWriters, DeadWriters, RaftWriters
    <3>2. QED
      BY <2>1, <2>2, <2>3, <2>4, <2>5, <3>1
<1>3. QED
  BY <1>1, <1>2, TypeCorrect, ResultCopyIsFresh, ReferencesStored, PTL
  DEF Spec, ImplementsLifecycle, Life!Spec
---------------------------------------------------------------------------
\* The dead-letter list is the bucket, after a step too, and it loses nothing.
LEMMA DeadJobsGrow ==
    TypeOK /\ TypeOK' /\ [Next]_vars => DeadJobs \subseteq DeadJobs'
<1> SUFFICES ASSUME TypeOK, TypeOK', [Next]_vars PROVE DeadJobs \subseteq DeadJobs'
  OBVIOUS
<1>1. DeadJobs = dlq /\ DeadJobs' = dlq'
  BY DEF TypeOK, StoreType, DeadJobs
<1>2. dlq \subseteq dlq'
  BY DeadWriters DEF AddDLQ
<1>3. QED
  BY <1>1, <1>2

\* Only a restart adds to the jobs whose dead-letter write it came before.
LEMMA CutWriters == [Next]_vars => UNCHANGED cut \/ Restart
<1> SUFFICES ASSUME [Next]_vars PROVE UNCHANGED cut \/ Restart
  OBVIOUS
<1>1. ASSUME NEW j \in Jobs, SubmitJob(j) \/ SubmitJobAt(j) \/ EnqueueSubmitted(j)
                                \/ EnqueueSubmittedAt(j) \/ CancelJob(j)
      PROVE  UNCHANGED cut
  BY <1>1 DEF SubmitJob, SubmitJobAt, Add, EnqueueSubmitted, EnqueueSubmittedAt,
     CancelJob, sOthers, keptVars
<1>2. CASE Dispatch
  BY <1>2 DEF Dispatch, DispatchDequeue, SkipTerminal, NoWorkerAvailable,
     SelectWorker, DeliverJob, SubmitOK, SubmitError, dOthers, keptVars
<1>3. CASE HandleResult
  BY <1>3 DEF HandleResult, ReceiveResult, ReleaseLease, CompleteJob, RetryJob,
     EnqueueRetry, FailJob, AddDLQ, keptVars
<1>4. CASE ProcessDelayed
  BY <1>4 DEF ProcessDelayed, PeekDelayed, GetDelayed, DequeueDelayed,
     PromoteJob, EnqueuePromoted, lOthers, keptVars
<1>5. CASE Recover
  BY <1>5 DEF Recover, ReleaseByWorker, CheckReleased, EnqueueRecovered, vOthers,
     keptVars
<1>6. ASSUME NEW w \in Workers, WorkerStep(w)
      PROVE  UNCHANGED cut
  BY <1>6 DEF WorkerStep, StartWorker, CrashWorker, ReportResult, LoseResult,
     Heartbeat, Timeout, Evict, wOthers, keptVars
<1>7. CASE Snapshot \/ UNCHANGED vars
  BY <1>7 DEF Snapshot, vars, keptVars
<1>8. QED
  BY <1>1, <1>2, <1>3, <1>4, <1>5, <1>6, <1>7 DEF Next

\* Job j is on the dead-letter list, or about to be, or was when a restart came.
Buried(j) == j \in DeadJobs \cup cut \/ (rPc = "dead" /\ rResult.JobID = j)

\* The failed jobs of the snapshot are buried too.
SnapshotBuried == \A j \in Jobs : snapshot[j].Status = "Failed" => Buried(j)

\* Once buried, a job stays so: only AddDLQ and a restart take it from resultLoop.
LEMMA BuriedStays ==
    ASSUME TypeOK, TypeOK', [Next]_vars, NEW k \in Jobs, Buried(k)
    PROVE  Buried(k)'
<1>0. DeadJobs \subseteq DeadJobs'
  BY DeadJobsGrow
<1>1. CASE Restart
  BY <1>0, <1>1 DEF Restart, Buried
<1>2. CASE ~Restart
  <2>1. cut' = cut
    BY <1>2, CutWriters
  <2>2. CASE UNCHANGED rVars
    BY <1>0, <2>1, <2>2 DEF Buried, rVars
  <2>3. CASE HandleResult /\ rPc = "dead" /\ rResult.JobID = k
    <3>1. AddDLQ
      BY <2>3 DEF HandleResult, ReceiveResult, ReleaseLease, CompleteJob, RetryJob,
         EnqueueRetry, FailJob
    <3>2. k \in dlq'
      BY <2>3, <3>1 DEF AddDLQ
    <3>3. QED
      BY <3>2 DEF DeadJobs, Buried
  <2>4. CASE k \in DeadJobs \cup cut
    BY <1>0, <2>1, <2>4 DEF Buried
  <2>5. QED
    BY <1>2, <2>2, <2>3, <2>4, ResultVarsWriters DEF Buried
<1>3. QED
  BY <1>1, <1>2

\* Between the update that fails a job and AddDLQ only a restart can stop
\* resultLoop: apart from that every failed job is listed as dead, on a Raft node
\* also after the restore of a snapshot that has it as failed.
THEOREM FailedListed == Spec => []FailedInDLQ
<1>1. Init => FailedInDLQ /\ SnapshotBuried
  BY SMT DEF Init, FailedInDLQ, SnapshotBuried, Absent
<1>2. TypeOK /\ TypeOK' /\ FailedInDLQ /\ SnapshotBuried /\ [Next]_vars => FailedInDLQ'
  <2> SUFFICES ASSUME TypeOK, TypeOK', FailedInDLQ, SnapshotBuried, [Next]_vars,
                      NEW k \in Jobs, store'[k].Status = "Failed"
               PROVE  Buried(k)'
    BY DEF FailedInDLQ, Buried
  <2>1. CASE store'[k] = store[k]
    BY <2>1, BuriedStays DEF FailedInDLQ, Buried
  <2>2. CASE raft /\ Restart /\ store'[k] # store[k]
    <3>1. store'[k] = snapshot[k]
      BY <2>2, RestoreEffect
    <3>2. QED
      BY <3>1, BuriedStays DEF SnapshotBuried
  <2>3. CASE StoreWrite /\ store'[k] # store[k]
    <3>1. k = rResult.JobID /\ rPc = "released"
      BY <2>3, StoreWriteEffect
    <3>2. CompleteJob \/ RetryJob \/ FailJob
      BY <2>3, OtherWriters
    <3>3. store \in [Jobs -> JobRecord] /\ rCopy \in JobRecord
      BY DEF TypeOK, StoreType, ResultType
    <3>4. ~CompleteJob /\ ~RetryJob
      BY SMT, <2>3, <3>1, <3>3 DEF CompleteJob, RetryJob, Update, JobRecord
    <3>5. QED
      BY <3>1, <3>2, <3>4 DEF FailJob, Buried
  <2>4. QED
    BY <2>1, <2>2, <2>3, StoreWriters
<1>3. TypeOK /\ TypeOK' /\ FailedInDLQ /\ SnapshotBuried /\ [Next]_vars => SnapshotBuried'
  <2> SUFFICES ASSUME TypeOK, TypeOK', FailedInDLQ, SnapshotBuried, [Next]_vars,
                      NEW k \in Jobs, snapshot'[k].Status = "Failed"
               PROVE  Buried(k)'
    BY DEF SnapshotBuried
  <2>1. CASE UNCHANGED snapshot
    BY <2>1, BuriedStays DEF SnapshotBuried
  <2>2. CASE Snapshot
    <3>1. snapshot'[k] = store[k]
      BY <2>2 DEF Snapshot
    <3>2. QED
      BY <3>1, BuriedStays DEF FailedInDLQ, Buried
  <2>3. QED
    BY <2>1, <2>2, RaftWriters
<1>4. QED
  BY <1>1, <1>2, <1>3, TypeCorrect, PTL DEF Spec
---------------------------------------------------------------------------
(***************************************************************************)
(* ScheduledCustody.  It fails, as the delay race shows; the only step     *)
(* that breaks it is a Dequeue of delayLoop that removes another entry     *)
(* than the one Peek returned.                                             *)
(***************************************************************************)
\* Job j is in the delay queue or in the hands of whoever puts it there or takes it.
DelayHeld(j) ==
    \/ dq[j] > 0
    \/ j \in toDQ
    \/ rPc = "retry" /\ rResult.JobID = j
    \/ lPc = "popped" /\ lJob = j

\* delayLoop removes a root that is not the entry it looked at.
DelayRace == DequeueDelayed /\ dqHead # lJob

\* A scheduled job is held when its status is set.
LEMMA NewlyScheduledHeld ==
    ASSUME TypeOK, ~raft, [Next]_vars, NEW k \in Jobs, store'[k] # store[k],
           store'[k].Status = "Scheduled"
    PROVE  DelayHeld(k)'
<1>0. store \in [Jobs -> JobRecord] /\ rCopy \in JobRecord /\ lCopy \in JobRecord
  BY DEF TypeOK, StoreType, ResultType, DelayType
<1>1. StoreWrite
  BY StoreWriters
<1>2. ASSUME NEW j \in Jobs, SubmitJobAt(j) PROVE DelayHeld(k)'
  <2>1. k = j
    BY <1>0, <1>2 DEF SubmitJobAt, Add
  <2>2. QED
    BY <1>2, <2>1 DEF SubmitJobAt, DelayHeld
<1>3. CASE RetryJob
  <2>1. k = rResult.JobID
    BY <1>0, <1>3 DEF RetryJob, Update
  <2>2. QED
    BY <1>3, <2>1 DEF RetryJob, DelayHeld
<1>4. ASSUME NEW j \in Jobs, SubmitJob(j) \/ CancelJob(j) PROVE FALSE
  BY SMT, <1>0, <1>4 DEF SubmitJob, Add, NewJob, CancelJob, JobRecord
<1>5. ~CompleteJob /\ ~FailJob /\ ~PromoteJob
  BY SMT, <1>0 DEF CompleteJob, FailJob, PromoteJob, Update, JobRecord
<1>6. QED
  BY <1>1, <1>2, <1>3, <1>4, <1>5 DEF StoreWrite

\* While its record does not change nobody but a delay race lets go of it.
LEMMA ScheduledStaysHeld ==
    ASSUME TypeOK, [Next]_vars, ~DelayRace, NEW k \in Jobs, DelayHeld(k),
           store'[k] = store[k], store[k].Status = "Scheduled"
    PROVE  DelayHeld(k)'
<1>0. /\ dq \in [Jobs -> Nat] /\ store \in [Jobs -> JobRecord] /\ lCopy \in JobRecord
      /\ rPc # "idle" => rResult.JobID \in Jobs
  BY DEF TypeOK, StoreType, QueueType, DelayType, ResultType, Result
<1>1. ASSUME UNCHANGED <<dq, toDQ, rVars, lVars>> PROVE DelayHeld(k)'
  BY <1>1 DEF DelayHeld, rVars, lVars
<1>2. ASSUME NEW j \in Jobs, PushDQ(j) PROVE dq'[j] > 0 /\ (dq[k] > 0 => dq'[k] > 0)
  BY SMT, <1>0, <1>2 DEF PushDQ
<1>3. ASSUME NEW j \in Jobs, SubmitJob(j) \/ EnqueueSubmitted(j) \/ CancelJob(j)
      PROVE  DelayHeld(k)'
  BY <1>1, <1>3 DEF SubmitJob, Add, EnqueueSubmitted, CancelJob, sOthers, queueVars
<1>4. ASSUME NEW j \in Jobs, SubmitJobAt(j) PROVE DelayHeld(k)'
  <2>1. toDQ \subseteq toDQ' /\ UNCHANGED <<dq, rVars, lVars>>
    BY <1>4 DEF SubmitJobAt, Add
  <2>2. QED
    BY <2>1 DEF DelayHeld, rVars, lVars
<1>5. ASSUME NEW j \in Jobs, EnqueueSubmittedAt(j) PROVE DelayHeld(k)'
  <2>1. PushDQ(j) /\ toDQ' = toDQ \ {j} /\ UNCHANGED <<rVars, lVars>>
    BY <1>5 DEF EnqueueSubmittedAt, sOthers
  <2>2. QED
    BY <1>2, <2>1 DEF DelayHeld, rVars, lVars
<1>6. CASE Dispatch
  BY <1>1, <1>6 DEF Dispatch, DispatchDequeue, SkipTerminal, NoWorkerAvailable,
     SelectWorker, DeliverJob, SubmitOK, SubmitError, dOthers
<1>7. CASE HandleResult
  <2>1. CASE EnqueueRetry
    <3>1. /\ PushDQ(rResult.JobID) /\ rResult.JobID \in Jobs
          /\ UNCHANGED <<toDQ, lVars>>
      BY <1>0, <2>1 DEF EnqueueRetry, rOthers
    <3>2. QED
      BY <1>2, <3>1 DEF DelayHeld, lVars
  <2>2. CASE ~EnqueueRetry
    <3>1. UNCHANGED <<dq, toDQ, lVars>> /\ rPc # "retry"
      BY <1>7, <2>2 DEF HandleResult, ReceiveResult, ReleaseLease, CompleteJob, RetryJob,
         FailJob, AddDLQ, rOthers
    <3>2. QED
      BY <3>1 DEF DelayHeld, lVars
  <2>3. QED
    BY <2>1, <2>2
<1>8. CASE ProcessDelayed
  <2>1. UNCHANGED <<toDQ, rVars>>
    BY <1>8 DEF ProcessDelayed, PeekDelayed, GetDelayed, DequeueDelayed, PromoteJob,
       EnqueuePromoted, lOthers
  <2>2. CASE DequeueDelayed
    <3>1. CASE dqHead = k
      BY <2>2, <3>1 DEF DelayRace, DequeueDelayed, DelayHeld
    <3>2. CASE dqHead # k
      <4>1. dq'[k] = dq[k] /\ lPc = "read"
        BY <1>0, <2>2, <3>2 DEF DequeueDelayed, PopDQ
      <4>2. QED
        BY <2>1, <4>1 DEF DelayHeld, rVars
    <3>3. QED
      BY <3>1, <3>2
  <2>3. CASE PromoteJob
    <3> DEFINE rec == [lCopy EXCEPT !.Status = "Pending"]
    <3>1. lJob # k
      <4> SUFFICES ASSUME lJob = k PROVE FALSE
        OBVIOUS
      <4>1. rec.Status = "Pending"
        BY <1>0 DEF JobRecord
      <4>2. UpdateOK(store, k, rec)
        BY <4>1 DEF UpdateOK, IsValidTransition
      <4>3. store'[k] = rec
        BY <1>0, <2>3, <4>2 DEF PromoteJob, Update
      <4>4. QED
        BY <4>1, <4>3
    <3>2. dq' = dq
      BY <2>3 DEF PromoteJob
    <3>3. QED
      BY <2>1, <3>1, <3>2 DEF DelayHeld, rVars
  <2>4. CASE PeekDelayed \/ GetDelayed \/ EnqueuePromoted
    <3>1. dq' = dq /\ lPc # "popped"
      BY <2>4 DEF PeekDelayed, GetDelayed, EnqueuePromoted
    <3>2. QED
      BY <2>1, <3>1 DEF DelayHeld, rVars
  <2>5. QED
    BY <1>8, <2>2, <2>3, <2>4 DEF ProcessDelayed
<1>9. CASE Recover
  BY <1>1, <1>9 DEF Recover, ReleaseByWorker, CheckReleased, EnqueueRecovered, vOthers
<1>10. ASSUME NEW w \in Workers, WorkerStep(w) PROVE DelayHeld(k)'
  BY <1>1, <1>10 DEF WorkerStep, StartWorker, CrashWorker, ReportResult, LoseResult,
     Heartbeat, Timeout, Evict, wOthers, queueVars
<1>11. CASE Restart
  <2>1. Restored[k].Status = "Scheduled"
    BY <1>11 DEF Restart
  <2>2. PICK stale \in SUBSET Snapshotted : dq' = Rebuilt("Scheduled", stale)
    BY <1>11 DEF Restart
  <2>3. dq'[k] = 2
    BY <2>1, <2>2 DEF Rebuilt
  <2>4. QED
    BY SMT, <2>3 DEF DelayHeld
<1>12. CASE Snapshot \/ UNCHANGED vars
  BY <1>1, <1>12 DEF Snapshot, vars, queueVars
<1>13. QED
  BY <1>3, <1>4, <1>5, <1>6, <1>7, <1>8, <1>9, <1>10, <1>11, <1>12 DEF Next

\* On a node without Raft the delay race is the only way to lose a scheduled job:
\* as long as every Dequeue of delayLoop removes the entry its Peek returned, each
\* scheduled job is in custody, whatever faults and restarts there are.
THEOREM OnlyRaceLosesScheduled ==
    ASSUME TRUE \notin RaftModes
    PROVE  Spec /\ [][~DelayRace]_vars => []ScheduledCustody
<1>1. Init => ScheduledCustody
  BY SMT DEF Init, ScheduledCustody, Absent
<1>2. TypeOK /\ ScheduledCustody /\ [Next]_vars /\ [~DelayRace]_vars => ScheduledCustody'
  <2> SUFFICES ASSUME TypeOK, ScheduledCustody, [Next]_vars, [~DelayRace]_vars,
                      NEW k \in Jobs, store'[k].Status = "Scheduled"
               PROVE  DelayHeld(k)'
    BY DEF ScheduledCustody, DelayHeld
  <2>1. ~DelayRace
    <3>1. ASSUME DelayRace, UNCHANGED vars PROVE FALSE
      BY <3>1 DEF DelayRace, DequeueDelayed, vars, lVars
    <3>2. QED
      BY <3>1
  <2>2. CASE store'[k] # store[k]
    BY <2>2, NoRaft, NewlyScheduledHeld
  <2>3. CASE store'[k] = store[k]
    <3>1. DelayHeld(k) /\ store[k].Status = "Scheduled"
      BY <2>3 DEF ScheduledCustody, DelayHeld
    <3>2. QED
      BY <2>1, <2>3, <3>1, ScheduledStaysHeld
  <2>4. QED
    BY <2>2, <2>3
<1>3. QED
  BY <1>1, <1>2, TypeCorrect, PTL DEF Spec
---------------------------------------------------------------------------
(***************************************************************************)
(* Leases.  A lease outlives its execution when the worker crashes or its  *)
(* report is lost.  Nothing else lets it: whoever takes the last trace of  *)
(* an execution away releases the lease first.                             *)
(***************************************************************************)
\* The execution the lease of j was taken for, up to the release of the lease.
Backed(j) ==
    \/ dPc = "submit" /\ dJob = j
    \/ \E w \in Workers : exec[w][j] > 0
    \/ \E i \in 1 .. Len(results) : results[i].JobID = j
    \/ rPc = "fetched" /\ rResult.JobID = j

\* Results carry no attempt number, so none is taken for stale.
LeaseInv ==
    /\ \A j \in Jobs : lease[j] # NoLease => Backed(j)
    /\ \A i \in 1 .. Len(results) : results[i].Attempt = 0
    /\ rResult.Attempt = 0

\* Steps that leave executions and results alone, and take no lease.
LEMMA LeaseStable ==
    ASSUME LeaseInv, UNCHANGED <<exec, results, rVars>>,
           dPc = "submit" => UNCHANGED <<dPc, dJob>>,
           \A j \in Jobs : lease'[j] \in {lease[j], NoLease}
    PROVE  LeaseInv'
<1>1. ASSUME NEW j \in Jobs, lease'[j] # NoLease PROVE Backed(j)'
  <2>1. Backed(j)
    BY <1>1 DEF LeaseInv
  <2>2. QED
    BY <2>1 DEF Backed, rVars
<1>2. QED
  BY <1>1 DEF LeaseInv, rVars

\* dispatchLoop takes a lease with the job in hand, and gives it back when it fails.
LEMMA DispatchLease ==
    ASSUME TypeOK, LeaseInv, Dispatch
    PROVE  LeaseInv'
<1>0. /\ lease \in [Jobs -> Lease] /\ exec \in [Workers -> [Jobs -> Nat]]
      /\ dPc # "idle" => dJob \in Jobs
      /\ dPc \in {"submit", "accepted"} => dWorker \in Workers
      /\ UNCHANGED <<results, rVars>>
  BY DEF TypeOK, StoreType, NodeType, DispatchType, Dispatch, DispatchDequeue, SkipTerminal,
     NoWorkerAvailable, SelectWorker, DeliverJob, SubmitOK, SubmitError, dOthers
<1>1. ASSUME UNCHANGED <<exec, lease>>, dPc # "submit" PROVE LeaseInv'
  BY <1>0, <1>1, LeaseStable
<1>2. ASSUME NEW j \in Jobs, DispatchDequeue(j) \/ SkipTerminal(j) PROVE LeaseInv'
  BY <1>1, <1>2 DEF DispatchDequeue, SkipTerminal, nodeVars
<1>3. CASE NoWorkerAvailable \/ SubmitOK
  BY <1>1, <1>3 DEF NoWorkerAvailable, SubmitOK, nodeVars
<1>4. ASSUME NEW i \in 1 .. Len(available), SelectWorker(i) PROVE LeaseInv'
  <2>1. /\ dPc = "fetched" /\ dPc' = "submit" /\ dJob' = dJob /\ exec' = exec
        /\ \A j \in Jobs : j # dJob => lease'[j] = lease[j]
    BY <1>0, <1>4 DEF SelectWorker, Acquire, nodeVars
  <2>2. ASSUME NEW j \in Jobs, lease'[j] # NoLease PROVE Backed(j)'
    BY <1>0, <2>1, <2>2 DEF LeaseInv, Backed, rVars
  <2>3. QED
    BY <1>0, <2>2 DEF LeaseInv, rVars
<1>5. CASE DeliverJob
  <2>1. /\ dPc = "submit" /\ lease' = lease
        /\ exec' = [exec EXCEPT ![dWorker][dJob] = @ + 1]
    BY <1>5 DEF DeliverJob
  <2>2. /\ exec'[dWorker][dJob] > 0
        /\ \A w \in Workers, j \in Jobs : exec[w][j] > 0 => exec'[w][j] > 0
    BY SMT, <1>0, <2>1
  <2>3. ASSUME NEW j \in Jobs, lease[j] # NoLease PROVE Backed(j)'
    <3>1. Backed(j)
      BY <2>3 DEF LeaseInv
    <3>2. CASE dJob = j
      BY <1>0, <2>1, <2>2, <3>2 DEF Backed
    <3>3. CASE dJob # j
      BY <1>0, <2>2, <3>1, <3>3 DEF Backed, rVars
    <3>4. QED
      BY <3>2, <3>3
  <2>4. QED
    BY <1>0, <2>1, <2>3 DEF LeaseInv, rVars
<1>6. CASE SubmitError
  <2>1. exec' = exec /\ dJob \in Jobs /\ lease' = [lease EXCEPT ![dJob] = NoLease]
    BY <1>0, <1>6 DEF SubmitError, nodeVars
  <2>2. ASSUME NEW j \in Jobs, lease'[j] # NoLease PROVE Backed(j)'
    <3>1. j # dJob /\ lease[j] # NoLease
      BY <1>0, <2>1, <2>2
    <3>2. QED
      BY <1>0, <2>1, <3>1 DEF LeaseInv, Backed, rVars
  <2>3. QED
    BY <1>0, <2>2 DEF LeaseInv, rVars
<1>7. QED
  BY <1>2, <1>3, <1>4, <1>5, <1>6 DEF Dispatch

\* resultLoop releases the lease of the result it has received before it goes on.
LEMMA HandleResultLease ==
    ASSUME TypeOK, LeaseInv, HandleResult
    PROVE  LeaseInv'
<1>0. /\ lease \in [Jobs -> Lease] /\ results \in Seq(Result)
      /\ rPc # "idle" => rResult \in Result
      /\ UNCHANGED <<exec, dVars>>
  BY DEF TypeOK, StoreType, PoolType, ResultType, HandleResult, ReceiveResult, ReleaseLease,
     CompleteJob, RetryJob, EnqueueRetry, FailJob, AddDLQ, rOthers, nodeVars
<1>1. CASE ReceiveResult
  <2>1. /\ results # <<>> /\ results' = Tail(results) /\ rResult' = Head(results)
        /\ rPc = "idle" /\ rPc' = "fetched" /\ lease' = lease
    BY <1>1 DEF ReceiveResult
  <2>2. /\ Len(results) \in Nat /\ rResult' = results[1] /\ 1 \in 1 .. Len(results)
        /\ \A i \in 1 .. Len(results') : i + 1 \in 1 .. Len(results)
                                        /\ results'[i] = results[i + 1]
        /\ \A i \in 1 .. Len(results) : i = 1 \/ (/\ i - 1 \in 1 .. Len(results')
                                                 /\ results'[i - 1] = results[i])
    BY SMT, <1>0, <2>1
  <2>3. ASSUME NEW j \in Jobs, lease[j] # NoLease PROVE Backed(j)'
    <3>1. Backed(j)
      BY <2>3 DEF LeaseInv
    <3>2. ASSUME NEW i \in 1 .. Len(results), results[i].JobID = j PROVE Backed(j)'
      BY <2>1, <2>2, <3>2 DEF Backed
    <3>3. QED
      BY <1>0, <2>1, <3>1, <3>2 DEF Backed, dVars
  <2>4. /\ \A i \in 1 .. Len(results') : results'[i].Attempt = 0
        /\ rResult'.Attempt = 0
    BY SMT, <2>2 DEF LeaseInv
  <2>5. QED
    BY <2>1, <2>3, <2>4 DEF LeaseInv
<1>2. CASE ReleaseLease
  <2>1. ~IsStale
    BY SMT DEF IsStale, LeaseInv
  <2>2. /\ lease' = [lease EXCEPT ![rResult.JobID] = NoLease] /\ rResult' = rResult
        /\ results' = results /\ rPc = "fetched" /\ rResult.JobID \in Jobs
    BY <1>0, <1>2, <2>1 DEF ReleaseLease, Result
  <2>3. ASSUME NEW j \in Jobs, lease'[j] # NoLease PROVE Backed(j)'
    <3>1. j # rResult.JobID /\ lease[j] # NoLease
      BY <1>0, <2>2, <2>3
    <3>2. QED
      BY <1>0, <2>2, <3>1 DEF LeaseInv, Backed, dVars
  <2>4. QED
    BY <2>2, <2>3 DEF LeaseInv
<1>3. CASE CompleteJob \/ RetryJob \/ EnqueueRetry \/ FailJob \/ AddDLQ
  <2>1. /\ rPc # "fetched" /\ UNCHANGED <<lease, results>>
        /\ rResult' \in {rResult, NoResult}
    BY <1>3 DEF CompleteJob, RetryJob, EnqueueRetry, FailJob, AddDLQ, rDone
  <2>2. NoResult.Attempt = 0
    BY SMT DEF NoResult
  <2>3. rResult'.Attempt = 0
    BY <2>1, <2>2 DEF LeaseInv
  <2>4. QED
    BY <1>0, <2>1, <2>3 DEF LeaseInv, Backed, dVars
<1>4. QED
  BY <1>1, <1>2, <1>3 DEF HandleResult

\* An execution ends with a result, unless the worker crashes or the report is lost.
LEMMA WorkerLease ==
    ASSUME TypeOK, LeaseInv, "crash" \notin FaultKinds, "rpc" \notin FaultKinds,
           NEW w \in Workers, WorkerStep(w)
    PROVE  LeaseInv'
<1>0. /\ exec \in [Workers -> [Jobs -> Nat]] /\ results \in Seq(Result)
      /\ UNCHANGED <<lease, dVars, rVars>>
  BY DEF TypeOK, PoolType, NodeType, WorkerStep, StartWorker, CrashWorker, ReportResult,
     LoseResult, Heartbeat, Timeout, Evict, wOthers
<1>1. ~CrashWorker(w) /\ \A j \in Jobs : ~LoseResult(w, j)
  BY DEF CrashWorker, LoseResult, Fault
<1>2. CASE StartWorker(w) \/ Heartbeat(w) \/ Timeout(w) \/ Evict(w)
  <2>1. UNCHANGED <<exec, results>>
    BY <1>2 DEF StartWorker, Heartbeat, Timeout, Evict, nodeVars
  <2>2. QED
    BY <1>0, <2>1, LeaseStable DEF dVars
<1>3. ASSUME NEW j \in Jobs, NEW success \in BOOLEAN, ReportResult(w, j, success)
      PROVE  LeaseInv'
  <2> DEFINE r == Outcome(w, j, success)
  <2>1. exec' = [exec EXCEPT ![w][j] = @ - 1] /\ results' = Append(results, r)
    BY <1>3 DEF ReportResult
  <2>2. r.JobID = j /\ r.Attempt = 0
    BY DEF Outcome
  <2> HIDE DEF r
  <2>3. /\ Len(results) \in Nat /\ Len(results') = Len(results) + 1
        /\ \A i \in 1 .. Len(results) : results'[i] = results[i]
        /\ results'[Len(results) + 1] = r
    BY SMT, <1>0, <2>1
  <2>4. /\ \A i \in 1 .. Len(results) : i \in 1 .. Len(results')
        /\ Len(results) + 1 \in 1 .. Len(results')
        /\ \A i \in 1 .. Len(results') : i \in 1 .. Len(results) \/ i = Len(results) + 1
    BY SMT, <2>3
  <2>5. ASSUME NEW k \in Jobs, lease[k] # NoLease PROVE Backed(k)'
    <3>1. CASE k = j
      BY <2>2, <2>3, <2>4, <3>1 DEF Backed
    <3>2. CASE k # j
      <4>1. Backed(k) /\ \A u \in Workers : exec'[u][k] = exec[u][k]
        BY <1>0, <2>1, <2>5, <3>2 DEF LeaseInv
      <4>2. QED
        BY <1>0, <2>3, <2>4, <4>1 DEF Backed, dVars, rVars
    <3>3. QED
      BY <3>1, <3>2
  <2>6. QED
    BY <1>0, <2>2, <2>3, <2>4, <2>5 DEF LeaseInv, rVars
<1>4. QED
  BY <1>1, <1>2, <1>3 DEF WorkerStep

\* As long as no worker crashes and no RPC fails, a leased job is being executed or
\* its result is on its way, whatever false suspicions, evictions and restarts: no
\* job waits for the end of an execution that is already over.
THEOREM LeasesBacked ==
    ASSUME "crash" \notin FaultKinds, "rpc" \notin FaultKinds
    PROVE  Spec => [](\A j \in Jobs : lease[j] # NoLease => InFlight(j))
<1>1. Init => LeaseInv
  BY SMT DEF Init, LeaseInv, NoResult
<1>2. TypeOK /\ LeaseInv /\ [Next]_vars => LeaseInv'
  <2> SUFFICES ASSUME TypeOK, LeaseInv, [Next]_vars PROVE LeaseInv'
    OBVIOUS
  <2>0. lease \in [Jobs -> Lease]
    BY DEF TypeOK, StoreType
  <2>1. ASSUME UNCHANGED <<lease, exec, results, rVars, dVars>> PROVE LeaseInv'
    BY <2>1, LeaseStable DEF dVars
  <2>2. ASSUME NEW j \in Jobs, SubmitJob(j) \/ SubmitJobAt(j) \/ EnqueueSubmitted(j)
                                  \/ EnqueueSubmittedAt(j) \/ CancelJob(j)
        PROVE  LeaseInv'
    BY <2>1, <2>2 DEF SubmitJob, SubmitJobAt, Add, EnqueueSubmitted,
       EnqueueSubmittedAt, CancelJob, sOthers, nodeVars
  <2>3. CASE ProcessDelayed
    BY <2>1, <2>3 DEF ProcessDelayed, PeekDelayed, GetDelayed, DequeueDelayed,
       PromoteJob, EnqueuePromoted, lOthers, nodeVars
  <2>4. CASE Recover
    <3>1. UNCHANGED <<exec, results, rVars, dVars>>
      BY <2>4 DEF Recover, ReleaseByWorker, CheckReleased, EnqueueRecovered, vOthers, nodeVars
    <3>2. \A j \in Jobs : lease'[j] \in {lease[j], NoLease}
      BY <2>0, <2>4 DEF Recover, ReleaseByWorker, CheckReleased, EnqueueRecovered
    <3>3. QED
      BY <3>1, <3>2, LeaseStable DEF dVars
  <2>5. CASE Restart
    <3>1. /\ \A j \in Jobs : lease'[j] = NoLease
          /\ results' = <<>> /\ rResult' = NoResult
      BY <2>5 DEF Restart, rDone
    <3>2. QED
      BY SMT, <3>1 DEF LeaseInv, NoResult
  <2>6. CASE Snapshot \/ UNCHANGED vars
    BY <2>1, <2>6 DEF Snapshot, vars, nodeVars
  <2>7. QED
    BY <2>2, <2>3, <2>4, <2>5, <2>6, DispatchLease, HandleResultLease, WorkerLease DEF Next
<1>3. LeaseInv => \A j \in Jobs : lease[j] # NoLease => InFlight(j)
  BY DEF LeaseInv, Backed, InFlight
<1>4. QED
  BY <1>1, <1>2, <1>3, TypeCorrect, PTL DEF Spec

\* So a pending job is always in a queue, executing, or in the hands of a loop that
\* will move it on: under these conditions custody never rests on a lease alone.
THEOREM PendingInMotion ==
    ASSUME TRUE \notin RaftModes, "crash" \notin FaultKinds, "rpc" \notin FaultKinds
    PROVE  Spec => [](\A j \in Jobs : store[j].Status = "Pending" =>
                        \/ pq[j] > 0 \/ j \in toPQ
                        \/ InFlight(j)
                        \/ dPc = "fetched" /\ dJob = j
                        \/ lPc = "promoted" /\ lJob = j
                        \/ j \in vSet \/ vJob = j)
<1> DEFINE Moving(j) == \/ pq[j] > 0 \/ j \in toPQ
                        \/ InFlight(j)
                        \/ dPc = "fetched" /\ dJob = j
                        \/ lPc = "promoted" /\ lJob = j
                        \/ j \in vSet \/ vJob = j
<1>1. TypeOK /\ PendingCustody /\ (\A j \in Jobs : lease[j] # NoLease => InFlight(j))
        => \A j \in Jobs : store[j].Status = "Pending" => Moving(j)
  BY NoRaft DEF PendingCustody, InCustody, InFlight
<1>2. QED
  BY <1>1, TypeCorrect, PendingNeverDropped, LeasesBacked, PTL
===========================================================================
