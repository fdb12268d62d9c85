---------------------- MODULE JobSchedulerPoolProofs ----------------------
(***************************************************************************)
(* Type correctness of JobScheduler, and where its workers may be, for     *)
(* every set of jobs and workers, every channel capacity, retry limit,     *)
(* topic assignment and number of faults.                                  *)
(*                                                                         *)
(* Types: one lemma per process, one step per action, and under it one per *)
(* group of variables that the action changes.                             *)
(***************************************************************************)
EXTENDS JobScheduler, FiniteSetTheorems, TLAPS

\* Leaves are for Zenon unless they name another prover: SMT for arithmetic,
\* sequences and function updates, PTL for temporal steps.
USE Zenon

\* Store.Update yields a store again, whatever record it is given.
LEMMA UpdateType ==
    ASSUME NEW st \in [Jobs -> JobRecord], NEW id \in Jobs, NEW rec \in JobRecord
    PROVE  Update(st, id, rec) \in [Jobs -> JobRecord]
BY DEF Update

\* The empty store, queues and loops of NewScheduler have their types.
LEMMA InitTypeOK == Init => TypeOK
<1> SUFFICES ASSUME Init PROVE TypeOK
  OBVIOUS
<1>1. StoreType
  BY SMT, MaxRetriesNat DEF Init, StoreType, JobRecord, Absent, Lease, NoLease
<1>2. QueueType
  BY DEF Init, QueueType
<1>3. PoolType /\ NodeType
  BY SMT DEF Init, PoolType, NodeType, NoExec
<1>4. DispatchType /\ RecoveryType
  BY DEF Init, DispatchType, RecoveryType
<1>5. ResultType /\ DelayType
  BY SMT, MaxRetriesNat DEF Init, ResultType, DelayType, JobRecord, Absent
<1>6. QED
  BY SMT, <1>1, <1>2, <1>3, <1>4, <1>5, FaultsType DEF Init, TypeOK

\* What a step leaves alone keeps its type.
LEMMA TypeStable ==
    ASSUME TypeOK
    PROVE  /\ UNCHANGED <<store, keptVars, lease>> => StoreType'
           /\ UNCHANGED queueVars => QueueType'
           /\ UNCHANGED <<poolVars, results>> => PoolType'
           /\ UNCHANGED nodeVars => NodeType'
           /\ UNCHANGED dVars => DispatchType'
           /\ UNCHANGED rVars => ResultType'
           /\ UNCHANGED lVars => DelayType'
           /\ UNCHANGED vVars => RecoveryType'
<1>1. UNCHANGED <<store, keptVars, lease>> => StoreType'
  BY DEF TypeOK, StoreType, keptVars
<1>2. UNCHANGED queueVars => QueueType'
  BY DEF TypeOK, QueueType, queueVars
<1>3. UNCHANGED <<poolVars, results>> => PoolType'
  BY DEF TypeOK, PoolType, poolVars
<1>4. UNCHANGED nodeVars => NodeType'
  BY DEF TypeOK, NodeType, nodeVars
<1>5. UNCHANGED dVars => DispatchType'
  BY DEF TypeOK, DispatchType, dVars
<1>6. UNCHANGED rVars => ResultType'
  BY DEF TypeOK, ResultType, rVars
<1>7. UNCHANGED lVars => DelayType'
  BY DEF TypeOK, DelayType, lVars
<1>8. UNCHANGED vVars => RecoveryType'
  BY DEF TypeOK, RecoveryType, vVars
<1>9. QED
  BY <1>1, <1>2, <1>3, <1>4, <1>5, <1>6, <1>7, <1>8

\* Engine operations keep the types.
LEMMA EngineTypeOK ==
    ASSUME TypeOK, NEW j \in Jobs, SubmitJob(j) \/ SubmitJobAt(j) \/ EnqueueSubmitted(j)
                        \/ EnqueueSubmittedAt(j) \/ CancelJob(j)
    PROVE  TypeOK'
<1>1. CASE SubmitJob(j)
  <2>1. UNCHANGED <<poolVars, results, nodeVars, dVars, rVars, lVars, vVars,
                  faults>>
    BY <1>1 DEF SubmitJob, Add, poolVars, nodeVars, dVars, rVars, lVars, vVars
  <2>2. StoreType'
    BY SMT, <1>1, MaxRetriesNat
    DEF SubmitJob, Add, NewJob, JobRecord, Status, TypeOK, StoreType, keptVars
  <2>3. QueueType'
    BY <1>1 DEF SubmitJob, Add, TypeOK, QueueType
  <2>4. QED
    BY <2>1, <2>2, <2>3, TypeStable DEF TypeOK
<1>2. CASE SubmitJobAt(j)
  <2>1. UNCHANGED <<poolVars, results, nodeVars, dVars, rVars, lVars, vVars,
                  faults>>
    BY <1>2
    DEF SubmitJobAt, Add, poolVars, nodeVars, dVars, rVars, lVars, vVars
  <2>2. StoreType'
    BY SMT, <1>2, MaxRetriesNat
    DEF SubmitJobAt, Add, NewJob, JobRecord, Status, TypeOK, StoreType, keptVars
  <2>3. QueueType'
    BY <1>2 DEF SubmitJobAt, Add, TypeOK, QueueType
  <2>4. QED
    BY <2>1, <2>2, <2>3, TypeStable DEF TypeOK
<1>3. CASE EnqueueSubmitted(j)
  <2>1. UNCHANGED <<store, keptVars, lease, poolVars, results, nodeVars, dVars,
                  rVars, lVars, vVars, faults>>
    BY <1>3
    DEF EnqueueSubmitted, sOthers, poolVars, nodeVars, dVars, rVars, lVars,
        vVars
  <2>2. QueueType'
    BY SMT, <1>3 DEF EnqueueSubmitted, PushPQ, TypeOK, QueueType
  <2>3. QED
    BY <2>1, <2>2, TypeStable DEF TypeOK
<1>4. CASE EnqueueSubmittedAt(j)
  <2>1. UNCHANGED <<store, keptVars, lease, poolVars, results, nodeVars, dVars,
                  rVars, lVars, vVars, faults>>
    BY <1>4
    DEF EnqueueSubmittedAt, sOthers, poolVars, nodeVars, dVars, rVars, lVars,
        vVars
  <2>2. QueueType'
    BY SMT, <1>4 DEF EnqueueSubmittedAt, PushDQ, TypeOK, QueueType
  <2>3. QED
    BY <2>1, <2>2, TypeStable DEF TypeOK
<1>5. CASE CancelJob(j)
  <2>1. UNCHANGED <<queueVars, poolVars, results, nodeVars, dVars, rVars,
                  lVars, vVars, faults>>
    BY <1>5
    DEF CancelJob, queueVars, poolVars, nodeVars, dVars, rVars, lVars, vVars
  <2>2. StoreType'
    BY <1>5 DEF CancelJob, JobRecord, Status, TypeOK, StoreType, keptVars
  <2>3. QED
    BY <2>1, <2>2, TypeStable DEF TypeOK
<1>6. QED
  BY <1>1, <1>2, <1>3, <1>4, <1>5

\* Steps of dispatchLoop keep the types.
LEMMA DispatchTypeOK ==
    ASSUME TypeOK, Dispatch
    PROVE  TypeOK'
<1>1. ASSUME NEW j \in Jobs, DispatchDequeue(j)
     PROVE  TypeOK'
  <2>1. UNCHANGED <<store, keptVars, lease, poolVars, results, nodeVars, rVars,
                  lVars, vVars, faults>>
    BY <1>1
    DEF DispatchDequeue, dOthers, poolVars, nodeVars, rVars, lVars, vVars
  <2>2. QueueType'
    BY SMT, <1>1 DEF DispatchDequeue, dOthers, TypeOK, QueueType
  <2>3. DispatchType'
    BY <1>1 DEF DispatchDequeue, TypeOK, DispatchType
  <2>4. QED
    BY <2>1, <2>2, <2>3, TypeStable DEF TypeOK
<1>2. ASSUME NEW j \in Jobs, SkipTerminal(j)
     PROVE  TypeOK'
  <2>1. UNCHANGED <<store, keptVars, lease, poolVars, results, nodeVars, dVars,
                  rVars, lVars, vVars, faults>>
    BY <1>2
    DEF SkipTerminal, dOthers, poolVars, nodeVars, dVars, rVars, lVars, vVars
  <2>2. QueueType'
    BY SMT, <1>2 DEF SkipTerminal, dOthers, TypeOK, QueueType
  <2>3. QED
    BY <2>1, <2>2, TypeStable DEF TypeOK
<1>3. CASE NoWorkerAvailable
  <2>1. UNCHANGED <<store, keptVars, lease, poolVars, results, nodeVars, rVars,
                  lVars, vVars, faults>>
    BY <1>3
    DEF NoWorkerAvailable, dOthers, poolVars, nodeVars, rVars, lVars, vVars
  <2>2. QueueType'
    BY SMT, <1>3
    DEF NoWorkerAvailable, PushPQ, dOthers, DispatchType, TypeOK, QueueType
  <2>3. DispatchType'
    BY <1>3, NoJobFresh DEF NoWorkerAvailable, dDone, TypeOK, DispatchType
  <2>4. QED
    BY <2>1, <2>2, <2>3, TypeStable DEF TypeOK
<1>4. ASSUME NEW i \in 1 .. Len(available), SelectWorker(i)
     PROVE  TypeOK'
  <2>1. UNCHANGED <<queueVars, nodeVars, rVars, lVars, vVars, faults>>
    BY <1>4
    DEF SelectWorker, Acquire, dOthers, queueVars, nodeVars, rVars, lVars, vVars
  <2>2. StoreType'
    BY SMTT(60), <1>4
    DEF SelectWorker, Acquire, dOthers, DispatchType, PoolType, Lease, TypeOK,
        StoreType, keptVars
  <2>3. PoolType'
    BY SMT, <1>4 DEF SelectWorker, Acquire, dOthers, TypeOK, PoolType
  <2>4. DispatchType'
    BY SMT, <1>4 DEF SelectWorker, Acquire, PoolType, TypeOK, DispatchType
  <2>5. QED
    BY <2>1, <2>2, <2>3, <2>4, TypeStable DEF TypeOK
<1>5. CASE DeliverJob
  <2>1. UNCHANGED <<store, keptVars, lease, queueVars, poolVars, results, rVars,
                  lVars, vVars, faults>>
    BY <1>5 DEF DeliverJob, dOthers, queueVars, poolVars, rVars, lVars, vVars
  <2>2. NodeType'
    BY SMT, <1>5 DEF DeliverJob, DispatchType, TypeOK, NodeType
  <2>3. DispatchType'
    BY <1>5 DEF DeliverJob, TypeOK, DispatchType
  <2>4. QED
    BY <2>1, <2>2, <2>3, TypeStable DEF TypeOK
<1>6. CASE SubmitOK
  <2>1. UNCHANGED <<store, keptVars, lease, queueVars, poolVars, results, nodeVars,
                  rVars, lVars, vVars, faults>>
    BY <1>6
    DEF SubmitOK, dOthers, queueVars, poolVars, nodeVars, rVars, lVars, vVars
  <2>2. DispatchType'
    BY <1>6 DEF SubmitOK, dDone, TypeOK, DispatchType
  <2>3. QED
    BY <2>1, <2>2, TypeStable DEF TypeOK
<1>7. CASE SubmitError
  <2>1. UNCHANGED <<poolVars, results, nodeVars, rVars, lVars, vVars>>
    BY <1>7 DEF SubmitError, dOthers, poolVars, nodeVars, rVars, lVars, vVars
  <2>2. StoreType'
    BY <1>7
    DEF SubmitError, dOthers, DispatchType, Lease, NoLease, TypeOK, StoreType, keptVars
  <2>3. QueueType'
    BY SMT, <1>7 DEF SubmitError, PushPQ, dOthers, DispatchType, TypeOK, QueueType
  <2>4. DispatchType'
    BY <1>7 DEF SubmitError, dDone, TypeOK, DispatchType
  <2>5. faults' \in 0 .. MaxFaults
    BY SMT, <1>7, FaultsType DEF SubmitError, Fault, TypeOK
  <2>6. QED
    BY <2>1, <2>2, <2>3, <2>4, <2>5, TypeStable DEF TypeOK
<1>8. QED
  BY <1>1, <1>2, <1>3, <1>4, <1>5, <1>6, <1>7 DEF Dispatch

\* Steps of resultLoop keep the types.
LEMMA HandleResultTypeOK ==
    ASSUME TypeOK, HandleResult
    PROVE  TypeOK'
<1>1. CASE ReceiveResult
  <2>1. UNCHANGED <<store, keptVars, lease, queueVars, nodeVars, dVars, lVars,
                  vVars, faults>>
    BY <1>1
    DEF ReceiveResult, rOthers, queueVars, nodeVars, dVars, lVars, vVars
  <2>2. PoolType'
    BY SMT, <1>1 DEF ReceiveResult, rOthers, poolVars, TypeOK, PoolType
  <2>3. ResultType'
    <3>1. Head(results) \in Result
      BY SMT, <1>1 DEF ReceiveResult, TypeOK, PoolType
    <3>2. store[Head(results).JobID] \in JobRecord
      BY <3>1 DEF TypeOK, StoreType, keptVars, Result
    <3>3. QED
      BY <1>1, <3>1, <3>2 DEF ReceiveResult, ResultType
  <2>4. QED
    BY <2>1, <2>2, <2>3, TypeStable DEF TypeOK
<1>2. CASE ReleaseLease
  <2>1. UNCHANGED <<queueVars, poolVars, results, nodeVars, dVars, lVars,
                  vVars, faults>>
    BY <1>2
    DEF ReleaseLease, rOthers, queueVars, poolVars, nodeVars, dVars, lVars,
        vVars
  <2>2. StoreType'
    BY SMT, <1>2
    DEF ReleaseLease, ResultType, Result, Lease, NoLease, TypeOK, StoreType, keptVars
  <2>3. ResultType'
    BY SMT, <1>2, MaxRetriesNat
    DEF ReleaseLease, rDone, Absent, JobRecord, TypeOK, ResultType
  <2>4. QED
    BY <2>1, <2>2, <2>3, TypeStable DEF TypeOK
<1>3. CASE CompleteJob
  <2>1. UNCHANGED <<queueVars, poolVars, results, nodeVars, dVars, lVars,
                  vVars, faults>>
    BY <1>3
    DEF CompleteJob, rOthers, queueVars, poolVars, nodeVars, dVars, lVars,
        vVars
  <2>2. StoreType'
    BY <1>3
    DEF CompleteJob, ResultType, Result, Update, JobRecord, Status, TypeOK,
        StoreType, keptVars
  <2>3. ResultType'
    BY SMT, <1>3, MaxRetriesNat
    DEF CompleteJob, rDone, Absent, JobRecord, TypeOK, ResultType
  <2>4. QED
    BY <2>1, <2>2, <2>3, TypeStable DEF TypeOK
<1>4. CASE RetryJob
  <2>1. UNCHANGED <<queueVars, poolVars, results, nodeVars, dVars, lVars,
                  vVars, faults>>
    BY <1>4
    DEF RetryJob, rOthers, queueVars, poolVars, nodeVars, dVars, lVars, vVars
  <2>2. StoreType'
    <3> DEFINE rec == [Status |-> "Scheduled", RetryCount |-> rCopy.RetryCount + 1]
    <3>1. rec \in JobRecord
      <4>1. rCopy \in JobRecord /\ rCopy.RetryCount < MaxRetries
        BY <1>4 DEF RetryJob, ShouldRetry, TypeOK, ResultType
      <4>2. rCopy.RetryCount + 1 \in 0 .. MaxRetries
        BY SMT, <4>1, MaxRetriesNat DEF JobRecord
      <4>3. QED
        BY <4>2 DEF JobRecord, Status
    <3>2. rResult.JobID \in Jobs
      BY <1>4 DEF RetryJob, TypeOK, ResultType, Result
    <3>3. store' \in [Jobs -> JobRecord]
      BY <1>4, <3>1, <3>2, UpdateType DEF RetryJob, TypeOK, StoreType, keptVars
    <3>4. QED
      BY <1>4, <3>3 DEF RetryJob, TypeOK, StoreType, keptVars
  <2>3. ResultType'
    BY <1>4 DEF RetryJob, TypeOK, ResultType
  <2>4. QED
    BY <2>1, <2>2, <2>3, TypeStable DEF TypeOK
<1>5. CASE EnqueueRetry
  <2>1. UNCHANGED <<store, keptVars, lease, poolVars, results, nodeVars, dVars,
                  lVars, vVars, faults>>
    BY <1>5 DEF EnqueueRetry, rOthers, poolVars, nodeVars, dVars, lVars, vVars
  <2>2. QueueType'
    BY SMT, <1>5
    DEF EnqueueRetry, ResultType, Result, PushDQ, rOthers, TypeOK, QueueType
  <2>3. ResultType'
    BY SMT, <1>5, MaxRetriesNat
    DEF EnqueueRetry, rDone, Absent, JobRecord, TypeOK, ResultType
  <2>4. QED
    BY <2>1, <2>2, <2>3, TypeStable DEF TypeOK
<1>6. CASE FailJob
  <2>1. UNCHANGED <<queueVars, poolVars, results, nodeVars, dVars, lVars,
                  vVars, faults>>
    BY <1>6
    DEF FailJob, rOthers, queueVars, poolVars, nodeVars, dVars, lVars, vVars
  <2>2. StoreType'
    BY <1>6
    DEF FailJob, ResultType, Result, Update, JobRecord, Status, TypeOK,
        StoreType, keptVars
  <2>3. ResultType'
    BY <1>6 DEF FailJob, TypeOK, ResultType
  <2>4. QED
    BY <2>1, <2>2, <2>3, TypeStable DEF TypeOK
<1>7. CASE AddDLQ
  <2>1. UNCHANGED <<queueVars, poolVars, results, nodeVars, dVars, lVars,
                  vVars, faults>>
    BY <1>7
    DEF AddDLQ, rOthers, queueVars, poolVars, nodeVars, dVars, lVars, vVars
  <2>2. StoreType'
    BY <1>7 DEF AddDLQ, ResultType, Result, TypeOK, StoreType, keptVars
  <2>3. ResultType'
    BY SMT, <1>7, MaxRetriesNat
    DEF AddDLQ, rDone, Absent, JobRecord, TypeOK, ResultType
  <2>4. QED
    BY <2>1, <2>2, <2>3, TypeStable DEF TypeOK
<1>8. QED
  BY <1>1, <1>2, <1>3, <1>4, <1>5, <1>6, <1>7 DEF HandleResult

\* Steps of delayLoop keep the types.
LEMMA ProcessDelayedTypeOK ==
    ASSUME TypeOK, ProcessDelayed
    PROVE  TypeOK'
<1>1. CASE PeekDelayed
  <2>1. UNCHANGED <<store, keptVars, lease, queueVars, poolVars, results, nodeVars,
                  dVars, rVars, vVars, faults>>
    BY <1>1
    DEF PeekDelayed, lOthers, queueVars, poolVars, nodeVars, dVars, rVars,
        vVars
  <2>2. DelayType'
    BY <1>1 DEF PeekDelayed, QueueType, TypeOK, DelayType
  <2>3. QED
    BY <2>1, <2>2, TypeStable DEF TypeOK
<1>2. CASE GetDelayed
  <2>1. UNCHANGED <<store, keptVars, lease, queueVars, poolVars, results, nodeVars,
                  dVars, rVars, vVars, faults>>
    BY <1>2
    DEF GetDelayed, lOthers, queueVars, poolVars, nodeVars, dVars, rVars,
        vVars
  <2>2. DelayType'
    BY <1>2 DEF GetDelayed, StoreType, TypeOK, DelayType
  <2>3. QED
    BY <2>1, <2>2, TypeStable DEF TypeOK
<1>3. CASE DequeueDelayed
  <2>1. UNCHANGED <<store, keptVars, lease, poolVars, results, nodeVars, dVars,
                  rVars, vVars, faults>>
    BY <1>3
    DEF DequeueDelayed, lOthers, poolVars, nodeVars, dVars, rVars, vVars
  <2>2. QueueType'
    <3> DEFINE q == [dq EXCEPT ![dqHead] = @ - 1]
    <3>1. q \in [Jobs -> Nat]
      <4>1. CASE dqHead = NoJob
        BY <4>1, NoJobFresh DEF TypeOK, QueueType
      <4>2. CASE dqHead # NoJob
        <5>1. dqHead \in Jobs /\ dq[dqHead] \in Nat /\ dq[dqHead] > 0
          BY <4>2 DEF TypeOK, QueueType
        <5>2. QED
          BY SMT, <5>1 DEF TypeOK, QueueType
      <4>3. QED
        BY <4>1, <4>2
    <3>2. dqHead' \in Jobs \cup {NoJob} /\ (dqHead' # NoJob => q[dqHead'] > 0)
      BY <1>3 DEF DequeueDelayed, PopDQ, Roots
    <3>3. QED
      BY <1>3, <3>1, <3>2 DEF DequeueDelayed, PopDQ, lOthers, TypeOK, QueueType
  <2>3. DelayType'
    BY <1>3 DEF DequeueDelayed, TypeOK, DelayType
  <2>4. QED
    BY <2>1, <2>2, <2>3, TypeStable DEF TypeOK
<1>4. CASE PromoteJob
  <2>1. UNCHANGED <<queueVars, poolVars, results, nodeVars, dVars, rVars,
                  vVars, faults>>
    BY <1>4
    DEF PromoteJob, lOthers, queueVars, poolVars, nodeVars, dVars, rVars,
        vVars
  <2>2. StoreType'
    BY <1>4
    DEF PromoteJob, DelayType, Update, JobRecord, Status, lOthers, TypeOK,
        StoreType, keptVars
  <2>3. DelayType'
    BY SMT, <1>4, MaxRetriesNat
    DEF PromoteJob, lDone, JobRecord, Absent, TypeOK, DelayType
  <2>4. QED
    BY <2>1, <2>2, <2>3, TypeStable DEF TypeOK
<1>5. CASE EnqueuePromoted
  <2>1. UNCHANGED <<store, keptVars, lease, poolVars, results, nodeVars, dVars,
                  rVars, vVars, faults>>
    BY <1>5
    DEF EnqueuePromoted, lOthers, poolVars, nodeVars, dVars, rVars, vVars
  <2>2. QueueType'
    BY SMT, <1>5 DEF EnqueuePromoted, PushPQ, DelayType, lOthers, TypeOK, QueueType
  <2>3. DelayType'
    BY SMT, <1>5, MaxRetriesNat
    DEF EnqueuePromoted, lDone, JobRecord, Absent, TypeOK, DelayType
  <2>4. QED
    BY <2>1, <2>2, <2>3, TypeStable DEF TypeOK
<1>6. QED
  BY <1>1, <1>2, <1>3, <1>4, <1>5 DEF ProcessDelayed

\* Steps of recoveryLoop keep the types.
LEMMA RecoverTypeOK ==
    ASSUME TypeOK, Recover
    PROVE  TypeOK'
<1>1. CASE ReleaseByWorker
  <2>1. UNCHANGED <<queueVars, nodeVars, dVars, rVars, lVars, faults>>
    BY <1>1
    DEF ReleaseByWorker, vOthers, queueVars, nodeVars, dVars, rVars, lVars
  <2>2. StoreType'
    BY <1>1 DEF ReleaseByWorker, Lease, NoLease, vOthers, TypeOK, StoreType, keptVars
  <2>3. PoolType'
    BY SMT, <1>1 DEF ReleaseByWorker, vOthers, TypeOK, PoolType
  <2>4. RecoveryType'
    BY <1>1 DEF ReleaseByWorker, TypeOK, RecoveryType
  <2>5. QED
    BY <2>1, <2>2, <2>3, <2>4, TypeStable DEF TypeOK
<1>2. ASSUME NEW j \in Jobs, CheckReleased(j)
     PROVE  TypeOK'
  <2>1. UNCHANGED <<store, keptVars, lease, queueVars, poolVars, results, nodeVars,
                  dVars, rVars, lVars, faults>>
    BY <1>2
    DEF CheckReleased, vOthers, queueVars, poolVars, nodeVars, dVars, rVars,
        lVars
  <2>2. RecoveryType'
    BY <1>2 DEF CheckReleased, TypeOK, RecoveryType
  <2>3. QED
    BY <2>1, <2>2, TypeStable DEF TypeOK
<1>3. CASE EnqueueRecovered
  <2>1. UNCHANGED <<store, keptVars, lease, poolVars, results, nodeVars, dVars,
                  rVars, lVars, faults>>
    BY <1>3
    DEF EnqueueRecovered, vOthers, poolVars, nodeVars, dVars, rVars, lVars
  <2>2. QueueType'
    BY SMT, <1>3, NoJobFresh
    DEF EnqueueRecovered, PushPQ, RecoveryType, vOthers, TypeOK, QueueType
  <2>3. RecoveryType'
    BY <1>3 DEF EnqueueRecovered, TypeOK, RecoveryType
  <2>4. QED
    BY <2>1, <2>2, <2>3, TypeStable DEF TypeOK
<1>4. QED
  BY <1>1, <1>2, <1>3 DEF Recover

\* Steps of a worker process and of the registry keep the types.
LEMMA WorkerTypeOK ==
    ASSUME TypeOK, NEW w \in Workers, WorkerStep(w)
    PROVE  TypeOK'
<1>1. CASE StartWorker(w)
  <2>1. UNCHANGED <<store, keptVars, lease, queueVars, dVars, rVars, lVars, vVars,
                  faults>>
    BY <1>1 DEF StartWorker, wOthers, queueVars, dVars, rVars, lVars, vVars
  <2>2. PoolType'
    BY SMT, <1>1 DEF StartWorker, RegisterWorker, Register, MakeAvailable, TypeOK, PoolType
  <2>3. NodeType'
    BY <1>1 DEF StartWorker, TypeOK, NodeType
  <2>4. QED
    BY <2>1, <2>2, <2>3, TypeStable DEF TypeOK
<1>2. CASE CrashWorker(w)
  <2>1. UNCHANGED <<store, keptVars, lease, queueVars, poolVars, results, dVars,
                  rVars, lVars, vVars>>
    BY <1>2
    DEF CrashWorker, wOthers, queueVars, poolVars, dVars, rVars, lVars, vVars
  <2>2. NodeType'
    BY <1>2 DEF CrashWorker, NoExec, TypeOK, NodeType
  <2>3. faults' \in 0 .. MaxFaults
    BY SMT, <1>2, FaultsType DEF CrashWorker, Fault, TypeOK
  <2>4. QED
    BY <2>1, <2>2, <2>3, TypeStable DEF TypeOK
<1>3. ASSUME NEW j \in Jobs, NEW success \in BOOLEAN, ReportResult(w, j, success)
     PROVE  TypeOK'
  <2>1. UNCHANGED <<store, keptVars, lease, queueVars, dVars, rVars, lVars, vVars,
                  faults>>
    BY <1>3 DEF ReportResult, wOthers, queueVars, dVars, rVars, lVars, vVars
  <2>2. PoolType'
    <3>1. Outcome(w, j, success) \in Result
      BY DEF Result, Outcome
    <3>2. results' \in Seq(Result)
      BY SMT, <1>3, <3>1 DEF ReportResult, TypeOK, PoolType
    <3>3. available' \in Seq(Workers)
      <4>1. available \in Seq(Workers) /\ available' \in {available, Append(available, w)}
        BY <1>3 DEF ReportResult, MakeAvailable, TypeOK, PoolType
      <4>2. QED
        BY SMT, <4>1
    <3>4. QED
      BY <1>3, <3>2, <3>3 DEF ReportResult, TypeOK, PoolType
  <2>3. NodeType'
    BY SMT, <1>3 DEF ReportResult, TypeOK, NodeType
  <2>4. QED
    BY <2>1, <2>2, <2>3, TypeStable DEF TypeOK
<1>4. ASSUME NEW j \in Jobs, LoseResult(w, j)
     PROVE  TypeOK'
  <2>1. UNCHANGED <<store, keptVars, lease, queueVars, poolVars, results, dVars,
                  rVars, lVars, vVars>>
    BY <1>4
    DEF LoseResult, wOthers, queueVars, poolVars, dVars, rVars, lVars, vVars
  <2>2. NodeType'
    BY SMT, <1>4 DEF LoseResult, TypeOK, NodeType
  <2>3. faults' \in 0 .. MaxFaults
    BY SMT, <1>4, FaultsType DEF LoseResult, Fault, TypeOK
  <2>4. QED
    BY <2>1, <2>2, <2>3, TypeStable DEF TypeOK
<1>5. CASE Heartbeat(w)
  <2>1. UNCHANGED <<store, keptVars, lease, queueVars, nodeVars, dVars, rVars,
                  lVars, vVars, faults>>
    BY <1>5
    DEF Heartbeat, wOthers, queueVars, nodeVars, dVars, rVars, lVars, vVars
  <2>2. PoolType'
    BY <1>5 DEF Heartbeat, TypeOK, PoolType
  <2>3. QED
    BY <2>1, <2>2, TypeStable DEF TypeOK
<1>6. CASE Timeout(w)
  <2>1. UNCHANGED <<store, keptVars, lease, queueVars, nodeVars, dVars, rVars,
                  lVars, vVars>>
    BY <1>6
    DEF Timeout, wOthers, queueVars, nodeVars, dVars, rVars, lVars, vVars
  <2>2. PoolType'
    BY SMT, <1>6 DEF Timeout, TypeOK, PoolType
  <2>3. faults' \in 0 .. MaxFaults
    BY SMT, <1>6, FaultsType DEF Timeout, Fault, TypeOK
  <2>4. QED
    BY <2>1, <2>2, <2>3, TypeStable DEF TypeOK
<1>7. CASE Evict(w)
  <2>1. UNCHANGED <<store, keptVars, lease, queueVars, nodeVars, dVars, rVars,
                  lVars, vVars>>
    BY <1>7
    DEF Evict, Remove, wOthers, queueVars, nodeVars, dVars, rVars, lVars, vVars
  <2>2. PoolType'
    BY <1>7 DEF Evict, Remove, TypeOK, PoolType
  <2>3. faults' \in 0 .. MaxFaults
    BY SMT, <1>7, FaultsType DEF Evict, Remove, Fault, TypeOK
  <2>4. QED
    BY <2>1, <2>2, <2>3, TypeStable DEF TypeOK
<1>8. QED
  BY <1>1, <1>2, <1>3, <1>4, <1>5, <1>6, <1>7 DEF WorkerStep

\* A restart of the control node keeps the types.
LEMMA RestartTypeOK ==
    ASSUME TypeOK, Restart
    PROVE  TypeOK'
<1>1. UNCHANGED <<nodeVars>>
  BY DEF Restart, nodeVars
<1>2. StoreType'
  <2>1. /\ store \in [Jobs -> JobRecord] /\ snapshot \in [Jobs -> JobRecord]
        /\ dlq \subseteq Jobs /\ cut \subseteq Jobs /\ raft \in RaftModes
        /\ rPc # "idle" => rResult.JobID \in Jobs
    BY DEF TypeOK, StoreType, ResultType, Result
  <2>2. Restored \in [Jobs -> JobRecord]
    BY <2>1 DEF Restored
  <2>3. cut' \subseteq Jobs
    BY <2>1 DEF Restart
  <2>4. lease' \in [Jobs -> Lease]
    BY SMT DEF Restart, Lease, NoLease
  <2>5. QED
    BY <2>1, <2>2, <2>3, <2>4 DEF Restart, StoreType
<1>3. QueueType'
  <2>1. PICK stale \in SUBSET Snapshotted : pq' = Rebuilt("Pending", stale)
    BY DEF Restart
  <2>2. PICK late \in SUBSET Snapshotted : /\ dq' = Rebuilt("Scheduled", late)
                                           /\ dqHead' \in Roots(Rebuilt("Scheduled", late))
    BY DEF Restart
  <2>3. pq' \in [Jobs -> Nat] /\ dq' \in [Jobs -> Nat]
    BY SMT, <2>1, <2>2 DEF Rebuilt
  <2>4. dqHead' \in Roots(dq')
    BY <2>2
  <2>5. QED
    BY <2>3, <2>4 DEF Restart, Roots, QueueType
<1>4. PoolType'
  BY SMT DEF Restart, TypeOK, PoolType
<1>5. DispatchType'
  BY DEF Restart, dDone, TypeOK, DispatchType
<1>6. ResultType'
  BY SMT, MaxRetriesNat
  DEF Restart, rDone, Absent, JobRecord, TypeOK, ResultType
<1>7. DelayType'
  BY SMT, MaxRetriesNat
  DEF Restart, lDone, Absent, JobRecord, TypeOK, DelayType
<1>8. RecoveryType'
  BY DEF Restart, TypeOK, RecoveryType
<1>9. faults' \in 0 .. MaxFaults
  BY SMT, FaultsType DEF Restart, Fault, TypeOK
<1>10. QED
  BY <1>1, <1>2, <1>3, <1>4, <1>5, <1>6, <1>7, <1>8, <1>9, TypeStable
  DEF TypeOK

\* So does a snapshot.
LEMMA SnapshotTypeOK ==
    ASSUME TypeOK, Snapshot
    PROVE  TypeOK'
<1>1. StoreType'
  BY DEF Snapshot, TypeOK, StoreType
<1>2. QED
  BY <1>1, TypeStable DEF Snapshot, TypeOK

\* Every step keeps the types.
LEMMA NextTypeOK == TypeOK /\ [Next]_vars => TypeOK'
<1> SUFFICES ASSUME TypeOK, [Next]_vars PROVE TypeOK'
  OBVIOUS
<1>1. CASE Next
  BY <1>1, EngineTypeOK, DispatchTypeOK, HandleResultTypeOK, ProcessDelayedTypeOK,
     RecoverTypeOK, WorkerTypeOK, SnapshotTypeOK, RestartTypeOK DEF Next
<1>2. CASE UNCHANGED vars
  BY <1>2, TypeStable DEF vars, TypeOK
<1>3. QED
  BY <1>1, <1>2

\* The type invariant, with the delay queue's root always one of its entries and
\* RetryCount never above MaxRetries.
THEOREM TypeCorrect == Spec => []TypeOK
BY InitTypeOK, NextTypeOK, PTL DEF Spec
---------------------------------------------------------------------------
(***************************************************************************)
(* TopicIsolation.  CanHandle takes a worker the registry does not know    *)
(* for one that handles everything, so isolation needs that the workers in *)
(* Available are registered: nobody is evicted and the registry survives.  *)
(***************************************************************************)
TopicInv ==
    /\ \A i \in 1 .. Len(available) : workers[available[i]] # "absent"
    /\ dPc \in {"submit", "accepted"} => dJob \in Handles[dWorker]
    /\ TopicIsolation

\* Dispatch gives a job to a worker of its topic.
LEMMA DispatchTopics ==
    ASSUME TypeOK, TopicInv, Dispatch
    PROVE  TopicInv'
<1>0. /\ available \in Seq(Workers) /\ exec \in [Workers -> [Jobs -> Nat]]
      /\ dPc \in {"submit", "accepted"} => dWorker \in Workers
      /\ dPc # "idle" => dJob \in Jobs
  BY DEF TypeOK, PoolType, NodeType, DispatchType
<1>1. workers' = workers
  BY DEF Dispatch, DispatchDequeue, SkipTerminal, NoWorkerAvailable,
     SelectWorker, DeliverJob, SubmitOK, SubmitError, dOthers
<1>2. ASSUME NEW j \in Jobs, DispatchDequeue(j) \/ SkipTerminal(j)
      PROVE  TopicInv'
  BY <1>1, <1>2
  DEF DispatchDequeue, SkipTerminal, TopicInv, TopicIsolation, nodeVars, dVars
<1>3. CASE NoWorkerAvailable \/ SubmitOK \/ SubmitError
  BY <1>1, <1>3
  DEF NoWorkerAvailable, SubmitOK, SubmitError, dDone, TopicInv, TopicIsolation, nodeVars
<1>4. ASSUME NEW i \in 1 .. Len(available), SelectWorker(i)
      PROVE  TopicInv'
  <2>1. available[i] \in Workers /\ workers[available[i]] # "absent"
    BY SMT, <1>0 DEF TopicInv
  <2>2. dJob \in Handles[available[i]]
    BY <1>4, <2>1 DEF SelectWorker, CanHandle
  <2>3. \A m \in 1 .. Len(available') : \E n \in 1 .. Len(available) :
            available'[m] = available[n]
    <3> DEFINE a == SubSeq(available, i + 1, Len(available))
               b == SubSeq(available, 1, i - 1)
    <3>1. /\ a \in Seq(Workers) /\ Len(a) = Len(available) - i
          /\ \A m \in 1 .. Len(a) : a[m] = available[i + m]
      BY SMT, <1>0
    <3>2. /\ b \in Seq(Workers) /\ Len(b) = i - 1
          /\ \A m \in 1 .. Len(b) : b[m] = available[m]
      BY SMT, <1>0
    <3>3. available' = a \o b
      BY <1>4 DEF SelectWorker
    <3> HIDE DEF a, b
    <3> SUFFICES ASSUME NEW m \in 1 .. Len(available')
                 PROVE  \E n \in 1 .. Len(available) : available'[m] = available[n]
      OBVIOUS
    <3>4. Len(available) \in Nat
      BY SMT, <1>0
    <3>5. CASE m <= Len(a)
      <4>1. available'[m] = available[i + m] /\ i + m \in 1 .. Len(available)
        BY SMT, <3>1, <3>2, <3>3, <3>4, <3>5
      <4>2. QED
        BY <4>1
    <3>6. CASE m > Len(a)
      <4>1. m - Len(a) \in 1 .. Len(b) /\ available'[m] = b[m - Len(a)]
        BY SMTT(60), <3>1, <3>2, <3>3, <3>6
      <4>2. b[m - Len(a)] = available[m - Len(a)] /\ m - Len(a) \in 1 .. Len(available)
        BY SMT, <3>2, <3>4, <4>1
      <4>3. QED
        BY <4>1, <4>2
    <3>7. m <= Len(a) \/ m > Len(a)
      BY SMT, <3>1, <3>4
    <3>8. QED
      BY <3>5, <3>6, <3>7
  <2>4. QED
    BY <1>1, <1>4, <2>2, <2>3 DEF SelectWorker, TopicInv, TopicIsolation, nodeVars
<1>5. CASE DeliverJob
  <2>1. ASSUME NEW w \in Workers, NEW j \in Jobs, exec'[w][j] > 0
        PROVE  j \in Handles[w]
    <3>1. CASE w = dWorker /\ j = dJob
      BY <1>5, <3>1 DEF DeliverJob, TopicInv
    <3>2. CASE ~(w = dWorker /\ j = dJob)
      BY <1>0, <1>5, <2>1, <3>2 DEF DeliverJob, TopicInv, TopicIsolation
    <3>3. QED
      BY <3>1, <3>2
  <2>2. QED
    BY <1>1, <1>5, <2>1 DEF DeliverJob, TopicInv, TopicIsolation
<1>6. QED
  BY <1>2, <1>3, <1>4, <1>5 DEF Dispatch

\* A worker in the pool is registered, and only the dispatcher starts executions.
LEMMA WorkerTopics ==
    ASSUME TypeOK, TopicInv, "evict" \notin FaultKinds, NEW w \in Workers, WorkerStep(w)
    PROVE  TopicInv'
<1>0. /\ available \in Seq(Workers) /\ exec \in [Workers -> [Jobs -> Nat]]
      /\ workers \in [Workers -> {"absent", "alive", "dead"}]
  BY DEF TypeOK, PoolType, NodeType
<1>1. UNCHANGED dVars
  BY DEF WorkerStep, StartWorker, CrashWorker, ReportResult, LoseResult,
     Heartbeat, Timeout, Evict, wOthers
<1>2. ~Evict(w)
  BY DEF Evict, Fault
<1>3. \A u \in Workers : workers[u] # "absent" => workers'[u] # "absent"
  BY <1>0, <1>2 DEF WorkerStep, StartWorker, RegisterWorker, Register, CrashWorker,
     ReportResult, LoseResult, Heartbeat, Timeout, poolVars
<1>4. \A i \in 1 .. Len(available') : workers'[available'[i]] # "absent"
  <2>1. CASE available' = available
    <3>1. \A i \in 1 .. Len(available) : available[i] \in Workers
      BY SMT, <1>0
    <3>2. QED
      BY <1>3, <2>1, <3>1 DEF TopicInv
  <2>2. CASE available' = Append(available, w) /\ workers'[w] # "absent"
    <3>1. /\ Len(available) \in Nat /\ Len(available') = Len(available) + 1
          /\ \A i \in 1 .. Len(available) : available'[i] = available[i]
          /\ \A i \in 1 .. Len(available) : available[i] \in Workers
          /\ available'[Len(available) + 1] = w
      BY SMT, <1>0, <2>2
    <3>2. \A i \in 1 .. Len(available') : i \in 1 .. Len(available) \/ i = Len(available) + 1
      BY SMT, <3>1
    <3>3. \A i \in 1 .. Len(available) : workers'[available[i]] # "absent"
      BY <1>3, <3>1 DEF TopicInv
    <3>4. QED
      BY <2>2, <3>1, <3>2, <3>3
  <2>3. available' = available \/ (available' = Append(available, w) /\ workers'[w] # "absent")
    <3>1. CASE StartWorker(w)
      BY <1>0, <3>1 DEF StartWorker, RegisterWorker, Register, MakeAvailable
    <3>2. ASSUME NEW j \in Jobs, NEW success \in BOOLEAN, ReportResult(w, j, success)
          PROVE  available' = available
                    \/ (available' = Append(available, w) /\ workers'[w] # "absent")
      BY <3>2 DEF ReportResult, MakeAvailable
    <3>3. CASE CrashWorker(w) \/ Heartbeat(w) \/ Timeout(w)
      BY <3>3 DEF CrashWorker, Heartbeat, Timeout, poolVars
    <3>4. ASSUME NEW j \in Jobs, LoseResult(w, j)
          PROVE  available' = available
      BY <3>4 DEF LoseResult, poolVars
    <3>5. QED
      BY <1>2, <3>1, <3>2, <3>3, <3>4 DEF WorkerStep
  <2>4. QED
    BY <2>1, <2>2, <2>3
<1>5. ASSUME NEW u \in Workers, NEW j \in Jobs, exec'[u][j] > 0
      PROVE  exec[u][j] > 0
  <2>1. CASE exec' = exec
    BY <1>5, <2>1
  <2>2. CASE exec' = [exec EXCEPT ![w] = NoExec]
    BY SMT, <1>0, <1>5, <2>2 DEF NoExec
  <2>3. ASSUME NEW k \in Jobs, exec[w][k] > 0, exec' = [exec EXCEPT ![w][k] = @ - 1]
        PROVE  exec[u][j] > 0
    BY <1>0, <1>5, <2>3
  <2>4. QED
    BY <1>2, <2>1, <2>2, <2>3 DEF WorkerStep, StartWorker, CrashWorker, ReportResult,
       LoseResult, Heartbeat, Timeout, nodeVars
<1>6. QED
  BY <1>1, <1>4, <1>5 DEF TopicInv, TopicIsolation, dVars

\* As long as no worker is evicted and the control node does not restart, workers
\* execute only jobs of their topics, also after crashes, suspicions and failed RPCs.
THEOREM TopicsRespected ==
    ASSUME "evict" \notin FaultKinds, "restart" \notin FaultKinds
    PROVE  Spec => []TopicIsolation
<1>1. ASSUME Init PROVE TopicInv
  <2>1. available = <<>> /\ dPc \notin {"submit", "accepted"}
    BY <1>1 DEF Init
  <2>2. \A w \in Workers, j \in Jobs : exec[w][j] = 0
    BY <1>1 DEF Init, NoExec
  <2>3. QED
    BY SMT, <2>1, <2>2 DEF TopicInv, TopicIsolation
<1>2. TypeOK /\ TopicInv /\ [Next]_vars => TopicInv'
  <2> SUFFICES ASSUME TypeOK, TopicInv, [Next]_vars PROVE TopicInv'
    OBVIOUS
  <2>1. ASSUME UNCHANGED <<available, workers, dVars, exec>> PROVE TopicInv'
    BY <2>1 DEF TopicInv, TopicIsolation, dVars
  <2>2. ASSUME NEW j \in Jobs, SubmitJob(j) \/ SubmitJobAt(j) \/ EnqueueSubmitted(j)
                                  \/ EnqueueSubmittedAt(j) \/ CancelJob(j)
        PROVE  TopicInv'
    BY <2>1, <2>2 DEF SubmitJob, SubmitJobAt, Add, EnqueueSubmitted,
       EnqueueSubmittedAt, CancelJob, sOthers, poolVars, nodeVars
  <2>3. CASE HandleResult
    BY <2>1, <2>3 DEF HandleResult, ReceiveResult, ReleaseLease, CompleteJob, RetryJob,
       EnqueueRetry, FailJob, AddDLQ, rOthers, poolVars, nodeVars
  <2>4. CASE ProcessDelayed
    BY <2>1, <2>4 DEF ProcessDelayed, PeekDelayed, GetDelayed, DequeueDelayed,
       PromoteJob, EnqueuePromoted, lOthers, poolVars, nodeVars
  <2>5. CASE Recover
    BY <2>1, <2>5 DEF Recover, ReleaseByWorker, CheckReleased, EnqueueRecovered,
       vOthers, nodeVars
  <2>6. CASE Snapshot \/ UNCHANGED vars
    BY <2>1, <2>6 DEF Snapshot, vars, poolVars, nodeVars
  <2>7. ~Restart
    BY DEF Restart, Fault
  <2>8. QED
    BY <2>2, <2>3, <2>4, <2>5, <2>6, <2>7, DispatchTopics, WorkerTopics DEF Next
<1>3. TopicInv => TopicIsolation
  BY DEF TopicInv
<1>4. QED
  BY <1>1, <1>2, <1>3, TypeCorrect, PTL DEF Spec

---------------------------------------------------------------------------
(***************************************************************************)
(* OneJobPerWorker.  A worker process has one place: in Available, in the  *)
(* hands of dispatchLoop between SelectWorker and the RPC, or with the     *)
(* execution it runs.  The RPCs, Monitor, an eviction and a restart of the *)
(* control node may lose the place but never make a second one; a worker   *)
(* that crashed and registers again may.                                   *)
(***************************************************************************)
InPool(w) == \E i \in 1 .. Len(available) : available[i] = w

PlaceInv ==
    /\ \A i, k \in 1 .. Len(available) : available[i] = available[k] => i = k
    /\ \A i \in 1 .. Len(available) : available[i] \in up
    /\ dPc = "submit" =>
        /\ dWorker \in up /\ ~InPool(dWorker)
        /\ \A j \in Jobs : exec[dWorker][j] = 0
    /\ \A w \in Workers : \A j \in Jobs : exec[w][j] > 0 => w \in up /\ ~InPool(w)
    /\ OneJobPerWorker

\* The entries of a concatenation.
LEMMA Concatenated ==
    ASSUME NEW S, NEW a \in Seq(S), NEW b \in Seq(S)
    PROVE  /\ Len(a \o b) = Len(a) + Len(b)
           /\ \A m \in 1 .. Len(a) : (a \o b)[m] = a[m]
           /\ \A m \in 1 .. Len(b) : (a \o b)[Len(a) + m] = b[m]
  BY SMT

\* Broker.SelectWorker takes a worker out of the channel and turns the channel
\* round: distinct places stay distinct, and none is left for the worker taken out.
LEMMA SelectKeepsPlaces ==
    ASSUME NEW S, NEW s \in Seq(S), NEW i \in 1 .. Len(s)
    PROVE  LET t == SubSeq(s, i + 1, Len(s)) \o SubSeq(s, 1, i - 1) IN
           (\A m, n \in 1 .. Len(s) : s[m] = s[n] => m = n) =>
           /\ \A m \in 1 .. Len(t) : \E n \in 1 .. Len(s) : t[m] = s[n]
           /\ \A m, n \in 1 .. Len(t) : t[m] = t[n] => m = n
           /\ \A m \in 1 .. Len(t) : t[m] # s[i]
<1> DEFINE a == SubSeq(s, i + 1, Len(s))
           b == SubSeq(s, 1, i - 1)
           t == a \o b
           At(m) == IF m <= Len(s) - i THEN i + m ELSE m - (Len(s) - i)
<1>1. /\ a \in Seq(S) /\ Len(a) = Len(s) - i
      /\ \A m \in 1 .. Len(a) : a[m] = s[i + m]
  BY SMT
<1>2. /\ b \in Seq(S) /\ Len(b) = i - 1
      /\ \A m \in 1 .. Len(b) : b[m] = s[m]
  BY SMT
<1>3. Len(s) \in Nat
  BY SMT
<1> HIDE DEF a, b
<1>4. Len(t) = Len(s) - 1
  <2>1. Len(t) = Len(a) + Len(b)
    <3>1. a \in Seq(S) /\ b \in Seq(S)
      BY <1>1, <1>2
    <3>2. QED
      BY <3>1, Concatenated
  <2>2. QED
    BY SMT, <1>1, <1>2, <1>3, <2>1
<1>5. /\ \A m \in 1 .. Len(a) : t[m] = a[m]
      /\ \A m \in 1 .. Len(b) : t[Len(a) + m] = b[m]
  BY SMTT(60), <1>1, <1>2, Concatenated
<1> HIDE DEF t
<1>6. ASSUME NEW m \in 1 .. Len(t)
      PROVE  At(m) \in 1 .. Len(s) /\ At(m) # i /\ t[m] = s[At(m)]
  <2>1. CASE m <= Len(s) - i
    <3>1. m \in 1 .. Len(a) /\ i + m \in 1 .. Len(s) /\ i + m # i
      BY SMT, <1>1, <1>3, <1>4, <2>1
    <3>2. QED
      BY <1>1, <1>5, <2>1, <3>1
  <2>2. CASE ~(m <= Len(s) - i)
    <3>1. m - Len(a) \in 1 .. Len(b) /\ m = Len(a) + (m - Len(a))
      BY SMT, <1>1, <1>2, <1>3, <1>4, <2>2
    <3>2. t[m] = b[m - Len(a)]
      BY <1>5, <3>1
    <3>3. QED
      BY SMTT(60), <1>1, <1>2, <1>3, <1>4, <2>2, <3>1, <3>2
  <2>3. QED
    BY <2>1, <2>2
<1>7. \A m, n \in 1 .. Len(t) : At(m) = At(n) => m = n
  BY SMT, <1>3, <1>4
<1> HIDE DEF At
<1>8. ASSUME \A m, n \in 1 .. Len(s) : s[m] = s[n] => m = n
      PROVE  /\ \A m \in 1 .. Len(t) : \E n \in 1 .. Len(s) : t[m] = s[n]
             /\ \A m, n \in 1 .. Len(t) : t[m] = t[n] => m = n
             /\ \A m \in 1 .. Len(t) : t[m] # s[i]
  <2>1. \A m \in 1 .. Len(t) : \E n \in 1 .. Len(s) : t[m] = s[n]
    BY <1>6
  <2>2. \A m, n \in 1 .. Len(t) : t[m] = t[n] => m = n
    BY <1>6, <1>7, <1>8
  <2>3. \A m \in 1 .. Len(t) : t[m] # s[i]
    BY <1>6, <1>8
  <2>4. QED
    BY <2>1, <2>2, <2>3
<1>9. QED
  BY <1>8 DEF t, a, b

\* Dispatch moves a place from the pool into its own hands and on to the worker.
LEMMA DispatchPlaces ==
    ASSUME TypeOK, PlaceInv, Dispatch
    PROVE  PlaceInv'
<1>0. /\ available \in Seq(Workers) /\ exec \in [Workers -> [Jobs -> Nat]]
      /\ dPc \in {"submit", "accepted"} => dWorker \in Workers
      /\ dPc # "idle" => dJob \in Jobs
  BY DEF TypeOK, PoolType, NodeType, DispatchType
<1>1. ASSUME UNCHANGED <<available, up, exec>>, dPc' # "submit"
      PROVE  PlaceInv'
  BY ZenonT(60), <1>1 DEF PlaceInv, OneJobPerWorker, InPool
<1>2. ASSUME NEW j \in Jobs, DispatchDequeue(j) \/ SkipTerminal(j)
      PROVE  PlaceInv'
  BY <1>1, <1>2 DEF DispatchDequeue, SkipTerminal, nodeVars, dVars
<1>3. CASE NoWorkerAvailable \/ SubmitOK \/ SubmitError
  BY <1>1, <1>3 DEF NoWorkerAvailable, SubmitOK, SubmitError, dDone, nodeVars
<1>4. ASSUME NEW i \in 1 .. Len(available), SelectWorker(i)
      PROVE  PlaceInv'
  <2>0. PICK v \in Workers : v = available[i]
    BY SMT, <1>0
  <2>1. /\ available' = SubSeq(available, i + 1, Len(available))
                            \o SubSeq(available, 1, i - 1)
        /\ dWorker' = v /\ dPc' = "submit"
        /\ up' = up /\ exec' = exec
    BY <1>4, <2>0 DEF SelectWorker, nodeVars
  <2>2. \A m, n \in 1 .. Len(available) : available[m] = available[n] => m = n
    BY DEF PlaceInv
  <2>3. /\ \A m \in 1 .. Len(available') : \E n \in 1 .. Len(available) :
              available'[m] = available[n]
        /\ \A m, n \in 1 .. Len(available') : available'[m] = available'[n] => m = n
        /\ \A m \in 1 .. Len(available') : available'[m] # available[i]
    <3> DEFINE t == SubSeq(available, i + 1, Len(available))
                        \o SubSeq(available, 1, i - 1)
    <3>1. /\ \A m \in 1 .. Len(t) : \E n \in 1 .. Len(available) : t[m] = available[n]
          /\ \A m, n \in 1 .. Len(t) : t[m] = t[n] => m = n
          /\ \A m \in 1 .. Len(t) : t[m] # available[i]
      BY <1>0, <2>2, SelectKeepsPlaces
    <3>2. available' = t
      BY <2>1
    <3> HIDE DEF t
    <3>3. QED
      BY <3>1, <3>2
  <2>4. \A w \in Workers : InPool(w)' => InPool(w)
    BY <2>3 DEF InPool
  <2>5. v \in up /\ InPool(v)
    BY <2>0 DEF PlaceInv, InPool
  <2>6. ~InPool(v)'
    BY <2>0, <2>3 DEF InPool
  <2>7. \A j \in Jobs : exec[v][j] = 0
    BY SMT, <1>0, <2>5 DEF PlaceInv
  <2>8. \A m \in 1 .. Len(available') : available'[m] \in up
    BY <2>3 DEF PlaceInv
  <2>9. (dPc = "submit" => dWorker \in up /\ ~InPool(dWorker)
                              /\ \A j \in Jobs : exec[dWorker][j] = 0)'
    BY <2>1, <2>5, <2>6, <2>7 DEF InPool
  <2>10. \A w \in Workers : \A j \in Jobs : exec[w][j] > 0 => w \in up /\ ~InPool(w)'
    BY <2>4 DEF PlaceInv
  <2>11. QED
    BY ZenonT(60), <2>1, <2>3, <2>8, <2>9, <2>10 DEF PlaceInv, OneJobPerWorker
<1>5. CASE DeliverJob
  <2>1. /\ dPc = "submit" /\ dWorker \in Workers /\ dJob \in Jobs
        /\ exec' = [exec EXCEPT ![dWorker][dJob] = @ + 1]
        /\ dPc' = "accepted" /\ up' = up /\ available' = available
    BY <1>0, <1>5 DEF DeliverJob
  <2>2. /\ dWorker \in up /\ ~InPool(dWorker)
        /\ \A j \in Jobs : exec[dWorker][j] = 0
    BY <2>1 DEF PlaceInv
  <2>3. /\ \A w \in Workers : w # dWorker => exec'[w] = exec[w]
        /\ \A j \in Jobs : exec'[dWorker][j] = IF j = dJob THEN 1 ELSE 0
    BY SMT, <1>0, <2>1, <2>2
  <2>4. \A w \in Workers : \A j \in Jobs : exec'[w][j] > 0 => w \in up /\ ~InPool(w)
    BY <2>2, <2>3 DEF PlaceInv
  <2>5. OneJobPerWorker'
    BY SMT, <2>3 DEF PlaceInv, OneJobPerWorker
  <2>6. QED
    BY <2>1, <2>4, <2>5 DEF PlaceInv, InPool
<1>6. QED
  BY <1>2, <1>3, <1>4, <1>5 DEF Dispatch

\* A worker gets a place when it registers, once in its life, and when it hands
\* in the result of the one execution it had.
LEMMA WorkerPlaces ==
    ASSUME TypeOK, PlaceInv, "crash" \notin FaultKinds, NEW w \in Workers, WorkerStep(w)
    PROVE  PlaceInv'
<1>0. /\ available \in Seq(Workers) /\ exec \in [Workers -> [Jobs -> Nat]]
      /\ dPc = "submit" => dWorker \in Workers
  BY DEF TypeOK, PoolType, NodeType, DispatchType
<1>1. UNCHANGED dVars /\ ~CrashWorker(w)
  BY DEF WorkerStep, StartWorker, CrashWorker, ReportResult, LoseResult,
     Heartbeat, Timeout, Evict, wOthers, Fault
<1>2. ASSUME UNCHANGED <<available, up, exec>> PROVE PlaceInv'
  BY ZenonT(60), <1>1, <1>2 DEF PlaceInv, OneJobPerWorker, InPool, dVars
<1>3. CASE Heartbeat(w) \/ Timeout(w) \/ Evict(w)
  BY <1>2, <1>3 DEF Heartbeat, Timeout, Evict, Remove, nodeVars
\* A step that leaves w without an execution, running, and not in dispatchLoop's
\* hands may put it back; every other worker is left alone.
<1>4. ASSUME /\ available' \in {available, Append(available, w)}
             /\ up \subseteq up'
             /\ \A u \in Workers : u # w => exec'[u] = exec[u]
             /\ \A j \in Jobs : exec'[w][j] = 0
             /\ w \in up' /\ ~InPool(w)
             /\ dPc = "submit" => dWorker # w
      PROVE  PlaceInv'
  <2>1. Len(available) \in Nat
    BY SMT, <1>0
  <2>2. \A i \in 1 .. Len(available') :
            \/ i \in 1 .. Len(available) /\ available'[i] = available[i]
            \/ i = Len(available) + 1 /\ available'[i] = w
    <3>1. CASE available' = available
      BY <3>1
    <3>2. CASE available' = Append(available, w)
      <4>1. /\ Len(available') = Len(available) + 1
            /\ \A i \in 1 .. Len(available) : available'[i] = available[i]
            /\ available'[Len(available) + 1] = w
        BY SMT, <1>0, <3>2
      <4>2. QED
        BY SMT, <2>1, <4>1
    <3>3. QED
      BY <1>4, <3>1, <3>2
  <2>3. \A i, k \in 1 .. Len(available') : available'[i] = available'[k] => i = k
    BY ZenonT(60), <1>4, <2>2 DEF PlaceInv, InPool
  <2>4. \A i \in 1 .. Len(available') : available'[i] \in up'
    BY <1>4, <2>2 DEF PlaceInv
  <2>5. \A u \in Workers : u # w /\ InPool(u)' => InPool(u)
    BY <2>2 DEF InPool
  <2>6. \A u \in Workers : \A j \in Jobs : exec'[u][j] > 0 => u \in up' /\ ~InPool(u)'
    BY SMT, <1>4, <2>5 DEF PlaceInv
  <2>7. OneJobPerWorker'
    BY SMT, <1>4 DEF PlaceInv, OneJobPerWorker
  <2>8. (dPc = "submit" => dWorker \in up /\ ~InPool(dWorker)
                              /\ \A j \in Jobs : exec[dWorker][j] = 0)'
    <3>1. SUFFICES ASSUME dPc' = "submit"
                   PROVE  (dWorker \in up /\ ~InPool(dWorker)
                              /\ \A j \in Jobs : exec[dWorker][j] = 0)'
      OBVIOUS
    <3>2. dWorker' = dWorker /\ dPc = "submit" /\ dWorker \in Workers /\ dWorker # w
      BY <1>0, <1>1, <1>4, <3>1 DEF dVars
    <3>3. ~InPool(dWorker)'
      BY <2>5, <3>2 DEF PlaceInv, InPool
    <3>4. QED
      BY <1>4, <3>2, <3>3 DEF PlaceInv
  <2>9. QED
    BY <2>3, <2>4, <2>6, <2>7, <2>8 DEF PlaceInv
<1>5. CASE StartWorker(w)
  <2>1. /\ w \notin up /\ up' = up \cup {w} /\ exec' = exec
        /\ available' \in {available, Append(available, w)}
    BY <1>5 DEF StartWorker, RegisterWorker, MakeAvailable
  <2>2. ~InPool(w) /\ (dPc = "submit" => dWorker # w)
    BY <2>1 DEF PlaceInv, InPool
  <2>3. \A j \in Jobs : exec[w][j] = 0
    BY SMT, <1>0, <2>1 DEF PlaceInv
  <2>4. QED
    BY <1>4, <2>1, <2>2, <2>3
\* The end of the one execution of w.
<1>6. ASSUME NEW j \in Jobs, exec[w][j] > 0, exec' = [exec EXCEPT ![w][j] = @ - 1],
             available' \in {available, Append(available, w)}, up' = up
      PROVE  PlaceInv'
  <2>1. w \in up /\ ~InPool(w) /\ (dPc = "submit" => dWorker # w)
    BY SMTT(60), <1>0, <1>6 DEF PlaceInv
  <2>2. exec[w][j] = 1 /\ \A k \in Jobs : k # j => exec[w][k] = 0
    BY SMT, <1>0, <1>6 DEF PlaceInv, OneJobPerWorker
  <2>3. /\ \A k \in Jobs : exec'[w][k] = 0
        /\ \A u \in Workers : u # w => exec'[u] = exec[u]
    BY SMT, <1>0, <1>6, <2>2
  <2>4. QED
    BY <1>4, <1>6, <2>1, <2>3
<1>7. ASSUME NEW j \in Jobs, NEW success \in BOOLEAN, ReportResult(w, j, success)
      PROVE  PlaceInv'
  <2>1. /\ exec[w][j] > 0 /\ exec' = [exec EXCEPT ![w][j] = @ - 1]
        /\ available' \in {available, Append(available, w)} /\ up' = up
    BY <1>7 DEF ReportResult, MakeAvailable
  <2>2. QED
    BY <1>6, <2>1
<1>8. ASSUME NEW j \in Jobs, LoseResult(w, j)
      PROVE  PlaceInv'
  <2>1. /\ exec[w][j] > 0 /\ exec' = [exec EXCEPT ![w][j] = @ - 1]
        /\ available' = available /\ up' = up
    BY <1>8 DEF LoseResult, poolVars
  <2>2. QED
    BY <1>6, <2>1
<1>9. QED
  BY <1>1, <1>3, <1>5, <1>7, <1>8 DEF WorkerStep

\* As long as no worker process crashes, places are kept apart.
LEMMA PlacesKept ==
    ASSUME "crash" \notin FaultKinds
    PROVE  Spec => []PlaceInv
<1>1. ASSUME Init PROVE PlaceInv
  <2>1. available = <<>> /\ dPc # "submit"
    BY <1>1 DEF Init
  <2>2. \A w \in Workers, j \in Jobs : exec[w][j] = 0
    BY <1>1 DEF Init, NoExec
  <2>3. QED
    BY SMT, <2>1, <2>2 DEF PlaceInv, OneJobPerWorker
<1>2. TypeOK /\ PlaceInv /\ [Next]_vars => PlaceInv'
  <2> SUFFICES ASSUME TypeOK, PlaceInv, [Next]_vars PROVE PlaceInv'
    OBVIOUS
  <2>1. ASSUME UNCHANGED <<available, up, exec, dVars>> PROVE PlaceInv'
    BY ZenonT(60), <2>1 DEF PlaceInv, OneJobPerWorker, InPool, dVars
  <2>2. ASSUME NEW j \in Jobs, SubmitJob(j) \/ SubmitJobAt(j) \/ EnqueueSubmitted(j)
                                  \/ EnqueueSubmittedAt(j) \/ CancelJob(j)
        PROVE  PlaceInv'
    BY <2>1, <2>2 DEF SubmitJob, SubmitJobAt, Add, EnqueueSubmitted,
       EnqueueSubmittedAt, CancelJob, sOthers, poolVars, nodeVars
  <2>3. CASE HandleResult
    BY <2>1, <2>3 DEF HandleResult, ReceiveResult, ReleaseLease, CompleteJob, RetryJob,
       EnqueueRetry, FailJob, AddDLQ, rOthers, poolVars, nodeVars
  <2>4. CASE ProcessDelayed
    BY <2>1, <2>4 DEF ProcessDelayed, PeekDelayed, GetDelayed, DequeueDelayed,
       PromoteJob, EnqueuePromoted, lOthers, poolVars, nodeVars
  <2>5. CASE Recover
    BY <2>1, <2>5 DEF Recover, ReleaseByWorker, CheckReleased, EnqueueRecovered,
       vOthers, nodeVars
  <2>6. CASE Snapshot \/ UNCHANGED vars
    BY <2>1, <2>6 DEF Snapshot, vars, poolVars, nodeVars
  <2>7. CASE Restart
    <3>1. available' = <<>> /\ dPc' = "idle" /\ up' = up /\ exec' = exec
      BY <2>7 DEF Restart, dDone, nodeVars
    <3>2. \A i \in 1 .. Len(available') : FALSE
      BY SMT, <3>1
    <3>3. \A w \in Workers : ~InPool(w)'
      BY <3>2 DEF InPool
    <3>4. OneJobPerWorker'
      BY <3>1 DEF PlaceInv, OneJobPerWorker
    <3>5. QED
      BY <3>1, <3>2, <3>3, <3>4 DEF PlaceInv
  <2>8. QED
    BY <2>2, <2>3, <2>4, <2>5, <2>6, <2>7, DispatchPlaces, WorkerPlaces DEF Next
<1>3. QED
  BY <1>1, <1>2, TypeCorrect, PTL DEF Spec

\* As long as no worker process crashes, a worker executes at most one job at a
\* time, whatever suspicions, failed RPCs, evictions and restarts of the control
\* node there are: its place in Available comes back only with its result.
THEOREM OneExecutionEach ==
    ASSUME "crash" \notin FaultKinds
    PROVE  Spec => []OneJobPerWorker
<1>1. PlaceInv => OneJobPerWorker
  BY DEF PlaceInv
<1>2. QED
  BY <1>1, PlacesKept, PTL

---------------------------------------------------------------------------
(***************************************************************************)
(* No place is lost either, when nothing but false suspicions goes wrong   *)
(* and Available has room for all workers.                                 *)
(***************************************************************************)
\* A running worker is in Available, in the hands of dispatchLoop, or executing, and
\* the registry knows it.
PlacedInv ==
    \A w \in up :
        /\ \/ InPool(w)
           \/ dPc = "submit" /\ dWorker = w
           \/ \E j \in Jobs : exec[w][j] > 0
        /\ workers[w] # "absent"

\* A channel that holds each worker at most once, and w not at all, is not full.
LEMMA RoomForWorker ==
    ASSUME NEW S, IsFiniteSet(S), NEW s \in Seq(S), NEW w \in S,
           \A i, k \in 1 .. Len(s) : s[i] = s[k] => i = k,
           \A i \in 1 .. Len(s) : s[i] # w
    PROVE  Len(s) < Cardinality(S)
<1> DEFINE f == [i \in 1 .. Len(s) |-> s[i]]
<1>1. Len(s) \in Nat /\ \A i \in 1 .. Len(s) : s[i] \in S
  BY SMT
<1>2. f \in Injection(1 .. Len(s), S \ {w})
  <2>1. f \in [1 .. Len(s) -> S \ {w}]
    BY <1>1
  <2>2. \A i, k \in 1 .. Len(s) : f[i] = f[k] => i = k
    OBVIOUS
  <2>3. QED
    BY <2>1, <2>2 DEF Injection, IsInjective
<1>3. IsFiniteSet(S \ {w}) /\ Cardinality(S \ {w}) = Cardinality(S) - 1
  BY FS_RemoveElement
<1> HIDE DEF f
<1>4. Cardinality(1 .. Len(s)) <= Cardinality(S \ {w})
  BY ZenonT(60), <1>2, <1>3, FS_Injection
<1>5. Cardinality(1 .. Len(s)) = Len(s)
  <2>1. 1 \in Int /\ Len(s) \in Int
    BY SMT, <1>1
  <2>2. Cardinality(1 .. Len(s)) = IF 1 > Len(s) THEN 0 ELSE Len(s) - 1 + 1
    BY <2>1, FS_Interval
  <2>3. QED
    BY SMT, <1>1, <2>2
<1>6. Cardinality(S) \in Nat
  BY FS_CardinalityType
<1>7. QED
  BY SMT, <1>1, <1>3, <1>4, <1>5, <1>6

\* A place that comes back finds room.
LEMMA PlaceTaken ==
    ASSUME TypeOK, PlaceInv, IsFiniteSet(Workers), AvailableCap \in Nat,
           Cardinality(Workers) <= AvailableCap,
           NEW w \in Workers, ~InPool(w), MakeAvailable(w)
    PROVE  InPool(w)' /\ \A u \in Workers : InPool(u) => InPool(u)'
<1>1. available \in Seq(Workers)
  BY DEF TypeOK, PoolType
<1>2. Len(available) < Cardinality(Workers)
  BY <1>1, RoomForWorker DEF PlaceInv, InPool
<1>3. Len(available) < AvailableCap
  BY SMT, <1>1, <1>2, FS_CardinalityType
<1>4. available' = Append(available, w)
  BY <1>3 DEF MakeAvailable
<1>5. /\ Len(available) + 1 \in 1 .. Len(available') /\ available'[Len(available) + 1] = w
      /\ \A i \in 1 .. Len(available) : i \in 1 .. Len(available')
                                        /\ available'[i] = available[i]
  BY SMT, <1>1, <1>4
<1>6. QED
  BY <1>5 DEF InPool

\* Broker.SelectWorker drops no worker but the one it takes.
LEMMA SelectKeepsOthers ==
    ASSUME NEW S, NEW s \in Seq(S), NEW i \in 1 .. Len(s), NEW n \in 1 .. Len(s), n # i
    PROVE  LET t == SubSeq(s, i + 1, Len(s)) \o SubSeq(s, 1, i - 1)
           IN  \E m \in 1 .. Len(t) : t[m] = s[n]
<1> DEFINE a == SubSeq(s, i + 1, Len(s))
           b == SubSeq(s, 1, i - 1)
           t == a \o b
<1>1. a \in Seq(S) /\ Len(a) = Len(s) - i /\ \A m \in 1 .. Len(a) : a[m] = s[i + m]
  BY SMT
<1>2. b \in Seq(S) /\ Len(b) = i - 1 /\ \A m \in 1 .. Len(b) : b[m] = s[m]
  BY SMT
<1>3. Len(s) \in Nat
  BY SMT
<1> HIDE DEF a, b
<1>4. /\ Len(t) = Len(a) + Len(b)
      /\ \A m \in 1 .. Len(a) : t[m] = a[m]
      /\ \A m \in 1 .. Len(b) : t[Len(a) + m] = b[m]
  <2>1. a \in Seq(S) /\ b \in Seq(S)
    BY <1>1, <1>2
  <2>2. Len(t) = Len(a) + Len(b)
    BY <2>1, Concatenated
  <2>3. \A m \in 1 .. Len(a) : t[m] = a[m]
    BY <2>1, Concatenated
  <2>4. \A m \in 1 .. Len(b) : t[Len(a) + m] = b[m]
    BY SMTT(60), <1>1, <1>2, Concatenated
  <2>5. QED
    BY <2>2, <2>3, <2>4
<1> HIDE DEF t
<1>5. CASE n > i
  <2>1. n - i \in 1 .. Len(a) /\ n - i \in 1 .. Len(t) /\ i + (n - i) = n
    BY SMT, <1>1, <1>2, <1>3, <1>4, <1>5
  <2>2. t[n - i] = s[n]
    BY <1>1, <1>4, <2>1
  <2>3. QED
    BY <2>1, <2>2 DEF t, a, b
<1>6. CASE n < i
  <2>1. n \in 1 .. Len(b) /\ Len(a) + n \in 1 .. Len(t)
    BY SMT, <1>1, <1>2, <1>3, <1>4, <1>6
  <2>2. t[Len(a) + n] = s[n]
    BY <1>2, <1>4, <2>1
  <2>3. QED
    BY <2>1, <2>2 DEF t, a, b
<1>7. n > i \/ n < i
  BY SMT, <1>3
<1>8. QED
  BY <1>5, <1>6, <1>7

\* Dispatch puts a place down only where the worker executes.
LEMMA DispatchPlaced ==
    ASSUME TypeOK, PlaceInv, PlacedInv, "rpc" \notin FaultKinds, Dispatch
    PROVE  PlacedInv'
<1>0. /\ available \in Seq(Workers) /\ exec \in [Workers -> [Jobs -> Nat]]
      /\ dPc \in {"submit", "accepted"} => dWorker \in Workers
      /\ dPc # "idle" => dJob \in Jobs
      /\ up \subseteq Workers
  BY DEF TypeOK, PoolType, NodeType, DispatchType
<1>1. ASSUME UNCHANGED <<available, up, exec, workers>>, dPc # "submit"
      PROVE  PlacedInv'
  BY <1>1 DEF PlacedInv, InPool
<1>2. ASSUME NEW j \in Jobs, DispatchDequeue(j) \/ SkipTerminal(j)
      PROVE  PlacedInv'
  BY <1>1, <1>2 DEF DispatchDequeue, SkipTerminal, nodeVars, dOthers
<1>3. CASE NoWorkerAvailable \/ SubmitOK
  BY <1>1, <1>3 DEF NoWorkerAvailable, SubmitOK, nodeVars, dOthers
<1>4. CASE SubmitError
  <2>1. dPc # "submit"
    BY <1>4 DEF SubmitError, Fault, PlaceInv
  <2>2. QED
    BY <1>1, <1>4, <2>1 DEF SubmitError, nodeVars, dOthers
<1>5. ASSUME NEW i \in 1 .. Len(available), SelectWorker(i)
      PROVE  PlacedInv'
  <2>1. /\ available' = SubSeq(available, i + 1, Len(available))
                            \o SubSeq(available, 1, i - 1)
        /\ dPc = "fetched" /\ dPc' = "submit" /\ dWorker' = available[i]
        /\ up' = up /\ exec' = exec /\ workers' = workers
    BY <1>5 DEF SelectWorker, nodeVars, dOthers
  <2>2. \A n \in 1 .. Len(available) : n # i =>
            \E m \in 1 .. Len(available') : available'[m] = available[n]
    BY <1>0, <2>1, SelectKeepsOthers
  <2>3. ASSUME NEW w \in up, InPool(w) PROVE InPool(w)' \/ dWorker' = w
    BY <2>1, <2>2, <2>3 DEF InPool
  <2>4. QED
    BY <2>1, <2>3 DEF PlacedInv
<1>6. CASE DeliverJob
  <2>1. /\ dPc = "submit" /\ dWorker \in Workers /\ dJob \in Jobs
        /\ exec' = [exec EXCEPT ![dWorker][dJob] = @ + 1]
        /\ up' = up /\ available' = available /\ workers' = workers
    BY <1>0, <1>6 DEF DeliverJob, dOthers
  <2>2. /\ \A w \in Workers : w # dWorker => exec'[w] = exec[w]
        /\ exec'[dWorker][dJob] > 0
    BY SMT, <1>0, <2>1
  <2>3. ASSUME NEW w \in up PROVE InPool(w)' \/ \E j \in Jobs : exec'[w][j] > 0
    <3>1. CASE w = dWorker
      BY <2>1, <2>2, <3>1
    <3>2. CASE w # dWorker
      BY <1>0, <2>1, <2>2, <2>3, <3>2 DEF PlacedInv, InPool
    <3>3. QED
      BY <3>1, <3>2
  <2>4. QED
    BY <2>1, <2>3 DEF PlacedInv
<1>7. QED
  BY <1>2, <1>3, <1>4, <1>5, <1>6 DEF Dispatch

\* A worker that registers or reports gets a place, and Monitor takes none.
LEMMA WorkerPlaced ==
    ASSUME TypeOK, PlaceInv, PlacedInv, FaultKinds \subseteq {"suspect"},
           IsFiniteSet(Workers), AvailableCap \in Nat, Cardinality(Workers) <= AvailableCap,
           NEW w \in Workers, WorkerStep(w)
    PROVE  PlacedInv'
<1>0. /\ exec \in [Workers -> [Jobs -> Nat]] /\ up \subseteq Workers
      /\ workers \in [Workers -> {"absent", "alive", "dead"}]
  BY DEF TypeOK, PoolType, NodeType
<1>1. /\ UNCHANGED dVars /\ ~CrashWorker(w) /\ ~Evict(w)
      /\ \A j \in Jobs : ~LoseResult(w, j)
  BY DEF WorkerStep, StartWorker, CrashWorker, ReportResult, LoseResult,
     Heartbeat, Timeout, Evict, wOthers, Fault
<1>2. CASE Heartbeat(w) \/ Timeout(w)
  <2>1. UNCHANGED <<available, up, exec>> /\ workers' \in {[workers EXCEPT ![w] = "alive"],
                                                          [workers EXCEPT ![w] = "dead"]}
    BY <1>2 DEF Heartbeat, Timeout, nodeVars
  <2>2. \A u \in Workers : workers[u] # "absent" => workers'[u] # "absent"
    BY <1>0, <2>1
  <2>3. QED
    BY <1>0, <1>1, <2>1, <2>2 DEF PlacedInv, InPool, dVars
<1>3. ASSUME /\ MakeAvailable(w) /\ ~InPool(w)
             /\ up' \subseteq up \cup {w}
             /\ \A u \in Workers : u # w => exec'[u] = exec[u]
             /\ \A u \in Workers : u # w => workers'[u] = workers[u]
             /\ workers'[w] # "absent"
      PROVE  PlacedInv'
  <2>1. InPool(w)' /\ \A u \in Workers : InPool(u) => InPool(u)'
    BY <1>3, PlaceTaken
  <2>2. ASSUME NEW u \in up', u # w
        PROVE  /\ \/ InPool(u)'
                  \/ dPc' = "submit" /\ dWorker' = u
                  \/ \E j \in Jobs : exec'[u][j] > 0
               /\ workers'[u] # "absent"
    BY <1>0, <1>1, <1>3, <2>1, <2>2 DEF PlacedInv, dVars
  <2>3. QED
    BY <1>3, <2>1, <2>2 DEF PlacedInv
<1>4. CASE StartWorker(w)
  <2>1. /\ w \notin up /\ up' = up \cup {w} /\ exec' = exec /\ MakeAvailable(w)
        /\ workers' = [workers EXCEPT ![w] = "alive"]
    BY <1>4 DEF StartWorker, RegisterWorker, Register
  <2>2. ~InPool(w)
    BY <2>1 DEF PlaceInv, InPool
  <2>3. workers'[w] # "absent" /\ \A u \in Workers : u # w => workers'[u] = workers[u]
    BY <1>0, <2>1
  <2>4. QED
    BY <1>3, <2>1, <2>2, <2>3
<1>5. ASSUME NEW j \in Jobs, NEW success \in BOOLEAN, ReportResult(w, j, success)
      PROVE  PlacedInv'
  <2>1. /\ exec[w][j] > 0 /\ exec' = [exec EXCEPT ![w][j] = @ - 1]
        /\ up' = up /\ workers' = workers
    BY <1>5 DEF ReportResult
  <2>2. w \in up /\ ~InPool(w)
    BY <2>1 DEF PlaceInv
  <2>3. workers[w] # "absent"
    BY <2>2 DEF PlacedInv
  <2>4. MakeAvailable(w)
    BY <1>5, <2>3 DEF ReportResult
  <2>5. \A u \in Workers : u # w => exec'[u] = exec[u]
    BY <1>0, <2>1
  <2>6. QED
    BY <1>3, <2>1, <2>2, <2>3, <2>4, <2>5
<1>6. QED
  BY <1>1, <1>2, <1>4, <1>5 DEF WorkerStep

\* A running worker is in Available, in the hands of dispatchLoop between
\* SelectWorker and its RPC, or executing.
NoWorkerForgotten ==
    \A w \in up : \/ InPool(w)
                  \/ dPc = "submit" /\ dWorker = w
                  \/ \E j \in Jobs : exec[w][j] > 0

\* The pool leaks no worker: as long as no RPC fails, no worker crashes or is evicted
\* and the control node does not restart, every worker that runs can be given a job
\* or has one, however often Monitor suspects it, if Available has room for all.
\* (MakeAvailable drops the place of a worker silently when the channel is full: it
\* never is.)
THEOREM PoolLeaksNoWorker ==
    ASSUME FaultKinds \subseteq {"suspect"}, IsFiniteSet(Workers), AvailableCap \in Nat,
           Cardinality(Workers) <= AvailableCap
    PROVE  Spec => []NoWorkerForgotten
<1>1. Init => PlacedInv
  BY DEF Init, PlacedInv
<1>2. TypeOK /\ PlaceInv /\ PlacedInv /\ [Next]_vars => PlacedInv'
  <2> SUFFICES ASSUME TypeOK, PlaceInv, PlacedInv, [Next]_vars PROVE PlacedInv'
    OBVIOUS
  <2>1. ASSUME UNCHANGED <<available, workers, up, exec, dVars>> PROVE PlacedInv'
    BY <2>1 DEF PlacedInv, InPool, dVars
  <2>2. ASSUME NEW j \in Jobs, SubmitJob(j) \/ SubmitJobAt(j) \/ EnqueueSubmitted(j)
                                  \/ EnqueueSubmittedAt(j) \/ CancelJob(j)
        PROVE  PlacedInv'
    BY <2>1, <2>2 DEF SubmitJob, SubmitJobAt, Add, EnqueueSubmitted,
       EnqueueSubmittedAt, CancelJob, sOthers, poolVars, nodeVars
  <2>3. CASE HandleResult
    BY <2>1, <2>3 DEF HandleResult, ReceiveResult, ReleaseLease, CompleteJob, RetryJob,
       EnqueueRetry, FailJob, AddDLQ, rOthers, poolVars, nodeVars
  <2>4. CASE ProcessDelayed
    BY <2>1, <2>4 DEF ProcessDelayed, PeekDelayed, GetDelayed, DequeueDelayed,
       PromoteJob, EnqueuePromoted, lOthers, poolVars, nodeVars
  <2>5. CASE Recover
    BY <2>1, <2>5 DEF Recover, ReleaseByWorker, CheckReleased, EnqueueRecovered,
       vOthers, nodeVars
  <2>6. CASE Snapshot \/ UNCHANGED vars
    BY <2>1, <2>6 DEF Snapshot, vars, poolVars, nodeVars
  <2>7. ~Restart /\ "rpc" \notin FaultKinds
    BY DEF Restart, Fault
  <2>8. QED
    BY <2>2, <2>3, <2>4, <2>5, <2>6, <2>7, DispatchPlaced, WorkerPlaced DEF Next
<1>3. PlacedInv => NoWorkerForgotten
  BY DEF PlacedInv, NoWorkerForgotten
<1>4. "crash" \notin FaultKinds
  OBVIOUS
<1>5. QED
  BY <1>1, <1>2, <1>3, <1>4, PlacesKept, TypeCorrect, PTL DEF Spec
===========================================================================
