------------------------- MODULE WorkerNodeProofs -------------------------
(***************************************************************************)
(* Proofs about CircuitBreaker and about WorkerNode, which drives it, for  *)
(* every number of goroutines, places, tokens, every threshold and every   *)
(* capacity of the results channel.                                        *)
(*                                                                         *)
(* Of the breaker, HalfOpenHasTrial is not inductive alone: that the end   *)
(* of ANY call takes a half-open breaker out of that state rests on        *)
(* OpenMeansFailures (one more failure reaches the threshold again).       *)
(*                                                                         *)
(* That sendResult never drops rests on a conservation law: a place of the *)
(* worker is in the control node's pool, with a goroutine, with a waiting  *)
(* result, or gone with a dropped result or a failed RPC.                  *)
(***************************************************************************)
EXTENDS WorkerNode, FiniteSetTheorems, TLAPS

\* Leaves are for Zenon unless they name another prover: SMT for arithmetic,
\* sequences and function updates, PTL for temporal steps.
USE Zenon

IInv == TypeOK /\ OpenMeansFailures /\ HalfOpenHasTrial

\* A new breaker is closed.
LEMMA InitIInv == Init => IInv
<1> SUFFICES ASSUME Init PROVE IInv
  OBVIOUS
<1>1. TypeOK
  <2>1. call \in [Callers -> {"idle", "call", "trial"}]
    BY DEF Init
  <2>2. QED
    BY <2>1 DEF Init, TypeOK
<1>2. OpenMeansFailures /\ HalfOpenHasTrial
  BY DEF Init, OpenMeansFailures, HalfOpenHasTrial
<1>3. QED
  BY <1>1, <1>2 DEF IInv

\* Both critical sections of Execute keep the invariant.
LEMMA NextIInv == IInv /\ [Next]_vars => IInv'
<1> SUFFICES ASSUME IInv, [Next]_vars PROVE IInv'
  OBVIOUS
<1> USE ThresholdPositive DEF IInv, TypeOK, OpenMeansFailures, HalfOpenHasTrial
<1>1. CASE Elapse
  BY <1>1 DEF Elapse
<1>2. ASSUME NEW c \in Callers, AdmitCall(c) PROVE IInv'
  BY <1>2 DEF AdmitCall
<1>3. ASSUME NEW c \in Callers, AdmitTrial(c) PROVE IInv'
  BY <1>3 DEF AdmitTrial
<1>4. ASSUME NEW c \in Callers, Succeed(c) PROVE IInv'
  BY <1>4 DEF Succeed
<1>5. ASSUME NEW c \in Callers, Fail(c) PROVE IInv'
  <2>1. /\ failures' = failures + 1 /\ failures' \in Nat
        /\ halfOpenTesting' = FALSE
        /\ call' \in [Callers -> {"idle", "call", "trial"}]
    BY SMT, <1>5 DEF Fail
  <2>2. CASE failures + 1 >= FailureThreshold
    <3>1. state' = "Open" /\ expired' = FALSE
      BY <1>5, <2>1, <2>2 DEF Fail
    <3>2. OpenMeansFailures'
      BY <2>1, <2>2
    <3>3. QED
      BY <2>1, <3>1, <3>2
  <2>3. CASE ~(failures + 1 >= FailureThreshold)
    <3>1. state = "Closed"
      BY SMT, <2>3
    <3>2. state' = "Closed" /\ expired' = expired
      BY <1>5, <2>1, <2>3, <3>1 DEF Fail
    <3>3. QED
      BY <2>1, <3>2
  <2>4. QED
    BY <2>2, <2>3
<1>6. CASE UNCHANGED vars
  BY <1>6 DEF vars
<1>7. QED
  BY <1>1, <1>2, <1>3, <1>4, <1>5, <1>6 DEF Next

\* Types, and the two facts the breaker's users rely on: it rejects calls only
\* after FailureThreshold failures in a row, and a half-open breaker always has
\* a trial whose end will move it on.
THEOREM BreakerSafe == Spec => [](TypeOK /\ OpenMeansFailures /\ HalfOpenHasTrial)
<1>1. IInv => TypeOK /\ OpenMeansFailures /\ HalfOpenHasTrial
  BY DEF IInv
<1>2. QED
  BY <1>1, InitIInv, NextIInv, PTL DEF Spec
---------------------------------------------------------------------------
Busy == {c \in Callers : task[c] # "free"}

PlacesConserved ==
    places + Cardinality(Busy) + results + dropped + lost = Places

\* What the law needs to know of types.
PipelineType ==
    /\ task \in [Callers -> Stage]
    /\ results \in Nat /\ places \in Nat /\ dropped \in Nat /\ lost \in Nat

NodeInv == PipelineType /\ PlacesConserved /\ NoResultDropped

\* Every step of the worker process is a step of its breaker or none.
LEMMA NodeStepIsBreakerStep == [NodeNext]_nodeVars => [Next]_vars
<1> SUFFICES ASSUME [NodeNext]_nodeVars PROVE [Next]_vars
  OBVIOUS
<1>1. ASSUME NEW c \in Callers, EnterBreaker(c) \/ Return(c) PROVE Next
  BY <1>1 DEF EnterBreaker, Return, Next
<1>2. ASSUME NEW c \in Callers,
             SubmitJob(c) \/ Rejected(c) \/ Acquire(c) \/ sendResult(c)
      PROVE UNCHANGED vars
  BY <1>2 DEF SubmitJob, Rejected, Acquire, sendResult
<1>3. CASE Timer
  BY <1>3 DEF Timer, Next
<1>4. CASE SubmitFails \/ ForwardResult \/ Refill \/ UNCHANGED nodeVars
  BY <1>4 DEF SubmitFails, ForwardResult, Refill, nodeVars
<1>5. QED
  BY <1>1, <1>2, <1>3, <1>4 DEF NodeNext

\* NodeNext takes its breaker steps from CircuitBreaker, so that the breaker's
\* invariants carry over to the worker process.
LEMMA NodeImplementsBreaker == NodeSpec => Spec
<1>1. NodeInit => Init
  BY DEF NodeInit
<1>2. QED
  BY <1>1, NodeStepIsBreakerStep, PTL DEF NodeSpec, Spec

\* Hence what is proved of the breaker alone holds inside the worker process: it
\* rejects jobs only after FailureThreshold failures in a row, ...
THEOREM NodeBreakerSafe == NodeSpec => []OpenMeansFailures
<1>1. NodeSpec => Spec
  BY NodeImplementsBreaker
<1>2. QED
  BY <1>1, BreakerSafe, PTL

\* ... and while it is half-open a trial is under way in one of the goroutines,
\* also when that trial has to wait for a token.
THEOREM NodeTrialUnderWay == NodeSpec => []HalfOpenHasTrial
<1>1. NodeSpec => Spec
  BY NodeImplementsBreaker
<1>2. QED
  BY <1>1, BreakerSafe, PTL

\* A goroutine that starts on a job makes one more busy goroutine.
LEMMA StartBusy ==
    ASSUME PipelineType, NEW c \in Callers, NEW s \in Stage \ {"free"},
           task[c] = "free", task' = [task EXCEPT ![c] = s]
    PROVE  Cardinality(Busy') = Cardinality(Busy) + 1 /\ Cardinality(Busy) \in Nat
<1>1. IsFiniteSet(Busy)
  BY PipelineBounds, FS_Subset DEF Busy
<1>2. Busy' = Busy \cup {c} /\ c \notin Busy
  BY DEF Busy, PipelineType
<1>3. QED
  BY <1>1, <1>2, FS_AddElement, FS_CardinalityType

\* Moving on between two stages keeps the set of busy goroutines.
LEMMA KeepBusy ==
    ASSUME PipelineType, NEW c \in Callers,
           NEW s \in Stage \ {"free"}, NEW t \in Stage \ {"free"},
           task[c] = s, task' = [task EXCEPT ![c] = t]
    PROVE  Busy' = Busy
BY DEF Busy, PipelineType

\* A goroutine that returns makes one less.
LEMMA EndBusy ==
    ASSUME PipelineType, NEW c \in Callers, task[c] # "free",
           task' = [task EXCEPT ![c] = "free"]
    PROVE  /\ Cardinality(Busy') = Cardinality(Busy) - 1
           /\ Cardinality(Busy) \in Nat \ {0}
<1>1. IsFiniteSet(Busy)
  BY PipelineBounds, FS_Subset DEF Busy
<1>2. Busy' = Busy \ {c} /\ c \in Busy
  BY DEF Busy, PipelineType, Stage
<1>3. Cardinality(Busy') = Cardinality(Busy) - 1
  BY <1>1, <1>2, FS_RemoveElement
<1>4. Cardinality(Busy) \in Nat /\ Cardinality(Busy) # 0
  BY <1>1, <1>2, FS_CardinalityType, FS_EmptySet
<1>5. QED
  BY <1>3, <1>4

\* At the start every place is in the control node's pool.
LEMMA InitNodeInv == NodeInit => NodeInv
<1> SUFFICES ASSUME NodeInit PROVE NodeInv
  OBVIOUS
<1>1. Busy = {}
  BY DEF NodeInit, Busy
<1>2. Cardinality(Busy) = 0
  BY <1>1, FS_EmptySet
<1>3. QED
  BY SMT, <1>2, PipelineBounds
     DEF NodeInit, NodeInv, PipelineType, PlacesConserved, NoResultDropped, Stage

\* Every step moves a place from one holder to another.
LEMMA NextNodeInv == NodeInv /\ [NodeNext]_nodeVars => NodeInv'
<1> SUFFICES ASSUME NodeInv, [NodeNext]_nodeVars PROVE NodeInv'
  OBVIOUS
<1> USE PipelineBounds DEF NodeInv
<1>0. IsFiniteSet(Busy) /\ Cardinality(Busy) \in Nat
  BY FS_Subset, FS_CardinalityType DEF Busy
<1>1. ASSUME NEW c \in Callers, SubmitJob(c) PROVE NodeInv'
  <2>1. task[c] = "free" /\ task' = [task EXCEPT ![c] = "started"]
    BY <1>1 DEF SubmitJob, Step
  <2>2. Cardinality(Busy') = Cardinality(Busy) + 1
    BY <2>1, StartBusy DEF Stage
  <2>3. PipelineType'
    BY SMT, <1>1, <2>1 DEF SubmitJob, PipelineType, Stage
  <2>4. QED
    BY SMT, <1>0, <1>1, <2>2, <2>3
       DEF SubmitJob, PipelineType, PlacesConserved, NoResultDropped
<1>2. ASSUME NEW c \in Callers,
             EnterBreaker(c) \/ Rejected(c) \/ Acquire(c) \/ Return(c)
      PROVE NodeInv'
  <2>1. PICK s \in Stage \ {"free"}, t \in Stage \ {"free"} :
             task[c] = s /\ task' = [task EXCEPT ![c] = t]
    BY <1>2 DEF EnterBreaker, Rejected, Acquire, Return, Step, Stage
  <2>2. UNCHANGED <<results, places, dropped, lost>>
    BY <1>2 DEF EnterBreaker, Rejected, Acquire, Return
  <2>3. Busy' = Busy
    BY <2>1, KeepBusy
  <2>4. QED
    BY <2>1, <2>2, <2>3 DEF PipelineType, PlacesConserved, NoResultDropped
<1>3. ASSUME NEW c \in Callers, sendResult(c) PROVE NodeInv'
  <2>1. task[c] = "ended" /\ task' = [task EXCEPT ![c] = "free"]
    BY <1>3 DEF sendResult, Step
  <2>2. /\ Cardinality(Busy') = Cardinality(Busy) - 1
        /\ Cardinality(Busy) \in Nat \ {0}
    BY <2>1, EndBusy
  <2>3. task' \in [Callers -> Stage]
    BY <2>1 DEF PipelineType, Stage
  <2>4. CASE results < ResultBuffer
    BY SMT, <1>3, <2>2, <2>3, <2>4
       DEF sendResult, PipelineType, PlacesConserved, NoResultDropped
  <2>5. CASE ~(results < ResultBuffer)
    BY SMT, <1>3, <2>2, <2>3, <2>5
       DEF sendResult, PipelineType, PlacesConserved, NoResultDropped
  <2>6. QED
    BY <2>4, <2>5
<1>4. CASE SubmitFails \/ ForwardResult
  <2>1. Busy' = Busy
    BY <1>4 DEF SubmitFails, ForwardResult, Busy
  <2>2. QED
    BY SMT, <1>0, <1>4, <2>1 DEF SubmitFails, ForwardResult, PipelineType,
                            PlacesConserved, NoResultDropped
<1>5. CASE Refill \/ Timer \/ UNCHANGED nodeVars
  BY <1>5 DEF Refill, Timer, nodeVars, PipelineType, PlacesConserved,
              NoResultDropped, Busy
<1>6. QED
  BY <1>1, <1>2, <1>3, <1>4, <1>5 DEF NodeNext

\* With a results channel as large as the number of places, sendResult never
\* drops a result, for any number of goroutines and any of them rejected,
\* delayed by the limiter or failing.
THEOREM ResultsKept == NodeSpec => []NoResultDropped
<1>1. NodeInv => NoResultDropped
  BY DEF NodeInv
<1>2. QED
  BY <1>1, InitNodeInv, NextNodeInv, PTL DEF NodeSpec

---------------------------------------------------------------------------
\* A goroutine is inside the breaker's wrapped call exactly while the pipeline
\* has it waiting for a token or executing.
CallsMatch == \A c \in Callers : call[c] # "idle" <=> task[c] \in {"admitted", "running"}

\* The limiter's bucket, the channel and the count of failed RPCs stay in bounds.
PipelineBounded == /\ tokens \in 0 .. Burst
                   /\ results \in 0 .. ResultBuffer
                   /\ lost \in 0 .. MaxLost

\* A goroutine enters and leaves the breaker together with its stage.
LEMMA NextCallsMatch ==
    TypeOK /\ PipelineType /\ CallsMatch /\ [NodeNext]_nodeVars => CallsMatch'
<1> SUFFICES ASSUME TypeOK, PipelineType, CallsMatch, [NodeNext]_nodeVars
             PROVE  CallsMatch'
  OBVIOUS
<1>0. /\ call \in [Callers -> {"idle", "call", "trial"}]
      /\ task \in [Callers -> Stage]
  BY DEF TypeOK, PipelineType
<1>1. ASSUME NEW c \in Callers, EnterBreaker(c) PROVE CallsMatch'
  <2>1. PICK v \in {"call", "trial"} : call' = [call EXCEPT ![c] = v]
    BY <1>1 DEF EnterBreaker, AdmitCall, AdmitTrial
  <2>2. task' = [task EXCEPT ![c] = "admitted"]
    BY <1>1 DEF EnterBreaker, Step
  <2>3. QED
    BY <1>0, <2>1, <2>2 DEF CallsMatch
<1>2. ASSUME NEW c \in Callers, Return(c) PROVE CallsMatch'
  <2>1. call' = [call EXCEPT ![c] = "idle"]
    BY <1>2 DEF Return, Succeed, Fail
  <2>2. task' = [task EXCEPT ![c] = "ended"]
    BY <1>2 DEF Return, Step
  <2>3. QED
    BY <1>0, <2>1, <2>2 DEF CallsMatch
<1>3. ASSUME NEW c \in Callers, NEW s \in Stage, NEW t \in Stage,
             s \in {"admitted", "running"} <=> t \in {"admitted", "running"},
             Step(c, s, t), call' = call
      PROVE  CallsMatch'
  BY <1>0, <1>3 DEF CallsMatch, Step
<1>4. ASSUME NEW c \in Callers, SubmitJob(c) \/ Rejected(c) \/ Acquire(c) \/ sendResult(c)
      PROVE  CallsMatch'
  <2>1. call' = call
    BY <1>4 DEF SubmitJob, Rejected, Acquire, sendResult, vars
  <2>2. \/ Step(c, "free", "started") \/ Step(c, "started", "ended")
        \/ Step(c, "admitted", "running") \/ Step(c, "ended", "free")
    BY <1>4 DEF SubmitJob, Rejected, Acquire, sendResult
  <2>3. QED
    BY <1>3, <2>1, <2>2 DEF Stage
<1>5. CASE SubmitFails \/ ForwardResult \/ Refill \/ Timer \/ UNCHANGED nodeVars
  BY <1>5 DEF SubmitFails, ForwardResult, Refill, Timer, Elapse, nodeVars, vars,
              CallsMatch
<1>6. QED
  BY <1>1, <1>2, <1>4, <1>5 DEF NodeNext

\* No token, result or failed RPC is counted beyond its limit.
LEMMA NextPipelineBounded == PipelineBounded /\ [NodeNext]_nodeVars => PipelineBounded'
<1> SUFFICES ASSUME PipelineBounded, [NodeNext]_nodeVars PROVE PipelineBounded'
  OBVIOUS
<1> USE PipelineBounds DEF PipelineBounded
<1>1. ASSUME NEW c \in Callers, SubmitJob(c) \/ EnterBreaker(c) \/ Rejected(c) \/ Return(c)
      PROVE  PipelineBounded'
  BY <1>1 DEF SubmitJob, EnterBreaker, Rejected, Return
<1>2. ASSUME NEW c \in Callers, Acquire(c) \/ sendResult(c) PROVE PipelineBounded'
  BY SMT, <1>2 DEF Acquire, sendResult
<1>3. CASE SubmitFails \/ ForwardResult
  BY SMT, <1>3 DEF SubmitFails, ForwardResult
<1>4. CASE Refill \/ Timer \/ UNCHANGED nodeVars
  BY SMT, <1>4 DEF Refill, Timer, nodeVars
<1>5. QED
  BY <1>1, <1>2, <1>3, <1>4 DEF NodeNext

\* Types and bounds of the whole worker process, for any number of goroutines: the
\* bucket never overflows, the pool never holds more places than the worker has,
\* and who is inside the breaker agrees with who is in the pipeline behind it.
THEOREM NodeTypes == NodeSpec => []NodeTypeOK
<1> DEFINE J == IInv /\ NodeInv /\ CallsMatch /\ PipelineBounded
<1>1. NodeInit => J
  <2> SUFFICES ASSUME NodeInit PROVE J
    OBVIOUS
  <2>1. IInv /\ NodeInv
    BY InitIInv, InitNodeInv DEF NodeInit
  <2>2. CallsMatch
    BY DEF NodeInit, Init, CallsMatch
  <2>3. PipelineBounded
    <3>1. tokens = Burst /\ results = 0 /\ lost = 0
      BY DEF NodeInit
    <3>2. QED
      BY SMT, <3>1, PipelineBounds DEF PipelineBounded
  <2>4. QED
    BY <2>1, <2>2, <2>3
<1>2. J /\ [NodeNext]_nodeVars => J'
  <2> SUFFICES ASSUME J, [NodeNext]_nodeVars PROVE J'
    OBVIOUS
  <2>1. IInv'
    BY NodeStepIsBreakerStep, NextIInv
  <2>2. NodeInv' /\ PipelineBounded'
    BY NextNodeInv, NextPipelineBounded
  <2>3. CallsMatch'
    BY NextCallsMatch DEF IInv, NodeInv
  <2>4. QED
    BY <2>1, <2>2, <2>3
<1>3. J => NodeTypeOK
  <2> SUFFICES ASSUME J PROVE NodeTypeOK
    OBVIOUS
  <2>1. IsFiniteSet(Busy) /\ Cardinality(Busy) \in Nat
    BY PipelineBounds, FS_Subset, FS_CardinalityType DEF Busy
  <2>2. places \in 0 .. Places
    BY SMT, <2>1, PipelineBounds DEF NodeInv, PipelineType, PlacesConserved
  <2>3. TypeOK /\ task \in [Callers -> Stage] /\ dropped \in Nat
    BY DEF IInv, NodeInv, PipelineType
  <2>4. QED
    BY <2>2, <2>3 DEF NodeTypeOK, CallsMatch, PipelineBounded
<1>4. QED
  BY <1>1, <1>2, <1>3, PTL DEF NodeSpec
===========================================================================
