---------------------------- MODULE WorkerNode ----------------------------
(***************************************************************************)
(* A worker process (cmd/worker): the ExecutionServer that starts one      *)
(* goroutine per job, the runner, the pipeline circuit breaker -> token    *)
(* bucket -> executor, the results channel and the goroutine that forwards *)
(* results to the control node.                                            *)
(*                                                                         *)
(* The breaker is CircuitBreaker; its callers are the runner's goroutines, *)
(* and the wrapped call contains the wait for a token.  The control node   *)
(* is reduced to the places this worker has in Manager.Available: it sends *)
(* a job for a place and puts the place back on every result it receives.  *)
(***************************************************************************)
EXTENDS CircuitBreaker, FiniteSets

CONSTANTS
    Burst,          \* Config.RateBurst: capacity of the token bucket
    ResultBuffer,   \* Config.ResultBuffer: capacity of the results channel
    Places,         \* how many times the worker has registered
    MaxLost         \* RPCs between the two nodes that fail

ASSUME PipelineBounds ==
    /\ IsFiniteSet(Callers)
    /\ Burst \in Nat \ {0} /\ ResultBuffer \in Nat \ {0}
    /\ Places \in Nat /\ MaxLost \in Nat

VARIABLES
    task,           \* goroutine -> where it is in Runner.Execute
    tokens,         \* TokenBucketLimiter.tokens
    results,        \* number of results in the results channel
    places,         \* places in Manager.Available
    dropped, lost   \* results discarded by sendResult; RPCs that failed

nodeVars == <<vars, task, tokens, results, places, dropped, lost>>

Stage == {"free", "started", "admitted", "running", "ended"}

\* The fields of breaker and limiter keep their types; a goroutine is inside the
\* breaker's wrapped call exactly while it waits for a token or executes.
NodeTypeOK ==
    /\ TypeOK
    /\ task \in [Callers -> Stage]
    /\ tokens \in 0 .. Burst
    /\ results \in 0 .. ResultBuffer
    /\ places \in 0 .. Places /\ dropped \in Nat /\ lost \in 0 .. MaxLost
    /\ \A c \in Callers : call[c] # "idle" <=> task[c] \in {"admitted", "running"}

NodeInit ==
    /\ Init
    /\ task = [c \in Callers |-> "free"]
    /\ tokens = Burst
    /\ results = 0
    /\ places = Places
    /\ dropped = 0 /\ lost = 0

Step(c, from, to) == task[c] = from /\ task' = [task EXCEPT ![c] = to]

\* ExecutionServer.SubmitJob: accepted at once, executed in a new goroutine.
SubmitJob(c) ==
    /\ places > 0 /\ places' = places - 1
    /\ Step(c, "free", "started")
    /\ UNCHANGED <<vars, tokens, results, dropped, lost>>

\* The SubmitJob RPC fails: Dispatch requeues the job, but not the worker.
SubmitFails ==
    /\ places > 0 /\ places' = places - 1
    /\ lost < MaxLost /\ lost' = lost + 1
    /\ UNCHANGED <<vars, task, tokens, results, dropped>>

\* Runner.Execute enters the breaker.
EnterBreaker(c) ==
    /\ Step(c, "started", "admitted")
    /\ AdmitCall(c) \/ AdmitTrial(c)
    /\ UNCHANGED <<tokens, results, places, dropped, lost>>

\* Mutant: a call that finds a trial under way waits for its end.
RejectedMut(c) ==
    /\ Step(c, "started", "ended")
    /\ state = "Open" /\ ~expired
    /\ UNCHANGED <<vars, tokens, results, places, dropped, lost>>

\* The breaker is open, or half-open with a trial under way: ErrCircuitOpen,
\* which the runner reports like any failure.
Rejected(c) ==
    /\ Step(c, "started", "ended")
    /\ \/ state = "Open" /\ ~expired
       \/ state = "HalfOpen" /\ halfOpenTesting
    /\ UNCHANGED <<vars, tokens, results, places, dropped, lost>>

\* RateLimitedExecutor: waits for a token, then calls the executor.
Acquire(c) ==
    /\ tokens > 0 /\ tokens' = tokens - 1
    /\ Step(c, "admitted", "running")
    /\ UNCHANGED <<vars, results, places, dropped, lost>>

\* The executor returns, and the breaker's second critical section runs.
Return(c) ==
    /\ Step(c, "running", "ended")
    /\ Succeed(c) \/ Fail(c)
    /\ UNCHANGED <<tokens, results, places, dropped, lost>>

\* Mutant: the last place of the channel is not used.
sendResultMut(c) ==
    /\ Step(c, "ended", "free")
    /\ IF results + 1 < ResultBuffer
       THEN results' = results + 1 /\ UNCHANGED dropped
       ELSE dropped' = dropped + 1 /\ UNCHANGED results
    /\ UNCHANGED <<vars, tokens, places, lost>>

\* Runner.sendResult never blocks: with the channel full the result is dropped.
sendResult(c) ==
    /\ Step(c, "ended", "free")
    /\ IF results < ResultBuffer
       THEN results' = results + 1 /\ UNCHANGED dropped
       ELSE dropped' = dropped + 1 /\ UNCHANGED results
    /\ UNCHANGED <<vars, tokens, places, lost>>

\* The forwarding goroutine reports a result; an error is logged only.
ForwardResult ==
    /\ results > 0 /\ results' = results - 1
    /\ \/ places' = places + 1 /\ UNCHANGED lost
       \/ lost < MaxLost /\ lost' = lost + 1 /\ UNCHANGED places
    /\ UNCHANGED <<vars, task, tokens, dropped>>

\* Mutant: the ticker adds a token whether or not it fits.
RefillMut ==
    /\ tokens' = tokens + 1
    /\ UNCHANGED <<vars, task, results, places, dropped, lost>>

\* The limiter's ticker: a token that does not fit is discarded.
Refill ==
    /\ tokens < Burst /\ tokens' = tokens + 1
    /\ UNCHANGED <<vars, task, results, places, dropped, lost>>

\* resetTimeout passes.
Timer == Elapse /\ UNCHANGED <<task, tokens, results, places, dropped, lost>>

NodeNext ==
    \/ \E c \in Callers : \/ SubmitJob(c) \/ EnterBreaker(c) \/ Rejected(c)
                          \/ Acquire(c) \/ Return(c) \/ sendResult(c)
    \/ SubmitFails \/ ForwardResult \/ Refill \/ Timer

\* Goroutines run, the executor returns, both timers fire, tokens go round (the
\* channel serves its waiters in order), and the control node, which has more
\* jobs than places, keeps sending.
NodeFairness ==
    /\ \A c \in Callers : /\ WF_nodeVars(EnterBreaker(c) \/ Rejected(c))
                          /\ SF_nodeVars(Acquire(c))
                          /\ WF_nodeVars(Return(c))
                          /\ WF_nodeVars(sendResult(c))
    /\ WF_nodeVars(\E c \in Callers : SubmitJob(c))
    /\ WF_nodeVars(ForwardResult)
    /\ WF_nodeVars(Refill) /\ WF_nodeVars(Timer)

NodeSpec == NodeInit /\ [][NodeNext]_nodeVars /\ NodeFairness
---------------------------------------------------------------------------
(***************************************************************************)
(* Properties.                                                             *)
(***************************************************************************)

\* sendResult, which drops what does not fit, never has to: a place comes back
\* only after its result was forwarded, so that no more results can be waiting
\* than the worker has places, and the channel is that large.
NoResultDropped == Places <= ResultBuffer => dropped = 0

\* Every job the worker accepted is answered, also when the breaker rejects it or
\* a trial call has to wait for a token, and the worker always comes back to the
\* control node's pool unless every one of its places went with a failed RPC.
EveryJobAnswered ==
    /\ \A c \in Callers : (task[c] = "started") ~> (task[c] = "free")
    /\ (places = 0) ~> (places > 0 \/ lost + dropped = Places)
===========================================================================
