-------------------------- MODULE CircuitBreaker --------------------------
(***************************************************************************)
(* CircuitBreakerExecutor (internal/executor/breaker.go).  Execute takes   *)
(* the mutex twice, before and after the wrapped call, so that calls       *)
(* admitted in one state of the breaker return in another.  Time is        *)
(* abstracted to whether resetTimeout has passed since openedAt.           *)
(***************************************************************************)
EXTENDS Naturals

CONSTANTS
    Callers,            \* goroutines that execute jobs through the breaker
    FailureThreshold,
    MaxFailures         \* bound on the consecutive failures explored

ASSUME ThresholdPositive == FailureThreshold \in Nat \ {0} /\ MaxFailures \in Nat

VARIABLES
    state,              \* "Closed", "Open" or "HalfOpen"
    failures,
    halfOpenTesting,
    expired,            \* resetTimeout has passed since openedAt
    call                \* caller -> "idle", or in the wrapped call: admitted
                        \*   as an ordinary "call" or as the "trial"

vars == <<state, failures, halfOpenTesting, expired, call>>

\* The breaker's fields keep their types; failures never goes below zero.
TypeOK ==
    /\ state \in {"Closed", "Open", "HalfOpen"}
    /\ failures \in Nat
    /\ halfOpenTesting \in BOOLEAN
    /\ expired \in BOOLEAN
    /\ call \in [Callers -> {"idle", "call", "trial"}]

Init ==
    /\ state = "Closed"
    /\ failures = 0
    /\ halfOpenTesting = FALSE
    /\ expired = FALSE
    /\ call = [c \in Callers |-> "idle"]

Elapse ==
    /\ state = "Open" /\ ~expired
    /\ expired' = TRUE
    /\ UNCHANGED <<state, failures, halfOpenTesting, call>>

\* The first critical section.  A call that finds the breaker open too early, or
\* a trial under way, is rejected with ErrCircuitOpen and changes nothing.
AdmitCall(c) ==
    /\ call[c] = "idle" /\ state = "Closed"
    /\ call' = [call EXCEPT ![c] = "call"]
    /\ UNCHANGED <<state, failures, halfOpenTesting, expired>>

AdmitTrial(c) ==
    /\ call[c] = "idle"
    /\ state # "Closed"
    /\ IF state = "Open" THEN expired ELSE ~halfOpenTesting
    /\ state' = "HalfOpen"
    /\ halfOpenTesting' = TRUE
    /\ call' = [call EXCEPT ![c] = "trial"]
    /\ UNCHANGED <<failures, expired>>

\* The second critical section, after success and after failure.
Succeed(c) ==
    /\ call[c] # "idle"
    /\ call' = [call EXCEPT ![c] = "idle"]
    /\ halfOpenTesting' = FALSE
    /\ failures' = 0
    /\ state' = "Closed"
    /\ UNCHANGED expired

\* Mutants: the breaker opens one failure early; a failed trial leaves it half
\* open with the trial still marked as under way.
FailMut(c) ==
    /\ call[c] # "idle" /\ failures < MaxFailures
    /\ call' = [call EXCEPT ![c] = "idle"]
    /\ halfOpenTesting' = FALSE
    /\ failures' = failures + 1
    /\ IF failures' + 1 >= FailureThreshold
       THEN state' = "Open" /\ expired' = FALSE
       ELSE UNCHANGED <<state, expired>>

FailMut2(c) ==
    /\ call[c] # "idle" /\ failures < MaxFailures
    /\ call' = [call EXCEPT ![c] = "idle"]
    /\ failures' = failures + 1
    /\ IF failures' = FailureThreshold
       THEN state' = "Open" /\ expired' = FALSE /\ halfOpenTesting' = FALSE
       ELSE UNCHANGED <<state, expired, halfOpenTesting>>

Fail(c) ==
    /\ call[c] # "idle" /\ failures < MaxFailures
    /\ call' = [call EXCEPT ![c] = "idle"]
    /\ halfOpenTesting' = FALSE
    /\ failures' = failures + 1
    /\ IF failures' >= FailureThreshold
       THEN state' = "Open" /\ expired' = FALSE
       ELSE UNCHANGED <<state, expired>>

Next ==
    \/ Elapse
    \/ \E c \in Callers : AdmitCall(c) \/ AdmitTrial(c) \/ Succeed(c) \/ Fail(c)

Spec == Init /\ [][Next]_vars
---------------------------------------------------------------------------
\* The breaker is open or half-open only after FailureThreshold failures without
\* a success in between, also when calls admitted earlier return late.
OpenMeansFailures == state # "Closed" => failures >= FailureThreshold

\* A half-open breaker waits for a trial that is really under way: it can never
\* be left rejecting every caller with nobody to end the trial.
HalfOpenHasTrial ==
    state = "HalfOpen" => halfOpenTesting /\ \E c \in Callers : call[c] = "trial"

\* The breaker does not stay open, nor half-open, for ever.
NeverStuck == /\ (state = "Open") ~> (state # "Open")
              /\ (state = "HalfOpen") ~> (state # "HalfOpen")
===========================================================================
