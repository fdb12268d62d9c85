------------------------------- MODULE Job -------------------------------
(***************************************************************************)
(* The persistent job record (internal/job/job.go) and the retry decision  *)
(* (internal/retry/policy.go).  Of the record's fields only Status and     *)
(* RetryCount steer control flow; Type, Priority, LastError and NextRunAt  *)
(* are abstracted by the modules that use this one.                        *)
(***************************************************************************)
EXTENDS Naturals

CONSTANT MaxRetries          \* Job.MaxRetries, 3 for every NewJob

ASSUME MaxRetriesNat == MaxRetries \in Nat

Status == {"Pending", "Scheduled", "Completed", "Failed", "Cancelled"}

Terminal == {"Completed", "Failed", "Cancelled"}

\* "None" stands for an ID the store does not hold.
JobRecord == [Status : Status \cup {"None"}, RetryCount : 0 .. MaxRetries]

Absent == [Status |-> "None", RetryCount |-> 0]

\* Mutant: a completed job may be put back on the retry path.
IsValidTransitionMut(current, next) ==
    \/ current = next
    \/ current \in {"Pending", "Completed"} /\ next \in Status
    \/ current = "Scheduled" /\ next \in {"Pending", "Cancelled"}

\* Mutant: a scheduled job may be completed by a late result.
IsValidTransitionMut2(current, next) ==
    \/ current = next
    \/ current = "Pending" /\ next \in Status
    \/ current = "Scheduled" /\ next \in {"Pending", "Cancelled", "Completed"}

IsValidTransition(current, next) ==
    \/ current = next
    \/ current = "Pending" /\ next \in Status
    \/ current = "Scheduled" /\ next \in {"Pending", "Cancelled"}

NewJob == [Status |-> "Pending", RetryCount |-> 0]

\* Mutants: one retry too few; one too many.
ShouldRetryMut(j) == j.RetryCount + 1 < MaxRetries
ShouldRetryMut2(j) == j.RetryCount <= MaxRetries

ShouldRetry(j) == j.RetryCount < MaxRetries

(***************************************************************************)
(* Store.Update on a store st (a function from job IDs to records): the    *)
(* whole record is replaced, provided that the job exists and that its     *)
(* CURRENT status may move to the record's; otherwise an error is returned *)
(* and the store is unchanged.                                             *)
(***************************************************************************)
UpdateOK(st, id, j) ==
    st[id].Status # "None" /\ IsValidTransition(st[id].Status, j.Status)

Update(st, id, j) == IF UpdateOK(st, id, j) THEN [st EXCEPT ![id] = j] ELSE st
==========================================================================
