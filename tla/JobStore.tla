----------------------------- MODULE JobStore -----------------------------
(***************************************************************************)
(* What a caller of the interface Store (internal/store/store.go) can rely *)
(* on: a map from IDs to records in which every query is answered by       *)
(* looking at all the records.  A call is one step, and reply holds what   *)
(* it returned: ok, and the IDs of the jobs handed back.                   *)
(*                                                                         *)
(* "Add persists a new job": the interface leaves open what Add does for   *)
(* an ID that is stored.  It may refuse, or replace the job; then answers  *)
(* may hold the ID also for what the job was before.                       *)
(***************************************************************************)
EXTENDS Job

CONSTANTS IDs, Keys, NoKey      \* NoKey is the empty idempotency key

VARIABLES
    jobs, reply,
    replaced                    \* the IDs whose job was replaced

storeVars == <<jobs, reply, replaced>>

StoredJob == [Status : Status \cup {"None"}, IdempotencyKey : Keys \cup {NoKey}]

NotStored == [Status |-> "None", IdempotencyKey |-> NoKey]

Stored(id) == jobs[id].Status # "None"

Reply == [ok : BOOLEAN, ids : SUBSET IDs]

Answer(ok, ids) == reply' = [ok |-> ok, ids |-> ids]

Init ==
    /\ jobs = [id \in IDs |-> NotStored]
    /\ reply = [ok |-> TRUE, ids |-> {}]
    /\ replaced = {}
---------------------------------------------------------------------------
\* The callers search for a key before they use it.
AddJob(id, s, k) ==
    /\ \A i \in IDs \ {id} : jobs[i].IdempotencyKey = k => k = NoKey
    /\ \/ /\ jobs' = [jobs EXCEPT ![id] = [Status |-> s, IdempotencyKey |-> k]]
          /\ replaced' = IF Stored(id) THEN replaced \cup {id} ELSE replaced
          /\ Answer(TRUE, {})
       \/ Stored(id) /\ Answer(FALSE, {}) /\ UNCHANGED <<jobs, replaced>>

Write(id, ok, s) ==
    /\ jobs' = IF ok
               THEN [jobs EXCEPT ![id] = [Status |-> s,
                                          IdempotencyKey |-> jobs[id].IdempotencyKey]]
               ELSE jobs
    /\ Answer(ok, {})
    /\ UNCHANGED replaced

UpdateJob(id, s) == Write(id, Stored(id) /\ IsValidTransition(jobs[id].Status, s), s)

CancelJob(id) == Write(id, Stored(id) /\ jobs[id].Status \notin Terminal, "Cancelled")

DeleteJob(id) ==
    /\ jobs' = [jobs EXCEPT ![id] = NotStored]
    /\ Answer(Stored(id), {})
    /\ UNCHANGED replaced

WithStatus(s) == {id \in IDs : jobs[id].Status = s}

WithKey(k) == {id \in IDs : jobs[id].IdempotencyKey = k}

\* Stored jobs that were something else before.
Outdated == {id \in replaced : Stored(id)}

\* Every job with the status, and maybe some that had it.
ListByStatus(s) ==
    /\ \E more \in SUBSET Outdated : Answer(TRUE, WithStatus(s) \cup more)
    /\ UNCHANGED <<jobs, replaced>>

\* The job with the key, or if there is none maybe one that had it.
FindByIdempotencyKey(k) ==
    /\ \/ Answer(WithKey(k) # {}, WithKey(k))
       \/ WithKey(k) = {} /\ \E id \in Outdated : Answer(TRUE, {id})
    /\ UNCHANGED <<jobs, replaced>>

Next ==
    \/ \E id \in IDs, s \in Status, k \in Keys \cup {NoKey} : AddJob(id, s, k)
    \/ \E id \in IDs, s \in Status : UpdateJob(id, s)
    \/ \E id \in IDs : CancelJob(id) \/ DeleteJob(id)
    \/ \E s \in Status : ListByStatus(s)
    \/ \E k \in Keys : FindByIdempotencyKey(k)

Spec == Init /\ [][Next]_storeVars
===========================================================================
