--------------------------- MODULE IndexedStore ---------------------------
(***************************************************************************)
(* The two implementations of Store: BoltStore (bolt_store.go) and         *)
(* MemoryStore (memory_store.go).  Both keep, beside the jobs, one set of  *)
(* IDs per status and a map from idempotency keys to IDs, and answer their *)
(* queries from these.  A call is one step: a bbolt transaction, or a      *)
(* critical section of MemoryStore.  They differ in Add alone: of an ID    *)
(* that is stored, MemoryStore refuses it and BoltStore carries it out,    *)
(* over the record, the status entry and the key of the older job (FSM.    *)
(* Restore, in fsm.go, relies on that).  Next lets each Add be of either   *)
(* store, so that it has the behaviours of both.                           *)
(***************************************************************************)
EXTENDS Job

CONSTANTS
    IDs, Keys, NoKey,
    NoID                    \* what the key index holds for an unused key

ASSUME NoKeyFresh == NoKey \notin Keys
ASSUME NoIDFresh == NoID \notin IDs

VARIABLES
    jobs, statusIndex, idempotencyIndex, reply,
    replaced                \* history: the IDs whose job an Add has written over

storeVars == <<jobs, statusIndex, idempotencyIndex, reply, replaced>>
indexVars == <<jobs, statusIndex, idempotencyIndex, replaced>>

Abs == INSTANCE JobStore

Stored(id) == jobs[id].Status # "None"

Answer(ok, ids) == reply' = [ok |-> ok, ids |-> ids]

\* The records, the indexes and the answers keep their shape.
TypeOK ==
    /\ jobs \in [IDs -> Abs!StoredJob]
    /\ statusIndex \in [Status -> SUBSET IDs]
    /\ idempotencyIndex \in [Keys -> IDs \cup {NoID}]
    /\ reply \in Abs!Reply
    /\ replaced \subseteq IDs

Init ==
    /\ jobs = [id \in IDs |-> Abs!NotStored]
    /\ statusIndex = [s \in Status |-> {}]
    /\ idempotencyIndex = [k \in Keys |-> NoID]
    /\ reply = [ok |-> TRUE, ids |-> {}]
    /\ replaced = {}
---------------------------------------------------------------------------
\* addToStatusBucket and removeFromStatusBucket, on an index.
addToStatus(ix, s, id) == [ix EXCEPT ![s] = @ \cup {id}]

removeFromStatus(ix, s, id) == [ix EXCEPT ![s] = @ \ {id}]

\* The record, the key and the status entry, in one transaction.  The entries of a
\* job that was there stay.
Put(id, s, k) ==
    /\ jobs' = [jobs EXCEPT ![id] = [Status |-> s, IdempotencyKey |-> k]]
    /\ idempotencyIndex' = [x \in Keys |-> IF x = k THEN id ELSE idempotencyIndex[x]]
    /\ statusIndex' = addToStatus(statusIndex, s, id)
    /\ replaced' = IF Stored(id) THEN replaced \cup {id} ELSE replaced

BoltAdd(id, s, k) == Put(id, s, k) /\ Answer(TRUE, {})

MemoryAdd(id, s, k) ==
    IF Stored(id)
    THEN Answer(FALSE, {}) /\ UNCHANGED indexVars
    ELSE Put(id, s, k) /\ Answer(TRUE, {})

\* Mutant: the entry under the old status is kept.
MoveMut(id, ok, s) ==
    /\ IF ok
       THEN /\ jobs' = [jobs EXCEPT ![id] =
                          [Status |-> s, IdempotencyKey |-> jobs[id].IdempotencyKey]]
            /\ statusIndex' = addToStatus(statusIndex, s, id)
       ELSE UNCHANGED <<jobs, statusIndex>>
    /\ Answer(ok, {})
    /\ UNCHANGED <<idempotencyIndex, replaced>>

\* The common part of Update and Cancel: the job moves to status s.  The caller's
\* copy carries the key it was read with.
Move(id, ok, s) ==
    /\ IF ok
       THEN /\ jobs' = [jobs EXCEPT ![id] =
                          [Status |-> s, IdempotencyKey |-> jobs[id].IdempotencyKey]]
            /\ statusIndex' =
                 addToStatus(removeFromStatus(statusIndex, jobs[id].Status, id), s, id)
       ELSE UNCHANGED <<jobs, statusIndex>>
    /\ Answer(ok, {})
    /\ UNCHANGED <<idempotencyIndex, replaced>>

UpdateJob(id, s) == Move(id, Stored(id) /\ IsValidTransition(jobs[id].Status, s), s)

\* Mutant: the status is one no bucket is for.
CancelJobMut(id) == Move(id, Stored(id) /\ jobs[id].Status \notin Terminal, "Canceled")

\* Mutant: the check for an ended job is gone.
CancelJobMut2(id) == Move(id, Stored(id), "Cancelled")

CancelJob(id) == Move(id, Stored(id) /\ jobs[id].Status \notin Terminal, "Cancelled")

\* Mutant: the key of the deleted job is kept.
DeleteJobMut(id) ==
    /\ IF Stored(id)
       THEN /\ statusIndex' = removeFromStatus(statusIndex, jobs[id].Status, id)
            /\ jobs' = [jobs EXCEPT ![id] = Abs!NotStored]
       ELSE UNCHANGED <<jobs, statusIndex>>
    /\ Answer(Stored(id), {})
    /\ UNCHANGED <<idempotencyIndex, replaced>>

DeleteJob(id) ==
    /\ IF Stored(id)
       THEN /\ statusIndex' = removeFromStatus(statusIndex, jobs[id].Status, id)
            /\ idempotencyIndex' = [x \in Keys |-> IF x = jobs[id].IdempotencyKey
                                                   THEN NoID ELSE idempotencyIndex[x]]
            /\ jobs' = [jobs EXCEPT ![id] = Abs!NotStored]
       ELSE UNCHANGED <<jobs, statusIndex, idempotencyIndex>>
    /\ Answer(Stored(id), {})
    /\ UNCHANGED replaced
---------------------------------------------------------------------------
\* The queries: an entry without a job is skipped.
Listed(s) == {id \in statusIndex[s] : Stored(id)}

ListByStatus(s) == Answer(TRUE, Listed(s)) /\ UNCHANGED indexVars

Found(k) == {id \in {idempotencyIndex[k]} \ {NoID} : Stored(id)}

FindByIdempotencyKey(k) == Answer(Found(k) # {}, Found(k)) /\ UNCHANGED indexVars

\* What the callers of Add see to: the engine searches for the key before it adds
\* a job (under submitMu), and FSM.Restore adds a job under the key it has.
FreeFor(k, id) == k \in Keys => Found(k) \subseteq {id}

Next ==
    \/ \E id \in IDs, s \in Status, k \in Keys \cup {NoKey} :
         FreeFor(k, id) /\ (BoltAdd(id, s, k) \/ MemoryAdd(id, s, k))
    \/ \E id \in IDs, s \in Status : UpdateJob(id, s)
    \/ \E id \in IDs : CancelJob(id) \/ DeleteJob(id)
    \/ \E s \in Status : ListByStatus(s)
    \/ \E k \in Keys : FindByIdempotencyKey(k)

Spec == Init /\ [][Next]_storeVars
---------------------------------------------------------------------------
\* The indexes miss nothing that a scan of the jobs would find: every job is listed
\* under its status, and a key leads to the job that carries it.  Nor do they hold
\* more, except for IDs that an Add has written over, which BoltStore may still list
\* under a former status or find by a former key.
IndexExact ==
    /\ \A s \in Status : /\ Abs!WithStatus(s) \subseteq Listed(s)
                         /\ Listed(s) \ replaced \subseteq Abs!WithStatus(s)
    /\ \A k \in Keys : /\ Abs!WithKey(k) \subseteq Found(k)
                       /\ Found(k) \ replaced \subseteq Abs!WithKey(k)

\* Every answer of BoltStore and of MemoryStore is one that JobStore allows.
ImplementsStore == Abs!Spec
===========================================================================
