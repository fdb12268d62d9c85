---------------------- MODULE SubmissionStoreProofs -----------------------
(***************************************************************************)
(* Proofs about the store and what Submission does to it.                  *)
(*                                                                         *)
(* First IndexedStore by itself: the indexes are exact, hence every call   *)
(* of BoltStore or MemoryStore returns what the interface Store promises.  *)
(* Then the inductive invariant of Submission, what its steps do to the    *)
(* store, and its types.  SubmissionProofs takes the steps one by one.     *)
(***************************************************************************)
EXTENDS Submission, FiniteSetTheorems, TLAPS

\* Leaves are for Zenon unless they name another prover: SMT for arithmetic,
\* sequences and function updates, PTL for temporal steps.
USE Zenon

\* What makes IndexExact inductive: the entries themselves are complete and, but
\* for the replaced IDs, exact, before the filter on stored jobs; and an absent job
\* has no key.
StatusExact ==
    \A s \in Status, id \in IDs :
        /\ jobs[id].Status = s => id \in statusIndex[s]
        /\ id \in statusIndex[s] /\ id \notin replaced => jobs[id].Status = s

KeyExact ==
    \A k \in Keys, id \in IDs :
        /\ jobs[id].IdempotencyKey = k => idempotencyIndex[k] = id
        /\ idempotencyIndex[k] = id /\ id \notin replaced => jobs[id].IdempotencyKey = k

AbsentKeyless == \A id \in IDs : jobs[id].Status = "None" => jobs[id].IdempotencyKey = NoKey

IInv == TypeOK /\ StatusExact /\ KeyExact /\ AbsentKeyless

\* The queries of a store that satisfies IInv agree with a scan.
LEMMA ExactFromIInv == IInv => IndexExact
<1> SUFFICES ASSUME IInv PROVE IndexExact
  OBVIOUS
<1> USE NoKeyFresh, NoIDFresh
<1>1. ASSUME NEW s \in Status
      PROVE  /\ Abs!WithStatus(s) \subseteq Listed(s)
             /\ Listed(s) \ replaced \subseteq Abs!WithStatus(s)
  <2>1. s # "None" /\ statusIndex[s] \subseteq IDs
    BY <1>1 DEF Status, IInv, TypeOK
  <2>2. QED
    BY <1>1, <2>1 DEF IInv, StatusExact, Listed, Stored, Abs!WithStatus
<1>2. ASSUME NEW k \in Keys
      PROVE  /\ Abs!WithKey(k) \subseteq Found(k)
             /\ Found(k) \ replaced \subseteq Abs!WithKey(k)
  <2>1. idempotencyIndex[k] \in IDs \cup {NoID}
    BY <1>2 DEF IInv, TypeOK
  <2>2. \A id \in IDs : /\ jobs[id].IdempotencyKey = k => idempotencyIndex[k] = id
                        /\ idempotencyIndex[k] = id /\ id \notin replaced
                             => jobs[id].IdempotencyKey = k
    BY <1>2 DEF IInv, KeyExact
  <2>3. \A id \in IDs : jobs[id].IdempotencyKey = k => Stored(id)
    BY <1>2 DEF IInv, AbsentKeyless, Stored
  <2> QED BY <2>1, <2>2, <2>3 DEF Found, Abs!WithKey
<1> QED BY <1>1, <1>2 DEF IndexExact

\* The fields of a record.
LEMMA RecordFields ==
    ASSUME TypeOK, NEW id \in IDs
    PROVE  /\ jobs[id].Status \in Status \cup {"None"}
           /\ jobs[id].IdempotencyKey \in Keys \cup {NoKey}
<1>1. jobs[id] \in Abs!StoredJob
  BY DEF TypeOK
<1> QED BY <1>1 DEF Abs!StoredJob, Abs!Status, Status

\* The record, the index entry and the key of a job that is written: Put under a
\* key that leads to no other job.  What is left of an older job of that ID is put
\* down to the replacement.
LEMMA PutExact ==
    ASSUME IInv, NEW id \in IDs, NEW s \in Status, NEW k \in Keys \cup {NoKey},
           FreeFor(k, id), Put(id, s, k), reply' \in Abs!Reply
    PROVE  IInv'
<1> USE NoKeyFresh, NoIDFresh
<1>1. TypeOK'
  <2>1. [Status |-> s, IdempotencyKey |-> k] \in Abs!StoredJob
    BY DEF Abs!StoredJob, Abs!Status, Status
  <2>2. jobs' \in [IDs -> Abs!StoredJob]
    BY <2>1 DEF IInv, TypeOK, Put
  <2>3. statusIndex' \in [Status -> SUBSET IDs]
    BY SMT DEF IInv, TypeOK, Put, addToStatus
  <2>4. idempotencyIndex' \in [Keys -> IDs \cup {NoID}] /\ replaced' \subseteq IDs
    BY DEF IInv, TypeOK, Put
  <2> QED BY <2>2, <2>3, <2>4 DEF TypeOK
<1>2. \A i \in IDs : /\ jobs'[i].Status = IF i = id THEN s ELSE jobs[i].Status
                     /\ jobs'[i].IdempotencyKey = IF i = id THEN k
                                                  ELSE jobs[i].IdempotencyKey
  BY SMT DEF IInv, TypeOK, Put
<1>3. \A t \in Status : statusIndex'[t] = IF t = s THEN statusIndex[t] \cup {id}
                                                  ELSE statusIndex[t]
  <2>1. /\ statusIndex \in [Status -> SUBSET IDs]
        /\ statusIndex' = [statusIndex EXCEPT ![s] = @ \cup {id}]
    BY DEF IInv, TypeOK, Put, addToStatus
  <2>2. QED
    BY SMT, <2>1
<1>4. /\ \A x \in Keys : idempotencyIndex'[x] = IF x = k THEN id ELSE idempotencyIndex[x]
      /\ replaced \subseteq replaced'
      /\ id \notin replaced' => id \notin replaced /\ jobs[id].Status = "None"
                                /\ jobs[id].IdempotencyKey = NoKey
  BY DEF Put, IInv, AbsentKeyless, Stored
<1>5. StatusExact'
  <2> SUFFICES ASSUME NEW t \in Status, NEW i \in IDs
               PROVE  /\ jobs'[i].Status = t => i \in statusIndex'[t]
                      /\ i \in statusIndex'[t] /\ i \notin replaced' => jobs'[i].Status = t
    BY DEF StatusExact
  <2>1. /\ jobs[i].Status = t => i \in statusIndex[t]
        /\ i \in statusIndex[t] /\ i \notin replaced => jobs[i].Status = t
    BY DEF IInv, StatusExact
  <2>2. t # "None"
    BY DEF Status
  <2>3. CASE i = id
    BY <1>2, <1>3, <1>4, <2>1, <2>2, <2>3
  <2>4. CASE i # id
    BY <1>2, <1>3, <1>4, <2>1, <2>4
  <2> QED BY <2>3, <2>4
<1>6. AbsentKeyless'
  <2>1. s # "None"
    BY DEF Status
  <2> QED BY <1>2, <2>1 DEF IInv, AbsentKeyless
<1>7. ASSUME NEW i \in IDs, i # id, k \in Keys PROVE jobs[i].IdempotencyKey # k
  <2> SUFFICES ASSUME jobs[i].IdempotencyKey = k PROVE FALSE
    OBVIOUS
  <2>1. i \in Found(k)
    BY <1>7, ExactFromIInv DEF IndexExact, Abs!WithKey
  <2> QED BY <1>7, <2>1 DEF FreeFor
<1>8. KeyExact'
  <2> SUFFICES ASSUME NEW x \in Keys, NEW i \in IDs
               PROVE  /\ jobs'[i].IdempotencyKey = x => idempotencyIndex'[x] = i
                      /\ idempotencyIndex'[x] = i /\ i \notin replaced'
                            => jobs'[i].IdempotencyKey = x
    BY DEF KeyExact
  <2>1. /\ jobs[i].IdempotencyKey = x => idempotencyIndex[x] = i
        /\ idempotencyIndex[x] = i /\ i \notin replaced => jobs[i].IdempotencyKey = x
    BY DEF IInv, KeyExact
  <2>2. CASE i = id
    BY <1>2, <1>4, <2>1, <2>2
  <2>3. CASE i # id
    BY <1>2, <1>4, <1>7, <2>1, <2>3
  <2> QED BY <2>2, <2>3
<1> QED BY <1>1, <1>5, <1>6, <1>8 DEF IInv

\* A job that changes its status takes its index entry with it.
LEMMA MoveExact ==
    ASSUME IInv, NEW id \in IDs, NEW s \in Status, NEW ok \in BOOLEAN,
           ok => Stored(id), Move(id, ok, s)
    PROVE  IInv'
<1>0. UNCHANGED <<idempotencyIndex, replaced>> /\ reply' \in Abs!Reply
  BY DEF Move, Answer, Abs!Reply
<1>1. CASE ~ok
  <2>1. UNCHANGED <<jobs, statusIndex>>
    BY <1>1 DEF Move
  <2> QED BY <1>0, <2>1 DEF IInv, TypeOK, StatusExact, KeyExact, AbsentKeyless
<1>2. CASE ok
  <2> DEFINE old == jobs[id].Status
  <2>1. old \in Status
    BY <1>2, RecordFields DEF IInv, Stored
  <2>2. \A i \in IDs : /\ jobs'[i].Status = IF i = id THEN s ELSE jobs[i].Status
                       /\ jobs'[i].IdempotencyKey = jobs[i].IdempotencyKey
    BY SMT, <1>2 DEF IInv, TypeOK, Move
  <2>3. \A t \in Status : statusIndex'[t] =
          IF t = s THEN statusIndex[t] \cup {id}
          ELSE IF t = old THEN statusIndex[t] \ {id} ELSE statusIndex[t]
    BY SMT, <1>2, <2>1 DEF IInv, TypeOK, Move, addToStatus, removeFromStatus
  <2>5. TypeOK'
    <3>0. [Status |-> s, IdempotencyKey |-> jobs[id].IdempotencyKey] \in Abs!StoredJob
      BY RecordFields DEF IInv, Abs!StoredJob, Abs!Status, Status
    <3>1. jobs' \in [IDs -> Abs!StoredJob]
      BY <1>2, <3>0 DEF IInv, TypeOK, Move
    <3>2. statusIndex' \in [Status -> SUBSET IDs]
      BY SMT, <1>2, <2>1 DEF IInv, TypeOK, Move, addToStatus, removeFromStatus
    <3> QED BY <1>0, <3>1, <3>2 DEF IInv, TypeOK
  <2>6. StatusExact'
    <3> SUFFICES ASSUME NEW t \in Status, NEW i \in IDs
                 PROVE  /\ jobs'[i].Status = t => i \in statusIndex'[t]
                        /\ i \in statusIndex'[t] /\ i \notin replaced => jobs'[i].Status = t
      BY <1>0 DEF StatusExact
    <3>1. /\ jobs[i].Status = t => i \in statusIndex[t]
          /\ i \in statusIndex[t] /\ i \notin replaced => jobs[i].Status = t
      BY DEF IInv, StatusExact
    <3> QED BY <2>2, <2>3, <3>1
  <2>7. AbsentKeyless'
    <3>1. s # "None"
      BY DEF Status
    <3> QED BY <1>2, <2>2, <3>1 DEF IInv, AbsentKeyless
  <2>8. KeyExact'
    <3> SUFFICES ASSUME NEW x \in Keys, NEW i \in IDs
                 PROVE  /\ jobs'[i].IdempotencyKey = x => idempotencyIndex[x] = i
                        /\ idempotencyIndex[x] = i /\ i \notin replaced
                              => jobs'[i].IdempotencyKey = x
      BY <1>0 DEF KeyExact
    <3> QED BY <2>2 DEF IInv, KeyExact
  <2> QED BY <2>5, <2>6, <2>7, <2>8 DEF IInv
<1> QED BY <1>1, <1>2

\* A deleted job leaves both indexes.
LEMMA DeleteExact ==
    ASSUME IInv, NEW id \in IDs, DeleteJob(id)
    PROVE  IInv'
<1> USE NoKeyFresh, NoIDFresh
<1>1. reply' \in Abs!Reply /\ UNCHANGED replaced
  BY DEF DeleteJob, Answer, Stored, Abs!Reply
<1>2. CASE ~Stored(id)
  <2>1. UNCHANGED <<jobs, statusIndex, idempotencyIndex>>
    BY <1>2 DEF DeleteJob
  <2> QED BY <1>1, <2>1 DEF IInv, TypeOK, StatusExact, KeyExact, AbsentKeyless
<1>3. CASE Stored(id)
  <2> DEFINE old == jobs[id].Status
  <2>1. old \in Status
    BY <1>3, RecordFields DEF IInv, Stored
  <2>2. \A i \in IDs : /\ jobs'[i].Status = IF i = id THEN "None" ELSE jobs[i].Status
                       /\ jobs'[i].IdempotencyKey = IF i = id THEN NoKey
                                                    ELSE jobs[i].IdempotencyKey
    BY SMT, <1>3 DEF IInv, TypeOK, DeleteJob, Abs!NotStored
  <2>3. \A t \in Status : statusIndex'[t] = IF t = old THEN statusIndex[t] \ {id}
                                                      ELSE statusIndex[t]
    BY SMT, <1>3, <2>1 DEF IInv, TypeOK, DeleteJob, removeFromStatus
  <2>4. TypeOK'
    <3>1. jobs' \in [IDs -> Abs!StoredJob]
      BY SMT, <1>3 DEF IInv, TypeOK, DeleteJob, Abs!StoredJob, Abs!NotStored
    <3>2. statusIndex' \in [Status -> SUBSET IDs]
      BY SMT, <1>3, <2>1 DEF IInv, TypeOK, DeleteJob, removeFromStatus
    <3>3. idempotencyIndex' \in [Keys -> IDs \cup {NoID}]
      BY SMT, <1>3 DEF IInv, TypeOK, DeleteJob
    <3> QED BY <1>1, <3>1, <3>2, <3>3 DEF IInv, TypeOK
  <2>5. StatusExact'
    <3> SUFFICES ASSUME NEW t \in Status, NEW i \in IDs
                 PROVE  /\ jobs'[i].Status = t => i \in statusIndex'[t]
                        /\ i \in statusIndex'[t] /\ i \notin replaced => jobs'[i].Status = t
      BY <1>1 DEF StatusExact
    <3>1. /\ jobs[i].Status = t => i \in statusIndex[t]
          /\ i \in statusIndex[t] /\ i \notin replaced => jobs[i].Status = t
      BY DEF IInv, StatusExact
    <3>2. t # "None"
      BY DEF Status
    <3>3. CASE i = id
      <4>1. jobs'[i].Status # t
        BY <2>2, <3>2, <3>3
      <4>2. i \in statusIndex'[t] => t # jobs[i].Status /\ i \in statusIndex[t]
        BY <2>3, <3>3
      <4> QED BY <3>1, <4>1, <4>2
    <3>4. CASE i # id
      BY <2>2, <2>3, <3>1, <3>4
    <3> QED BY <3>3, <3>4
  <2>6. AbsentKeyless'
    BY <2>2 DEF IInv, AbsentKeyless
  <2>7. KeyExact'
    <3> SUFFICES ASSUME NEW x \in Keys, NEW i \in IDs
                 PROVE  /\ jobs'[i].IdempotencyKey = x => idempotencyIndex'[x] = i
                        /\ idempotencyIndex'[x] = i /\ i \notin replaced
                              => jobs'[i].IdempotencyKey = x
      BY <1>1 DEF KeyExact
    <3>1. idempotencyIndex'[x] = IF x = jobs[id].IdempotencyKey
                                 THEN NoID ELSE idempotencyIndex[x]
      BY <1>3 DEF DeleteJob
    <3>2. /\ \A n \in IDs : jobs[n].IdempotencyKey = x => idempotencyIndex[x] = n
          /\ idempotencyIndex[x] = i /\ i \notin replaced => jobs[i].IdempotencyKey = x
      BY DEF IInv, KeyExact
    <3> QED BY <2>2, <3>1, <3>2
  <2> QED BY <2>4, <2>5, <2>6, <2>7 DEF IInv
<1> QED BY <1>2, <1>3

\* An answer alone disturbs nothing.
LEMMA SameIndex ==
    ASSUME IInv, UNCHANGED indexVars, reply' \in Abs!Reply
    PROVE  IInv'
<1>1. UNCHANGED <<jobs, statusIndex, idempotencyIndex, replaced>>
  BY DEF indexVars
<1> QED BY <1>1 DEF IInv, TypeOK, StatusExact, KeyExact, AbsentKeyless

\* Every call preserves the inductive invariant.
LEMMA NextExact == IInv /\ [Next]_storeVars => IInv'
<1> SUFFICES ASSUME IInv, [Next]_storeVars PROVE IInv'
  OBVIOUS
<1>1. ASSUME NEW id \in IDs, NEW s \in Status, NEW k \in Keys \cup {NoKey},
             FreeFor(k, id), BoltAdd(id, s, k)
      PROVE  IInv'
  <2>1. reply' \in Abs!Reply
    BY <1>1 DEF BoltAdd, Answer, Abs!Reply
  <2> QED BY <1>1, <2>1, PutExact DEF BoltAdd
<1>2. ASSUME NEW id \in IDs, NEW s \in Status, NEW k \in Keys \cup {NoKey},
             FreeFor(k, id), MemoryAdd(id, s, k)
      PROVE  IInv'
  <2>1. CASE Stored(id)
    <3>1. reply' \in Abs!Reply
      <4>1. reply' = [ok |-> FALSE, ids |-> {}]
        BY <1>2, <2>1 DEF MemoryAdd, Answer
      <4> QED BY <4>1 DEF Abs!Reply
    <3>2. UNCHANGED indexVars
      BY <1>2, <2>1 DEF MemoryAdd
    <3> QED BY <3>1, <3>2, SameIndex
  <2>2. CASE ~Stored(id)
    <3>1. reply' \in Abs!Reply
      <4>1. reply' = [ok |-> TRUE, ids |-> {}]
        BY <1>2, <2>2 DEF MemoryAdd, Answer
      <4> QED BY <4>1 DEF Abs!Reply
    <3> QED BY <1>2, <2>2, <3>1, PutExact DEF MemoryAdd
  <2> QED BY <2>1, <2>2
<1>3. ASSUME NEW id \in IDs, NEW s \in Status, UpdateJob(id, s) PROVE IInv'
  <2> DEFINE ok == Stored(id) /\ IsValidTransition(jobs[id].Status, s)
  <2>1. ok \in BOOLEAN /\ (ok => Stored(id)) /\ Move(id, ok, s)
    BY <1>3 DEF UpdateJob, Stored
  <2> HIDE DEF ok
  <2> QED BY <2>1, MoveExact
<1>4. ASSUME NEW id \in IDs, CancelJob(id) PROVE IInv'
  <2> DEFINE ok == Stored(id) /\ jobs[id].Status \notin Terminal
  <2>1. ok \in BOOLEAN /\ (ok => Stored(id)) /\ Move(id, ok, "Cancelled")
    BY <1>4 DEF CancelJob, Stored
  <2> HIDE DEF ok
  <2>2. "Cancelled" \in Status
    BY DEF Status
  <2> QED BY <2>1, <2>2, MoveExact
<1>5. ASSUME NEW s \in Status, ListByStatus(s) PROVE IInv'
  <2>1. reply' \in Abs!Reply
    BY <1>5 DEF ListByStatus, Answer, Listed, IInv, TypeOK, Abs!Reply
  <2> QED BY <1>5, <2>1, SameIndex DEF ListByStatus
<1>6. ASSUME NEW k \in Keys, FindByIdempotencyKey(k) PROVE IInv'
  <2>1. Found(k) \subseteq IDs
    BY SMT DEF Found, IInv, TypeOK
  <2>2. reply' \in Abs!Reply
    BY <1>6, <2>1 DEF FindByIdempotencyKey, Answer, Abs!Reply
  <2> QED BY <1>6, <2>2, SameIndex DEF FindByIdempotencyKey
<1>7. CASE UNCHANGED storeVars
  <2>1. reply' \in Abs!Reply /\ UNCHANGED indexVars
    BY <1>7 DEF storeVars, indexVars, IInv, TypeOK
  <2> QED BY <2>1, SameIndex
<1> QED BY <1>1, <1>2, <1>3, <1>4, <1>5, <1>6, <1>7, DeleteExact DEF Next

\* A new store has empty indexes.
LEMMA InitExact == Init => IInv
<1> SUFFICES ASSUME Init PROVE IInv
  OBVIOUS
<1> USE NoKeyFresh, NoIDFresh
<1>1. jobs \in [IDs -> Abs!StoredJob]
  BY DEF Init, Abs!StoredJob, Abs!NotStored, Abs!Status
<1>2. reply \in Abs!Reply
  BY DEF Init, Abs!Reply
<1>3. TypeOK
  BY <1>1, <1>2 DEF Init, TypeOK
<1>4. \A id \in IDs : jobs[id].Status = "None" /\ jobs[id].IdempotencyKey = NoKey
  BY DEF Init, Abs!NotStored
<1>5. StatusExact
  BY <1>4 DEF Init, StatusExact, Status
<1> QED BY <1>3, <1>4, <1>5 DEF Init, IInv, KeyExact, AbsentKeyless

\* IndexExact holds for every set of IDs and keys and for both stores: after any
\* sequence of calls, Adds of stored IDs included, the status buckets and the key
\* bucket of bolt_store.go, and the maps of memory_store.go, miss no job, and hold
\* what the jobs do not say only for IDs that an Add has written over.
THEOREM StoreIndexExact == Spec => []IndexExact
<1>1. Init => IInv
  BY InitExact
<1>2. IInv /\ [Next]_storeVars => IInv'
  BY NextExact
<1>3. IInv => IndexExact
  BY ExactFromIInv
<1> QED BY <1>1, <1>2, <1>3, PTL DEF Spec

\* A call of the indexed store is the same call of the scanned store.
LEMMA StepRefines == IInv /\ [Next]_storeVars => [Abs!Next]_(Abs!storeVars)
<1> SUFFICES ASSUME IInv, [Next]_storeVars PROVE [Abs!Next]_(Abs!storeVars)
  OBVIOUS
<1> USE DEF Answer, Abs!Answer, Stored, Abs!Stored
<1>0. IndexExact
  BY ExactFromIInv
<1>1. ASSUME NEW id \in IDs, NEW s \in Status, NEW k \in Keys \cup {NoKey},
             FreeFor(k, id), BoltAdd(id, s, k) \/ MemoryAdd(id, s, k)
      PROVE  Abs!AddJob(id, s, k)
  <2>1. ASSUME NEW i \in IDs \ {id}, jobs[i].IdempotencyKey = k, k # NoKey PROVE FALSE
    <3>1. i \in Found(k)
      BY <1>0, <2>1 DEF IndexExact, Abs!WithKey
    <3> QED BY <1>1, <2>1, <3>1 DEF FreeFor
  <2>2. CASE Put(id, s, k) /\ Answer(TRUE, {})
    BY <2>1, <2>2 DEF Put, Abs!AddJob
  <2>3. CASE Stored(id) /\ Answer(FALSE, {}) /\ UNCHANGED indexVars
    BY <2>1, <2>3 DEF indexVars, Abs!AddJob
  <2> QED BY <1>1, <2>2, <2>3 DEF BoltAdd, MemoryAdd
<1>2. ASSUME NEW id \in IDs, NEW s \in Status, UpdateJob(id, s)
      PROVE  Abs!UpdateJob(id, s)
  BY <1>2 DEF UpdateJob, Move, Abs!UpdateJob, Abs!Write, IsValidTransition,
              Abs!IsValidTransition, Status, Abs!Status
<1>3. ASSUME NEW id \in IDs, CancelJob(id) PROVE Abs!CancelJob(id)
  BY <1>3 DEF CancelJob, Move, Abs!CancelJob, Abs!Write, Terminal, Abs!Terminal
<1>4. ASSUME NEW id \in IDs, DeleteJob(id) PROVE Abs!DeleteJob(id)
  <2>1. CASE Stored(id)
    BY <1>4, <2>1 DEF DeleteJob, Abs!DeleteJob
  <2>2. CASE ~Stored(id)
    <3>1. jobs[id] = Abs!NotStored
      <4>1. jobs[id] \in Abs!StoredJob
        BY DEF IInv, TypeOK
      <4> QED BY <2>2, <4>1 DEF IInv, AbsentKeyless, Abs!StoredJob, Abs!NotStored
    <3>2. [jobs EXCEPT ![id] = Abs!NotStored] = jobs
      BY <3>1 DEF IInv, TypeOK
    <3> QED BY <1>4, <2>2, <3>2 DEF DeleteJob, Abs!DeleteJob
  <2> QED BY <2>1, <2>2
<1>5. ASSUME NEW s \in Status, ListByStatus(s) PROVE Abs!ListByStatus(s)
  <2> DEFINE more == Listed(s) \cap replaced
  <2>1. more \in SUBSET Abs!Outdated
    BY DEF Listed, Abs!Outdated
  <2>2. Listed(s) = Abs!WithStatus(s) \cup more
    BY <1>0, <1>5 DEF IndexExact
  <2>3. reply' = [ok |-> TRUE, ids |-> Listed(s)] /\ UNCHANGED <<jobs, replaced>>
    BY <1>5 DEF ListByStatus, indexVars
  <2> QED BY <2>1, <2>2, <2>3 DEF Abs!ListByStatus
<1>6. ASSUME NEW k \in Keys, FindByIdempotencyKey(k) PROVE Abs!FindByIdempotencyKey(k)
  <2>1. /\ reply' = [ok |-> Found(k) # {}, ids |-> Found(k)]
        /\ UNCHANGED <<jobs, replaced>>
    BY <1>6 DEF FindByIdempotencyKey, indexVars
  <2>2. /\ Abs!WithKey(k) \subseteq Found(k)
        /\ Found(k) \ replaced \subseteq Abs!WithKey(k)
    BY <1>0, <1>6 DEF IndexExact
  <2>3. CASE Found(k) = Abs!WithKey(k)
    BY <2>1, <2>3 DEF Abs!FindByIdempotencyKey
  <2>4. CASE Found(k) # Abs!WithKey(k)
    <3>1. PICK id \in Found(k) : id \notin Abs!WithKey(k)
      BY <2>2, <2>4
    <3>2. Found(k) = {id} /\ Stored(id) /\ id \in replaced
      BY <2>2, <3>1 DEF Found
    <3>3. Abs!WithKey(k) = {} /\ id \in Abs!Outdated
      BY <2>2, <3>1, <3>2 DEF Abs!Outdated
    <3>4. reply' = [ok |-> TRUE, ids |-> {id}]
      BY <2>1, <3>2
    <3> QED BY <2>1, <3>3, <3>4 DEF Abs!FindByIdempotencyKey
  <2> QED BY <2>3, <2>4
<1>7. CASE UNCHANGED storeVars
  BY <1>7 DEF storeVars, Abs!storeVars
<1>8. CASE Next
  <2>1. Status = Abs!Status
    BY DEF Status, Abs!Status
  <2> QED BY <1>1, <1>2, <1>3, <1>4, <1>5, <1>6, <1>8, <2>1 DEF Next, Abs!Next
<1> QED BY <1>7, <1>8

\* BoltStore and MemoryStore implement JobStore, for every set of IDs and keys: every
\* answer they give from their indexes is one that a scan of all the jobs would give,
\* but for the jobs that an Add has written over.
THEOREM StoresImplementInterface == Spec => ImplementsStore
<1>1. Init => Abs!Init
  BY DEF Init, Abs!Init
<1>2. Init => IInv
  BY InitExact
<1>3. IInv /\ [Next]_storeVars => IInv'
  BY NextExact
<1>4. IInv /\ [Next]_storeVars => [Abs!Next]_(Abs!storeVars)
  BY StepRefines
<1> QED BY <1>1, <1>2, <1>3, <1>4, PTL DEF Spec, ImplementsStore, Abs!Spec
---------------------------------------------------------------------------
(***************************************************************************)
(* Submission: its inductive invariant, and facts about IDs.               *)
(***************************************************************************)
\* A client whose request adds a job and has not added it yet.
Adding(c) == pc[c] \in {"create", "wait"} /\ op[c] # "cancel"

\* The clients that may yet take an ID.
Allocating == {d \in Clients : pc[d] \in {"lock", "find", "alloc"}}

\* The bound on IDs leaves one for each of them.
RoomInv == nextJobID + Cardinality(Allocating) <= Cardinality(IDs)

\* An absent job has no key, a stored one has an ID the counter has passed, and
\* the index is exact.
StoreInv ==
    /\ \A id \in IDs : Stored(id) => id <= nextJobID
    /\ \A id \in IDs : ~Stored(id) => jobs[id].IdempotencyKey = NoKey
    /\ \A k \in Keys, id \in IDs :
          idempotencyIndex[k] = id <=> jobs[id].IdempotencyKey = k

\* Every job of the snapshot is stored, under the same key.
SnapshotInv ==
    \A id \in IDs : snapshot[id] # Abs!NotStored =>
        /\ snapshot[id].Status # "None" /\ Stored(id)
        /\ jobs[id].IdempotencyKey = snapshot[id].IdempotencyKey

\* Where a client with a key holds submitMu, and where its key is not in use.
Locked == {"find", "alloc", "create", "wait", "applied", "refused"}
Unsaved == {"alloc", "create", "wait"}

\* What holds of one client between the steps of its request.
ClientInv(c) ==
    /\ Key(c) # NoKey => op[c] = "submit"
    /\ pc[c] \in {"lock", "find"} => req[c] # NoKey /\ op[c] = "submit"
    /\ pc[c] \in Locked /\ Key(c) # NoKey => submitMu = c
    /\ pc[c] \in Unsaved /\ Key(c) # NoKey =>
          \A id \in IDs : jobs[id].IdempotencyKey # Key(c)
    /\ pc[c] \in {"create", "wait", "applied", "refused"} => newID[c] \in 1 .. nextJobID
    /\ Adding(c) => ~Stored(newID[c])
    /\ pc[c] = "alloc" => op[c] # "cancel"
    /\ pc[c] = "applied" /\ op[c] # "cancel" =>
          Stored(newID[c]) /\ jobs[newID[c]].IdempotencyKey = Key(c)
    /\ pc[c] = "applied" /\ op[c] = "cancel" => jobs[newID[c]].Status = "Cancelled"

ClientsInv == \A c \in Clients : ClientInv(c)

\* No two clients add a job under one ID.
Distinct ==
    \A c, d \in Clients : Adding(c) /\ Adding(d) /\ newID[c] = newID[d] => c = d

\* The log holds every waiting client once.
LogInv ==
    /\ \A i \in 1 .. Len(log) : pc[log[i]] = "wait"
    /\ \A i, k \in 1 .. Len(log) : log[i] = log[k] => i = k

CountersType == raft \in BOOLEAN /\ restarts \in Nat

SubmissionInv ==
    /\ SubmissionTypeOK /\ CountersType
    /\ RoomInv /\ StoreInv /\ SnapshotInv /\ ClientsInv /\ Distinct /\ LogInv
    /\ AnsweredStored /\ CancelIsFinal
---------------------------------------------------------------------------
\* A nonempty set of naturals has a least element.
LEMMA LeastElement ==
    ASSUME NEW T, T \subseteq Nat, T # {}
    PROVE  \E x \in T : \A y \in T : x <= y
<1>1. OpToRel(<, Nat) = {ss \in Nat \X Nat : ss[1] < ss[2]}
  BY DEF OpToRel
<1>2. IsWellFoundedOn({ss \in Nat \X Nat : ss[1] < ss[2]}, Nat)
  BY <1>1, NatLessThanWellFounded
<1>3. PICK x \in T : \A y \in T : ~(<<y, x>> \in {ss \in Nat \X Nat : ss[1] < ss[2]})
  BY <1>2, WFMin
<1>4. ASSUME NEW y \in T PROVE x <= y
  <2>1. x \in Nat /\ y \in Nat
    OBVIOUS
  <2>2. ~(<<y, x>> \in {ss \in Nat \X Nat : ss[1] < ss[2]})
    BY <1>3
  <2>3. ~(y < x)
    BY <2>1, <2>2
  <2>4. QED
    BY SMT, <2>1, <2>3
<1>5. QED
  BY <1>4

\* Max is the greatest element of a bounded set of naturals.
LEMMA MaxOfBounded ==
    ASSUME NEW n \in Nat, NEW S, S \subseteq 0 .. n, S # {}
    PROVE  Max(S) \in S /\ \A y \in S : y <= Max(S)
<1> DEFINE T == {n - x : x \in S}
<1>1. PICK t \in T : \A y \in T : t <= y
  <2>1. T \subseteq Nat
    BY SMT
  <2>2. T # {}
    <3>1. PICK x : x \in S
      OBVIOUS
    <3>2. n - x \in T
      BY <3>1
    <3>3. QED
      BY <3>2
  <2>3. QED
    BY <2>1, <2>2, LeastElement
<1>2. PICK m \in S : t = n - m
  OBVIOUS
<1>3. \A y \in S : m >= y
  BY SMT, <1>1, <1>2
<1>4. QED
  BY <1>3 DEF Max

\* There are finitely many IDs, and the numbers a client may hold are IDs.
LEMMA IDNumbers == Cardinality(IDs) \in Nat /\ IDs = 1 .. Cardinality(IDs)
BY IDsAreNumbers, FS_CardinalityType

LEMMA AllocatingFinite == IsFiniteSet(Allocating) /\ Cardinality(Allocating) \in Nat
BY ClientsFinite, FS_Subset, FS_CardinalityType DEF Allocating

\* The counter stays among the IDs.
LEMMA CounterInIDs ==
    ASSUME SubmissionInv
    PROVE  nextJobID \in Nat /\ 1 .. nextJobID \subseteq IDs
<1>1. nextJobID \in Nat
  BY SMT, IDNumbers DEF SubmissionInv, SubmissionTypeOK
<1>2. nextJobID <= Cardinality(IDs)
  BY SMT, <1>1, IDNumbers, AllocatingFinite DEF SubmissionInv, RoomInv
<1>3. QED
  BY SMT, <1>1, <1>2, IDNumbers

\* So does what a client holds from Alloc on.
LEMMA HeldID ==
    ASSUME SubmissionInv, NEW c \in Clients,
           pc[c] \in {"create", "wait", "applied", "refused"}
    PROVE  newID[c] \in IDs
<1>1. newID[c] \in 1 .. nextJobID
  BY DEF SubmissionInv, ClientsInv, ClientInv
<1>2. QED
  BY <1>1, CounterInIDs
---------------------------------------------------------------------------
(***************************************************************************)
(* What the steps do to the store.                                         *)
(***************************************************************************)

\* No job more and no key changed.
SameJobs ==
    /\ \A id \in IDs : /\ jobs'[id].Status # "None" <=> jobs[id].Status # "None"
                       /\ jobs'[id].IdempotencyKey = jobs[id].IdempotencyKey
    /\ idempotencyIndex' = idempotencyIndex

\* One new job, with key k.
OneMore(id, k) ==
    /\ id \in IDs /\ ~Stored(id)
    /\ jobs'[id].Status # "None" /\ jobs'[id].IdempotencyKey = k
    /\ \A i \in IDs \ {id} : jobs'[i] = jobs[i]
    /\ idempotencyIndex' = [x \in Keys |-> IF x = k THEN id ELSE idempotencyIndex[x]]

Grown == SameJobs \/ \E c \in Clients : Adding(c) /\ OneMore(newID[c], Key(c))

EndedKept == \A id \in IDs : jobs[id].Status \in Terminal => jobs'[id] = jobs[id]

\* Add under a new ID.
LEMMA AddEffect ==
    ASSUME TypeOK, NEW id \in IDs, ~Stored(id), NEW s \in {"Pending", "Scheduled"},
           NEW k \in Keys \cup {NoKey}, BoltAdd(id, s, k)
    PROVE  TypeOK' /\ OneMore(id, k) /\ EndedKept /\ reply'.ok = TRUE
<1>1. [Status |-> s, IdempotencyKey |-> k] \in Abs!StoredJob
  BY DEF Abs!StoredJob, Abs!Status
<1>2. jobs' = [jobs EXCEPT ![id] = [Status |-> s, IdempotencyKey |-> k]]
  BY DEF BoltAdd, Put
<1>3. reply' = [ok |-> TRUE, ids |-> {}]
  BY DEF BoltAdd, Answer
<1>4. TypeOK'
  <2>1. jobs' \in [IDs -> Abs!StoredJob]
    BY <1>1, <1>2 DEF TypeOK
  <2>2. statusIndex' \in [Status -> SUBSET IDs]
    BY DEF TypeOK, BoltAdd, Put, addToStatus
  <2>3. idempotencyIndex' \in [Keys -> IDs \cup {NoID}] /\ replaced' \subseteq IDs
    BY DEF TypeOK, BoltAdd, Put
  <2>4. reply' \in Abs!Reply
    BY <1>3 DEF Abs!Reply
  <2>5. QED
    BY <2>1, <2>2, <2>3, <2>4 DEF TypeOK
<1>5. OneMore(id, k)
  BY SMT, <1>2 DEF TypeOK, OneMore, BoltAdd, Put
<1>6. EndedKept
  BY <1>2 DEF TypeOK, EndedKept, Stored, Terminal
<1>7. QED
  BY <1>3, <1>4, <1>5, <1>6

\* Update and Cancel, which do not take an ended job out of its state.
LEMMA MoveEffect ==
    ASSUME TypeOK, NEW id \in IDs, NEW s \in Status, NEW ok \in BOOLEAN,
           ok => Stored(id) /\ (jobs[id].Status \in Terminal => jobs[id].Status = s),
           Move(id, ok, s)
    PROVE  /\ TypeOK' /\ SameJobs /\ EndedKept /\ reply'.ok = ok
           /\ ok => jobs'[id].Status = s
<1> DEFINE new == [Status |-> s, IdempotencyKey |-> jobs[id].IdempotencyKey]
<1>0. /\ reply' = [ok |-> ok, ids |-> {}]
      /\ idempotencyIndex' = idempotencyIndex /\ replaced' = replaced
  BY DEF Move, Answer
<1>1. reply' \in Abs!Reply /\ reply'.ok = ok
  BY <1>0 DEF Abs!Reply
<1>2. CASE ~ok
  <2>1. jobs' = jobs /\ statusIndex' = statusIndex
    BY <1>2 DEF Move
  <2>2. QED
    BY <1>0, <1>1, <1>2, <2>1 DEF TypeOK, SameJobs, EndedKept
<1>3. CASE ok
  <2>1. jobs[id].Status \in Status /\ jobs[id].IdempotencyKey \in Keys \cup {NoKey}
    BY <1>3, RecordFields DEF Stored
  <2>2. jobs' = [jobs EXCEPT ![id] = new]
    BY <1>3 DEF Move
  <2>3. new \in Abs!StoredJob
    BY <2>1 DEF Abs!StoredJob, Abs!Status, Status
  <2>4. jobs' \in [IDs -> Abs!StoredJob]
    BY <2>2, <2>3 DEF TypeOK
  <2>5. statusIndex' \in [Status -> SUBSET IDs]
    BY SMT, <1>3, <2>1 DEF TypeOK, Move, addToStatus, removeFromStatus
  <2>6. TypeOK'
    BY <1>0, <1>1, <2>4, <2>5 DEF TypeOK
  <2>7. jobs'[id] = new /\ \A i \in IDs \ {id} : jobs'[i] = jobs[i]
    BY <2>2 DEF TypeOK
  <2>8. SameJobs
    <3>1. new.Status # "None" /\ new.IdempotencyKey = jobs[id].IdempotencyKey
      BY DEF Status
    <3>2. QED
      BY <1>0, <1>3, <2>7, <3>1 DEF SameJobs, Stored
  <2>9. EndedKept
    <3>1. jobs[id].Status = s => jobs[id] = new
      <4>1. jobs[id] \in Abs!StoredJob
        BY DEF TypeOK
      <4>2. QED
        BY <4>1 DEF Abs!StoredJob
    <3>2. QED
      BY <1>3, <2>7, <3>1 DEF EndedKept
  <2>10. QED
    BY SMT, <1>1, <2>6, <2>7, <2>8, <2>9
<1>4. QED
  BY <1>2, <1>3

\* A status update is one a stored job may make.
LEMMA UpdateEffect ==
    ASSUME TypeOK, NEW id \in IDs, NEW s \in Status, UpdateJob(id, s)
    PROVE  TypeOK' /\ SameJobs /\ EndedKept
<1> DEFINE ok == Stored(id) /\ IsValidTransition(jobs[id].Status, s)
<1>1. ok \in BOOLEAN /\ Move(id, ok, s)
  BY DEF UpdateJob, Stored
<1>2. ok => Stored(id) /\ (jobs[id].Status \in Terminal => jobs[id].Status = s)
  BY DEF IsValidTransition, Terminal
<1> HIDE DEF ok
<1>3. QED
  BY <1>1, <1>2, MoveEffect

\* Cancel refuses an ended job.
LEMMA CancelEffect ==
    ASSUME TypeOK, NEW id \in IDs, CancelJob(id)
    PROVE  /\ TypeOK' /\ SameJobs /\ EndedKept
           /\ reply'.ok \in BOOLEAN
           /\ reply'.ok => jobs'[id].Status = "Cancelled"
<1> DEFINE ok == Stored(id) /\ jobs[id].Status \notin Terminal
<1>1. ok \in BOOLEAN /\ Move(id, ok, "Cancelled") /\ "Cancelled" \in Status
  BY DEF CancelJob, Stored, Status
<1>2. ok => Stored(id) /\ (jobs[id].Status \in Terminal => jobs[id].Status = "Cancelled")
  OBVIOUS
<1> HIDE DEF ok
<1>3. QED
  BY <1>1, <1>2, MoveEffect

\* What a request does to the store when it is executed.
LEMMA ExecuteEffect ==
    ASSUME SubmissionInv, NEW c \in Clients, pc[c] \in {"create", "wait"}, Execute(c)
    PROVE  /\ TypeOK' /\ Grown /\ EndedKept /\ reply'.ok \in BOOLEAN
           /\ op[c] # "cancel" => OneMore(newID[c], Key(c))
           /\ op[c] = "cancel" => SameJobs
           /\ op[c] = "cancel" /\ reply'.ok => jobs'[newID[c]].Status = "Cancelled"
<1>1. TypeOK /\ ClientInv(c) /\ Key(c) \in Keys \cup {NoKey}
  BY DEF SubmissionInv, SubmissionTypeOK, ClientsInv, Key
<1>2. newID[c] \in IDs
  BY <1>1, CounterInIDs DEF ClientInv
<1>3. CASE op[c] = "cancel"
  <2>1. CancelJob(newID[c])
    BY <1>3 DEF Execute
  <2>2. QED
    BY <1>1, <1>2, <1>3, <2>1, CancelEffect DEF Grown
<1>4. CASE op[c] # "cancel"
  <2>1. Adding(c) /\ ~Stored(newID[c])
    BY <1>1, <1>4 DEF ClientInv, Adding
  <2>2. PICK s \in {"Pending", "Scheduled"} : BoltAdd(newID[c], s, Key(c))
    BY <1>4 DEF Execute
  <2>3. TypeOK' /\ OneMore(newID[c], Key(c)) /\ EndedKept /\ reply'.ok = TRUE
    BY <1>1, <1>2, <2>1, <2>2, AddEffect
  <2>4. QED
    BY <1>4, <2>1, <2>3 DEF Grown
<1>5. QED
  BY <1>3, <1>4

\* A snapshot has at most one job for a key, the job the index leads to.
LEMMA RestoreEffect ==
    ASSUME SubmissionInv, Restore
    PROVE  TypeOK' /\ SameJobs
<1> USE NoKeyFresh, NoIDFresh
<1>1. TypeOK /\ snapshot \in [IDs -> Abs!StoredJob]
  BY DEF SubmissionInv, SubmissionTypeOK
<1>2. \A id \in IDs : jobs'[id] = IF snapshot[id] = Abs!NotStored THEN jobs[id]
                                  ELSE snapshot[id]
  BY DEF Restore
<1>3. \A id \in IDs : /\ jobs'[id].Status # "None" <=> jobs[id].Status # "None"
                      /\ jobs'[id].IdempotencyKey = jobs[id].IdempotencyKey
  BY <1>2 DEF SubmissionInv, SnapshotInv, Stored
<1>4. ASSUME NEW k \in Keys PROVE idempotencyIndex'[k] = idempotencyIndex[k]
  <2> DEFINE from == {id \in IDs : snapshot[id].IdempotencyKey = k}
  <2>1. idempotencyIndex'[k] = IF from = {} THEN idempotencyIndex[k] ELSE Max(from)
    BY DEF Restore
  <2>2. ASSUME NEW id \in from PROVE id = idempotencyIndex[k]
    <3>1. id \in IDs /\ snapshot[id].IdempotencyKey = k /\ k # NoKey
      OBVIOUS
    <3>2. snapshot[id] # Abs!NotStored
      BY SMT, <3>1 DEF Abs!NotStored
    <3>3. jobs[id].IdempotencyKey = k
      BY <3>1, <3>2 DEF SubmissionInv, SnapshotInv
    <3>4. QED
      BY <3>1, <3>3 DEF SubmissionInv, StoreInv
  <2>3. CASE from # {}
    <3>1. from \subseteq 0 .. Cardinality(IDs)
      BY SMT, IDNumbers
    <3>2. Max(from) \in from
      BY <2>3, <3>1, IDNumbers, MaxOfBounded
    <3>3. QED
      BY <2>1, <2>2, <2>3, <3>2
  <2>4. QED
    BY <2>1, <2>3
<1>5. idempotencyIndex' = idempotencyIndex
  <2>1. /\ idempotencyIndex' = [k \in Keys |-> idempotencyIndex'[k]]
        /\ idempotencyIndex = [k \in Keys |-> idempotencyIndex[k]]
    BY <1>1 DEF Restore, TypeOK
  <2>2. QED
    BY <1>4, <2>1
<1>6. TypeOK'
  <2>1. jobs' \in [IDs -> Abs!StoredJob]
    BY <1>1 DEF Restore, TypeOK
  <2>2. statusIndex' \in [Status -> SUBSET IDs]
    BY <1>1 DEF Restore, TypeOK
  <2>3. reply' \in Abs!Reply /\ replaced' \subseteq IDs
    BY <1>1 DEF Restore, TypeOK
  <2>4. QED
    BY <1>1, <1>5, <2>1, <2>2, <2>3 DEF TypeOK
<1>7. QED
  BY <1>3, <1>5, <1>6 DEF SameJobs
---------------------------------------------------------------------------
(***************************************************************************)
(* What stays true of the store, the snapshot and the history when the     *)
(* store grows, and of a client while others take steps.                   *)
(***************************************************************************)

\* A key that a client is about to store is in nobody's record.
LEMMA NewKeyUnused ==
    ASSUME SubmissionInv, NEW c \in Clients, Adding(c)
    PROVE  /\ newID[c] \in 1 .. nextJobID /\ Key(c) \in Keys \cup {NoKey}
           /\ Key(c) # NoKey => /\ submitMu = c
                                /\ \A id \in IDs : jobs[id].IdempotencyKey # Key(c)
<1>1. ClientInv(c) /\ Key(c) \in Keys \cup {NoKey}
  BY DEF SubmissionInv, SubmissionTypeOK, ClientsInv, Key
<1>2. QED
  BY <1>1 DEF ClientInv, Adding, Locked, Unsaved

\* The index stays exact.
LEMMA StoreGrows ==
    ASSUME SubmissionInv, Grown, nextJobID' \in Nat, nextJobID' >= nextJobID
    PROVE  StoreInv'
<1> USE NoKeyFresh, NoIDFresh
<1>0. StoreInv /\ nextJobID \in Nat /\ IDs \subseteq Nat
  BY SMT, CounterInIDs, IDNumbers DEF SubmissionInv
<1>1. CASE SameJobs
  BY SMT, <1>0, <1>1 DEF SameJobs, StoreInv, Stored
<1>2. ASSUME NEW c \in Clients, Adding(c), OneMore(newID[c], Key(c))
      PROVE  StoreInv'
  <2> DEFINE new == newID[c]
  <2> DEFINE key == Key(c)
  <2>1. /\ new \in IDs /\ new <= nextJobID /\ key \in Keys \cup {NoKey}
        /\ key # NoKey => \A id \in IDs : jobs[id].IdempotencyKey # key
    BY SMT, <1>2, NewKeyUnused, CounterInIDs
  <2>2. /\ ~Stored(new) /\ jobs'[new].Status # "None" /\ jobs'[new].IdempotencyKey = key
        /\ \A i \in IDs : i # new => jobs'[i] = jobs[i]
        /\ \A x \in Keys : idempotencyIndex'[x] = IF x = key THEN new ELSE idempotencyIndex[x]
    BY <1>2 DEF OneMore
  <2> HIDE DEF new, key
  <2>3. \A id \in IDs : jobs'[id].Status # "None" => id <= nextJobID'
    BY SMT, <1>0, <2>1, <2>2 DEF StoreInv, Stored
  <2>4. \A id \in IDs : ~(jobs'[id].Status # "None") => jobs'[id].IdempotencyKey = NoKey
    BY SMT, <1>0, <2>1, <2>2 DEF StoreInv, Stored
  <2>5. ASSUME NEW k \in Keys, NEW id \in IDs
        PROVE  idempotencyIndex'[k] = id <=> jobs'[id].IdempotencyKey = k
    <3>1. idempotencyIndex[k] = id <=> jobs[id].IdempotencyKey = k
      BY <1>0 DEF StoreInv
    <3>2. jobs[new].IdempotencyKey = NoKey
      BY <1>0, <2>1, <2>2 DEF StoreInv
    <3>3. QED
      BY <2>1, <2>2, <3>1, <3>2
  <2>6. QED
    BY <2>3, <2>4, <2>5 DEF StoreInv, Stored
<1>3. QED
  BY <1>1, <1>2 DEF Grown

\* A stored job stays stored, under its key.
LEMMA StoredStays ==
    ASSUME Grown, NEW id \in IDs, Stored(id)
    PROVE  Stored(id)' /\ jobs'[id].IdempotencyKey = jobs[id].IdempotencyKey
<1>1. CASE SameJobs
  BY <1>1 DEF SameJobs, Stored
<1>2. ASSUME NEW c \in Clients, OneMore(newID[c], Key(c))
      PROVE  jobs'[id] = jobs[id]
  BY <1>2 DEF OneMore
<1>3. QED
  BY <1>1, <1>2 DEF Grown, Stored

\* Snapshot and history are about jobs that stay.
LEMMA HistoryStays ==
    ASSUME SubmissionInv, Grown
    PROVE  /\ snapshot' = snapshot => SnapshotInv'
           /\ answers' = answers => AnsweredStored'
           /\ EndedKept /\ UNCHANGED <<cancelled, raft, restarts>> => CancelIsFinal'
<1>1. ASSUME snapshot' = snapshot PROVE SnapshotInv'
  <2>1. ASSUME NEW id \in IDs, snapshot[id] # Abs!NotStored
        PROVE  /\ snapshot[id].Status # "None" /\ Stored(id)'
               /\ jobs'[id].IdempotencyKey = snapshot[id].IdempotencyKey
    BY <2>1, StoredStays DEF SubmissionInv, SnapshotInv
  <2>2. QED
    BY <1>1, <2>1 DEF SnapshotInv, Stored
<1>2. ASSUME answers' = answers PROVE AnsweredStored'
  <2>1. ASSUME NEW a \in answers
        PROVE  /\ Stored(a.id)'
               /\ jobs'[a.id].IdempotencyKey = IF a.runAt THEN NoKey ELSE a.key
    <3>1. /\ a.id \in IDs /\ Stored(a.id)
          /\ jobs[a.id].IdempotencyKey = IF a.runAt THEN NoKey ELSE a.key
      BY DEF SubmissionInv, SubmissionTypeOK, Answers, AnsweredStored
    <3>2. QED
      BY <3>1, StoredStays
  <2>2. QED
    BY <1>2, <2>1 DEF AnsweredStored, Stored
<1>3. ASSUME EndedKept, UNCHANGED <<cancelled, raft, restarts>> PROVE CancelIsFinal'
  <2>1. ASSUME NEW id \in cancelled, jobs[id].Status = "Cancelled"
        PROVE  jobs'[id].Status = "Cancelled"
    BY <1>3, <2>1 DEF SubmissionInv, SubmissionTypeOK, EndedKept, Terminal
  <2>2. QED
    BY <1>3, <2>1 DEF SubmissionInv, CancelIsFinal
<1>4. QED
  BY <1>1, <1>2, <1>3

\* The request of client d, which does not take this step, is where it was.
Waits(d) == /\ pc'[d] = pc[d] /\ op'[d] = op[d]
            /\ req'[d] = req[d] /\ newID'[d] = newID[d] /\ Key(d)' = Key(d)

\* Nothing a waiting client relies on is taken from it.
LEMMA WaitingClient ==
    ASSUME SubmissionInv, NEW d \in Clients, Waits(d), EndedKept,
           nextJobID' \in Nat, nextJobID' >= nextJobID,
           \/ SameJobs
           \/ \E c \in Clients \ {d} : Adding(c) /\ OneMore(newID[c], Key(c)),
           submitMu' = submitMu \/ submitMu # d
    PROVE  ClientInv(d)'
<1>0. ClientInv(d) /\ nextJobID \in Nat /\ 1 .. nextJobID \subseteq IDs
  BY CounterInIDs DEF SubmissionInv, ClientsInv
<1>1. pc[d] \in Locked /\ Key(d) # NoKey => submitMu = d /\ submitMu' = d
  BY <1>0 DEF ClientInv
<1>2. pc[d] \in Unsaved /\ Key(d) # NoKey =>
          \A id \in IDs : jobs'[id].IdempotencyKey # Key(d)
  <2>1. CASE SameJobs
    BY <1>0, <2>1 DEF ClientInv, SameJobs
  <2>2. ASSUME NEW c \in Clients \ {d}, Adding(c), OneMore(newID[c], Key(c)),
               pc[d] \in Unsaved, Key(d) # NoKey
        PROVE  \A id \in IDs : jobs'[id].IdempotencyKey # Key(d)
    <3>1. submitMu = d
      BY <1>1, <2>2 DEF Locked, Unsaved
    <3>2. Key(c) = NoKey
      BY <2>2, <3>1, NewKeyUnused
    <3>3. \A id \in IDs : jobs[id].IdempotencyKey # Key(d)
      BY <1>0, <2>2 DEF ClientInv
    <3>4. QED
      BY <2>2, <3>2, <3>3 DEF OneMore
  <2>3. QED
    BY <2>1, <2>2
<1>3. pc[d] \in {"create", "wait", "applied", "refused"} => newID[d] \in 1 .. nextJobID'
  BY SMT, <1>0 DEF ClientInv
<1>4. Adding(d) => ~(jobs'[newID[d]].Status # "None")
  <2> SUFFICES ASSUME Adding(d) PROVE jobs'[newID[d]].Status = "None"
    OBVIOUS
  <2>1. newID[d] \in IDs /\ ~Stored(newID[d])
    BY <1>0 DEF ClientInv, Adding
  <2>2. CASE SameJobs
    BY <2>1, <2>2 DEF SameJobs, Stored
  <2>3. ASSUME NEW c \in Clients \ {d}, Adding(c), OneMore(newID[c], Key(c))
        PROVE  jobs'[newID[d]].Status = "None"
    <3>1. newID[c] # newID[d]
      BY <2>3 DEF SubmissionInv, Distinct
    <3>2. QED
      BY <2>1, <2>3, <3>1 DEF OneMore, Stored
  <2>4. QED
    BY <2>2, <2>3
<1>5. pc[d] = "applied" /\ op[d] # "cancel" =>
          jobs'[newID[d]].Status # "None" /\ jobs'[newID[d]].IdempotencyKey = Key(d)
  <2>1. Grown
    BY DEF Grown
  <2>2. QED
    BY <1>0, <2>1, StoredStays DEF ClientInv, Stored
<1>6. pc[d] = "applied" /\ op[d] = "cancel" => jobs'[newID[d]].Status = "Cancelled"
  BY <1>0 DEF ClientInv, EndedKept, Terminal
<1>7. QED
  BY ZenonT(60), <1>0, <1>1, <1>2, <1>3, <1>4, <1>5, <1>6
  DEF ClientInv, Waits, Adding, Stored
---------------------------------------------------------------------------
(***************************************************************************)
(* The bound on IDs, and the types.                                        *)
(***************************************************************************)

\* Clients take IDs only while there is room for all of them.
LEMMA RoomStep ==
    ASSUME SubmissionInv, [SubmissionNext]_vars
    PROVE  nextJobID' \in Nat /\ RoomInv'
<1>0. /\ nextJobID \in Nat /\ Cardinality(IDs) \in Nat
      /\ nextJobID + Cardinality(Allocating) <= Cardinality(IDs)
      /\ DOMAIN pc = Clients
  BY CounterInIDs, IDNumbers DEF SubmissionInv, RoomInv, SubmissionTypeOK
<1>1. ASSUME nextJobID' = nextJobID, Allocating' \subseteq Allocating
      PROVE  nextJobID' \in Nat /\ RoomInv'
  <2>1. Cardinality(Allocating') <= Cardinality(Allocating) /\ Cardinality(Allocating') \in Nat
    BY <1>1, AllocatingFinite, FS_Subset, FS_CardinalityType
  <2>2. QED
    BY SMT, <1>0, <1>1, <2>1, AllocatingFinite DEF RoomInv
<1>2. ASSUME NEW c \in Clients, NEW o, NEW k, NEW l, RoomForID, Request(c, o, k, l)
      PROVE  nextJobID' \in Nat /\ RoomInv'
  <2>1. nextJobID + Cardinality(Allocating) < Cardinality(IDs) /\ nextJobID' = nextJobID
    BY <1>2 DEF RoomForID, Allocating, Request
  <2>2. Allocating' \subseteq Allocating \cup {c}
    BY <1>0, <1>2 DEF Request, Goto, Allocating
  <2>3. /\ IsFiniteSet(Allocating \cup {c})
        /\ Cardinality(Allocating \cup {c}) <= Cardinality(Allocating) + 1
    <3>1. /\ IsFiniteSet(Allocating \cup {c})
          /\ Cardinality(Allocating \cup {c}) =
                IF c \in Allocating THEN Cardinality(Allocating) ELSE Cardinality(Allocating) + 1
      BY AllocatingFinite, FS_AddElement
    <3>2. QED
      BY SMT, <3>1, AllocatingFinite
  <2>4. /\ Cardinality(Allocating') <= Cardinality(Allocating \cup {c})
        /\ Cardinality(Allocating') \in Nat /\ Cardinality(Allocating \cup {c}) \in Nat
    BY <2>2, <2>3, FS_Subset, FS_CardinalityType
  <2>5. QED
    BY SMT, <1>0, <2>1, <2>3, <2>4, AllocatingFinite DEF RoomInv
<1>3. ASSUME NEW c \in Clients, Alloc(c) PROVE nextJobID' \in Nat /\ RoomInv'
  <2>1. Allocating' = Allocating \ {c} /\ c \in Allocating /\ nextJobID' = nextJobID + 1
    BY <1>0, <1>3 DEF Alloc, Goto, Allocating
  <2>2. Cardinality(Allocating') = Cardinality(Allocating) - 1
    BY <2>1, AllocatingFinite, FS_RemoveElement
  <2>3. QED
    BY SMT, <1>0, <2>1, <2>2, AllocatingFinite DEF RoomInv
<1>4. ASSUME NEW c \in Clients,
             Lock(c) \/ Find(c) \/ Create(c) \/ Propose(c) \/ Applied(c)
      PROVE  nextJobID' \in Nat /\ RoomInv'
  <2>1. nextJobID' = nextJobID
    BY <1>4 DEF Lock, Find, Create, Propose, Applied
  <2>2. PICK l : pc' = [pc EXCEPT ![c] = l] /\ (l \in {"find", "alloc"} => c \in Allocating)
    <3>1. CASE Lock(c)
      BY <3>1 DEF Lock, Goto, Allocating
    <3>2. CASE Find(c)
      BY <3>2 DEF Find, Return, Goto, Allocating
    <3>3. CASE Create(c) \/ Applied(c)
      BY <3>3 DEF Create, Applied, Return, Goto
    <3>4. CASE Propose(c)
      BY <3>4 DEF Propose, Return, Goto
    <3>5. QED
      BY <1>4, <3>1, <3>2, <3>3, <3>4
  <2>3. ASSUME NEW d \in Clients, pc'[d] \in {"lock", "find", "alloc"}, d # c
        PROVE  d \in Allocating
    BY <1>0, <2>2, <2>3 DEF Allocating
  <2>4. l # "lock"
    BY <1>0, <1>4, <2>2 DEF Lock, Find, Create, Propose, Applied, Return, Goto
  <2>5. pc'[c] = l
    BY <1>0, <2>2
  <2>6. Allocating' \subseteq Allocating
    BY <2>2, <2>3, <2>4, <2>5 DEF Allocating
  <2>7. QED
    BY <1>1, <2>1, <2>6
<1>5. ASSUME NEW c \in Clients, NEW id, Cancel(c, id)
      PROVE  nextJobID' \in Nat /\ RoomInv'
  <2>1. nextJobID' = nextJobID /\ pc' = [pc EXCEPT ![c] = "create"]
    BY <1>5 DEF Cancel, Request, Goto
  <2>2. Allocating' \subseteq Allocating
    BY <1>0, <2>1 DEF Allocating
  <2>3. QED
    BY <1>1, <2>1, <2>2
<1>6. CASE Apply
  <2>1. PICK l \in {"applied", "refused"} : pc' = [pc EXCEPT ![Head(log)] = l]
    BY <1>6 DEF Apply, Goto
  <2>2. Allocating' \subseteq Allocating
    BY <1>0, <2>1 DEF Allocating
  <2>3. QED
    BY <1>1, <1>6, <2>2 DEF Apply
<1>7. CASE Restart
  <2> DEFINE S == {0} \cup {id \in IDs : jobs'[id].Status # "None"}
  <2>1. nextJobID' = Max(S)
    BY <1>7 DEF Restart
  <2>2. S \subseteq 0 .. Cardinality(IDs) /\ S # {}
    BY SMT, IDNumbers
  <2> HIDE DEF S
  <2>3. Max(S) \in 0 .. Cardinality(IDs)
    BY <2>2, IDNumbers, MaxOfBounded
  <2>4. Allocating' = {}
    BY <1>7 DEF Restart, Allocating
  <2>5. QED
    BY SMT, <1>0, <2>1, <2>3, <2>4, FS_EmptySet DEF RoomInv
<1>8. CASE Elect \/ Snapshot \/ UNCHANGED vars \/ \E id \in IDs, s \in ProgressTo : Progress(id, s)
  <2>1. UNCHANGED <<nextJobID, pc>>
    BY <1>8 DEF Elect, Snapshot, Progress, vars, engineVars
  <2>2. QED
    BY <1>1, <2>1 DEF Allocating
<1>9. QED
  BY <1>2, <1>3, <1>4, <1>5, <1>6, <1>7, <1>8
  DEF SubmissionNext, ClientStep, Submit, SubmitAt

\* The first entry of the log is a client that waits for it.
LEMMA FirstEntry ==
    ASSUME SubmissionInv, log # <<>>
    PROVE  /\ Head(log) \in Clients /\ pc[Head(log)] = "wait"
           /\ Head(log) = log[1] /\ 1 \in 1 .. Len(log)
           /\ Tail(log) \in Seq(Clients) /\ Len(Tail(log)) = Len(log) - 1
           /\ \A i \in 1 .. Len(log) - 1 : Tail(log)[i] = log[i + 1]
<1>1. log \in Seq(Clients)
  BY DEF SubmissionInv, SubmissionTypeOK
<1>2. /\ Head(log) \in Clients /\ Head(log) = log[1] /\ 1 \in 1 .. Len(log)
      /\ Tail(log) \in Seq(Clients) /\ Len(Tail(log)) = Len(log) - 1
      /\ \A i \in 1 .. Len(log) - 1 : Tail(log)[i] = log[i + 1]
  BY SMT, <1>1
<1>3. QED
  BY <1>2 DEF SubmissionInv, LogInv

\* Every step leaves the records of the store in shape.
LEMMA StoreTypeStep ==
    ASSUME SubmissionInv, [SubmissionNext]_vars
    PROVE  TypeOK' /\ snapshot' \in [IDs -> Abs!StoredJob]
<1>0. TypeOK /\ snapshot \in [IDs -> Abs!StoredJob] /\ req \in [Clients -> Keys \cup {NoKey}]
  BY DEF SubmissionInv, SubmissionTypeOK
<1>1. ASSUME UNCHANGED storeVars, UNCHANGED snapshot \/ Snapshot
      PROVE  TypeOK' /\ snapshot' \in [IDs -> Abs!StoredJob]
  BY <1>0, <1>1 DEF storeVars, TypeOK, Snapshot
<1>2. ASSUME NEW c \in Clients, Find(c) PROVE TypeOK' /\ snapshot' = snapshot
  <2>1. req[c] \in Keys
    BY <1>0, <1>2 DEF SubmissionInv, ClientsInv, ClientInv, Find
  <2>2. Found(req[c]) \subseteq IDs
    BY <1>0, <2>1 DEF Found, TypeOK
  <2>3. reply' \in Abs!Reply
    BY <1>2, <2>2 DEF Find, FindByIdempotencyKey, Answer, Abs!Reply
  <2>4. QED
    BY <1>0, <1>2, <2>3 DEF Find, FindByIdempotencyKey, indexVars, TypeOK, diskVars
<1>3. ASSUME NEW c \in Clients, Create(c) PROVE TypeOK' /\ snapshot' = snapshot
  BY <1>3, ExecuteEffect DEF Create, diskVars
<1>4. CASE Apply
  <2>1. log # <<>> /\ Execute(Head(log)) /\ snapshot' = snapshot
    BY <1>4 DEF Apply, diskVars
  <2>2. QED
    BY <1>0, <2>1, FirstEntry, ExecuteEffect
<1>5. CASE Restart
  <2>1. snapshot' = snapshot
    BY <1>5 DEF Restart
  <2>2. CASE raft
    BY <1>0, <1>5, <2>1, <2>2, RestoreEffect DEF Restart
  <2>3. CASE ~raft
    BY <1>1, <1>5, <2>1, <2>3 DEF Restart
  <2>4. QED
    BY <2>2, <2>3
<1>6. ASSUME NEW id \in IDs, NEW s \in ProgressTo, Progress(id, s)
      PROVE  TypeOK' /\ snapshot' = snapshot
  BY <1>0, <1>6, UpdateEffect, ProgressToStatuses DEF Progress, diskVars
<1>7. CASE Elect \/ Snapshot \/ UNCHANGED vars
  BY <1>1, <1>7 DEF Elect, Snapshot, vars, diskVars
<1>8. QED
  <2>1. ASSUME NEW c \in Clients, NEW k \in Keys \cup {NoKey},
               Submit(c, k) \/ SubmitAt(c, k)
        PROVE  UNCHANGED <<storeVars, snapshot>>
    BY <2>1 DEF Submit, SubmitAt, Request, diskVars
  <2>2. ASSUME NEW c \in Clients, Lock(c) \/ Alloc(c) \/ Propose(c) \/ Applied(c)
        PROVE  UNCHANGED <<storeVars, snapshot>>
    BY <2>2 DEF Lock, Alloc, Propose, Applied, diskVars
  <2>3. ASSUME NEW c \in Clients, NEW id \in 1 .. nextJobID, Cancel(c, id)
        PROVE  UNCHANGED <<storeVars, snapshot>>
    BY <2>3 DEF Cancel, Request, diskVars
  <2>4. QED
    BY <1>0, <1>1, <1>2, <1>3, <1>4, <1>5, <1>6, <1>7, <2>1, <2>2, <2>3
    DEF SubmissionNext, ClientStep

\* The rest of the types, except for the counter and the history.
EngineType ==
    /\ submitMu \in Clients \cup {NoClient}
    /\ pc \in [Clients -> {"idle", "lock", "find", "alloc", "create", "wait", "applied",
                           "refused"}]
    /\ op \in [Clients -> {"submit", "submitAt", "cancel"}]
    /\ req \in [Clients -> Keys \cup {NoKey}]
    /\ newID \in [Clients -> IDs \cup {0}]
    /\ log \in Seq(Clients)
    /\ leader \in BOOLEAN
    /\ CountersType

\* A request that returns leaves the client idle.
LEMMA ReturnType ==
    ASSUME EngineType, NEW c \in Clients, Return(c), UNCHANGED <<log, leader, raft, restarts>>
    PROVE  EngineType'
BY DEF EngineType, Return, Goto, CountersType

\* The next ID is one of those the bound leaves.
LEMMA NextIDFree ==
    ASSUME SubmissionInv, NEW c \in Clients, pc[c] = "alloc"
    PROVE  nextJobID + 1 \in IDs
<1>1. c \in Allocating
  BY DEF Allocating
<1>2. Cardinality(Allocating) # 0
  BY <1>1, AllocatingFinite, FS_EmptySet
<1>3. QED
  BY SMT, <1>2, AllocatingFinite, CounterInIDs, IDNumbers DEF SubmissionInv, RoomInv

\* Every step keeps these types.
LEMMA EngineTypeStep ==
    ASSUME SubmissionInv, [SubmissionNext]_vars
    PROVE  EngineType'
<1>0. EngineType /\ nextJobID \in Nat /\ 1 .. nextJobID \subseteq IDs
  BY CounterInIDs DEF SubmissionInv, SubmissionTypeOK, EngineType
<1>1. ASSUME NEW c \in Clients, NEW k \in Keys \cup {NoKey}, Submit(c, k) PROVE EngineType'
  BY <1>0, <1>1 DEF EngineType, CountersType, Submit, Request, Goto, diskVars
<1>2. ASSUME NEW c \in Clients, NEW k \in Keys \cup {NoKey}, SubmitAt(c, k)
      PROVE  EngineType'
  BY <1>0, <1>2 DEF EngineType, CountersType, SubmitAt, Request, Goto, diskVars
<1>3. ASSUME NEW c \in Clients, NEW id \in 1 .. nextJobID, Cancel(c, id) PROVE EngineType'
  BY <1>0, <1>3 DEF EngineType, CountersType, Cancel, Request, Goto, diskVars
<1>4. ASSUME NEW c \in Clients, Lock(c) PROVE EngineType'
  BY <1>0, <1>4 DEF EngineType, CountersType, Lock, Goto, callVars, diskVars
<1>5. ASSUME NEW c \in Clients, Find(c) PROVE EngineType'
  <2>1. CASE Found(req[c]) = {}
    BY <1>0, <1>5, <2>1 DEF EngineType, CountersType, Find, Goto, callVars, diskVars
  <2>2. CASE Found(req[c]) # {}
    BY <1>0, <1>5, <2>2, ReturnType DEF Find, diskVars
  <2>3. QED
    BY <2>1, <2>2
<1>6. ASSUME NEW c \in Clients, Alloc(c) PROVE EngineType'
  <2>1. nextJobID + 1 \in IDs
    BY <1>6, NextIDFree DEF Alloc
  <2>2. QED
    BY <1>0, <1>6, <2>1 DEF EngineType, CountersType, Alloc, Goto, diskVars
<1>7. ASSUME NEW c \in Clients, Create(c) \/ Applied(c) PROVE EngineType'
  BY <1>0, <1>7, ReturnType DEF Create, Applied, diskVars
<1>8. ASSUME NEW c \in Clients, Propose(c) PROVE EngineType'
  <2>1. CASE log' = Append(log, c) /\ Goto(c, "wait") /\ UNCHANGED <<submitMu, callVars>>
    <3>1. /\ log' = Append(log, c) /\ pc' = [pc EXCEPT ![c] = "wait"]
          /\ UNCHANGED <<submitMu, op, req, newID, leader, raft, restarts>>
      BY <1>8, <2>1 DEF Propose, Goto, callVars, diskVars
    <3>2. log' \in Seq(Clients)
      BY SMT, <1>0, <3>1 DEF EngineType
    <3>3. QED
      BY <1>0, <3>1, <3>2 DEF EngineType, CountersType
  <2>2. CASE Return(c) /\ log' = log
    BY <1>0, <1>8, <2>2, ReturnType DEF Propose, diskVars
  <2>3. QED
    BY <1>8, <2>1, <2>2 DEF Propose
<1>9. CASE Apply
  <2>1. /\ log # <<>> /\ log' = Tail(log)
        /\ UNCHANGED <<submitMu, op, req, newID, leader, raft, restarts>>
    BY <1>9 DEF Apply, callVars, diskVars
  <2>2. PICK l \in {"applied", "refused"} : pc' = [pc EXCEPT ![Head(log)] = l]
    BY <1>9 DEF Apply, Goto
  <2>3. Tail(log) \in Seq(Clients)
    BY <2>1, FirstEntry
  <2>4. QED
    BY <1>0, <2>1, <2>2, <2>3 DEF EngineType, CountersType
<1>10. CASE Restart
  <2>1. /\ submitMu' = NoClient /\ log' = <<>> /\ leader' = FALSE
        /\ pc' = [c \in Clients |-> "idle"] /\ op' = [c \in Clients |-> "submit"]
        /\ req' = [c \in Clients |-> NoKey] /\ newID' = [c \in Clients |-> 0]
        /\ raft' = raft /\ restarts' = restarts + 1
    BY <1>10 DEF Restart
  <2>2. log' \in Seq(Clients)
    BY SMT, <2>1
  <2>3. raft' \in BOOLEAN /\ restarts' \in Nat
    BY SMT, <1>0, <2>1 DEF EngineType, CountersType
  <2>4. QED
    BY <2>1, <2>2, <2>3 DEF EngineType, CountersType
<1>11. CASE Elect
  BY <1>0, <1>11 DEF EngineType, CountersType, Elect, callVars, diskVars
<1>12. CASE Snapshot \/ UNCHANGED vars \/ \E id \in IDs, s \in ProgressTo : Progress(id, s)
  <2>1. UNCHANGED <<submitMu, pc, op, req, newID, log, leader, raft, restarts>>
    BY <1>12 DEF Snapshot, vars, Progress, engineVars, callVars, diskVars
  <2>2. QED
    BY <1>0, <2>1 DEF EngineType, CountersType
<1>13. QED
  BY <1>1, <1>2, <1>3, <1>4, <1>5, <1>6, <1>7, <1>8, <1>9, <1>10, <1>11, <1>12
  DEF SubmissionNext, ClientStep
===========================================================================
