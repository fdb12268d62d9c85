------------------------- MODULE SubmissionProofs -------------------------
(***************************************************************************)
(* Safety of Submission for every set of clients, keys and IDs, and any    *)
(* number of restarts, snapshots and cancellations, with and without Raft. *)
(*                                                                         *)
(* The argument: the key index leads to the one job that carries a key.    *)
(* A submission with a key holds submitMu from its search to its answer,   *)
(* so no other client adds a job with a key in between.  An ID comes from  *)
(* a counter that is never below a stored ID, so Add meets no job.  A      *)
(* snapshot holds jobs that are stored, under the same keys, so restoring  *)
(* it changes neither the set of jobs nor the index.                       *)
(*                                                                         *)
(* The last part turns this into what the store is used for: the engine    *)
(* calls it within its contract, so that what IndexedStore promises holds  *)
(* in the running system, and restored snapshots keep its indexes.         *)
(***************************************************************************)
EXTENDS SubmissionStoreProofs

\* Leaves are for Zenon unless they name another prover: SMT for arithmetic,
\* sequences and function updates, PTL for temporal steps.
USE Zenon

(***************************************************************************)
(* The steps, one by one.                                                  *)
(***************************************************************************)
HistoryType ==
    answers \subseteq Answers /\ cancelled \subseteq IDs

HistoryInv == HistoryType /\ AnsweredStored /\ CancelIsFinal

\* The parts of the invariant that are left to show for each step.
StepInv == StoreInv /\ SnapshotInv /\ ClientsInv /\ Distinct /\ LogInv /\ HistoryInv

\* The types and the bound on IDs hold after every step.
LEMMA StepSuffices ==
    ASSUME SubmissionInv, [SubmissionNext]_vars, StepInv'
    PROVE  SubmissionInv'
<1>1. nextJobID' \in Nat /\ RoomInv'
  BY RoomStep
<1>2. IsFiniteSet(Allocating') /\ Cardinality(Allocating') \in Nat
  BY ClientsFinite, FS_Subset, FS_CardinalityType DEF Allocating
<1>3. nextJobID' \in IDs \cup {0}
  BY SMT, <1>1, <1>2, IDNumbers DEF RoomInv
<1>4. SubmissionTypeOK' /\ CountersType'
  BY <1>3, StoreTypeStep, EngineTypeStep
  DEF SubmissionTypeOK, EngineType, StepInv, HistoryInv, HistoryType
<1>5. QED
  BY <1>1, <1>4 DEF SubmissionInv, StepInv, HistoryInv

\* The store, the snapshot and the clients after a step of client c.
LEMMA CallStep ==
    ASSUME SubmissionInv, NEW c \in Clients, ClientInv(c)',
           \A d \in Clients \ {c} : Waits(d),
           nextJobID' \in Nat, nextJobID' >= nextJobID, EndedKept,
           SameJobs \/ (Adding(c) /\ OneMore(newID[c], Key(c))),
           submitMu' = submitMu \/ submitMu \in {c, NoClient}, snapshot' = snapshot
    PROVE  StoreInv' /\ SnapshotInv' /\ ClientsInv'
<1>1. Grown
  BY DEF Grown
<1>2. StoreInv' /\ SnapshotInv'
  BY <1>1, StoreGrows, HistoryStays
<1>3. ASSUME NEW d \in Clients, d # c PROVE ClientInv(d)'
  <2>1. submitMu' = submitMu \/ submitMu # d
    BY <1>3, ClientsFinite
  <2>2. Waits(d)
    BY <1>3
  <2>3. SameJobs \/ \E e \in Clients \ {d} : Adding(e) /\ OneMore(newID[e], Key(e))
    BY <1>3
  <2>4. QED
    BY <2>1, <2>2, <2>3, WaitingClient
<1>4. QED
  BY <1>2, <1>3 DEF ClientsInv

\* No client gets the ID of another, and nobody leaves the log.
LEMMA CallsDistinct ==
    ASSUME SubmissionInv, NEW c \in Clients, \A d \in Clients \ {c} : Waits(d)
    PROVE  /\ (Adding(c)' => Adding(c) /\ newID'[c] = newID[c]) => Distinct'
           /\ log' = log /\ pc[c] # "wait" => LogInv'
<1>1. ASSUME Adding(c)' => Adding(c) /\ newID'[c] = newID[c] PROVE Distinct'
  <2>1. \A d \in Clients : Adding(d)' => Adding(d) /\ newID'[d] = newID[d]
    BY <1>1 DEF Waits, Adding
  <2>2. QED
    BY <2>1 DEF SubmissionInv, Distinct
<1>2. ASSUME log' = log, pc[c] # "wait" PROVE LogInv'
  <2>1. \A d \in Clients : pc[d] = "wait" => pc'[d] = "wait"
    BY <1>2 DEF Waits
  <2>2. \A i \in 1 .. Len(log) : log[i] \in Clients
    BY SMT DEF SubmissionInv, SubmissionTypeOK
  <2>3. QED
    BY <1>2, <2>1, <2>2 DEF SubmissionInv, LogInv
<1>3. QED
  BY <1>1, <1>2

\* A call that returns gives up the mutex if it holds it, and nothing of it is left.
LEMMA ReturnEffect ==
    ASSUME SubmissionInv, NEW c \in Clients, pc[c] \in Locked, Return(c)
    PROVE  /\ ClientInv(c)' /\ ~Adding(c)' /\ \A d \in Clients \ {c} : Waits(d)
           /\ submitMu' = submitMu \/ submitMu \in {c, NoClient}
<1>1. /\ c \in DOMAIN pc /\ c \in DOMAIN op /\ c \in DOMAIN req /\ c \in DOMAIN newID
      /\ ClientInv(c)
  BY DEF SubmissionInv, SubmissionTypeOK, ClientsInv
<1>2. pc'[c] = "idle" /\ op'[c] = "submit" /\ req'[c] = NoKey
  BY <1>1 DEF Return, Goto
<1>3. ClientInv(c)' /\ ~Adding(c)'
  BY <1>2 DEF ClientInv, Adding, Locked, Unsaved, Key
<1>4. \A d \in Clients \ {c} : Waits(d)
  BY DEF SubmissionInv, SubmissionTypeOK, Return, Goto, Waits, Key
<1>5. submitMu' = submitMu \/ submitMu = c
  BY <1>1 DEF Return, ClientInv
<1>6. QED
  BY <1>3, <1>4, <1>5

\* Where nobody is answered, the history is as good as it was.
LEMMA NoAnswer ==
    ASSUME SubmissionInv, Grown, EndedKept, UNCHANGED <<history, raft, restarts>>
    PROVE  HistoryInv'
<1>1. answers' = answers /\ cancelled' = cancelled
  BY DEF history
<1>2. AnsweredStored' /\ CancelIsFinal'
  BY <1>1, HistoryStays
<1>3. QED
  BY <1>1, <1>2 DEF HistoryInv, HistoryType, SubmissionInv, SubmissionTypeOK

\* What a client is told is so.
LEMMA AcknowledgeEffect ==
    ASSUME SubmissionInv, NEW c \in Clients, newID[c] \in IDs, Grown, EndedKept,
           Acknowledge(c), UNCHANGED <<raft, restarts>>,
           op[c] # "cancel" =>
              jobs'[newID[c]].Status # "None" /\ jobs'[newID[c]].IdempotencyKey = Key(c),
           op[c] = "cancel" => jobs'[newID[c]].Status = "Cancelled"
    PROVE  HistoryInv'
<1>1. /\ HistoryType /\ req[c] \in Keys \cup {NoKey}
      /\ answers' = answers => AnsweredStored'
      /\ cancelled' = cancelled => CancelIsFinal'
  BY HistoryStays DEF SubmissionInv, SubmissionTypeOK, HistoryType
<1>2. CASE op[c] = "cancel"
  <2>1. cancelled' = cancelled \cup {newID[c]} /\ answers' = answers
    BY <1>2 DEF Acknowledge
  <2>2. HistoryType'
    BY <1>1, <2>1 DEF HistoryType
  <2>3. ASSUME NEW id \in cancelled
        PROVE  jobs'[id].Status = "Cancelled" \/ (raft /\ restarts > 0)
    BY DEF SubmissionInv, SubmissionTypeOK, CancelIsFinal, EndedKept, Terminal
  <2>4. CancelIsFinal'
    BY <1>2, <2>1, <2>3 DEF CancelIsFinal
  <2>5. QED
    BY <1>1, <2>1, <2>2, <2>4 DEF HistoryInv
<1>3. CASE op[c] # "cancel"
  <2>1. answers' = answers \cup {Told(c, newID[c])} /\ cancelled' = cancelled
    BY <1>3 DEF Acknowledge
  <2>2. HistoryType'
    <3>1. Told(c, newID[c]) \in Answers
      BY <1>1 DEF Told, Answers
    <3>2. QED
      BY <1>1, <2>1, <3>1 DEF HistoryType
  <2>3. ASSUME NEW a \in answers
        PROVE  /\ jobs'[a.id].Status # "None"
               /\ jobs'[a.id].IdempotencyKey = IF a.runAt THEN NoKey ELSE a.key
    <3>1. /\ a.id \in IDs /\ Stored(a.id)
          /\ jobs[a.id].IdempotencyKey = IF a.runAt THEN NoKey ELSE a.key
      BY DEF SubmissionInv, SubmissionTypeOK, Answers, AnsweredStored
    <3>2. QED
      BY <3>1, StoredStays DEF Stored
  <2>4. AnsweredStored'
    <3>1. ASSUME NEW a \in answers'
          PROVE  /\ jobs'[a.id].Status # "None"
                 /\ jobs'[a.id].IdempotencyKey = IF a.runAt THEN NoKey ELSE a.key
      <4>1. CASE a \in answers
        BY <2>3, <4>1
      <4>2. CASE a = Told(c, newID[c])
        <5>1. a.id = newID[c] /\ Key(c) = IF a.runAt THEN NoKey ELSE a.key
          BY <4>2 DEF Told, Key
        <5>2. QED
          BY <1>3, <5>1
      <4>3. QED
        BY <2>1, <4>1, <4>2
    <3>2. QED
      BY <3>1 DEF AnsweredStored, Stored
  <2>5. QED
    BY <1>1, <2>1, <2>2, <2>4 DEF HistoryInv
<1>4. QED
  BY <1>2, <1>3

\* Where the store stays as it is, nothing of it is lost.
LEMMA SameStore ==
    ASSUME UNCHANGED <<jobs, idempotencyIndex>>
    PROVE  SameJobs /\ EndedKept /\ Grown
BY DEF SameJobs, EndedKept, Grown

\* A step of a call that leaves the store and the history alone.
LEMMA QuietStep ==
    ASSUME SubmissionInv, NEW c \in Clients, ClientInv(c)',
           \A d \in Clients \ {c} : Waits(d),
           nextJobID' \in Nat, nextJobID' >= nextJobID,
           submitMu' = submitMu \/ submitMu \in {c, NoClient},
           UNCHANGED <<storeVars, diskVars, history>>
    PROVE  StoreInv' /\ SnapshotInv' /\ ClientsInv' /\ HistoryInv'
<1>1. SameJobs /\ EndedKept /\ Grown
  BY SameStore DEF storeVars
<1>2. snapshot' = snapshot /\ UNCHANGED <<history, raft, restarts>>
  BY DEF diskVars
<1>3. QED
  BY <1>1, <1>2, CallStep, NoAnswer

\* A request arrives: it has stored nothing and holds no mutex.
LEMMA RequestStep ==
    ASSUME SubmissionInv, NEW c \in Clients, NEW o, NEW k, NEW l, Request(c, o, k, l),
           \/ o = "submit" /\ l = IF k = NoKey THEN "alloc" ELSE "lock"
           \/ o = "submitAt" /\ l = "alloc"
           \/ o = "cancel" /\ l = "create" /\ k = NoKey /\ newID'[c] \in 1 .. nextJobID,
           \A d \in Clients \ {c} : newID'[d] = newID[d]
    PROVE  StepInv'
<1>1. /\ pc'[c] = l /\ op'[c] = o /\ req'[c] = k /\ pc[c] = "idle"
      /\ \A d \in Clients \ {c} : Waits(d)
  BY DEF SubmissionInv, SubmissionTypeOK, Request, Goto, Waits, Key
<1>2. /\ nextJobID' = nextJobID /\ submitMu' = submitMu /\ log' = log
      /\ UNCHANGED <<storeVars, diskVars, history>>
  BY DEF Request
<1>3. ClientInv(c)' /\ ~Adding(c)'
  <2>1. Key(c)' = IF o = "submitAt" THEN NoKey ELSE k
    BY <1>1 DEF Key
  <2>2. QED
    BY <1>1, <1>2, <2>1 DEF ClientInv, Adding, Locked, Unsaved
<1>4. StoreInv' /\ SnapshotInv' /\ ClientsInv' /\ HistoryInv'
  <2>1. nextJobID' \in Nat /\ nextJobID' >= nextJobID
    BY SMT, <1>2, CounterInIDs
  <2>2. QED
    BY <1>1, <1>2, <1>3, <2>1, QuietStep
<1>5. Distinct' /\ LogInv'
  BY <1>1, <1>2, <1>3, CallsDistinct
<1>6. QED
  BY <1>4, <1>5 DEF StepInv

\* The search for the key, under the mutex.
LEMMA LockStep ==
    ASSUME SubmissionInv, NEW c \in Clients, Lock(c)
    PROVE  StepInv'
<1>1. /\ pc[c] = "lock" /\ pc'[c] = "find" /\ submitMu = NoClient /\ submitMu' = c
      /\ op'[c] = op[c] /\ req'[c] = req[c] /\ Key(c)' = Key(c)
      /\ nextJobID' = nextJobID /\ log' = log
      /\ \A d \in Clients \ {c} : Waits(d)
      /\ UNCHANGED <<storeVars, diskVars, history>>
  BY DEF SubmissionInv, SubmissionTypeOK, Lock, Goto, callVars, Waits, Key
<1>2. ClientInv(c)' /\ ~Adding(c)'
  <2>1. ClientInv(c)
    BY DEF SubmissionInv, ClientsInv
  <2>2. QED
    BY <1>1, <2>1 DEF ClientInv, Adding, Locked, Unsaved
<1>3. StoreInv' /\ SnapshotInv' /\ ClientsInv' /\ HistoryInv'
  <2>1. nextJobID' \in Nat /\ nextJobID' >= nextJobID
    BY SMT, <1>1, CounterInIDs
  <2>2. QED
    BY <1>1, <1>2, <2>1, QuietStep
<1>4. Distinct' /\ LogInv'
  BY <1>1, <1>2, CallsDistinct
<1>5. QED
  BY <1>3, <1>4 DEF StepInv

\* A search that finds nothing shows that no job carries the key; what it finds is
\* the job that does.
LEMMA FindStep ==
    ASSUME SubmissionInv, NEW c \in Clients, Find(c)
    PROVE  StepInv'
<1> USE NoKeyFresh, NoIDFresh
<1>1. /\ pc[c] = "find" /\ nextJobID' = nextJobID /\ log' = log /\ cancelled' = cancelled
      /\ UNCHANGED <<jobs, idempotencyIndex, diskVars, raft, restarts, snapshot>>
  BY DEF Find, FindByIdempotencyKey, indexVars, diskVars
<1>2. /\ ClientInv(c) /\ op[c] = "submit" /\ Key(c) = req[c] /\ req[c] \in Keys
      /\ TypeOK /\ StoreInv
  BY <1>1 DEF SubmissionInv, SubmissionTypeOK, ClientsInv, ClientInv, Key
<1>3. SameJobs /\ EndedKept /\ Grown
  BY <1>1, SameStore
<1>4. nextJobID' \in Nat /\ nextJobID' >= nextJobID
  BY SMT, <1>1, CounterInIDs
<1>5. CASE Found(req[c]) = {}
  <2>1. /\ pc'[c] = "alloc" /\ op'[c] = op[c] /\ req'[c] = req[c] /\ Key(c)' = Key(c)
        /\ submitMu' = submitMu
        /\ \A d \in Clients \ {c} : Waits(d)
        /\ UNCHANGED history
    BY <1>1, <1>5
    DEF SubmissionInv, SubmissionTypeOK, Find, Goto, callVars, Waits, Key, history
  <2>2. ASSUME NEW id \in IDs PROVE jobs[id].IdempotencyKey # Key(c)
    <3>1. SUFFICES ASSUME jobs[id].IdempotencyKey = req[c] PROVE FALSE
      BY <1>2
    <3>2. idempotencyIndex[req[c]] = id /\ Stored(id)
      BY <1>2, <3>1 DEF StoreInv
    <3>3. QED
      BY <1>5, <3>2 DEF Found
  <2>3. ClientInv(c)' /\ ~Adding(c)'
    BY <1>1, <1>2, <2>1, <2>2 DEF ClientInv, Adding, Locked, Unsaved
  <2>4. StoreInv' /\ SnapshotInv' /\ ClientsInv'
    BY <1>1, <1>3, <1>4, <2>1, <2>3, CallStep
  <2>5. HistoryInv'
    BY <1>1, <1>3, <2>1, NoAnswer
  <2>6. Distinct' /\ LogInv'
    BY <1>1, <2>1, <2>3, CallsDistinct
  <2>7. QED
    BY <2>4, <2>5, <2>6 DEF StepInv
<1>6. CASE Found(req[c]) # {}
  <2>1. /\ Return(c)
        /\ answers' = answers \cup {Told(c, id) : id \in Found(req[c])}
    BY <1>6 DEF Find
  <2>2. /\ ClientInv(c)' /\ ~Adding(c)' /\ \A d \in Clients \ {c} : Waits(d)
        /\ submitMu' = submitMu \/ submitMu \in {c, NoClient}
    BY <1>1, <2>1, ReturnEffect DEF Locked
  <2>3. StoreInv' /\ SnapshotInv' /\ ClientsInv'
    BY <1>1, <1>3, <1>4, <2>2, CallStep
  <2>4. Distinct' /\ LogInv'
    BY <1>1, <2>2, CallsDistinct
  <2>5. \A id \in Found(req[c]) :
            id \in IDs /\ Stored(id) /\ jobs[id].IdempotencyKey = req[c]
    BY SMT, <1>2 DEF Found, TypeOK, StoreInv
  <2>6. ASSUME NEW a \in answers'
        PROVE  /\ a \in Answers /\ Stored(a.id)
               /\ jobs[a.id].IdempotencyKey = IF a.runAt THEN NoKey ELSE a.key
    <3>1. CASE a \in answers
      BY <3>1 DEF SubmissionInv, SubmissionTypeOK, AnsweredStored
    <3>2. CASE a \notin answers
      <4>1. PICK id \in Found(req[c]) : a = Told(c, id)
        BY <2>1, <3>2
      <4>2. (op[c] = "submitAt") = FALSE
        BY <1>2
      <4>3. a = [key |-> req[c], runAt |-> FALSE, id |-> id]
        BY <4>1, <4>2 DEF Told
      <4>4. a.key = req[c] /\ a.runAt = FALSE /\ a.id = id /\ a \in Answers
        BY <1>2, <2>5, <4>3 DEF Answers
      <4>5. QED
        BY <2>5, <4>4
    <3>3. QED
      BY <3>1, <3>2
  <2>7. HistoryType' /\ AnsweredStored'
    BY <1>1, <2>6
    DEF HistoryType, SubmissionInv, SubmissionTypeOK, AnsweredStored, Stored
  <2>8. CancelIsFinal'
    BY <1>1, <1>3, HistoryStays
  <2>9. QED
    BY <2>3, <2>4, <2>7, <2>8 DEF StepInv, HistoryInv
<1>7. QED
  BY <1>5, <1>6

\* The counter gives out an ID above every one that is stored or held.
LEMMA AllocStep ==
    ASSUME SubmissionInv, NEW c \in Clients, Alloc(c)
    PROVE  StepInv'
<1>1. /\ pc[c] = "alloc" /\ pc'[c] = "create" /\ op'[c] = op[c] /\ req'[c] = req[c]
      /\ Key(c)' = Key(c)
      /\ newID'[c] = nextJobID + 1 /\ nextJobID' = nextJobID + 1
      /\ submitMu' = submitMu /\ log' = log /\ \A d \in Clients \ {c} : Waits(d)
      /\ UNCHANGED <<jobs, storeVars, diskVars, history>>
  BY DEF SubmissionInv, SubmissionTypeOK, Alloc, Goto, Waits, Key, storeVars
<1>2. ClientInv(c) /\ nextJobID \in Nat /\ nextJobID + 1 \in IDs
  BY <1>1, CounterInIDs, NextIDFree DEF SubmissionInv, ClientsInv
<1>3. ClientInv(c)'
  <2>1. ~Stored(nextJobID + 1)
    BY SMT, <1>2 DEF SubmissionInv, StoreInv
  <2>2. jobs'[nextJobID + 1].Status = "None"
    BY <1>1, <2>1 DEF Stored
  <2>3. nextJobID + 1 \in 1 .. nextJobID + 1
    BY SMT, <1>2
  <2>4. newID'[c] \in 1 .. nextJobID'
    BY <1>1, <2>3
  <2>5. QED
    BY <1>1, <1>2, <2>2, <2>4 DEF ClientInv, Adding, Locked, Unsaved, Stored
<1>4. StoreInv' /\ SnapshotInv' /\ ClientsInv' /\ HistoryInv'
  <2>1. nextJobID' \in Nat /\ nextJobID' >= nextJobID
    BY SMT, <1>1, <1>2
  <2>2. QED
    BY <1>1, <1>3, <2>1, QuietStep
<1>5. LogInv'
  BY <1>1, CallsDistinct
<1>6. Distinct'
  <2>1. ASSUME NEW d \in Clients, d # c, Adding(d)'
        PROVE  newID'[d] # newID'[c] /\ Adding(d) /\ newID'[d] = newID[d]
    <3>1. Waits(d)
      BY <1>1, <2>1
    <3>2. Adding(d) /\ newID'[d] = newID[d]
      BY <2>1, <3>1 DEF Waits, Adding
    <3>3. QED
      BY SMTT(60), <1>1, <1>2, <3>2, NewKeyUnused
  <2>2. QED
    BY <2>1 DEF SubmissionInv, Distinct
<1>7. QED
  BY <1>4, <1>5, <1>6 DEF StepInv

\* Without Raft a call of the store and its answer are one step.
LEMMA CreateStep ==
    ASSUME SubmissionInv, NEW c \in Clients, Create(c)
    PROVE  StepInv'
<1>1. /\ pc[c] = "create" /\ Execute(c) /\ Return(c)
      /\ nextJobID' = nextJobID /\ log' = log
      /\ snapshot' = snapshot /\ UNCHANGED <<raft, restarts>>
  BY DEF Create, diskVars
<1>2. /\ ClientInv(c)' /\ ~Adding(c)' /\ \A d \in Clients \ {c} : Waits(d)
      /\ submitMu' = submitMu \/ submitMu \in {c, NoClient}
  BY <1>1, ReturnEffect DEF Locked
<1>3. /\ Grown /\ EndedKept
      /\ op[c] # "cancel" => OneMore(newID[c], Key(c))
      /\ op[c] = "cancel" => SameJobs
      /\ op[c] = "cancel" /\ reply'.ok => jobs'[newID[c]].Status = "Cancelled"
  BY <1>1, ExecuteEffect
<1>4. SameJobs \/ (Adding(c) /\ OneMore(newID[c], Key(c)))
  BY <1>1, <1>3 DEF Adding
<1>5. nextJobID' \in Nat /\ nextJobID' >= nextJobID /\ newID[c] \in IDs
  BY SMT, <1>1, CounterInIDs, HeldID
<1>6. StoreInv' /\ SnapshotInv' /\ ClientsInv'
  BY <1>1, <1>2, <1>3, <1>4, <1>5, CallStep
<1>7. Distinct' /\ LogInv'
  BY <1>1, <1>2, CallsDistinct
<1>8. HistoryInv'
  <2>1. CASE reply'.ok
    <3>1. Acknowledge(c)
      BY <2>1 DEF Create
    <3>2. op[c] # "cancel" =>
             jobs'[newID[c]].Status # "None" /\ jobs'[newID[c]].IdempotencyKey = Key(c)
      BY <1>3 DEF OneMore
    <3>3. op[c] = "cancel" => jobs'[newID[c]].Status = "Cancelled"
      BY <1>3, <2>1
    <3>4. QED
      BY <1>1, <1>3, <1>5, <3>1, <3>2, <3>3, AcknowledgeEffect
  <2>2. CASE ~reply'.ok
    <3>1. UNCHANGED history
      BY <2>2 DEF Create
    <3>2. QED
      BY <1>1, <1>3, <3>1, NoAnswer
  <2>3. QED
    BY <2>1, <2>2
<1>9. QED
  BY <1>6, <1>7, <1>8 DEF StepInv

\* A proposal joins the log once, or is refused and releases the mutex.
LEMMA ProposeStep ==
    ASSUME SubmissionInv, NEW c \in Clients, Propose(c)
    PROVE  StepInv'
<1>1. /\ pc[c] = "create" /\ nextJobID' = nextJobID
      /\ UNCHANGED <<storeVars, jobs, diskVars, history>>
  BY DEF Propose, storeVars
<1>2. nextJobID' \in Nat /\ nextJobID' >= nextJobID
  BY SMT, <1>1, CounterInIDs
<1>3. CASE log' = Append(log, c) /\ Goto(c, "wait") /\ UNCHANGED <<submitMu, callVars>>
  <2>1. /\ log' = Append(log, c) /\ pc' = [pc EXCEPT ![c] = "wait"]
        /\ UNCHANGED <<submitMu, op, req, newID>>
    BY <1>3 DEF Propose, Goto, callVars
  <2>2. pc'[c] = "wait" /\ Key(c)' = Key(c) /\ \A d \in Clients \ {c} : Waits(d)
    BY <2>1 DEF SubmissionInv, SubmissionTypeOK, Waits, Key
  <2>3. ClientInv(c)' /\ (Adding(c)' => Adding(c))
    <3>1. ClientInv(c)
      BY DEF SubmissionInv, ClientsInv
    <3>2. QED
      BY <1>1, <2>1, <2>2, <3>1 DEF ClientInv, Adding, Locked, Unsaved, Stored
  <2>4. StoreInv' /\ SnapshotInv' /\ ClientsInv' /\ HistoryInv'
    BY <1>1, <1>2, <2>1, <2>2, <2>3, QuietStep
  <2>5. Distinct'
    BY <2>1, <2>2, <2>3, CallsDistinct
  <2>6. LogInv'
    <3>1. /\ log \in Seq(Clients) /\ Len(log') = Len(log) + 1
          /\ \A i \in 1 .. Len(log) : log'[i] = log[i]
          /\ log'[Len(log) + 1] = c
      BY SMT, <2>1 DEF SubmissionInv, SubmissionTypeOK
    <3>2. \A i \in 1 .. Len(log) : log[i] \in Clients /\ log[i] # c /\ pc[log[i]] = "wait"
      BY SMT, <1>1, <3>1 DEF SubmissionInv, LogInv
    <3>3. \A i \in 1 .. Len(log) : pc'[log[i]] = "wait"
      BY <2>2, <3>2 DEF Waits
    <3>4. \A i \in 1 .. Len(log) + 1 : pc'[log'[i]] = "wait"
      BY SMT, <2>2, <3>1, <3>3
    <3>5. \A i, k \in 1 .. Len(log) : log[i] = log[k] => i = k
      BY DEF SubmissionInv, LogInv
    <3>6. \A i, k \in 1 .. Len(log) + 1 : log'[i] = log'[k] => i = k
      BY SMT, <3>1, <3>2, <3>5
    <3>7. QED
      BY <3>1, <3>4, <3>6 DEF LogInv
  <2>7. QED
    BY <2>4, <2>5, <2>6 DEF StepInv
<1>4. CASE Return(c) /\ log' = log
  <2>1. Return(c) /\ log' = log
    BY <1>4
  <2>2. /\ ClientInv(c)' /\ ~Adding(c)' /\ \A d \in Clients \ {c} : Waits(d)
        /\ submitMu' = submitMu \/ submitMu \in {c, NoClient}
    BY <1>1, <2>1, ReturnEffect DEF Locked
  <2>3. StoreInv' /\ SnapshotInv' /\ ClientsInv' /\ HistoryInv'
    BY <1>1, <1>2, <2>2, QuietStep
  <2>4. Distinct' /\ LogInv'
    BY <1>1, <2>1, <2>2, CallsDistinct
  <2>5. QED
    BY <2>3, <2>4 DEF StepInv
<1>5. QED
  BY <1>3, <1>4 DEF Propose

\* The state machine executes the request of the first entry, which is not in the
\* log any more.
LEMMA ApplyStep ==
    ASSUME SubmissionInv, Apply
    PROVE  StepInv'
<1>0. log # <<>>
  BY DEF Apply
<1>1. PICK c \in Clients : c = Head(log) /\ pc[c] = "wait"
  BY <1>0, FirstEntry
<1>2. /\ log # <<>> /\ Execute(c) /\ log' = Tail(log) /\ nextJobID' = nextJobID
      /\ pc' = [pc EXCEPT ![c] = IF reply'.ok THEN "applied" ELSE "refused"]
      /\ UNCHANGED <<submitMu, op, req, newID, history, raft, restarts, snapshot>>
  BY <1>1 DEF Apply, Goto, callVars, diskVars
<1>3. /\ Grown /\ EndedKept
      /\ op[c] # "cancel" => OneMore(newID[c], Key(c))
      /\ op[c] = "cancel" => SameJobs
      /\ op[c] = "cancel" /\ reply'.ok => jobs'[newID[c]].Status = "Cancelled"
  BY <1>1, <1>2, ExecuteEffect
<1>4. SameJobs \/ (Adding(c) /\ OneMore(newID[c], Key(c)))
  BY <1>1, <1>3 DEF Adding
<1>5. nextJobID' \in Nat /\ nextJobID' >= nextJobID
  BY SMT, <1>2, CounterInIDs
<1>6. /\ Key(c)' = Key(c) /\ \A d \in Clients \ {c} : Waits(d)
      /\ pc'[c] \in {"applied", "refused"} /\ (pc'[c] = "applied" => reply'.ok)
  BY <1>1, <1>2 DEF SubmissionInv, SubmissionTypeOK, Waits, Key
<1>7. ClientInv(c)' /\ ~Adding(c)'
  <2>1. ClientInv(c)
    BY <1>1 DEF SubmissionInv, ClientsInv
  <2>2. op[c] # "cancel" =>
           jobs'[newID[c]].Status # "None" /\ jobs'[newID[c]].IdempotencyKey = Key(c)
    BY <1>3 DEF OneMore
  <2>3. pc'[c] = "applied" /\ op[c] = "cancel" => jobs'[newID[c]].Status = "Cancelled"
    BY <1>3, <1>6
  <2>4. QED
    BY <1>1, <1>2, <1>6, <2>1, <2>2, <2>3 DEF ClientInv, Adding, Locked, Unsaved, Stored
<1>8. StoreInv' /\ SnapshotInv' /\ ClientsInv'
  BY <1>1, <1>2, <1>3, <1>4, <1>5, <1>6, <1>7, CallStep
<1>9. HistoryInv'
  BY <1>2, <1>3, NoAnswer
<1>10. Distinct'
  BY <1>1, <1>6, <1>7, CallsDistinct
<1>11. LogInv'
  <2>1. /\ log \in Seq(Clients) /\ Len(log) \in Nat /\ Len(log') = Len(log) - 1 /\ c = log[1]
        /\ 1 \in 1 .. Len(log) /\ \A i \in 1 .. Len(log) - 1 : log'[i] = log[i + 1]
    BY SMT, <1>1, <1>2, FirstEntry DEF SubmissionInv, SubmissionTypeOK
  <2>2. \A i, k \in 1 .. Len(log) : log[i] = log[k] => i = k
    BY DEF SubmissionInv, LogInv
  <2>3. ASSUME NEW i \in 1 .. Len(log) - 1 PROVE pc'[log'[i]] = "wait"
    <3>1. i + 1 \in 1 .. Len(log) /\ log'[i] = log[i + 1]
      BY SMT, <2>1
    <3>2. log[i + 1] # c
      BY SMT, <2>1, <2>2, <3>1
    <3>3. log[i + 1] \in Clients /\ pc[log[i + 1]] = "wait"
      BY SMT, <2>1, <3>1 DEF SubmissionInv, LogInv
    <3>4. QED
      BY <1>6, <3>1, <3>2, <3>3 DEF Waits
  <2>4. \A i, k \in 1 .. Len(log) - 1 : log'[i] = log'[k] => i = k
    BY SMT, <2>1, <2>2
  <2>5. QED
    BY <2>1, <2>3, <2>4 DEF LogInv
<1>12. QED
  BY <1>8, <1>9, <1>10, <1>11 DEF StepInv

\* The answer to a proposal is about a request that has been executed.
LEMMA AppliedStep ==
    ASSUME SubmissionInv, NEW c \in Clients, Applied(c)
    PROVE  StepInv'
<1>1. /\ pc[c] \in {"applied", "refused"} /\ Return(c)
      /\ nextJobID' = nextJobID /\ log' = log
      /\ UNCHANGED <<jobs, idempotencyIndex, snapshot, raft, restarts>>
  BY DEF Applied, diskVars, storeVars
<1>2. /\ ClientInv(c)' /\ ~Adding(c)' /\ \A d \in Clients \ {c} : Waits(d)
      /\ submitMu' = submitMu \/ submitMu \in {c, NoClient}
  BY <1>1, ReturnEffect DEF Locked
<1>3. SameJobs /\ EndedKept /\ Grown
  BY <1>1, SameStore
<1>4. nextJobID' \in Nat /\ nextJobID' >= nextJobID /\ ClientInv(c) /\ newID[c] \in IDs
  <2>1. nextJobID' \in Nat /\ nextJobID' >= nextJobID
    BY SMT, <1>1, CounterInIDs
  <2>2. newID[c] \in IDs
    BY <1>1, HeldID
  <2>3. QED
    BY <2>1, <2>2 DEF SubmissionInv, ClientsInv
<1>5. StoreInv' /\ SnapshotInv' /\ ClientsInv'
  BY <1>1, <1>2, <1>3, <1>4, CallStep
<1>6. Distinct' /\ LogInv'
  BY <1>1, <1>2, CallsDistinct
<1>7. HistoryInv'
  <2>1. CASE pc[c] = "applied"
    <3>1. Acknowledge(c)
      BY <2>1 DEF Applied
    <3>2. /\ op[c] # "cancel" =>
               jobs'[newID[c]].Status # "None" /\ jobs'[newID[c]].IdempotencyKey = Key(c)
          /\ op[c] = "cancel" => jobs'[newID[c]].Status = "Cancelled"
      BY <1>1, <1>4, <2>1 DEF ClientInv, Stored
    <3>3. QED
      BY <1>1, <1>3, <1>4, <3>1, <3>2, AcknowledgeEffect
  <2>2. CASE pc[c] # "applied"
    <3>1. UNCHANGED history
      BY <2>2 DEF Applied
    <3>2. QED
      BY <1>1, <1>3, <3>1, NoAnswer
  <2>3. QED
    BY <2>1, <2>2
<1>8. QED
  BY <1>5, <1>6, <1>7 DEF StepInv

\* Where no client moves, the store may change as long as it loses nothing.
LEMMA StoreStep ==
    ASSUME SubmissionInv, SameJobs, EndedKept,
           UNCHANGED <<nextJobID, submitMu, pc, callVars, log, history, raft, restarts>>
    PROVE  /\ StoreInv' /\ ClientsInv' /\ Distinct' /\ LogInv' /\ HistoryInv'
           /\ snapshot' = snapshot => SnapshotInv'
<1>1. UNCHANGED <<nextJobID, submitMu, pc, op, req, newID, log, history>>
  BY DEF callVars
<1>2. Grown /\ nextJobID' \in Nat /\ nextJobID' >= nextJobID
  BY SMT, <1>1, CounterInIDs DEF Grown
<1>3. StoreInv' /\ (snapshot' = snapshot => SnapshotInv') /\ HistoryInv'
  BY <1>1, <1>2, StoreGrows, HistoryStays, NoAnswer
<1>4. ClientsInv'
  <2>1. ASSUME NEW d \in Clients PROVE ClientInv(d)'
    BY <1>1, <1>2, WaitingClient DEF Waits, Key
  <2>2. QED
    BY <2>1 DEF ClientsInv
<1>5. Distinct' /\ LogInv'
  BY <1>1 DEF SubmissionInv, Distinct, Adding, LogInv
<1>6. QED
  BY <1>3, <1>4, <1>5

\* The election changes nothing that a client relies on.
LEMMA ElectStep ==
    ASSUME SubmissionInv, Elect
    PROVE  StepInv'
<1>1. /\ UNCHANGED <<nextJobID, submitMu, pc, callVars, log, history, raft, restarts>>
      /\ snapshot' = snapshot /\ UNCHANGED <<jobs, idempotencyIndex>>
  BY DEF Elect, diskVars, storeVars
<1>2. SameJobs /\ EndedKept
  BY <1>1, SameStore
<1>3. QED
  BY <1>1, <1>2, StoreStep DEF StepInv

\* A new snapshot holds the jobs of the store.
LEMMA SnapshotStep ==
    ASSUME SubmissionInv, Snapshot
    PROVE  StepInv'
<1>1. /\ snapshot' = jobs
      /\ UNCHANGED <<jobs, idempotencyIndex>>
      /\ UNCHANGED <<nextJobID, submitMu, pc, callVars, log, history, raft, restarts>>
  BY DEF Snapshot, storeVars, engineVars
<1>2. StoreInv' /\ ClientsInv' /\ Distinct' /\ LogInv' /\ HistoryInv'
  <2>1. SameJobs /\ EndedKept
    BY <1>1, SameStore
  <2>2. QED
    BY <1>1, <2>1, StoreStep
<1>3. ASSUME NEW id \in IDs, jobs[id] # Abs!NotStored PROVE Stored(id)
  <2>1. jobs[id] \in Abs!StoredJob /\ (~Stored(id) => jobs[id].IdempotencyKey = NoKey)
    BY DEF SubmissionInv, SubmissionTypeOK, TypeOK, StoreInv
  <2>2. QED
    BY <1>3, <2>1 DEF Abs!StoredJob, Abs!NotStored, Stored
<1>4. SnapshotInv'
  BY <1>1, <1>3 DEF SnapshotInv, Stored
<1>5. QED
  BY <1>2, <1>4 DEF StepInv

\* After a restart no request is under way, the counter is the greatest stored ID,
\* and the store holds the jobs it held, under the same keys.
LEMMA RestartStep ==
    ASSUME SubmissionInv, Restart
    PROVE  StepInv'
<1>1. /\ log' = <<>> /\ pc' = [c \in Clients |-> "idle"] /\ op' = [c \in Clients |-> "submit"]
      /\ req' = [c \in Clients |-> NoKey] /\ raft' = raft /\ restarts' = restarts + 1
      /\ snapshot' = snapshot /\ answers' = answers /\ cancelled' = cancelled
      /\ nextJobID' = Max({0} \cup {id \in IDs : jobs'[id].Status # "None"})
  BY DEF Restart, history
<1>2. SameJobs /\ (~raft => EndedKept)
  <2>1. CASE raft
    BY <2>1, RestoreEffect DEF Restart
  <2>2. CASE ~raft
    BY <2>2, SameStore DEF Restart, storeVars
  <2>3. QED
    BY <2>1, <2>2
<1>3. Grown
  BY <1>2 DEF Grown
<1>4. SnapshotInv' /\ AnsweredStored'
  BY <1>1, <1>3, HistoryStays
<1>5. CancelIsFinal'
  <2>1. ASSUME NEW id \in cancelled, ~(raft /\ restarts + 1 > 0)
        PROVE  jobs'[id].Status = "Cancelled"
    <3>1. restarts \in Nat /\ id \in IDs
      BY DEF SubmissionInv, CountersType, SubmissionTypeOK
    <3>2. ~raft
      BY SMT, <2>1, <3>1
    <3>3. jobs[id].Status = "Cancelled"
      BY <3>2 DEF SubmissionInv, CancelIsFinal
    <3>4. QED
      BY <1>2, <3>1, <3>2, <3>3 DEF EndedKept, Terminal
  <2>2. QED
    BY <1>1, <2>1 DEF CancelIsFinal
<1>6. HistoryInv'
  BY <1>1, <1>4, <1>5 DEF HistoryInv, HistoryType, SubmissionInv, SubmissionTypeOK
<1>7. StoreInv'
  <2> DEFINE S == {0} \cup {id \in IDs : jobs'[id].Status # "None"}
  <2>1. S \subseteq 0 .. Cardinality(IDs) /\ S # {}
    BY SMT, IDNumbers
  <2>2. \A id \in S : id <= Max(S)
    <3> HIDE DEF S
    <3> QED BY <2>1, IDNumbers, MaxOfBounded
  <2>3. \A id \in IDs : jobs'[id].Status # "None" => id <= nextJobID'
    BY <1>1, <2>2
  <2>4. QED
    BY <1>2, <2>3 DEF SameJobs, SubmissionInv, StoreInv, Stored
<1>8. ClientsInv' /\ Distinct' /\ LogInv'
  <2>1. \A c \in Clients : pc'[c] = "idle" /\ req'[c] = NoKey
    BY <1>1
  <2>2. ClientsInv' /\ Distinct'
    BY <2>1 DEF ClientsInv, ClientInv, Distinct, Adding, Locked, Unsaved, Key
  <2>3. LogInv'
    BY SMT, <1>1 DEF LogInv
  <2>4. QED
    BY <2>2, <2>3
<1>9. QED
  BY <1>4, <1>6, <1>7, <1>8 DEF StepInv

\* Every step keeps the invariant.
LEMMA SubmissionInvStep ==
    ASSUME SubmissionInv, [SubmissionNext]_vars
    PROVE  SubmissionInv'
<1>1. ASSUME NEW c \in Clients, NEW k \in Keys \cup {NoKey}, Submit(c, k) PROVE StepInv'
  BY <1>1, RequestStep DEF Submit
<1>2. ASSUME NEW c \in Clients, NEW k \in Keys \cup {NoKey}, SubmitAt(c, k) PROVE StepInv'
  BY <1>2, RequestStep DEF SubmitAt
<1>3. ASSUME NEW c \in Clients, NEW id \in 1 .. nextJobID, Cancel(c, id) PROVE StepInv'
  <2>1. Request(c, "cancel", NoKey, "create") /\ newID' = [newID EXCEPT ![c] = id]
    BY <1>3 DEF Cancel
  <2>2. newID'[c] \in 1 .. nextJobID /\ \A d \in Clients \ {c} : newID'[d] = newID[d]
    BY <2>1 DEF SubmissionInv, SubmissionTypeOK
  <2>3. QED
    BY <2>1, <2>2, RequestStep
<1>4. ASSUME NEW c \in Clients, Lock(c) \/ ClientStep(c) PROVE StepInv'
  BY <1>4, LockStep, FindStep, AllocStep, CreateStep, ProposeStep, AppliedStep
  DEF ClientStep
<1>5. ASSUME NEW id \in IDs, NEW s \in ProgressTo, Progress(id, s) PROVE StepInv'
  <2>1. /\ UpdateJob(id, s) /\ s \in Status /\ TypeOK /\ snapshot' = snapshot
        /\ UNCHANGED <<nextJobID, submitMu, pc, callVars, log, history, raft, restarts>>
    BY <1>5, ProgressToStatuses
    DEF Progress, engineVars, diskVars, SubmissionInv, SubmissionTypeOK
  <2>2. QED
    BY <2>1, UpdateEffect, StoreStep DEF StepInv
<1>6. CASE UNCHANGED vars
  <2>1. /\ UNCHANGED <<nextJobID, submitMu, pc, callVars, log, history, raft, restarts>>
        /\ snapshot' = snapshot /\ UNCHANGED <<jobs, idempotencyIndex>>
    BY <1>6 DEF vars, storeVars, engineVars, diskVars
  <2>2. SameJobs /\ EndedKept
    BY <2>1, SameStore
  <2>3. QED
    BY <2>1, <2>2, StoreStep, StepSuffices DEF StepInv
<1>7. QED
  BY <1>1, <1>2, <1>3, <1>4, <1>5, <1>6, ApplyStep, ElectStep, SnapshotStep, RestartStep,
     StepSuffices
  DEF SubmissionNext

\* The invariant holds in an empty system.
LEMMA SubmissionInvInit == SubmissionInit => SubmissionInv
<1> SUFFICES ASSUME SubmissionInit PROVE SubmissionInv
  OBVIOUS
<1> USE NoKeyFresh, NoIDFresh
<1>1. /\ Init /\ raft \in BOOLEAN /\ nextJobID = 0 /\ submitMu = NoClient
      /\ pc = [c \in Clients |-> "idle"] /\ op = [c \in Clients |-> "submit"]
      /\ req = [c \in Clients |-> NoKey] /\ newID = [c \in Clients |-> 0]
      /\ log = <<>> /\ leader = FALSE /\ snapshot = [id \in IDs |-> Abs!NotStored]
      /\ answers = {} /\ cancelled = {} /\ restarts = 0
  BY ModesBoolean DEF SubmissionInit
<1>2. Abs!NotStored \in Abs!StoredJob
  BY DEF Abs!NotStored, Abs!StoredJob
<1>3. TypeOK
  BY <1>1, <1>2 DEF Init, TypeOK, Abs!Reply
<1>4. \A id \in IDs : /\ jobs[id] = Abs!NotStored /\ ~Stored(id)
                      /\ jobs[id].IdempotencyKey = NoKey
  BY <1>1 DEF Init, Stored, Abs!NotStored
<1>5. StoreInv
  BY <1>1, <1>4 DEF StoreInv, Init
<1>6. SnapshotInv /\ AnsweredStored /\ CancelIsFinal
  BY <1>1 DEF SnapshotInv, AnsweredStored, CancelIsFinal
<1>7. \A c \in Clients : pc[c] = "idle" /\ Key(c) = NoKey
  BY <1>1 DEF Key
<1>8. ClientsInv /\ Distinct
  BY <1>7 DEF ClientsInv, ClientInv, Distinct, Adding, Locked, Unsaved, Key
<1>9. log \in Seq(Clients) /\ LogInv
  BY SMT, <1>1 DEF LogInv
<1>10. RoomInv
  <2>1. Allocating = {}
    BY <1>7 DEF Allocating
  <2>2. QED
    BY SMT, <1>1, <2>1, FS_EmptySet, IDNumbers DEF RoomInv
<1>11. SubmissionTypeOK /\ CountersType
  <2>1. leader \in BOOLEAN
    BY <1>1
  <2>2. /\ pc \in [Clients -> {"idle", "lock", "find", "alloc", "create", "wait", "applied",
                               "refused"}]
        /\ op \in [Clients -> {"submit", "submitAt", "cancel"}]
        /\ req \in [Clients -> Keys \cup {NoKey}] /\ newID \in [Clients -> IDs \cup {0}]
        /\ snapshot \in [IDs -> Abs!StoredJob]
    BY <1>1, <1>2
  <2>3. /\ nextJobID \in IDs \cup {0} /\ submitMu \in Clients \cup {NoClient}
        /\ answers \subseteq Answers /\ cancelled \subseteq IDs
        /\ restarts \in Nat
    BY <1>1
  <2>4. QED
    BY <1>1, <1>3, <1>9, <2>1, <2>2, <2>3 DEF SubmissionTypeOK, CountersType
<1>12. QED
  BY <1>5, <1>6, <1>8, <1>9, <1>10, <1>11 DEF SubmissionInv
---------------------------------------------------------------------------
\* The invariant holds in every state that requests, Raft, the scheduler, crashes
\* and restarts lead to.
THEOREM SubmissionSafe == SubmissionSpec => []SubmissionInv
BY SubmissionInvInit, SubmissionInvStep, PTL DEF SubmissionSpec

\* The engine, the store and the requests keep their shape.
THEOREM SubmissionTypes == SubmissionSpec => []SubmissionTypeOK
<1>1. SubmissionInv => SubmissionTypeOK
  BY DEF SubmissionInv
<1>2. QED
  BY <1>1, SubmissionSafe, PTL

\* A job that a client was told of is stored from then on: under the key of the
\* request, and under none if the request had a run_at.
THEOREM AnswersKept == SubmissionSpec => []AnsweredStored
<1>1. SubmissionInv => AnsweredStored
  BY DEF SubmissionInv
<1>2. QED
  BY <1>1, SubmissionSafe, PTL

\* Requests without a run_at that carry one key get one job, however many clients
\* send them, and when.
THEOREM Idempotent == SubmissionSpec => []SameJobForKey
<1>1. SubmissionInv => SameJobForKey
  <2> SUFFICES ASSUME SubmissionInv, NEW a \in answers, NEW b \in answers,
                      a.key = b.key, a.key # NoKey, ~a.runAt, ~b.runAt
               PROVE  a.id = b.id
    BY DEF SameJobForKey
  <2>1. a.key \in Keys /\ a.id \in IDs /\ b.id \in IDs
    BY DEF SubmissionInv, SubmissionTypeOK, Answers
  <2>2. jobs[a.id].IdempotencyKey = a.key /\ jobs[b.id].IdempotencyKey = a.key
    BY DEF SubmissionInv, AnsweredStored
  <2>3. QED
    BY SMT, <2>1, <2>2 DEF SubmissionInv, StoreInv
<1>2. QED
  BY <1>1, SubmissionSafe, PTL

\* No client's request calls Add, which overwrites, with the ID of another job.
THEOREM AddsUnderFreshID == SubmissionSpec => []FreshIDs
<1>1. SubmissionInv => FreshIDs
  <2> SUFFICES ASSUME SubmissionInv, NEW c \in Clients, NEW d \in Clients, Adding(c)
               PROVE  /\ ~Stored(newID[c])
                      /\ Adding(d) /\ newID[c] = newID[d] => c = d
    BY DEF FreshIDs, Adding
  <2>1. ClientInv(c)
    BY DEF SubmissionInv, ClientsInv
  <2>2. QED
    BY <2>1 DEF SubmissionInv, ClientInv, Distinct
<1>2. QED
  BY <1>1, SubmissionSafe, PTL

\* A cancellation that was acknowledged stands, on a Raft node until it restarts.
THEOREM CancelStands == SubmissionSpec => []CancelIsFinal
<1>1. SubmissionInv => CancelIsFinal
  BY DEF SubmissionInv
<1>2. QED
  BY <1>1, SubmissionSafe, PTL

\* No step but the restart of a Raft node changes a job that has ended.
LEMMA EndedStep ==
    ASSUME SubmissionInv, [SubmissionNext]_vars, ~(raft /\ restarts' # restarts)
    PROVE  EndedKept
<1>1. ASSUME jobs' = jobs PROVE EndedKept
  BY <1>1 DEF EndedKept
<1>2. ASSUME NEW c \in Clients, NEW k, Submit(c, k) \/ SubmitAt(c, k) \/ Cancel(c, k)
      PROVE  EndedKept
  BY <1>1, <1>2 DEF Submit, SubmitAt, Cancel, Request, storeVars
<1>3. ASSUME NEW c \in Clients,
             Lock(c) \/ Find(c) \/ Alloc(c) \/ Propose(c) \/ Applied(c)
      PROVE  EndedKept
  BY <1>1, <1>3
  DEF Lock, Find, FindByIdempotencyKey, indexVars, Alloc, Propose, Applied, storeVars
<1>4. ASSUME NEW c \in Clients, Create(c) PROVE EndedKept
  BY <1>4, ExecuteEffect DEF Create
<1>5. CASE Apply
  <2>1. log # <<>> /\ Execute(Head(log))
    BY <1>5 DEF Apply
  <2>2. QED
    BY <2>1, FirstEntry, ExecuteEffect
<1>6. ASSUME NEW id \in IDs, NEW s \in ProgressTo, Progress(id, s) PROVE EndedKept
  BY <1>6, UpdateEffect, ProgressToStatuses DEF Progress, SubmissionInv, SubmissionTypeOK
<1>7. CASE Restart
  <2>1. restarts' # restarts
    BY SMT, <1>7 DEF Restart, SubmissionInv, CountersType
  <2>2. ~raft
    BY <2>1
  <2>3. QED
    BY <1>1, <1>7, <2>2 DEF Restart, storeVars
<1>8. CASE Elect \/ Snapshot \/ UNCHANGED vars
  BY <1>1, <1>8 DEF Elect, Snapshot, vars, storeVars
<1>9. QED
  BY <1>2, <1>3, <1>4, <1>5, <1>6, <1>7, <1>8 DEF SubmissionNext, ClientStep

\* While a node is up a job that has ended keeps its status and its key, whatever
\* Add, Update and Cancel of any client or of the scheduler race with it.
THEOREM EndedIsFinal == SubmissionSpec => EndedStaysWhileUp
<1>1. SubmissionInv /\ [SubmissionNext]_vars =>
        [\A id \in IDs : jobs[id].Status \in Terminal =>
            jobs'[id] = jobs[id] \/ (raft /\ restarts' # restarts)]_vars
  BY EndedStep DEF EndedKept
<1>2. QED
  BY <1>1, SubmissionSafe, PTL DEF SubmissionSpec, EndedStaysWhileUp
---------------------------------------------------------------------------
(***************************************************************************)
(* The store under the requests.  IndexedStore is proved for callers that  *)
(* add a job under a key that leads to no other job: these are such        *)
(* callers, so what is proved of the stores holds of the running system.   *)
(* The restore of a snapshot is many Adds in one step of Submission, and   *)
(* is shown to keep the indexes by itself.                                 *)
(***************************************************************************)
\* A key that no job carries is one the store does not find.
LEMMA NoJobNotFound ==
    ASSUME SubmissionInv, NEW k \in Keys \cup {NoKey}, NEW new \in IDs,
           k # NoKey => \A id \in IDs : jobs[id].IdempotencyKey # k
    PROVE  FreeFor(k, new)
<1> SUFFICES ASSUME k \in Keys PROVE Found(k) = {}
  BY DEF FreeFor
<1>1. k # NoKey
  BY NoKeyFresh
<1>2. idempotencyIndex[k] \in IDs \cup {NoID}
  BY DEF SubmissionInv, SubmissionTypeOK, TypeOK
<1>3. \A id \in IDs : idempotencyIndex[k] # id
  BY <1>1 DEF SubmissionInv, StoreInv
<1>4. QED
  BY <1>2, <1>3 DEF Found

\* What a request does to the store is a call that the store allows.
LEMMA ExecuteIsCall ==
    ASSUME SubmissionInv, NEW c \in Clients, pc[c] \in {"create", "wait"}, Execute(c)
    PROVE  Next
<1>1. newID[c] \in IDs
  BY HeldID
<1>2. CASE op[c] = "cancel"
  BY <1>1, <1>2 DEF Execute, Next
<1>3. CASE op[c] # "cancel"
  <2> DEFINE s == IF op[c] = "submitAt" THEN "Scheduled" ELSE "Pending"
  <2>1. Adding(c)
    BY <1>3 DEF Adding
  <2>2. Key(c) \in Keys \cup {NoKey} /\ FreeFor(Key(c), newID[c])
    BY <1>1, <2>1, NewKeyUnused, NoJobNotFound
  <2>3. BoltAdd(newID[c], s, Key(c)) /\ s \in Status
    BY <1>3 DEF Execute, Status
  <2> HIDE DEF s
  <2>4. QED
    BY <1>1, <2>2, <2>3 DEF Next
<1>4. QED
  BY <1>2, <1>3

\* Every step but a restart makes one call of the store, or none.
LEMMA StepIsCallOrRestart ==
    ASSUME SubmissionInv, [SubmissionNext]_vars, ~Restart
    PROVE  [Next]_storeVars
<1>1. ASSUME NEW c \in Clients, NEW k, Submit(c, k) \/ SubmitAt(c, k) \/ Cancel(c, k)
      PROVE  UNCHANGED storeVars
  BY <1>1 DEF Submit, SubmitAt, Cancel, Request
<1>2. ASSUME NEW c \in Clients, Lock(c) \/ Alloc(c) \/ Propose(c) \/ Applied(c)
      PROVE  UNCHANGED storeVars
  BY <1>2 DEF Lock, Alloc, Propose, Applied
<1>3. ASSUME NEW c \in Clients, Find(c) PROVE Next
  <2>1. req[c] \in Keys
    BY <1>3 DEF Find, SubmissionInv, SubmissionTypeOK, ClientsInv, ClientInv
  <2>2. QED
    BY <1>3, <2>1 DEF Find, Next
<1>4. ASSUME NEW c \in Clients, Create(c) PROVE Next
  BY <1>4, ExecuteIsCall DEF Create
<1>5. CASE Apply
  <2>1. log # <<>> /\ Execute(Head(log))
    BY <1>5 DEF Apply
  <2>2. QED
    BY <2>1, FirstEntry, ExecuteIsCall
<1>6. ASSUME NEW id \in IDs, NEW s \in ProgressTo, Progress(id, s) PROVE Next
  BY <1>6, ProgressToStatuses DEF Progress, Next
<1>7. CASE Elect \/ Snapshot \/ UNCHANGED vars
  BY <1>7 DEF Elect, Snapshot, vars
<1>8. QED
  BY <1>1, <1>2, <1>3, <1>4, <1>5, <1>6, <1>7 DEF SubmissionNext, ClientStep

\* So does a restart without Raft.
LEMMA StepIsCall ==
    ASSUME SubmissionInv, [SubmissionNext]_vars, ~(raft /\ restarts' # restarts)
    PROVE  [Next]_storeVars
<1>1. CASE Restart
  <2>1. restarts' # restarts
    BY SMT, <1>1 DEF Restart, SubmissionInv, CountersType
  <2>2. QED
    BY <1>1, <2>1 DEF Restart
<1>2. QED
  BY <1>1, StepIsCallOrRestart

\* The engine keeps the contract of Add, with any number of clients and with or
\* without Raft: between the restarts of a Raft node, whatever happens to the store
\* is a call that IndexedStore allows.
THEOREM StoreContractKept ==
    SubmissionSpec => [][Next \/ (raft /\ restarts' # restarts)]_storeVars
<1>1. SubmissionInv /\ [SubmissionNext]_vars =>
        [Next \/ (raft /\ restarts' # restarts)]_storeVars
  BY StepIsCall
<1>2. QED
  BY <1>1, SubmissionSafe, PTL DEF SubmissionSpec

\* A search by key finds the job that carries the key and nothing else, in every
\* state of the system and through restarts and restored snapshots.
THEOREM KeySearchExact == SubmissionSpec => [](\A k \in Keys : Found(k) = Abs!WithKey(k))
<1>1. ASSUME SubmissionInv, NEW k \in Keys PROVE Found(k) = Abs!WithKey(k)
  <2> USE NoKeyFresh, NoIDFresh
  <2>1. idempotencyIndex[k] \in IDs \cup {NoID}
    BY <1>1 DEF SubmissionInv, SubmissionTypeOK, TypeOK
  <2>2. \A id \in IDs : idempotencyIndex[k] = id <=> jobs[id].IdempotencyKey = k
    BY <1>1 DEF SubmissionInv, StoreInv
  <2>3. \A id \in IDs : jobs[id].IdempotencyKey = k => Stored(id)
    BY <1>1 DEF SubmissionInv, StoreInv
  <2>4. QED
    BY SMT, <2>1, <2>2, <2>3 DEF Found, Abs!WithKey
<1>2. SubmissionInv => \A k \in Keys : Found(k) = Abs!WithKey(k)
  BY <1>1
<1>3. QED
  BY <1>2, SubmissionSafe, PTL

\* Restoring a snapshot adds status entries and removes none, and leaves the keys
\* as they are.  The entries too many are of jobs that it writes over.
LEMMA RestoreExact ==
    ASSUME SubmissionInv, IInv, Restore
    PROVE  IInv'
<1>1. TypeOK' /\ SameJobs
  BY RestoreEffect
<1>2. replaced' = replaced \cup {id \in IDs : Stored(id) /\ snapshot[id] # Abs!NotStored}
  BY DEF Restore
<1>3. StatusExact'
  <2> SUFFICES ASSUME NEW s \in Status, NEW id \in IDs
               PROVE  /\ jobs'[id].Status = s => id \in statusIndex'[s]
                      /\ id \in statusIndex'[s] /\ id \notin replaced' => jobs'[id].Status = s
    BY DEF StatusExact
  <2>1. /\ jobs'[id] = IF snapshot[id] = Abs!NotStored THEN jobs[id] ELSE snapshot[id]
        /\ statusIndex'[s] = statusIndex[s] \cup {i \in IDs : snapshot[i].Status = s}
    BY DEF Restore
  <2>2. /\ jobs[id].Status = s => id \in statusIndex[s]
        /\ id \in statusIndex[s] /\ id \notin replaced => jobs[id].Status = s
    BY DEF IInv, StatusExact
  <2>3. CASE snapshot[id] = Abs!NotStored
    <3>1. snapshot[id].Status # s
      BY SMT, <2>3 DEF Abs!NotStored, Status
    <3>2. QED
      BY <1>2, <2>1, <2>2, <2>3, <3>1
  <2>4. CASE snapshot[id] # Abs!NotStored
    <3>1. id \in replaced'
      BY <1>2, <2>4 DEF SubmissionInv, SnapshotInv
    <3>2. QED
      BY <2>1, <2>4, <3>1
  <2>5. QED
    BY <2>3, <2>4
<1>4. AbsentKeyless'
  BY <1>1 DEF SameJobs, IInv, AbsentKeyless
<1>5. KeyExact'
  <2> SUFFICES ASSUME NEW k \in Keys, NEW id \in IDs
               PROVE  /\ jobs'[id].IdempotencyKey = k => idempotencyIndex'[k] = id
                      /\ idempotencyIndex'[k] = id /\ id \notin replaced'
                            => jobs'[id].IdempotencyKey = k
    BY DEF KeyExact
  <2>1. /\ jobs'[id].IdempotencyKey = jobs[id].IdempotencyKey
        /\ idempotencyIndex' = idempotencyIndex
    BY <1>1 DEF SameJobs
  <2>2. idempotencyIndex[k] = id <=> jobs[id].IdempotencyKey = k
    BY DEF SubmissionInv, StoreInv
  <2>3. QED
    BY <2>1, <2>2
<1>6. QED
  BY <1>1, <1>3, <1>4, <1>5 DEF IInv

\* IndexExact holds in every state of the running system, with and without Raft: a
\* search by status misses no job, so that what Engine.Restore puts back on the
\* queues includes every pending and every scheduled job.  A snapshot restored over
\* newer records leaves entries too many, but only of the jobs it has written over.
THEOREM IndexExactWhenRunning == SubmissionSpec => []IndexExact
<1>1. SubmissionInit => IInv
  BY InitExact DEF SubmissionInit
<1>2. SubmissionInv /\ IInv /\ [SubmissionNext]_vars => IInv'
  <2> SUFFICES ASSUME SubmissionInv, IInv, [SubmissionNext]_vars
               PROVE  IInv'
    OBVIOUS
  <2>1. CASE Restart
    <3>1. Restore \/ UNCHANGED storeVars
      BY <2>1 DEF Restart
    <3>2. QED
      BY <3>1, RestoreExact, NextExact
  <2>2. CASE ~Restart
    BY <2>2, StepIsCallOrRestart, NextExact
  <2>3. QED
    BY <2>1, <2>2
<1>3. IInv => IndexExact
  BY ExactFromIInv
<1>4. QED
  BY <1>1, <1>2, <1>3, SubmissionSafe, PTL DEF SubmissionSpec

\* A node that is configured without Raft never has a Raft node.
LEMMA StaysWithoutRaft ==
    ASSUME RaftModes \subseteq {FALSE}
    PROVE  SubmissionSpec => []~raft
<1>1. SubmissionInit => ~raft
  BY DEF SubmissionInit
<1>2. ASSUME ~raft, [SubmissionNext]_vars PROVE ~raft'
  <2>1. raft' = raft
    BY <1>2
    DEF SubmissionNext, Submit, SubmitAt, Cancel, Request, Lock, ClientStep, Find, Alloc,
        Create, Propose, Applied, Apply, Elect, Snapshot, Restart, Progress, diskVars, vars
  <2>2. QED
    BY <1>2, <2>1
<1>3. QED
  BY <1>1, <1>2, PTL DEF SubmissionSpec

\* Without Raft the requests, the scheduler, the crashes and the restarts together
\* are a client of IndexedStore.
THEOREM RunsOnIndexedStore ==
    ASSUME RaftModes \subseteq {FALSE}
    PROVE  SubmissionSpec => Spec
<1>1. SubmissionInit => Init
  BY DEF SubmissionInit
<1>2. SubmissionInv /\ ~raft /\ [SubmissionNext]_vars => [Next]_storeVars
  BY StepIsCall
<1>3. QED
  BY <1>1, <1>2, SubmissionSafe, StaysWithoutRaft, PTL DEF SubmissionSpec, Spec

\* So without Raft every answer the handlers and the engine get from the store is
\* one that JobStore allows,
THEOREM InterfaceWhenRunning ==
    ASSUME RaftModes \subseteq {FALSE}
    PROVE  SubmissionSpec => ImplementsStore
BY RunsOnIndexedStore, StoresImplementInterface, PTL

\* and a job that has ended keeps its status and key through every crash and
\* restart.  With Raft a restored snapshot may undo it.
THEOREM EndedForeverWithoutRaft ==
    ASSUME RaftModes \subseteq {FALSE}
    PROVE  SubmissionSpec => EndedStaysEnded
<1>1. SubmissionInv /\ ~raft /\ [SubmissionNext]_vars =>
        [\A id \in IDs : jobs[id].Status \in Terminal => jobs'[id] = jobs[id]]_vars
  BY EndedStep DEF EndedKept
<1>2. QED
  BY <1>1, SubmissionSafe, StaysWithoutRaft, PTL DEF SubmissionSpec, EndedStaysEnded
===========================================================================
