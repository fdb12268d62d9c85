---------------------------- MODULE Submission ----------------------------
(***************************************************************************)
(* The requests that create and cancel jobs, over BoltStore: the handlers  *)
(* of internal/handlers, the engine's Submit calls, its ID counter and     *)
(* CancelJob (internal/engine/engine.go), the Raft node of a one-node      *)
(* cluster (internal/consensus/raft.go, whose log is in memory) and its    *)
(* state machine (internal/consensus/fsm.go), through crashes, restarts    *)
(* and Raft snapshots.  Meanwhile the scheduler moves the stored jobs on.  *)
(* A request that does not pass a handler's validation changes nothing.    *)
(***************************************************************************)
EXTENDS IndexedStore, Sequences, FiniteSetsExt

CONSTANTS
    Clients, NoClient,
    RaftModes,              \* whether a node may run with Raft, without, or either
    ProgressTo,             \* bounds: the statuses that stored jobs are moved to,
    MaxRestarts,            \* the restarts and the snapshots explored
    MaxSnapshots,
    MaxCancels              \* and the cancelled jobs

ASSUME ModesBoolean == RaftModes \subseteq BOOLEAN
ASSUME IDsAreNumbers == IsFiniteSet(IDs) /\ IDs = 1 .. Cardinality(IDs)
ASSUME ClientsFinite == IsFiniteSet(Clients) /\ NoClient \notin Clients
ASSUME ProgressToStatuses == ProgressTo \subseteq Status

VARIABLES
    raft,                   \* Engine.RaftNode # nil
    nextJobID, submitMu,    \* the engine's counter, and the holder of its mutex
    pc, op,                 \* per client: the step it is at, the request,
    req, newID,             \*   the key sent with it, and the job's ID
    log,                    \* clients whose entry is in the Raft log, not applied
    leader,                 \* this node has won the election
    snapshot,               \* the jobs in the newest Raft snapshot file
    answers, cancelled,     \* history: the jobs clients were told of as submitted
                            \*   and as cancelled
    restarts, snapshots     \* counters for the bounds

callVars == <<op, req, newID>>
history == <<answers, cancelled>>
engineVars == <<nextJobID, submitMu, pc, callVars, log, leader, history>>
diskVars == <<raft, snapshot, restarts, snapshots>>
vars == <<storeVars, engineVars, diskVars>>

\* What a client was told: the job for a request with this key, and whether the
\* request had a run_at.
Answers == [key : Keys \cup {NoKey}, runAt : BOOLEAN, id : IDs]

\* The engine's and the clients' state keeps its shape.
SubmissionTypeOK ==
    /\ TypeOK
    /\ nextJobID \in IDs \cup {0}
    /\ submitMu \in Clients \cup {NoClient}
    /\ pc \in [Clients -> {"idle", "lock", "find", "alloc", "create", "wait", "applied",
                         "refused"}]
    /\ op \in [Clients -> {"submit", "submitAt", "cancel"}]
    /\ req \in [Clients -> Keys \cup {NoKey}]
    /\ newID \in [Clients -> IDs \cup {0}]
    /\ log \in Seq(Clients)
    /\ leader \in BOOLEAN
    /\ snapshot \in [IDs -> Abs!StoredJob]
    /\ answers \subseteq Answers /\ cancelled \subseteq IDs

SubmissionInit ==
    /\ Init
    /\ raft \in RaftModes
    /\ nextJobID = 0 /\ submitMu = NoClient
    /\ pc = [c \in Clients |-> "idle"]
    /\ op = [c \in Clients |-> "submit"]
    /\ req = [c \in Clients |-> NoKey]
    /\ newID = [c \in Clients |-> 0]
    /\ log = <<>>
    /\ leader = FALSE
    /\ snapshot = [id \in IDs |-> Abs!NotStored]
    /\ answers = {} /\ cancelled = {}
    /\ restarts = 0 /\ snapshots = 0
---------------------------------------------------------------------------
Goto(c, l) == pc' = [pc EXCEPT ![c] = l]

\* The key that the engine is called with: SubmitJobAtWithContext takes none, so
\* the handler drops what came with a run_at.
Key(c) == IF op[c] = "submitAt" THEN NoKey ELSE req[c]

\* The call returns, its data is gone, and the deferred Unlock runs if there is a
\* key.
Return(c) ==
    /\ Goto(c, "idle")
    /\ op' = [op EXCEPT ![c] = "submit"]
    /\ req' = [req EXCEPT ![c] = NoKey]
    /\ newID' = [newID EXCEPT ![c] = 0]
    /\ submitMu' = IF Key(c) = NoKey THEN submitMu ELSE NoClient

\* A request arrives at a handler.
Request(c, o, k, l) ==
    /\ pc[c] = "idle"
    /\ op' = [op EXCEPT ![c] = o]
    /\ req' = [req EXCEPT ![c] = k]
    /\ Goto(c, l)
    /\ UNCHANGED <<storeVars, diskVars, nextJobID, submitMu, log, leader, history>>

\* Bound: there are IDs left for this request and for those that may yet take one.
RoomForID ==
    nextJobID + Cardinality({d \in Clients : pc[d] \in {"lock", "find", "alloc"}})
        < Cardinality(IDs)

\* SubmitJobHandler, and SubmitJobIdempotent up to its lock.
Submit(c, k) ==
    /\ RoomForID
    /\ Request(c, "submit", k, IF k = NoKey THEN "alloc" ELSE "lock")
    /\ UNCHANGED newID

\* SubmitJobHandler with a run_at, and maybe a key.
SubmitAt(c, k) ==
    /\ RoomForID
    /\ Request(c, "submitAt", k, "alloc")
    /\ UNCHANGED newID

\* CancelJobHandler.
Cancel(c, id) ==
    /\ Cardinality(cancelled) < MaxCancels
    /\ Request(c, "cancel", NoKey, "create")
    /\ newID' = [newID EXCEPT ![c] = id]

\* Mutant: check and creation are not serialised.
LockMut(c) ==
    /\ pc[c] = "lock"
    /\ Goto(c, "find")
    /\ UNCHANGED <<storeVars, diskVars, nextJobID, submitMu, callVars, log, leader, history>>

Lock(c) ==
    /\ pc[c] = "lock" /\ submitMu = NoClient
    /\ submitMu' = c
    /\ Goto(c, "find")
    /\ UNCHANGED <<storeVars, diskVars, nextJobID, callVars, log, leader, history>>

Told(c, id) == [key |-> req[c], runAt |-> op[c] = "submitAt", id |-> id]

\* A job that carries the key is returned as it is.
Find(c) ==
    /\ pc[c] = "find"
    /\ FindByIdempotencyKey(req[c])
    /\ IF Found(req[c]) = {}
       THEN Goto(c, "alloc") /\ UNCHANGED <<submitMu, callVars, answers>>
       ELSE /\ Return(c)
            /\ answers' = answers \cup {Told(c, id) : id \in Found(req[c])}
    /\ UNCHANGED <<diskVars, nextJobID, log, leader, cancelled>>

Alloc(c) ==
    /\ pc[c] = "alloc"
    /\ nextJobID' = nextJobID + 1
    /\ newID' = [newID EXCEPT ![c] = nextJobID + 1]
    /\ Goto(c, "create")
    /\ UNCHANGED <<storeVars, diskVars, submitMu, op, req, log, leader, history>>

Acknowledge(c) ==
    IF op[c] = "cancel"
    THEN cancelled' = cancelled \cup {newID[c]} /\ UNCHANGED answers
    ELSE answers' = answers \cup {Told(c, newID[c])} /\ UNCHANGED cancelled

\* What the request does to the store: Add, or Cancel.
Execute(c) ==
    IF op[c] = "cancel"
    THEN CancelJob(newID[c])
    ELSE BoltAdd(newID[c], IF op[c] = "submitAt" THEN "Scheduled" ELSE "Pending", Key(c))

\* Without Raft: the call of the store, and the answer it leads to.
Create(c) ==
    /\ ~raft /\ pc[c] = "create"
    /\ Execute(c)
    /\ IF reply'.ok THEN Acknowledge(c) ELSE UNCHANGED history
    /\ Return(c)
    /\ UNCHANGED <<diskVars, nextJobID, log, leader>>
---------------------------------------------------------------------------
\* Mutants: the answer does not wait until the entry is applied; the error path
\* of Propose keeps the mutex.
ProposeMut(c) ==
    /\ raft /\ pc[c] = "create"
    /\ IF leader THEN log' = Append(log, c) /\ Goto(c, "wait") /\ Acknowledge(c)
                      /\ UNCHANGED <<submitMu, callVars>>
                 ELSE Return(c) /\ UNCHANGED <<log, history>>
    /\ UNCHANGED <<storeVars, diskVars, nextJobID, leader>>

ProposeMut2(c) ==
    /\ raft /\ pc[c] = "create"
    /\ IF leader THEN log' = Append(log, c) /\ Goto(c, "wait")
                 ELSE Goto(c, "idle") /\ UNCHANGED log
    /\ UNCHANGED <<storeVars, diskVars, nextJobID, submitMu, callVars, leader, history>>

\* Propose: the entry joins the log, or the call ends with an error, as it does
\* unless this node leads and as it may when the log is busy for five seconds.
Propose(c) ==
    /\ raft /\ pc[c] = "create"
    /\ \/ leader /\ log' = Append(log, c) /\ Goto(c, "wait")
                 /\ UNCHANGED <<submitMu, callVars>>
       \/ Return(c) /\ UNCHANGED log
    /\ UNCHANGED <<storeVars, diskVars, nextJobID, leader, history>>

\* FSM.Apply of the first committed entry, an add_job or a cancel_job command.
Apply ==
    /\ log # <<>>
    /\ LET c == Head(log)
       IN Execute(c) /\ Goto(c, IF reply'.ok THEN "applied" ELSE "refused")
    /\ log' = Tail(log)
    /\ UNCHANGED <<diskVars, nextJobID, submitMu, callVars, leader, history>>

\* Mutant: the error that Apply returned as its response is not looked at.
AppliedMut(c) ==
    /\ pc[c] \in {"applied", "refused"}
    /\ Acknowledge(c)
    /\ Return(c)
    /\ UNCHANGED <<storeVars, diskVars, nextJobID, log, leader>>

\* The end of Propose: the response of Apply is the answer.
Applied(c) ==
    /\ pc[c] \in {"applied", "refused"}
    /\ IF pc[c] = "applied" THEN Acknowledge(c) ELSE UNCHANGED history
    /\ Return(c)
    /\ UNCHANGED <<storeVars, diskVars, nextJobID, log, leader>>

\* The election of a one-node cluster, some time after the start.
Elect ==
    /\ raft /\ ~leader
    /\ leader' = TRUE
    /\ UNCHANGED <<storeVars, diskVars, nextJobID, submitMu, pc, callVars, log, history>>

\* The scheduler's loops write their updates straight to the store.
Progress(id, s) ==
    /\ Stored(id)
    /\ UpdateJob(id, s)
    /\ UNCHANGED <<engineVars, diskVars>>
---------------------------------------------------------------------------
\* FSM.Snapshot: the jobs, without the crons and the dead-letter queue.
Snapshot ==
    /\ raft /\ leader /\ snapshots < MaxSnapshots
    /\ snapshot' = jobs
    /\ snapshots' = snapshots + 1
    /\ UNCHANGED <<storeVars, engineVars, raft, restarts>>

\* Mutant: the jobs of the snapshot are put without their status entries.
RestoreMut ==
    /\ jobs' = [id \in IDs |-> IF snapshot[id] = Abs!NotStored THEN jobs[id]
                               ELSE snapshot[id]]
    /\ replaced' = replaced \cup {id \in IDs : Stored(id) /\ snapshot[id] # Abs!NotStored}
    /\ UNCHANGED <<statusIndex, idempotencyIndex, reply>>

\* FSM.Restore: Add of every job of the snapshot, over the store on disk.
Restore ==
    /\ jobs' = [id \in IDs |-> IF snapshot[id] = Abs!NotStored THEN jobs[id]
                               ELSE snapshot[id]]
    /\ statusIndex' = [s \in Status |->
                         statusIndex[s] \cup {id \in IDs : snapshot[id].Status = s}]
    /\ idempotencyIndex' =
         [k \in Keys |-> LET from == {id \in IDs : snapshot[id].IdempotencyKey = k}
                         IN  IF from = {} THEN idempotencyIndex[k] ELSE Max(from)]
    /\ replaced' = replaced \cup {id \in IDs : Stored(id) /\ snapshot[id] # Abs!NotStored}
    /\ UNCHANGED reply

\* Mutant: the ID counter is not restored.
RestartMut ==
    /\ restarts < MaxRestarts
    /\ restarts' = restarts + 1
    /\ IF raft THEN Restore ELSE UNCHANGED storeVars
    /\ nextJobID' = 0
    /\ submitMu' = NoClient
    /\ pc' = [c \in Clients |-> "idle"]
    /\ op' = [c \in Clients |-> "submit"]
    /\ req' = [c \in Clients |-> NoKey]
    /\ newID' = [c \in Clients |-> 0]
    /\ log' = <<>>
    /\ leader' = FALSE
    /\ UNCHANGED <<history, raft, snapshot, snapshots>>

\* The process dies and starts again: the database and the snapshot file remain,
\* NewRaftNode restores the snapshot, and Engine.Restore the counter.
Restart ==
    /\ restarts < MaxRestarts
    /\ restarts' = restarts + 1
    /\ IF raft THEN Restore ELSE UNCHANGED storeVars
    /\ nextJobID' = Max({0} \cup {id \in IDs : jobs'[id].Status # "None"})
    /\ submitMu' = NoClient
    /\ pc' = [c \in Clients |-> "idle"]
    /\ op' = [c \in Clients |-> "submit"]
    /\ req' = [c \in Clients |-> NoKey]
    /\ newID' = [c \in Clients |-> 0]
    /\ log' = <<>>
    /\ leader' = FALSE
    /\ UNCHANGED <<history, raft, snapshot, snapshots>>

ClientStep(c) == Find(c) \/ Alloc(c) \/ Create(c) \/ Propose(c) \/ Applied(c)

SubmissionNext ==
    \/ \E c \in Clients, k \in Keys \cup {NoKey} : Submit(c, k) \/ SubmitAt(c, k)
    \/ \E c \in Clients : Lock(c) \/ ClientStep(c)
    \/ \E c \in Clients, id \in 1 .. nextJobID : Cancel(c, id)
    \/ Apply \/ Elect \/ Snapshot \/ Restart
    \/ \E id \in IDs, s \in ProgressTo : Progress(id, s)

SubmissionSpec == SubmissionInit /\ [][SubmissionNext]_vars

\* Goroutines run, Raft applies what it has committed, and Go's mutex does not
\* starve a waiter.
FairSubmission ==
    /\ SubmissionSpec
    /\ WF_vars(Apply)
    /\ \A c \in Clients : WF_vars(ClientStep(c)) /\ SF_vars(Lock(c))
---------------------------------------------------------------------------
\* Requests to run a job at once that carry one key get one job, whether they are
\* concurrent or come before and after a restart.  A request with a run_at is not
\* covered: it gets a new job each time, whatever key it carries.
SameJobForKey ==
    \A a, b \in answers :
        a.key = b.key /\ a.key # NoKey /\ ~a.runAt /\ ~b.runAt => a.id = b.id

\* A job a client was told of is stored, and stays so through every crash and
\* restart: under the key of the request, but under none if that had a run_at.
AnsweredStored ==
    \A a \in answers :
        /\ Stored(a.id)
        /\ jobs[a.id].IdempotencyKey = IF a.runAt THEN NoKey ELSE a.key

\* An ID that a client's request is about to add is in the store of no job and in
\* the hands of no other client: its Add, which could overwrite, never does.
FreshIDs ==
    \A c, d \in Clients :
        LET Adding(x) == pc[x] \in {"create", "wait"} /\ op[x] # "cancel"
        IN Adding(c) => /\ ~Stored(newID[c])
                        /\ Adding(d) /\ newID[c] = newID[d] => c = d

\* A job in a terminal state never leaves it, whatever happens to the process.
EndedStaysEnded ==
    [][\A id \in IDs : jobs[id].Status \in Terminal => jobs'[id] = jobs[id]]_vars

\* While a node is up, and without Raft also through its restarts, a job in a
\* terminal state never leaves it, nor does its key change: neither a client's Add
\* nor an Update nor a Cancel that races with it takes effect.
EndedStaysWhileUp ==
    [][\A id \in IDs : jobs[id].Status \in Terminal =>
          jobs'[id] = jobs[id] \/ (raft /\ restarts' # restarts)]_vars

\* A job that a client was told is cancelled is cancelled, although the scheduler
\* and other clients raced for it; a Raft node keeps that promise until it restarts.
CancelIsFinal ==
    \A id \in cancelled : jobs[id].Status = "Cancelled" \/ (raft /\ restarts > 0)

\* A submission is answered, with a job or with an error.
SubmissionAnswered == \A c \in Clients : (pc[c] # "idle") ~> (pc[c] = "idle")
===========================================================================
