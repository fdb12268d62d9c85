--------------------------- MODULE JobLifecycle ---------------------------
(***************************************************************************)
(* What the scheduler promises of a job, without its queues, leases, loops *)
(* and workers: the status and the retry count a client reads              *)
(* (GET /jobs/{id}) and the dead-letter list (Engine.DeadJobs).            *)
(* JobScheduler implements it.                                             *)
(*                                                                         *)
(* The statuses form a strict machine.  The retry counter does not: the    *)
(* loops write back records they read earlier, so that a write may restore *)
(* an older count; it is exact only where a promise depends on it, in      *)
(* GiveUp.  On a Raft node every job may go back to what it was when the   *)
(* last snapshot was taken.                                                *)
(***************************************************************************)
EXTENDS Job

CONSTANT Jobs

VARIABLES
    job,            \* job ID -> record
    dead,           \* the dead-letter list
    snapshot,       \* the jobs as the last snapshot has them
    raft            \* whether the node takes snapshots

Init ==
    /\ job = [j \in Jobs |-> Absent]
    /\ dead = {}
    /\ snapshot = job
    /\ raft \in BOOLEAN

\* Job j moves from one of the statuses in from to status to, its counter to
\* one of the values in counts.
Move(j, from, to, counts) ==
    /\ job[j].Status \in from
    /\ \E n \in counts : job' = [job EXCEPT ![j] = [Status |-> to, RetryCount |-> n]]
    /\ UNCHANGED <<dead, snapshot, raft>>

Count == 0 .. MaxRetries

Submit(j) == Move(j, {"None"}, "Pending", {0})
SubmitAt(j) == Move(j, {"None"}, "Scheduled", {0})
Cancel(j) == Move(j, {"Pending", "Scheduled"}, "Cancelled", {job[j].RetryCount})
Promote(j) == Move(j, {"Pending", "Scheduled"}, "Pending", Count)
Retry(j) == Move(j, {"Pending", "Scheduled"}, "Scheduled", 1 .. MaxRetries)
Complete(j) == Move(j, {"Pending"}, "Completed", Count)
GiveUp(j) == Move(j, {"Pending"}, "Failed", {MaxRetries})

\* A job whose retries are spent is put on the dead-letter list.  By then the
\* update that fails it may have been refused (the job was cancelled, completed
\* or scheduled again meanwhile): the list may hold jobs that did not fail.
Bury(j) ==
    /\ job[j].Status # "None"
    /\ dead' = dead \cup {j}
    /\ UNCHANGED <<job, snapshot, raft>>

\* The jobs are copied, and put back when the node restarts.
Snapshot == raft /\ snapshot' = job /\ UNCHANGED <<job, dead, raft>>

Restore ==
    /\ raft
    /\ job' = [j \in Jobs |-> IF snapshot[j].Status = "None" THEN job[j] ELSE snapshot[j]]
    /\ UNCHANGED <<dead, snapshot, raft>>

Next ==
    \/ \E j \in Jobs : \/ Submit(j) \/ SubmitAt(j) \/ Cancel(j) \/ Promote(j)
                       \/ Retry(j) \/ Complete(j) \/ GiveUp(j) \/ Bury(j)
    \/ Snapshot \/ Restore

Spec == Init /\ [][Next]_<<job, dead, snapshot, raft>>
===========================================================================
