------------------------------- MODULE Cron -------------------------------
(***************************************************************************)
(* Recurring jobs: internal/cron, the cron operations of the engine and of *)
(* the two stores, and the handlers of /cron.                              *)
(*                                                                         *)
(* An entry lives in two places: the cron bucket of the store, which       *)
(* GET /cron lists, and the map of cron.Scheduler, which fires.  A request *)
(* changes them one after the other, so requests of several clients        *)
(* interleave between the two.  The ticker takes the due entries under the *)
(* scheduler's lock and submits their jobs after releasing it.  A new      *)
(* entry's first run is computed before the lock is taken.                 *)
(*                                                                         *)
(* Time is counted in minutes, as nextRun truncates it.  "slot", "since",  *)
(* fired and past are history: the minute an entry was due at, the minute  *)
(* it was added in (request.at), the slots submitted, and what has been   *)
(* done to an entry: nothing but requests one after the other ("clean"), a *)
(* refused request or a restart ("touched"), requests of two clients at    *)
(* the same time ("overlapped").                                           *)
(***************************************************************************)
EXTENDS Naturals, Sequences, Functions

CONSTANTS
    Entries,        \* cron job IDs
    Schedules,      \* the schedules clients ask for
    Clients,        \* concurrent callers of /cron
    FirstMinute, LastMinute,    \* the interval of time observed
    MaxRequests,    \* requests in a behaviour
    MaxRestarts     \* restarts of the control node

\* A schedule is "* * * * *" ("every"), "*/N * * * *" ("step", N its interval)
\* or anything else.
Schedule == [form : {"every", "step", "other"}, interval : Nat]

ASSUME SchedulesType == Schedules \subseteq Schedule
ASSUME MinutesType == FirstMinute \in Nat /\ LastMinute \in Nat /\ FirstMinute <= LastMinute

NoSchedule == [form |-> "none", interval |-> 0]

VARIABLES
    raft,           \* Config.RaftEnabled
    now,
    stored,         \* the cron bucket: entry -> schedule
    jobs,           \* Scheduler.jobs: entry -> schedule and NextRun
    due,            \* the entries the ticker still has to submit
    request,        \* client -> its request in progress
    requests, restarts,
    fired, past

cronVars == <<raft, now, stored, jobs, due, request, requests, restarts, fired, past>>

NoTime == 0
NoCron == [Schedule |-> NoSchedule, NextRun |-> NoTime, since |-> 0]
CronJob == [Schedule : Schedules, NextRun : Nat \ {NoTime}, since : Nat]

Idle == [op |-> "idle", id |-> "", schedule |-> NoSchedule, at |-> NoTime]

TypeOK ==
    /\ raft \in BOOLEAN
    /\ now \in FirstMinute .. LastMinute
    /\ stored \in [Entries -> Schedules \cup {NoSchedule}]
    /\ jobs \in [Entries -> CronJob \cup {NoCron}]
    /\ due \subseteq [ID : Entries, slot : Nat]
    /\ request \in [Clients -> {Idle} \cup
                      [op : {"store", "schedule", "insert", "delete", "remove"},
                       id : Entries, schedule : Schedules \cup {NoSchedule}, at : Nat]]
    /\ past \in [Entries -> {"clean", "touched", "overlapped"}]

Init ==
    /\ raft \in BOOLEAN
    /\ now = FirstMinute
    /\ stored = [e \in Entries |-> NoSchedule]
    /\ jobs = [e \in Entries |-> NoCron]
    /\ due = {}
    /\ request = [c \in Clients |-> Idle]
    /\ requests = 0 /\ restarts = 0
    /\ fired = [e \in Entries |-> <<>>]
    /\ past = [e \in Entries |-> "clean"]
---------------------------------------------------------------------------
\* The first aligned minute after from, NoTime for an unsupported schedule.
nextRun(schedule, from) ==
    CASE schedule.form = "every" -> from + 1
      [] schedule.form = "step" /\ schedule.interval > 0 ->
            LET hour == from - (from % 60)
                nextMin == ((from % 60) \div schedule.interval + 1) * schedule.interval
            IN  hour + (IF nextMin >= 60 THEN 60 ELSE nextMin)
      [] OTHER -> NoTime

\* Another client has a request on entry e in progress.
Busy(c, e) == \E d \in Clients \ {c} : request[d] # Idle /\ request[d].id = e

Begin(c, op, e, sch) ==
    /\ request[c] = Idle
    /\ requests < MaxRequests /\ requests' = requests + 1
    /\ request' = [request EXCEPT ![c] = [op |-> op, id |-> e, schedule |-> sch,
                                          at |-> NoTime]]
    /\ past' = IF Busy(c, e) THEN [past EXCEPT ![e] = "overlapped"] ELSE past
    /\ UNCHANGED <<raft, now, stored, jobs, due, restarts, fired>>

\* POST /cron with a well-formed request, and DELETE /cron/{id}.
CreateCronJob(c, e, sch) == Begin(c, "store", e, sch)
DeleteCronJob(c, e) == Begin(c, "delete", e, NoSchedule)

Proceed(c, op) == request' = [request EXCEPT ![c].op = op]
Touched(e) == IF past[e] = "clean" THEN [past EXCEPT ![e] = "touched"] ELSE past
Reply(c) == request' = [request EXCEPT ![c] = Idle]

PutCron(e, sch) == stored' = [stored EXCEPT ![e] = sch]

\* AddCronJob without Raft: the entry is stored, then given to the scheduler.
AddCron(c) ==
    /\ ~raft /\ request[c].op = "store"
    /\ PutCron(request[c].id, request[c].schedule)
    /\ Proceed(c, "schedule")
    /\ UNCHANGED <<raft, now, jobs, due, requests, restarts, fired, past>>

\* On a Raft node the FSM applies the command, which ends in the store; or the
\* node does not lead, and Propose returns an error.
ApplyCron(c) ==
    /\ raft /\ request[c].op \in {"store", "delete"}
    /\ PutCron(request[c].id, request[c].schedule)
    /\ Reply(c)
    /\ UNCHANGED <<raft, now, jobs, due, requests, restarts, fired, past>>

NotLeader(c) ==
    /\ raft /\ request[c].op \in {"store", "delete"}
    /\ Reply(c)
    /\ UNCHANGED <<raft, now, stored, jobs, due, requests, restarts, fired, past>>

\* Mutant: the schedule is not validated.
ComputeNextMut(c) ==
    LET r == request[c] IN
    /\ r.op = "schedule"
    /\ request' = [request EXCEPT ![c] =
                     [r EXCEPT !.op = "insert", !.at = now]]
    /\ UNCHANGED <<raft, now, stored, jobs, due, requests, restarts, fired, past>>

\* Scheduler.Add up to its lock: the clock is read, and a schedule that is not
\* supported is refused.  Refusing the entry leaves it in the store.
ComputeNext(c) ==
    LET r == request[c] IN
    /\ r.op = "schedule"
    /\ IF nextRun(r.schedule, now) = NoTime
       THEN Reply(c) /\ past' = Touched(r.id)
       ELSE /\ request' = [request EXCEPT ![c] = [r EXCEPT !.op = "insert", !.at = now]]
            /\ UNCHANGED past
    /\ UNCHANGED <<raft, now, stored, jobs, due, requests, restarts, fired>>

\* The rest of Scheduler.Add, under the lock.
Add(c) ==
    LET r == request[c]
        exists == jobs[r.id] # NoCron
    IN
    /\ r.op = "insert"
    /\ jobs' = IF exists THEN jobs
               ELSE [jobs EXCEPT ![r.id] =
                       [Schedule |-> r.schedule, NextRun |-> nextRun(r.schedule, r.at),
                        since |-> r.at]]
    /\ past' = IF exists THEN Touched(r.id) ELSE past
    /\ Reply(c)
    /\ UNCHANGED <<raft, now, stored, due, requests, restarts, fired>>

\* RemoveCronJob without Raft.
DeleteCron(c) ==
    /\ ~raft /\ request[c].op = "delete"
    /\ PutCron(request[c].id, NoSchedule)
    /\ Proceed(c, "remove")
    /\ UNCHANGED <<raft, now, jobs, due, requests, restarts, fired, past>>

\* Mutant: the entry is removed from the store only.
RemoveMut(c) ==
    /\ request[c].op = "remove"
    /\ Reply(c)
    /\ UNCHANGED <<raft, now, stored, jobs, due, requests, restarts, fired, past>>

\* Scheduler.Remove.  What the ticker has taken already is still submitted.
Remove(c) ==
    /\ request[c].op = "remove"
    /\ jobs' = [jobs EXCEPT ![request[c].id] = NoCron]
    /\ Reply(c)
    /\ UNCHANGED <<raft, now, stored, due, requests, restarts, fired, past>>
---------------------------------------------------------------------------
\* Mutant: an entry is due in its minute only.
DueNowMut == {e \in Entries : jobs[e] # NoCron /\ now = jobs[e].NextRun}

DueNow == {e \in Entries : jobs[e] # NoCron /\ now >= jobs[e].NextRun}

\* Mutant: the slots missed since the last tick are skipped.
TickMut ==
    /\ due = {} /\ DueNow # {}
    /\ due' = {[ID |-> e, slot |-> jobs[e].NextRun] : e \in DueNow}
    /\ jobs' = [e \in Entries |->
                  IF e \in DueNow
                  THEN [jobs[e] EXCEPT !.NextRun = nextRun(jobs[e].Schedule, now)]
                  ELSE jobs[e]]
    /\ UNCHANGED <<raft, now, stored, request, requests, restarts, fired, past>>

\* Mutant: the entry is taken and not moved on.
TickMut2 ==
    /\ due = {} /\ DueNow # {}
    /\ due' = {[ID |-> e, slot |-> jobs[e].NextRun] : e \in DueNow}
    /\ UNCHANGED <<raft, now, stored, jobs, request, requests, restarts, fired, past>>

(***************************************************************************)
(* A tick of Scheduler.Start with something due, which happens only when   *)
(* the loop is back from the submissions of the one before.  Every due     *)
(* entry moves on by one slot, counted from the slot and not from now: a   *)
(* loop that was held up catches up slot by slot.                          *)
(***************************************************************************)
Tick ==
    /\ due = {} /\ DueNow # {}
    /\ due' = {[ID |-> e, slot |-> jobs[e].NextRun] : e \in DueNow}
    /\ jobs' = [e \in Entries |->
                  IF e \in DueNow
                  THEN [jobs[e] EXCEPT !.NextRun = nextRun(jobs[e].Schedule, @)]
                  ELSE jobs[e]]
    /\ UNCHANGED <<raft, now, stored, request, requests, restarts, fired, past>>

\* The engine's SubmitJob for one of the copies; its error is logged only.
SubmitDue(d) ==
    /\ d \in due
    /\ due' = due \ {d}
    /\ fired' = [fired EXCEPT ![d.ID] = Append(@, d.slot)]
    /\ UNCHANGED <<raft, now, stored, jobs, request, requests, restarts, past>>

Minute ==
    /\ now < LastMinute
    /\ now' = now + 1
    /\ UNCHANGED <<raft, stored, jobs, due, request, requests, restarts, fired, past>>

\* The node boots again on its database: the scheduler's map starts empty and is
\* not filled from the bucket.  Requests in progress are cut off.
Restart ==
    /\ restarts < MaxRestarts
    /\ restarts' = restarts + 1
    /\ jobs' = [e \in Entries |-> NoCron]
    /\ due' = {}
    /\ request' = [c \in Clients |-> Idle]
    /\ past' = [e \in Entries |-> IF past[e] = "clean" THEN "touched" ELSE past[e]]
    /\ UNCHANGED <<raft, now, stored, requests, fired>>

Next ==
    \/ \E c \in Clients : \/ \E e \in Entries : \/ \E sch \in Schedules : CreateCronJob(c, e, sch)
                                                \/ DeleteCronJob(c, e)
                          \/ AddCron(c) \/ ComputeNext(c) \/ Add(c) \/ DeleteCron(c) \/ Remove(c)
                          \/ ApplyCron(c) \/ NotLeader(c)
    \/ Tick \/ (\E d \in due : SubmitDue(d))
    \/ Minute \/ Restart

\* The ticker's goroutine runs again and again.
Fairness == WF_cronVars(Tick) /\ WF_cronVars(\E d \in due : SubmitDue(d))

Spec == Init /\ [][Next]_cronVars /\ Fairness
---------------------------------------------------------------------------
(***************************************************************************)
(* Properties.                                                             *)
(***************************************************************************)

\* The minutes a schedule names: every one, or those whose minute of the hour
\* is a multiple of the interval (the alignment the API documents).
Slots(sch) == {t \in FirstMinute .. LastMinute + 1 :
                  \/ sch.form = "every"
                  \/ sch.form = "step" /\ (t % 60) % sch.interval = 0}

\* No slot is skipped and none is invented: the slots submitted or about to be
\* submitted since the entry was added are exactly those its schedule names
\* before its next run, however late the ticker ran and across the full hour,
\* unless requests of two clients overlapped on the entry.
NoSlotSkipped ==
    \A e \in Entries : jobs[e] # NoCron /\ past[e] # "overlapped" =>
        {t \in Slots(jobs[e].Schedule) : jobs[e].since < t /\ t < jobs[e].NextRun}
          = {t \in Range(fired[e]) \cup {d.slot : d \in {x \in due : x.ID = e}} :
                t > jobs[e].since}

\* No entry is submitted early.  Unless requests of two clients overlapped on it
\* (an Add held up before the lock may install a run that has been submitted
\* since), an entry is submitted at most once for a slot and in the order of the
\* slots, also when it is removed and added again while its last copy is still
\* to be submitted, and across restarts.
FiredOnceInOrder ==
    \A e \in Entries :
        /\ \A i \in 1 .. Len(fired[e]) : fired[e][i] <= now
        /\ past[e] # "overlapped" =>
              \A i, k \in 1 .. Len(fired[e]) : i < k => fired[e][i] < fired[e][k]

\* Engine.ListCronJobs.
ListCronJobs == IF \A e \in Entries : stored[e] = NoSchedule
                THEN [e \in Entries |-> jobs[e].Schedule] ELSE stored

\* GET /cron lists exactly the entries that fire, with the schedule they fire
\* by, except for entries that a refused or overlapping request or a restart
\* has touched and while a request is under way.
ListedIsScheduled ==
    \A e \in Entries :
        ~raft /\ past[e] = "clean" /\ (\A c \in Clients : request[c].id # e) =>
            ListCronJobs[e] = jobs[e].Schedule

\* An entry that is due is submitted for that slot, unless it is removed or the
\* node restarts: also a ticker that was held up for minutes catches up.
OverdueFires ==
    \A e \in Entries, t \in FirstMinute .. LastMinute :
        (jobs[e].NextRun = t /\ now >= t) ~> (t \in Range(fired[e]) \/ jobs[e] = NoCron)
===========================================================================
