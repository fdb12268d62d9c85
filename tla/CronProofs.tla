---------------------------- MODULE CronProofs ----------------------------
(***************************************************************************)
(* Safety of Cron for every set of entries, schedules and clients, every   *)
(* interval of time and any number of requests and restarts.               *)
(*                                                                         *)
(* FiredOnceInOrder: nextRun moves forward.  The next run of an entry, and *)
(* the first run a request is about to install, lie after all that was     *)
(* taken of the entry, what the ticker has taken lies after all that was   *)
(* submitted, and nothing taken or submitted lies in the future.  The      *)
(* first run stays ahead between the clock and the lock because no other   *)
(* request is working on the entry, unless the two overlapped.             *)
(*                                                                         *)
(* NoSlotSkipped: nextRun is the first slot after the minute it starts     *)
(* from, so each tick takes the one slot that the entry moves past.        *)
(*                                                                         *)
(* ListedIsScheduled: a request leads the bucket to where it will lead the *)
(* map, and no other request is on the entry in between.                   *)
(***************************************************************************)
EXTENDS Cron, TLAPS

\* Leaves are for Zenon unless they name another prover: SMT for arithmetic,
\* sequences and function updates, PTL for temporal steps.
USE Zenon

\* Schedules nextRun accepts.
Supported(sch) == sch.form = "every" \/ (sch.form = "step" /\ sch.interval > 0)

\* nextRun is later than the time it starts from, and NoTime exactly for an
\* unsupported schedule.
LEMMA NextRunLater ==
    ASSUME NEW sch \in Schedule \cup {NoSchedule}, NEW from \in Nat
    PROVE  /\ nextRun(sch, from) \in Nat
           /\ Supported(sch) => nextRun(sch, from) > from
           /\ ~Supported(sch) => nextRun(sch, from) = NoTime
<1> DEFINE m == from % 60
<1> DEFINE n == sch.interval
<1>0. n \in Nat
  BY SMT DEF Schedule, NoSchedule
<1>1. m \in 0 .. 59 /\ from - m \in Nat
  BY SMT
<1>2. CASE sch.form = "every"
  BY SMT, <1>2 DEF nextRun, Supported
<1>3. CASE sch.form = "step" /\ sch.interval > 0
  <2> DEFINE nextMin == (m \div n + 1) * n
  <2>1. m \in Nat /\ n \in Nat \ {0}
    BY SMT, <1>0, <1>1, <1>3
  <2> HIDE DEF m, n
  <2>2. nextMin \in Nat /\ nextMin > m
    BY <2>1, SMT
  <2>3. nextRun(sch, from) = (from - m) + (IF nextMin >= 60 THEN 60 ELSE nextMin)
    BY <1>3 DEF nextRun, m, n
  <2> HIDE DEF nextMin
  <2>4. nextRun(sch, from) \in Nat /\ nextRun(sch, from) > from
    BY SMT, <1>1, <2>1, <2>2, <2>3
  <2>5. QED
    BY <1>3, <2>4 DEF Supported
<1>4. CASE ~Supported(sch)
  BY <1>4 DEF nextRun, Supported, NoTime
<1>5. QED
  BY <1>2, <1>3, <1>4 DEF Supported

\* The minutes a supported schedule names, without a bound.
IsSlot(sch, t) == sch.form = "every" \/ (sch.form = "step" /\ (t % 60) % sch.interval = 0)

\* Multiples of n.
LEMMA Multiples ==
    ASSUME NEW n \in Nat \ {0}, NEW x \in Nat
    PROVE  /\ (x * n) % n = 0
           /\ x \div n \in Nat /\ (x \div n) * n <= x /\ x < (x \div n + 1) * n
           /\ x % n = 0 => x = (x \div n) * n
BY SMT

\* There is no multiple of n between two successive ones.
LEMMA NoneBetween ==
    ASSUME NEW n \in Nat \ {0}, NEW a \in Nat, NEW q \in Nat, a * n < q * n
    PROVE  (a + 1) * n <= q * n
BY SMT

\* The minute of the hour.
LEMMA MinuteOfHour ==
    ASSUME NEW x \in Nat, NEW k \in 0 .. 60
    PROVE  /\ x % 60 \in 0 .. 59 /\ x - (x % 60) \in Nat
           /\ ((x - (x % 60)) + k) % 60 = IF k = 60 THEN 0 ELSE k
BY SMT

\* nextRun is the first minute after from that the schedule names: the division,
\* the carry into the next hour and an interval that does not divide it included.
LEMMA NextRunFirst ==
    ASSUME NEW sch \in Schedule \cup {NoSchedule}, Supported(sch), NEW from \in Nat
    PROVE  /\ IsSlot(sch, nextRun(sch, from))
           /\ \A t \in Nat : from < t /\ t < nextRun(sch, from) => ~IsSlot(sch, t)
<1>1. CASE sch.form = "every"
  BY SMT, <1>1 DEF nextRun, IsSlot
<1>2. CASE sch.form = "step" /\ sch.interval > 0
  <2> DEFINE m == from % 60
  <2> DEFINE h == from - m
  <2> DEFINE n == sch.interval
  <2> DEFINE nextMin == (m \div n + 1) * n
  <2> DEFINE step == IF nextMin >= 60 THEN 60 ELSE nextMin
  <2>1. nextRun(sch, from) = h + step
    BY <1>2 DEF nextRun
  <2>2. n \in Nat \ {0}
    BY SMT, <1>2 DEF Schedule, NoSchedule
  <2>3. m \in 0 .. 59 /\ h \in Nat /\ from = h + m
    BY SMT, MinuteOfHour
  <2>4. \A k \in 0 .. 60 : (h + k) % 60 = IF k = 60 THEN 0 ELSE k
    BY MinuteOfHour
  <2> HIDE DEF m, h, n
  <2>5. /\ m \div n \in Nat /\ (m \div n) * n <= m /\ m < nextMin
        /\ nextMin \in Nat /\ nextMin % n = 0
    BY SMT, <2>2, <2>3, Multiples
  <2> DEFINE a == m \div n
  <2> DEFINE an == a * n
  <2>6. a \in Nat /\ an \in Nat /\ an <= m
    BY SMT, <2>2, <2>5
  <2>7. \A q \in Nat : an < q * n => nextMin <= q * n
    BY <2>2, <2>6, NoneBetween
  <2> HIDE DEF nextMin, an, a
  <2>8. IsSlot(sch, nextRun(sch, from))
    <3>1. step \in 0 .. 60 /\ (IF step = 60 THEN 0 ELSE step) % n = 0
      <4>1. 0 % n = 0
        BY <2>2, SMT
      <4>2. QED
        BY SMT, <2>5, <4>1
    <3>2. (h + step) % 60 = IF step = 60 THEN 0 ELSE step
      BY <2>4, <3>1
    <3>3. QED
      BY <1>2, <2>1, <3>1, <3>2 DEF IsSlot, n
  <2>9. ASSUME NEW t \in Nat, from < t, t < h + step, (t % 60) % n = 0
        PROVE  FALSE
    <3> DEFINE k == t - h
    <3>1. k \in 0 .. 60 /\ k # 60 /\ m < k /\ k < nextMin /\ t = h + k
      BY SMT, <2>3, <2>5, <2>9
    <3> HIDE DEF k
    <3>2. t % 60 = k
      BY <2>4, <3>1
    <3>3. k \in Nat /\ k % n = 0
      BY SMT, <2>9, <3>1, <3>2
    <3>4. k \div n \in Nat /\ k = (k \div n) * n
      BY <2>2, <3>3, Multiples
    <3>5. an < (k \div n) * n
      BY SMT, <2>3, <2>6, <3>1, <3>3, <3>4
    <3>6. nextMin <= k
      BY <2>7, <3>4, <3>5
    <3>7. QED
      BY SMT, <2>5, <3>1, <3>3, <3>6
  <2>10. QED
    BY <1>2, <2>1, <2>8, <2>9 DEF IsSlot, n
<1>3. QED
  BY <1>1, <1>2 DEF Supported
---------------------------------------------------------------------------
\* The types the argument uses.
CronType ==
    /\ now \in Nat
    /\ jobs \in [Entries -> CronJob \cup {NoCron}]
    /\ due \subseteq [ID : Entries, slot : Nat]
    /\ fired \in [Entries -> Seq(Nat)]

Pending == [op : {"store", "schedule", "insert", "delete", "remove"},
            id : Entries, schedule : Schedules \cup {NoSchedule}, at : Nat]

RequestType == request \in [Clients -> {Idle} \cup Pending]

PastType == past \in [Entries -> {"clean", "touched", "overlapped"}]

\* Every slot of s lies before t.
Before(s, t) == \A i \in 1 .. Len(s) : s[i] < t

\* What was taken and what was submitted of entry e lies before t.
Ahead(e, t) == Before(fired[e], t) /\ \A d \in due : d.ID = e => d.slot < t

Apart(e) == past[e] # "overlapped"

\* Two requests on one entry have been noticed.
Noticed ==
    \A c, d \in Clients :
        c # d /\ request[c] # Idle /\ request[d] # Idle /\ request[c].id = request[d].id =>
            ~Apart(request[c].id)

\* A request computes a first run after the minute in which it read the clock.
First(c) == request[c].at + 1

\* An entry about to be inserted can move on, and its first run lies ahead.
InsertAhead ==
    \A c \in Clients : request[c].op = "insert" =>
        /\ Supported(request[c].schedule)
        /\ Apart(request[c].id) /\ jobs[request[c].id] = NoCron =>
              Ahead(request[c].id, First(c))

\* The entries of the scheduler's map can move on, and their next run lies ahead.
NextRunAhead ==
    \A e \in Entries : jobs[e] # NoCron =>
        /\ Supported(jobs[e].Schedule)
        /\ Apart(e) => Ahead(e, jobs[e].NextRun)

\* The ticker holds one copy of an entry at most, of a slot that has come and
\* that lies after the slots submitted.
TakenInOrder ==
    /\ \A d \in due : d.slot <= now /\ (Apart(d.ID) => Before(fired[d.ID], d.slot))
    /\ \A d, f \in due : d.ID = f.ID => d = f

\* What concerns the ticker, and what concerns the requests.
TickerInv == CronType /\ NextRunAhead /\ TakenInOrder /\ FiredOnceInOrder
RequestInv == RequestType /\ PastType /\ Noticed /\ InsertAhead
CronInv == TickerInv /\ RequestInv

\* An entry on which requests overlapped stays one.
Remembers == \A e \in Entries : Apart(e)' => Apart(e)

\* A new scheduler has no entries.
LEMMA InitCronInv == Init => CronInv
<1> SUFFICES ASSUME Init PROVE CronInv
  OBVIOUS
<1>1. CronType /\ RequestType /\ PastType
  BY SMT, MinutesType DEF Init, CronType, RequestType, PastType
<1>2. NextRunAhead /\ TakenInOrder /\ FiredOnceInOrder
  BY SMT DEF Init, NextRunAhead, TakenInOrder, FiredOnceInOrder, Before
<1>3. Noticed /\ InsertAhead
  BY DEF Init, Noticed, InsertAhead, Idle
<1>4. QED
  BY <1>1, <1>2, <1>3 DEF CronInv, TickerInv, RequestInv

\* Steps of the handlers that touch neither the map nor the ticker.
LEMMA StoreStep ==
    ASSUME TickerInv, Remembers, UNCHANGED <<now, jobs, due, fired>>
    PROVE  TickerInv'
<1>1. CronType' /\ NextRunAhead'
  BY DEF TickerInv, CronType, NextRunAhead, Ahead, Before, Remembers
<1>2. TakenInOrder'
  <2>1. \A d \in due : d.ID \in Entries
    BY DEF TickerInv, CronType
  <2>2. QED
    BY <2>1 DEF TickerInv, TakenInOrder, Before, Remembers
<1>3. FiredOnceInOrder'
  BY DEF TickerInv, FiredOnceInOrder, Remembers, Apart
<1>4. QED
  BY <1>1, <1>2, <1>3 DEF TickerInv

\* A client with an operation to do has a request.
LEMMA HasRequest ==
    ASSUME RequestType, NEW c \in Clients, request[c].op # "idle"
    PROVE  request[c] \in Pending /\ request[c] # Idle
<1>1. Idle.op = "idle"
  BY DEF Idle
<1>2. request[c] # Idle
  BY <1>1
<1>3. QED
  BY <1>2 DEF RequestType

\* Requests keep their type.
LEMMA RequestStep == now \in Nat /\ RequestType /\ [Next]_cronVars => RequestType'
<1> SUFFICES ASSUME now \in Nat, RequestType, [Next]_cronVars PROVE RequestType'
  OBVIOUS
<1> USE DEF RequestType
<1>1. ASSUME NEW c \in Clients, NEW e \in Entries, NEW sch \in Schedules,
             CreateCronJob(c, e, sch)
      PROVE  RequestType'
  BY <1>1 DEF CreateCronJob, Begin, Pending, NoTime
<1>2. ASSUME NEW c \in Clients, NEW e \in Entries, DeleteCronJob(c, e) PROVE RequestType'
  BY <1>2 DEF DeleteCronJob, Begin, Pending, NoTime
<1>3. ASSUME NEW c \in Clients, AddCron(c) PROVE RequestType'
  <2>1. request[c] \in Pending
    BY <1>3, HasRequest DEF AddCron
  <2>2. [request[c] EXCEPT !.op = "schedule"] \in Pending
    BY <2>1 DEF Pending
  <2>3. request' = [request EXCEPT ![c] = [request[c] EXCEPT !.op = "schedule"]]
    BY <1>3 DEF AddCron, Proceed
  <2>4. QED
    BY <2>2, <2>3
<1>4. ASSUME NEW c \in Clients, DeleteCron(c) PROVE RequestType'
  <2>1. request[c] \in Pending
    BY <1>4, HasRequest DEF DeleteCron
  <2>2. [request[c] EXCEPT !.op = "remove"] \in Pending
    BY <2>1 DEF Pending
  <2>3. request' = [request EXCEPT ![c] = [request[c] EXCEPT !.op = "remove"]]
    BY <1>4 DEF DeleteCron, Proceed
  <2>4. QED
    BY <2>2, <2>3
<1>5. ASSUME NEW c \in Clients, ComputeNext(c), now \in Nat PROVE RequestType'
  <2>1. request[c] \in Pending
    BY <1>5, HasRequest DEF ComputeNext
  <2>2. [request[c] EXCEPT !.op = "insert", !.at = now] \in Pending
    BY <1>5, <2>1 DEF Pending
  <2>3. \/ request' = [request EXCEPT ![c] = Idle]
        \/ request' = [request EXCEPT ![c] = [request[c] EXCEPT !.op = "insert", !.at = now]]
    BY <1>5 DEF ComputeNext, Reply
  <2>4. QED
    BY <2>2, <2>3
<1>6. ASSUME NEW c \in Clients, Add(c) \/ Remove(c) \/ ApplyCron(c) \/ NotLeader(c)
      PROVE  RequestType'
  BY <1>6 DEF Add, Remove, ApplyCron, NotLeader, Reply
<1>7. CASE Tick \/ Minute \/ Restart \/ UNCHANGED cronVars \/ \E d \in due : SubmitDue(d)
  BY <1>7 DEF Tick, Minute, Restart, cronVars, SubmitDue
<1>8. QED
  BY <1>1, <1>2, <1>3, <1>4, <1>5, <1>6, <1>7 DEF Next

\* A step after which a request is over, or was there before on the same entry.
LEMMA NoticedStep ==
    ASSUME RequestInv, RequestType', Remembers,
           \A c \in Clients : request'[c] = Idle \/
               (request[c] # Idle /\ request'[c].id = request[c].id)
    PROVE  Noticed'
<1> SUFFICES ASSUME NEW c \in Clients, NEW d \in Clients, c # d,
                    request'[c] # Idle, request'[d] # Idle, request'[c].id = request'[d].id
             PROVE  ~Apart(request[c].id)'
  BY DEF Noticed, Apart
<1>1. /\ request[c] # Idle /\ request'[c].id = request[c].id
      /\ request[d] # Idle /\ request'[d].id = request[d].id
  OBVIOUS
<1>2. request[c].id \in Entries
  BY <1>1 DEF RequestInv, RequestType, Pending
<1>3. ~Apart(request[c].id)
  BY <1>1 DEF RequestInv, Noticed
<1>4. QED
  BY <1>1, <1>2, <1>3 DEF Remembers, Apart

\* A step that computes no first run and takes no entry out of the map under one.
LEMMA InsertStep ==
    ASSUME RequestInv, Remembers,
           \A c \in Clients : request'[c].op = "insert" => request'[c] = request[c],
           \A c \in Clients : request'[c].op = "insert" /\ Apart(request[c].id)'
                              /\ jobs'[request[c].id] = NoCron => jobs[request[c].id] = NoCron,
           \A e \in Entries : \A t : jobs[e] = NoCron /\ Ahead(e, t) => Ahead(e, t)'
    PROVE  InsertAhead'
<1> SUFFICES ASSUME NEW c \in Clients, request'[c].op = "insert"
             PROVE  /\ Supported(request'[c].schedule)
                    /\ Apart(request[c].id)' /\ jobs'[request'[c].id] = NoCron =>
                          Ahead(request[c].id, First(c))'
  BY DEF InsertAhead, Apart, Ahead, First
<1>1. request'[c] = request[c] /\ First(c)' = First(c)
  BY DEF First
<1>2. request[c].id \in Entries
  BY <1>1, HasRequest DEF RequestInv, Pending
<1>3. Supported(request[c].schedule)
  BY <1>1 DEF RequestInv, InsertAhead
<1>4. ASSUME Apart(request[c].id)', jobs'[request[c].id] = NoCron
      PROVE  Ahead(request[c].id, First(c))'
  <2>1. Apart(request[c].id) /\ jobs[request[c].id] = NoCron
    BY <1>2, <1>4 DEF Remembers
  <2>2. Ahead(request[c].id, First(c))
    BY <1>1, <2>1 DEF RequestInv, InsertAhead
  <2>3. QED
    BY <1>1, <1>2, <2>1, <2>2
<1>5. QED
  BY <1>1, <1>3, <1>4

\* An entry is inserted with a first run that lies ahead.
LEMMA AddStep ==
    ASSUME CronInv, NEW c \in Clients, Add(c), Remembers
    PROVE  TickerInv'
<1> DEFINE r == request[c]
<1> DEFINE next == nextRun(r.schedule, r.at)
<1>1. r \in Pending /\ r.op = "insert"
  BY HasRequest DEF CronInv, RequestInv, Add
<1>2. r.id \in Entries /\ r.schedule \in Schedules \cup {NoSchedule} /\ r.at \in Nat
  BY <1>1 DEF Pending
<1>3. CASE jobs[r.id] # NoCron
  BY <1>3, StoreStep DEF Add, CronInv
<1>4. CASE jobs[r.id] = NoCron
  <2>1. Supported(r.schedule) /\ (Apart(r.id) => Ahead(r.id, r.at + 1))
    BY <1>1, <1>4 DEF CronInv, RequestInv, InsertAhead, First
  <2>2. r.schedule \in Schedule \cup {NoSchedule}
    BY <1>2, SchedulesType
  <2>3. next \in Nat /\ next > r.at
    BY <1>2, <2>1, <2>2, NextRunLater
  <2>4. Supported(r.schedule) /\ (Apart(r.id) => Ahead(r.id, next))
    <3>1. /\ \A i \in 1 .. Len(fired[r.id]) : fired[r.id][i] \in Nat
          /\ \A d \in due : d.slot \in Nat
      BY SMTT(60), <1>2 DEF CronInv, TickerInv, CronType
    <3>2. \A x \in Nat : x < r.at + 1 => x < next
      BY SMT, <1>2, <2>3
    <3> HIDE DEF next, r
    <3>3. QED
      BY <2>1, <3>1, <3>2 DEF Ahead, Before
  <2>5. r.schedule \in Schedules
    BY SMT, <1>2, <2>4 DEF Supported, NoSchedule
  <2> DEFINE new == [Schedule |-> r.schedule, NextRun |-> next, since |-> r.at]
  <2>6. next \in Nat \ {NoTime}
    BY SMT, <1>2, <2>3 DEF NoTime
  <2>7. new \in CronJob
    BY <1>2, <2>5, <2>6 DEF CronJob
  <2>8. jobs' = [jobs EXCEPT ![r.id] = new] /\ UNCHANGED <<now, due, fired>>
    BY <1>4 DEF Add
  <2>9. new.Schedule = r.schedule /\ new.NextRun = next
    OBVIOUS
  <2> HIDE DEF r, next, new
  <2>10. CronType'
    BY <1>2, <2>7, <2>8 DEF CronInv, TickerInv, CronType
  <2>11. ASSUME NEW e \in Entries, jobs'[e] # NoCron
         PROVE  Supported(jobs'[e].Schedule) /\ (Apart(e)' => Ahead(e, jobs'[e].NextRun))
    <3>1. Apart(e)' => Apart(e)
      BY DEF Remembers
    <3>2. CASE e = r.id
      <4>1. jobs'[e] = new
        BY <2>8, <3>2 DEF CronInv, TickerInv, CronType
      <4>2. QED
        BY <2>4, <2>9, <3>1, <3>2, <4>1
    <3>3. CASE e # r.id
      <4>1. jobs'[e] = jobs[e]
        BY <2>8, <3>3 DEF CronInv, TickerInv, CronType
      <4>2. QED
        BY <2>11, <3>1, <4>1 DEF CronInv, TickerInv, NextRunAhead
    <3>4. QED
      BY <3>2, <3>3
  <2>12. NextRunAhead'
    BY <2>8, <2>11 DEF NextRunAhead, Ahead, Before
  <2>13. TakenInOrder'
    <3>1. \A d \in due : d.ID \in Entries
      BY DEF CronInv, TickerInv, CronType
    <3>2. QED
      BY <2>8, <3>1 DEF CronInv, TickerInv, TakenInOrder, Before, Remembers
  <2>14. FiredOnceInOrder'
    BY <2>8 DEF CronInv, TickerInv, FiredOnceInOrder, Remembers, Apart
  <2>15. QED
    BY <2>10, <2>12, <2>13, <2>14 DEF TickerInv
<1>5. QED
  BY <1>3, <1>4

\* A removed entry leaves its copies with the ticker.
LEMMA DropStep ==
    ASSUME TickerInv, Remembers, UNCHANGED <<now, fired>>, due' \subseteq due,
           jobs' \in [Entries -> CronJob \cup {NoCron}],
           \A e \in Entries : jobs'[e] \in {jobs[e], NoCron}
    PROVE  TickerInv'
<1>1. CronType'
  BY DEF TickerInv, CronType
<1>2. NextRunAhead'
  <2>1. ASSUME NEW e \in Entries, jobs'[e] # NoCron
        PROVE  /\ Supported(jobs'[e].Schedule)
               /\ Apart(e)' => /\ Before(fired[e], jobs'[e].NextRun)
                               /\ \A d \in due' : d.ID = e => d.slot < jobs'[e].NextRun
    <3>1. jobs'[e] = jobs[e] /\ (Apart(e)' => Apart(e))
      BY <2>1 DEF Remembers
    <3>2. QED
      BY <2>1, <3>1 DEF TickerInv, NextRunAhead, Ahead
  <2>2. QED
    BY <2>1 DEF NextRunAhead, Ahead, Before
<1>3. TakenInOrder'
  <2>1. \A d \in due : d.ID \in Entries
    BY DEF TickerInv, CronType
  <2>2. QED
    BY <2>1 DEF TickerInv, TakenInOrder, Before, Remembers
<1>4. FiredOnceInOrder'
  BY DEF TickerInv, FiredOnceInOrder, Remembers, Apart
<1>5. QED
  BY <1>1, <1>2, <1>3, <1>4 DEF TickerInv

\* A due entry after the tick.
Moved(e) == [jobs[e] EXCEPT !.NextRun = nextRun(jobs[e].Schedule, jobs[e].NextRun)]

\* It is an entry still, with a later run.
LEMMA MovedOn ==
    ASSUME TickerInv, NEW e \in DueNow
    PROVE  /\ e \in Entries /\ jobs[e] \in CronJob
           /\ jobs[e].NextRun \in Nat /\ jobs[e].NextRun <= now
           /\ Moved(e) \in CronJob /\ Moved(e) # NoCron
           /\ Moved(e).Schedule = jobs[e].Schedule
           /\ Moved(e).NextRun > jobs[e].NextRun
           /\ Moved(e).NextRun \in Nat
<1>1. e \in Entries /\ jobs[e] # NoCron /\ jobs[e] \in CronJob
  BY DEF DueNow, TickerInv, CronType
<1>2. jobs[e].Schedule \in Schedule \cup {NoSchedule} /\ jobs[e].NextRun \in Nat
  BY <1>1, SchedulesType DEF CronJob
<1>3. Supported(jobs[e].Schedule) /\ now \in Nat
  BY <1>1 DEF TickerInv, NextRunAhead, CronType
<1>4. jobs[e].NextRun <= now
  BY <1>2, <1>3 DEF DueNow
<1>5. /\ nextRun(jobs[e].Schedule, jobs[e].NextRun) \in Nat
      /\ nextRun(jobs[e].Schedule, jobs[e].NextRun) > jobs[e].NextRun
  BY <1>2, <1>3, NextRunLater
<1>6. /\ Moved(e).NextRun = nextRun(jobs[e].Schedule, jobs[e].NextRun)
      /\ Moved(e).Schedule = jobs[e].Schedule
  BY <1>1 DEF CronJob, Moved
<1>7. nextRun(jobs[e].Schedule, jobs[e].NextRun) \in Nat \ {NoTime}
  BY SMT, <1>2, <1>5 DEF NoTime
<1>8. Moved(e) \in CronJob
  BY <1>1, <1>7 DEF CronJob, Moved
<1>9. Moved(e) # NoCron
  BY SMT, <1>6, <1>7 DEF NoCron
<1>10. QED
  BY <1>1, <1>2, <1>4, <1>5, <1>6, <1>8, <1>9

\* The ticker takes the due entries at the slot of their next run, and moves them
\* to a later one.
LEMMA TickStep == ASSUME TickerInv, Tick PROVE TickerInv'
<1>1. /\ due' = {[ID |-> e, slot |-> jobs[e].NextRun] : e \in DueNow}
      /\ jobs' = [e \in Entries |-> IF e \in DueNow THEN Moved(e) ELSE jobs[e]]
      /\ due = {} /\ UNCHANGED <<now, fired, past>>
  BY DEF Tick, Moved
<1>2. /\ \A e \in DueNow : jobs'[e] = Moved(e)
      /\ \A e \in Entries \ DueNow : jobs'[e] = jobs[e]
  BY MovedOn, <1>1
<1>3. ASSUME NEW d \in due'
      PROVE  /\ d.ID \in DueNow /\ d.slot = jobs[d.ID].NextRun
             /\ d = [ID |-> d.ID, slot |-> jobs[d.ID].NextRun]
  BY SMT, <1>1, <1>3
<1>4. CronType'
  <2>1. jobs' \in [Entries -> CronJob \cup {NoCron}]
    BY MovedOn, <1>1 DEF TickerInv, CronType
  <2>2. due' \subseteq [ID : Entries, slot : Nat]
    BY SMT, MovedOn, <1>1
  <2>3. QED
    BY <1>1, <2>1, <2>2 DEF TickerInv, CronType
<1>5. NextRunAhead'
  <2>1. ASSUME NEW e \in Entries, jobs'[e] # NoCron
        PROVE  /\ Supported(jobs'[e].Schedule)
               /\ Apart(e) => /\ Before(fired[e], jobs'[e].NextRun)
                              /\ \A d \in due' : d.ID = e => d.slot < jobs'[e].NextRun
    <3>1. CASE e \in DueNow
      <4>1. jobs'[e] = Moved(e) /\ jobs[e] # NoCron
        BY <1>2, <3>1 DEF DueNow
      <4>2. Supported(jobs[e].Schedule) /\ (Apart(e) => Before(fired[e], jobs[e].NextRun))
        BY <4>1 DEF TickerInv, NextRunAhead, Ahead
      <4>3. Apart(e) => Before(fired[e], Moved(e).NextRun)
        <5>1. \A i \in 1 .. Len(fired[e]) : fired[e][i] \in Nat
          BY SMT DEF TickerInv, CronType
        <5>2. QED
          BY SMT, MovedOn, <3>1, <4>2, <5>1 DEF Before
      <4>4. ASSUME NEW d \in due', d.ID = e PROVE d.slot < Moved(e).NextRun
        BY MovedOn, <1>3, <3>1, <4>4
      <4>5. QED
        BY MovedOn, <3>1, <4>1, <4>2, <4>3, <4>4
    <3>2. CASE e \notin DueNow
      <4>1. jobs'[e] = jobs[e]
        BY <1>2, <3>2
      <4>2. \A d \in due' : d.ID # e
        BY <1>3, <3>2
      <4>3. QED
        BY <2>1, <4>1, <4>2 DEF TickerInv, NextRunAhead, Ahead
    <3>3. QED
      BY <3>1, <3>2
  <2>2. QED
    BY <1>1, <2>1 DEF NextRunAhead, Ahead, Before, Apart
<1>6. TakenInOrder'
  <2>1. ASSUME NEW d \in due'
        PROVE  d.slot <= now /\ (Apart(d.ID) => Before(fired[d.ID], d.slot))
    <3>1. jobs[d.ID] # NoCron /\ d.ID \in Entries
      BY <1>3 DEF DueNow
    <3>2. QED
      BY MovedOn, <1>3, <3>1 DEF TickerInv, NextRunAhead, Ahead
  <2>2. ASSUME NEW d \in due', NEW f \in due', d.ID = f.ID PROVE d = f
    BY <1>3, <2>2
  <2>3. QED
    BY <1>1, <2>1, <2>2 DEF TakenInOrder, Before, Apart
<1>7. FiredOnceInOrder'
  BY <1>1 DEF TickerInv, FiredOnceInOrder
<1>8. QED
  BY <1>4, <1>5, <1>6, <1>7 DEF TickerInv

\* A submission leaves ahead what was ahead of the ticker's copy.
LEMMA SubmitAhead ==
    ASSUME TickerInv, NEW d \in due, SubmitDue(d), NEW e \in Entries, NEW t, Ahead(e, t)
    PROVE  Ahead(e, t)'
<1>1. /\ d.ID \in Entries /\ d.slot \in Nat /\ fired \in [Entries -> Seq(Nat)]
      /\ fired' = [fired EXCEPT ![d.ID] = Append(fired[d.ID], d.slot)]
      /\ due' \subseteq due
  BY DEF TickerInv, CronType, SubmitDue
<1>2. Before(fired'[e], t)
  <2>1. CASE e = d.ID
    <3> DEFINE s == fired[e]
    <3>1. fired'[e] = Append(s, d.slot) /\ s \in Seq(Nat)
      BY <1>1, <2>1
    <3>2. /\ Len(Append(s, d.slot)) = Len(s) + 1 /\ Len(s) \in Nat
          /\ \A i \in 1 .. Len(s) : Append(s, d.slot)[i] = s[i]
          /\ Append(s, d.slot)[Len(s) + 1] = d.slot
      BY SMT, <1>1, <3>1
    <3>3. \A i \in 1 .. Len(s) + 1 : i \in 1 .. Len(s) \/ i = Len(s) + 1
      BY SMT, <3>2
    <3>4. d.slot < t /\ \A i \in 1 .. Len(s) : s[i] < t
      BY <2>1 DEF Ahead, Before
    <3>5. QED
      BY <3>1, <3>2, <3>3, <3>4 DEF Before
  <2>2. CASE e # d.ID
    BY <1>1, <2>2 DEF Ahead
  <2>3. QED
    BY <2>1, <2>2
<1>3. QED
  BY <1>1, <1>2 DEF Ahead, Before

\* A submission appends a slot later than the others.
LEMMA SubmitStep == ASSUME TickerInv, NEW d \in due, SubmitDue(d) PROVE TickerInv'
<1>1. /\ d.ID \in Entries /\ d.slot \in Nat /\ d.slot <= now
      /\ Apart(d.ID) => Before(fired[d.ID], d.slot)
  BY DEF TickerInv, CronType, TakenInOrder
<1>2. /\ fired' = [fired EXCEPT ![d.ID] = Append(fired[d.ID], d.slot)]
      /\ due' = due \ {d} /\ UNCHANGED <<now, jobs, past>>
  BY DEF SubmitDue
<1>3. fired \in [Entries -> Seq(Nat)] /\ now \in Nat
  BY DEF TickerInv, CronType
<1>4. CronType'
  BY SMT, <1>1, <1>2, <1>3 DEF TickerInv, CronType
<1> DEFINE s == fired[d.ID]
<1> DEFINE t == Append(s, d.slot)
<1>5. /\ s \in Seq(Nat) /\ Len(s) \in Nat /\ Len(t) = Len(s) + 1
      /\ \A i \in 1 .. Len(s) : t[i] = s[i] /\ s[i] \in Nat
      /\ t[Len(s) + 1] = d.slot
  BY SMTT(60), <1>1, <1>3
<1>6. fired'[d.ID] = t /\ \A e \in Entries : e # d.ID => fired'[e] = fired[e]
  BY <1>1, <1>2, <1>3
<1> HIDE DEF s, t
<1>7. NextRunAhead'
  <2>1. ASSUME NEW e \in Entries, jobs[e] # NoCron, Apart(e)
        PROVE  Ahead(e, jobs[e].NextRun)'
    <3>1. Ahead(e, jobs[e].NextRun)
      BY <2>1 DEF TickerInv, NextRunAhead
    <3> DEFINE u == jobs[e].NextRun
    <3>2. u' = u
      BY <1>2
    <3> HIDE DEF u
    <3>3. QED
      BY <1>2, <3>1, SubmitAhead DEF Ahead, Before
  <2>2. \A e \in Entries : jobs[e] # NoCron => Supported(jobs[e].Schedule)
    BY DEF TickerInv, NextRunAhead
  <2>3. QED
    BY <1>2, <2>1, <2>2 DEF NextRunAhead, Apart
<1>8. TakenInOrder'
  <2>1. \A f \in due' : f.ID # d.ID /\ f.ID \in Entries
    BY <1>2 DEF TickerInv, TakenInOrder, CronType
  <2>2. \A f \in due' : f.slot <= now /\ (Apart(f.ID) => Before(fired'[f.ID], f.slot))
    BY <1>2, <1>6, <2>1 DEF TickerInv, TakenInOrder
  <2>3. QED
    BY <1>2, <2>2 DEF TickerInv, TakenInOrder, Before, Apart
<1>9. FiredOnceInOrder'
  <2>1. ASSUME NEW e \in Entries
        PROVE  /\ \A i \in 1 .. Len(fired'[e]) : fired'[e][i] <= now
               /\ Apart(e) =>
                    \A i, k \in 1 .. Len(fired'[e]) : i < k => fired'[e][i] < fired'[e][k]
    <3>1. /\ \A i \in 1 .. Len(fired[e]) : fired[e][i] <= now
          /\ Apart(e) => \A i, k \in 1 .. Len(fired[e]) : i < k => fired[e][i] < fired[e][k]
      BY DEF TickerInv, FiredOnceInOrder, Apart
    <3>2. CASE e = d.ID
      <4>1. \A i \in 1 .. Len(t) : i \in 1 .. Len(s) \/ i = Len(s) + 1
        BY SMT, <1>5
      <4>2. ASSUME Apart(e), NEW i \in 1 .. Len(t), NEW k \in 1 .. Len(t), i < k
            PROVE  t[i] < t[k]
        <5>1. i \in 1 .. Len(s)
          BY SMT, <1>5, <4>2
        <5>2. \A j \in 1 .. Len(s) : s[j] < d.slot
          BY <1>1, <3>2, <4>2 DEF Before, s
        <5>3. \A j, l \in 1 .. Len(s) : j < l => s[j] < s[l]
          BY <3>1, <3>2, <4>2 DEF s
        <5>4. QED
          BY <1>5, <4>1, <4>2, <5>1, <5>2, <5>3
      <4>3. \A i \in 1 .. Len(s) : s[i] <= now
        BY <3>1, <3>2 DEF s
      <4>4. \A i \in 1 .. Len(t) : t[i] <= now
        BY <1>1, <1>5, <4>1, <4>3
      <4>5. QED
        BY <1>6, <3>2, <4>2, <4>4
    <3>3. QED
      BY <1>6, <3>1, <3>2
  <2>2. QED
    BY <1>2, <2>1 DEF FiredOnceInOrder, Apart
<1>10. QED
  BY <1>4, <1>7, <1>8, <1>9 DEF TickerInv

\* Time only moves forward.
LEMMA MinuteStep == ASSUME TickerInv, Minute PROVE TickerInv'
<1>1. now' = now + 1 /\ now \in Nat /\ UNCHANGED <<jobs, due, fired, past>>
  BY DEF Minute, TickerInv, CronType
<1>2. CronType' /\ NextRunAhead'
  BY SMT, <1>1 DEF TickerInv, CronType, NextRunAhead, Ahead, Before, Apart
<1>3. TakenInOrder'
  <2>1. \A d \in due : d.slot \in Nat /\ d.slot <= now
    BY DEF TickerInv, CronType, TakenInOrder
  <2>2. QED
    BY SMT, <1>1, <2>1 DEF TickerInv, TakenInOrder, Before, Apart
<1>4. FiredOnceInOrder'
  <2>1. \A e \in Entries : \A i \in 1 .. Len(fired[e]) : fired[e][i] \in Nat /\ fired[e][i] <= now
    BY SMT DEF TickerInv, CronType, FiredOnceInOrder
  <2>2. QED
    BY SMT, <1>1, <2>1 DEF TickerInv, FiredOnceInOrder
<1>5. QED
  BY <1>2, <1>3, <1>4 DEF TickerInv

\* Only overlapping requests and the earlier history of an entry count.
LEMMA RememberStep == CronInv /\ [Next]_cronVars => Remembers /\ PastType'
<1> SUFFICES ASSUME CronInv, [Next]_cronVars PROVE Remembers /\ PastType'
  OBVIOUS
<1> USE DEF Apart, Remembers, PastType
<1>0. PastType
  BY DEF CronInv, RequestInv
<1>1. ASSUME NEW c \in Clients, NEW op, NEW e \in Entries, NEW sch, Begin(c, op, e, sch)
      PROVE  Remembers /\ PastType'
  BY <1>0, <1>1 DEF Begin
<1>2. ASSUME NEW c \in Clients, ComputeNext(c) \/ Add(c) PROVE Remembers /\ PastType'
  BY <1>0, <1>2 DEF ComputeNext, Add, Touched
<1>3. ASSUME NEW c \in Clients,
             AddCron(c) \/ DeleteCron(c) \/ Remove(c) \/ ApplyCron(c) \/ NotLeader(c)
      PROVE  Remembers /\ PastType'
  BY <1>0, <1>3 DEF AddCron, DeleteCron, Remove, ApplyCron, NotLeader
<1>4. CASE Restart
  BY <1>0, <1>4 DEF Restart
<1>5. CASE Tick \/ Minute \/ UNCHANGED cronVars \/ \E d \in due : SubmitDue(d)
  BY <1>0, <1>5 DEF Tick, Minute, cronVars, SubmitDue
<1>6. QED
  BY <1>1, <1>2, <1>3, <1>4, <1>5 DEF Next, CreateCronJob, DeleteCronJob

\* Every step of the handlers, the ticker and the clock keeps the order.
LEMMA NextTickerInv == CronInv /\ [Next]_cronVars => TickerInv'
<1> SUFFICES ASSUME CronInv, [Next]_cronVars PROVE TickerInv'
  OBVIOUS
<1>0. TickerInv /\ Remembers
  BY RememberStep DEF CronInv
<1>1. ASSUME NEW c \in Clients, NEW e \in Entries, NEW sch \in Schedules,
             CreateCronJob(c, e, sch)
      PROVE  TickerInv'
  BY <1>0, <1>1, StoreStep DEF CreateCronJob, Begin
<1>2. ASSUME NEW c \in Clients, NEW e \in Entries, DeleteCronJob(c, e) PROVE TickerInv'
  BY <1>0, <1>2, StoreStep DEF DeleteCronJob, Begin
<1>3. ASSUME NEW c \in Clients,
             AddCron(c) \/ ComputeNext(c) \/ DeleteCron(c) \/ ApplyCron(c) \/ NotLeader(c)
      PROVE  TickerInv'
  BY <1>0, <1>3, StoreStep DEF AddCron, ComputeNext, DeleteCron, ApplyCron, NotLeader
<1>4. ASSUME NEW c \in Clients, Add(c) PROVE TickerInv'
  BY <1>0, <1>4, AddStep
<1>5. ASSUME NEW c \in Clients, Remove(c) PROVE TickerInv'
  <2>1. /\ jobs' = [jobs EXCEPT ![request[c].id] = NoCron]
        /\ UNCHANGED <<now, fired>> /\ due' \subseteq due
    BY <1>5 DEF Remove
  <2>2. jobs \in [Entries -> CronJob \cup {NoCron}]
    BY <1>0 DEF TickerInv, CronType
  <2>3. /\ jobs' \in [Entries -> CronJob \cup {NoCron}]
        /\ \A e \in Entries : jobs'[e] \in {jobs[e], NoCron}
    BY <2>1, <2>2
  <2>4. QED
    BY <1>0, <2>1, <2>3, DropStep
<1>6. CASE Restart
  <2>1. jobs' = [e \in Entries |-> NoCron] /\ UNCHANGED <<now, fired>> /\ due' = {}
    BY <1>6 DEF Restart
  <2>2. QED
    BY <1>0, <2>1, DropStep
<1>7. CASE UNCHANGED cronVars
  BY <1>0, <1>7, StoreStep DEF cronVars
<1>8. QED
  BY <1>0, <1>1, <1>2, <1>3, <1>4, <1>5, <1>6, <1>7, TickStep, SubmitStep, MinuteStep DEF Next

\* A new request on an entry is alone there or noticed; the others go on or end.
LEMMA NextNoticed == CronInv /\ [Next]_cronVars => Noticed'
<1> SUFFICES ASSUME CronInv, [Next]_cronVars PROVE Noticed'
  OBVIOUS
<1>0. RequestInv /\ RequestType /\ RequestType' /\ Remembers
  BY RememberStep, RequestStep DEF CronInv, RequestInv, TickerInv, CronType
<1>1. ASSUME NEW c \in Clients, NEW op, NEW e \in Entries, NEW sch, Begin(c, op, e, sch)
      PROVE  Noticed'
  <2>1. /\ request'[c].id = e
        /\ \A d \in Clients : d # c => request'[d] = request[d]
    BY <1>0, <1>1 DEF Begin, RequestType
  <2>2. ASSUME NEW d \in Clients, d # c, request[d] # Idle, request[d].id = e
        PROVE  ~Apart(e)'
    <3>1. Busy(c, e)
      BY <2>2 DEF Busy
    <3>2. QED
      BY <1>0, <1>1, <3>1 DEF Begin, Apart, RequestInv, PastType
  <2>3. ASSUME NEW a \in Clients, NEW b \in Clients, a # b, a # c, b # c,
               request[a] # Idle, request[b] # Idle, request[a].id = request[b].id
        PROVE  ~Apart(request[a].id)'
    <3>1. ~Apart(request[a].id)
      BY <1>0, <2>3 DEF RequestInv, Noticed
    <3>2. request[a].id \in Entries
      BY <1>0, <2>3 DEF RequestType, Pending
    <3>3. (~Apart(request[a].id))'
      <4> DEFINE f == request[a].id
      <4>1. f' = f
        BY <2>1, <2>3
      <4>2. past'[f] = "overlapped"
        BY <1>0, <3>1, <3>2 DEF Remembers, Apart
      <4>3. QED
        BY <4>1, <4>2 DEF Apart
    <3>4. QED
      BY <3>3
  <2>4. QED
    BY <2>1, <2>2, <2>3 DEF Noticed, Apart
<1>2. ASSUME NEW c \in Clients, request[c] # Idle, NEW r, r = Idle \/ r.id = request[c].id,
             request' = [request EXCEPT ![c] = r]
      PROVE  Noticed'
  BY <1>0, <1>2, NoticedStep DEF RequestType
<1>3. ASSUME NEW c \in Clients, AddCron(c) \/ DeleteCron(c) PROVE Noticed'
  <2>1. request[c] \in Pending /\ request[c] # Idle
    BY <1>0, <1>3, HasRequest DEF AddCron, DeleteCron
  <2>2. PICK op : request' = [request EXCEPT ![c] = [request[c] EXCEPT !.op = op]]
    BY <1>3 DEF AddCron, DeleteCron, Proceed
  <2>3. [request[c] EXCEPT !.op = op].id = request[c].id
    BY <2>1 DEF Pending
  <2>4. QED
    BY <1>2, <2>1, <2>2, <2>3
<1>4. ASSUME NEW c \in Clients, ComputeNext(c) PROVE Noticed'
  <2>1. request[c] \in Pending /\ request[c] # Idle
    BY <1>0, <1>4, HasRequest DEF ComputeNext
  <2>2. \/ request' = [request EXCEPT ![c] = Idle]
        \/ request' = [request EXCEPT ![c] = [request[c] EXCEPT !.op = "insert", !.at = now]]
    BY <1>4 DEF ComputeNext, Reply
  <2>3. [request[c] EXCEPT !.op = "insert", !.at = now].id = request[c].id
    BY <2>1 DEF Pending
  <2>4. QED
    BY <1>2, <2>1, <2>2, <2>3
<1>5. ASSUME NEW c \in Clients, Add(c) \/ Remove(c) \/ ApplyCron(c) \/ NotLeader(c)
      PROVE  Noticed'
  <2>1. request[c] # Idle /\ request' = [request EXCEPT ![c] = Idle]
    BY <1>0, <1>5, HasRequest DEF Add, Remove, ApplyCron, NotLeader, Reply
  <2>2. QED
    BY <1>2, <2>1
<1>6. CASE Restart
  BY <1>6 DEF Restart, Noticed
<1>7. CASE Tick \/ Minute \/ UNCHANGED cronVars \/ \E d \in due : SubmitDue(d)
  <2>1. UNCHANGED request
    BY <1>7 DEF Tick, Minute, cronVars, SubmitDue
  <2>2. QED
    BY <1>0, <2>1, NoticedStep
<1>8. QED
  BY <1>1, <1>3, <1>4, <1>5, <1>6, <1>7 DEF Next, CreateCronJob, DeleteCronJob

\* The first run a request has computed stays ahead until it is installed.
LEMMA NextInsertAhead == CronInv /\ [Next]_cronVars => InsertAhead'
<1> SUFFICES ASSUME CronInv, [Next]_cronVars PROVE InsertAhead'
  OBVIOUS
<1>0. TickerInv /\ RequestInv /\ RequestType /\ Remembers
  BY RememberStep DEF CronInv, RequestInv
<1>1. ASSUME NEW c \in Clients, NEW r, r.op # "insert", request' = [request EXCEPT ![c] = r],
             UNCHANGED <<jobs, due, fired>>
      PROVE  InsertAhead'
  <2>1. \A d \in Clients : request'[d].op = "insert" => request'[d] = request[d]
    BY <1>0, <1>1 DEF RequestType
  <2>2. \A e \in Entries : \A t : Ahead(e, t) => Ahead(e, t)'
    BY <1>1 DEF Ahead, Before
  <2>3. QED
    BY <1>0, <1>1, <2>1, <2>2, InsertStep
<1>2. ASSUME NEW c \in Clients, NEW e \in Entries, NEW sch \in Schedules,
             CreateCronJob(c, e, sch) \/ DeleteCronJob(c, e)
      PROVE  InsertAhead'
  BY <1>1, <1>2 DEF CreateCronJob, DeleteCronJob, Begin
<1>3. ASSUME NEW c \in Clients, NEW e \in Entries, DeleteCronJob(c, e) PROVE InsertAhead'
  BY <1>1, <1>3 DEF DeleteCronJob, Begin
<1>4. ASSUME NEW c \in Clients, AddCron(c) \/ DeleteCron(c) PROVE InsertAhead'
  <2>1. request[c] \in Pending
    BY <1>0, <1>4, HasRequest DEF AddCron, DeleteCron
  <2>2. PICK op \in {"schedule", "remove"} :
            request' = [request EXCEPT ![c] = [request[c] EXCEPT !.op = op]]
    BY <1>4 DEF AddCron, DeleteCron, Proceed
  <2>3. [request[c] EXCEPT !.op = op].op # "insert"
    BY <2>1, <2>2 DEF Pending
  <2>4. UNCHANGED <<jobs, due, fired>>
    BY <1>4 DEF AddCron, DeleteCron
  <2>5. QED
    BY <1>1, <2>2, <2>3, <2>4
<1>5. ASSUME NEW c \in Clients, ApplyCron(c) \/ NotLeader(c) PROVE InsertAhead'
  BY <1>1, <1>5 DEF ApplyCron, NotLeader, Reply, Idle
<1>6. ASSUME NEW c \in Clients, ComputeNext(c) PROVE InsertAhead'
  <2>1. request[c] \in Pending /\ UNCHANGED <<jobs, due, fired>>
    BY <1>0, <1>6, HasRequest DEF ComputeNext
  <2>2. CASE request' = [request EXCEPT ![c] = Idle]
    BY <1>1, <2>1, <2>2 DEF Idle
  <2>3. CASE /\ nextRun(request[c].schedule, now) # NoTime
             /\ request' = [request EXCEPT ![c] =
                              [request[c] EXCEPT !.op = "insert", !.at = now]]
    <3> DEFINE sch == request[c].schedule
    <3> DEFINE e == request[c].id
    <3> DEFINE next == now + 1
    <3>1. sch \in Schedule \cup {NoSchedule} /\ now \in Nat /\ e \in Entries
      BY <1>0, <2>1, SchedulesType DEF Pending, TickerInv, CronType
    <3>2. Supported(sch) /\ next \in Nat /\ next > now /\ now' = now
      BY SMT, <1>6, <2>3, <3>1, NextRunLater DEF ComputeNext
    <3>3. request'[c].schedule = sch /\ request'[c].id = e /\ request'[c].at = now
      BY <1>0, <2>1, <2>3 DEF RequestType, Pending
    <3>4. First(c)' = next
      BY <3>3 DEF First
    <3> HIDE DEF sch, e, next
    <3>5. Ahead(e, next)
      <4>1. \A i \in 1 .. Len(fired[e]) : fired[e][i] \in Nat /\ fired[e][i] <= now
        BY SMT, <1>0, <3>1 DEF TickerInv, CronType, FiredOnceInOrder
      <4>2. \A d \in due : d.slot \in Nat /\ d.slot <= now
        BY <1>0 DEF TickerInv, CronType, TakenInOrder
      <4>3. QED
        BY SMT, <3>1, <3>2, <4>1, <4>2 DEF Ahead, Before
    <3>6. ASSUME NEW d \in Clients, d # c, request'[d].op = "insert"
          PROVE  /\ Supported(request'[d].schedule)
                 /\ Apart(request[d].id)' /\ jobs'[request'[d].id] = NoCron =>
                       Ahead(request[d].id, First(d))'
      <4>1. request'[d] = request[d]
        BY <1>0, <2>3, <3>6 DEF RequestType
      <4>2. request[d].id \in Entries
        BY <1>0, <3>6, <4>1, HasRequest DEF Pending
      <4>3. /\ Supported(request[d].schedule)
            /\ Apart(request[d].id) /\ jobs[request[d].id] = NoCron =>
                  Ahead(request[d].id, First(d))
        BY <1>0, <3>6, <4>1 DEF RequestInv, InsertAhead
      <4>4. (Apart(request[d].id))' => Apart(request[d].id)
        BY <1>0, <4>1, <4>2 DEF Remembers, Apart
      <4>5. Ahead(request[d].id, First(d)) => Ahead(request[d].id, First(d))'
        BY <2>1, <4>1 DEF Ahead, Before, First
      <4>6. QED
        BY <2>1, <4>1, <4>3, <4>4, <4>5
    <3>7. Supported(request'[c].schedule) /\ (Ahead(request[c].id, First(c)))'
      BY <2>1, <3>2, <3>3, <3>4, <3>5 DEF Ahead, Before, sch
    <3>8. QED
      BY <3>6, <3>7 DEF InsertAhead
  <2>4. QED
    BY <1>6, <2>2, <2>3 DEF ComputeNext, Reply
<1>7. ASSUME NEW c \in Clients, Add(c) PROVE InsertAhead'
  <2>1. request[c].id \in Entries
    BY <1>0, <1>7, HasRequest DEF Add, Pending
  <2>2. \A d \in Clients : request'[d].op = "insert" => request'[d] = request[d]
    BY <1>0, <1>7 DEF RequestType, Add, Reply, Idle
  <2>3. ASSUME NEW d \in Clients, request'[d].op = "insert", jobs'[request[d].id] = NoCron
        PROVE  jobs[request[d].id] = NoCron
    <3>1. request[d].id \in Entries
      BY <1>0, <2>2, <2>3, HasRequest DEF Pending
    <3>2. jobs \in [Entries -> CronJob \cup {NoCron}]
      BY <1>0 DEF TickerInv, CronType
    <3>3. CASE jobs[request[c].id] # NoCron
      BY <1>7, <2>3, <3>3 DEF Add
    <3>4. CASE jobs[request[c].id] = NoCron
      BY <1>7, <2>1, <2>3, <3>1, <3>2, <3>4 DEF Add
    <3>5. QED
      BY <3>3, <3>4
  <2>4. \A e \in Entries : \A t : Ahead(e, t) => Ahead(e, t)'
    BY <1>7 DEF Add, Ahead, Before
  <2>5. QED
    BY <1>0, <2>2, <2>3, <2>4, InsertStep
<1>8. ASSUME NEW c \in Clients, Remove(c) PROVE InsertAhead'
  <2>1. request[c] # Idle /\ request[c].id \in Entries
    BY <1>0, <1>8, HasRequest DEF Remove, Pending
  <2>2. \A d \in Clients : request'[d].op = "insert" => d # c /\ request'[d] = request[d]
    BY <1>0, <1>8 DEF RequestType, Remove, Reply, Idle
  <2>3. ASSUME NEW d \in Clients, request'[d].op = "insert", Apart(request[d].id)',
               jobs'[request[d].id] = NoCron
        PROVE  jobs[request[d].id] = NoCron
    <3>1. request[d] # Idle /\ request[d].id \in Entries
      BY <1>0, <2>2, <2>3, HasRequest DEF Pending
    <3>2. Apart(request[d].id)
      <4> DEFINE f == request[d].id
      <4>1. f' = f
        BY <2>2, <2>3
      <4>2. past'[f] # "overlapped"
        BY <2>3, <4>1 DEF Apart
      <4>3. QED
        BY <1>0, <3>1, <4>2 DEF Remembers, Apart
    <3>3. request[d].id # request[c].id
      BY <1>0, <2>1, <2>2, <2>3, <3>1, <3>2 DEF RequestInv, Noticed
    <3>4. QED
      BY <1>0, <1>8, <2>3, <3>1, <3>3 DEF Remove, TickerInv, CronType
  <2>4. \A e \in Entries : \A t : Ahead(e, t) => Ahead(e, t)'
    BY <1>8 DEF Remove, Ahead, Before
  <2>5. QED
    BY <1>0, <2>2, <2>3, <2>4, InsertStep
<1>9. CASE Tick
  <2>1. UNCHANGED <<request, fired, past>> /\ due = {}
    BY <1>9 DEF Tick
  <2>2. \A e \in Entries : jobs'[e] = NoCron => jobs[e] = NoCron
    <3>1. ASSUME NEW e \in Entries, jobs[e] # NoCron PROVE jobs'[e] # NoCron
      BY <1>0, <1>9, <3>1, MovedOn DEF Tick, Moved
    <3>2. QED
      BY <3>1
  <2>3. ASSUME NEW d \in Clients, request'[d].op = "insert", jobs'[request[d].id] = NoCron
        PROVE  jobs[request[d].id] = NoCron
    BY <1>0, <2>1, <2>2, <2>3, HasRequest DEF Pending
  <2>4. ASSUME NEW e \in Entries, NEW t, jobs[e] = NoCron, Ahead(e, t) PROVE Ahead(e, t)'
    <3>1. \A d \in due' : d.ID # e
      BY SMT, <1>9, <2>4 DEF Tick, DueNow
    <3>2. QED
      BY <2>1, <2>4, <3>1 DEF Ahead, Before
  <2>5. QED
    BY <1>0, <2>1, <2>3, <2>4, InsertStep
<1>10. ASSUME NEW d \in due, SubmitDue(d) PROVE InsertAhead'
  <2>1. UNCHANGED <<request, jobs, past>>
    BY <1>10 DEF SubmitDue
  <2>2. \A e \in Entries : \A t : Ahead(e, t) => Ahead(e, t)'
    BY <1>0, <1>10, SubmitAhead
  <2>3. QED
    BY <1>0, <2>1, <2>2, InsertStep
<1>11. CASE Minute \/ UNCHANGED cronVars
  <2>1. UNCHANGED <<request, jobs, due, fired, past>>
    BY <1>11 DEF Minute, cronVars
  <2>2. \A e \in Entries : \A t : Ahead(e, t) => Ahead(e, t)'
    BY <2>1 DEF Ahead, Before
  <2>3. QED
    BY <1>0, <2>1, <2>2, InsertStep
<1>12. CASE Restart
  BY <1>12 DEF Restart, InsertAhead, Idle
<1>13. QED
  BY <1>2, <1>3, <1>4, <1>5, <1>6, <1>7, <1>8, <1>9, <1>10, <1>11, <1>12 DEF Next

\* All of it is inductive.
LEMMA NextCronInv == CronInv /\ [Next]_cronVars => CronInv'
<1> SUFFICES ASSUME CronInv, [Next]_cronVars PROVE CronInv'
  OBVIOUS
<1>1. now \in Nat /\ RequestType
  BY DEF CronInv, TickerInv, CronType, RequestInv
<1>2. QED
  BY <1>1, RequestStep, RememberStep, NextTickerInv, NextNoticed, NextInsertAhead
  DEF CronInv, RequestInv

\* No entry is submitted early, and one on which no two requests overlapped is
\* submitted at most once for a slot and in the order of the slots: for any
\* interleaving of the handlers of /cron with the ticker, for any number of
\* restarts, and however late the ticker runs.
THEOREM CronOnceInOrder == Spec => []FiredOnceInOrder
<1>1. CronInv => FiredOnceInOrder
  BY DEF CronInv, TickerInv
<1>2. QED
  BY <1>1, InitCronInv, NextCronInv, PTL DEF Spec

\* The invariant holds in every state.
LEMMA CronSafe == Spec => []CronInv
BY InitCronInv, NextCronInv, PTL DEF Spec
---------------------------------------------------------------------------
(***************************************************************************)
(* The types, and the clock's bounds.                                      *)
(***************************************************************************)
NodeType ==
    /\ raft \in BOOLEAN
    /\ now \in FirstMinute .. LastMinute
    /\ stored \in [Entries -> Schedules \cup {NoSchedule}]

\* A request keeps its entry, and its schedule is one a client asked for.
LEMMA RequestFields ==
    ASSUME CronInv, NEW c \in Clients, request[c].op # "idle"
    PROVE  /\ request[c] \in Pending /\ request[c] # Idle
           /\ request[c].id \in Entries /\ request[c].schedule \in Schedules \cup {NoSchedule}
           /\ request[c].at \in Nat
BY HasRequest DEF CronInv, RequestInv, Pending

LEMMA NodeTypeStep ==
    ASSUME CronInv, NodeType, [Next]_cronVars
    PROVE  NodeType'
<1>1. ASSUME NEW c \in Clients, AddCron(c) \/ DeleteCron(c) \/ ApplyCron(c) PROVE NodeType'
  <2>1. /\ request[c].op # "idle" /\ UNCHANGED <<raft, now>>
        /\ PutCron(request[c].id, request[c].schedule)
           \/ PutCron(request[c].id, NoSchedule)
    BY <1>1 DEF AddCron, DeleteCron, ApplyCron
  <2>2. QED
    BY <2>1, RequestFields DEF NodeType, PutCron
<1>2. CASE Minute
  BY SMT, <1>2, MinutesType DEF Minute, NodeType
<1>3. ASSUME NEW c \in Clients, NEW e, NEW sch,
             CreateCronJob(c, e, sch) \/ DeleteCronJob(c, e)
      PROVE  NodeType'
  BY <1>3 DEF CreateCronJob, DeleteCronJob, Begin, NodeType
<1>4. ASSUME NEW c \in Clients, ComputeNext(c) \/ Add(c) \/ Remove(c) \/ NotLeader(c)
      PROVE  NodeType'
  BY <1>4 DEF ComputeNext, Add, Remove, NotLeader, NodeType
<1>5. CASE Tick \/ Restart \/ UNCHANGED cronVars \/ \E d \in due : SubmitDue(d)
  BY <1>5 DEF Tick, Restart, cronVars, SubmitDue, NodeType
<1>6. QED
  BY <1>1, <1>2, <1>3, <1>4, <1>5 DEF Next

\* The bucket, the map, the ticker's copies and the requests keep their shape, and
\* the clock its bounds.
THEOREM CronTypes == Spec => []TypeOK
<1>1. Init => NodeType
  BY SMT, MinutesType DEF Init, NodeType
<1>2. CronInv /\ NodeType => TypeOK
  BY DEF CronInv, TickerInv, CronType, RequestInv, RequestType, Pending, PastType, NodeType,
         TypeOK
<1>3. QED
  BY <1>1, <1>2, CronSafe, NodeTypeStep, PTL DEF Spec
---------------------------------------------------------------------------
(***************************************************************************)
(* No slot is skipped.                                                     *)
(***************************************************************************)

\* The slots of e that the ticker has taken.
Taken(e, t) ==
    (\E i \in 1 .. Len(fired[e]) : fired[e][i] = t) \/ (\E d \in due : d.ID = e /\ d.slot = t)

\* The slots of a schedule after the minute "since" and before the next run are
\* the ones taken, and the next run is a slot.
ExactSince(e, sch, next, since) ==
    \A t \in Nat : t > since => (IsSlot(sch, t) /\ t < next <=> Taken(e, t))

SlotsInv ==
    /\ \A c \in Clients : request[c].op = "insert" => request[c].at >= FirstMinute
    /\ \A e \in Entries : jobs[e] # NoCron =>
          /\ jobs[e].since >= FirstMinute
          /\ IsSlot(jobs[e].Schedule, jobs[e].NextRun)
          /\ Apart(e) => ExactSince(e, jobs[e].Schedule, jobs[e].NextRun, jobs[e].since)

\* Steps that leave the map and the ticker alone.
LEMMA SlotsKept ==
    ASSUME SlotsInv, Remembers, UNCHANGED <<jobs, due, fired>>,
           \A c \in Clients : request'[c].op = "insert" =>
               request'[c].at >= FirstMinute
    PROVE  SlotsInv'
<1>1. ASSUME NEW e \in Entries, jobs[e] # NoCron
      PROVE  /\ jobs[e].since >= FirstMinute
             /\ IsSlot(jobs[e].Schedule, jobs[e].NextRun)
             /\ Apart(e)' => ExactSince(e, jobs[e].Schedule, jobs[e].NextRun, jobs[e].since)
  BY <1>1 DEF SlotsInv, Remembers
<1>2. \A e, t : Taken(e, t)' <=> Taken(e, t)
  BY DEF Taken
<1>3. QED
  BY <1>1, <1>2 DEF SlotsInv, ExactSince

\* A step of one request that ends it or does not lead to the scheduler's lock.
LEMMA SlotsRequest ==
    ASSUME CronInv, SlotsInv, NEW c \in Clients, NEW r, r.op # "insert" \/ r.at >= FirstMinute,
           request' = [request EXCEPT ![c] = r]
    PROVE  \A d \in Clients : request'[d].op = "insert" => request'[d].at >= FirstMinute
BY DEF SlotsInv, CronInv, RequestInv, RequestType

\* A new entry has no slot to make up for: nothing was taken after the minute in
\* which its request read the clock.
LEMMA SlotsAdd ==
    ASSUME CronInv, SlotsInv, Remembers, NEW c \in Clients, Add(c)
    PROVE  SlotsInv'
<1> DEFINE r == request[c]
<1>1. /\ r.op = "insert" /\ request' = [request EXCEPT ![c] = Idle]
      /\ UNCHANGED <<due, fired>>
  BY DEF Add, Reply
<1>2. r.id \in Entries /\ r.schedule \in Schedule \cup {NoSchedule} /\ r.at \in Nat
  BY <1>1, RequestFields, SchedulesType
<1>3. \A d \in Clients : request'[d].op = "insert" => request'[d].at >= FirstMinute
  BY <1>1, SlotsRequest DEF Idle
<1>4. CASE jobs[r.id] # NoCron
  BY <1>1, <1>3, <1>4, SlotsKept DEF Add
<1>5. CASE jobs[r.id] = NoCron
  <2> DEFINE next == nextRun(r.schedule, r.at)
  <2> DEFINE new == [Schedule |-> r.schedule, NextRun |-> next, since |-> r.at]
  <2>1. /\ Supported(r.schedule) /\ r.at >= FirstMinute
        /\ Apart(r.id) => Ahead(r.id, r.at + 1)
    BY <1>1, <1>5 DEF CronInv, RequestInv, InsertAhead, First, SlotsInv
  <2>2. /\ IsSlot(r.schedule, next)
        /\ \A t \in Nat : r.at < t /\ t < next => ~IsSlot(r.schedule, t)
    BY <1>2, <2>1, NextRunFirst
  <2>3. jobs' = [jobs EXCEPT ![r.id] = new]
    BY <1>5 DEF Add
  <2>4. new.Schedule = r.schedule /\ new.NextRun = next /\ new.since = r.at
    OBVIOUS
  <2>5. /\ jobs'[r.id] = new /\ \A e \in Entries : e # r.id => jobs'[e] = jobs[e]
    BY <1>2, <2>3 DEF CronInv, TickerInv, CronType
  <2> HIDE DEF r, next, new
  <2>6. Apart(r.id) => \A t \in Nat : t > r.at => ~Taken(r.id, t)
    <3>1. /\ \A i \in 1 .. Len(fired[r.id]) : fired[r.id][i] \in Nat
          /\ \A d \in due : d.slot \in Nat
      BY SMT, <1>2 DEF CronInv, TickerInv, CronType
    <3>2. \A x \in Nat : x < r.at + 1 => ~(x > r.at)
      BY SMT, <1>2
    <3>3. QED
      BY <2>1, <3>1, <3>2 DEF Ahead, Before, Taken
  <2>7. Apart(r.id) => ExactSince(r.id, r.schedule, next, r.at)
    BY <1>2, <2>2, <2>6 DEF ExactSince
  <2>8. ASSUME NEW e \in Entries, jobs'[e] # NoCron
        PROVE  /\ jobs'[e].since >= FirstMinute
               /\ IsSlot(jobs'[e].Schedule, jobs'[e].NextRun)
               /\ Apart(e)' => ExactSince(e, jobs'[e].Schedule, jobs'[e].NextRun, jobs'[e].since)
    <3>1. Apart(e)' => Apart(e)
      BY DEF Remembers
    <3>2. CASE e = r.id
      BY <2>1, <2>2, <2>4, <2>5, <2>7, <3>1, <3>2
    <3>3. CASE e # r.id
      BY <2>5, <2>8, <3>1, <3>3 DEF SlotsInv
    <3>4. QED
      BY <3>2, <3>3
  <2>9. \A e, t : Taken(e, t)' <=> Taken(e, t)
    BY <1>1 DEF Taken
  <2>10. QED
    BY <1>3, <2>8, <2>9 DEF SlotsInv, ExactSince
<1>6. QED
  BY <1>4, <1>5

\* The tick takes the next run, and moves on to the first slot after it.
LEMMA SlotsTick ==
    ASSUME CronInv, SlotsInv, Tick
    PROVE  SlotsInv'
<1>0. TickerInv
  BY DEF CronInv
<1>1. /\ due' = {[ID |-> e, slot |-> jobs[e].NextRun] : e \in DueNow}
      /\ jobs' = [e \in Entries |-> IF e \in DueNow THEN Moved(e) ELSE jobs[e]]
      /\ due = {} /\ UNCHANGED <<request, fired, past>>
  BY DEF Tick, Moved
<1>2. ASSUME NEW e \in Entries, e \notin DueNow
      PROVE  jobs'[e] = jobs[e] /\ \A t : Taken(e, t)' <=> Taken(e, t)
  BY SMT, <1>1, <1>2 DEF Taken
<1>3. ASSUME NEW e \in DueNow
      PROVE  jobs'[e] = Moved(e) /\ \A t : Taken(e, t)' <=> Taken(e, t) \/ t = jobs[e].NextRun
  <2>1. jobs'[e] = Moved(e)
    BY <1>0, <1>1, MovedOn
  <2>2. ASSUME NEW t
        PROVE  (\E d \in due' : d.ID = e /\ d.slot = t) <=> t = jobs[e].NextRun
    <3> DEFINE x == [ID |-> e, slot |-> jobs[e].NextRun]
    <3>1. x \in due' /\ x.ID = e /\ x.slot = jobs[e].NextRun
      BY <1>1
    <3>2. \A d \in due' : d.ID = e => d.slot = jobs[e].NextRun
      BY SMT, <1>1
    <3> HIDE DEF x
    <3>3. QED
      BY <3>1, <3>2
  <2>3. QED
    BY <1>1, <2>1, <2>2 DEF Taken
<1>4. ASSUME NEW e \in Entries, jobs'[e] # NoCron
      PROVE  /\ jobs'[e].since >= FirstMinute
             /\ IsSlot(jobs'[e].Schedule, jobs'[e].NextRun)
             /\ Apart(e) => \A t \in Nat : t > jobs'[e].since =>
                  (IsSlot(jobs'[e].Schedule, t) /\ t < jobs'[e].NextRun <=> Taken(e, t)')
  <2>1. CASE e \notin DueNow
    BY <1>2, <1>4, <2>1 DEF SlotsInv, ExactSince
  <2>2. CASE e \in DueNow
    <3> DEFINE sch == jobs[e].Schedule
    <3> DEFINE old == jobs[e].NextRun
    <3> DEFINE next == Moved(e).NextRun
    <3>1. /\ jobs[e] # NoCron /\ jobs[e] \in CronJob /\ old \in Nat /\ next \in Nat /\ next > old
          /\ jobs'[e].Schedule = sch /\ jobs'[e].NextRun = next
          /\ jobs'[e].since = jobs[e].since /\ jobs[e].since \in Nat
      <4>1. jobs[e] # NoCron /\ jobs[e] \in CronJob /\ jobs'[e] = Moved(e)
        BY <1>0, <1>3, <2>2, MovedOn DEF DueNow
      <4>2. Moved(e).since = jobs[e].since /\ jobs[e].since \in Nat
        BY <4>1 DEF Moved, CronJob
      <4>3. QED
        BY <1>0, <2>2, <4>1, <4>2, MovedOn
    <3>2. next = nextRun(sch, old)
      BY <3>1 DEF Moved, CronJob
    <3>3. sch \in Schedule \cup {NoSchedule} /\ Supported(sch)
      BY <1>0, <3>1, SchedulesType DEF TickerInv, NextRunAhead, CronJob
    <3>4. IsSlot(sch, next) /\ \A t \in Nat : old < t /\ t < next => ~IsSlot(sch, t)
      BY <3>1, <3>2, <3>3, NextRunFirst
    <3>5. /\ jobs[e].since >= FirstMinute /\ IsSlot(sch, old)
          /\ Apart(e) => ExactSince(e, sch, old, jobs[e].since)
      BY <3>1 DEF SlotsInv
    <3>6. \A t : Taken(e, t)' <=> Taken(e, t) \/ t = old
      BY <1>3, <2>2
    <3> HIDE DEF sch, old, next
    <3>7. ASSUME Apart(e), NEW t \in Nat, t > jobs[e].since
          PROVE  IsSlot(sch, t) /\ t < next <=> Taken(e, t)'
      <4>1. IsSlot(sch, t) /\ t < old <=> Taken(e, t)
        BY <3>5, <3>7 DEF ExactSince
      <4>2. CASE t < old
        BY SMT, <3>1, <3>6, <4>1, <4>2
      <4>3. CASE t = old
        BY <3>1, <3>5, <3>6, <4>3
      <4>4. CASE t > old
        BY SMT, <3>1, <3>4, <3>6, <4>1, <4>4
      <4>5. QED
        BY SMT, <3>1, <4>2, <4>3, <4>4
    <3>8. QED
      BY <3>1, <3>4, <3>5, <3>7
  <2>3. QED
    BY <2>1, <2>2
<1>5. QED
  BY <1>1, <1>4 DEF SlotsInv, ExactSince, Apart

\* A submission moves a slot from the ticker's copies to the submitted ones.
LEMMA SlotsSubmit ==
    ASSUME CronInv, SlotsInv, NEW d \in due, SubmitDue(d)
    PROVE  SlotsInv'
<1>1. /\ fired' = [fired EXCEPT ![d.ID] = Append(fired[d.ID], d.slot)]
      /\ due' = due \ {d} /\ UNCHANGED <<jobs, request, past>>
  BY DEF SubmitDue
<1>2. /\ d.ID \in Entries /\ d.slot \in Nat /\ fired \in [Entries -> Seq(Nat)]
      /\ \A f \in due : f.ID = d.ID => f = d
  BY DEF CronInv, TickerInv, CronType, TakenInOrder
<1>3. ASSUME NEW e \in Entries, NEW t PROVE Taken(e, t)' <=> Taken(e, t)
  <2>1. CASE e # d.ID
    <3>1. fired'[e] = fired[e]
      BY <1>1, <1>2, <2>1
    <3>2. (\E f \in due' : f.ID = e /\ f.slot = t) <=> (\E f \in due : f.ID = e /\ f.slot = t)
      BY <1>1, <2>1
    <3>3. QED
      BY <3>1, <3>2 DEF Taken
  <2>2. CASE e = d.ID
    <3> DEFINE s == fired[e]
    <3>1. /\ fired'[e] = Append(s, d.slot) /\ s \in Seq(Nat) /\ Len(s) \in Nat
      BY SMT, <1>1, <1>2, <2>2
    <3>2. /\ Len(Append(s, d.slot)) = Len(s) + 1
          /\ \A i \in 1 .. Len(s) : Append(s, d.slot)[i] = s[i]
          /\ Append(s, d.slot)[Len(s) + 1] = d.slot
      BY SMT, <1>2, <3>1
    <3>3. /\ Len(s) + 1 \in 1 .. Len(s) + 1
          /\ \A i \in 1 .. Len(s) : i \in 1 .. Len(s) + 1
          /\ \A i \in 1 .. Len(s) + 1 : i \in 1 .. Len(s) \/ i = Len(s) + 1
      BY SMT, <3>1
    <3> HIDE DEF s
    <3>4. (\E i \in 1 .. Len(fired'[e]) : fired'[e][i] = t) <=>
             (\E i \in 1 .. Len(s) : s[i] = t) \/ t = d.slot
      BY <3>1, <3>2, <3>3
    <3>5. /\ ~\E f \in due' : f.ID = e /\ f.slot = t
          /\ (\E f \in due : f.ID = e /\ f.slot = t) <=> t = d.slot
      BY <1>1, <1>2, <2>2
    <3>6. QED
      BY <3>4, <3>5 DEF Taken, s
  <2>3. QED
    BY <2>1, <2>2
<1>4. ASSUME NEW e \in Entries, jobs[e] # NoCron, Apart(e)
      PROVE  \A t \in Nat : t > jobs[e].since =>
                (IsSlot(jobs[e].Schedule, t) /\ t < jobs[e].NextRun <=> Taken(e, t)')
  BY <1>3, <1>4 DEF SlotsInv, ExactSince
<1>5. QED
  BY <1>1, <1>4 DEF SlotsInv, ExactSince, Apart

\* A step that takes entries out of the map.
LEMMA SlotsDrop ==
    ASSUME SlotsInv, Remembers, fired' = fired,
           \A c \in Clients : request'[c].op = "insert" => request'[c].at >= FirstMinute,
           \/ due' = due /\ \A e \in Entries : jobs'[e] \in {jobs[e], NoCron}
           \/ \A e \in Entries : jobs'[e] = NoCron
    PROVE  SlotsInv'
<1>1. ASSUME NEW e \in Entries, jobs'[e] # NoCron
      PROVE  /\ jobs'[e].since >= FirstMinute
             /\ IsSlot(jobs'[e].Schedule, jobs'[e].NextRun)
             /\ Apart(e)' => ExactSince(e, jobs'[e].Schedule, jobs'[e].NextRun, jobs'[e].since)
             /\ \A t : Taken(e, t)' <=> Taken(e, t)
  <2>1. jobs'[e] = jobs[e] /\ due' = due
    BY <1>1
  <2>2. QED
    BY <1>1, <2>1 DEF SlotsInv, Remembers, Taken
<1>2. QED
  BY <1>1 DEF SlotsInv, ExactSince

\* Every step keeps the taken slots exact.
LEMMA SlotsStep ==
    ASSUME CronInv, NodeType, SlotsInv, [Next]_cronVars
    PROVE  SlotsInv'
<1>0. Remembers /\ jobs \in [Entries -> CronJob \cup {NoCron}]
  BY RememberStep DEF CronInv, TickerInv, CronType
<1>1. ASSUME NEW c \in Clients, NEW r, r.op # "insert" \/ r.at >= FirstMinute,
             request' = [request EXCEPT ![c] = r], UNCHANGED <<jobs, due, fired>>
      PROVE  SlotsInv'
  BY <1>0, <1>1, SlotsRequest, SlotsKept
<1>2. ASSUME NEW c \in Clients, NEW e, NEW sch,
             CreateCronJob(c, e, sch) \/ DeleteCronJob(c, e)
      PROVE  SlotsInv'
  BY <1>1, <1>2 DEF CreateCronJob, DeleteCronJob, Begin
<1>3. ASSUME NEW c \in Clients, AddCron(c) \/ DeleteCron(c) PROVE SlotsInv'
  <2>1. request[c] \in Pending /\ UNCHANGED <<jobs, due, fired>>
    BY <1>3, RequestFields DEF AddCron, DeleteCron
  <2>2. PICK op \in {"schedule", "remove"} :
            request' = [request EXCEPT ![c] = [request[c] EXCEPT !.op = op]]
    BY <1>3 DEF AddCron, DeleteCron, Proceed
  <2>3. [request[c] EXCEPT !.op = op].op # "insert"
    BY <2>1, <2>2 DEF Pending
  <2>4. QED
    BY <1>1, <2>1, <2>2, <2>3
<1>4. ASSUME NEW c \in Clients, ApplyCron(c) \/ NotLeader(c) PROVE SlotsInv'
  BY <1>1, <1>4 DEF ApplyCron, NotLeader, Reply, Idle
<1>5. ASSUME NEW c \in Clients, ComputeNext(c) PROVE SlotsInv'
  <2>1. request[c] \in Pending /\ UNCHANGED <<jobs, due, fired>>
    BY <1>5, RequestFields DEF ComputeNext
  <2>2. \/ request' = [request EXCEPT ![c] = Idle]
        \/ request' = [request EXCEPT ![c] = [request[c] EXCEPT !.op = "insert", !.at = now]]
    BY <1>5 DEF ComputeNext, Reply
  <2>3. [request[c] EXCEPT !.op = "insert", !.at = now].at >= FirstMinute
    BY SMT, <2>1, MinutesType DEF Pending, NodeType
  <2>4. Idle.op # "insert"
    BY DEF Idle
  <2>5. QED
    BY <1>1, <2>1, <2>2, <2>3, <2>4
<1>6. ASSUME NEW c \in Clients, Remove(c) PROVE SlotsInv'
  <2>1. /\ jobs' = [jobs EXCEPT ![request[c].id] = NoCron] /\ UNCHANGED <<due, fired>>
        /\ request' = [request EXCEPT ![c] = Idle]
    BY <1>6 DEF Remove, Reply
  <2>2. \A e \in Entries : jobs'[e] \in {jobs[e], NoCron}
    BY <1>0, <2>1
  <2>3. \A d \in Clients : request'[d].op = "insert" => request'[d].at >= FirstMinute
    BY <2>1, SlotsRequest DEF Idle
  <2>4. QED
    BY <1>0, <2>1, <2>2, <2>3, SlotsDrop
<1>7. CASE Restart
  <2>1. /\ \A e \in Entries : jobs'[e] = NoCron
        /\ \A c \in Clients : request'[c].op # "insert"
        /\ fired' = fired
    BY <1>7 DEF Restart, Idle
  <2>2. QED
    BY <1>0, <2>1, SlotsDrop
<1>8. CASE Minute \/ UNCHANGED cronVars
  <2>1. UNCHANGED <<jobs, due, fired, request>>
    BY <1>8 DEF Minute, cronVars
  <2>2. QED
    BY <1>0, <2>1, SlotsKept DEF SlotsInv
<1>9. QED
  BY <1>0, <1>2, <1>3, <1>4, <1>5, <1>6, <1>7, <1>8, SlotsAdd, SlotsTick, SlotsSubmit DEF Next

\* The set form of the invariant, within the observed interval of time.
LEMMA SlotsExact == CronInv /\ NodeType /\ SlotsInv => NoSlotSkipped
<1> SUFFICES ASSUME CronInv, NodeType, SlotsInv, NEW e \in Entries, jobs[e] # NoCron, Apart(e)
             PROVE  {t \in Slots(jobs[e].Schedule) : jobs[e].since < t /\ t < jobs[e].NextRun}
                      = {t \in Range(fired[e]) \cup {d.slot : d \in {x \in due : x.ID = e}} :
                            t > jobs[e].since}
  BY DEF NoSlotSkipped, Apart
<1> DEFINE sch == jobs[e].Schedule
<1> DEFINE since == jobs[e].since
<1> DEFINE next == jobs[e].NextRun
<1> DEFINE taken == Range(fired[e]) \cup {d.slot : d \in {x \in due : x.ID = e}}
<1>1. since \in Nat /\ next \in Nat /\ now \in Nat /\ fired[e] \in Seq(Nat)
  BY DEF CronInv, TickerInv, CronType, CronJob
<1>2. since >= FirstMinute /\ ExactSince(e, sch, next, since)
  BY DEF SlotsInv
<1>3. \A t : t \in taken <=> Taken(e, t)
  <2>1. Range(fired[e]) = {fired[e][i] : i \in 1 .. Len(fired[e])}
    BY SMT, <1>1 DEF Range
  <2>2. QED
    BY <2>1 DEF Taken
<1>4. \A t : Taken(e, t) => t \in Nat /\ t <= now
  <2>1. \A i \in 1 .. Len(fired[e]) : fired[e][i] \in Nat /\ fired[e][i] <= now
    BY SMTT(60), <1>1 DEF CronInv, TickerInv, FiredOnceInOrder
  <2>2. \A d \in due : d.slot \in Nat /\ d.slot <= now
    BY DEF CronInv, TickerInv, CronType, TakenInOrder
  <2>3. QED
    BY <2>1, <2>2 DEF Taken
<1>5. now <= LastMinute /\ FirstMinute \in Nat /\ LastMinute \in Nat
  BY SMT, MinutesType DEF NodeType
<1>6. \A t : t \in Slots(sch) <=> t \in FirstMinute .. LastMinute + 1 /\ IsSlot(sch, t)
  BY DEF Slots, IsSlot
<1> HIDE DEF sch, since, next, taken
<1>7. ASSUME NEW t
      PROVE  t \in Slots(sch) /\ since < t /\ t < next <=> t \in taken /\ t > since
  <2>1. ASSUME t \in Slots(sch), since < t, t < next PROVE t \in taken /\ t > since
    <3>1. t \in Nat
      BY SMT, <1>5, <1>6, <2>1
    <3>2. QED
      BY <1>2, <1>3, <1>6, <2>1, <3>1 DEF ExactSince
  <2>2. ASSUME t \in taken, t > since PROVE t \in Slots(sch) /\ since < t /\ t < next
    <3>1. t \in Nat /\ t <= now
      BY <1>3, <1>4, <2>2
    <3>2. IsSlot(sch, t) /\ t < next
      BY <1>2, <1>3, <2>2, <3>1 DEF ExactSince
    <3>3. t \in FirstMinute .. LastMinute + 1
      BY SMT, <1>1, <1>2, <1>5, <2>2, <3>1
    <3>4. QED
      BY <1>6, <2>2, <3>2, <3>3
  <2>3. QED
    BY <2>1, <2>2
<1>8. {t \in Slots(sch) : since < t /\ t < next} = {t \in taken : t > since}
  BY <1>7
<1>9. QED
  BY <1>8 DEF sch, since, next, taken

\* Every slot of an entry is submitted or held by the ticker before the entry moves
\* past it, and nothing else is: for every supported interval, also one that does
\* not divide the hour, and however late the ticker runs.
THEOREM EverySlotTaken == Spec => []NoSlotSkipped
<1>1. Init => NodeType
  BY SMT, MinutesType DEF Init, NodeType
<1>2. Init => SlotsInv
  <2> SUFFICES ASSUME Init PROVE SlotsInv
    OBVIOUS
  <2>1. /\ \A c \in Clients : request[c].op # "insert"
        /\ \A e \in Entries : jobs[e] = NoCron
    BY DEF Init, Idle
  <2>2. QED
    BY <2>1 DEF SlotsInv
<1>3. QED
  BY <1>1, <1>2, CronSafe, NodeTypeStep, SlotsStep, SlotsExact, PTL DEF Spec
---------------------------------------------------------------------------
(***************************************************************************)
(* GET /cron lists what fires.                                             *)
(***************************************************************************)

\* Client c has a request on entry e.
On(c, e) == request[c] # Idle /\ request[c].id = e

\* How the bucket and the map of an entry stand to each other: a request leads the
\* bucket to where it will lead the map.
InStep(e) == stored[e] = jobs[e].Schedule

ListEntry(e) ==
    /\ (\A c \in Clients : ~On(c, e)) => InStep(e)
    /\ \A c \in Clients : On(c, e) =>
          /\ request[c].op \in {"store", "delete"} => InStep(e)
          /\ request[c].op \in {"schedule", "insert"} => stored[e] = request[c].schedule
          /\ request[c].op = "remove" => stored[e] = NoSchedule

ListInv == ~raft => \A e \in Entries : past[e] = "clean" => ListEntry(e)

\* An entry on which nothing happens.
LEMMA EntryKept ==
    ASSUME NEW e, ListEntry(e), stored'[e] = stored[e],
           jobs'[e].Schedule = jobs[e].Schedule,
           \A c \in Clients : \/ request'[c] = request[c]
                              \/ ~On(c, e) /\ ~On(c, e)'
    PROVE  ListEntry(e)'
BY DEF ListEntry, On, InStep

\* A clean entry was clean before, and has one request at most.
LEMMA CleanStep ==
    ASSUME CronInv, [Next]_cronVars, NEW e \in Entries, past'[e] = "clean"
    PROVE  /\ past[e] = "clean"
           /\ \A c, d \in Clients : On(c, e) /\ On(d, e) => c = d
<1>0. PastType
  BY DEF CronInv, RequestInv
<1>1. past[e] = "clean"
  <2>1. ASSUME NEW c \in Clients, NEW op, NEW f \in Entries, NEW sch, Begin(c, op, f, sch)
        PROVE  past[e] = "clean"
    BY <1>0, <2>1 DEF Begin, PastType
  <2>2. ASSUME NEW c \in Clients, ComputeNext(c) \/ Add(c) PROVE past[e] = "clean"
    BY <1>0, <2>2 DEF ComputeNext, Add, Touched, PastType
  <2>3. ASSUME NEW c \in Clients,
               AddCron(c) \/ DeleteCron(c) \/ Remove(c) \/ ApplyCron(c) \/ NotLeader(c)
        PROVE  past[e] = "clean"
    BY <2>3 DEF AddCron, DeleteCron, Remove, ApplyCron, NotLeader
  <2>4. CASE Restart
    BY <2>4 DEF Restart
  <2>5. CASE Tick \/ Minute \/ UNCHANGED cronVars \/ \E d \in due : SubmitDue(d)
    BY <2>5 DEF Tick, Minute, cronVars, SubmitDue
  <2>6. QED
    BY <2>1, <2>2, <2>3, <2>4, <2>5 DEF Next, CreateCronJob, DeleteCronJob
<1>2. QED
  BY <1>1 DEF CronInv, RequestInv, Noticed, On, Apart

\* A request does nothing to other entries.
LEMMA OtherEntries ==
    ASSUME CronInv, ListInv, ~raft, [Next]_cronVars, NEW c \in Clients, NEW f,
           \A d \in Clients \ {c} : request'[d] = request[d],
           request[c] = Idle \/ request[c].id = f, request'[c] = Idle \/ request'[c].id = f,
           NEW e \in Entries, e # f, past'[e] = "clean",
           stored'[e] = stored[e], jobs'[e] = jobs[e]
    PROVE  ListEntry(e)'
<1>1. ListEntry(e)
  BY CleanStep DEF ListInv
<1>2. ~On(c, e) /\ ~On(c, e)'
  BY DEF On
<1>3. QED
  BY <1>1, <1>2, EntryKept

\* A new request finds bucket and map in step.
LEMMA ListBegin ==
    ASSUME CronInv, ListInv, ~raft, [Next]_cronVars, NEW c \in Clients,
           NEW op \in {"store", "delete"}, NEW f \in Entries, NEW sch, Begin(c, op, f, sch),
           NEW e \in Entries, past'[e] = "clean"
    PROVE  ListEntry(e)'
<1> DEFINE r == [op |-> op, id |-> f, schedule |-> sch, at |-> NoTime]
<1>1. request[c] = Idle /\ request' = [request EXCEPT ![c] = r] /\ UNCHANGED <<stored, jobs>>
  BY DEF Begin
<1>2. request'[c] = r /\ \A d \in Clients \ {c} : request'[d] = request[d]
  BY <1>1 DEF CronInv, RequestInv, RequestType
<1>3. r.op = op /\ r.id = f
  OBVIOUS
<1> HIDE DEF r
<1>4. CASE e # f
  BY <1>1, <1>2, <1>3, <1>4, OtherEntries
<1>5. CASE e = f
  <2>1. \A d \in Clients : ~On(d, e)
    <3>1. ASSUME NEW d \in Clients, On(d, e) PROVE FALSE
      <4>1. Busy(c, f)
        BY <1>1, <1>5, <3>1 DEF On, Busy
      <4>2. past'[f] = "overlapped"
        BY <4>1 DEF Begin, CronInv, RequestInv, PastType
      <4>3. QED
        BY <1>5, <4>2
    <3>2. QED
      BY <3>1
  <2>2. InStep(e) /\ InStep(e)'
    <3>1. InStep(e)
      BY <2>1, CleanStep DEF ListInv, ListEntry
    <3>2. QED
      BY <1>1, <3>1 DEF InStep
  <2>3. \A d \in Clients : On(d, e)' => request'[d].op \in {"store", "delete"}
    BY <1>2, <1>3, <2>1 DEF On
  <2>4. QED
    BY <2>2, <2>3 DEF ListEntry
<1>6. QED
  BY <1>4, <1>5

\* What a step of the only request on its entry has to show.
LEMMA ListRequest ==
    ASSUME CronInv, ListInv, ~raft, [Next]_cronVars, NEW c \in Clients,
           request[c].op # "idle", NEW f \in Entries, request[c].id = f,
           NEW r, r = Idle \/ r.id = f, request' = [request EXCEPT ![c] = r],
           \A e \in Entries \ {f} : stored'[e] = stored[e] /\ jobs'[e] = jobs[e],
           past'[f] = "clean" /\ ListEntry(f) =>
              \/ r = Idle /\ InStep(f)'
              \/ r.op \in {"schedule", "insert"} /\ stored'[f] = r.schedule
              \/ r.op = "remove" /\ stored'[f] = NoSchedule,
           NEW e \in Entries, past'[e] = "clean"
    PROVE  ListEntry(e)'
<1>1. request'[c] = r /\ \A d \in Clients \ {c} : request'[d] = request[d]
  BY DEF CronInv, RequestInv, RequestType
<1>2. CASE e # f
  BY ZenonT(60), <1>1, <1>2, OtherEntries
<1>3. CASE e = f
  <2>1. ListEntry(f) /\ \A d \in Clients \ {c} : ~On(d, f)
    <3>1. On(c, f)
      BY RequestFields DEF On
    <3>2. QED
      BY <1>3, <3>1, CleanStep DEF ListInv
  <2>2. \A d \in Clients \ {c} : ~On(d, f)'
    BY <1>1, <2>1 DEF On
  <2>3. \/ r = Idle /\ InStep(f)'
        \/ r.op \in {"schedule", "insert"} /\ stored'[f] = r.schedule
        \/ r.op = "remove" /\ stored'[f] = NoSchedule
    BY <1>3, <2>1
  <2>4. r # Idle => On(c, f)'
    BY <1>1 DEF On
  <2>5. Idle.op = "idle"
    BY DEF Idle
  <2>6. CASE r = Idle
    <3>1. InStep(f)' /\ ~On(c, f)'
      BY <1>1, <2>3, <2>5, <2>6 DEF On
    <3>2. QED
      BY <1>3, <2>2, <3>1 DEF ListEntry
  <2>7. CASE r # Idle
    BY <1>1, <1>3, <2>2, <2>3, <2>4, <2>7 DEF ListEntry
  <2>8. QED
    BY <2>6, <2>7
<1>4. QED
  BY <1>2, <1>3

\* Every step leads bucket and map back into step.
LEMMA ListStep ==
    ASSUME CronInv, NodeType, ListInv, [Next]_cronVars
    PROVE  ListInv'
<1>0. raft' = raft
  BY DEF Next, CreateCronJob, DeleteCronJob, Begin, AddCron, ComputeNext, Add, DeleteCron,
         Remove, ApplyCron, NotLeader, Tick, SubmitDue, Minute, Restart, cronVars
<1> SUFFICES ASSUME ~raft, NEW e \in Entries, past'[e] = "clean"
             PROVE  ListEntry(e)'
  BY <1>0 DEF ListInv
<1>1. ASSUME NEW c \in Clients, NEW f \in Entries, NEW sch \in Schedules,
             CreateCronJob(c, f, sch)
      PROVE  ListEntry(e)'
  BY <1>1, ListBegin DEF CreateCronJob
<1>2. ASSUME NEW c \in Clients, NEW f \in Entries, DeleteCronJob(c, f) PROVE ListEntry(e)'
  BY <1>2, ListBegin DEF DeleteCronJob
<1>3. ASSUME NEW c \in Clients, request[c].op # "idle"
      PROVE  /\ request[c].id \in Entries /\ request[c] \in Pending
             /\ ListEntry(request[c].id) =>
                  /\ request[c].op \in {"store", "delete"} => InStep(request[c].id)
                  /\ request[c].op \in {"schedule", "insert"} =>
                        stored[request[c].id] = request[c].schedule
                  /\ request[c].op = "remove" => stored[request[c].id] = NoSchedule
  BY <1>3, RequestFields DEF ListEntry, On
<1>4. ASSUME NEW c \in Clients, AddCron(c) PROVE ListEntry(e)'
  <2>1. PICK f \in Entries : f = request[c].id
    BY <1>3, <1>4 DEF AddCron
  <2>2. PICK r : r = [request[c] EXCEPT !.op = "schedule"]
    OBVIOUS
  <2>3. /\ request[c].op = "store" /\ request' = [request EXCEPT ![c] = r]
        /\ stored' = [stored EXCEPT ![f] = request[c].schedule] /\ jobs' = jobs
    BY <1>4, <2>1, <2>2 DEF AddCron, Proceed, PutCron
  <2>4. r.id = f /\ r.op = "schedule" /\ r.schedule = request[c].schedule
    BY <1>3, <2>1, <2>2, <2>3 DEF Pending
  <2>5. stored'[f] = r.schedule /\ \A x \in Entries \ {f} : stored'[x] = stored[x]
    BY <2>3, <2>4 DEF NodeType
  <2>6. QED
    BY ZenonT(60), <2>1, <2>3, <2>4, <2>5, ListRequest
<1>5. ASSUME NEW c \in Clients, DeleteCron(c) PROVE ListEntry(e)'
  <2>1. PICK f \in Entries : f = request[c].id
    BY <1>3, <1>5 DEF DeleteCron
  <2>2. PICK r : r = [request[c] EXCEPT !.op = "remove"]
    OBVIOUS
  <2>3. /\ request[c].op = "delete" /\ request' = [request EXCEPT ![c] = r]
        /\ stored' = [stored EXCEPT ![f] = NoSchedule] /\ jobs' = jobs
    BY <1>5, <2>1, <2>2 DEF DeleteCron, Proceed, PutCron
  <2>4. r.id = f /\ r.op = "remove"
    BY <1>3, <2>1, <2>2, <2>3 DEF Pending
  <2>5. stored'[f] = NoSchedule /\ \A x \in Entries \ {f} : stored'[x] = stored[x]
    BY <2>3 DEF NodeType
  <2>6. QED
    BY ZenonT(60), <2>1, <2>3, <2>4, <2>5, ListRequest
<1>6. ASSUME NEW c \in Clients, ComputeNext(c) PROVE ListEntry(e)'
  <2>1. PICK f \in Entries : f = request[c].id
    BY <1>3, <1>6 DEF ComputeNext
  <2>2. request[c].op = "schedule" /\ stored' = stored /\ jobs' = jobs
    BY <1>6 DEF ComputeNext
  <2>3. CASE request' = [request EXCEPT ![c] = Idle] /\ past' = Touched(f)
    <3>1. past'[f] # "clean"
      BY <2>1, <2>3 DEF Touched, CronInv, RequestInv, PastType
    <3>2. QED
      BY <2>1, <2>2, <2>3, <3>1, ListRequest
  <2>4. CASE request' = [request EXCEPT ![c] =
                           [request[c] EXCEPT !.op = "insert", !.at = now]]
    <3>1. PICK r : r = [request[c] EXCEPT !.op = "insert", !.at = now]
      OBVIOUS
    <3>2. r.id = f /\ r.op = "insert" /\ r.schedule = request[c].schedule
      BY <1>3, <2>1, <2>2, <3>1 DEF Pending
    <3>3. ListEntry(f) => stored'[f] = r.schedule
      BY <1>3, <2>1, <2>2, <3>2
    <3>4. QED
      BY <2>1, <2>2, <2>4, <3>1, <3>2, <3>3, ListRequest
  <2>5. QED
    BY <1>6, <2>1, <2>3, <2>4 DEF ComputeNext, Reply
<1>7. ASSUME NEW c \in Clients, Add(c) PROVE ListEntry(e)'
  <2>1. PICK f \in Entries : f = request[c].id
    BY ZenonT(60), <1>3, <1>7 DEF Add
  <2>2. /\ request[c].op = "insert" /\ stored' = stored
        /\ request' = [request EXCEPT ![c] = Idle]
    BY ZenonT(60), <1>7 DEF Add, Reply
  <2>3. CASE jobs[f] # NoCron
    <3>1. past' = Touched(f) /\ jobs' = jobs
      BY <1>7, <2>1, <2>3 DEF Add
    <3>2. past'[f] # "clean"
      BY <2>1, <3>1 DEF Touched, CronInv, RequestInv, PastType
    <3>3. QED
      BY <2>1, <2>2, <3>1, <3>2, ListRequest
  <2>4. CASE jobs[f] = NoCron
    <3>1. PICK j : /\ j.Schedule = request[c].schedule
                   /\ jobs' = [jobs EXCEPT ![f] = j]
      BY <1>7, <2>1, <2>4 DEF Add
    <3>2. jobs'[f] = j /\ \A x \in Entries \ {f} : jobs'[x] = jobs[x]
      BY <3>1 DEF CronInv, TickerInv, CronType
    <3>3. ListEntry(f) => InStep(f)'
      BY <1>3, <2>1, <2>2, <3>1, <3>2 DEF InStep
    <3>4. QED
      BY <2>1, <2>2, <3>2, <3>3, ListRequest
  <2>5. QED
    BY <2>3, <2>4
<1>8. ASSUME NEW c \in Clients, Remove(c) PROVE ListEntry(e)'
  <2>1. PICK f \in Entries : f = request[c].id
    BY <1>3, <1>8 DEF Remove
  <2>2. /\ request[c].op = "remove" /\ stored' = stored
        /\ request' = [request EXCEPT ![c] = Idle] /\ jobs' = [jobs EXCEPT ![f] = NoCron]
    BY <1>8, <2>1 DEF Remove, Reply
  <2>3. jobs'[f] = NoCron /\ \A x \in Entries \ {f} : jobs'[x] = jobs[x]
    BY <2>2 DEF CronInv, TickerInv, CronType
  <2>4. ListEntry(f) => InStep(f)'
    BY SMT, <1>3, <2>1, <2>2, <2>3 DEF InStep, NoCron
  <2>5. QED
    BY <2>1, <2>2, <2>3, <2>4, ListRequest
<1>9. CASE Tick \/ Minute \/ UNCHANGED cronVars \/ \E d \in due : SubmitDue(d)
  <2>1. UNCHANGED <<request, stored>>
    BY <1>9 DEF Tick, Minute, cronVars, SubmitDue
  <2>2. jobs'[e].Schedule = jobs[e].Schedule
    <3>1. CASE Tick
      <4>1. jobs'[e] = IF e \in DueNow THEN Moved(e) ELSE jobs[e]
        BY <3>1 DEF Tick, Moved
      <4>2. QED
        BY SMT, <4>1, MovedOn DEF CronInv
    <3>2. CASE ~Tick
      BY <1>9, <3>2 DEF Minute, cronVars, SubmitDue
    <3>3. QED
      BY <3>1, <3>2
  <2>3. ListEntry(e)
    BY CleanStep DEF ListInv
  <2>4. QED
    BY <2>1, <2>2, <2>3, EntryKept
<1>10. CASE Restart
  BY <1>10 DEF Restart
<1>11. QED
  BY <1>1, <1>2, <1>4, <1>5, <1>6, <1>7, <1>8, <1>9, <1>10 DEF Next, ApplyCron, NotLeader

\* GET /cron lists the entries that fire, with the schedule they fire by, as long
\* as no request was refused, overlapped another or was cut off by a restart.
THEOREM ListIsRight == Spec => []ListedIsScheduled
<1>1. Init => ListInv
  BY SMT DEF Init, ListInv, ListEntry, InStep, On, NoCron
<1>2. ListInv => ListedIsScheduled
  <2> SUFFICES ASSUME ListInv, NEW e \in Entries, ~raft, past[e] = "clean",
                      \A c \in Clients : request[c].id # e
               PROVE  ListCronJobs[e] = jobs[e].Schedule
    BY DEF ListedIsScheduled
  <2>1. stored[e] = jobs[e].Schedule
    BY DEF ListInv, ListEntry, On, InStep
  <2>2. QED
    BY <2>1 DEF ListCronJobs
<1>3. Init => NodeType
  BY SMT, MinutesType DEF Init, NodeType
<1>4. QED
  BY <1>1, <1>2, <1>3, CronSafe, NodeTypeStep, ListStep, PTL DEF Spec
===========================================================================
