# Quorum in TLA+

A model of Quorum, the distributed job scheduler of this repository: TLA+
modules translated from the Go source, TLC configurations that check them on
small instances, and TLAPS proofs of the main invariants for all instances.

## The system

A **control node** (`cmd/server`) stores jobs in BoltDB, keeps the IDs of
pending jobs in a priority queue and those of scheduled jobs in a delay queue,
and runs four loops over them:

| loop (`internal/scheduler`) | takes | does |
|---|---|---|
| `dispatchLoop` | an ID of the priority queue | picks an available worker, leases the job to it, calls `SubmitJob` over gRPC; on failure enqueues the job again |
| `resultLoop` | a result | releases the lease; completes the job, schedules a retry, or fails it into the dead-letter queue |
| `delayLoop` | the root of the delay queue | promotes a job that is due to pending |
| `recoveryLoop` | a dead worker | releases its leases, enqueues their pending jobs |

**Workers** (`cmd/worker`) register, send heartbeats, execute through a circuit
breaker and a rate limiter, and report results. The **engine** accepts
submissions (with idempotency keys), cancellations and recurring jobs, which a
**cron scheduler** submits minute by minute; on a node with Raft it proposes
them through a one-node hashicorp/raft cluster whose state machine
writes BoltDB. No code adds a second voter, so one node is all there is to
model.

Statuses are `Pending`, `Scheduled`, `Completed`, `Failed`, `Cancelled`. There
is no running status: being executed is the lease, which is in memory.

## Modules

| module | models | state | actions |
|---|---|---|---|
| `Job` | `internal/job`, `internal/retry`, `Store.Update` | - | operators: `IsValidTransition`, `ShouldRetry`, `Update` |
| `JobLifecycle` | what a client may see of a job: abstract | status and retry count of a job, dead-letter list, last snapshot | submit, promote, retry, complete, give up, cancel, bury; snapshot and restore of a Raft node |
| `JobScheduler` | scheduler, leases, worker registry, broker, RPCs, worker processes, engine operations, both dead-letter lists, snapshot and restart with the FSM's restore | store, snapshot, queues, leases, three channels, registry, executions, a program counter and local copy per loop | one per access to shared state |
| `Heap` | `internal/queue/heap.go` over `container/heap` | - | operators `HeapPush`, `HeapPop`, over a comparison that reads current keys; the two loops as functions from one state of the loop to the next |
| `JobQueue` | the wake-up protocol of `internal/queue` and its consumer | heap size, token of `notify`, gauge, position in `Enqueue` | push, count, notify, receive, dequeue |
| `Queues` | priority and delay queue with their heaps, `dispatchLoop`, `delayLoop`, the clock, over `JobQueue` | both heaps, `NextRunAt` of the jobs, timer and token of the delay queue | the steps of `Enqueue`, of the two loops, of submission, retry and recovery |
| `CircuitBreaker` | `internal/executor/breaker.go` | the fields, and who is inside the wrapped call | the two critical sections of `Execute` |
| `WorkerNode` | a worker process: `ExecutionServer`, runner, breaker, token bucket, executor, result forwarder, over `CircuitBreaker` | the breaker, tokens, where each job is, the results channel, the worker's places in `Available` | accept, enter the breaker, acquire, return, send, forward; failed RPCs |
| `JobStore` | the interface `Store`, as a map searched by scanning | jobs, last answer, which IDs were replaced | one per method |
| `IndexedStore` | `BoltStore` and `MemoryStore`, with status and key index | jobs, the two indexes, last answer, which IDs were replaced | one per method |
| `Submission` | the handlers of `/jobs` and `/cancel`, `SubmitJobIdempotent`, the ID counter, Raft proposal, FSM apply, snapshot and restore, over `IndexedStore` | the store, the mutex, per client position and request, log, snapshot | the steps of a request; crash and restart |
| `Cron` | `internal/cron`, the cron operations of handlers, engine, FSM and store | the bucket, the scheduler's map, the copies being submitted, requests in progress | the steps of a request, tick, submission, restart |

`MC*` modules add symmetry sets and values of constants for TLC; `WorkerNode`
needs none. `*Proofs` modules hold the theorems; those about `CircuitBreaker` are in
`WorkerNodeProofs`, those about `JobQueue` in `QueuesProofs`, those about
`IndexedStore` in `SubmissionStoreProofs`, and the types, topics and places of
workers in `JobScheduler` in `JobSchedulerPoolProofs`.

`IndexedStore` lets each `Add` be that of either store (the two differ in nothing
else), so what holds of it holds of both. Of an ID that is stored, `MemoryStore`
refuses an `Add`, and `BoltStore` writes over the job and leaves its old index
entries behind. `store.go` promises neither ("Add persists a new job"), so
`JobStore` allows both; a history variable, `replaced`, marks the IDs that were
written over, for which alone an answer may hold too much. The one caller that
writes over jobs is `FSM.Restore`. Of the callers the model of the store assumes
that they add no job under a key that leads to another (`FreeFor`), and
`StoreContractKept` proves it of the engine.

Inventory, package by package (`PROJECT.json` has the files and the reasons):

| part | in the model |
|---|---|
| `job`, `retry`, `scheduler`, `workermanager`, `broker`, `rpc`, `dlq` | `Job`, `JobLifecycle`, `JobScheduler` |
| `queue` | `Heap`, `JobQueue`, `Queues`; in `JobScheduler` as bags of entries |
| `engine` | `JobScheduler`, `Submission`, `Cron`; not loss of leadership |
| `consensus` | `Submission`, `Cron`, `JobScheduler` (snapshot and restore): one node |
| `store` | `JobStore`, `IndexedStore`; cron bucket in `Cron`, dead-letter bucket in `JobScheduler` |
| `executor`, `runner`, `cmd/worker` | `CircuitBreaker`, `WorkerNode`; in `JobScheduler` an execution is one step |
| `cron` | `Cron` |
| `handlers` | those that change state: `Submission` (jobs, cancel), `Cron`, `JobScheduler` (evicting a node) |
| `worker`, `events`, `storage` | not modelled |
| `httpapi`, `middleware`, `auth`, `config`, `metrics`, `tracing`, `benchmark`, `cmd/server` | not modelled |

How they fit together:

* `JobScheduler` implements `JobLifecycle` (`ImplementsLifecycle`, with
  `DeadJobs` for the list): whatever the loops do with queues, leases and stale
  copies, a client sees a job move only as the lifecycle says. On a Raft node the
  lifecycle has a step back, to the last snapshot.
* `IndexedStore` implements `JobStore`, the indexes being dropped, and
  `Submission` runs on it.
* `Queues` and `WorkerNode` extend `JobQueue` and `CircuitBreaker` by what
  surrounds them, and take their steps from them, so what is proved of the part
  holds in the whole.
* `JobScheduler` uses the store by the semantics of `Job!Update`, which is what
  `IndexedStore` provides one call at a time; the queues as bags of IDs, which
  `Queues` justifies (an entry gets out, one time each); and a worker as a step
  from acceptance to report, which `WorkerNode` justifies (`EveryJobAnswered`).

### What is abstracted

* Time. In `JobScheduler` a job may be due and a heartbeat late at any moment,
  and so may a breaker's timeout be over; backoff lengths are left out.
  `Queues` has a clock of instants and `Cron` one of minutes.
* Heap order, in `JobScheduler`: `PriorityQueue.Dequeue` may return any entry.
  The delay queue keeps its root, because `delayLoop` peeks and dequeues in two
  steps. `Queues` has the heaps and leaves open what the store answers.
* A schedule is its form and interval. The ticker of `Cron` reads the clock in
  the step that takes the due entries; an earlier reading would take fewer, and
  the next tick the rest.
* Job types. A worker has the set of jobs whose type is among its topics.
* `Lease.Term`, which is always 1, and the text of errors. With that goes
  `Job.LastError`: a second failing result of a failed job rewrites it
  (`scheduler.go:319-321`), so the properties about ended jobs speak of status,
  retry count and key, and not of the whole record.
* `SelectWorker` puts the workers it skipped back in any case. The code drops one
  when the channel is full by then (`broker.go:110-113`, `124-128`), which takes
  more places than the channel has room for.
* A registration that fails (`client.go:85-88`) is no step: the worker sends no
  heartbeats, so to the control node it has not started, or, if the call took
  effect, it is one of the running workers that are suspected.
* In `JobScheduler` the dequeue is merged with the read of the store after it,
  as only `dispatchLoop` dequeues; `ReportResult` sends the result and returns
  the worker to the pool in one step.
* The worker of a result is remembered (`from`) for `StaleResultDiscarded`;
  the program does not have it.

Atomic are: a bbolt transaction, a critical section, a channel operation.

## Runs

Passing runs:

| run | checks | instance |
|---|---|---|
| `scheduler_faults` | `PendingCustody`, `TerminalStable`, `ResultCopyFresh`, `FailedExhausted`, `FailedInDLQ`, `OnlyStoredJobs`, `ImplementsLifecycle`, types | with and without Raft: one job, two workers, two retries, one fault of any kind at any point, snapshots before it |
| `scheduler_liveness` | `EventuallyTerminal`, `TopicIsolation`, `OneJobPerWorker` | one job, three workers of which one lacks its topic, one false suspicion |
| `worker_node` | `OpenMeansFailures`, `HalfOpenHasTrial`, `NoResultDropped`, `NeverStuck`, `EveryJobAnswered`, types | three goroutines, threshold two, two tokens, two failed RPCs |
| `queue` | `NoLostWakeup`, `DepthExact`, `NoOversleep`, `HighestFirst`, `DelayedGetsOut`, `EventuallyDequeued`, types; the heap against sorting (`HeapSorts`) | two jobs of different priority, one of them retried and recovered, a submitter and the two loops, three instants |
| `store` | `IndexExact`, `ImplementsStore` | two IDs, two keys, all calls of both stores; at most one of the IDs is written over (`OneReplaced`) |
| `submission` | `SameJobForKey`, `AnsweredStored`, `FreshIDs`, `CancelIsFinal`, `IndexExact`, `EndedStaysWhileUp`, `SubmissionAnswered`, types | with and without Raft: two clients, two IDs, one key, one cancellation, one snapshot, one restart |
| `cron` | `NoSlotSkipped`, `FiredOnceInOrder`, `ListedIsScheduled`, `OverdueFires`, types | two entries, two clients, three requests, minutes 58 to 60, every minute or every seventh or an unsupported schedule, one restart |

Runs in which TLC finds a disagreement between the code and its documentation
(each is a finding in `PROJECT.json`, with the quoted line):

| run | violated | in short |
|---|---|---|
| `raft_submission` | `EventuallyTerminal` | with Raft nobody enqueues a submitted job, be it pending or scheduled |
| `delay_race` | `ScheduledCustody` | an enqueue between `Peek` and `Dequeue` makes `delayLoop` drop another job |
| `stale_result` | `StaleResultDiscarded` | results carry no attempt, so late ones are accepted |
| `worker_restart` | `LostJobRecovered` | a worker back before its timeout strands its lease |
| `snapshot_regress` | `EndedStaysEnded` | restoring a snapshot revives a completed job, and lists it under two statuses |

The model has more behaviours of this sort than runs. With evictions
`TopicIsolation` fails (`CanHandle` takes an unknown worker for a wildcard one,
`broker.go:83`) and the lease of an evicted worker that dies is never released.
A restart between the update that fails a job and the write of the dead-letter
bucket (two transactions) keeps the job from it for good; `FailedInDLQ` names that
case (`cut`) and excludes all others. What is in the dead-letter queue is what
`Engine.DeadJobs` returns; no route of the server calls it.
A request with both a `run_at` and an idempotency key gets a new job each time,
stored without the key (`jobs.go:76` does not pass it on), although
`README.md:203` says of a repeated request "Original job returned, no duplicate"
and `jobs.go:64-65` that "the key is stored on the job" (`README.md:521`, on the
other hand, "Idempotency keys are not implemented"). `Submission` has these
requests: `SameJobForKey` is about the others, and `AnsweredStored` says that
their jobs have no key. A job that a restored snapshot has written over stays
listed under its newer status as well (`replaced` in `IndexExact`), although
`store.go` speaks of "all jobs matching the given desired status"; the queues
that are rebuilt hold it twice over, and the loops go by the record.
A job cancelled during its last attempt may enter the dead-letter queue
(`JobLifecycle!Bury` has no guard on the status for that reason). A scheduled
job that fails twice, because it runs twice, moves under its entry in the delay
heap, and a job due earlier may wait behind it (`rekeyed` in `NoOversleep`; it
does get out, `DelayedGetsOut`). A cron entry that `Scheduler.Add` refuses, or
that was added through Raft or before a restart, is listed and never fires; an
`Add` that is held up between the clock and its lock, while another client's
entry of the same ID fires and is removed, submits a slot twice. In the
breaker a straggler clears `halfOpenTesting` and lets a second trial run beside
the first. Their hazards in `PROJECT.json` say so.

Bounds. Jobs of the scheduler interact only through workers and the queues; one
job already meets all four loops, duplicated entries and two concurrent
executions. `delay_race`, whose property relates two jobs, has two. With two
jobs `EventuallyTerminal` fails by that very race. The theorems cover larger
instances of the safety properties. One fault suffices to reach every fault
handler, and a snapshot matters only if a restart follows. In `store` a second ID
that is written over would add only the same stale entries once more. The two IDs of `Submission` allow two clients to race for a key and one
to submit after a restart. Three requests are what it takes to add an entry
twice and remove it in between; minutes 58 to 60 contain a late tick and the
full hour at an interval that does not divide it. Two jobs and three instants
are enough for an earlier deadline to arrive under an armed timer. In `Queues` a
dispatch is followed by an execution only while the job may still come back, and
a recovery leaves room for a retry (`MaxAgain`).
`MaxFailures` and `MaxItems` cap counters that the
properties compare with a threshold of two and with zero. At
`MaxFailures` a call can only succeed; `NeverStuck` does not depend on it, since
a failed trial leaves the half-open state too.

Deadlock is not checked in `JobScheduler`, `Submission`, `Queues` and `Cron`:
with all jobs ended, all IDs used, the queues drained or the last minute over,
there is nothing left to do.

Fairness. Each loop is a goroutine and each is weakly fair; a submitter finishes
its call; an execution ends and reports; Monitor's ticker notices a worker that
is gone; a worker is started. Clients, operators, faults and the election are
not fair. `SubmissionAnswered` needs strong fairness of `Lock`, which Go's
mutex provides (a waiter is handed the lock after 1 ms). In `WorkerNode` the
goroutines run, an execution returns, tickers tick, and the control node sends a
job while the worker has a place; acquiring a token is strongly fair, because Go
serves the receivers of a channel in order. In `Queues` the loops run, an
`Enqueue` under way ends and time passes; submitters and retries are not fair.
In `Cron` the ticker's goroutine runs; clients are not fair.

## Proofs

| theorem | states | from |
|---|---|---|
| `TypeCorrect` | `TypeOK` of the scheduler | `TypeOK` is inductive |
| `RetriesExhausted` | `[]FailedExhausted` | types, which bound the copies' retry counts |
| `ResultCopyIsFresh` | `[]ResultCopyFresh` | types; only `resultLoop` completes or fails a job |
| `EndedJobsNeverChange` | `TerminalStable` | `ResultCopyFresh`: the update of an ended job with its own status is the one the store lets through, and by the invariant it writes the status and count that are there |
| `PendingNeverDropped` | `[]PendingCustody`, which is about nodes without Raft | types; each action hands the job from one holder to the next |
| `ReferencesStored` | `[]OnlyStoredJobs` | types; a job is stored before anything refers to it, and no job is deleted |
| `SchedulerImplementsLifecycle` | `ImplementsLifecycle` | types, `ResultCopyFresh` and `OnlyStoredJobs`; every step is one of the lifecycle, snapshot and restore included, or changes nothing a client sees |
| `FailedListed` | `[]FailedInDLQ` | types; only `resultLoop` fails a job, and its next step lists it unless a restart comes first; what a snapshot has as failed was listed or cut off before (`Buried`) |
| `OneExecutionEach` | `[]OneJobPerWorker`, without crashes of workers | the place of a worker is in `Available`, in the hands of `dispatchLoop` or with its one execution (`PlaceInv`) |
| `TopicsRespected` | `[]TopicIsolation`, without evictions and restarts | a worker in the pool is registered, and the worker of a dispatch was checked against its topics |
| `PoolLeaksNoWorker` | a running worker is in `Available`, in the hands of `dispatchLoop` or executing; with no fault but suspicions, and room in the channel for all workers | `PlaceInv`: the channel holds each worker at most once, so it has room for one that is not in it |
| `OnlyRaceLosesScheduled` | `[]ScheduledCustody`, without Raft, in behaviours without the race of `delay_race` | types; each other action hands the job on |
| `LeasesBacked` | a leased job is in flight, without crashes of workers and failed RPCs | who takes the last trace of an execution away releases its lease first (`LeaseInv`) |
| `PendingInMotion` | a pending job is queued, in flight or in somebody's hands, also without Raft | `PendingNeverDropped`, `LeasesBacked` |
| `BreakerSafe` | types, `OpenMeansFailures`, `HalfOpenHasTrial` | their conjunction is inductive with the trial's flag |
| `NodeBreakerSafe`, `NodeTrialUnderWay` | `[]OpenMeansFailures`, `[]HalfOpenHasTrial` inside a worker | `BreakerSafe`; each step of the pipeline is one of the breaker or leaves it alone |
| `NodeTypes` | `[]NodeTypeOK` | calls in the breaker match the jobs' stages, and the count that `ResultsKept` uses |
| `ResultsKept` | `[]NoResultDropped` | places, jobs under way and results in the channel add up to at most the places the worker has |
| `WakeupNeverLost` | `[]NoLostWakeup` | with the types, inductive |
| `GaugeExact` | `[]DepthExact` | the set of processes between push and count is finite and grows and shrinks by one |
| `PushIsRight`, `PopIsRight` | `heap.Push` and `heap.Pop` add and remove exactly one entry, `Pop` the root, and keep the heap order | the loops' invariants, for heaps of every length |
| `QueuesWakeup` | `NoLostWakeup` and `DepthExact` in `Queues` | `WakeupNeverLost`, `GaugeExact`; each step is one of `JobQueue` or leaves it alone |
| `QueuesTypes` | `[]QueuesTypeOK` | `QueuesInv`, see below |
| `BestJobFirst` | `HighestFirst` | the heap is ordered, so its root is least |
| `NeverOversleeps` | `[]NoOversleep` | `QueuesInv` |
| `CronOnceInOrder` | `[]FiredOnceInOrder` | `nextRun` moves forward; see below |
| `CronTypes` | `[]TypeOK` of `Cron` | with the copies' and requests' types, inductive |
| `EverySlotTaken` | `[]NoSlotSkipped` | `NextRun` is the first slot after the minute it is computed from |
| `ListIsRight` | `[]ListedIsScheduled` | bucket and map agree on entries that no request is working on |
| `SubmissionTypes` | `[]SubmissionTypeOK` | `SubmissionInv`, see below |
| `AnswersKept`, `Idempotent`, `AddsUnderFreshID`, `CancelStands` | `[]AnsweredStored`, `[]SameJobForKey`, `[]FreshIDs`, `[]CancelIsFinal` | `SubmissionInv` |
| `EndedIsFinal` | `EndedStaysWhileUp` | `SubmissionInv`: a client's `Add` never meets a stored job |
| `StoreIndexExact` | `[]IndexExact`, both stores | a job is in the bucket of its status, each key leads to its job, and no other index entry is left behind but those of jobs that were written over |
| `StoresImplementInterface` | `IndexedStore` implements `JobStore` | the same invariant |
| `StoreContractKept` | each step of `Submission` is a step of `IndexedStore` or leaves the store alone, but for restores of a Raft node | `SubmissionInv`: no stored job has the key of a job that is added |
| `KeySearchExact` | `FindByIdempotencyKey` is exact, restores included | `SubmissionInv` |
| `IndexExactWhenRunning` | `[]IndexExact` in `Submission`, restores included: a listing by status misses no job | the invariant of `StoreIndexExact`, which calls keep by `StoreContractKept` and a restore because all it writes over is `replaced` (`RestoreExact`) |
| `RunsOnIndexedStore`, `InterfaceWhenRunning` | `Submission` implements `IndexedStore`, hence `ImplementsStore` in it, without Raft | `StoreContractKept`, `StoresImplementInterface` |
| `EndedForeverWithoutRaft` | `EndedStaysEnded`, without Raft | `EndedIsFinal` |

They hold for every number of jobs, workers, retries, callers, producers, IDs,
keys, cron entries, clients and schedules, every capacity and every length of a
heap, under the named assumptions of the modules: null values are fresh, bounds
and IDs are natural numbers, the first minute is not after the last, priorities are integers,
producers, callers and the clients of `Submission` are finite sets, and the
modes and statuses it is given are among those that exist (`ASSUME`s of the
modules list them all). Where the table says
"without", the theorem assumes it. Why `PendingCustody` is about nodes without
Raft, `raft_submission` shows; a worker that crashes and comes back registers a
second place, and may then be given two jobs.

Three theorems bound what the violated runs show. `delay_race` loses a scheduled
job; by `OnlyRaceLosesScheduled` nothing else does on a node without Raft. In
`worker_restart` a lease outlives its execution; by `LeasesBacked` that takes a
crashed worker or a failed RPC. In `snapshot_regress` an ended job comes back and
is listed twice; by `EndedForeverWithoutRaft` that takes a Raft snapshot, and by
`IndexExactWhenRunning` and `KeySearchExact` even then a listing misses no job and
a search by key stays exact.

`TerminalStable` is not inductive by itself: `resultLoop` writes back a whole
record it read some steps earlier, and `Update` allows writing a terminal status
over itself. That this changes neither status nor count needs `ResultCopyFresh`.

`FailedInDLQ` is not inductive on a Raft node, where a restart brings back what a
snapshot has as failed. `Buried` says of such jobs, too, that they are listed, cut
off or in the hands of `resultLoop`; it survives because the bucket and `cut` only
grow.

`FiredOnceInOrder` speaks of slots submitted. Its strengthening `CronInv` says
that the ticker holds at most one copy of an entry, of a slot that has come and
lies after those submitted; that the next run of an entry in the map lies after
both; and that so does the first run a request has computed and not installed
yet, as long as the entry is not in the map. The last part survives a `Remove`
only because no other request is working on the entry, which is what the
exclusion of overlapping requests (`past`) is for.

`SameJobForKey` speaks of answers, which outlive the requests and the process.
`SubmissionInv` follows a key and an ID from the request to the answer: a request
with a key holds `submitMu` from its search to its answer, and until it has
stored the job no stored job has its key; no stored ID and no ID in a request is
above the counter, no two requests add under one ID, and the log holds each
waiting request once; every job of the snapshot is stored under the same key, so
that restoring it changes statuses but neither the set of jobs nor the index. A
restart sets the counter to the maximum of the stored IDs, which brings in that
a bounded set of numbers has one (`MaxOfBounded`).

`OneJobPerWorker` needs places: `PlaceInv` says that a worker is at most once in
`Available`, and that being there, being in the hands of `dispatchLoop` and
executing exclude each other. RPC failures, evictions and restarts of the
control node may lose a place, suspicions do not (`PoolLeaksNoWorker`), and none
makes a second one. The lemma
about `SelectWorker` (`SelectKeepsPlaces`) is the long part: it puts the workers
it skipped back at the end of the channel.

`NoSlotSkipped` compares sets. The step that matters is that `nextRun` is the
first slot after the minute it starts from (`NextRunFirst`), for intervals that
divide the hour and for those that do not.

`HighestFirst` and `NoOversleep` need the heap order, and the heap order needs an
induction over the rounds of the loops in `container/heap`. It is done with sets
of natural numbers: a set that contains 0 and, with every number, the next
contains all, since otherwise its complement would have a least element
(`NatSet`). From it follow that `Rounds` satisfies its recursive equation
(`RoundsExist`), that what one round keeps all rounds keep (`RoundsKeep`), and
that both loops end within as many rounds as the slice has entries (`UpEnds`,
`DownEnds`). During `up` only the moving entry may be out of order with its
parent, during `down` only with its children, and in both its children are in
order with its parent. `QueuesInv` adds that what is in the heaps has been
submitted, that `delayLoop` never dequeues from an empty heap, that the delay
heap is ordered unless a key has changed under an entry (`rekeyed`), and that
`delayLoop` is about to set, or has set, its timer to the least key unless a
token is on its way.

Leaves of the proofs are for Zenon unless they name SMT, for arithmetic, sequences
and function updates, or PTL.

Model-checked only: liveness (`EventuallyTerminal`, `NeverStuck`,
`EveryJobAnswered`, `EventuallyDequeued`, `DelayedGetsOut`, `SubmissionAnswered`,
`OverdueFires`), which is out of the prover's reach, and `HeapSorts`, which drains
a heap through a recursive operator of `MCQueues` and is what `RootLeast` and
`PopIsRight` say step by step. Every safety property of a passing run has a
theorem.

## Not modelled

* Local workers (`internal/worker`): the default configuration has none. Their
  runner writes to the store itself, which remote runners do not.
* Changes of leadership (`watchLeadership`, `Leases.Clear`): a one-node cluster
  steps down only when it shuts down, and a shutdown is the `Restart` of the
  model.
* Head-of-line blocking in dispatch: it needs the heap order and the broker in
  one model. `Queues` has the first, `JobScheduler` the second.
* The event broadcaster (the dashboard's), the write-ahead log and the snapshot
  file of `internal/storage` (nothing uses them), handlers that only read,
  middleware, authentication, configuration, metrics other than the queue's
  gauge, tracing, the benchmark, the programs' wiring, generated code.

`PROJECT.json` lists them with reasons. Two more remarks found on the way have no
run: `raft.go:53` calls an in-memory store persistent; the first backoff is 2 s,
not the 1 s of `README.md:293`.

## Plan

1. Local worker and runner: offering before receiving, the runner's own updates
   racing `resultLoop`.
2. Dispatch with priorities and topics at once: head-of-line blocking.
3. Leadership: start and stop of the loops, `Leases.Clear` against a dispatch
   under way.
