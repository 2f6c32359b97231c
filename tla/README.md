# Verification of the experiment platform

TLA+ models, TLC runs and TLAPS proofs for `src/mfbo_platform`: a service that accepts
multi-fidelity optimization experiments, a queue, and workers that run them. Paths below are
relative to the repository.

## 1. The system

### Components

| Component | State it keeps | Operations | Must be correct about |
|---|---|---|---|
| Experiment record (`domain.py`) | status, cancel flag, lease owner and expiry, attempts, dispatch mark, history, result | pure mutation callbacks | terminal is final; flag and final status agree |
| Service (`service.py`) | none of its own; the record | create, dispatch, reconcile, cancel | an accepted experiment is always (re)dispatched; cancelling never revives |
| Worker (`worker.py`, `ExperimentWorker`) | local state of one delivery; stop event | receive, claim, run, record metrics, complete, finish, settle, reconcile | one owner per attempt, one attempt per history, the message is deleted only when nothing is left to do |
| Lease renewer (`worker.py`, `LeaseRenewer`) | a thread, `lost` | renew message, renew lease | never restores what the delivery gave up |
| Azure queue (`queueing.py`, `AzureStorageJobQueue`) | messages, visibility, pop receipts | enqueue, receive, acknowledge, abandon, renew | at least once; a stale receipt does nothing |
| Blob repository (`repositories.py`) | one blob per experiment, ETag | create, get, mutate (compare and swap, 5 tries) | no update is lost; the callback runs again on a new record |
| Filesystem repository (`repositories.py`) | files, a directory lock | create, get, mutate, list | the same promise without ETags; readers take no lock |
| In-memory queue (`queueing.py`) | a `queue.Queue` of `ReceivedJob` | as the Azure queue | a job is in one pair of hands; a delivery that settles nothing loses it |
| Worker loop (`worker.py`, `run_forever`, `run_once`) | a timer, the stop event | scan, poll, pause | one bad record, message or call does not stop the worker; a stop does |
| Engine (`engine.py`) | iteration, budget, best value | execute | bounded loop, budget, cancellation between iterations |
| Tracking (`tracking.py`, `worker.py` 156-169) | the thread's active MLflow run, the runs on the server, a mark in the record | start, metric, finish, close | a tracking failure never changes an outcome; an unmarked record has its tracking; no run leaks into the next experiment |
| Artifacts (`artifacts.py`) | a path per attempt and file | put | the result names whole files of its own attempt |
| HTTP API (`api.py`) | none of its own | create with a key, read, cancel, readiness | 202 and 409 are true for whoever gets them |
| Smoke test (`scripts/smoke_stack.py`) | how far it has come | submit, poll the API, search MLflow | passes where workers only take over from each other, within the attempt limit |
| Scaling benchmark (`benchmarks/worker_scaling.py`) | threads on one in-memory queue | send all, drain | the drain ends with every job done |
| Configuration, factories, telemetry, logging, CLI, health check, deployment | none that the protocol reads | wiring and reports | - |

### Interactions

The API and the workers share nothing but storage. The API creates a record (an upload that fails
if the blob exists), sends a message with the experiment's id and marks the record *dispatched*.
A worker receives a message, loads the record, claims it (lease owner, expiry, attempts), and
enters `LeaseRenewer`, which renews first the message and then the lease, once in the main thread
and then in a thread of its own. Every further change of the record by the worker goes through
`_owned`, which re-reads the record, checks owner, expiry and terminal status in the callback, and
uploads under the ETag. At the end the worker acknowledges (terminal), abandons (requeued) or
leaves the message to its timeout (lease lost). Every 30 seconds the worker's loop reconciles before
it polls: it dispatches every record that was created and not marked. Beside the record an attempt
publishes an MLflow run and three files; the record names both, and nothing but the record is
written under an ETag.

### What is hard here

* The record, the message and the worker's memory change in separate steps, and any worker can
  crash, stall or lose an answer between them.
* The lease is compared with the clock when the callback runs; the upload that follows is
  protected by the ETag and not by the lease.
* The renewer runs beside the main thread and contends with it, and with the API, for one ETag.
  Its last renewal may land when the attempt is over.
* Messages are duplicated (repeated requests, reconciliation, lost answers), reappear after
  timeouts, and are settled with receipts that may be stale.
* Attempts are counted at claims, so takeovers, crashes and shutdowns use them up, and the claim
  beyond the limit ends an experiment whose attempts never raised anything.
* Cancellation is a flag and a status; a claim overwrites the status.
* The MLflow run, the files and the record are written by separate calls, any of which fails on its
  own; MLflow keeps the active run per *thread*, across experiments.
* Two requests under one idempotency key race from separate API processes, and each may be repeated
  by its client or by the client library.
* The loop of a worker catches every exception: what is skipped then, and whether it is made up for.

`PROJECT.json` lists each hazard at its line, with the properties that would notice it.

## 2. Modules

| Module | Models | Lines |
|---|---|---|
| `ExperimentRecord` | The record and every mutation callback as a function on records | `domain.py` 14-24, 88-114; the callbacks in `service.py` and `worker.py` |
| `JobPlatform` | Service, worker, renewer, Azure queue, compare and swap, time, failures; its properties | `service.py`, `worker.py`, `queueing.py` 70-110, `repositories.py` 128-190 |
| `Lifecycle` | The abstract specification: what a client can observe of status and cancellation | the state diagram of `docs/ARCHITECTURE.md`, completed by the code |
| `JobPlatformInv` | The inductive invariants `Inv`, `FenceInv` and `FaultInv` | - |
| `JobPlatformProofs` | Proof that `Inv` is invariant, and corollaries | - |
| `JobPlatformRefinement` | Proofs of `TerminalFinal`, of the refinement of `Lifecycle`, of `FenceInv` with what it says of attempts, and of `FaultInv` | - |
| `MCJobPlatform` | Symmetry and a bound for TLC | - |
| `Requests` | `POST /experiments`: keys, fingerprints, repeated requests | `api.py` 103-136, `service.py` 28-74 |
| `WorkerLoop` | `run_forever`, `run_once`, `reconcile_pending`, the handlers that dispatch, and the copies of each message | `worker.py` 369-397, `service.py` 49-77 |
| `DeliveryQueue` | The abstract specification of a job queue | `JobQueue`, `queueing.py` 20-37 |
| `StorageQueue` | The Azure adapter over the service's receipts and timeouts | `queueing.py` 70-113 |
| `MemoryQueue` | The in-memory queue under the benchmark's threads | `queueing.py` 40-68, `worker_scaling.py` |
| `JobQueues` | The choice between the two, and their properties together | `factory.py`, `queue_from_settings` |
| `Publishing` | What attempts publish: MLflow run, files, the marks in the record | `worker.py` 156-363, `tracking.py`, `artifacts.py` |
| `SmokeStack` | The end-to-end script beside `Publishing` | `smoke_stack.py` 28-84 |
| `AtomicRecord` | The abstract specification of a repository: one record, changed atomically | `ExperimentRepository`, `repositories.py` 15-43 |
| `FileRepository` | Files, lock, temporary files; failures and kills between system calls | `repositories.py` 46-120 |
| `BlobRepository` | Conditional uploads, the five rounds of `mutate`, lost answers | `repositories.py` 128-195 |
| `EngineRun` | The engine's loop and the metrics in the record, over interrupted attempts | `engine.py` 85-143, `worker.py` 117-154 and 268-281, `domain.py` 31-49 |
| `FileRepositoryProofs`, `BlobRepositoryProofs`, `EngineRunProofs`, `JobQueuesProofs`, `RequestsProofs`, `PublishingProofs` | Invariants, refinements and corollaries | - |
| `MCBlobRepository`, `MCEngineRun`, `MCSmokeStack`, `MCWorkerLoop` | Symmetry; fidelity lists, failure scenarios and sets of unreadable records for TLC | - |

`JobPlatform` EXTENDS `ExperimentRecord` and INSTANCEs `Lifecycle` with
`status <- [e |-> rec[e].status]` and `wanted <- [e |-> rec[e].cancelRequested]`.
Operators whose comment begins with "Mutated form" are plausible bugs; no action uses them.
They show that the property named in `PROJECT.json` notices the bug.

`FileRepository` and `BlobRepository` each INSTANCE `AtomicRecord`. They justify what `JobPlatform`
takes for granted: a mutation happens at one moment, on the record as it is at that moment.
`StorageQueue` and `MemoryQueue` each INSTANCE `DeliveryQueue`; `JobQueues` EXTENDS the one and
INSTANCEs the other. `SmokeStack` EXTENDS `Publishing`. A module of proofs EXTENDS what it is about:
`JobQueuesProofs` both queues, `PublishingProofs` also the smoke test.

### State of JobPlatform

| Variable | Code |
|---|---|
| `rec[e]` | the blob `state.json` of experiment `e` (one request and idempotency key per experiment) |
| `current[e]` | the threads whose last read of that blob still has its present ETag; an upload empties it |
| `queue[m]` | a queue message: free, visible or hidden; `holder` is the worker with the valid pop receipt |
| `disp[t]` | where thread `t` is inside `dispatch()`: before the send or before the mark |
| `worker[w]` | `pc` and locals of `process()`; `refresh` is the renewer's program counter, `lost` its event |
| `stop[w]` | `stop_event` |
| `faults` | how many failures of the environment happened so far |

`worker[w].pc` follows `process()`: `received` (record to be loaded), `claim`, `enter` (first
renewal, in the main thread), `check` (the engine's `cancelled()` callback), `metric` /
`metricWrite`, `complete` / `completeWrite`, `finish` / `finishWrite` (the two halves of an
`_owned` mutation), `settle` (`__exit__` and the finally block).

### Actions of JobPlatform

`Submit`, `Resubmit`, `Reconcile` start a dispatch; `Send` and `Mark` carry it on; `Cancel`.
`Receive`, `LoadRecord`, `Claim` / `ClaimRefused`, `Check`, `ReadMetric` ... `WriteFinish`, `Retry`
and `Settle` are one delivery; `RefreshQueue`, `ReadLease`, `WriteLease` and `RetryLease` are the
renewer. `Lapse` (lease) and `Reappear` (visibility) are time. Failures: `DispatchFails` and
`SendUnacknowledged` (also the death of an API process), `CallFails` (a storage call raises, or
`mutate` gives up), `EngineFails`, `UploadUnacknowledged` and `ClaimUnacknowledged` (the upload
lands, its answer is lost, and the error reaches the caller, or the client library repeats the
upload, is told that the ETag changed and `mutate` reads again), `RefreshFails`, `SettleFails`,
`Crash`, `Shutdown` (SIGTERM), `Replace` (the container is started again).

### The repositories

A caller is one call of `create`, `mutate` or `get`. A record is the sequence of the calls that
changed it, so a dropped, repeated or misplaced change shows in it. `answer[c]` is what the call
returned (`ok`), or whether it raised `ConflictError`, `NotFoundError` or the callback's own error
(`refused`), the "did not converge" conflict (`exhausted`) or anything else (`failed`).

In `FileRepository`, `files` holds `state.json` and the temporary file of each caller, `lock` the
caller whose open file has the flock. `Lock`, `Rejected` / `CallbackRaises` / `Prepare`,
`MakeTemporary` (`mkstemp`), `WriteTemporary` (write, flush, fsync), `Replace` and `Close` are the
writers, one action per system call that another process can tell; `NotFound` / `Found` and
`ReadState` the reader. `Fails` is an exception under the lock (both `finally` clauses run), `Crash`
a kill: the system closes the file and with it the flock, and nothing else happens. A power loss,
after which the directory entry itself may be old, is not modelled.

In `BlobRepository`, the length of the record stands for the ETag. `Create` / `AlreadyExists`,
`Get` / `NotFound`, and `Download`, `CallbackRaises`, `Upload` / `Modified` with `NextRound`, which
counts the rounds of the loop. After a request took effect its answer arrives (`Return`), or is lost:
`AnswerLost` gives the caller an exception, `CreateResent` and `UploadResent` are the client library
sending the request again and being told that the blob exists, or was modified, by its own first try.
In the refinement, a refusal of a call that had in fact taken effect counts as `failed`, which
promises nothing; `RepeatsNeedLostAnswers` says when that can happen.

### The engine

`run` holds the locals of `execute` (iteration, cumulative cost, best candidate, metrics), `record`
the fields `_record_metric` and `complete` write. `Evaluate` is one turn of the loop up to the
callback, `Report` the callback, `Finish` the end of the loop, `Complete` the completing mutation,
`Interrupt` any early end (cancellation, shutdown, lost lease, crash), `Start` the next attempt with
the same seed. Fidelities, costs and budgets are multiples of 1/`Unit`. The code adds floats; the
bound that matters survives their rounding, because sums of `k` numbers up to 1.0 are at most `k`,
which a float represents exactly, and rounding is monotone.

### Requests

`request[c]` is what a client asks for; `handler[c]` where the API is in `create` for it: `create`
(the upload that fails if the blob exists), `conflict` (the record is read and the fingerprints are
compared), `send` and `mark` (`dispatch`), `load` (the response). `answer[c]` is the status code the
client got. `CreateResent` is the client library sending the upload again and finding its own blob;
`Unanswered` an exception, a dead process or a lost response, after which the client asks again.

### The queues

In `StorageQueue`, `server[j]` is the message at the service and `hand[c]` the `ReceivedJob` of a
consumer, with the receipt it heard of last: `valid` if that is the one the service expects. Every
receive, renewal and abandoning replaces the receipt (`Reissued`), `RenewUnheard` and
`ReceiveUnheard` without the consumer knowing. In `MemoryQueue` there are no receipts and no
timeouts: `fifo`, the job in each thread's hands, and `dropped`, the jobs whose delivery settled
nothing. Both map to `DeliveryQueue`: a job is new, sent or settled, and has a taker, the consumer
whose delivery counts.

### The worker's loop

`pc` follows `run_forever`: `top` (the stop event and the timer), `scan` (`reconcile_pending`, one
record at a time: `Pass`, `Dispatch`, `ScanRaises`), `poll` (`Receive`, `Empty`, `PollRaises`),
`busy` (`process()`, which never raises), `wait`. A record or message that does not parse was written
by another version (`extra="forbid"`). `ScanRaises` and `PollRaises` lead to `wait` with the timer
as it was. The API's handlers send as well: `Accept` and `AcceptAgain` (a request repeated under its
key) put an experiment into `handler`, and `HandlerSends` sends it whatever has become of the record
meanwhile. `visible[m]` and `hidden[m]` count the copies of a message, so a job that handlers and
scans send, and send again because the mark failed, has as many messages as it was sent times.

### What attempts publish

In `Publishing`, `rec` has the fields tracking and artifacts have to do with, `worker[w]` is `process()`
with its `ExperimentTracker`, `thread[w]` the run MLflow holds active for the worker's thread, `runs[a]`
the run of an attempt at the server, `store[p]` the file at a path. The steps are `Claim`,
`LimitReached` (the claim was one too many: the experiment ends failed) or `Start`, `RecordRun`,
`Iterate`, `TrackMetric`, `Put` (three files), `Complete`, `Finish`, `EndTracking`, `Close`; a tracker
call that raises is followed by `Mark`. Failures come from one scenario, chosen at the start: MLflow
(before or after a call took effect), storage, crashes, the engine, takeovers; a cancellation
(`Cancelled`) counts as one, and the status it ends with is "failed" here. `SmokeStack` adds the script:
`PollStatus` until the experiment has ended, `SearchRuns` until a run of it is finished.

### Abstractions

* *Time.* `leased` says that the expiry is set and in the future. A lease or visibility timeout may
  expire at any moment; while somebody is renewing it this is a stall and costs a fault.
* *Atomicity.* A mutation whose callback depends on the record alone is one step, since the ETag
  makes it take effect on the record it read. `_owned` callbacks also read the clock and are two
  steps. A request to storage takes effect before its caller goes on, or never.
* *Retries.* `mutate` may give up at any try (a fault) instead of at the fifth.
* *Data.* A metric is the number of the attempt that measured it; a result is the number of the
  attempt whose artifacts it names. Objective values, timestamps and messages are left out.
* *Owners.* `process()` draws a UUID for each delivery. A worker runs one delivery at a time and
  forgets it when it crashes, so the worker's name stands for the UUID; `attempts` tells its
  deliveries apart.
* *Tracking* is off in `JobPlatform` (`mlflow_tracking_uri` is `None`, which makes every tracker call
  a no-op). `Publishing` has it, with mutations of the record as single steps, and claims without a
  queue: whatever message brings them, they need a record without a lease.
* *Loop.* `WorkerLoop` has one worker and a delivery of it as one step. The copies of a message are
  counted, not told apart.
* *Configurations* stand for their fingerprints in `Requests`; a request is admitted or not and well
  formed or not.
* *Receipts.* A pop receipt stays valid after the visibility timeout until the message is received
  again, as in Azure Storage; `Reappear` keeps `holder`.

## 3. Properties

### JobPlatform

Safety, all in `JobPlatform`:

* `NoLostJob`: a dispatched experiment that is not terminal has a message in the queue.
* `AttemptFencing`: a worker whose attempt is the record's latest is its owner, and vice versa.
* `RerunsNeedFaults`: without failures an experiment is claimed once, however many messages,
  requests and reconciliations there are; every further claim needs a failure of its own.
* `AttemptLimit`: no attempt beyond `worker_max_attempts` leaves a trace in the record.
* `OneAttemptHistory`: the history is a gapless prefix measured by one attempt.
* `CompletedResultIntact`: a completed record shows the whole history of the attempt it names.
* `CancelHonoured`: completed means no cancellation had been accepted; cancelled means one had.
* `RequeuedIsClaimable`: no lease is left, or restored, on a requeued record.
* `TerminalFinal`, `StaleOwnersFenced`: action properties: terminal records are final, and only
  the latest claim changes metrics and results, requeues or ends an experiment.
* `LifecycleSpec`: `JobPlatform` implements `Lifecycle`.

Liveness, under `FairSpec`: `EventuallyTerminal`: every accepted experiment ends. (That its
messages then disappear, duplicates included, is `DuplicatesDrained` of the worker's loop.)

Fairness and why the code justifies it: the threads of the service and the workers run (weak fairness on
their steps). A worker's upload, and a renewal, land if their ETag is found current again and again
(strong fairness): competing writes come from a renewer that sleeps a third of the timeout between
writes, and from client requests. Visible messages are received and unmarked records reconciled (strong
fairness, because a worker is busy now and then: it polls, and reconciles every 30 s; `WorkerLoop` shows
that the loop does). Timeouts that nobody renews expire (weak fairness). Clients, cancellations and
failures get no fairness.

### The repositories

* `AtomicRecordSpec` (both): a change is made on top of all earlier ones, although callers write the
  whole record from a copy; readers get the record of one moment of their call; a success took
  effect.
* `StateIsWhole` (files): readers need no lock. `NoLitter`: only a killed process leaves a
  temporary file. `AnswersAreExact`: an exception means that nothing changed, a return that the
  change was made once.
* `EveryCallAnswered` (files, liveness): weak fairness on each call's own steps (its process runs;
  one system call follows another); failures and kills are not fair. A waiting call needs no strong
  fairness because the calls are finite in number.
* `RepeatsNeedLostAnswers` (blob): a change is made twice, or made and then refused, only after a
  lost answer of the same call. `GivingUpNeedsWrites` (blob): `mutate` raises "did not converge"
  only if there were as many changes by others, creating the record not counted, or lost answers to
  its own uploads, as it has rounds.

### The engine

* `HistoryReproducible`: however attempts were interrupted, the history is a beginning of the run
  the seed determines; nothing of an interrupted attempt is carried over.
* `SummaryAgrees`: cost, best value and interim recommendation belong to the history beside them.
* `CompletedRunIsWhole`: a completed experiment has all its iterations, and recommends their best.
* `BudgetSuffices`: an accepted budget pays for every iteration. So the `break` of `execute` and
  its "budget was insufficient" error cannot happen for a configuration that passed validation:
  a budget of at least 10 pays `int(budget)` evaluations of at most 1.0.
* `ProgressPreserved`: progress falls and points disappear only with the first observation of a new
  attempt (the comment at `worker.py` 112).

### Requests

* `AcceptedIsOwn`: whoever got 202 has an experiment with its own configuration, whoever else used
  the key at the same time. `ConflictIsTrue`: whoever got 409 has really to do with another
  configuration under its key; no client is told that it contradicts itself because its request, or
  the upload behind it, was sent twice.
* `RequestsAnswered` (liveness): calls go on and clients repeat a request until it is answered (weak
  fairness on each client's calls, `FairSpec`).

### The queues

* `QueuesKeepPromise`: both queues implement `DeliveryQueue!Spec`: only the consumer that received a
  job last removes it, whatever others still try with old receipts.
* `HeardDeliveriesSettle` (Azure): a delivery whose calls were all answered can be settled until
  somebody else receives its message; renewing keeps the receipt in hand the one that is expected.
* `JobsRedelivered` (liveness): with Azure a job reaches a consumer again whatever became of a delivery;
  in memory only if every delivery settles, and then the benchmark's drain ends with every job done. A
  job whose delivery settles nothing is gone: the property excepts it, nothing in the code brings it
  back, and no document says so. Fairness: threads run (weak), timeouts end (weak), deliveries end
  (weak), and a message that is visible again and again is received (strong: consumers poll).

### The worker's loop

* `AcceptedJobsDone` (liveness): every accepted job is sent and processed through failed calls, lost
  sends, restarts and messages nobody can parse, as long as all records parse; jobs listed before the
  first record that does not are still sent.
* `DuplicatesDrained` (liveness): all messages of an ended job leave the queue, as long as all records
  parse: those that several handlers and scans sent, that came back because the acknowledgement
  failed, or that a handler sends when the job has ended already. Each is received once more and
  acknowledged because the record is terminal (`worker.py` 183-184).
* `StopHonoured` (liveness): a stop ends the loop however many messages wait.

Fairness: the loop takes its steps, 30 seconds pass, hidden messages reappear and a stopped worker is
replaced (weak); polls that go on hand out every visible message in the end (strong).

### What attempts publish

* `ArtifactsIntact`: the files a completed record names are whole and of the attempt that completed
  it, for ever.
* `UnmarkedTrackingWhole`: a completed record without the mark names the finished run of that
  attempt, with every metric and the summary. Two exceptions are part of the property: attempts that
  died or could not write the record, and the time until the worker has closed its tracker.
* `EndedOnlyMarked`: a terminal record changes no more, but for the mark of the attempt that ended
  it; nobody marks the record of a later owner.
* `TrackingContained`: if MLflow is all that fails, the first attempt completes the experiment; and if
  MLflow does not fail, no record is ever marked, which takes that no attempt leaves a run active on
  its thread.
* `SmokePasses`: if workers only take over from each other, the script fails only when they did so
  beyond `worker_max_attempts` (takeovers count as attempts, and the claim beyond the limit ends the
  experiment failed), and once they are through with a completed experiment there is a finished run to
  find, beside the failed ones that takeovers leave.

## 4. Runs

| Run | Instance | Distinct states | Question |
|---|---|---|---|
| `core` | 1 experiment, 2 workers, 2 messages, 2 iterations, 2 attempts, 2 faults | 521,969 | the safety properties and the refinement, through takeovers and duplicates |
| `takeover_liveness` | 1 experiment, 2 workers, 1 message, 1 iteration, 2 attempts, 1 fault | 20,666 | the experiment ends when a worker is taken over |
| `file_repository` | 2 creates, 2 mutations, 1 reader | 58,768 | atomicity, exact answers, litter, answers to all, under failures and kills |
| `blob_repository` | 2 creates, 2 mutations of 3 rounds, 1 reader | 176,046 | the refinement under contention; giving up; repeated and refused changes after lost answers |
| `engine_run` | 3 attempts, up to 4 iterations, 3 objective values, 2 fidelity lists accepted and 2 refused | 19,266 | the record against the uninterrupted run |
| `publishing` | 2 workers, 3 claims, 2 of them within the attempt limit, 2 iterations, 5 failure scenarios, the smoke test | 1,417,230 | files, runs and marks against the record |
| `worker_loop` | 2 experiments, 1 message nobody can parse, 2 faults, the second record readable or not | 87,568 | the liveness properties of the loop |
| `job_queues` | 2 jobs, 2 consumers, 3 faults, a job given back up to twice | 7,746 | both queues against the abstract one, and redelivery |
| `requests` | 2 clients, 2 configurations, 1 key or none, 1 fault | 88,732 | what 202 and 409 tell a client; answers to all |
| `expired_owner_commits` | 2 workers, 2 messages | violation | disagreement 1 of section 6 |
| `cancelling_to_running` | 2 workers, 2 messages | violation | disagreement 2 of section 6 |
| `worker_loop_starved` | 2 experiments, the first record cannot be parsed | violation | disagreement 3 of section 6 |

Bounds. `Messages` bounds the queue's length; `Room` keeps a slot for every dispatch under way, so
that the bound never blocks a step the code could take half-way, and only postpones dispatches.
`MaxFaults` bounds the failures. Two workers and two faults give takeovers of a taken-over attempt
(a stall of the first worker, a crash of the second, the first one waking up), a limit of two
attempts gives claims beyond the limit, two iterations give interrupted histories, two messages
give a duplicate delivered beside the original. `core` has one more bound, the constraint
`OneFaultWithDuplicates`: a state with both messages in the queue and the last fault spent is checked
and not continued, so a duplicate meets one failure, and a takeover of a taken-over attempt happens
beside none. All its properties have proofs without any bounds, which also cover several experiments
that share workers and queue slots. Symmetry under workers, messages and experiments
is used for safety only.

Two creates and two mutations are enough for each order of refusal, success and overlap of two
writers; a reader meets each of their steps. Three rounds (the code has five; the theorems have any
number) let a mutation lose a round to each of the other writers and then the last one. The engine's
instance has limits below, at and above what the budgets afford (3 and 4 units), budgets with a
remainder and one that is refused, ties between objective values, and a third attempt after two
interrupted ones.

In `publishing` a failure of the scenario's kinds may happen any number of times; two attempts within
the limit give an overtaken worker that still uploads, tracks and marks beside its successor, the third
claim is beyond the limit, and a second experiment's start on a thread is the second attempt by the same
worker. Every two kinds of failure come together in one of the first three scenarios (all but takeovers;
all but MLflow; MLflow, takeovers and crashes); the other two are only MLflow and only takeovers. In
`job_queues` three faults are a lost renewal, a failed settlement and a dropped delivery; two consumers
and two jobs let a stale consumer hold a receipt while the other works. In `worker_loop` the two
experiments are before and at the unreadable record; several workers would only make the scan more
frequent. The number of copies has no bound of its own: two faults (a mark or an acknowledgement that
fails) and the handlers' sends keep it finite. `takeover_liveness` has one message, because duplicates
are the business of `worker_loop`; two messages there take longer than a run should. `requests` has
three fresh ids, because of two clients without a key one may draw another after the one lost answer.

The deadlock check is off where every call ends and attempts are bounded (repositories, engine,
publishing, queues, requests), and on in `JobPlatform` and `WorkerLoop`. There it is easily passed: a
cancellation of an existing experiment, and a poll, is always possible. That they do not get stuck is
what the liveness runs show.

## 5. Proofs

TLAPS proves, for any sets of experiments, workers, clients and messages and any positive numbers
of iterations and attempts and any number of faults (the assumptions of `ExperimentRecord` and
`JobPlatform`: null values are not members, clients are not workers):

* `InvInvariant`: `Spec => []Inv`; and from it `TypeCorrect`, `NoJobIsLost`,
  `CancellationHonoured`, `RequeuedClaimable`;
* `TerminalIsFinal`: `Spec => TerminalFinal`;
* `ImplementsLifecycle`: `Spec => LifecycleSpec`;
* `FenceInvariant`: `Spec => []FenceInv`; and from it `AttemptsFenced`, `AttemptsLimited`,
  `HistoryOfOneAttempt`, `CompletedIntact` and `StaleFenced` (`Spec => StaleOwnersFenced`);
* `FaultInvariant`: `Spec => []FaultInv`; and from it `RerunsPaid` (`Spec => []RerunsNeedFaults`).

The other modules have their own constants:

* `FileRepositoryProofs`: `ImplementsAtomicRecord` (`Spec => AtomicRecordSpec`), `StateAlwaysWhole`,
  `NoLitterIsLeft`, `AnswersExact`, for any numbers of calls, failures and kills;
* `BlobRepositoryProofs`: `ImplementsAtomicRecord`, `GivingUp`, `RepeatsExplained`, for any numbers of
  calls and rounds and any lost answers;
* `EngineRunProofs`: `BudgetAlwaysSuffices`, `CompletedWhole`, `HistoryIsTheRun`
  (`HistoryReproducible`), `SummaryIsOfHistory` (`SummaryAgrees`), `ProgressIsPreserved`
  (`ProgressPreserved`), for any unit, budgets, fidelity lists, limits, values and interruptions,
  assuming only that the smallest budget is at least one unit;
* `JobQueuesProofs`: `HeardSettle`, `ImplementsDeliveryQueue` for the Azure queue,
  `MemoryInvInvariant` and `MemoryImplementsDeliveryQueue` for the queue in memory, `BothKeepPromise`
  (`QueuesSpec => QueuesKeepPromise`) and its corollary under fairness `ScheduledKeepPromise`, for any
  numbers of messages, consumers, returns and failures;
* `RequestsProofs`: `AcceptedOwn`, `ConflictTrue`, for any numbers of clients, keys, configurations and
  failures, assuming that keys and drawn ids differ (UUIDs of versions 5 and 4 do);
* `PublishingProofs`: `FilesIntact`, `EndedMarked`, `TrackingIsWhole` (`UnmarkedTrackingWhole`),
  `TrackingIsContained` (`TrackingContained`), `SmokeStackPasses` (`SmokeSpec => []SmokePasses`), for
  any numbers of workers, attempts and iterations and any scenarios.

Each of them also proves its `InvInvariant` or `TypeCorrect`. `Inv`, `FenceInv` and `FaultInv` appear
in no run: their theorems say more than a run could.

*Why an invariant is needed.* `NoLostJob` alone is not inductive. `Settle` deletes a message, and
the property survives only because the action `ack` is chosen for terminal records and the
receipt is for a message of that very experiment; `Mark` sets the dispatch mark, and survives only
because the message it sent is still there or the experiment ended. Likewise an upload is applied
to the present record, and is right only because an ETag that is still current stands for a record
with the owner, status and flag that the callback saw. `Inv` says these things, one part per kind
of object:

* `RecordInv`: lease, status and cancellation flag of a record agree;
* `WorkerInv`: an idle worker has forgotten everything (`IdleWorker`); a delivery's decisions agree
  with its record (`DeliveryInv`: an `ack` only for a terminal record, a `cancelled` verdict only
  for an accepted cancellation), and its current ETags stand for its own claim (`FreshInv`);
* `MessageInv`: messages are for existing records, a valid receipt belongs to the delivery its
  worker is busy with, for the same message and experiment;
* `DispatchInv`: a dispatch before its mark has its message in the queue, or the record is terminal;
* `TypeOK` and `NoLostJob` themselves.

*The argument.* Mutations keep a record well formed and never withdraw existence, an accepted
cancellation or a terminal status (`Callbacks`, relation `Follows`). Because of that a worker that
takes no step keeps its part (`WorkerKept`): every write makes its ETag stale, and the expiry of a
lease, which does not, changes nothing a callback looks at again. What remains is the acting
thread: `LocalStep`, `WriteStep`, `QueueStep`, `RecordStep`, `SharedStep`, `ReceiptStep` and
`DeliveryEnds` give one argument for each kind of step, and one lemma per action shows of which
kind it is. `JobPlatformRefinement` adds `StepChangesOneRecord`: a step changes at most one record,
by one of the mutations, under the condition the code gave it; finality and the refinement are
then about two records, and not about the platform.

*Fencing.* That histories and results belong to one attempt needs to be said of every worker, the
overtaken ones included. `FenceInv` adds to the four properties how far each attempt has come
(`ProgressInv`): before its first metric the latest attempt finds any history, after that exactly the
points it reported, or one more if the upload of that one landed without an answer. A step is of one
of four kinds (`StepsHaveKinds`): it creates a record, claims one, lands an upload, or leaves records
alone while deliveries go on (`Goes`, `Quiet`). A claim raises the attempt number, so that all
deliveries under way are older ones from then on; an upload lands only if its ETag is current, and
then `Inv` says that the worker still owns the record: its attempt is the latest. So an overtaken
worker is quiet whatever it does, which is `StaleFenced`.

*Reruns.* `RerunsNeedFaults` bounds a count by a count, and the invariant says which failure stands
for which attempt. An attempt is *secure* (`Secures`) while its worker owns the lease, holds the
receipt of a hidden message, has not been told to stop and has seen no refresh fail: without a failure
it will end the experiment. A worker that is about to claim is *doomed* (`Dooming`) if it was told to
stop or its message was lost already: its attempt will come to nothing, and the failure that will be
the reason has happened before. `FaultInv` says that attempts and doomed workers together are at most
the failures, and one more while the experiment is secure or terminal. The doomed have to be counted:
the failure of a shutdown between `Receive` and `Claim` pays for an attempt that does not exist yet.
Every step is then of one of three kinds (`StepPaid`): `Calm` (nothing is counted, and what was secure
stays so: `Onward` for the worker that takes the step, `Apart` for the others), `Costs` (a failure
takes one secure attempt or dooms one worker, never both) or `Begins` (a claim, possible only if
nothing is secure; the new attempt is secure, or its worker was doomed, or the claim itself failed).

*The repositories.* That the files are atomic rests on the lock: a writer past `Lock` is its holder,
and what it is about to write is the present record with its own change (`CallInv`), so `Replace` is
the abstract `Change` and everything else a stutter or an answer. In the blob repository there is no
such holder. There every copy is a prefix of the present blob, and as ETags of different records
differ, a copy whose ETag is current *is* the blob (`SameETag`); `Upload` is then the abstract
`Change`. `GivingUp` needs one more invariant (`RoundInv`): the rounds a caller has lost are at most the
changes by others in the record, its creation not counted, and the caller's own lost answers; a round
that is about to be lost has one of these to its account already. The first change is a creation by
somebody else (`CreatedFirst`). The answers rest on counting a call's changes in the record
(`CountInv`): with files there is one exactly if `os.replace` was reached, with blobs at most one more
than the call lost answers.

*The engine.* The budget suffices because the cost so far is at most one unit per iteration made, and
validation and `Iterations` leave one unit per iteration in the budget (`ConfigFacts`,
`NextAffordable`); a first evaluation is therefore always made, and the error branch of `Finish`
never taken. A completed run is whole because the run's best is the best of what it evaluated so far,
and because the record has counted every evaluation that the run went past.

What the record shows is compared with a reference run, whose costs are a recursive function
(`CostOf`). That it exists, and what it sums up, takes an induction over the iterations, which is done
with sets of numbers: the least element of the numbers where the claim is wrong (`LeastElement`, from
the well-foundedness of `<`) cannot exist (`Induction`, `Costs`). `HistoryInv` then says that the
record holds the first `evaluations` points of the reference run with their cost, progress and best
(`RecordSays`), and that an attempt repeats that run and goes on where its last report left the record
(`AttemptSays`). A report of point `i` therefore replaces the record's points by exactly the first
`i + 1`: it lengthens the history by one, or is the first report of a new attempt.

*The queues.* A valid receipt belongs to the consumer that received its message last, and no two hands
hold one for the same message (`ReceiptInv`). So the mapping's taker is defined, a settlement that the
service accepts is the abstract `Acknowledge` or `Release`, and a refused one a stutter. In memory a
job is in one place (`MemoryInv`): unsent, in the queue once, in the hands of one thread, acknowledged
by one thread, or dropped by a thread that died. Each step moves one job from a place to the next, and
the mapping sees a step of `DeliveryQueue` or nothing.

*Requests.* A stored configuration never changes, and a drawn id belongs to the call that drew it. A
call in `conflict` can find its own upload under its own id, or one of the same key; in both cases
what it compares with is what stays stored.

*Publishing.* An attempt places its files one after the other under its own path, and no other attempt
has that path; when it completes the record all of them are there, and it never puts a file again.

*Tracking.* What the mark in the record excuses is anything that befell the tracking of the latest
attempt; while neither the mark nor a cut says so, its worker knows where its run is (`TrackingInv`):
the run is active on its thread, it has all points reported so far, and once the record is completed the
run is finished, or is about to be, or the worker is about to set the mark. Steps that give an attempt
up (`GivesUp`: the attempt limit, the engine, a cancellation, a lost lease) move the worker and nothing
else, and only before the record is completed. Runs of overtaken attempts need nothing said about them,
as a run is written by the worker of its attempt only (`ThreadInv`). For `TrackingContained` the
invariant says of each scenario what it leaves without a trace (`ScenarioInv`): without storage failures
and crashes no attempt is cut short; without storage and engine failures and cancellations a record ends
failed, and a worker is in the failure handler, only beyond the attempt limit; and if tracking alone
fails the first attempt is under way or has completed, which takes that the limit is at least one.
`SmokePasses` needs in addition that the script has seen a status of the record that is final
(`SmokeInv`).

*Only model-checked:* liveness, which rests on fairness and ENABLED and is beyond the prover:
`EventuallyTerminal`, `EveryCallAnswered`, `AcceptedJobsDone`, `DuplicatesDrained`, `StopHonoured`,
`JobsRedelivered`, `RequestsAnswered`. Every other property of a passing run has a theorem.

## 6. Disagreements between documents and code

1. `docs/ARCHITECTURE.md` 37-38: "Expired owners cannot commit metrics or terminal state." The
   lease is compared with the clock in the callback (`worker.py` 90) and the upload is conditional
   on the ETag only. A worker that stalls between the two commits after its lease expired, as long
   as nobody took over (`ExpiredOwnersCannotCommit` is violated; `StaleOwnersFenced`, which speaks
   of owners that were taken over, holds).
2. `docs/ARCHITECTURE.md` 26-30: the state diagram leaves `cancelling` only for `cancelled`. A
   claim shows `running` again (`worker.py` 110), and an attempt under cancellation may end
   requeued or failed (`worker.py` 313-344) (`CancellingOnlyEndsCancelled` is violated). The flag
   survives, so the cancellation is still honoured (`CancelHonoured`).
3. `docs/ARCHITECTURE.md` 41-42: "Idle workers reconcile unsent jobs every 30 seconds." `iter_records`
   parses every record inside the scan, and a record with the fields of another version does not
   parse. The exception ends the scan there, is caught by `run_forever` (`worker.py` 382), resets no
   timer and skips `run_once`; the next pass does the same. No unsent job listed after that record is
   ever sent, and the worker receives nothing at all (`UnsentReconciled` is violated;
   `AcceptedJobsDone` says what is still done). This one is a bug.

One more observation, which contradicts no document: `ExperimentTracker.close` swallows a failure of
`end_run`, so the run of a worker that had to close it this way stays open at the tracking server and
nothing is marked. It concerns attempts without a `finish` only; `UnmarkedTrackingWhole` holds.

## 7. Plan

`JobPlatform`, both repositories, the engine, both queues, requests, the worker's loop, tracking and
artifacts, and the smoke test are modelled and checked, and all their safety properties and refinements
are proved. What could follow:

1. That the queue inside `JobPlatform` is a `DeliveryQueue`, and its records `AtomicRecord`s: the
   composition that section 2 argues in words. `JobPlatform` uses its queue slots again and keeps no
   list of changes, so this needs history variables for both.
2. The safety part of the worker's loop: which exceptions skip which steps.
3. That the abstract record keeps every acknowledged mutation, as a property of `AtomicRecord`.
4. Larger instances of `core` (two experiments) outside the regular runs.

## 8. Not modelled

Validation of configurations beyond the engine's limits, authentication beyond admitted or not,
response shapes, reads and readiness of the API, health checks, the layout of plots, tags, timestamps
and failure texts, telemetry and logging, the CLI, settings and factories (besides the choice of the
queue), Kubernetes and compose files, Azure setup scripts, `verify_aks.py`, `api_latency.py` and the
report of the scaling benchmark: they keep no state the protocol depends on. Of the smoke test, its
timeout and its reads of metrics and recommendation are left out, of the in-memory queue its
`dequeue_count` and `task_done` accounting, which nothing waits for. The deployment is used for two
facts only: there are at least two workers, and a container that exits is started again.
`PROJECT.json` gives the status of each part.
