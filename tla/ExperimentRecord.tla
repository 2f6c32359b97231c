-------------------------- MODULE ExperimentRecord --------------------------
(***************************************************************************)
(* The durable experiment record (domain.py, ExperimentRecord) and the     *)
(* mutation callbacks that the API service and the workers hand to         *)
(* ExperimentRepository.mutate.  Every operator here is a function from    *)
(* record to record; who may apply it, and when, is in JobPlatform.        *)
(*                                                                         *)
(* Data abstractions.  A lease expiry time is the Boolean `leased': it is  *)
(* set and still in the future.  (The code treats an absent expiry and a   *)
(* past one alike, worker.py 89-90, 100.)  A worker stands for the UUID    *)
(* process() draws for one delivery: a worker runs one delivery at a time. *)
(* A metric point is the attempt that measured it, 0 when there is none.   *)
(* The result is the attempt whose artifact directory the record names.    *)
(***************************************************************************)
EXTENDS Naturals

CONSTANTS
    Workers,     \* worker processes
    NoWorker,    \* lease_owner is None
    Iterations,  \* evaluations of one complete engine run
    MaxAttempts  \* Settings.worker_max_attempts

ASSUME NoWorkerAssumption    == NoWorker \notin Workers
ASSUME IterationsAssumption  == Iterations \in Nat \ {0}
ASSUME MaxAttemptsAssumption == MaxAttempts \in Nat \ {0}

Points == 0 .. Iterations - 1

TerminalStatuses == {"cancelled", "completed", "failed"}

\* ExperimentStatus, and "absent" for an experiment that was not created yet.
Statuses == {"absent", "queued", "running", "cancelling"} \cup TerminalStatuses

Records ==
    [status : Statuses, cancelRequested : BOOLEAN, dispatched : BOOLEAN,
     leaseOwner : Workers \cup {NoWorker}, leased : BOOLEAN, attempts : Nat,
     history : [Points -> Nat], result : Nat]

Terminal(r) == r.status \in TerminalStatuses

Exists(r) == r.status # "absent"

NoHistory == [i \in Points |-> 0]

AbsentRecord ==
    [status |-> "absent", cancelRequested |-> FALSE, dispatched |-> FALSE,
     leaseOwner |-> NoWorker, leased |-> FALSE, attempts |-> 0,
     history |-> NoHistory, result |-> 0]

-----------------------------------------------------------------------------
\* Service side.

NewRecord == [AbsentRecord EXCEPT !.status = "queued"]

Dispatched(r) == [r EXCEPT !.dispatched = TRUE]

\* Mutated form: a cancellation also moves a terminal experiment.
CancelRequestedAnyTime(r) == [r EXCEPT !.cancelRequested = TRUE, !.status = "cancelling"]

CancelRequested(r) ==
    IF Terminal(r) THEN r
    ELSE [r EXCEPT !.cancelRequested = TRUE, !.status = "cancelling"]

-----------------------------------------------------------------------------
\* Worker side.

\* Mutated form: a claim does not look at the lease.
ClaimableWhileLeased(r) == ~Terminal(r)

Claimable(r) == ~Terminal(r) /\ ~r.leased

\* Mutated form: taking over a running experiment is not counted.
ClaimedUncounted(r, w) ==
    [r EXCEPT !.leaseOwner = w, !.leased = TRUE, !.status = "running",
              !.attempts = IF r.status = "running" THEN @ ELSE @ + 1]

Claimed(r, w) ==
    [r EXCEPT !.leaseOwner = w, !.leased = TRUE, !.attempts = @ + 1, !.status = "running"]

\* Mutated forms: the guard forgets the owner, or the terminal test.
OwnedByAnyone(r, w) == r.leased /\ ~Terminal(r)

OwnedByEnded(r, w) == r.leaseOwner = w /\ r.leased

\* What _owned demands before it runs the callback.
OwnedBy(r, w) == r.leaseOwner = w /\ r.leased /\ ~Terminal(r)

Renewed(r) == [r EXCEPT !.leased = TRUE]

\* Mutated form: the history of earlier attempts stays.
WithMetricKept(r, i, a) == [r EXCEPT !.history[i] = a]

\* The observation of iteration 0 discards the history of earlier attempts.
WithMetric(r, i, a) ==
    [r EXCEPT !.history = [(IF i = 0 THEN NoHistory ELSE r.history) EXCEPT ![i] = a]]

Completed(r, a) == [r EXCEPT !.status = "completed", !.result = a]

\* Mutated form: finishing keeps the lease.
FinishedLeased(r, s) == [r EXCEPT !.status = s]

Finished(r, s) == [r EXCEPT !.status = s, !.leased = FALSE]
=============================================================================
