----------------------------- MODULE JobPlatform -----------------------------
(***************************************************************************)
(* The experiment platform on Azure storage: API requests and workers that *)
(* share one blob per experiment and one at-least-once storage queue.      *)
(* Modelled from service.py, worker.py, queueing.py (AzureStorageJobQueue) *)
(* and repositories.py (AzureBlobExperimentRepository.mutate).             *)
(*                                                                         *)
(* A mutation whose callback depends on the record alone is one atomic     *)
(* step: the ETag makes it take effect on the record it read.  A mutation  *)
(* through _owned also reads the clock, when the callback runs, so it is   *)
(* two steps: a read that evaluates the lease guard and an upload that     *)
(* lands only if the ETag still matches.  `current[e]' is the set of       *)
(* threads whose last read of e still has the current ETag.                *)
(*                                                                         *)
(* Tracking is switched off here (mlflow_tracking_uri is None, which makes *)
(* every tracker call a no-op).                                            *)
(***************************************************************************)
EXTENDS ExperimentRecord, FiniteSets

CONSTANTS
    Experiments,   \* experiments, each with the idempotency key of its request
    Clients,       \* API request handlers
    Messages,      \* slots of the storage queue (a bound)
    NoExperiment,
    NoMessage,
    MaxFaults      \* failures of the environment in one behaviour (a bound)

ASSUME ClientsAssumption      == Clients \cap Workers = {}
ASSUME NoExperimentAssumption == NoExperiment \notin Experiments
ASSUME NoMessageAssumption    == NoMessage \notin Messages
ASSUME MaxFaultsAssumption    == MaxFaults \in Nat

VARIABLES
    rec,      \* rec[e]     : the state blob of experiment e
    current,  \* current[e] : the threads that hold the blob's present ETag
    queue,    \* queue[m]   : storage queue; holder has the valid pop receipt
    disp,     \* disp[t]    : the dispatch() call thread t is in
    worker,   \* worker[w]  : local state of process() and of its LeaseRenewer
    stop,     \* stop[w]    : stop_event, set by SIGTERM
    faults    \* failures so far

vars == <<rec, current, queue, disp, worker, stop, faults>>

Dispatchers == Clients \cup Workers

Threads == Workers \X {"main", "renewer"}

FreeSlot == [exp |-> NoExperiment, state |-> "free", holder |-> NoWorker]

NotDispatching == [step |-> "idle", exp |-> NoExperiment]

IdleWorker ==
    [pc |-> "idle", job |-> NoMessage, target |-> NoExperiment, attempt |-> 0,
     iter |-> 0, verdict |-> "none", action |-> "none", refresh |-> "off",
     lost |-> FALSE]

ReadSteps  == {"metric", "complete", "finish"}
WriteSteps == {"metricWrite", "completeWrite", "finishWrite"}

PCs == {"idle", "received", "claim", "enter", "check", "settle"}
          \cup ReadSteps \cup WriteSteps

QueueEntries ==
    [exp : Experiments \cup {NoExperiment}, state : {"free", "visible", "hidden"},
     holder : Workers \cup {NoWorker}]

Dispatches ==
    [step : {"idle", "send", "mark"}, exp : Experiments \cup {NoExperiment}]

WorkerStates ==
    [pc : PCs, job : Messages \cup {NoMessage},
     target : Experiments \cup {NoExperiment}, attempt : Nat, iter : 0 .. Iterations,
     verdict : {"none", "queued", "cancelled", "failed"},
     action : {"none", "ack", "abandon"},
     refresh : {"off", "due", "lease", "write"}, lost : BOOLEAN]

\* Every variable keeps its type (domain.py 14-24, 88-114; queueing.py 13-17): attempts
\* are counted, receipts name a worker, and no attempt runs past the last iteration.
TypeOK ==
    /\ rec \in [Experiments -> Records]
    /\ current \in [Experiments -> SUBSET Threads]
    /\ queue \in [Messages -> QueueEntries]
    /\ disp \in [Dispatchers -> Dispatches]
    /\ worker \in [Workers -> WorkerStates]
    /\ stop \in [Workers -> BOOLEAN]
    /\ faults \in 0 .. MaxFaults

Init ==
    /\ rec = [e \in Experiments |-> AbsentRecord]
    /\ current = [e \in Experiments |-> {}]
    /\ queue = [m \in Messages |-> FreeSlot]
    /\ disp = [t \in Dispatchers |-> NotDispatching]
    /\ worker = [w \in Workers |-> IdleWorker]
    /\ stop = [w \in Workers |-> FALSE]
    /\ faults = 0

-----------------------------------------------------------------------------
\* Storage primitives.

Fault == faults < MaxFaults /\ faults' = faults + 1

\* An upload of r to e's blob lands: every ETag read before it is stale.
Write(e, r) ==
    /\ rec' = [rec EXCEPT ![e] = r]
    /\ current' = [current EXCEPT ![e] = {}]

\* Worker w's local state becomes k.
Become(w, k) == worker' = [worker EXCEPT ![w] = k]

Goto(w, p) == Become(w, [worker[w] EXCEPT !.pc = p])

SettleBy(w, action) == Become(w, [worker[w] EXCEPT !.pc = "settle", !.action = action])

\* Mutated form: uploads carry no match condition.
FreshAlways(w, thread) == TRUE

Fresh(w, thread) == <<w, thread>> \in current[worker[w].target]

ReadBy(w, thread) ==
    current' = [current EXCEPT ![worker[w].target] = @ \cup {<<w, thread>>}]

HoldsReceipt(w) ==
    worker[w].job \in Messages /\ queue[worker[w].job].holder = w

Owns(w) == OwnedBy(rec[worker[w].target], w)

-----------------------------------------------------------------------------
\* API and dispatch (service.py).

\* Room for every dispatch under way (a bound on the queue's length).
Room ==
    Cardinality({t \in Dispatchers : disp[t].step = "send"})
        < Cardinality({m \in Messages : queue[m].state = "free"})

Submit(c, e) ==
    /\ disp[c].step = "idle" /\ Room
    /\ ~Exists(rec[e])
    /\ Write(e, NewRecord)
    /\ disp' = [disp EXCEPT ![c] = [step |-> "send", exp |-> e]]
    /\ UNCHANGED <<queue, worker, stop, faults>>

\* dispatch() of a record read earlier: nothing to do if it was dispatched.
StartDispatch(t, e) ==
    /\ disp[t].step = "idle" /\ Room
    /\ Exists(rec[e]) /\ ~rec[e].dispatched /\ ~Terminal(rec[e])
    /\ disp' = [disp EXCEPT ![t] = [step |-> "send", exp |-> e]]
    /\ UNCHANGED <<rec, current, queue, worker, stop, faults>>

\* The request is repeated under its idempotency key.
Resubmit(c, e) == StartDispatch(c, e)

Reconcile(w, e) ==
    /\ worker[w].pc = "idle" /\ ~stop[w]
    /\ StartDispatch(w, e)

Enqueue(m, e) ==
    /\ queue[m].state = "free"
    /\ queue' = [queue EXCEPT ![m] = [exp |-> e, state |-> "visible", holder |-> NoWorker]]

Send(t) ==
    /\ disp[t].step = "send"
    /\ \E m \in Messages : Enqueue(m, disp[t].exp)
    /\ disp' = [disp EXCEPT ![t].step = "mark"]
    /\ UNCHANGED <<rec, current, worker, stop, faults>>

Mark(t) ==
    /\ disp[t].step = "mark"
    /\ Write(disp[t].exp, Dispatched(rec[disp[t].exp]))
    /\ disp' = [disp EXCEPT ![t] = NotDispatching]
    /\ UNCHANGED <<queue, worker, stop, faults>>

\* Sending or marking raises, or the API process dies, before it took effect.
DispatchFails(t) ==
    /\ Fault
    /\ disp[t].step # "idle"
    /\ disp' = [disp EXCEPT ![t] = NotDispatching]
    /\ UNCHANGED <<rec, current, queue, worker, stop>>

\* The message is in the queue and the answer is lost.
SendUnacknowledged(t) ==
    /\ Fault
    /\ disp[t].step = "send"
    /\ \E m \in Messages : Enqueue(m, disp[t].exp)
    /\ disp' = [disp EXCEPT ![t] = NotDispatching]
    /\ UNCHANGED <<rec, current, worker, stop>>

Cancel(e) ==
    /\ Exists(rec[e])
    /\ Write(e, CancelRequested(rec[e]))
    /\ UNCHANGED <<queue, disp, worker, stop, faults>>

-----------------------------------------------------------------------------
\* Worker: one delivery, from receive to settlement (worker.py, process).

\* LeaseLostError, or an exception outside the inner try: settle with no action.
GiveUp(w) == Goto(w, "settle")

\* An exception inside the inner try that would end the attempt as verdict v.
Raise(w, v) ==
    IF worker[w].lost THEN GiveUp(w)
    ELSE Become(w, [worker[w] EXCEPT !.pc = "finish", !.verdict = v])

Receiving(k, m, e) == [k EXCEPT !.pc = "received", !.job = m, !.target = e]

Receive(w, m) ==
    /\ worker[w].pc = "idle" /\ disp[w].step = "idle" /\ ~stop[w]
    /\ queue[m].state = "visible"
    /\ queue' = [queue EXCEPT ![m].state = "hidden", ![m].holder = w]
    /\ Become(w, Receiving(worker[w], m, queue[m].exp))
    /\ UNCHANGED <<rec, current, disp, stop, faults>>

LoadRecord(w) ==
    /\ worker[w].pc = "received"
    /\ IF Terminal(rec[worker[w].target])
         THEN SettleBy(w, "ack")
         ELSE Goto(w, "claim")
    /\ UNCHANGED <<rec, current, queue, disp, stop, faults>>

\* Mutated form: the limit is off by one.
ClaimVerdictLate(r) ==
    IF r.cancelRequested THEN "cancelled"
    ELSE IF r.attempts > MaxAttempts + 1 THEN "failed" ELSE "none"

\* What process() decides from the record its claim returned.
ClaimVerdict(r) ==
    IF r.cancelRequested THEN "cancelled"
    ELSE IF r.attempts > MaxAttempts THEN "failed" ELSE "none"

\* The delivery in state k claimed the record and got r.
Entering(k, r) ==
    [k EXCEPT !.pc = "enter", !.attempt = r.attempts, !.verdict = ClaimVerdict(r),
              !.refresh = "due"]

Claim(w) ==
    LET e == worker[w].target
        r == Claimed(rec[e], w)
    IN  /\ worker[w].pc = "claim"
        /\ Claimable(rec[e])
        /\ Write(e, r)
        /\ Become(w, Entering(worker[w], r))
        /\ UNCHANGED <<queue, disp, stop, faults>>

ClaimRefused(w) ==
    /\ worker[w].pc = "claim"
    /\ ~Claimable(rec[worker[w].target])
    /\ GiveUp(w)
    /\ UNCHANGED <<rec, current, queue, disp, stop, faults>>

\* Mutated form: one iteration too many.
MoreThanAll(w) == worker[w].iter <= Iterations

\* The loop of the engine.
More(w) == worker[w].iter < Iterations

\* cancelled(): the lease guard, then the flag.  Once all iterations are done it
\* is asked a last time; the stop event counts only between iterations.
Check(w) ==
    LET r == rec[worker[w].target]
    IN  /\ worker[w].pc = "check"
        /\ IF worker[w].lost \/ r.leaseOwner # w \/ ~r.leased THEN GiveUp(w)
           ELSE IF r.cancelRequested THEN Raise(w, "cancelled")
           ELSE IF More(w) /\ stop[w] THEN Raise(w, "queued")
           ELSE Goto(w, IF More(w) THEN "metric" ELSE "complete")
        /\ UNCHANGED <<rec, current, queue, disp, stop, faults>>

\* Mutated form: completing does not look at the flag again.
CancelUnseen(w) == FALSE

CancelSeen(w) == worker[w].pc = "complete" /\ rec[worker[w].target].cancelRequested

WriteStepOf(step) ==
    CASE step = "metric"   -> "metricWrite"
      [] step = "complete" -> "completeWrite"
      [] step = "finish"   -> "finishWrite"

\* First half of an _owned mutation: the callback runs on the record just read.
Read(w, step) ==
    /\ worker[w].pc = step
    /\ IF ~Owns(w) THEN GiveUp(w) /\ UNCHANGED current
       ELSE IF CancelSeen(w) THEN Raise(w, "cancelled") /\ UNCHANGED current
       ELSE /\ Goto(w, WriteStepOf(step))
            /\ ReadBy(w, "main")
    /\ UNCHANGED <<rec, queue, disp, stop, faults>>

ReadMetric(w)   == Read(w, "metric")
ReadComplete(w) == Read(w, "complete")
ReadFinish(w)   == Read(w, "finish")

\* Second half: the record the callback made, uploaded if the ETag is current.
MetricRecord(w)   == WithMetric(rec[worker[w].target], worker[w].iter, worker[w].attempt)
CompleteRecord(w) == Completed(rec[worker[w].target], worker[w].attempt)
FinishRecord(w)   == Finished(rec[worker[w].target], worker[w].verdict)

Upload(w, step, r) ==
    /\ worker[w].pc = step
    /\ Fresh(w, "main")
    /\ Write(worker[w].target, r)

WriteMetric(w) ==
    /\ Upload(w, "metricWrite", MetricRecord(w))
    /\ Become(w, [worker[w] EXCEPT !.pc = "check", !.iter = @ + 1])
    /\ UNCHANGED <<queue, disp, stop, faults>>

WriteComplete(w) ==
    /\ Upload(w, "completeWrite", CompleteRecord(w))
    /\ SettleBy(w, "ack")
    /\ UNCHANGED <<queue, disp, stop, faults>>

\* Mutated form: a requeued experiment's message is acknowledged as well.
FinishActionAck(v) == "ack"

FinishAction(v) == IF v = "queued" THEN "abandon" ELSE "ack"

WriteFinish(w) ==
    /\ Upload(w, "finishWrite", FinishRecord(w))
    /\ SettleBy(w, FinishAction(worker[w].verdict))
    /\ UNCHANGED <<queue, disp, stop, faults>>

ReadStepOf(step) ==
    CASE step = "metricWrite"   -> "metric"
      [] step = "completeWrite" -> "complete"
      [] step = "finishWrite"   -> "finish"

\* ResourceModifiedError: mutate starts over with a new read.
Retry(w) ==
    /\ worker[w].pc \in WriteSteps
    /\ ~Fresh(w, "main")
    /\ Goto(w, ReadStepOf(worker[w].pc))
    /\ UNCHANGED <<rec, current, queue, disp, stop, faults>>

-----------------------------------------------------------------------------
\* Lease refresh: __enter__ runs it in the main thread (pc = "enter"), then the
\* renewer thread runs it every third of the timeout until __exit__.

RefreshFailed(w) ==
    IF worker[w].pc = "enter"
      THEN Become(w, [worker[w] EXCEPT !.pc = "settle", !.refresh = "off"])
      ELSE Become(w, [worker[w] EXCEPT !.lost = TRUE, !.refresh = "off"])

RefreshQueue(w) ==
    /\ worker[w].refresh = "due" /\ worker[w].pc # "settle"
    /\ IF HoldsReceipt(w)
         THEN /\ queue' = [queue EXCEPT ![worker[w].job].state = "hidden"]
              /\ Become(w, [worker[w] EXCEPT !.refresh = "lease"])
         ELSE RefreshFailed(w) /\ UNCHANGED queue
    /\ UNCHANGED <<rec, current, disp, stop, faults>>

ReadLease(w) ==
    /\ worker[w].refresh = "lease"
    /\ IF Owns(w) THEN /\ Become(w, [worker[w] EXCEPT !.refresh = "write"])
                       /\ ReadBy(w, "renewer")
                  ELSE RefreshFailed(w) /\ UNCHANGED current
    /\ UNCHANGED <<rec, queue, disp, stop, faults>>

\* After __enter__ the verdict of the claim decides how the attempt goes on.
Entered(p, v) ==
    IF p # "enter" THEN p ELSE IF v = "none" THEN "check" ELSE "finish"

WriteLease(w) ==
    /\ worker[w].refresh = "write"
    /\ Fresh(w, "renewer")
    /\ Write(worker[w].target, Renewed(rec[worker[w].target]))
    /\ Become(w, [worker[w] EXCEPT !.refresh = "due",
                              !.pc = Entered(worker[w].pc, worker[w].verdict)])
    /\ UNCHANGED <<queue, disp, stop, faults>>

RetryLease(w) ==
    /\ worker[w].refresh = "write"
    /\ ~Fresh(w, "renewer")
    /\ Become(w, [worker[w] EXCEPT !.refresh = "lease"])
    /\ UNCHANGED <<rec, current, queue, disp, stop, faults>>

\* __exit__ joins the renewer, then the finally block settles the message.
Joined(w) == worker[w].pc = "settle" /\ worker[w].refresh \in {"off", "due"}

Settled(m, action) ==
    CASE action = "ack"     -> FreeSlot
      [] action = "abandon" -> [queue[m] EXCEPT !.state = "visible", !.holder = NoWorker]
      [] action = "none"    -> [queue[m] EXCEPT !.holder = NoWorker]

\* A receipt that is no longer valid settles nothing; the error is only logged.
Settle(w) ==
    LET m == worker[w].job
    IN  /\ Joined(w)
        /\ queue' = IF HoldsReceipt(w)
                      THEN [queue EXCEPT ![m] = Settled(m, worker[w].action)]
                      ELSE queue
        /\ Become(w, IdleWorker)
        /\ UNCHANGED <<rec, current, disp, stop, faults>>

\* run_forever has returned and Kubernetes starts the container again.
Replace(w) ==
    /\ stop[w] /\ worker[w].pc = "idle" /\ disp[w].step = "idle"
    /\ stop' = [stop EXCEPT ![w] = FALSE]
    /\ UNCHANGED <<rec, current, queue, disp, worker, faults>>

-----------------------------------------------------------------------------
\* Time.  While somebody refreshes a timeout its expiry is a stall: a fault.

Charge(unexpected) == IF unexpected THEN Fault ELSE UNCHANGED faults

Renewing(w, e) == worker[w].target = e /\ worker[w].refresh # "off"

Lapse(e) ==
    /\ rec[e].leased /\ ~Terminal(rec[e])
    /\ Charge(\E w \in Workers : rec[e].leaseOwner = w /\ Renewing(w, e))
    /\ rec' = [rec EXCEPT ![e].leased = FALSE]
    /\ UNCHANGED <<current, queue, disp, worker, stop>>

\* A receipt outlives its timeout until the message is received again.
Attended(m) ==
    \E w \in Workers :
        /\ queue[m].holder = w
        /\ worker[w].refresh # "off" \/ worker[w].pc \in {"received", "claim", "settle"}

Reappear(m) ==
    /\ queue[m].state = "hidden"
    /\ Charge(Attended(m))
    /\ queue' = [queue EXCEPT ![m].state = "visible"]
    /\ UNCHANGED <<rec, current, disp, worker, stop>>

-----------------------------------------------------------------------------
\* Faults.

Shutdown(w) ==
    /\ Fault
    /\ ~stop[w]
    /\ stop' = [stop EXCEPT ![w] = TRUE]
    /\ UNCHANGED <<rec, current, queue, disp, worker>>

\* How an exception at the main thread's present step ends the attempt.
Throw(w) ==
    IF worker[w].pc \in {"received", "claim", "finish", "finishWrite"}
      THEN GiveUp(w)
      ELSE Raise(w, "failed")

\* A storage call raises before it took effect, or mutate ran out of tries, or
\* the engine raises an error that is not retryable.
CallFails(w) ==
    /\ Fault
    /\ worker[w].pc \in {"received", "claim", "check"} \cup ReadSteps \cup WriteSteps
    /\ Throw(w)
    /\ UNCHANGED <<rec, current, queue, disp, stop>>

\* The engine raises a retryable EngineError.
EngineFails(w) ==
    /\ Fault
    /\ worker[w].pc = "check"
    /\ Raise(w, IF worker[w].attempt < MaxAttempts THEN "queued" ELSE "failed")
    /\ UNCHANGED <<rec, current, queue, disp, stop>>

\* An upload lands and its answer is lost: either the error reaches process()
\* or the client library sends again, is told the ETag changed and mutate rereads.
UploadUnacknowledged(w) ==
    /\ Fault
    /\ \/ Upload(w, "metricWrite", MetricRecord(w))
       \/ Upload(w, "completeWrite", CompleteRecord(w))
       \/ Upload(w, "finishWrite", FinishRecord(w))
    /\ \/ Throw(w)
       \/ Goto(w, ReadStepOf(worker[w].pc))
    /\ UNCHANGED <<queue, disp, stop>>

ClaimUnacknowledged(w) ==
    LET e == worker[w].target
    IN  /\ Fault
        /\ worker[w].pc = "claim" /\ Claimable(rec[e])
        /\ Write(e, Claimed(rec[e], w))
        /\ GiveUp(w)
        /\ UNCHANGED <<queue, disp, stop>>

\* Refreshing raises: before the queue call, after it landed (its new receipt is
\* lost), or around the lease upload, landed or not.
RefreshFails(w) ==
    /\ Fault
    /\ worker[w].refresh # "off" /\ worker[w].pc # "settle"
    /\ RefreshFailed(w)
    /\ \/ UNCHANGED <<rec, current, queue>>
       \/ /\ worker[w].refresh = "due" /\ HoldsReceipt(w)
          /\ queue' = [queue EXCEPT ![worker[w].job].state = "hidden",
                                    ![worker[w].job].holder = NoWorker]
          /\ UNCHANGED <<rec, current>>
       \/ /\ worker[w].refresh = "write" /\ Fresh(w, "renewer")
          /\ Write(worker[w].target, Renewed(rec[worker[w].target]))
          /\ UNCHANGED queue
    /\ UNCHANGED <<disp, stop>>

\* The settling call fails: the message stays hidden until its timeout.
SettleFails(w) ==
    /\ Fault
    /\ Joined(w) /\ HoldsReceipt(w)
    /\ queue' = [queue EXCEPT ![worker[w].job].holder = NoWorker]
    /\ Become(w, IdleWorker)
    /\ UNCHANGED <<rec, current, disp, stop>>

\* The worker process dies and is restarted: its receipt is gone.
Crash(w) ==
    /\ Fault
    /\ worker[w].pc # "idle" \/ disp[w].step # "idle"
    /\ queue' = [m \in Messages |->
                   IF queue[m].holder = w THEN [queue[m] EXCEPT !.holder = NoWorker]
                                          ELSE queue[m]]
    /\ disp' = [disp EXCEPT ![w] = NotDispatching]
    /\ Become(w, IdleWorker)
    /\ stop' = [stop EXCEPT ![w] = FALSE]
    /\ UNCHANGED <<rec, current>>

-----------------------------------------------------------------------------
ServiceStep(t) ==
    \/ Send(t)
    \/ Mark(t)

WorkerStep(w) ==
    \/ LoadRecord(w)
    \/ Claim(w)
    \/ ClaimRefused(w)
    \/ Check(w)
    \/ ReadMetric(w)
    \/ WriteMetric(w)
    \/ ReadComplete(w)
    \/ WriteComplete(w)
    \/ ReadFinish(w)
    \/ WriteFinish(w)
    \/ Retry(w)
    \/ Settle(w)

RefreshStep(w) ==
    \/ RefreshQueue(w)
    \/ ReadLease(w)
    \/ WriteLease(w)
    \/ RetryLease(w)

WorkerFault(w) ==
    \/ Shutdown(w)
    \/ CallFails(w)
    \/ EngineFails(w)
    \/ UploadUnacknowledged(w)
    \/ ClaimUnacknowledged(w)
    \/ RefreshFails(w)
    \/ SettleFails(w)
    \/ Crash(w)

Next ==
    \/ \E c \in Clients, e \in Experiments : Submit(c, e) \/ Resubmit(c, e)
    \/ \E w \in Workers, e \in Experiments : Reconcile(w, e)
    \/ \E t \in Dispatchers : ServiceStep(t) \/ DispatchFails(t) \/ SendUnacknowledged(t)
    \/ \E e \in Experiments : Cancel(e) \/ Lapse(e)
    \/ \E w \in Workers, m \in Messages : Receive(w, m)
    \/ \E w \in Workers : WorkerStep(w) \/ RefreshStep(w) \/ Replace(w) \/ WorkerFault(w)
    \/ \E m \in Messages : Reappear(m)

Spec == Init /\ [][Next]_vars

(***************************************************************************)
(* Fairness.  Every thread that can go on does.  An upload that finds its  *)
(* ETag current again and again lands (SF): the renewer writes every third *)
(* of the timeout, the API on request.  The queue hands out a visible      *)
(* message in the end (SF: workers poll, but each is busy now and then),   *)
(* and a worker that returns to its loop reconciles (SF, every 30 s).      *)
(* Timeouts that nobody refreshes expire.  Clients, cancellations and      *)
(* faults are not fair.                                                    *)
(***************************************************************************)
Fairness ==
    /\ \A t \in Dispatchers : WF_vars(ServiceStep(t))
    /\ \A w \in Workers :
          /\ WF_vars(WorkerStep(w)) /\ WF_vars(RefreshStep(w)) /\ WF_vars(Replace(w))
          /\ SF_vars(WriteMetric(w) \/ WriteComplete(w) \/ WriteFinish(w))
          /\ SF_vars(WriteLease(w))
    /\ \A e \in Experiments :
          /\ SF_vars(\E w \in Workers : Reconcile(w, e))
          /\ WF_vars(Lapse(e) /\ UNCHANGED faults)
    /\ \A m \in Messages :
          /\ SF_vars(\E w \in Workers : Receive(w, m))
          /\ WF_vars(Reappear(m) /\ UNCHANGED faults)

FairSpec == Spec /\ Fairness

-----------------------------------------------------------------------------
\* Safety.

\* A dispatched experiment that is not terminal always has a message in the queue,
\* visible or hidden, for some worker to find: whatever acknowledgement, abandonment,
\* retry, crash or duplicate send came before (worker.py 345-363, service.py 61-74).
NoLostJob ==
    \A e \in Experiments :
        rec[e].dispatched /\ ~Terminal(rec[e])
            => \E m \in Messages : queue[m].state # "free" /\ queue[m].exp = e

\* w's execution of an attempt is under way.
Attempting(w) ==
    worker[w].refresh # "off" \/ worker[w].pc \in {"check"} \cup ReadSteps \cup WriteSteps

\* An attempt number identifies one execution: a worker whose attempt is the record's
\* latest is its owner and the only one, and every other execution is an older attempt
\* (the UUID owner of process() and _claim, worker.py 97-115, 173).
AttemptFencing ==
    \A w \in Workers :
        Attempting(w) =>
            LET r == rec[worker[w].target]
            IN  /\ worker[w].attempt \in 1 .. r.attempts
                /\ worker[w].attempt = r.attempts <=> r.leaseOwner = w

\* Only a failure makes the platform run an experiment again: duplicate messages,
\* repeated requests, reconciliation and cancellations alone never do ("Duplicate sends
\* are tolerated", docs/ARCHITECTURE.md 42; the lease test of _claim, worker.py 100-103).
RerunsNeedFaults == \A e \in Experiments : rec[e].attempts <= 1 + faults

\* Nothing an attempt beyond the limit did reaches the record (worker.py 205).
AttemptLimit ==
    \A e \in Experiments :
        rec[e].result <= MaxAttempts /\ \A i \in Points : rec[e].history[i] <= MaxAttempts

\* The history is a prefix of the iterations, all measured by one attempt: two attempts
\* are never mixed, and no iteration is skipped (worker.py 120-126).
OneAttemptHistory ==
    \A e \in Experiments : \E a \in 0 .. rec[e].attempts, n \in 0 .. Iterations :
        rec[e].history = [i \in Points |-> IF i < n THEN a ELSE 0]

\* A completed experiment names the artifacts of the attempt whose metrics it shows,
\* and has all of them (worker.py 246-279).
CompletedResultIntact ==
    \A e \in Experiments :
        rec[e].status = "completed" =>
            rec[e].result > 0 /\ rec[e].history = [i \in Points |-> rec[e].result]

\* An accepted cancellation wins over a completion that was under way, and only an
\* accepted cancellation cancels (worker.py 203, 244, 269; service.py 79-87).
CancelHonoured ==
    \A e \in Experiments :
        /\ rec[e].status = "completed" => ~rec[e].cancelRequested
        /\ rec[e].status = "cancelled" => rec[e].cancelRequested

\* A requeued experiment can be claimed at once: nobody holds a lease on it, and no late
\* renewal restores one (worker.py 331-344, 188-199).
RequeuedIsClaimable ==
    \A e \in Experiments : rec[e].status = "queued" => ~rec[e].leased

-----------------------------------------------------------------------------
\* Action properties.

\* A terminal record keeps its status, history and result for ever, whatever
\* finishing, cancelling or claiming follows (worker.py 88, 100; service.py 81).
TerminalFinal ==
    [][\A e \in Experiments :
         Terminal(rec[e]) => rec'[e] = [rec[e] EXCEPT !.dispatched = rec'[e].dispatched]]_vars

\* What an attempt leaves behind.
Outcome(r) == <<r.history, r.result, Terminal(r)>>

\* w executes the latest attempt at e.
Latest(w, e) ==
    /\ worker[w].target = e
    /\ rec[e].leaseOwner = w
    /\ worker[w].attempt = rec[e].attempts

Requeued(r, s) == Exists(r) /\ r.status # "queued" /\ s.status = "queued"

\* Metrics, results, requeueing and ending come only from the latest claim: a worker that
\* was taken over changes nothing, however late its uploads arrive (worker.py 82-95).
StaleOwnersFenced ==
    [][\A e \in Experiments :
         Outcome(rec'[e]) # Outcome(rec[e]) \/ Requeued(rec[e], rec'[e])
             => \E w \in Workers : Latest(w, e)]_vars

\* What clients observe of the platform.
LifecycleView ==
    INSTANCE Lifecycle WITH
        status <- [e \in Experiments |-> rec[e].status],
        wanted <- [e \in Experiments |-> rec[e].cancelRequested]

\* The platform implements the lifecycle its clients observe (service.py 28-87,
\* worker.py 97-115, 268-279, 331-342).
LifecycleSpec == LifecycleView!Spec

-----------------------------------------------------------------------------
\* Liveness, under FairSpec.

\* Every accepted experiment ends, through lost sends, crashed workers and retries
\* (service.py 61-77, worker.py 376-388).
EventuallyTerminal ==
    \A e \in Experiments : Exists(rec[e]) ~> Terminal(rec[e])

-----------------------------------------------------------------------------
\* What the documentation says and the code does not do.

\* "Expired owners cannot commit metrics or terminal state" (docs/ARCHITECTURE.md 37-38).
ExpiredOwnersCannotCommit ==
    [][\A e \in Experiments : Outcome(rec'[e]) # Outcome(rec[e]) => rec[e].leased]_vars

\* "cancelling --> cancelled" is the only way on from cancelling in the state diagram
\* (docs/ARCHITECTURE.md 26-30).
CancellingOnlyEndsCancelled ==
    [][\A e \in Experiments :
         rec[e].status = "cancelling" => rec'[e].status \in {"cancelling", "cancelled"}]_vars
=============================================================================
