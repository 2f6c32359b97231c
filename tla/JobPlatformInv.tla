--------------------------- MODULE JobPlatformInv ---------------------------
(***************************************************************************)
(* The inductive invariants of JobPlatform.  Inv has one part per kind of  *)
(* object and is proved in JobPlatformProofs; FenceInv says how far the    *)
(* attempts have come and FaultInv which failure paid for each of them;    *)
(* both are proved, on top of Inv, in JobPlatformRefinement.               *)
(***************************************************************************)
EXTENDS JobPlatform

\* A lease is held only on a record that was claimed and not requeued since; the
\* status agrees with the cancellation flag.
RecordInv(r) ==
    /\ r.status = "absent" => ~r.cancelRequested
    /\ r.leased => r.status \notin {"absent", "queued"}
    /\ r.status = "cancelling" => r.cancelRequested
    /\ r.status = "completed" => ~r.cancelRequested
    /\ r.status = "cancelled" => r.cancelRequested

\* w's own claim, under way.
ClaimedBy(w, r) == r.leaseOwner = w /\ r.status \in {"running", "cancelling"}

\* A thread whose ETag is still current between its read and its upload sees what its
\* callback saw, except the clock.
FreshInv(w, k, r) ==
    /\ k.pc \in WriteSteps /\ Fresh(w, "main") => ClaimedBy(w, r)
    /\ k.pc = "completeWrite" /\ Fresh(w, "main") => ~r.cancelRequested
    /\ k.refresh = "write" /\ Fresh(w, "renewer") => ClaimedBy(w, r)

\* What the program counter of a delivery says about its local state, and what its
\* decisions say about the record they were taken on.
DeliveryInv(k, r) ==
    /\ k.target \in Experiments /\ k.job \in Messages /\ Exists(r)
    /\ k.pc \in {"received", "claim"} => k.refresh = "off"
    /\ k.pc \in {"metric", "metricWrite"} => k.iter < Iterations
    /\ k.pc \in {"finish", "finishWrite"} => k.verdict # "none"
    /\ k.action # "none" => k.pc = "settle"
    /\ k.action = "ack" => Terminal(r)
    /\ k.verdict = "cancelled" => r.cancelRequested

WorkerInv(w) ==
    LET k == worker[w]
        r == rec[k.target]
    IN  IF k.pc = "idle" THEN k = IdleWorker
                         ELSE DeliveryInv(k, r) /\ FreshInv(w, k, r)

\* Messages are for records that exist, and a valid receipt belongs to the delivery
\* its worker is busy with.
MessageInv(m) ==
    /\ queue[m].state # "free" =>
          queue[m].exp \in Experiments /\ Exists(rec[queue[m].exp])
    /\ \A w \in Workers :
          queue[m].holder = w =>
              /\ queue[m].state # "free"
              /\ worker[w].pc # "idle"
              /\ worker[w].job = m
              /\ worker[w].target = queue[m].exp

InQueue(e) == \E m \in Messages : queue[m].state # "free" /\ queue[m].exp = e

\* A dispatch that waits for its mark has its message in the queue, unless the
\* experiment ended meanwhile.
DispatchInv(t) ==
    /\ disp[t].step # "idle" => disp[t].exp \in Experiments /\ Exists(rec[disp[t].exp])
    /\ disp[t].step = "mark" => Terminal(rec[disp[t].exp]) \/ InQueue(disp[t].exp)

\* The conjunction makes NoLostJob and the record properties inductive: whichever message,
\* receipt, lease or ETag a step relies on is tied to the record here (worker.py 82-115,
\* 171-363; repositories.py 172-190; queueing.py 79-110).
Inv ==
    /\ TypeOK
    /\ \A e \in Experiments : RecordInv(rec[e])
    /\ \A w \in Workers : WorkerInv(w)
    /\ \A m \in Messages : MessageInv(m)
    /\ \A t \in Dispatchers : DispatchInv(t)
    /\ NoLostJob

-----------------------------------------------------------------------------
\* The history after attempt a measured its first n iterations.
Measured(a, n) == [i \in Points |-> IF i < n THEN a ELSE 0]

Running == {"check", "metric", "metricWrite", "complete", "completeWrite"}

\* How far the latest attempt came.  Before iteration 0 it finds any history; a metric
\* whose upload was not acknowledged may be there already when it is reported again.
AtIteration(k, r) ==
    /\ k.pc \in {"complete", "completeWrite"} =>
          k.iter = Iterations /\ r.history = Measured(k.attempt, Iterations)
    /\ k.pc = "check" /\ k.iter > 0 => r.history = Measured(k.attempt, k.iter)
    /\ k.pc \in {"metric", "metricWrite"} /\ k.iter > 0 =>
          r.history \in {Measured(k.attempt, k.iter), Measured(k.attempt, k.iter + 1)}

\* An attempt that runs is within the limit, and has measured what it says if it is still
\* the latest.
ProgressInv(w) ==
    LET k == worker[w]
        r == rec[k.target]
    IN  /\ k.pc \in {"received", "claim", "enter"} => k.iter = 0
        /\ k.pc \in Running \/ (k.pc = "enter" /\ k.verdict = "none")
              => k.attempt <= MaxAttempts
        /\ k.pc \in Running /\ r.leaseOwner = w => AtIteration(k, r)

\* With Inv it makes the four properties of what attempts leave in the records inductive
\* (worker.py 82-126, 205, 246-279).
FenceInv ==
    /\ \A e \in Experiments : Exists(rec[e]) \/ rec[e] = AbsentRecord
    /\ AttemptFencing
    /\ \A w \in Workers : ProgressInv(w)
    /\ OneAttemptHistory
    /\ CompletedResultIntact
    /\ AttemptLimit

-----------------------------------------------------------------------------
\* w holds the valid receipt of its message, which nobody can receive.
Safe(w) == HoldsReceipt(w) /\ queue[worker[w].job].state = "hidden"

\* w is about to claim e, and a failure that was counted already will end its attempt: a
\* shutdown, or the loss of its message.
Dooming(w, e) ==
    /\ worker[w].pc \in {"received", "claim"} /\ worker[w].target = e
    /\ stop[w] \/ worker[w].lost \/ ~Safe(w)

Doomed(e) == {w \in Workers : Dooming(w, e)}

\* The delivery in state k executes its attempt, and nothing has gone wrong with it.
OnTrack(k) ==
    /\ k.pc \in {"enter", "check"} \cup ReadSteps \cup WriteSteps
    /\ k.refresh # "off" /\ ~k.lost /\ k.verdict # "queued"

\* w executes the latest attempt at e, and without a failure it will end the experiment.
Secures(w, e) ==
    /\ worker[w].target = e /\ ClaimedBy(w, rec[e]) /\ rec[e].leased
    /\ OnTrack(worker[w]) /\ ~stop[w] /\ Safe(w)

Secure(e) == Terminal(rec[e]) \/ \E w \in Workers : Secures(w, e)

\* Every claim but a secure one was paid for by a failure, and so is the claim of a doomed
\* worker before it is made.
Paid(e) ==
    /\ IsFiniteSet(Doomed(e))
    /\ rec[e].attempts + Cardinality(Doomed(e)) <= faults + (IF Secure(e) THEN 1 ELSE 0)

\* With Inv it makes RerunsNeedFaults inductive (worker.py 97-115, 171-206, 345-363).
FaultInv == \A e \in Experiments : Paid(e)
=============================================================================
