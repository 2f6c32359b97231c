----------------------- MODULE JobPlatformRefinement -----------------------
(***************************************************************************)
(* What one step may do to an experiment's record, and from it that        *)
(* terminal records are final, that JobPlatform implements Lifecycle, and  *)
(* that attempts are fenced: FenceInv, and what follows of it for owners,  *)
(* histories, results and the limit.  All rest on the invariant Inv of     *)
(* JobPlatformProofs: an upload that finds its ETag current is applied to  *)
(* a record with the owner, status and cancellation flag that its callback *)
(* was given.  Last, FaultInv: every attempt but one that will end its     *)
(* experiment was paid for by a failure.                                   *)
(***************************************************************************)
EXTENDS JobPlatformProofs, FiniteSetTheorems

\* The changes of a record by the mutations of service.py and worker.py and by time.
ServiceChange(r, s) ==
    \/ ~Exists(r) /\ s = NewRecord
    \/ Exists(r) /\ s \in {Dispatched(r), CancelRequested(r)}

DeliveryChange(r, s) ==
    \/ s = Renewed(r)
    \/ \E i, a \in Nat : s = WithMetric(r, i, a)
    \/ ~r.cancelRequested /\ \E a \in Nat : s = Completed(r, a)
    \/ \E v \in {"queued", "cancelled", "failed"} :
          (v = "cancelled" => r.cancelRequested) /\ s = Finished(r, v)

Change(r, s) ==
    \/ ServiceChange(r, s)
    \/ Exists(r) /\ Claimable(r) /\ \E w \in Workers : s = Claimed(r, w)
    \/ (\E w \in Workers : ClaimedBy(w, r)) /\ DeliveryChange(r, s)
    \/ ~Terminal(r) /\ s = [r EXCEPT !.leased = FALSE]

OneChange ==
    \E e \in Experiments : \E s : rec' = [rec EXCEPT ![e] = s] /\ Change(rec[e], s)

\* Claims of deliveries: the record they find exists.
LEMMA ClaimChanges ==
    ASSUME Inv, NEW w \in Workers, Claim(w) \/ ClaimUnacknowledged(w)
    PROVE  OneChange
<1>1. worker[w].pc = "claim" /\ Claimable(rec[worker[w].target])
      /\ Write(worker[w].target, Claimed(rec[worker[w].target], w))
  BY DEF Claim, ClaimUnacknowledged
<1>2. worker[w].target \in Experiments /\ Exists(rec[worker[w].target])
  BY <1>1, Busy
<1>3. QED BY <1>1, <1>2 DEF OneChange, Change, Write

\* Uploads of the main thread that land.
LEMMA UploadChanges ==
    ASSUME Inv, NEW w \in Workers,
           \/ Upload(w, "metricWrite", MetricRecord(w))
           \/ Upload(w, "completeWrite", CompleteRecord(w))
           \/ Upload(w, "finishWrite", FinishRecord(w))
    PROVE  OneChange
<1> DEFINE e == worker[w].target
           r == rec[e]
           k == worker[w]
<1>1. k.pc \in WriteSteps /\ Fresh(w, "main")
  BY DEF Upload, WriteSteps
<1>2. /\ e \in Experiments /\ k \in WorkerStates
      /\ DeliveryInv(k, r) /\ FreshInv(w, k, r)
  BY <1>1, Busy DEF WriteSteps
<1>3. ClaimedBy(w, r) /\ (k.pc = "completeWrite" => ~r.cancelRequested)
  BY <1>1, <1>2 DEF FreshInv
<1>4. k.attempt \in Nat /\ k.iter \in Nat
  BY <1>2, IterationsAssumption DEF WorkerStates
<1>5. PICK s : Write(e, s) /\ DeliveryChange(r, s)
  <2>1. CASE Upload(w, "metricWrite", MetricRecord(w))
    BY <1>4, <2>1 DEF Upload, MetricRecord, DeliveryChange
  <2>2. CASE Upload(w, "completeWrite", CompleteRecord(w))
    BY <1>3, <1>4, <2>2 DEF Upload, CompleteRecord, DeliveryChange
  <2>3. CASE Upload(w, "finishWrite", FinishRecord(w))
    <3>1. /\ k.verdict \in {"queued", "cancelled", "failed"}
          /\ k.verdict = "cancelled" => r.cancelRequested
      BY <1>2, <2>3 DEF Upload, DeliveryInv, WorkerStates
    <3>2. QED BY <2>3, <3>1 DEF Upload, FinishRecord, DeliveryChange
  <2>4. QED BY <2>1, <2>2, <2>3
<1>6. QED BY <1>2, <1>3, <1>5 DEF OneChange, Change, Write

\* Renewals of the lease that land.
LEMMA RenewalChanges ==
    ASSUME Inv, NEW w \in Workers, worker[w].refresh = "write", Fresh(w, "renewer"),
           Write(worker[w].target, Renewed(rec[worker[w].target]))
    PROVE  OneChange
<1>1. worker[w].target \in Experiments /\ FreshInv(w, worker[w], rec[worker[w].target])
  BY RenewerBusy, Busy
<1>2. ClaimedBy(w, rec[worker[w].target])
  BY <1>1 DEF FreshInv
<1>3. QED BY <1>1, <1>2 DEF OneChange, Change, DeliveryChange, Write

\* Creations, marks, cancellations and expiries change one record.
LEMMA ServiceChanges ==
    ASSUME Inv
    PROVE  /\ \A c \in Clients, e \in Experiments : Submit(c, e) => OneChange
           /\ \A t \in Dispatchers : Mark(t) => OneChange
           /\ \A e \in Experiments : Cancel(e) \/ Lapse(e) => OneChange
<1>1. ASSUME NEW c \in Clients, NEW e \in Experiments, Submit(c, e) PROVE OneChange
  BY <1>1 DEF Submit, OneChange, Change, ServiceChange, Write
<1>2. ASSUME NEW t \in Dispatchers, Mark(t) PROVE OneChange
  <2>1. disp[t].exp \in Experiments /\ Exists(rec[disp[t].exp])
    BY <1>2 DEF Mark, Inv, DispatchInv
  <2>2. QED BY <1>2, <2>1 DEF Mark, OneChange, Change, ServiceChange, Write
<1>3. ASSUME NEW e \in Experiments, Cancel(e) PROVE OneChange
  BY <1>3 DEF Cancel, OneChange, Change, ServiceChange, Write
<1>4. ASSUME NEW e \in Experiments, Lapse(e) PROVE OneChange
  <2>1. ~Terminal(rec[e]) /\ rec' = [rec EXCEPT ![e] = [rec[e] EXCEPT !.leased = FALSE]]
    BY <1>4 DEF Lapse, Inv, TypeOK
  <2>2. QED BY <2>1 DEF OneChange, Change
<1>5. QED BY <1>1, <1>2, <1>3, <1>4

\* A step changes at most one record, by one mutation.
LEMMA StepChangesOneRecord ==
    ASSUME Inv, [Next]_vars
    PROVE  UNCHANGED rec \/ OneChange
<1>1. CASE UNCHANGED vars
  BY <1>1 DEF vars
<1>2. ASSUME NEW c \in Clients, NEW e \in Experiments, Submit(c, e) \/ Resubmit(c, e)
      PROVE  UNCHANGED rec \/ OneChange
  BY <1>2, ServiceChanges DEF Resubmit, StartDispatch
<1>3. ASSUME NEW w \in Workers, NEW e \in Experiments, Reconcile(w, e)
      PROVE  UNCHANGED rec
  BY <1>3 DEF Reconcile, StartDispatch
<1>4. ASSUME NEW t \in Dispatchers,
             ServiceStep(t) \/ DispatchFails(t) \/ SendUnacknowledged(t)
      PROVE  UNCHANGED rec \/ OneChange
  BY <1>4, ServiceChanges DEF ServiceStep, Send, DispatchFails, SendUnacknowledged
<1>5. ASSUME NEW e \in Experiments, Cancel(e) \/ Lapse(e) PROVE OneChange
  BY <1>5, ServiceChanges
<1>6. ASSUME NEW w \in Workers, NEW m \in Messages, Receive(w, m) PROVE UNCHANGED rec
  BY <1>6 DEF Receive
<1>7. ASSUME NEW w \in Workers, WorkerStep(w) PROVE UNCHANGED rec \/ OneChange
  <2>1. CASE Claim(w)
    BY <2>1, ClaimChanges
  <2>2. CASE WriteMetric(w) \/ WriteComplete(w) \/ WriteFinish(w)
    BY <2>2, UploadChanges DEF WriteMetric, WriteComplete, WriteFinish
  <2>3. CASE LoadRecord(w) \/ ClaimRefused(w) \/ Check(w) \/ Retry(w) \/ Settle(w)
    BY <2>3 DEF LoadRecord, ClaimRefused, Check, Retry, Settle
  <2>4. CASE ReadMetric(w) \/ ReadComplete(w) \/ ReadFinish(w)
    BY <2>4 DEF ReadMetric, ReadComplete, ReadFinish, Read
  <2>5. QED BY <1>7, <2>1, <2>2, <2>3, <2>4 DEF WorkerStep
<1>8. ASSUME NEW w \in Workers, RefreshStep(w) \/ Replace(w)
      PROVE  UNCHANGED rec \/ OneChange
  BY <1>8, RenewalChanges
     DEF RefreshStep, RefreshQueue, ReadLease, WriteLease, RetryLease, Replace
<1>9. ASSUME NEW w \in Workers, WorkerFault(w) PROVE UNCHANGED rec \/ OneChange
  <2>1. CASE ClaimUnacknowledged(w)
    BY <2>1, ClaimChanges
  <2>2. CASE UploadUnacknowledged(w)
    BY <2>2, UploadChanges DEF UploadUnacknowledged
  <2>3. CASE RefreshFails(w)
    BY <2>3, RenewalChanges DEF RefreshFails
  <2>4. CASE Shutdown(w) \/ CallFails(w) \/ EngineFails(w) \/ SettleFails(w) \/ Crash(w)
    BY <2>4 DEF Shutdown, CallFails, EngineFails, SettleFails, Crash
  <2>5. QED BY <1>9, <2>1, <2>2, <2>3, <2>4 DEF WorkerFault
<1>10. ASSUME NEW m \in Messages, Reappear(m) PROVE UNCHANGED rec
  BY <1>10 DEF Reappear
<1>11. QED
  BY <1>1, <1>2, <1>3, <1>4, <1>5, <1>6, <1>7, <1>8, <1>9, <1>10 DEF Next

-----------------------------------------------------------------------------
\* Terminal records are final.

\* No mutation changes a terminal record but for its mark.
LEMMA ChangeKeepsTerminal ==
    ASSUME NEW r \in Records, NEW s, Change(r, s), Terminal(r)
    PROVE  s = [r EXCEPT !.dispatched = s.dispatched]
<1>1. Exists(r) /\ r = [r EXCEPT !.dispatched = r.dispatched]
  BY DEF Exists, Terminal, TerminalStatuses, Records
<1>2. s \in {Dispatched(r), CancelRequested(r)}
  BY <1>1 DEF Change, ServiceChange, Claimable, ClaimedBy, Terminal, TerminalStatuses
<1>3. CASE s = Dispatched(r)
  BY <1>3 DEF Dispatched, Records
<1>4. CASE s = CancelRequested(r)
  BY <1>1, <1>4 DEF CancelRequested
<1>5. QED BY <1>2, <1>3, <1>4

\* Whatever finishing, cancelling, claiming or late renewal follows, a terminal record
\* keeps everything but its dispatch mark (worker.py 88, 100; service.py 81).
THEOREM TerminalIsFinal == Spec => TerminalFinal
<1> DEFINE Kept ==
      \A e \in Experiments :
        Terminal(rec[e]) => rec'[e] = [rec[e] EXCEPT !.dispatched = rec'[e].dispatched]
<1>1. ASSUME Inv, [Next]_vars PROVE Kept
  <2> SUFFICES ASSUME NEW e \in Experiments, Terminal(rec[e])
               PROVE  rec'[e] = [rec[e] EXCEPT !.dispatched = rec'[e].dispatched]
    OBVIOUS
  <2>1. rec \in [Experiments -> Records] /\ rec[e] \in Records
    BY <1>1 DEF Inv, TypeOK
  <2>2. rec[e] = [rec[e] EXCEPT !.dispatched = rec[e].dispatched]
    BY <2>1 DEF Records
  <2>3. CASE UNCHANGED rec
    BY <2>2, <2>3
  <2>4. CASE OneChange
    <3>1. PICK f \in Experiments : \E s : rec' = [rec EXCEPT ![f] = s] /\ Change(rec[f], s)
      BY <2>4 DEF OneChange
    <3>2. PICK s : rec' = [rec EXCEPT ![f] = s] /\ Change(rec[f], s)
      BY <3>1
    <3>3. CASE f = e
      BY <2>1, <3>2, <3>3, ChangeKeepsTerminal
    <3>4. CASE f # e
      BY <2>1, <2>2, <3>2, <3>4
    <3>5. QED BY <3>3, <3>4
  <2>5. QED BY <1>1, <2>3, <2>4, StepChangesOneRecord
<1> HIDE DEF Kept
<1>2. Inv /\ [Next]_vars => [Kept]_vars
  BY <1>1
<1>3. QED BY InvInvariant, <1>2, PTL DEF Spec, TerminalFinal, Kept

-----------------------------------------------------------------------------
\* JobPlatform implements Lifecycle.

\* What Lifecycle allows a record's status and cancellation flag to do in one step.
ViewChange(r, s) ==
    \/ s.status = r.status /\ s.cancelRequested = r.cancelRequested
    \/ r.status = "absent" /\ s.status = "queued" /\ s.cancelRequested = FALSE
    \/ /\ r.status # "absent" /\ ~Terminal(r)
       /\ s.status = "cancelling" /\ s.cancelRequested
    \/ /\ r.status \in {"queued", "running", "cancelling"} /\ s.status = "running"
       /\ s.cancelRequested = r.cancelRequested
    \/ /\ r.status = "running" /\ ~r.cancelRequested
       /\ s.status = "completed" /\ s.cancelRequested = r.cancelRequested
    \/ /\ r.status \in {"running", "cancelling"}
       /\ s.status \in {"cancelled", "queued", "failed"}
       /\ s.status = "cancelled" => r.cancelRequested
       /\ s.cancelRequested = r.cancelRequested

\* Every mutation is one that Lifecycle allows, or invisible to it.
LEMMA ChangeIsViewChange ==
    ASSUME NEW r \in Records, RecordInv(r), NEW s, Change(r, s)
    PROVE  ViewChange(r, s)
<1>1. CASE ServiceChange(r, s)
  <2>1. CASE ~Exists(r) /\ s = NewRecord
    BY <2>1 DEF ViewChange, NewRecord, AbsentRecord, Exists
  <2>2. CASE Exists(r) /\ s = Dispatched(r)
    BY <2>2 DEF ViewChange, Dispatched, Records
  <2>3. CASE Exists(r) /\ s = CancelRequested(r)
    BY <2>3 DEF ViewChange, CancelRequested, Exists, Records
  <2>4. QED BY <1>1, <2>1, <2>2, <2>3 DEF ServiceChange
<1>2. ASSUME Exists(r), Claimable(r), NEW w \in Workers, s = Claimed(r, w)
      PROVE  ViewChange(r, s)
  <2>1. s.status = "running" /\ s.cancelRequested = r.cancelRequested
    BY <1>2 DEF Claimed, Records
  <2>2. r.status \in {"queued", "running", "cancelling"}
    BY <1>2 DEF Exists, Claimable, Terminal, Records, Statuses
  <2>3. QED BY <2>1, <2>2 DEF ViewChange
<1>3. ASSUME NEW w \in Workers, ClaimedBy(w, r), DeliveryChange(r, s)
      PROVE  ViewChange(r, s)
  <2>1. r.status \in {"running", "cancelling"} /\ (r.status = "cancelling" => r.cancelRequested)
    BY <1>3 DEF ClaimedBy, RecordInv
  <2>2. CASE s = Renewed(r)
    BY <2>2 DEF ViewChange, Renewed, Records
  <2>3. ASSUME NEW i \in Nat, NEW a \in Nat, s = WithMetric(r, i, a)
        PROVE  ViewChange(r, s)
    BY <2>3 DEF ViewChange, WithMetric, Records
  <2>4. ASSUME ~r.cancelRequested, NEW a \in Nat, s = Completed(r, a)
        PROVE  ViewChange(r, s)
    <3>1. s.status = "completed" /\ s.cancelRequested = r.cancelRequested
      BY <2>4 DEF Completed, Records
    <3>2. QED BY <2>1, <2>4, <3>1 DEF ViewChange
  <2>5. ASSUME NEW v \in {"queued", "cancelled", "failed"},
               v = "cancelled" => r.cancelRequested, s = Finished(r, v)
        PROVE  ViewChange(r, s)
    <3>1. s.status = v /\ s.cancelRequested = r.cancelRequested
      BY <2>5 DEF Finished, Records
    <3>2. QED BY <2>1, <2>5, <3>1 DEF ViewChange
  <2>6. QED BY <1>3, <2>2, <2>3, <2>4, <2>5 DEF DeliveryChange
<1>4. CASE s = [r EXCEPT !.leased = FALSE]
  BY <1>4 DEF ViewChange, Records
<1>5. QED BY <1>1, <1>2, <1>3, <1>4 DEF Change

\* Every step of the platform is a step of Lifecycle or a stutter.
LEMMA StepImplementsLifecycle ==
    ASSUME Inv, [Next]_vars
    PROVE  [LifecycleView!Next]_(LifecycleView!vars)
<1> DEFINE St == [e \in Experiments |-> rec[e].status]
           Wa == [e \in Experiments |-> rec[e].cancelRequested]
<1>1. CASE UNCHANGED rec
  BY <1>1 DEF LifecycleView!vars
<1>2. CASE OneChange
  <2>0. PICK e \in Experiments : \E s : rec' = [rec EXCEPT ![e] = s] /\ Change(rec[e], s)
    BY <1>2 DEF OneChange
  <2>1. PICK s : rec' = [rec EXCEPT ![e] = s] /\ Change(rec[e], s)
    BY <2>0
  <2> DEFINE r == rec[e]
  <2>2. rec \in [Experiments -> Records] /\ r \in Records /\ RecordInv(r)
    BY DEF Inv, TypeOK
  <2>3. ViewChange(r, s)
    BY <2>1, <2>2, ChangeIsViewChange
  <2>4. /\ St' = [St EXCEPT ![e] = s.status]
        /\ Wa' = [Wa EXCEPT ![e] = s.cancelRequested]
    BY <2>1, <2>2
  <2>5. St[e] = r.status /\ Wa[e] = r.cancelRequested
    OBVIOUS
  <2>6. s.cancelRequested = r.cancelRequested => Wa' = Wa
    BY <2>4, <2>5
  <2>7. s.status = r.status => St' = St
    BY <2>4, <2>5
  <2>8. CASE s.status = r.status /\ s.cancelRequested = r.cancelRequested
    BY <2>6, <2>7, <2>8 DEF LifecycleView!vars
  <2>9. ASSUME s.status # r.status, s.cancelRequested = r.cancelRequested
        PROVE  LifecycleView!Becomes(e, s.status)
    BY <2>4, <2>6, <2>9 DEF LifecycleView!Becomes
  <2>10. /\ LifecycleView!Terminal(e) <=> Terminal(r)
         /\ LifecycleView!Active(e) <=> r.status \in {"running", "cancelling"}
    BY <2>5 DEF LifecycleView!Terminal, LifecycleView!Active, Terminal, TerminalStatuses
  <2>11. CASE r.status = "absent" /\ s.status = "queued" /\ s.cancelRequested = FALSE
    <3>1. s.cancelRequested = r.cancelRequested
      BY <2>2, <2>11 DEF RecordInv, Records
    <3>2. LifecycleView!Create(e)
      BY <2>5, <2>9, <2>11, <3>1 DEF LifecycleView!Create
    <3>3. QED BY <3>2 DEF LifecycleView!Next
  <2>12. CASE /\ r.status # "absent" /\ ~Terminal(r)
              /\ s.status = "cancelling" /\ s.cancelRequested
    <3>1. LifecycleView!RequestCancel(e)
      BY <2>4, <2>5, <2>10, <2>12 DEF LifecycleView!RequestCancel
    <3>2. QED BY <3>1 DEF LifecycleView!Next
  <2>13. CASE /\ r.status \in {"queued", "running", "cancelling"} /\ s.status = "running"
              /\ s.cancelRequested = r.cancelRequested /\ s.status # r.status
    <3>1. LifecycleView!Start(e)
      BY <2>5, <2>9, <2>10, <2>13 DEF LifecycleView!Start
    <3>2. QED BY <3>1 DEF LifecycleView!Next
  <2>14. CASE /\ r.status = "running" /\ ~r.cancelRequested
              /\ s.status = "completed" /\ s.cancelRequested = r.cancelRequested
    <3>1. LifecycleView!Complete(e)
      BY <2>5, <2>9, <2>14 DEF LifecycleView!Complete
    <3>2. QED BY <3>1 DEF LifecycleView!Next
  <2>15. CASE /\ r.status \in {"running", "cancelling"}
              /\ s.status \in {"cancelled", "queued", "failed"}
              /\ s.status = "cancelled" => r.cancelRequested
              /\ s.cancelRequested = r.cancelRequested
    <3>1. LifecycleView!Becomes(e, s.status) /\ LifecycleView!Active(e)
      BY <2>9, <2>10, <2>15
    <3>2. CASE s.status = "cancelled"
      BY <2>5, <2>15, <3>1, <3>2 DEF LifecycleView!ConfirmCancel, LifecycleView!Next
    <3>3. CASE s.status = "queued"
      BY <3>1, <3>3 DEF LifecycleView!Requeue, LifecycleView!Next
    <3>4. CASE s.status = "failed"
      BY <3>1, <3>4 DEF LifecycleView!Fail, LifecycleView!Next
    <3>5. QED BY <2>15, <3>2, <3>3, <3>4
  <2>16. QED BY <2>3, <2>8, <2>11, <2>12, <2>13, <2>14, <2>15 DEF ViewChange
<1>3. QED BY <1>1, <1>2, StepChangesOneRecord

\* For clients the platform behaves as Lifecycle says, whatever its queue, its workers
\* and its storage do (service.py 28-87, worker.py 97-115, 268-279, 331-342).
THEOREM ImplementsLifecycle == Spec => LifecycleSpec
<1>1. Init => LifecycleView!Init
  BY DEF Init, AbsentRecord, LifecycleView!Init
<1>2. Inv /\ [Next]_vars => [LifecycleView!Next]_(LifecycleView!vars)
  BY StepImplementsLifecycle
<1>3. QED BY InvInvariant, <1>1, <1>2, PTL DEF Spec, LifecycleSpec, LifecycleView!Spec

-----------------------------------------------------------------------------
\* Fencing: what attempts leave behind.

\* The delivery in state k executes its attempt.
Executing(k) == k.refresh # "off" \/ k.pc \in {"check"} \cup ReadSteps \cup WriteSteps

\* From k to l an attempt may go on, but neither begin nor report a metric.
Ahead(k, l) ==
    /\ l.target = k.target /\ l.attempt = k.attempt
    /\ l.iter = k.iter /\ l.verdict = k.verdict
    /\ \/ l.pc = k.pc
       \/ k.pc = "received" /\ l.pc = "claim"
       \/ k.pc = "enter" /\ k.verdict = "none" /\ l.pc = "check"
       \/ k.pc = "check" /\ k.iter < Iterations /\ l.pc = "metric"
       \/ k.pc = "check" /\ k.iter >= Iterations /\ l.pc = "complete"
       \/ k.pc \in {"metric", "metricWrite"} /\ l.pc \in {"metric", "metricWrite"}
       \/ k.pc \in {"complete", "completeWrite"} /\ l.pc \in {"complete", "completeWrite"}

Goes(k, l) ==
    /\ Executing(l) => Executing(k) /\ l.target = k.target /\ l.attempt = k.attempt
    /\ \/ l.pc \in {"idle", "settle", "finish", "finishWrite"}
       \/ l.pc = "received" /\ l.iter = 0
       \/ Ahead(k, l)

AllGo == \A v \in Workers : Goes(worker[v], worker'[v])

\* s has what attempts left in r.
Quiet(r, s) ==
    /\ s.history = r.history /\ s.result = r.result
    /\ s.attempts = r.attempts /\ s.leaseOwner = r.leaseOwner
    /\ Exists(s) <=> Exists(r)
    /\ Terminal(s) <=> Terminal(r)
    /\ s.status = "completed" => r.status = "completed"
    /\ s.status = "queued" => r.status = "queued"
    /\ s = r \/ Exists(s)

AllQuiet == \A e \in Experiments : Quiet(rec[e], rec'[e])

Lands(w) ==
    \/ Upload(w, "metricWrite", MetricRecord(w))
    \/ Upload(w, "completeWrite", CompleteRecord(w))
    \/ Upload(w, "finishWrite", FinishRecord(w))

\* A worker that takes no step goes on where it is.
LEMMA IdleGoes ==
    ASSUME UNCHANGED worker
    PROVE  AllGo
BY DEF AllGo, Goes, Ahead

\* If one worker's new state goes on from its old one, all workers go on.
LEMMA BecomeGoes ==
    ASSUME Inv, NEW w \in Workers, NEW k, Become(w, k), Goes(worker[w], k)
    PROVE  AllGo
<1>1. worker'[w] = k /\ \A x \in Workers \ {w} : worker'[x] = worker[x]
  BY DEF Inv, TypeOK, Become
<1>2. \A x \in Workers \ {w} : Goes(worker[x], worker'[x])
  BY <1>1 DEF Goes, Ahead
<1>3. QED BY <1>1, <1>2 DEF AllGo

\* A record that no step touches is quiet.
LEMMA UnchangedQuiet ==
    ASSUME UNCHANGED rec
    PROVE  AllQuiet
BY DEF AllQuiet, Quiet

\* So is every record if one is replaced by a quiet one.
LEMMA WriteQuiet ==
    ASSUME Inv, NEW e \in Experiments, NEW s, rec' = [rec EXCEPT ![e] = s],
           Quiet(rec[e], s)
    PROVE  AllQuiet
BY DEF Inv, TypeOK, AllQuiet, Quiet

\* Marks, cancellations, renewals and expiries are quiet.
LEMMA QuietMutations ==
    ASSUME NEW r \in Records, Exists(r)
    PROVE  /\ Quiet(r, Dispatched(r))
           /\ Quiet(r, CancelRequested(r))
           /\ Quiet(r, Renewed(r))
           /\ Quiet(r, [r EXCEPT !.leased = FALSE])
BY DEF Records, Quiet, Dispatched, CancelRequested, Renewed, Exists, Terminal,
       TerminalStatuses

\* Giving up ends an execution.
LEMMA GiveUpGoes ==
    ASSUME Inv, NEW w \in Workers, GiveUp(w)
    PROVE  AllGo
<1> DEFINE k == worker[w]
           l == [k EXCEPT !.pc = "settle"]
<1>1. k \in WorkerStates /\ Become(w, l)
  BY DEF Inv, TypeOK, GiveUp, Goto
<1>2. l.pc = "settle" /\ l.refresh = k.refresh /\ l.target = k.target /\ l.attempt = k.attempt
  BY <1>1 DEF WorkerStates
<1>3. Goes(k, l)
  BY <1>2 DEF Goes, Executing, ReadSteps, WriteSteps
<1>4. QED BY <1>1, <1>3, BecomeGoes

\* An exception leads an execution to its end.
LEMMA RaiseGoes ==
    ASSUME Inv, NEW w \in Workers, NEW v, Executing(worker[w]), Raise(w, v)
    PROVE  AllGo
<1> DEFINE k == worker[w]
           l == [k EXCEPT !.pc = "finish", !.verdict = v]
<1>1. CASE GiveUp(w)
  BY <1>1, GiveUpGoes
<1>2. CASE Become(w, l)
  <2>1. k \in WorkerStates
    BY DEF Inv, TypeOK
  <2>2. l.pc = "finish" /\ l.target = k.target /\ l.attempt = k.attempt
    BY <2>1 DEF WorkerStates
  <2>3. Goes(k, l)
    BY <2>2 DEF Goes
  <2>4. QED BY <1>2, <2>3, BecomeGoes
<1>3. QED BY <1>1, <1>2 DEF Raise

\* So does an exception at any step of process().
LEMMA ThrowGoes ==
    ASSUME Inv, NEW w \in Workers,
           worker[w].pc \in {"received", "claim", "check"} \cup ReadSteps \cup WriteSteps,
           Throw(w)
    PROVE  AllGo
<1>1. CASE GiveUp(w)
  BY <1>1, GiveUpGoes
<1>2. CASE Executing(worker[w]) /\ Raise(w, "failed")
  BY <1>2, RaiseGoes
<1>3. QED BY <1>1, <1>2 DEF Throw, Executing

\* A step to the next or the previous program counter.
LEMMA GotoGoes ==
    ASSUME Inv, NEW w \in Workers, NEW p, Goto(w, p),
           LET k == worker[w]
           IN  \/ k.pc = "received" /\ p = "claim"
               \/ k.pc = "check" /\ k.iter < Iterations /\ p = "metric"
               \/ k.pc = "check" /\ k.iter >= Iterations /\ p = "complete"
               \/ k.pc = "metric" /\ p = "metricWrite"
               \/ k.pc = "metricWrite" /\ p = "metric"
               \/ k.pc = "complete" /\ p = "completeWrite"
               \/ k.pc = "completeWrite" /\ p = "complete"
               \/ k.pc = "finish" /\ p = "finishWrite"
               \/ k.pc = "finishWrite" /\ p = "finish"
    PROVE  AllGo
<1> DEFINE k == worker[w]
           l == [k EXCEPT !.pc = p]
<1>1. k \in WorkerStates /\ Become(w, l)
  BY DEF Inv, TypeOK, Goto
<1>2. /\ l.pc = p /\ l.refresh = k.refresh /\ l.target = k.target
      /\ l.attempt = k.attempt /\ l.iter = k.iter /\ l.verdict = k.verdict
  BY <1>1 DEF WorkerStates
<1>3. Executing(l) => Executing(k)
  BY <1>2 DEF Executing, ReadSteps, WriteSteps
<1>4. p \in {"finish", "finishWrite"} \/ Ahead(k, l)
  BY <1>2 DEF Ahead
<1>5. Goes(k, l)
  BY <1>2, <1>3, <1>4 DEF Goes
<1>6. QED BY <1>1, <1>5, BecomeGoes

\* A failed refresh ends an execution or marks its lease as lost.
LEMMA RefreshFailedGoes ==
    ASSUME Inv, NEW w \in Workers, RefreshFailed(w)
    PROVE  AllGo
<1> DEFINE k == worker[w]
           l == [k EXCEPT !.pc = "settle", !.refresh = "off"]
           j == [k EXCEPT !.lost = TRUE, !.refresh = "off"]
<1>1. k \in WorkerStates
  BY DEF Inv, TypeOK
<1>2. CASE Become(w, l)
  <2>1. l.pc = "settle" /\ l.refresh = "off"
    BY <1>1 DEF WorkerStates
  <2>2. Goes(k, l)
    BY <2>1 DEF Goes, Executing, ReadSteps, WriteSteps
  <2>3. QED BY <1>2, <2>2, BecomeGoes
<1>3. CASE Become(w, j)
  <2>1. /\ j.pc = k.pc /\ j.refresh = "off" /\ j.target = k.target
        /\ j.attempt = k.attempt /\ j.iter = k.iter /\ j.verdict = k.verdict
    BY <1>1 DEF WorkerStates
  <2>2. Goes(k, j)
    BY <2>1 DEF Goes, Ahead, Executing
  <2>3. QED BY <1>3, <2>2, BecomeGoes
<1>4. QED BY <1>2, <1>3 DEF RefreshFailed

\* A refresh that goes on keeps the delivery where it is.
LEMMA RefreshGoes ==
    ASSUME Inv, NEW w \in Workers, NEW f, worker[w].refresh # "off",
           Become(w, [worker[w] EXCEPT !.refresh = f])
    PROVE  AllGo
<1> DEFINE k == worker[w]
           j == [k EXCEPT !.refresh = f]
<1>1. k \in WorkerStates
  BY DEF Inv, TypeOK
<1>2. /\ j.pc = k.pc /\ j.target = k.target
      /\ j.attempt = k.attempt /\ j.iter = k.iter /\ j.verdict = k.verdict
  BY <1>1 DEF WorkerStates
<1>3. Goes(k, j)
  BY <1>2 DEF Goes, Ahead, Executing
<1>4. QED BY <1>3, BecomeGoes

\* The first renewal lets the attempt begin.
LEMMA WriteLeaseGoes ==
    ASSUME Inv, NEW w \in Workers, WriteLease(w)
    PROVE  AllGo /\ AllQuiet
<1> DEFINE k == worker[w]
           l == [k EXCEPT !.refresh = "due", !.pc = Entered(k.pc, k.verdict)]
<1>1. k \in WorkerStates /\ Become(w, l) /\ k.refresh = "write"
  BY DEF Inv, TypeOK, WriteLease
<1>2. /\ l.pc = Entered(k.pc, k.verdict) /\ l.target = k.target
      /\ l.attempt = k.attempt /\ l.iter = k.iter /\ l.verdict = k.verdict
  BY <1>1 DEF WorkerStates
<1>3. l.pc = "finish" \/ Ahead(k, l)
  BY <1>2 DEF Ahead, Entered
<1>4. Goes(k, l)
  BY <1>1, <1>2, <1>3 DEF Goes, Executing
<1>5. AllGo
  BY <1>1, <1>4, BecomeGoes
<1>6. k.target \in Experiments /\ Exists(rec[k.target]) /\ rec[k.target] \in Records
  BY <1>1, RenewerBusy, Busy
<1>7. Quiet(rec[k.target], Renewed(rec[k.target]))
  BY <1>6, QuietMutations
<1>8. AllQuiet
  BY <1>6, <1>7, WriteQuiet DEF WriteLease, Write
<1>9. QED BY <1>5, <1>8

Claims(w) == Claim(w) \/ ClaimUnacknowledged(w)

StepKinds ==
    \/ AllGo /\ AllQuiet
    \/ \E c \in Clients, e \in Experiments : Submit(c, e)
    \/ \E w \in Workers : Claims(w)
    \/ \E w \in Workers : WriteMetric(w) \/ (AllGo /\ Lands(w))

\* Steps of the service and of time, and the start and the end of a delivery.
LEMMA SharedKinds ==
    ASSUME Inv
    PROVE  /\ \A t \in Dispatchers : Mark(t) => AllGo /\ AllQuiet
           /\ \A e \in Experiments : Cancel(e) \/ Lapse(e) => AllGo /\ AllQuiet
           /\ \A w \in Workers, m \in Messages : Receive(w, m) => AllGo /\ AllQuiet
           /\ \A w \in Workers : Settle(w) \/ SettleFails(w) \/ Crash(w) => AllGo /\ AllQuiet
<1>1. ASSUME NEW t \in Dispatchers, Mark(t) PROVE AllGo /\ AllQuiet
  <2> DEFINE e == disp[t].exp
  <2>1. e \in Experiments /\ Exists(rec[e]) /\ rec[e] \in Records
    BY <1>1 DEF Mark, Inv, DispatchInv, TypeOK
  <2>2. Quiet(rec[e], Dispatched(rec[e]))
    BY <2>1, QuietMutations
  <2>3. AllQuiet
    BY <1>1, <2>1, <2>2, WriteQuiet DEF Mark, Write
  <2>4. QED BY <1>1, <2>3, IdleGoes DEF Mark
<1>2. ASSUME NEW e \in Experiments, Cancel(e) PROVE AllGo /\ AllQuiet
  <2>1. Exists(rec[e]) /\ rec[e] \in Records
    BY <1>2 DEF Cancel, Inv, TypeOK
  <2>2. Quiet(rec[e], CancelRequested(rec[e]))
    BY <2>1, QuietMutations
  <2>3. AllQuiet
    BY <1>2, <2>2, WriteQuiet DEF Cancel, Write
  <2>4. QED BY <1>2, <2>3, IdleGoes DEF Cancel
<1>3. ASSUME NEW e \in Experiments, Lapse(e) PROVE AllGo /\ AllQuiet
  <2> DEFINE s == [rec[e] EXCEPT !.leased = FALSE]
  <2>1. Exists(rec[e]) /\ rec[e] \in Records
    BY <1>3 DEF Lapse, Inv, TypeOK, RecordInv, Exists
  <2>2. Quiet(rec[e], s)
    BY <2>1, QuietMutations
  <2>3. rec' = [rec EXCEPT ![e] = s]
    BY <1>3 DEF Lapse, Inv, TypeOK
  <2>4. AllQuiet
    BY <2>2, <2>3, WriteQuiet
  <2>5. QED BY <1>3, <2>4, IdleGoes DEF Lapse
<1>4. ASSUME NEW w \in Workers, NEW m \in Messages, Receive(w, m)
      PROVE  AllGo /\ AllQuiet
  <2> DEFINE l == Receiving(worker[w], m, queue[m].exp)
  <2>1. worker[w] = IdleWorker
    BY <1>4 DEF Receive, Inv, WorkerInv
  <2>2. l.pc = "received" /\ l.iter = 0 /\ l.refresh = "off"
    BY <2>1 DEF Receiving, IdleWorker
  <2>3. Goes(worker[w], l)
    BY <2>2 DEF Goes, Executing, ReadSteps, WriteSteps
  <2>4. Become(w, l) /\ UNCHANGED rec
    BY <1>4 DEF Receive
  <2>5. QED BY <2>3, <2>4, BecomeGoes, UnchangedQuiet
<1>5. ASSUME NEW w \in Workers, Settle(w) \/ SettleFails(w) \/ Crash(w)
      PROVE  AllGo /\ AllQuiet
  <2>1. Become(w, IdleWorker) /\ UNCHANGED rec
    BY <1>5 DEF Settle, SettleFails, Crash
  <2>2. Goes(worker[w], IdleWorker)
    BY DEF Goes, IdleWorker, Executing, ReadSteps, WriteSteps
  <2>3. QED BY <2>1, <2>2, BecomeGoes, UnchangedQuiet
<1>6. QED BY <1>1, <1>2, <1>3, <1>4, <1>5

\* Steps of the main thread but claims and uploads.
LEMMA MainKinds ==
    ASSUME Inv, NEW w \in Workers,
           \/ LoadRecord(w) \/ ClaimRefused(w) \/ Check(w) \/ Retry(w)
           \/ ReadMetric(w) \/ ReadComplete(w) \/ ReadFinish(w)
    PROVE  AllGo /\ AllQuiet
<1> DEFINE k == worker[w]
<1>1. k \in WorkerStates
  BY DEF Inv, TypeOK
<1>2. UNCHANGED rec
  BY DEF LoadRecord, ClaimRefused, Check, Retry, ReadMetric, ReadComplete, ReadFinish, Read
<1> SUFFICES AllGo
  BY <1>2, UnchangedQuiet
<1>3. CASE LoadRecord(w)
  <2>1. CASE SettleBy(w, "ack")
    <3> DEFINE l == [k EXCEPT !.pc = "settle", !.action = "ack"]
    <3>1. l.pc = "settle" /\ l.refresh = k.refresh /\ l.target = k.target /\ l.attempt = k.attempt
      BY <1>1 DEF WorkerStates
    <3>2. Goes(k, l)
      BY <3>1 DEF Goes, Executing, ReadSteps, WriteSteps
    <3>3. QED BY <2>1, <3>2, BecomeGoes DEF SettleBy
  <2>2. CASE k.pc = "received" /\ Goto(w, "claim")
    BY <2>2, GotoGoes
  <2>3. QED BY <1>3, <2>1, <2>2 DEF LoadRecord
<1>4. CASE ClaimRefused(w)
  BY <1>4, GiveUpGoes DEF ClaimRefused
<1>5. CASE Check(w)
  <2>1. k.pc = "check" /\ Executing(k)
    BY <1>5 DEF Check, Executing
  <2>2. \/ GiveUp(w) \/ Raise(w, "cancelled") \/ Raise(w, "queued")
        \/ Goto(w, IF More(w) THEN "metric" ELSE "complete")
    BY <1>5 DEF Check
  <2>3. CASE Goto(w, IF More(w) THEN "metric" ELSE "complete")
    <3>1. k.iter \in Nat /\ Iterations \in Nat
      BY <1>1, IterationsAssumption DEF WorkerStates
    <3>2. k.iter < Iterations \/ k.iter >= Iterations
      BY <3>1
    <3>3. (k.iter < Iterations /\ Goto(w, "metric"))
          \/ (k.iter >= Iterations /\ Goto(w, "complete"))
      BY <2>3, <3>1, <3>2 DEF More
    <3>4. QED BY <2>1, <3>3, GotoGoes
  <2>4. QED BY <2>1, <2>2, <2>3, GiveUpGoes, RaiseGoes
<1>6. CASE Retry(w)
  <2>1. k.pc \in WriteSteps /\ Goto(w, ReadStepOf(k.pc))
    BY <1>6 DEF Retry
  <2>2. QED BY <2>1, GotoGoes DEF WriteSteps, ReadStepOf
<1>7. ASSUME NEW p \in ReadSteps, Read(w, p) PROVE AllGo
  <2>1. k.pc = p /\ Executing(k)
    BY <1>7 DEF Read, Executing
  <2>2. GiveUp(w) \/ Raise(w, "cancelled") \/ Goto(w, WriteStepOf(p))
    BY <1>7 DEF Read
  <2>3. CASE Goto(w, WriteStepOf(p))
    BY <2>1, <2>3, GotoGoes DEF ReadSteps, WriteStepOf
  <2>4. QED BY <2>1, <2>2, <2>3, GiveUpGoes, RaiseGoes
<1>8. QED
  BY <1>3, <1>4, <1>5, <1>6, <1>7 DEF ReadMetric, ReadComplete, ReadFinish, ReadSteps

\* Steps of the renewer, faults of it included.
LEMMA RenewerKinds ==
    ASSUME Inv, NEW w \in Workers, RefreshStep(w) \/ RefreshFails(w)
    PROVE  AllGo /\ AllQuiet
<1> DEFINE k == worker[w]
<1>1. CASE RefreshQueue(w)
  <2>1. k.refresh # "off" /\ UNCHANGED rec
    BY <1>1 DEF RefreshQueue
  <2>2. RefreshFailed(w) \/ Become(w, [k EXCEPT !.refresh = "lease"])
    BY <1>1 DEF RefreshQueue
  <2>3. QED BY <2>1, <2>2, RefreshFailedGoes, RefreshGoes, UnchangedQuiet
<1>2. CASE ReadLease(w)
  <2>1. k.refresh # "off" /\ UNCHANGED rec
    BY <1>2 DEF ReadLease
  <2>2. RefreshFailed(w) \/ Become(w, [k EXCEPT !.refresh = "write"])
    BY <1>2 DEF ReadLease
  <2>3. QED BY <2>1, <2>2, RefreshFailedGoes, RefreshGoes, UnchangedQuiet
<1>3. CASE WriteLease(w)
  BY <1>3, WriteLeaseGoes
<1>4. CASE RetryLease(w)
  <2>1. k.refresh # "off" /\ UNCHANGED rec /\ Become(w, [k EXCEPT !.refresh = "lease"])
    BY <1>4 DEF RetryLease
  <2>2. QED BY <2>1, RefreshGoes, UnchangedQuiet
<1>5. CASE RefreshFails(w)
  <2>1. AllGo
    BY <1>5, RefreshFailedGoes DEF RefreshFails
  <2>2. CASE UNCHANGED rec
    BY <2>1, <2>2, UnchangedQuiet
  <2>3. CASE k.refresh = "write" /\ Write(k.target, Renewed(rec[k.target]))
    <3>1. k.target \in Experiments /\ Exists(rec[k.target]) /\ rec[k.target] \in Records
      BY <2>3, RenewerBusy, Busy
    <3>2. Quiet(rec[k.target], Renewed(rec[k.target]))
      BY <3>1, QuietMutations
    <3>3. QED BY <2>1, <2>3, <3>1, <3>2, WriteQuiet DEF Write
  <2>4. QED BY <1>5, <2>2, <2>3 DEF RefreshFails
<1>6. QED BY <1>1, <1>2, <1>3, <1>4, <1>5 DEF RefreshStep

\* Uploads that land, acknowledged or not.
LEMMA LandKinds ==
    ASSUME Inv, NEW w \in Workers,
           WriteComplete(w) \/ WriteFinish(w) \/ UploadUnacknowledged(w)
    PROVE  AllGo /\ Lands(w)
<1> DEFINE k == worker[w]
<1>1. Lands(w)
  BY DEF WriteComplete, WriteFinish, UploadUnacknowledged, Lands
<1>2. k \in WorkerStates /\ k.pc \in WriteSteps
  BY <1>1 DEF Inv, TypeOK, Lands, Upload, WriteSteps
<1>3. ASSUME NEW a, SettleBy(w, a) PROVE AllGo
  <2> DEFINE l == [k EXCEPT !.pc = "settle", !.action = a]
  <2>1. l.pc = "settle" /\ l.refresh = k.refresh /\ l.target = k.target /\ l.attempt = k.attempt
    BY <1>2 DEF WorkerStates
  <2>2. Goes(k, l)
    BY <2>1 DEF Goes, Executing, ReadSteps, WriteSteps
  <2>3. QED BY <1>3, <2>2, BecomeGoes DEF SettleBy
<1>4. CASE WriteComplete(w) \/ WriteFinish(w)
  BY <1>1, <1>3, <1>4 DEF WriteComplete, WriteFinish
<1>5. CASE UploadUnacknowledged(w)
  <2>1. CASE Throw(w)
    BY <1>1, <1>2, <2>1, ThrowGoes
  <2>2. CASE Goto(w, ReadStepOf(k.pc))
    BY <1>1, <1>2, <2>2, GotoGoes DEF WriteSteps, ReadStepOf
  <2>3. QED BY <1>1, <1>5, <2>1, <2>2 DEF UploadUnacknowledged
<1>6. QED BY <1>4, <1>5

\* Every step is of one of the kinds.
LEMMA StepsHaveKinds ==
    ASSUME Inv, [Next]_vars
    PROVE  StepKinds
<1> USE DEF StepKinds
<1>1. CASE UNCHANGED vars
  BY <1>1, IdleGoes, UnchangedQuiet DEF vars
<1>2. ASSUME UNCHANGED <<rec, worker>> PROVE StepKinds
  BY <1>2, IdleGoes, UnchangedQuiet
<1>3. ASSUME NEW c \in Clients, NEW e \in Experiments, Submit(c, e) \/ Resubmit(c, e)
      PROVE  StepKinds
  BY <1>2, <1>3 DEF Resubmit, StartDispatch
<1>4. ASSUME NEW w \in Workers, NEW e \in Experiments, Reconcile(w, e) PROVE StepKinds
  BY <1>2, <1>4 DEF Reconcile, StartDispatch
<1>5. ASSUME NEW t \in Dispatchers,
             ServiceStep(t) \/ DispatchFails(t) \/ SendUnacknowledged(t)
      PROVE  StepKinds
  BY <1>2, <1>5, SharedKinds DEF ServiceStep, Send, DispatchFails, SendUnacknowledged
<1>6. ASSUME NEW e \in Experiments, Cancel(e) \/ Lapse(e) PROVE StepKinds
  BY <1>6, SharedKinds
<1>7. ASSUME NEW w \in Workers, NEW m \in Messages, Receive(w, m) PROVE StepKinds
  BY <1>7, SharedKinds
<1>8. ASSUME NEW w \in Workers, WorkerStep(w) PROVE StepKinds
  BY <1>8, SharedKinds, MainKinds, LandKinds DEF WorkerStep, Claims
<1>9. ASSUME NEW w \in Workers, RefreshStep(w) \/ Replace(w) PROVE StepKinds
  BY <1>2, <1>9, RenewerKinds DEF Replace
<1>10. ASSUME NEW w \in Workers, WorkerFault(w) PROVE StepKinds
  <2>1. CASE Shutdown(w)
    BY <1>2, <2>1 DEF Shutdown
  <2>2. CASE CallFails(w)
    <3>1. AllGo /\ UNCHANGED rec
      BY <2>2, ThrowGoes DEF CallFails
    <3>2. QED BY <3>1, UnchangedQuiet
  <2>3. CASE EngineFails(w)
    <3>1. Executing(worker[w]) /\ UNCHANGED rec
      BY <2>3 DEF EngineFails, Executing
    <3>2. Raise(w, "queued") \/ Raise(w, "failed")
      BY <2>3 DEF EngineFails
    <3>3. QED BY <3>1, <3>2, RaiseGoes, UnchangedQuiet
  <2>4. QED
    BY <1>10, <2>1, <2>2, <2>3, LandKinds, RenewerKinds, SharedKinds DEF WorkerFault, Claims
<1>11. ASSUME NEW m \in Messages, Reappear(m) PROVE StepKinds
  BY <1>2, <1>11 DEF Reappear
<1>12. QED
  BY <1>1, <1>3, <1>4, <1>5, <1>6, <1>7, <1>8, <1>9, <1>10, <1>11 DEF Next

\* An executing worker has an experiment.
LEMMA ExecutingBusy ==
    ASSUME Inv, NEW w \in Workers, Executing(worker[w])
    PROVE  worker[w].pc # "idle" /\ worker[w].target \in Experiments
<1>1. worker[w].pc # "idle"
  BY DEF Inv, WorkerInv, IdleWorker, Executing, ReadSteps, WriteSteps
<1>2. QED BY <1>1, Busy

\* What the fence says of one worker in state k.
Fenced(w, k, r) ==
    Executing(k) => k.attempt \in 1 .. r.attempts /\ (k.attempt = r.attempts <=> r.leaseOwner = w)

LEMMA FencedByFence ==
    AttemptFencing <=> \A w \in Workers : Fenced(w, worker[w], rec[worker[w].target])
BY DEF AttemptFencing, Attempting, Fenced, Executing

\* The progress of an attempt in state k.
Progress(w, k, r) ==
    /\ k.pc \in {"received", "claim", "enter"} => k.iter = 0
    /\ k.pc \in Running \/ (k.pc = "enter" /\ k.verdict = "none") => k.attempt <= MaxAttempts
    /\ k.pc \in Running /\ r.leaseOwner = w => AtIteration(k, r)

LEMMA ProgressByInv ==
    \A w \in Workers : ProgressInv(w) <=> Progress(w, worker[w], rec[worker[w].target])
BY DEF ProgressInv, Progress

\* Going on keeps an attempt's progress.
LEMMA ProgressGoes ==
    ASSUME NEW w \in Workers, NEW k \in WorkerStates, NEW l, NEW r,
           Progress(w, k, r), Goes(k, l)
    PROVE  Progress(w, l, r)
<1>1. k.iter \in 0 .. Iterations /\ Iterations \in Nat \ {0}
  BY IterationsAssumption DEF WorkerStates
<1>2. CASE l.pc \in {"idle", "settle", "finish", "finishWrite"}
  BY <1>2 DEF Progress, Running
<1>3. CASE l.pc = "received" /\ l.iter = 0
  BY <1>3 DEF Progress, Running
<1>4. CASE Ahead(k, l)
  <2>1. l.attempt = k.attempt /\ l.iter = k.iter /\ l.verdict = k.verdict
    BY <1>4 DEF Ahead
  <2>2. l.pc \in {"received", "claim", "enter"} => l.iter = 0
    BY <1>4, <2>1 DEF Progress, Ahead
  <2>3. l.pc \in Running => k.pc \in Running \/ (k.pc = "enter" /\ k.verdict = "none")
    BY <1>4 DEF Ahead, Running
  <2>4. l.pc = "enter" => k.pc = "enter"
    BY <1>4 DEF Ahead
  <2>5. l.pc \in Running \/ (l.pc = "enter" /\ l.verdict = "none") => l.attempt <= MaxAttempts
    BY <2>1, <2>3, <2>4 DEF Progress
  <2>6. ASSUME l.pc \in Running, r.leaseOwner = w PROVE AtIteration(l, r)
    <3>1. CASE k.pc = "enter"
      <4>1. l.iter = 0 /\ l.pc = "check"
        BY <1>4, <2>1, <2>6, <3>1 DEF Ahead, Progress, Running
      <4>2. QED BY <4>1 DEF AtIteration
    <3>2. CASE k.pc \in Running
      <4>1. AtIteration(k, r)
        BY <2>6, <3>2 DEF Progress
      <4>2. CASE l.pc = k.pc
        BY <2>1, <4>1, <4>2 DEF AtIteration
      <4>3. CASE k.pc = "check" /\ l.pc = "metric"
        BY <2>1, <4>1, <4>3 DEF AtIteration
      <4>4. CASE k.pc = "check" /\ k.iter >= Iterations /\ l.pc = "complete"
        <5>1. k.iter = Iterations /\ k.iter > 0
          BY <1>1, <4>4
        <5>2. r.history = Measured(k.attempt, Iterations)
          BY <4>1, <4>4, <5>1 DEF AtIteration
        <5>3. QED BY <2>1, <4>4, <5>1, <5>2 DEF AtIteration
      <4>5. CASE k.pc \in {"metric", "metricWrite"} /\ l.pc \in {"metric", "metricWrite"}
        BY <2>1, <4>1, <4>5 DEF AtIteration
      <4>6. CASE k.pc \in {"complete", "completeWrite"} /\ l.pc \in {"complete", "completeWrite"}
        BY <2>1, <4>1, <4>6 DEF AtIteration
      <4>7. QED BY <1>4, <3>2, <4>2, <4>3, <4>4, <4>5, <4>6 DEF Ahead, Running
    <3>3. QED BY <2>3, <2>6, <3>1, <3>2
  <2>7. QED BY <2>2, <2>5, <2>6 DEF Progress
<1>5. QED BY <1>2, <1>3, <1>4 DEF Goes

\* r and s are alike to the fence.
Alike(r, s) ==
    s.history = r.history /\ s.attempts = r.attempts /\ s.leaseOwner = r.leaseOwner

LEMMA AlikeProgress ==
    ASSUME NEW w, NEW k, NEW r, NEW s, Alike(r, s)
    PROVE  /\ Progress(w, k, r) => Progress(w, k, s)
           /\ Fenced(w, k, r) => Fenced(w, k, s)
BY DEF Alike, Progress, Fenced, AtIteration

\* The workers' part of FenceInv.
AttemptsInv == AttemptFencing /\ \A w \in Workers : ProgressInv(w)

\* It survives steps in which workers only go on and records stay alike.
LEMMA AttemptsGo ==
    ASSUME Inv, AttemptsInv, AllGo, \A e \in Experiments : Alike(rec[e], rec'[e])
    PROVE  AttemptsInv'
<1>1. ASSUME NEW w \in Workers
      PROVE  /\ Fenced(w, worker'[w], rec'[worker'[w].target])
             /\ Progress(w, worker'[w], rec'[worker'[w].target])
  <2> DEFINE k == worker[w]
             l == worker'[w]
             r == rec[k.target]
  <2>1. k \in WorkerStates /\ Goes(k, l) /\ Fenced(w, k, r) /\ Progress(w, k, r)
    BY FencedByFence, ProgressByInv DEF Inv, TypeOK, AllGo, AttemptsInv
  <2>2. Fenced(w, l, rec'[l.target])
    <3> SUFFICES ASSUME Executing(l) PROVE Fenced(w, l, rec'[l.target])
      BY DEF Fenced
    <3>1. Executing(k) /\ l.target = k.target /\ l.attempt = k.attempt
      BY <2>1 DEF Goes
    <3>2. Fenced(w, l, r)
      BY <2>1, <3>1 DEF Fenced
    <3>3. Alike(r, rec'[l.target])
      BY <3>1, ExecutingBusy
    <3>4. QED BY <3>2, <3>3, AlikeProgress
  <2>3. Progress(w, l, rec'[l.target])
    <3>1. CASE l.pc \in Running
      <4>1. Executing(l)
        BY <3>1 DEF Running, Executing, ReadSteps, WriteSteps
      <4>2. Executing(k) /\ l.target = k.target
        BY <2>1, <4>1 DEF Goes
      <4>3. Alike(r, rec'[l.target])
        BY <4>2, ExecutingBusy
      <4>4. Progress(w, l, r)
        BY <2>1, ProgressGoes
      <4>5. QED BY <4>3, <4>4, AlikeProgress
    <3>2. CASE l.pc \notin Running
      <4>1. Progress(w, l, r)
        BY <2>1, ProgressGoes
      <4>2. QED BY <3>2, <4>1 DEF Progress
    <3>3. QED BY <3>1, <3>2
  <2>4. QED BY <2>2, <2>3
<1>2. AttemptFencing'
  BY <1>1 DEF AttemptFencing, Attempting, Fenced, Executing
<1>3. \A w \in Workers : ProgressInv(w)'
  BY <1>1 DEF ProgressInv, Progress, AtIteration
<1>4. QED BY <1>2, <1>3 DEF AttemptsInv

-----------------------------------------------------------------------------
\* Claims begin a new attempt.

\* The claiming worker was not executing anything.
LEMMA ClaimFacts ==
    ASSUME Inv, NEW w \in Workers, Claims(w)
    PROVE  LET k == worker[w]
               e == k.target
           IN  /\ e \in Experiments /\ rec[e] \in Records /\ Exists(rec[e])
               /\ Claimable(rec[e]) /\ k.pc = "claim" /\ k.refresh = "off"
               /\ k \in WorkerStates
               /\ Write(e, Claimed(rec[e], w))
               /\ \/ Become(w, [k EXCEPT !.pc = "settle"])
                  \/ Become(w, Entering(k, Claimed(rec[e], w)))
<1>1. worker[w].pc = "claim"
  BY DEF Claims, Claim, ClaimUnacknowledged
<1>2. QED
  BY <1>1, Busy DEF Claims, Claim, ClaimUnacknowledged, GiveUp, Goto, DeliveryInv

\* What a claim does to the record.
LEMMA ClaimedFields ==
    ASSUME NEW r \in Records, NEW w \in Workers
    PROVE  LET s == Claimed(r, w)
           IN  /\ s.attempts = r.attempts + 1 /\ s.leaseOwner = w
               /\ s.history = r.history /\ s.result = r.result /\ s.status = "running"
               /\ s.cancelRequested = r.cancelRequested
BY DEF Claimed, Records

\* The new attempt is the latest and the others fall behind.
LEMMA ClaimKeepsAttempts ==
    ASSUME Inv, AttemptsInv, NEW w \in Workers, Claims(w)
    PROVE  AttemptsInv'
<1> DEFINE k == worker[w]
           e == k.target
           r == rec[e]
           s == Claimed(r, w)
<1>1. /\ e \in Experiments /\ r \in Records /\ k.pc = "claim" /\ k.refresh = "off"
      /\ k \in WorkerStates
  BY ClaimFacts
<1>2. /\ s.attempts = r.attempts + 1 /\ s.leaseOwner = w /\ s.history = r.history
      /\ r.attempts \in Nat
  BY <1>1, ClaimedFields DEF Records
<1>3. rec' = [rec EXCEPT ![e] = s]
  BY ClaimFacts DEF Write
<1>4. rec'[e] = s /\ \A f \in Experiments \ {e} : rec'[f] = rec[f]
  BY <1>1, <1>3 DEF Inv, TypeOK
<1>5. \/ worker' = [worker EXCEPT ![w] = [k EXCEPT !.pc = "settle"]]
      \/ worker' = [worker EXCEPT ![w] = Entering(k, s)]
  BY ClaimFacts DEF Become
<1>6. worker'[w] \in {[k EXCEPT !.pc = "settle"], Entering(k, s)}
      /\ \A v \in Workers \ {w} : worker'[v] = worker[v]
  BY <1>5 DEF Inv, TypeOK
<1>7. ASSUME NEW v \in Workers \ {w}
      PROVE  /\ Fenced(v, worker'[v], rec'[worker'[v].target])
             /\ Progress(v, worker'[v], rec'[worker'[v].target])
  <2> DEFINE l == worker[v]
  <2>1. worker'[v] = l /\ l \in WorkerStates
    BY <1>6 DEF Inv, TypeOK
  <2>2. Fenced(v, l, rec[l.target]) /\ Progress(v, l, rec[l.target])
    BY FencedByFence, ProgressByInv DEF AttemptsInv
  <2>3. CASE l.target = e
    <3>1. l.attempt \in Nat
      BY <2>1 DEF WorkerStates
    <3>2. Fenced(v, l, s)
      BY <1>2, <2>2, <2>3, <3>1 DEF Fenced
    <3>3. Progress(v, l, s)
      BY <1>2, <2>2 DEF Progress
    <3>4. QED BY <1>4, <2>1, <2>3, <3>2, <3>3
  <2>4. CASE l.target # e
    <3>1. CASE Executing(l)
      BY <1>4, <2>1, <2>2, <2>4, <3>1, ExecutingBusy
    <3>2. CASE ~Executing(l)
      BY <2>1, <2>2, <3>2
         DEF Fenced, Progress, Executing, Running, ReadSteps, WriteSteps
    <3>3. QED BY <3>1, <3>2
  <2>5. QED BY <2>3, <2>4
<1>8. /\ Fenced(w, worker'[w], rec'[worker'[w].target])
      /\ Progress(w, worker'[w], rec'[worker'[w].target])
  <2>1. Progress(w, k, r)
    BY ProgressByInv DEF AttemptsInv
  <2>2. CASE worker'[w] = [k EXCEPT !.pc = "settle"]
    <3> DEFINE l == [k EXCEPT !.pc = "settle"]
    <3>1. l.pc = "settle" /\ l.refresh = "off"
      BY <1>1 DEF WorkerStates
    <3>2. QED BY <2>2, <3>1
      DEF Fenced, Progress, Executing, Running, ReadSteps, WriteSteps
  <2>3. CASE worker'[w] = Entering(k, s)
    <3> DEFINE l == Entering(k, s)
    <3>1. /\ l.pc = "enter" /\ l.attempt = s.attempts /\ l.target = e
          /\ l.iter = k.iter /\ l.verdict = ClaimVerdict(s)
      BY <1>1 DEF WorkerStates, Entering
    <3>2. l.iter = 0
      BY <1>1, <2>1, <3>1 DEF Progress
    <3>3. l.verdict = "none" => l.attempt <= MaxAttempts
      BY <1>2, <3>1, MaxAttemptsAssumption DEF ClaimVerdict
    <3>4. Progress(w, l, s)
      BY <3>1, <3>2, <3>3 DEF Progress, Running
    <3>5. Fenced(w, l, s)
      BY <1>2, <3>1 DEF Fenced
    <3>6. QED BY <1>4, <2>3, <3>1, <3>4, <3>5
  <2>4. QED BY <1>6, <2>2, <2>3
<1>9. \A v \in Workers : /\ Fenced(v, worker'[v], rec'[worker'[v].target])
                         /\ Progress(v, worker'[v], rec'[worker'[v].target])
  BY <1>7, <1>8
<1>10. AttemptFencing'
  BY <1>9 DEF AttemptFencing, Attempting, Fenced, Executing
<1>11. \A v \in Workers : ProgressInv(v)'
  BY <1>9 DEF ProgressInv, Progress, AtIteration
<1>12. QED BY <1>10, <1>11 DEF AttemptsInv

-----------------------------------------------------------------------------
\* What attempts leave in one record.

RecordFence(r) ==
    /\ Exists(r) \/ r = AbsentRecord
    /\ \E a \in 0 .. r.attempts, n \in 0 .. Iterations : r.history = Measured(a, n)
    /\ r.status = "completed" =>
          r.result > 0 /\ r.history = [i \in Points |-> r.result]
    /\ r.result <= MaxAttempts
    /\ \A i \in Points : r.history[i] <= MaxAttempts

LEMMA RecordFences ==
    (\A e \in Experiments : RecordFence(rec[e])) <=>
        /\ \A e \in Experiments : Exists(rec[e]) \/ rec[e] = AbsentRecord
        /\ OneAttemptHistory /\ CompletedResultIntact /\ AttemptLimit
BY DEF RecordFence, OneAttemptHistory, CompletedResultIntact, AttemptLimit, Measured

LEMMA FenceParts ==
    FenceInv <=> AttemptsInv /\ \A e \in Experiments : RecordFence(rec[e])
BY RecordFences DEF FenceInv, AttemptsInv

LEMMA FencePartsNext ==
    FenceInv' <=> AttemptsInv' /\ \A e \in Experiments : RecordFence(rec'[e])
<1>1. (\A e \in Experiments : RecordFence(rec'[e])) <=>
        /\ \A e \in Experiments : Exists(rec'[e]) \/ rec'[e] = AbsentRecord
        /\ OneAttemptHistory' /\ CompletedResultIntact' /\ AttemptLimit'
  BY DEF RecordFence, OneAttemptHistory, CompletedResultIntact, AttemptLimit, Measured
<1>2. QED BY <1>1 DEF FenceInv, AttemptsInv, Exists, AbsentRecord

\* The first record of an experiment, before and after its creation.
LEMMA NewFence == RecordFence(AbsentRecord) /\ RecordFence(NewRecord)
<1>1. 0 \in 0 .. 0 /\ 0 \in 0 .. Iterations
  BY IterationsAssumption
<1>2. NoHistory = Measured(0, 0) /\ \A i \in Points : NoHistory[i] = 0
  BY DEF NoHistory, Measured, Points
<1>3. AbsentRecord.attempts = 0 /\ AbsentRecord.history = NoHistory
      /\ AbsentRecord.result = 0 /\ AbsentRecord.status = "absent"
  BY DEF AbsentRecord
<1>4. NewRecord.attempts = 0 /\ NewRecord.history = NoHistory
      /\ NewRecord.result = 0 /\ NewRecord.status = "queued"
  BY DEF AbsentRecord, NewRecord
<1>5. RecordFence(AbsentRecord)
  BY <1>1, <1>2, <1>3, MaxAttemptsAssumption DEF RecordFence
<1>6. RecordFence(NewRecord)
  BY <1>1, <1>2, <1>4, MaxAttemptsAssumption DEF RecordFence, Exists
<1>7. QED BY <1>5, <1>6

\* Quiet mutations, claims and finishing leave it as it is.
LEMMA FenceKept ==
    ASSUME NEW r \in Records, NEW s, RecordFence(r), Exists(s),
           s.history = r.history, s.result = r.result,
           s.attempts \in Nat, s.attempts >= r.attempts,
           s.status = "completed" => r.status = "completed"
    PROVE  RecordFence(s)
<1>1. r.attempts \in Nat
  BY DEF Records
<1>2. PICK a \in 0 .. r.attempts, n \in 0 .. Iterations : r.history = Measured(a, n)
  BY DEF RecordFence
<1>3. a \in 0 .. s.attempts
  BY <1>1
<1>4. QED BY <1>2, <1>3 DEF RecordFence

\* A metric continues its attempt's history, or starts it anew.
LEMMA MetricContinues ==
    ASSUME NEW r \in Records, NEW a \in Nat, NEW i \in Nat, i < Iterations,
           i > 0 => r.history \in {Measured(a, i), Measured(a, i + 1)}
    PROVE  WithMetric(r, i, a).history = Measured(a, i + 1)
<1> DEFINE h == IF i = 0 THEN NoHistory ELSE r.history
<1>1. WithMetric(r, i, a).history = [h EXCEPT ![i] = a]
  BY DEF WithMetric, Records
<1>2. Iterations \in Nat /\ Points \subseteq Nat
  BY IterationsAssumption DEF Points
<1>3. i = 0 \/ i > 0
  OBVIOUS
<1>4. CASE i = 0
  <2>1. h = [j \in Points |-> 0]
    BY <1>4 DEF NoHistory
  <2>2. [h EXCEPT ![i] = a] = [j \in Points |-> IF j = 0 THEN a ELSE 0]
    BY <1>4, <2>1
  <2>3. \A j \in Points : j = 0 <=> j < i + 1
    BY <1>2, <1>4
  <2>4. [j \in Points |-> IF j = 0 THEN a ELSE 0] = Measured(a, i + 1)
    BY <2>3 DEF Measured
  <2>5. QED BY <1>1, <2>2, <2>4
<1>5. CASE i > 0
  <2>1. h \in {Measured(a, i), Measured(a, i + 1)}
    BY <1>5
  <2>2. h = [j \in Points |-> h[j]] /\ \A j \in Points : j # i =>
           h[j] = IF j < i + 1 THEN a ELSE 0
    <3>1. \A j \in Points : j # i => (j < i <=> j < i + 1)
      BY <1>2
    <3>2. CASE h = Measured(a, i)
      BY <3>1, <3>2 DEF Measured
    <3>3. CASE h = Measured(a, i + 1)
      BY <3>3 DEF Measured
    <3>4. QED BY <2>1, <3>2, <3>3
  <2>3. [h EXCEPT ![i] = a] = [j \in Points |-> IF j = i THEN a ELSE h[j]]
    <3> HIDE DEF h
    <3>1. QED BY <2>2
  <2>4. \A j \in Points : (IF j = i THEN a ELSE h[j]) = (IF j < i + 1 THEN a ELSE 0)
    <3> HIDE DEF h
    <3>1. i < i + 1
      OBVIOUS
    <3>2. QED BY <2>2, <3>1
  <2>5. [h EXCEPT ![i] = a] = Measured(a, i + 1)
    <3> HIDE DEF h
    <3>1. QED BY <2>3, <2>4 DEF Measured
  <2>6. QED BY <1>1, <2>5
<1>6. QED BY <1>3, <1>4, <1>5

\* All iterations measured is one attempt everywhere.
LEMMA AllMeasured ==
    ASSUME NEW a \in Nat
    PROVE  Measured(a, Iterations) = [i \in Points |-> a]
BY IterationsAssumption DEF Measured, Points

\* The worker whose upload lands executes the latest attempt.
LEMMA LandsLatest ==
    ASSUME Inv, AttemptsInv, NEW w \in Workers, Lands(w)
    PROVE  LET k == worker[w]
               r == rec[k.target]
           IN  /\ k.target \in Experiments /\ r \in Records /\ k \in WorkerStates
               /\ ClaimedBy(w, r) /\ k.attempt = r.attempts /\ k.attempt \in Nat \ {0}
               /\ Exists(r) /\ ~Terminal(r)
               /\ DeliveryInv(k, r)
               /\ Progress(w, k, r)
<1> DEFINE k == worker[w]
           r == rec[k.target]
<1>1. k.pc \in WriteSteps /\ Fresh(w, "main")
  BY DEF Lands, Upload, WriteSteps
<1>2. /\ k.target \in Experiments /\ r \in Records /\ k \in WorkerStates
      /\ DeliveryInv(k, r) /\ FreshInv(w, k, r)
  BY <1>1, Busy DEF WriteSteps
<1>3. ClaimedBy(w, r)
  BY <1>1, <1>2 DEF FreshInv
<1>4. Executing(k)
  BY <1>1 DEF Executing
<1>5. Fenced(w, k, r) /\ Progress(w, k, r)
  BY FencedByFence, ProgressByInv DEF AttemptsInv
<1>6. k.attempt = r.attempts /\ k.attempt \in 1 .. r.attempts
  BY <1>3, <1>4, <1>5 DEF Fenced, ClaimedBy
<1>7. k.attempt \in Nat \ {0}
  BY <1>2, <1>6 DEF Records
<1>8. Exists(r) /\ ~Terminal(r)
  BY <1>3 DEF ClaimedBy, Exists, Terminal, TerminalStatuses
<1>9. QED BY <1>2, <1>3, <1>5, <1>6, <1>7, <1>8

\* Uploads of metrics: the record.
LEMMA MetricFence ==
    ASSUME Inv, AttemptsInv, NEW w \in Workers,
           Upload(w, "metricWrite", MetricRecord(w)),
           RecordFence(rec[worker[w].target])
    PROVE  LET k == worker[w]
               s == MetricRecord(w)
           IN  /\ RecordFence(s)
               /\ s.history = Measured(k.attempt, k.iter + 1)
               /\ k.iter \in Nat /\ k.iter < Iterations /\ k.attempt <= MaxAttempts
<1> DEFINE k == worker[w]
           r == rec[k.target]
           s == WithMetric(r, k.iter, k.attempt)
<1>1. /\ r \in Records /\ k \in WorkerStates /\ ClaimedBy(w, r)
      /\ k.attempt = r.attempts /\ k.attempt \in Nat \ {0}
      /\ Exists(r) /\ ~Terminal(r) /\ DeliveryInv(k, r) /\ Progress(w, k, r)
  BY LandsLatest DEF Lands
<1>2. k.pc = "metricWrite"
  BY DEF Upload
<1>3. k.iter < Iterations /\ k.iter \in Nat
  BY <1>1, <1>2, IterationsAssumption DEF DeliveryInv, WorkerStates
<1>4. AtIteration(k, r) /\ k.attempt <= MaxAttempts
  BY <1>1, <1>2 DEF Progress, Running, ClaimedBy
<1>5. s.history = Measured(k.attempt, k.iter + 1)
  <2>1. k.iter > 0 => r.history \in {Measured(k.attempt, k.iter), Measured(k.attempt, k.iter + 1)}
    BY <1>2, <1>4 DEF AtIteration
  <2>2. QED BY <1>1, <1>3, <2>1, MetricContinues
<1>6. /\ s.attempts = r.attempts /\ s.result = r.result /\ s.status = r.status
  BY <1>1 DEF WithMetric, Records
<1>7. r.status # "completed" /\ Exists(s)
  BY <1>1, <1>6 DEF Terminal, TerminalStatuses, Exists
<1>8. k.attempt \in 0 .. s.attempts /\ k.iter + 1 \in 0 .. Iterations
  BY <1>1, <1>3, <1>6, IterationsAssumption
<1>9. \A i \in Points : s.history[i] <= MaxAttempts
  BY <1>1, <1>4, <1>5, MaxAttemptsAssumption DEF Measured
<1>10. s.result <= MaxAttempts
  BY <1>6 DEF RecordFence
<1>11. RecordFence(s)
  BY <1>5, <1>6, <1>7, <1>8, <1>9, <1>10 DEF RecordFence
<1>12. QED BY <1>3, <1>4, <1>5, <1>11 DEF MetricRecord

\* Uploads that land leave the record fenced.
LEMMA LandsFence ==
    ASSUME Inv, AttemptsInv, NEW w \in Workers, Lands(w),
           \A e \in Experiments : RecordFence(rec[e])
    PROVE  \A e \in Experiments : RecordFence(rec'[e])
<1> DEFINE k == worker[w]
           r == rec[k.target]
<1>1. /\ k.target \in Experiments /\ r \in Records /\ k \in WorkerStates
      /\ ClaimedBy(w, r) /\ k.attempt = r.attempts /\ k.attempt \in Nat \ {0}
      /\ Exists(r) /\ ~Terminal(r) /\ DeliveryInv(k, r) /\ Progress(w, k, r)
  BY LandsLatest
<1>2. RecordFence(r)
  BY <1>1
<1>3. PICK s : Write(k.target, s) /\ RecordFence(s)
  <2>1. CASE Upload(w, "metricWrite", MetricRecord(w))
    BY <1>2, <2>1, MetricFence DEF Upload
  <2>2. CASE Upload(w, "completeWrite", CompleteRecord(w))
    <3> DEFINE s == Completed(r, k.attempt)
    <3>1. k.pc = "completeWrite" /\ Write(k.target, s)
      BY <2>2 DEF Upload, CompleteRecord
    <3>2. AtIteration(k, r) /\ k.attempt <= MaxAttempts
      BY <1>1, <3>1 DEF Progress, Running, ClaimedBy
    <3>3. r.history = [i \in Points |-> k.attempt]
      BY <1>1, <3>1, <3>2, AllMeasured DEF AtIteration
    <3>4. /\ s.history = r.history /\ s.attempts = r.attempts
          /\ s.result = k.attempt /\ s.status = "completed"
      BY <1>1 DEF Completed, Records
    <3>5. k.attempt > 0
      BY <1>1
    <3>6. Exists(s) /\ s.result > 0 /\ s.history = [i \in Points |-> s.result]
      BY <3>3, <3>4, <3>5 DEF Exists
    <3>7. /\ \E a \in 0 .. s.attempts, n \in 0 .. Iterations : s.history = Measured(a, n)
          /\ s.result <= MaxAttempts /\ \A i \in Points : s.history[i] <= MaxAttempts
      BY <1>2, <3>2, <3>4 DEF RecordFence
    <3>8. RecordFence(s)
      BY <3>6, <3>7 DEF RecordFence
    <3>9. QED BY <3>1, <3>8
  <2>3. CASE Upload(w, "finishWrite", FinishRecord(w))
    <3> DEFINE s == Finished(r, k.verdict)
    <3>1. k.pc = "finishWrite" /\ Write(k.target, s)
      BY <2>3 DEF Upload, FinishRecord
    <3>2. k.verdict \in {"queued", "cancelled", "failed"}
      BY <1>1, <3>1 DEF DeliveryInv, WorkerStates
    <3>3. /\ s.history = r.history /\ s.attempts = r.attempts
          /\ s.result = r.result /\ s.status = k.verdict /\ r.attempts \in Nat
      BY <1>1 DEF Finished, Records
    <3>4. Exists(s) /\ s.status # "completed"
      BY <3>2, <3>3 DEF Exists
    <3>5. RecordFence(s)
      BY <1>1, <1>2, <3>3, <3>4, FenceKept
    <3>6. QED BY <3>1, <3>5
  <2>4. QED BY <2>1, <2>2, <2>3 DEF Lands
<1>4. QED BY <1>1, <1>3 DEF Write, Inv, TypeOK

\* The record of an upload is alike but for its history.
LEMMA LandsAlike ==
    ASSUME Inv, NEW w \in Workers, Lands(w),
           worker[w].target \in Experiments, rec[worker[w].target] \in Records
    PROVE  \A e \in Experiments :
               /\ rec'[e].attempts = rec[e].attempts
               /\ rec'[e].leaseOwner = rec[e].leaseOwner
               /\ rec'[e].history # rec[e].history =>
                     e = worker[w].target /\ Upload(w, "metricWrite", MetricRecord(w))
<1> DEFINE k == worker[w]
           r == rec[k.target]
<1>1. rec \in [Experiments -> Records]
  BY DEF Inv, TypeOK
<1>2. CASE Upload(w, "metricWrite", MetricRecord(w))
  <2>1. rec' = [rec EXCEPT ![k.target] = MetricRecord(w)]
    BY <1>2 DEF Upload, Write
  <2>2. MetricRecord(w).attempts = r.attempts /\ MetricRecord(w).leaseOwner = r.leaseOwner
    BY DEF MetricRecord, WithMetric, Records
  <2>3. QED BY <1>1, <1>2, <2>1, <2>2
<1>3. CASE Upload(w, "completeWrite", CompleteRecord(w))
  <2>1. rec' = [rec EXCEPT ![k.target] = CompleteRecord(w)]
    BY <1>3 DEF Upload, Write
  <2>2. /\ CompleteRecord(w).attempts = r.attempts
        /\ CompleteRecord(w).leaseOwner = r.leaseOwner
        /\ CompleteRecord(w).history = r.history
    BY DEF CompleteRecord, Completed, Records
  <2>3. QED BY <1>1, <2>1, <2>2
<1>4. CASE Upload(w, "finishWrite", FinishRecord(w))
  <2>1. rec' = [rec EXCEPT ![k.target] = FinishRecord(w)]
    BY <1>4 DEF Upload, Write
  <2>2. /\ FinishRecord(w).attempts = r.attempts
        /\ FinishRecord(w).leaseOwner = r.leaseOwner
        /\ FinishRecord(w).history = r.history
    BY DEF FinishRecord, Finished, Records
  <2>3. QED BY <1>1, <2>1, <2>2
<1>5. QED BY <1>2, <1>3, <1>4 DEF Lands

\* w is the only one who executes the latest attempt, so its metric is behind nobody's
\* back.
LEMMA MetricKeepsAttempts ==
    ASSUME Inv, AttemptsInv, NEW w \in Workers,
           \A e \in Experiments : RecordFence(rec[e]),
           Upload(w, "metricWrite", MetricRecord(w)), AllGo \/ WriteMetric(w)
    PROVE  AttemptsInv'
<1> DEFINE k == worker[w]
           e == k.target
           r == rec[e]
           s == MetricRecord(w)
           Good(v, l) == Fenced(v, l, rec'[l.target]) /\ Progress(v, l, rec'[l.target])
<1>1. /\ e \in Experiments /\ r \in Records /\ k \in WorkerStates /\ ClaimedBy(w, r)
      /\ k.attempt = r.attempts /\ k.attempt \in Nat \ {0} /\ Progress(w, k, r)
  BY LandsLatest DEF Lands
<1>2. /\ s.history = Measured(k.attempt, k.iter + 1)
      /\ k.iter \in Nat /\ k.iter < Iterations /\ k.attempt <= MaxAttempts
  BY <1>1, MetricFence
<1>3. rec'[e] = s /\ \A f \in Experiments \ {e} : rec'[f] = rec[f]
  BY <1>1 DEF Upload, Write, Inv, TypeOK
<1>4. s.attempts = r.attempts /\ s.leaseOwner = r.leaseOwner
  BY <1>1 DEF MetricRecord, WithMetric, Records
<1>5. k.pc = "metricWrite" /\ Executing(k)
  BY DEF Upload, Executing, WriteSteps
<1>6. ASSUME NEW v \in Workers \ {w}, NEW l, Goes(worker[v], l)
      PROVE  Good(v, l)
  <2> DEFINE j == worker[v]
  <2>1. j \in WorkerStates /\ Fenced(v, j, rec[j.target]) /\ Progress(v, j, rec[j.target])
    BY FencedByFence, ProgressByInv DEF Inv, TypeOK, AttemptsInv
  <2>2. Progress(v, l, rec[j.target])
    BY <1>6, <2>1, ProgressGoes
  <2>3. CASE ~Executing(l)
    BY <2>2, <2>3 DEF Fenced, Progress, Executing, Running, ReadSteps, WriteSteps
  <2>4. CASE Executing(l)
    <3>1. Executing(j) /\ l.target = j.target /\ l.attempt = j.attempt
      BY <1>6, <2>4 DEF Goes
    <3>2. l.target \in Experiments /\ Fenced(v, l, rec[l.target]) /\ Progress(v, l, rec[l.target])
      BY <2>1, <2>2, <3>1, ExecutingBusy DEF Fenced
    <3>3. CASE l.target # e
      BY <1>3, <3>2, <3>3
    <3>4. CASE l.target = e
      <4>1. s.leaseOwner # v
        BY <1>1, <1>4 DEF ClaimedBy
      <4>2. QED BY <1>3, <1>4, <3>2, <3>4, <4>1 DEF Fenced, Progress
    <3>5. QED BY <3>3, <3>4
  <2>5. QED BY <2>3, <2>4
<1>7. Fenced(w, k, s)
  BY <1>4, FencedByFence DEF AttemptsInv, Fenced
<1>8. ASSUME NEW l, l.target = e, l.attempt = k.attempt, l.pc \in {"metric", "metricWrite"},
             l.iter = k.iter
      PROVE  Good(w, l)
  <2>1. AtIteration(l, s)
    BY <1>2, <1>8 DEF AtIteration
  <2>2. Progress(w, l, s)
    BY <1>2, <1>8, <2>1 DEF Progress
  <2>3. Fenced(w, l, s)
    BY <1>5, <1>7, <1>8 DEF Fenced
  <2>4. QED BY <1>3, <1>8, <2>2, <2>3
<1>9. ASSUME NEW l, Goes(k, l) PROVE Good(w, l)
  <2>1. CASE Ahead(k, l)
    BY <1>5, <1>8, <2>1 DEF Ahead
  <2>2. CASE l.pc \in {"idle", "settle", "finish", "finishWrite"} \/ (l.pc = "received" /\ l.iter = 0)
    <3>1. Progress(w, l, rec'[l.target])
      BY <2>2 DEF Progress, Running
    <3>2. Executing(l) => l.target = e /\ l.attempt = k.attempt
      BY <1>9 DEF Goes
    <3>3. Fenced(w, l, rec'[l.target])
      BY <1>3, <1>5, <1>7, <3>2 DEF Fenced
    <3>4. QED BY <3>1, <3>3
  <2>3. QED BY <1>9, <2>1, <2>2 DEF Goes
<1>10. ASSUME WriteMetric(w) PROVE Good(w, worker'[w])
  <2> DEFINE l == [k EXCEPT !.pc = "check", !.iter = k.iter + 1]
  <2>1. worker'[w] = l
    BY <1>10 DEF WriteMetric, Become, Inv, TypeOK
  <2>2. l.pc = "check" /\ l.iter = k.iter + 1 /\ l.target = e /\ l.attempt = k.attempt
    BY <1>1 DEF WorkerStates
  <2> HIDE DEF l
  <2>3. AtIteration(l, s)
    BY <1>2, <2>2 DEF AtIteration
  <2>4. Progress(w, l, s)
    BY <1>2, <2>2, <2>3 DEF Progress
  <2>5. Fenced(w, l, s)
    BY <1>5, <1>7, <2>2 DEF Fenced
  <2>6. QED BY <1>3, <2>1, <2>2, <2>4, <2>5
<1>11. \A v \in Workers \ {w} : Goes(worker[v], worker'[v])
  <2>1. CASE AllGo
    BY <2>1 DEF AllGo
  <2>2. CASE WriteMetric(w)
    <3>1. \A v \in Workers \ {w} : worker'[v] = worker[v]
      BY <2>2 DEF WriteMetric, Become, Inv, TypeOK
    <3>2. QED BY <3>1 DEF Goes, Ahead
  <2>3. QED BY <2>1, <2>2
<1>12. \A v \in Workers : Good(v, worker'[v])
  BY <1>6, <1>9, <1>10, <1>11 DEF AllGo
<1>13. AttemptFencing'
  BY <1>12 DEF AttemptFencing, Attempting, Fenced, Executing
<1>14. \A v \in Workers : ProgressInv(v)'
  BY <1>12 DEF ProgressInv, Progress, AtIteration
<1>15. QED BY <1>13, <1>14 DEF AttemptsInv

-----------------------------------------------------------------------------
\* FenceInv is an invariant.

LEMMA FenceInit == Init => FenceInv
<1> SUFFICES ASSUME Init PROVE FenceInv
  OBVIOUS
<1>1. \A w \in Workers : worker[w] = IdleWorker
  BY DEF Init
<1>2. AttemptsInv
  BY <1>1 DEF AttemptsInv, AttemptFencing, Attempting, ProgressInv, IdleWorker, Running,
              ReadSteps, WriteSteps
<1>3. \A e \in Experiments : RecordFence(rec[e])
  BY NewFence DEF Init
<1>4. QED BY <1>2, <1>3, FenceParts

\* Creating a record disturbs nobody.
LEMMA SubmitFence ==
    ASSUME Inv, FenceInv, NEW c \in Clients, NEW e \in Experiments, Submit(c, e)
    PROVE  FenceInv'
<1>1. AttemptsInv /\ \A f \in Experiments : RecordFence(rec[f])
  BY FenceParts
<1>2. ~Exists(rec[e]) /\ rec' = [rec EXCEPT ![e] = NewRecord] /\ UNCHANGED worker
  BY DEF Submit, Write
<1>3. \A f \in Experiments : RecordFence(rec'[f])
  BY <1>1, <1>2, NewFence DEF Inv, TypeOK
<1>4. rec[e] = AbsentRecord
  BY <1>1, <1>2 DEF RecordFence
<1>5. \A f \in Experiments : Alike(rec[f], rec'[f])
  BY <1>2, <1>4 DEF Inv, TypeOK, Alike, NewRecord, AbsentRecord
<1>6. AllGo
  BY <1>2, IdleGoes
<1>7. QED BY <1>1, <1>3, <1>5, <1>6, AttemptsGo, FencePartsNext

LEMMA ClaimFence ==
    ASSUME Inv, FenceInv, NEW w \in Workers, Claims(w)
    PROVE  FenceInv'
<1> DEFINE e == worker[w].target
           r == rec[e]
           s == Claimed(r, w)
<1>1. AttemptsInv /\ \A f \in Experiments : RecordFence(rec[f])
  BY FenceParts
<1>2. e \in Experiments /\ r \in Records /\ rec' = [rec EXCEPT ![e] = s]
  BY ClaimFacts DEF Write
<1>3. /\ s.attempts = r.attempts + 1 /\ s.history = r.history /\ s.result = r.result
      /\ s.status = "running" /\ r.attempts \in Nat
  BY <1>2, ClaimedFields DEF Records
<1>4. s.attempts \in Nat /\ s.attempts >= r.attempts /\ Exists(s)
  BY <1>3 DEF Exists
<1>5. RecordFence(s)
  BY <1>1, <1>2, <1>3, <1>4, FenceKept
<1>6. \A f \in Experiments : RecordFence(rec'[f])
  BY <1>1, <1>2, <1>5 DEF Inv, TypeOK
<1>7. QED BY <1>1, <1>6, ClaimKeepsAttempts, FencePartsNext

LEMMA LandsFenceInv ==
    ASSUME Inv, FenceInv, NEW w \in Workers, WriteMetric(w) \/ (AllGo /\ Lands(w))
    PROVE  FenceInv'
<1>1. AttemptsInv /\ \A f \in Experiments : RecordFence(rec[f])
  BY FenceParts
<1>2. Lands(w)
  BY DEF WriteMetric, Lands
<1>3. \A f \in Experiments : RecordFence(rec'[f])
  BY <1>1, <1>2, LandsFence
<1>4. AttemptsInv'
  <2>1. CASE Upload(w, "metricWrite", MetricRecord(w))
    BY <1>1, <2>1, MetricKeepsAttempts
  <2>2. CASE ~Upload(w, "metricWrite", MetricRecord(w))
    <3>1. AllGo
      BY <2>2 DEF WriteMetric
    <3>2. \A e \in Experiments : Alike(rec[e], rec'[e])
      BY <1>1, <1>2, <2>2, LandsLatest, LandsAlike DEF Alike
    <3>3. QED BY <1>1, <3>1, <3>2, AttemptsGo
  <2>3. QED BY <2>1, <2>2
<1>5. QED BY <1>3, <1>4, FencePartsNext

LEMMA QuietFence ==
    ASSUME Inv, FenceInv, AllGo, AllQuiet
    PROVE  FenceInv'
<1>1. AttemptsInv /\ \A f \in Experiments : RecordFence(rec[f])
  BY FenceParts
<1>2. \A e \in Experiments : Alike(rec[e], rec'[e])
  BY DEF AllQuiet, Quiet, Alike
<1>3. ASSUME NEW e \in Experiments PROVE RecordFence(rec'[e])
  <2>1. rec[e] \in Records /\ Quiet(rec[e], rec'[e]) /\ RecordFence(rec[e])
    BY <1>1 DEF Inv, TypeOK, AllQuiet
  <2>2. CASE rec'[e] = rec[e]
    BY <2>1, <2>2
  <2>3. CASE Exists(rec'[e])
    <3>1. rec'[e].attempts \in Nat /\ rec'[e].attempts >= rec[e].attempts
      BY <2>1 DEF Quiet, Records
    <3>2. QED BY <2>1, <2>3, <3>1, FenceKept DEF Quiet
  <2>4. QED BY <2>1, <2>2, <2>3 DEF Quiet
<1>4. QED BY <1>1, <1>2, <1>3, AttemptsGo, FencePartsNext

\* FenceInv holds in every reachable state: attempts stay apart however claims, takeovers
\* and late uploads interleave (worker.py 82-126, 205, 246-279).
THEOREM FenceInvariant == Spec => []FenceInv
<1>1. Inv /\ FenceInv /\ [Next]_vars => FenceInv'
  BY StepsHaveKinds, SubmitFence, ClaimFence, LandsFenceInv, QuietFence DEF StepKinds
<1>2. QED BY InvInvariant, FenceInit, <1>1, PTL DEF Spec

\* A worker whose attempt is the record's latest owns the record, and no other does
\* (worker.py 97-115, 173).
THEOREM AttemptsFenced == Spec => []AttemptFencing
<1>1. FenceInv => AttemptFencing
  BY DEF FenceInv
<1>2. QED BY FenceInvariant, <1>1, PTL

\* No attempt beyond the limit reaches the record (worker.py 205).
THEOREM AttemptsLimited == Spec => []AttemptLimit
<1>1. FenceInv => AttemptLimit
  BY DEF FenceInv
<1>2. QED BY FenceInvariant, <1>1, PTL

\* A history is a prefix measured by one attempt (worker.py 120-126).
THEOREM HistoryOfOneAttempt == Spec => []OneAttemptHistory
<1>1. FenceInv => OneAttemptHistory
  BY DEF FenceInv
<1>2. QED BY FenceInvariant, <1>1, PTL

\* A completed record shows the metrics of the attempt whose artifacts it names
\* (worker.py 246-279).
THEOREM CompletedIntact == Spec => []CompletedResultIntact
<1>1. FenceInv => CompletedResultIntact
  BY DEF FenceInv
<1>2. QED BY FenceInvariant, <1>1, PTL

\* Only the worker of the latest attempt reports, requeues and ends (worker.py 82-95).
THEOREM StaleFenced == Spec => StaleOwnersFenced
<1> DEFINE Guarded ==
      \A e \in Experiments :
         Outcome(rec'[e]) # Outcome(rec[e]) \/ Requeued(rec[e], rec'[e])
             => \E w \in Workers : Latest(w, e)
<1>1. ASSUME Inv, FenceInv, [Next]_vars PROVE Guarded
  <2> SUFFICES ASSUME NEW e \in Experiments,
                      Outcome(rec'[e]) # Outcome(rec[e]) \/ Requeued(rec[e], rec'[e])
               PROVE  \E w \in Workers : Latest(w, e)
    OBVIOUS
  <2>0. AttemptsInv /\ rec \in [Experiments -> Records]
        /\ \A f \in Experiments : RecordFence(rec[f])
    BY <1>1, FenceParts DEF Inv, TypeOK
  <2>1. CASE AllQuiet
    <3>1. Quiet(rec[e], rec'[e])
      BY <2>1 DEF AllQuiet
    <3>2. Terminal(rec'[e]) = Terminal(rec[e])
      BY <3>1 DEF Quiet, Terminal
    <3>3. QED BY <3>1, <3>2 DEF Quiet, Outcome, Requeued
  <2>2. ASSUME NEW c \in Clients, NEW f \in Experiments, Submit(c, f) PROVE FALSE
    <3>1. ~Exists(rec[f]) /\ rec' = [rec EXCEPT ![f] = NewRecord]
      BY <2>2 DEF Submit, Write
    <3>2. rec[f] = AbsentRecord
      BY <2>0, <3>1 DEF RecordFence
    <3>3. Outcome(NewRecord) = Outcome(AbsentRecord)
      BY DEF Outcome, NewRecord, AbsentRecord, Terminal, TerminalStatuses
    <3>4. CASE f = e
      BY <2>0, <3>1, <3>2, <3>3, <3>4 DEF Requeued
    <3>5. CASE f # e
      BY <2>0, <3>1, <3>5 DEF Requeued
    <3>6. QED BY <3>4, <3>5
  <2>3. ASSUME NEW w \in Workers, Claims(w) PROVE FALSE
    <3> DEFINE f == worker[w].target
               s == Claimed(rec[f], w)
    <3>1. f \in Experiments /\ rec[f] \in Records /\ ~Terminal(rec[f])
          /\ rec' = [rec EXCEPT ![f] = s]
      BY <1>1, <2>3, ClaimFacts DEF Claimable, Write
    <3>2. s.history = rec[f].history /\ s.result = rec[f].result /\ s.status = "running"
      BY <3>1, ClaimedFields
    <3>3. Outcome(s) = Outcome(rec[f]) /\ ~Requeued(rec[f], s)
      BY <3>1, <3>2 DEF Outcome, Requeued, Terminal, TerminalStatuses
    <3>4. CASE f = e
      BY <2>0, <3>1, <3>3, <3>4
    <3>5. CASE f # e
      BY <2>0, <3>1, <3>5 DEF Requeued
    <3>6. QED BY <3>4, <3>5
  <2>4. ASSUME NEW w \in Workers, Lands(w) PROVE Latest(w, e)
    <3> DEFINE f == worker[w].target
    <3>1. f \in Experiments /\ ClaimedBy(w, rec[f]) /\ worker[w].attempt = rec[f].attempts
      BY <1>1, <2>0, <2>4, LandsLatest
    <3>2. \A g \in Experiments \ {f} : rec'[g] = rec[g]
      BY <2>0, <2>4 DEF Lands, Upload, Write
    <3>3. f = e
      BY <3>2 DEF Requeued
    <3>4. QED BY <3>1, <3>3 DEF Latest, ClaimedBy
  <2>5. \A w \in Workers : WriteMetric(w) => Lands(w)
    BY DEF WriteMetric, Lands
  <2>6. QED BY <1>1, <2>1, <2>2, <2>3, <2>4, <2>5, StepsHaveKinds DEF StepKinds
<1> HIDE DEF Guarded
<1>2. Inv /\ FenceInv /\ [Next]_vars => [Guarded]_vars
  BY <1>1
<1>3. QED BY InvInvariant, FenceInvariant, <1>2, PTL DEF Spec, StaleOwnersFenced, Guarded

-----------------------------------------------------------------------------
\* Failures pay for what is run again.

\* A step costs e nothing: no attempt begins, no other one is doomed, and a secure
\* experiment stays so.
Calm(e) ==
    /\ rec'[e].attempts = rec[e].attempts /\ faults' >= faults
    /\ \A v \in Workers : Dooming(v, e)' => Dooming(v, e)
    /\ Secure(e) => Secure(e)'

\* A failure dooms one attempt that was about to begin, or takes one under way.
Costs(e) ==
    /\ rec'[e].attempts = rec[e].attempts /\ faults' = faults + 1
    /\ \E w \in Workers :
         /\ \A v \in Workers \ {w} : Dooming(v, e)' => Dooming(v, e)
         /\ (Dooming(w, e)' => Dooming(w, e)) \/ (Secure(e) => Secure(e)')

\* An attempt begins: it is secure, or it was doomed, or its claim was a failure.
Begins(e) ==
    /\ rec'[e].attempts = rec[e].attempts + 1
    /\ ~Secure(e)
    /\ \A v \in Workers : Dooming(v, e)' => Dooming(v, e)
    /\ \/ faults' = faults + 1
       \/ faults' = faults /\ Secure(e)'
       \/ faults' = faults /\ \E w \in Workers : Dooming(w, e) /\ ~Dooming(w, e)'

\* What is counted are numbers.
LEMMA Counted ==
    ASSUME Inv, NEW e \in Experiments
    PROVE  rec[e].attempts \in Nat /\ faults \in Nat
  BY MaxFaultsAssumption DEF Inv, TypeOK, Records

LEMMA CountedNext ==
    ASSUME Inv', NEW e \in Experiments
    PROVE  rec'[e].attempts \in Nat /\ faults' \in Nat
  BY MaxFaultsAssumption DEF Inv, TypeOK, Records

LEMMA CalmPaid ==
    ASSUME Inv, Inv', NEW e \in Experiments, Paid(e), Calm(e)
    PROVE  Paid(e)'
  <1> DEFINE D == Doomed(e)
             n == Cardinality(D)
  <1>1. D' \subseteq D
    BY DEF Calm, Doomed
  <1>2. IsFiniteSet(D) /\ rec[e].attempts + n <= faults + (IF Secure(e) THEN 1 ELSE 0)
    BY DEF Paid
  <1>3. IsFiniteSet(D') /\ n \in Nat /\ Cardinality(D') \in Nat /\ Cardinality(D') <= n
    BY <1>1, <1>2, FS_Subset, FS_CardinalityType
  <1>4. rec'[e].attempts = rec[e].attempts /\ faults' >= faults /\ (Secure(e) => Secure(e)')
    BY DEF Calm
  <1>5. rec'[e].attempts + Cardinality(D') <= faults' + (IF Secure(e)' THEN 1 ELSE 0)
    <2> HIDE DEF D, n
    <2> QED
      BY <1>2, <1>3, <1>4, Counted, CountedNext
  <1> QED
    BY <1>3, <1>5 DEF Paid

LEMMA CostsPaid ==
    ASSUME Inv, Inv', NEW e \in Experiments, Paid(e), Costs(e)
    PROVE  Paid(e)'
  <1> DEFINE D == Doomed(e)
             n == Cardinality(D)
  <1>1. PICK w \in Workers :
          /\ \A v \in Workers \ {w} : Dooming(v, e)' => Dooming(v, e)
          /\ (Dooming(w, e)' => Dooming(w, e)) \/ (Secure(e) => Secure(e)')
    BY DEF Costs
  <1>2. IsFiniteSet(D) /\ rec[e].attempts + n <= faults + (IF Secure(e) THEN 1 ELSE 0)
    BY DEF Paid
  <1>3. /\ IsFiniteSet(D \cup {w}) /\ n \in Nat
        /\ Cardinality(D \cup {w}) \in Nat /\ Cardinality(D \cup {w}) <= n + 1
    <2>1. n \in Nat
      BY <1>2, FS_CardinalityType
    <2>2. /\ IsFiniteSet(D \cup {w})
          /\ Cardinality(D \cup {w}) = IF w \in D THEN n ELSE n + 1
      BY <1>2, FS_AddElement
    <2> QED
      BY <2>1, <2>2
  <1>4. D' \subseteq D \cup {w}
    BY <1>1 DEF Doomed
  <1>5. /\ IsFiniteSet(D') /\ Cardinality(D') \in Nat
        /\ Cardinality(D') <= Cardinality(D \cup {w})
    BY <1>3, <1>4, FS_Subset, FS_CardinalityType
  <1>6. (Dooming(w, e)' => Dooming(w, e)) => Cardinality(D') <= n
    <2> SUFFICES ASSUME Dooming(w, e)' => Dooming(w, e) PROVE Cardinality(D') <= n
      OBVIOUS
    <2>1. D' \subseteq D
      BY <1>1 DEF Doomed
    <2> QED
      BY <1>2, <2>1, FS_Subset
  <1>7. rec'[e].attempts = rec[e].attempts /\ faults' = faults + 1
    BY DEF Costs
  <1>8. rec'[e].attempts + Cardinality(D') <= faults' + (IF Secure(e)' THEN 1 ELSE 0)
    <2> HIDE DEF D, n
    <2>1. CASE Cardinality(D') <= n
      BY <1>2, <1>3, <1>5, <1>7, <2>1, Counted, CountedNext
    <2>2. CASE Secure(e) => Secure(e)'
      BY <1>2, <1>3, <1>5, <1>7, <2>2, Counted, CountedNext
    <2> QED
      BY <1>1, <1>6, <2>1, <2>2
  <1> QED
    BY <1>5, <1>8 DEF Paid

LEMMA BeginsPaid ==
    ASSUME Inv, Inv', NEW e \in Experiments, Paid(e), Begins(e)
    PROVE  Paid(e)'
  <1> DEFINE D == Doomed(e)
             n == Cardinality(D)
  <1>1. D' \subseteq D
    BY DEF Begins, Doomed
  <1>2. IsFiniteSet(D) /\ rec[e].attempts + n <= faults
    <2>1. ~Secure(e) /\ IsFiniteSet(D)
            /\ rec[e].attempts + n <= faults + (IF Secure(e) THEN 1 ELSE 0)
      BY DEF Paid, Begins
    <2>2. n \in Nat
      BY <2>1, FS_CardinalityType
    <2> HIDE DEF D, n
    <2> QED
      BY <2>1, <2>2, Counted
  <1>3. IsFiniteSet(D') /\ n \in Nat /\ Cardinality(D') \in Nat /\ Cardinality(D') <= n
    BY <1>1, <1>2, FS_Subset, FS_CardinalityType
  <1>4. ASSUME NEW w \in Workers, Dooming(w, e), ~Dooming(w, e)'
        PROVE  Cardinality(D') <= n - 1
    <2>1. D' \subseteq D \ {w} /\ w \in D
      BY <1>1, <1>4 DEF Doomed
    <2>2. IsFiniteSet(D \ {w}) /\ Cardinality(D \ {w}) = n - 1
      BY <1>2, <2>1, FS_RemoveElement
    <2> QED
      BY <2>1, <2>2, FS_Subset
  <1>5. rec'[e].attempts = rec[e].attempts + 1
    BY DEF Begins
  <1>6. rec'[e].attempts + Cardinality(D') <= faults' + (IF Secure(e)' THEN 1 ELSE 0)
    <2> HIDE DEF D, n
    <2>1. CASE faults' = faults + 1
      BY <1>2, <1>3, <1>5, <2>1, Counted, CountedNext
    <2>2. CASE faults' = faults /\ Secure(e)'
      BY <1>2, <1>3, <1>5, <2>2, Counted, CountedNext
    <2>3. CASE faults' = faults /\ \E w \in Workers : Dooming(w, e) /\ ~Dooming(w, e)'
      <3>1. Cardinality(D') <= n - 1
        BY <1>4, <2>3
      <3> QED
        BY <1>2, <1>3, <1>5, <2>3, <3>1, Counted, CountedNext
    <2> QED
      BY <2>1, <2>2, <2>3 DEF Begins
  <1> QED
    BY <1>3, <1>6 DEF Paid

\* A step leaves e to those who secure it, or ends it.
Leaves(e) ==
    /\ rec'[e].attempts = rec[e].attempts
    /\ Terminal(rec[e]) => Terminal(rec'[e])
    /\ \A v \in Workers : ClaimedBy(v, rec[e]) /\ rec[e].leased =>
         Terminal(rec'[e]) \/ (ClaimedBy(v, rec'[e]) /\ rec'[e].leased)

\* A step does not touch v, nor its message while nobody else can receive it.
Apart(v) ==
    /\ worker'[v] = worker[v] /\ stop'[v] = stop[v]
    /\ Safe(v) => Safe(v)'

\* The step of w itself goes on with its attempt at e, or begins none.
Onward(w, e) ==
    /\ Dooming(w, e)' => Dooming(w, e)
    /\ Secures(w, e) => Terminal(rec'[e]) \/ Secures(w, e)'

\* Who is left apart goes on as before.
LEMMA ApartGoesOn ==
    ASSUME NEW v \in Workers, Apart(v), NEW e \in Experiments, Leaves(e)
    PROVE  /\ Dooming(v, e)' => Dooming(v, e)
           /\ Secures(v, e) => Terminal(rec'[e]) \/ Secures(v, e)'
  BY DEF Apart, Leaves, Dooming, Secures

LEMMA ApartNotDoomed ==
    ASSUME NEW v \in Workers, Apart(v), NEW e
    PROVE  Dooming(v, e)' => Dooming(v, e)
  BY DEF Apart, Dooming

\* A step of w alone, or of nobody, is calm for the experiments it leaves alone.
LEMMA StepCalm ==
    ASSUME faults' >= faults, NEW e \in Experiments, Leaves(e),
           \A v \in Workers : Apart(v) \/ Onward(v, e)
    PROVE  Calm(e)
  <1>1. \A v \in Workers : /\ Dooming(v, e)' => Dooming(v, e)
                           /\ Secures(v, e) => Terminal(rec'[e]) \/ Secures(v, e)'
    BY ApartGoesOn DEF Onward
  <1>2. Secure(e) => Secure(e)'
    BY <1>1 DEF Secure, Leaves
  <1> QED
    BY <1>1, <1>2 DEF Calm, Leaves

\* A failure of w costs one attempt at most.
LEMMA FailureCosts ==
    ASSUME faults' = faults + 1, NEW e \in Experiments, rec'[e].attempts = rec[e].attempts,
           NEW w \in Workers, \A v \in Workers \ {w} : Apart(v),
           Dooming(w, e)' => Dooming(w, e)
    PROVE  Costs(e)
  BY ApartNotDoomed DEF Costs

\* s leaves r to those who secure it, or ends it.
Keeps(r, s) ==
    /\ s.attempts = r.attempts
    /\ Terminal(r) => Terminal(s)
    /\ \A v \in Workers : ClaimedBy(v, r) /\ r.leased =>
         Terminal(s) \/ (ClaimedBy(v, s) /\ s.leased)

\* What the mutations leave, of a record that was not requeued.
LEMMA Mutations ==
    ASSUME NEW r \in Records
    PROVE  /\ Keeps(r, Dispatched(r)) /\ Keeps(r, CancelRequested(r)) /\ Keeps(r, Renewed(r))
           /\ \A i, a \in Nat : Keeps(r, WithMetric(r, i, a))
           /\ \A a \in Nat : Keeps(r, Completed(r, a))
           /\ \A s \in {"cancelled", "failed"} : Keeps(r, Finished(r, s))
  BY DEF Keeps, Records, Terminal, TerminalStatuses, ClaimedBy, Dispatched, CancelRequested,
         Renewed, WithMetric, Completed, Finished

\* All records are left if one is written, and that one is.
LEMMA LeavesAll ==
    ASSUME Inv, NEW e \in Experiments, NEW r, rec' = [rec EXCEPT ![e] = r], Keeps(rec[e], r)
    PROVE  \A f \in Experiments : Leaves(f)
  <1>1. rec'[e] = r /\ \A f \in Experiments : f # e => rec'[f] = rec[f]
    BY DEF Inv, TypeOK
  <1> QED
    BY <1>1 DEF Leaves, Keeps

LEMMA LeavesSame == ASSUME UNCHANGED rec PROVE \A f \in Experiments : Leaves(f)
  BY DEF Leaves

\* Where the queue stays, a worker's message does.
LEMMA SafeStays ==
    ASSUME NEW v \in Workers, worker'[v].job = worker[v].job,
           queue'[worker[v].job] = queue[worker[v].job]
    PROVE  Safe(v)' <=> Safe(v)
  BY DEF Safe, HoldsReceipt

\* A step that touches no hidden message of another worker leaves the others apart.
LEMMA OthersApart ==
    ASSUME Inv, NEW W \in SUBSET Workers,
           \A v \in Workers \ W : worker'[v] = worker[v] /\ stop'[v] = stop[v],
           \A m \in Messages :
             \/ queue'[m] = queue[m] \/ queue[m].state # "hidden" \/ queue[m].holder \in W
             \/ queue[m].holder \notin Workers
    PROVE  \A v \in Workers \ W : Apart(v)
  BY SafeStays DEF Apart, Safe, HoldsReceipt

\* The step of w itself, if it claims nothing.
LEMMA OnwardBy ==
    ASSUME NEW w \in Workers, stop'[w] = stop[w], NEW e \in Experiments, Leaves(e),
           worker'[w].pc \notin {"received", "claim"},
           Secures(w, e) =>
             \/ Terminal(rec'[e])
             \/ worker'[w].target = e /\ OnTrack(worker'[w]) /\ Safe(w)'
    PROVE  Onward(w, e)
  <1>1. Secures(w, e) => ClaimedBy(w, rec[e]) /\ rec[e].leased /\ ~stop[w]
    BY DEF Secures
  <1> QED
    BY <1>1 DEF Onward, Dooming, Secures, Leaves

\* A secure experiment stays so with those left apart.
LEMMA SecureStays ==
    ASSUME NEW e \in Experiments, Leaves(e),
           \A v \in Workers : Apart(v) \/ ~Secures(v, e)
    PROVE  Secure(e) => Secure(e)'
  <1>1. \A v \in Workers : Secures(v, e) => Terminal(rec'[e]) \/ Secures(v, e)'
    BY ApartGoesOn
  <1> QED
    BY <1>1 DEF Secure, Leaves

LEMMA FaultsGrow ==
    ASSUME Inv
    PROVE  /\ UNCHANGED faults => faults' >= faults
           /\ Fault => faults' = faults + 1 /\ faults' >= faults
  BY MaxFaultsAssumption DEF Inv, TypeOK, Fault

-----------------------------------------------------------------------------
\* The service and time.

\* Requests, dispatches and cancellations (service.py 28-87).
LEMMA ServiceCalm ==
    ASSUME Inv, FenceInv,
           \/ \E c \in Clients, e \in Experiments : Submit(c, e) \/ Resubmit(c, e)
           \/ \E w \in Workers, e \in Experiments : Reconcile(w, e)
           \/ \E t \in Dispatchers : ServiceStep(t) \/ DispatchFails(t) \/ SendUnacknowledged(t)
           \/ \E e \in Experiments : Cancel(e)
    PROVE  \A e \in Experiments : Calm(e)
  <1>1. UNCHANGED <<worker, stop>>
    BY DEF Submit, Resubmit, Reconcile, StartDispatch, ServiceStep, Send, Mark, DispatchFails,
           SendUnacknowledged, Cancel
  <1>2. faults' >= faults
    BY FaultsGrow DEF Submit, Resubmit, Reconcile, StartDispatch, ServiceStep, Send, Mark,
                      DispatchFails, SendUnacknowledged, Cancel
  <1>3. UNCHANGED queue \/ \E m \in Messages : \E e : Enqueue(m, e)
    BY DEF Submit, Resubmit, Reconcile, StartDispatch, ServiceStep, Send, Mark, DispatchFails,
           SendUnacknowledged, Cancel
  <1>4. \A m \in Messages : queue'[m] = queue[m] \/ queue[m].state # "hidden"
    BY <1>3 DEF Enqueue, Inv, TypeOK
  <1>5. \A v \in Workers \ {} : Apart(v)
    BY <1>1, <1>4, OthersApart
  <1>6. \A e \in Experiments : Leaves(e)
    <2>1. ASSUME NEW e \in Experiments, ~Exists(rec[e]), Write(e, NewRecord)
          PROVE  \A f \in Experiments : Leaves(f)
      <3>1. rec[e] = AbsentRecord
        BY <2>1 DEF FenceInv
      <3>2. Keeps(rec[e], NewRecord)
        BY <3>1 DEF Keeps, ClaimedBy, NewRecord, AbsentRecord, Terminal, TerminalStatuses
      <3> QED
        BY <2>1, <3>2, LeavesAll DEF Write
    <2>2. ASSUME NEW e \in Experiments,
                 Write(e, Dispatched(rec[e])) \/ Write(e, CancelRequested(rec[e]))
          PROVE  \A f \in Experiments : Leaves(f)
      <3>1. rec[e] \in Records
        BY DEF Inv, TypeOK
      <3> QED
        BY <2>2, <3>1, Mutations, LeavesAll DEF Write
    <2>3. ASSUME NEW t \in Dispatchers, Mark(t) PROVE disp[t].exp \in Experiments
      BY <2>3 DEF Mark, Inv, DispatchInv
    <2> QED
      BY <2>1, <2>2, <2>3, LeavesSame
         DEF Submit, Resubmit, Reconcile, StartDispatch, ServiceStep, Send, Mark,
             DispatchFails, SendUnacknowledged, Cancel
  <1> QED
    BY <1>2, <1>5, <1>6, StepCalm

\* A lease that its owner renews lapses by a failure only (worker.py 129-145, 188-199).
LEMMA LapsePaid ==
    ASSUME Inv, NEW e \in Experiments, Lapse(e), NEW f \in Experiments
    PROVE  Calm(f) \/ Costs(f)
  <1> DEFINE s == [rec[e] EXCEPT !.leased = FALSE]
  <1>1. /\ rec[e] \in Records /\ rec \in [Experiments -> Records]
        /\ rec' = [rec EXCEPT ![e] = s] /\ ~Terminal(rec[e])
        /\ UNCHANGED <<queue, worker, stop>>
    BY DEF Lapse, Inv, TypeOK
  <1>2. \A v \in Workers : Apart(v)
    BY <1>1, SafeStays DEF Apart
  <1>3. faults' >= faults
    BY FaultsGrow DEF Lapse, Charge
  <1>4. CASE f # e
    <2>1. Leaves(f)
      BY <1>1, <1>4 DEF Leaves
    <2> QED
      BY <1>2, <1>3, <2>1, StepCalm
  <1>5. CASE f = e
    <2>1. rec'[f].attempts = rec[f].attempts
      BY <1>1, <1>5 DEF Records
    <2>2. \A v \in Workers : Dooming(v, f)' => Dooming(v, f)
      BY <1>2, ApartNotDoomed
    <2>3. CASE \E w \in Workers : rec[e].leaseOwner = w /\ Renewing(w, e)
      <3>1. faults' = faults + 1
        BY <2>3, FaultsGrow DEF Lapse, Charge
      <3> QED
        BY <2>1, <2>2, <2>3, <3>1 DEF Costs
    <2>4. CASE ~\E w \in Workers : rec[e].leaseOwner = w /\ Renewing(w, e)
      <3>1. ~Secure(f)
        BY <1>1, <1>5, <2>4 DEF Secure, Secures, ClaimedBy, OnTrack, Renewing
      <3> QED
        BY <1>3, <2>1, <2>2, <3>1 DEF Calm
    <2> QED
      BY <2>3, <2>4
  <1> QED
    BY <1>4, <1>5

\* A message reappears under the hands of a worker by a failure only
\* (queueing.py 82-110, worker.py 188-199).
LEMMA ReappearPaid ==
    ASSUME Inv, NEW m \in Messages, Reappear(m), NEW e \in Experiments
    PROVE  Calm(e) \/ Costs(e)
  <1>1. /\ UNCHANGED <<rec, worker, stop>> /\ Leaves(e)
        /\ \A n \in Messages : n # m => queue'[n] = queue[n]
    BY LeavesSame DEF Reappear, Inv, TypeOK
  <1>2. faults' >= faults
    BY FaultsGrow DEF Reappear, Charge
  <1>3. CASE queue[m].holder \notin Workers
    <2>1. \A v \in Workers \ {} : Apart(v)
      BY <1>1, <1>3, OthersApart
    <2> QED
      BY <1>1, <1>2, <2>1, StepCalm
  <1>4. ASSUME NEW w \in Workers, queue[m].holder = w PROVE Calm(e) \/ Costs(e)
    <2>1. \A v \in Workers \ {w} : Apart(v)
      BY <1>1, <1>4, OthersApart
    <2>2. CASE ~Attended(m)
      <3>1. worker[w].refresh = "off" /\ worker[w].pc \notin {"received", "claim"}
        BY <1>4, <2>2 DEF Attended
      <3>2. Onward(w, e)
        BY <1>1, <3>1 DEF Onward, Dooming, Secures, OnTrack
      <3> QED
        BY <1>1, <1>2, <2>1, <3>2, StepCalm
    <2>3. CASE Attended(m)
      <3>1. faults' = faults + 1
        BY <2>3, FaultsGrow DEF Reappear, Charge
      <3>2. \A v \in Workers \ {w} : Dooming(v, e)' => Dooming(v, e)
        BY <2>1, ApartNotDoomed
      <3>3. CASE worker[w].pc \in {"received", "claim"}
        <4>1. ~Secures(w, e)
          BY <3>3 DEF Secures, OnTrack, ReadSteps, WriteSteps
        <4>2. Secure(e) => Secure(e)'
          BY <1>1, <2>1, <4>1, SecureStays
        <4> QED
          BY <1>1, <3>1, <3>2, <4>2 DEF Costs
      <3>4. CASE worker[w].pc \notin {"received", "claim"}
        <4>1. ~Dooming(w, e)'
          BY <1>1, <3>4 DEF Dooming
        <4> QED
          BY <1>1, <3>1, <3>2, <4>1 DEF Costs
      <3> QED
        BY <3>3, <3>4
    <2> QED
      BY <2>2, <2>3
  <1> QED
    BY <1>3, <1>4

\* A worker is told to stop: its attempt, under way or about to begin, is requeued
\* (worker.py 211-215, 236-242).
LEMMA ShutdownPaid ==
    ASSUME Inv, NEW w \in Workers, Shutdown(w), NEW e \in Experiments
    PROVE  Costs(e)
  <1>1. /\ UNCHANGED <<rec, worker, queue>> /\ Leaves(e) /\ faults' = faults + 1
        /\ \A v \in Workers \ {w} : stop'[v] = stop[v]
    BY LeavesSame, FaultsGrow DEF Shutdown, Inv, TypeOK
  <1>2. \A v \in Workers \ {w} : Apart(v)
    BY <1>1, SafeStays DEF Apart
  <1>3. \A v \in Workers \ {w} : Dooming(v, e)' => Dooming(v, e)
    BY <1>2, ApartNotDoomed
  <1>4. CASE worker[w].pc \in {"received", "claim"}
    <2>1. ~Secures(w, e)
      BY <1>4 DEF Secures, OnTrack, ReadSteps, WriteSteps
    <2>2. Secure(e) => Secure(e)'
      BY <1>1, <1>2, <2>1, SecureStays
    <2> QED
      BY <1>1, <1>3, <2>2 DEF Costs
  <1>5. CASE worker[w].pc \notin {"received", "claim"}
    <2>1. ~Dooming(w, e)'
      BY <1>1, <1>5 DEF Dooming
    <2> QED
      BY <1>1, <1>3, <2>1 DEF Costs
  <1> QED
    BY <1>4, <1>5

-----------------------------------------------------------------------------
\* The main thread of a worker.

\* What every step of w does to the others, if it touches no message but its own.
LEMMA OwnStep ==
    ASSUME Inv, NEW w \in Workers, NEW l, Become(w, l),
           \A v \in Workers \ {w} : stop'[v] = stop[v],
           \A m \in Messages :
             queue'[m] = queue[m] \/ queue[m].state # "hidden" \/ queue[m].holder = w
    PROVE  worker'[w] = l /\ \A v \in Workers \ {w} : Apart(v)
  <1>1. worker'[w] = l /\ \A v \in Workers \ {w} : worker'[v] = worker[v]
    BY DEF Inv, TypeOK, Become
  <1> QED
    BY <1>1, OthersApart

\* A delivery begins with a receipt and no order to stop (worker.py 376-396).
LEMMA ReceiveCalm ==
    ASSUME Inv, NEW w \in Workers, NEW m \in Messages, Receive(w, m), NEW e \in Experiments
    PROVE  Calm(e)
  <1> DEFINE l == Receiving(worker[w], m, queue[m].exp)
  <1>1. /\ worker[w] = IdleWorker /\ Become(w, l) /\ UNCHANGED <<rec, stop, faults>>
        /\ queue[m].state = "visible" /\ ~stop[w]
        /\ queue' = [queue EXCEPT ![m].state = "hidden", ![m].holder = w]
        /\ queue \in [Messages -> QueueEntries]
    BY DEF Receive, Inv, TypeOK, WorkerInv
  <1>2. /\ \A n \in Messages : n # m => queue'[n] = queue[n]
        /\ queue'[m].state = "hidden" /\ queue'[m].holder = w
    BY <1>1 DEF QueueEntries
  <1>3. worker'[w] = l /\ \A v \in Workers \ {w} : Apart(v)
    BY <1>1, <1>2, OwnStep
  <1>4. l.job = m /\ ~l.lost
    BY <1>1 DEF Receiving, IdleWorker
  <1>5. Safe(w)' /\ ~stop'[w]
    BY <1>1, <1>2, <1>3, <1>4 DEF Safe, HoldsReceipt
  <1>6. ~Dooming(w, e)' /\ ~Secures(w, e)
    <2>1. worker[w].pc = "idle"
      BY <1>1 DEF IdleWorker
    <2> QED
      BY <1>3, <1>4, <1>5, <2>1 DEF Dooming, Secures, OnTrack, ReadSteps, WriteSteps
  <1> QED
    BY <1>1, <1>3, <1>6, StepCalm, LeavesSame, FaultsGrow DEF Onward

\* A step of w that claims nothing and keeps what it secures.
LEMMA OwnCalm ==
    ASSUME Inv, NEW w \in Workers, NEW l, Become(w, l), UNCHANGED stop, faults' >= faults,
           \A m \in Messages :
             queue'[m] = queue[m] \/ queue[m].state # "hidden" \/ queue[m].holder = w,
           NEW e \in Experiments, Leaves(e), l.pc \notin {"received", "claim"},
           Secures(w, e) => Terminal(rec'[e]) \/ (l.target = e /\ OnTrack(l) /\ Safe(w)')
    PROVE  Calm(e)
  <1>1. worker'[w] = l /\ \A v \in Workers \ {w} : Apart(v)
    BY OwnStep
  <1>2. Onward(w, e)
    BY <1>1, OnwardBy
  <1> QED
    BY <1>1, <1>2, StepCalm

\* A local step of the main thread that stays on the way of a secure attempt.
LocalOnward(w) ==
    /\ worker'[w].pc \notin {"received", "claim"}
    /\ \A e \in Experiments : Secures(w, e) =>
         /\ worker'[w].job = worker[w].job /\ worker'[w].target = e
         /\ OnTrack(worker'[w])

LEMMA LocalCalm ==
    ASSUME Inv, NEW w \in Workers, NEW l, Become(w, l), UNCHANGED <<queue, stop, faults>>,
           NEW e \in Experiments, Leaves(e), LocalOnward(w)
    PROVE  Calm(e)
  <1>1. worker'[w] = l
    BY DEF Become, Inv, TypeOK
  <1>2. Secures(w, e) => l.target = e /\ OnTrack(l) /\ Safe(w)'
    BY <1>1, SafeStays DEF LocalOnward, Secures
  <1> QED
    BY <1>1, <1>2, OwnCalm, FaultsGrow DEF LocalOnward

\* Going to another program counter of the attempt keeps it on track.
LEMMA GotoOnward ==
    ASSUME Inv, NEW w \in Workers, NEW p \in {"check"} \cup ReadSteps \cup WriteSteps, Goto(w, p)
    PROVE  LocalOnward(w)
  <1>1. worker[w] \in WorkerStates /\ worker'[w] = [worker[w] EXCEPT !.pc = p]
    BY DEF Inv, TypeOK, Goto, Become
  <1>2. /\ worker'[w].pc = p /\ worker'[w].job = worker[w].job
        /\ worker'[w].target = worker[w].target /\ worker'[w].refresh = worker[w].refresh
        /\ worker'[w].lost = worker[w].lost /\ worker'[w].verdict = worker[w].verdict
    BY <1>1 DEF WorkerStates
  <1>3. p \notin {"received", "claim"}
    BY DEF ReadSteps, WriteSteps
  <1> QED
    BY <1>2, <1>3 DEF LocalOnward, Secures, OnTrack

\* So does an exception that ends it as cancelled or failed.
LEMMA RaiseOnward ==
    ASSUME Inv, NEW w \in Workers, NEW v, v # "queued", Raise(w, v)
    PROVE  LocalOnward(w)
  <1>1. worker[w] \in WorkerStates
    BY DEF Inv, TypeOK
  <1>2. CASE worker[w].lost
    <2>1. worker'[w].pc = "settle"
      BY <1>1, <1>2 DEF Raise, GiveUp, Goto, Become, Inv, TypeOK, WorkerStates
    <2> QED
      BY <1>2, <2>1 DEF LocalOnward, Secures, OnTrack
  <1>3. CASE ~worker[w].lost
    <2>1. worker'[w] = [worker[w] EXCEPT !.pc = "finish", !.verdict = v]
      BY <1>3 DEF Raise, Become, Inv, TypeOK
    <2>2. /\ worker'[w].pc = "finish" /\ worker'[w].job = worker[w].job
          /\ worker'[w].target = worker[w].target /\ worker'[w].refresh = worker[w].refresh
          /\ worker'[w].lost = worker[w].lost /\ worker'[w].verdict = v
      BY <1>1, <2>1 DEF WorkerStates
    <2> QED
      BY <2>2 DEF LocalOnward, Secures, OnTrack, ReadSteps
  <1> QED
    BY <1>2, <1>3

\* How an exception leaves the main thread.
LEMMA RaiseState ==
    ASSUME Inv, NEW w \in Workers, NEW v, Raise(w, v) \/ GiveUp(w)
    PROVE  \E l : Become(w, l) /\ l.pc \in {"settle", "finish"}
  <1>1. worker[w] \in WorkerStates
    BY DEF Inv, TypeOK
  <1>2. CASE GiveUp(w)
    <2>1. [worker[w] EXCEPT !.pc = "settle"].pc = "settle"
      BY <1>1 DEF WorkerStates
    <2> QED
      BY <1>2, <2>1 DEF GiveUp, Goto
  <1>3. CASE Raise(w, v) /\ ~worker[w].lost
    <2>1. [worker[w] EXCEPT !.pc = "finish", !.verdict = v].pc = "finish"
      BY <1>1 DEF WorkerStates
    <2> QED
      BY <1>3, <2>1 DEF Raise
  <1> QED
    BY <1>2, <1>3 DEF Raise

\* Giving up keeps nothing on track: it is for deliveries that secure nothing.
LEMMA GiveUpOnward ==
    ASSUME Inv, NEW w \in Workers, GiveUp(w), \A e \in Experiments : ~Secures(w, e)
    PROVE  LocalOnward(w)
  <1>1. worker'[w].pc = "settle"
    BY DEF GiveUp, Goto, Become, Inv, TypeOK, WorkerStates
  <1> QED
    BY <1>1 DEF LocalOnward

\* What the guards of the attempt see of a secure one.
LEMMA SecureSees ==
    ASSUME NEW w \in Workers, NEW e \in Experiments, Secures(w, e)
    PROVE  LET r == rec[worker[w].target]
           IN  /\ ~worker[w].lost /\ r.leaseOwner = w /\ r.leased
               /\ Owns(w) /\ HoldsReceipt(w) /\ ~stop[w] /\ worker[w].verdict # "queued"
  BY DEF Secures, ClaimedBy, OnTrack, Owns, OwnedBy, Terminal, TerminalStatuses, Safe

\* Loading, checking, reading, refused claims and retries (worker.py 171-206, 226-245).
LEMMA MainCalm ==
    ASSUME Inv, NEW w \in Workers, NEW e \in Experiments,
           \/ LoadRecord(w) \/ ClaimRefused(w) \/ Check(w) \/ Retry(w)
           \/ ReadMetric(w) \/ ReadComplete(w) \/ ReadFinish(w)
    PROVE  Calm(e)
  <1> DEFINE k == worker[w]
  <1>1. UNCHANGED <<rec, queue, stop, faults>>
    BY DEF LoadRecord, ClaimRefused, Check, Retry, ReadMetric, ReadComplete, ReadFinish, Read
  <1>2. \A f \in Experiments : Leaves(f)
    BY <1>1, LeavesSame
  <1>3. ASSUME NEW p, Goto(w, p) PROVE \E l : Become(w, l)
    BY <1>3 DEF Goto
  <1>4. ASSUME NEW v, Raise(w, v) PROVE \E l : Become(w, l)
    BY <1>4 DEF Raise, GiveUp, Goto
  <1>5. CASE LoadRecord(w)
    <2>1. k.pc = "received" /\ k \in WorkerStates
      BY <1>5 DEF LoadRecord, Inv, TypeOK
    <2>2. PICK l : /\ Become(w, l)
                   /\ \/ l.pc = "settle"
                      \/ /\ l.pc = "claim" /\ l.target = k.target
                         /\ l.job = k.job /\ l.lost = k.lost
      <3>1. [k EXCEPT !.pc = "settle", !.action = "ack"].pc = "settle"
        BY <2>1 DEF WorkerStates
      <3>2. LET l == [k EXCEPT !.pc = "claim"]
            IN  /\ l.pc = "claim" /\ l.target = k.target
                /\ l.job = k.job /\ l.lost = k.lost
        BY <2>1 DEF WorkerStates
      <3> QED
        BY <1>5, <3>1, <3>2 DEF LoadRecord, SettleBy, Goto
    <2>3. worker'[w] = l
      BY <2>2 DEF Become, Inv, TypeOK
    <2>4. Onward(w, e)
      BY <1>1, <2>1, <2>2, <2>3, SafeStays
         DEF Onward, Dooming, Secures, OnTrack, ReadSteps, WriteSteps
    <2>5. \A v \in Workers \ {w} : Apart(v)
      BY <1>1, <2>2, OwnStep
    <2> QED
      BY <1>1, <1>2, <2>4, <2>5, StepCalm, FaultsGrow
  <1>6. CASE ClaimRefused(w)
    <2>1. \A f \in Experiments : ~Secures(w, f)
      BY <1>6 DEF ClaimRefused, Secures, OnTrack, ReadSteps, WriteSteps
    <2>2. LocalOnward(w)
      BY <1>6, <2>1, GiveUpOnward DEF ClaimRefused
    <2> QED
      BY <1>1, <1>2, <1>3, <1>6, <2>2, LocalCalm DEF ClaimRefused, GiveUp
  <1>7. CASE Check(w)
    <2>1. \/ GiveUp(w) /\ \A f \in Experiments : ~Secures(w, f)
          \/ Raise(w, "cancelled")
          \/ Raise(w, "queued") /\ \A f \in Experiments : ~Secures(w, f)
          \/ Goto(w, "metric") \/ Goto(w, "complete")
      BY <1>7, SecureSees DEF Check
    <2>2. ASSUME Raise(w, "queued"), \A f \in Experiments : ~Secures(w, f)
          PROVE  LocalOnward(w)
      BY <2>2, RaiseState DEF LocalOnward, Become, Inv, TypeOK
    <2>3. LocalOnward(w)
      BY <2>1, <2>2, GiveUpOnward, RaiseOnward, GotoOnward DEF ReadSteps
    <2> QED
      BY <1>1, <1>2, <1>3, <1>4, <2>1, <2>3, LocalCalm DEF GiveUp
  <1>8. CASE Retry(w)
    <2>1. \E p \in ReadSteps : Goto(w, p)
      BY <1>8 DEF Retry, ReadStepOf, ReadSteps, WriteSteps
    <2> QED
      BY <1>1, <1>2, <1>3, <2>1, GotoOnward, LocalCalm
  <1>9. ASSUME NEW p \in ReadSteps, Read(w, p) PROVE Calm(e)
    <2>1. \/ GiveUp(w) /\ \A f \in Experiments : ~Secures(w, f)
          \/ Raise(w, "cancelled")
          \/ \E q \in WriteSteps : Goto(w, q)
      BY <1>9, SecureSees DEF Read, WriteStepOf, ReadSteps, WriteSteps
    <2>2. LocalOnward(w)
      BY <2>1, GiveUpOnward, RaiseOnward, GotoOnward
    <2> QED
      BY <1>1, <1>2, <1>3, <1>4, <2>1, <2>2, LocalCalm DEF GiveUp
  <1> QED
    BY <1>5, <1>6, <1>7, <1>8, <1>9 DEF ReadMetric, ReadComplete, ReadFinish, ReadSteps

\* An upload that lands leaves the attempts alone, and a secure attempt's goes on or ends.
LEMMA LandsKeeps ==
    ASSUME Inv, NEW w \in Workers, Lands(w), NEW e \in Experiments
    PROVE  /\ rec'[e].attempts = rec[e].attempts
           /\ Leaves(e) \/ ~Secure(e)
           /\ worker[w].pc # "metricWrite" /\ worker[w].target = e
                => Terminal(rec'[e]) \/ ~Secure(e)
  <1> DEFINE k == worker[w]
             t == k.target
             r == rec[t]
  <1>1. k.pc \in WriteSteps /\ Fresh(w, "main")
    BY DEF Lands, Upload, WriteSteps
  <1>2. /\ ClaimedBy(w, r)
        /\ k.pc = "finishWrite" => k.verdict \in {"queued", "cancelled", "failed"}
    BY <1>1, UploadFollows
  <1>3. /\ t \in Experiments /\ r \in Records /\ k \in WorkerStates
        /\ k.attempt \in Nat /\ k.iter \in Nat
        /\ rec \in [Experiments -> Records]
    BY <1>1, Busy, IterationsAssumption DEF WriteSteps, WorkerStates, Inv, TypeOK
  <1>4. CASE Upload(w, "metricWrite", MetricRecord(w))
    <2>1. rec' = [rec EXCEPT ![t] = WithMetric(r, k.iter, k.attempt)] /\ k.pc = "metricWrite"
      BY <1>4 DEF Upload, Write, MetricRecord
    <2>2. Keeps(r, WithMetric(r, k.iter, k.attempt))
      BY <1>3, Mutations
    <2>3. Leaves(e)
      BY <1>3, <2>1, <2>2, LeavesAll
    <2> QED
      BY <2>1, <2>3 DEF Leaves
  <1>5. CASE Upload(w, "completeWrite", CompleteRecord(w))
    <2>1. rec' = [rec EXCEPT ![t] = Completed(r, k.attempt)]
      BY <1>5 DEF Upload, Write, CompleteRecord
    <2>2. Keeps(r, Completed(r, k.attempt))
      BY <1>3, Mutations
    <2>3. Leaves(e)
      BY <1>3, <2>1, <2>2, LeavesAll
    <2>4. Terminal(Completed(r, k.attempt))
      BY <1>3 DEF Completed, Terminal, TerminalStatuses, Records
    <2>5. t = e => Terminal(rec'[e])
      BY <1>3, <2>1, <2>4
    <2> QED
      BY <2>3, <2>5 DEF Leaves
  <1>6. CASE Upload(w, "finishWrite", FinishRecord(w))
    <2> DEFINE s == Finished(r, k.verdict)
    <2>1. rec' = [rec EXCEPT ![t] = s] /\ k.pc = "finishWrite"
      BY <1>6 DEF Upload, Write, FinishRecord
    <2>2. s.attempts = r.attempts /\ s.status = k.verdict
      BY <1>3 DEF Finished, Records
    <2>3. CASE k.verdict # "queued"
      <3>1. k.verdict \in {"cancelled", "failed"}
        BY <1>2, <2>1, <2>3
      <3>2. Keeps(r, s)
        BY <1>3, <3>1, Mutations
      <3>3. Leaves(e)
        BY <1>3, <2>1, <3>2, LeavesAll
      <3>4. Terminal(s)
        BY <2>2, <3>1 DEF Terminal, TerminalStatuses
      <3>5. t = e => Terminal(rec'[e])
        BY <1>3, <2>1, <3>4
      <3> QED
        BY <3>3, <3>5 DEF Leaves
    <2>4. CASE k.verdict = "queued"
      <3>1. CASE t = e
        <4>1. ~Secure(e)
          BY <1>2, <2>4, <3>1
             DEF Secure, Secures, ClaimedBy, OnTrack, Terminal, TerminalStatuses
        <4> QED
          BY <1>3, <2>1, <2>2, <3>1, <4>1
      <3>2. CASE t # e
        <4>1. rec'[e] = rec[e]
          BY <1>3, <2>1, <3>2
        <4> QED
          BY <3>2, <4>1 DEF Leaves
      <3> QED
        BY <3>1, <3>2
    <2> QED
      BY <2>3, <2>4
  <1> QED
    BY <1>4, <1>5, <1>6 DEF Lands

\* A step of w costs nothing where nothing was secure.
LEMMA UnsecuredCalm ==
    ASSUME Inv, NEW w \in Workers, NEW l, Become(w, l), UNCHANGED <<queue, stop>>,
           faults' >= faults, NEW e \in Experiments, rec'[e].attempts = rec[e].attempts,
           ~Secure(e), l.pc \notin {"received", "claim"}
    PROVE  Calm(e)
  <1>1. worker'[w] = l /\ \A v \in Workers \ {w} : Apart(v)
    BY OwnStep
  <1>2. \A v \in Workers : Dooming(v, e)' => Dooming(v, e)
    BY <1>1, ApartNotDoomed DEF Dooming
  <1> QED
    BY <1>2 DEF Calm

\* Metrics, results and the ends of attempts (worker.py 117-155, 246-279, 331-344).
LEMMA UploadCalm ==
    ASSUME Inv, NEW w \in Workers, WriteMetric(w) \/ WriteComplete(w) \/ WriteFinish(w),
           NEW e \in Experiments
    PROVE  Calm(e)
  <1> DEFINE k == worker[w]
  <1>1. Lands(w) /\ UNCHANGED <<queue, stop, faults>> /\ k \in WorkerStates
    BY DEF Lands, WriteMetric, WriteComplete, WriteFinish, Inv, TypeOK
  <1>2. faults' >= faults
    BY <1>1, FaultsGrow
  <1>3. PICK l : /\ Become(w, l) /\ l.pc \in {"check", "settle"}
                 /\ l.pc = "settle" => k.pc # "metricWrite"
                 /\ l.pc = "check" =>
                      /\ l.job = k.job /\ l.target = k.target /\ l.refresh = k.refresh
                      /\ l.lost = k.lost /\ l.verdict = k.verdict
    <2>1. CASE WriteMetric(w)
      <3> DEFINE j == [k EXCEPT !.pc = "check", !.iter = @ + 1]
      <3>1. Become(w, j)
        BY <2>1 DEF WriteMetric
      <3>2. j.pc = "check" /\ j.job = k.job /\ j.target = k.target
            /\ j.refresh = k.refresh /\ j.lost = k.lost /\ j.verdict = k.verdict
        BY <1>1 DEF WorkerStates
      <3> QED
        BY <3>1, <3>2
    <2>2. ASSUME NEW a, SettleBy(w, a), k.pc # "metricWrite"
          PROVE  \E l : Become(w, l) /\ l.pc = "settle"
      <3>1. [k EXCEPT !.pc = "settle", !.action = a].pc = "settle"
        BY <1>1 DEF WorkerStates
      <3> QED
        BY <2>2, <3>1 DEF SettleBy
    <2> QED
      BY <2>1, <2>2 DEF WriteComplete, WriteFinish, Upload
  <1>4. CASE ~Secure(e)
    BY <1>1, <1>2, <1>3, <1>4, LandsKeeps, UnsecuredCalm
  <1>5. CASE Secure(e)
    <2>1. Leaves(e) /\ (k.pc # "metricWrite" /\ k.target = e => Terminal(rec'[e]))
      BY <1>1, <1>5, LandsKeeps
    <2>2. worker'[w] = l
      BY <1>3 DEF Become, Inv, TypeOK
    <2>3. Secures(w, e) => Terminal(rec'[e]) \/ (l.target = e /\ OnTrack(l) /\ Safe(w)')
      BY <1>1, <1>3, <2>1, <2>2, SafeStays DEF Secures, OnTrack
    <2> QED
      BY <1>1, <1>2, <1>3, <2>1, <2>3, OwnCalm
  <1> QED
    BY <1>4, <1>5

\* The end of a delivery, and the next start of its container (worker.py 345-363).
LEMMA SettleCalm ==
    ASSUME Inv, NEW w \in Workers, Settle(w) \/ Replace(w), NEW e \in Experiments
    PROVE  Calm(e)
  <1>1. /\ UNCHANGED <<rec, faults>> /\ worker[w].pc \in {"settle", "idle"}
        /\ ~Secures(w, e)
    BY DEF Settle, Replace, Joined, Secures, OnTrack, ReadSteps, WriteSteps
  <1>2. Leaves(e) /\ faults' >= faults
    BY <1>1, LeavesSame, FaultsGrow
  <1>3. CASE Settle(w)
    <2>1. \A m \in Messages : queue'[m] = queue[m] \/ queue[m].holder = w
      BY <1>3 DEF Settle, HoldsReceipt, Inv, TypeOK
    <2>2. Become(w, IdleWorker) /\ UNCHANGED stop /\ IdleWorker.pc = "idle"
      BY <1>3 DEF Settle, IdleWorker
    <2> QED
      BY <1>1, <1>2, <2>1, <2>2, OwnCalm
  <1>4. CASE Replace(w)
    <2>1. UNCHANGED <<worker, queue>> /\ \A v \in Workers \ {w} : stop'[v] = stop[v]
      BY <1>4 DEF Replace, Inv, TypeOK
    <2>2. \A v \in Workers \ {w} : Apart(v)
      BY <2>1, SafeStays DEF Apart
    <2>3. Onward(w, e)
      BY <1>1, <2>1 DEF Onward, Dooming
    <2> QED
      BY <1>2, <2>2, <2>3, StepCalm
  <1> QED
    BY <1>3, <1>4

\* How a failed refresh leaves the main thread.
LEMMA RefreshFailedState ==
    ASSUME Inv, NEW w \in Workers, RefreshFailed(w)
    PROVE  \E l : Become(w, l) /\ l.pc \in {"settle", worker[w].pc}
  <1> DEFINE k == worker[w]
  <1>1. k \in WorkerStates
    BY DEF Inv, TypeOK
  <1>2. /\ [k EXCEPT !.pc = "settle", !.refresh = "off"].pc = "settle"
        /\ [k EXCEPT !.lost = TRUE, !.refresh = "off"].pc = k.pc
    BY <1>1 DEF WorkerStates
  <1> QED
    BY <1>2 DEF RefreshFailed

\* Refreshing keeps a secure attempt's receipt and lease (worker.py 43-80, 129-145).
LEMMA RefreshCalm ==
    ASSUME Inv, NEW w \in Workers, RefreshStep(w), NEW e \in Experiments
    PROVE  Calm(e)
  <1> DEFINE k == worker[w]
  <1>1. /\ k.refresh # "off" /\ k \in WorkerStates /\ UNCHANGED <<stop, faults>>
        /\ k.pc \notin {"received", "claim"}
    BY RenewerBusy
       DEF RefreshStep, RefreshQueue, ReadLease, WriteLease, RetryLease, Inv, TypeOK
  <1>2. faults' >= faults
    BY <1>1, FaultsGrow
  <1>3. ASSUME NEW f \in {"due", "lease", "write"}
        PROVE  LET l == [k EXCEPT !.refresh = f]
               IN  /\ l.pc = k.pc /\ l.job = k.job /\ l.target = k.target
                   /\ l.lost = k.lost /\ l.verdict = k.verdict /\ l.refresh # "off"
    BY <1>1 DEF WorkerStates
  <1>4. ASSUME NEW f \in {"due", "lease", "write"}, Become(w, [k EXCEPT !.refresh = f]),
               Leaves(e),
               \A m \in Messages : queue'[m] = queue[m] \/ queue[m].holder = w,
               Safe(w) => queue'[k.job].holder = w /\ queue'[k.job].state = "hidden"
        PROVE  Calm(e)
    <2>1. PICK l : /\ Become(w, l) /\ l.pc = k.pc /\ l.job = k.job /\ l.target = k.target
                   /\ l.lost = k.lost /\ l.verdict = k.verdict /\ l.refresh # "off"
      BY <1>3, <1>4
    <2>2. worker'[w] = l
      BY <2>1 DEF Become, Inv, TypeOK
    <2>3. Secures(w, e) => l.target = e /\ OnTrack(l) /\ Safe(w)'
      BY <1>4, <2>1, <2>2 DEF Secures, OnTrack, Safe, HoldsReceipt
    <2> QED
      BY <1>1, <1>2, <1>4, <2>1, <2>3, OwnCalm
  <1>5. ASSUME RefreshFailed(w), ~Secures(w, e), UNCHANGED <<rec, queue>> PROVE Calm(e)
    <2>1. PICK l : Become(w, l) /\ l.pc \in {"settle", k.pc}
      BY <1>5, RefreshFailedState
    <2> QED
      BY <1>1, <1>2, <1>5, <2>1, OwnCalm, LeavesSame
  <1>6. CASE RefreshQueue(w)
    <2>1. CASE HoldsReceipt(w)
      <3>1. /\ k.job \in Messages /\ queue[k.job].holder = w
            /\ queue \in [Messages -> QueueEntries]
            /\ queue' = [queue EXCEPT ![k.job].state = "hidden"]
            /\ Become(w, [k EXCEPT !.refresh = "lease"]) /\ UNCHANGED rec
        BY <1>6, <2>1 DEF RefreshQueue, HoldsReceipt, Inv, TypeOK
      <3>2. queue'[k.job].holder = w /\ queue'[k.job].state = "hidden"
        BY <3>1 DEF QueueEntries
      <3> QED
        BY <1>4, <3>1, <3>2, LeavesSame
    <2>2. CASE ~HoldsReceipt(w)
      BY <1>5, <1>6, <2>2 DEF RefreshQueue, Secures, Safe
    <2> QED
      BY <2>1, <2>2
  <1>7. CASE ReadLease(w)
    <2>1. CASE Owns(w)
      BY <1>4, <1>7, <2>1, LeavesSame DEF ReadLease, Safe, HoldsReceipt
    <2>2. CASE ~Owns(w)
      BY <1>5, <1>7, <2>2, SecureSees DEF ReadLease
    <2> QED
      BY <2>1, <2>2
  <1>8. CASE WriteLease(w)
    <2>1. k.target \in Experiments
      BY <1>1, RenewerBusy, Busy
    <2>2. rec[k.target] \in Records
          /\ rec' = [rec EXCEPT ![k.target] = Renewed(rec[k.target])]
      BY <1>8, <2>1 DEF WriteLease, Write, Inv, TypeOK
    <2>3. Keeps(rec[k.target], Renewed(rec[k.target]))
      BY <2>2, Mutations
    <2>4. Leaves(e)
      BY <2>1, <2>2, <2>3, LeavesAll
    <2> DEFINE l == [k EXCEPT !.refresh = "due", !.pc = Entered(k.pc, k.verdict)]
    <2>5. /\ l.pc = Entered(k.pc, k.verdict) /\ l.job = k.job /\ l.target = k.target
          /\ l.lost = k.lost /\ l.verdict = k.verdict /\ l.refresh = "due"
      BY <1>1 DEF WorkerStates
    <2>6. Become(w, l) /\ UNCHANGED queue /\ worker'[w] = l
      BY <1>8 DEF WriteLease, Become, Inv, TypeOK
    <2>7. l.pc \in {k.pc, "check", "finish"}
      BY <2>5 DEF Entered
    <2>8. Secures(w, e) => l.target = e /\ OnTrack(l) /\ Safe(w)'
      <3> HIDE DEF l
      <3> QED
        BY <2>5, <2>6, <2>7, SafeStays DEF Secures, OnTrack, ReadSteps
    <2> HIDE DEF l
    <2> QED
      BY <1>1, <1>2, <2>4, <2>6, <2>7, <2>8, OwnCalm
  <1>9. CASE RetryLease(w)
    BY <1>4, <1>9, LeavesSame DEF RetryLease, Safe, HoldsReceipt
  <1> QED
    BY <1>6, <1>7, <1>8, <1>9 DEF RefreshStep

-----------------------------------------------------------------------------
\* Failures of a worker, and claims.

\* A failure of w costs what w was doing.
LEMMA OwnCosts ==
    ASSUME Inv, NEW w \in Workers, NEW l, Become(w, l), Fault,
           \A v \in Workers \ {w} : stop'[v] = stop[v],
           \A m \in Messages : queue'[m] = queue[m] \/ queue[m].holder = w,
           NEW e \in Experiments, rec'[e].attempts = rec[e].attempts,
           l.pc \notin {"received", "claim"}
    PROVE  Costs(e)
  <1>1. worker'[w] = l /\ \A v \in Workers \ {w} : Apart(v)
    BY OwnStep
  <1>2. ~Dooming(w, e)'
    BY <1>1 DEF Dooming
  <1> QED
    BY <1>1, <1>2, FaultsGrow, FailureCosts

\* Failing calls, engines, uploads and refreshes (worker.py 43-55, 207-245, 280-363).
LEMMA WorkerFaultCosts ==
    ASSUME Inv, NEW w \in Workers, NEW e \in Experiments,
           \/ CallFails(w) \/ EngineFails(w) \/ UploadUnacknowledged(w)
           \/ RefreshFails(w) \/ SettleFails(w) \/ Crash(w)
    PROVE  Costs(e)
  <1> DEFINE k == worker[w]
  <1>1. Fault /\ k \in WorkerStates /\ \A v \in Workers \ {w} : stop'[v] = stop[v]
    BY DEF CallFails, EngineFails, UploadUnacknowledged, RefreshFails, SettleFails, Crash,
           Inv, TypeOK
  <1>2. Throw(w) => \E l : Become(w, l) /\ l.pc \in {"settle", "finish"}
    BY RaiseState DEF Throw
  <1>3. CASE CallFails(w) \/ EngineFails(w)
    <2>1. UNCHANGED <<rec, queue>> /\ \E l : Become(w, l) /\ l.pc \in {"settle", "finish"}
      BY <1>2, <1>3, RaiseState DEF CallFails, EngineFails
    <2> QED
      BY <1>1, <2>1, OwnCosts
  <1>4. CASE UploadUnacknowledged(w)
    <2>1. Lands(w) /\ UNCHANGED queue /\ k.pc \in WriteSteps
      BY <1>4 DEF UploadUnacknowledged, Lands, Upload, WriteSteps
    <2>2. ReadStepOf(k.pc) \in ReadSteps
      BY <2>1 DEF ReadStepOf, ReadSteps, WriteSteps
    <2>3. PICK l : Become(w, l) /\ l.pc \in {"settle", "finish"} \cup ReadSteps
      BY <1>1, <1>2, <1>4, <2>2 DEF UploadUnacknowledged, Goto, WorkerStates
    <2>4. l.pc \notin {"received", "claim"}
      BY <2>3 DEF ReadSteps
    <2> QED
      BY <1>1, <2>1, <2>3, <2>4, LandsKeeps, OwnCosts
  <1>5. CASE RefreshFails(w)
    <2>1. k.refresh # "off" /\ RefreshFailed(w)
      BY <1>5 DEF RefreshFails
    <2>2. k.pc \notin {"idle", "received", "claim"} /\ k.target \in Experiments
      BY <2>1, RenewerBusy, Busy
    <2>3. PICK l : Become(w, l) /\ l.pc \in {"settle", k.pc}
      BY <2>1, RefreshFailedState
    <2>4. \A m \in Messages : queue'[m] = queue[m] \/ queue[m].holder = w
      BY <1>5 DEF RefreshFails, HoldsReceipt, Inv, TypeOK
    <2>5. rec'[e].attempts = rec[e].attempts
      <3>1. rec[k.target] \in Records
        BY <2>2 DEF Inv, TypeOK
      <3>2. Renewed(rec[k.target]).attempts = rec[k.target].attempts
        BY <3>1 DEF Renewed, Records
      <3> QED
        BY <1>5, <2>2, <3>2 DEF RefreshFails, Write, Inv, TypeOK
    <2> QED
      BY <1>1, <2>2, <2>3, <2>4, <2>5, OwnCosts
  <1>6. CASE SettleFails(w) \/ Crash(w)
    <2>1. Become(w, IdleWorker) /\ UNCHANGED rec /\ IdleWorker.pc = "idle"
      BY <1>6 DEF SettleFails, Crash, IdleWorker
    <2>2. \A m \in Messages : queue'[m] = queue[m] \/ queue[m].holder = w
      BY <1>6 DEF SettleFails, Crash, HoldsReceipt, Inv, TypeOK
    <2> QED
      BY <1>1, <2>1, <2>2, OwnCosts
  <1> QED
    BY <1>3, <1>4, <1>5, <1>6

\* The state of the worker after its claim.
LEMMA EnteringOnTrack ==
    ASSUME NEW k \in WorkerStates, NEW r \in Records
    PROVE  LET l == Entering(k, r)
           IN  /\ l.pc = "enter" /\ l.job = k.job /\ l.target = k.target /\ l.lost = k.lost
               /\ ~k.lost => OnTrack(l)
  <1>1. ClaimVerdict(r) \in {"none", "cancelled", "failed"}
    BY DEF ClaimVerdict
  <1> HIDE DEF ClaimVerdict
  <1>2. /\ Entering(k, r).pc = "enter" /\ Entering(k, r).refresh = "due"
        /\ Entering(k, r).lost = k.lost /\ Entering(k, r).verdict = ClaimVerdict(r)
        /\ Entering(k, r).job = k.job /\ Entering(k, r).target = k.target
    BY DEF Entering, WorkerStates
  <1> QED
    BY <1>1, <1>2 DEF OnTrack

\* A claim begins an attempt where none was secure (worker.py 97-115).
LEMMA ClaimBegins ==
    ASSUME Inv, NEW w \in Workers, Claim(w), NEW e \in Experiments
    PROVE  Calm(e) \/ Begins(e)
  <1> DEFINE k == worker[w]
             t == k.target
             r == Claimed(rec[t], w)
  <1>1. /\ t \in Experiments /\ rec[t] \in Records /\ Claimable(rec[t])
        /\ k.pc = "claim" /\ k \in WorkerStates /\ rec \in [Experiments -> Records]
        /\ rec' = [rec EXCEPT ![t] = r]
        /\ UNCHANGED <<queue, stop, faults>>
    BY ClaimFacts DEF Claims, Claim, Write, Inv, TypeOK
  <1>2. /\ r \in Records /\ r.attempts = rec[t].attempts + 1
        /\ r.leaseOwner = w /\ r.leased /\ r.status = "running"
    <2>1. r \in Records
      BY <1>1, RecordTypes
    <2>2. r.leased
      BY <1>1 DEF Claimed, Records
    <2> QED
      BY <1>1, <2>1, <2>2, ClaimedFields
  <1>3. PICK l : /\ Become(w, l)
                 /\ l.pc = "enter" /\ l.job = k.job /\ l.target = t
                 /\ ~k.lost => OnTrack(l)
    BY <1>1, <1>2, EnteringOnTrack DEF Claim
  <1>4. worker'[w] = l /\ \A v \in Workers \ {w} : Apart(v)
    BY <1>1, <1>3, OwnStep
  <1>5. faults' >= faults
    BY <1>1, FaultsGrow
  <1>6. CASE e # t
    <2>1. Leaves(e)
      BY <1>1, <1>6 DEF Leaves
    <2>2. ~Secures(w, e)
      BY <1>6 DEF Secures
    <2> QED
      BY <1>1, <1>3, <1>5, <2>1, <2>2, OwnCalm
  <1>7. CASE e = t
    <2>1. rec'[e] = r
      BY <1>1, <1>7
    <2>2. ~Secure(e)
      BY <1>1, <1>7 DEF Secure, Secures, Claimable
    <2>3. \A v \in Workers \ {w} : Dooming(v, e)' => Dooming(v, e)
      BY <1>4, ApartNotDoomed
    <2>4. ~Dooming(w, e)'
      BY <1>3, <1>4 DEF Dooming
    <2>5. CASE Dooming(w, e)
      BY <1>1, <1>2, <1>7, <2>1, <2>2, <2>3, <2>4, <2>5 DEF Begins
    <2>6. CASE ~Dooming(w, e)
      <3>1. ~stop[w] /\ ~k.lost /\ Safe(w)
        BY <1>1, <1>7, <2>6 DEF Dooming
      <3>2. Safe(w)'
        BY <1>1, <1>3, <1>4, <3>1, SafeStays
      <3>3. Secures(w, e)'
        BY <1>1, <1>2, <1>3, <1>4, <1>7, <2>1, <3>1, <3>2 DEF Secures, ClaimedBy
      <3>4. Secure(e)'
        BY <3>3 DEF Secure
      <3> QED
        BY <1>1, <1>2, <1>7, <2>1, <2>2, <2>3, <2>4, <3>4 DEF Begins
    <2> QED
      BY <2>5, <2>6
  <1> QED
    BY <1>6, <1>7

\* A claim whose answer is lost begins an attempt that nobody executes.
LEMMA LostClaimBegins ==
    ASSUME Inv, NEW w \in Workers, ClaimUnacknowledged(w), NEW e \in Experiments
    PROVE  Costs(e) \/ Begins(e)
  <1> DEFINE k == worker[w]
             t == k.target
             r == Claimed(rec[t], w)
  <1>1. /\ t \in Experiments /\ rec[t] \in Records /\ Claimable(rec[t])
        /\ rec \in [Experiments -> Records]
        /\ rec' = [rec EXCEPT ![t] = r]
        /\ UNCHANGED <<queue, stop>> /\ Fault /\ GiveUp(w)
    BY ClaimFacts DEF Claims, ClaimUnacknowledged, Write, Inv, TypeOK
  <1>2. r.attempts = rec[t].attempts + 1
    BY <1>1 DEF Claimed, Records
  <1>3. PICK l : Become(w, l) /\ l.pc \in {"settle", "finish"}
    BY <1>1, RaiseState
  <1>4. CASE e # t
    <2>1. rec'[e].attempts = rec[e].attempts
      BY <1>1, <1>4
    <2> QED
      BY <1>1, <1>3, <2>1, OwnCosts
  <1>5. CASE e = t
    <2>1. worker'[w] = l /\ \A v \in Workers \ {w} : Apart(v)
      BY <1>1, <1>3, OwnStep
    <2>2. \A v \in Workers : Dooming(v, e)' => Dooming(v, e)
      BY <1>3, <2>1, ApartNotDoomed DEF Dooming
    <2>3. ~Secure(e)
      BY <1>1, <1>5 DEF Secure, Secures, Claimable
    <2> QED
      BY <1>1, <1>2, <1>5, <2>2, <2>3, FaultsGrow DEF Begins
  <1> QED
    BY <1>4, <1>5

-----------------------------------------------------------------------------
\* Every step costs nothing, costs what a failure pays, or begins an attempt.
LEMMA StepPaid ==
    ASSUME Inv, FenceInv, [Next]_vars, NEW e \in Experiments
    PROVE  Calm(e) \/ Costs(e) \/ Begins(e)
  <1>1. CASE UNCHANGED vars
    <2>1. /\ UNCHANGED <<rec, worker, stop, faults>>
          /\ \A v \in Workers : worker'[v].job = worker[v].job
                                  /\ queue'[worker[v].job] = queue[worker[v].job]
      BY <1>1 DEF vars
    <2>2. \A v \in Workers : Apart(v)
      BY <2>1, SafeStays DEF Apart
    <2> QED
      BY <2>1, <2>2, LeavesSame, FaultsGrow, StepCalm
  <1>2. CASE \/ \E c \in Clients, f \in Experiments : Submit(c, f) \/ Resubmit(c, f)
             \/ \E w \in Workers, f \in Experiments : Reconcile(w, f)
             \/ \E t \in Dispatchers : ServiceStep(t) \/ DispatchFails(t) \/ SendUnacknowledged(t)
             \/ \E f \in Experiments : Cancel(f)
    BY <1>2, ServiceCalm
  <1>3. ASSUME NEW f \in Experiments, Lapse(f) PROVE Calm(e) \/ Costs(e)
    BY <1>3, LapsePaid
  <1>4. ASSUME NEW w \in Workers, NEW m \in Messages, Receive(w, m) PROVE Calm(e)
    BY <1>4, ReceiveCalm
  <1>5. ASSUME NEW m \in Messages, Reappear(m) PROVE Calm(e) \/ Costs(e)
    BY <1>5, ReappearPaid
  <1>6. ASSUME NEW w \in Workers, WorkerStep(w) PROVE Calm(e) \/ Begins(e)
    BY <1>6, MainCalm, UploadCalm, SettleCalm, ClaimBegins DEF WorkerStep
  <1>7. ASSUME NEW w \in Workers, RefreshStep(w) \/ Replace(w) PROVE Calm(e)
    BY <1>7, RefreshCalm, SettleCalm
  <1>8. ASSUME NEW w \in Workers, WorkerFault(w) PROVE Costs(e) \/ Begins(e)
    BY <1>8, ShutdownPaid, WorkerFaultCosts, LostClaimBegins DEF WorkerFault
  <1> QED
    BY <1>1, <1>2, <1>3, <1>4, <1>5, <1>6, <1>7, <1>8 DEF Next

\* At first nothing was attempted, and nobody is about to.
LEMMA FaultInit == Init => FaultInv
  <1> SUFFICES ASSUME Init, NEW e \in Experiments PROVE Paid(e)
    BY DEF FaultInv
  <1>1. Doomed(e) = {}
    BY DEF Doomed, Dooming, Init, IdleWorker
  <1>2. IsFiniteSet(Doomed(e)) /\ Cardinality(Doomed(e)) = 0
    BY <1>1, FS_EmptySet
  <1>3. rec[e].attempts = 0 /\ faults = 0
    BY DEF Init, AbsentRecord
  <1> QED
    BY <1>2, <1>3 DEF Paid

\* FaultInv holds in every reachable state: every attempt but one that will end the
\* experiment was paid for by a failure (worker.py 97-115, 171-206, 345-363).
THEOREM FaultInvariant == Spec => []FaultInv
  <1>1. ASSUME Inv, Inv', FenceInv, FaultInv, [Next]_vars, NEW e \in Experiments
        PROVE  Paid(e)'
    BY <1>1, StepPaid, CalmPaid, CostsPaid, BeginsPaid DEF FaultInv
  <1>2. Inv /\ Inv' /\ FenceInv /\ FaultInv /\ [Next]_vars => FaultInv'
    BY <1>1 DEF FaultInv
  <1> QED
    BY InvInvariant, FenceInvariant, FaultInit, <1>2, PTL DEF Spec

\* Duplicate messages, repeated requests, reconciliation and cancellations alone never
\* make the platform run an experiment again (worker.py 97-115, service.py 61-77).
THEOREM RerunsPaid == Spec => []RerunsNeedFaults
  <1>1. Inv /\ FaultInv => RerunsNeedFaults
    <2> SUFFICES ASSUME Inv, FaultInv, NEW e \in Experiments
                 PROVE  rec[e].attempts <= 1 + faults
      BY DEF RerunsNeedFaults
    <2>1. /\ IsFiniteSet(Doomed(e))
          /\ rec[e].attempts + Cardinality(Doomed(e)) <= faults + (IF Secure(e) THEN 1 ELSE 0)
      BY DEF FaultInv, Paid
    <2>2. Cardinality(Doomed(e)) \in Nat
      BY <2>1, FS_CardinalityType
    <2> QED
      BY <2>1, <2>2, Counted
  <1> QED
    BY InvInvariant, FaultInvariant, <1>1, PTL
=============================================================================
