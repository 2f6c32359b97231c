------------------------- MODULE JobPlatformProofs -------------------------
(***************************************************************************)
(* Inv (JobPlatformInv) is an invariant of JobPlatform, for every value of *)
(* the constants, and with it TypeOK, NoLostJob, CancelHonoured and        *)
(* RequeuedIsClaimable.                                                    *)
(*                                                                         *)
(* The proof goes from the record mutations (RecordTypes, Callbacks), over *)
(* what a step may leave alone (WorkerKept, MessagesKept, DispatchesKept,  *)
(* NoLostJobKept) and the kinds of step there are (LocalStep, WriteStep,   *)
(* QueueStep, RecordStep, SharedStep, ReceiptStep, DeliveryEnds), to one   *)
(* lemma per action, NextInv and the theorems.                             *)
(***************************************************************************)
EXTENDS JobPlatformInv, TLAPS

\* The first record of an experiment is a record.
LEMMA NewRecordTyped == AbsentRecord \in Records /\ NewRecord \in Records
BY DEF AbsentRecord, NewRecord, Records, Statuses, NoHistory

\* The callbacks give records again.
LEMMA RecordTypes ==
    ASSUME NEW r \in Records, NEW w \in Workers
    PROVE  /\ Dispatched(r) \in Records
           /\ CancelRequested(r) \in Records
           /\ Claimed(r, w) \in Records
           /\ Renewed(r) \in Records
           /\ \A i, a \in Nat : WithMetric(r, i, a) \in Records
           /\ \A a \in Nat : Completed(r, a) \in Records
           /\ \A s \in Statuses : Finished(r, s) \in Records
<1> USE DEF Records, Statuses, TerminalStatuses, NoHistory
<1>2. Dispatched(r) \in Records
  BY DEF Dispatched
<1>3. CancelRequested(r) \in Records
  BY DEF CancelRequested
<1>4. Claimed(r, w) \in Records
  <2> DEFINE r1 == [r EXCEPT !.leaseOwner = w, !.leased = TRUE]
             r2 == [r1 EXCEPT !.attempts = r.attempts + 1, !.status = "running"]
  <2>1. r1 \in Records /\ r1.attempts = r.attempts
    OBVIOUS
  <2>2. Claimed(r, w) = r2
    BY DEF Claimed
  <2>3. r2 \in Records
    <3> HIDE DEF r1
    <3>1. r.attempts + 1 \in Nat
      OBVIOUS
    <3>2. QED BY <2>1, <3>1
  <2>4. QED BY <2>2, <2>3
<1>5. Renewed(r) \in Records
  BY DEF Renewed
<1>6. ASSUME NEW i, NEW a \in Nat
      PROVE  WithMetric(r, i, a) \in Records
  BY DEF WithMetric
<1>7. ASSUME NEW a \in Nat PROVE Completed(r, a) \in Records
  BY DEF Completed
<1>8. ASSUME NEW s \in Statuses PROVE Finished(r, s) \in Records
  BY DEF Finished
<1>9. QED BY <1>2, <1>3, <1>4, <1>5, <1>6, <1>7, <1>8

-----------------------------------------------------------------------------
\* Frame lemmas: what a step has to leave alone for a part of Inv to survive.

\* s is a record that a mutation may put in the place of r.
Follows(r, s) ==
    /\ s \in Records
    /\ RecordInv(s)
    /\ Exists(r) /\ r.cancelRequested => s.cancelRequested
    /\ Exists(r) => Exists(s)
    /\ Terminal(r) => Terminal(s)

\* The callback of an _owned mutation cannot tell r and s apart, except by the clock.
SameView(r, s) ==
    /\ s.status = r.status
    /\ s.leaseOwner = r.leaseOwner
    /\ s.cancelRequested = r.cancelRequested

\* A worker that takes no step keeps its invariant when records change as mutations change
\* them, if the ETags it still holds stand for records that look the same to it.
LEMMA WorkerKept ==
    ASSUME Inv, NEW x \in Workers, worker'[x] = worker[x],
           \A e \in Experiments : Follows(rec[e], rec'[e]),
           \A th \in {"main", "renewer"}, e \in Experiments :
               <<x, th>> \in current'[e] =>
                   <<x, th>> \in current[e] /\ SameView(rec[e], rec'[e])
    PROVE  WorkerInv(x)'
<1>1. WorkerInv(x)
  BY DEF Inv
<1>2. CASE worker[x].pc = "idle"
  BY <1>1, <1>2 DEF WorkerInv
<1>3. CASE worker[x].pc # "idle"
  <2> DEFINE k == worker[x]
             e == k.target
  <2>1. DeliveryInv(k, rec[e]) /\ FreshInv(x, k, rec[e]) /\ e \in Experiments
    BY <1>1, <1>3 DEF WorkerInv, DeliveryInv
  <2>2. Follows(rec[e], rec'[e])
    BY <2>1
  <2>3. DeliveryInv(k, rec'[e])
    BY <2>1, <2>2 DEF DeliveryInv, Follows
  <2>4. FreshInv(x, k, rec[e]) =>
          /\ k.pc \in WriteSteps /\ <<x, "main">> \in current[e] => ClaimedBy(x, rec[e])
          /\ k.pc = "completeWrite" /\ <<x, "main">> \in current[e]
               => ~rec[e].cancelRequested
          /\ k.refresh = "write" /\ <<x, "renewer">> \in current[e] => ClaimedBy(x, rec[e])
    BY DEF FreshInv, Fresh
  <2>5. /\ k.pc \in WriteSteps /\ <<x, "main">> \in current'[e] => ClaimedBy(x, rec'[e])
        /\ k.pc = "completeWrite" /\ <<x, "main">> \in current'[e]
             => ~rec'[e].cancelRequested
        /\ k.refresh = "write" /\ <<x, "renewer">> \in current'[e] => ClaimedBy(x, rec'[e])
    BY <2>1, <2>4 DEF SameView, ClaimedBy
  <2>6. worker'[x] = k
    OBVIOUS
  <2>7. FreshInv(x, worker[x], rec[worker[x].target])'
    BY <2>5, <2>6 DEF FreshInv, Fresh, ClaimedBy
  <2>8. DeliveryInv(worker[x], rec[worker[x].target])'
    BY <2>3, <2>6 DEF DeliveryInv, Exists, Terminal
  <2>9. QED BY <1>3, <2>6, <2>7, <2>8 DEF WorkerInv
<1>4. QED BY <1>2, <1>3

\* Messages keep their invariant while the deliveries that hold them go on.
LEMMA MessagesKept ==
    ASSUME Inv, UNCHANGED queue,
           \A e \in Experiments : Exists(rec[e]) => Exists(rec'[e]),
           \A x \in Workers : worker[x].pc # "idle" =>
               /\ worker'[x].pc # "idle"
               /\ worker'[x].job = worker[x].job
               /\ worker'[x].target = worker[x].target
    PROVE  \A m \in Messages : MessageInv(m)'
BY DEF Inv, MessageInv, Exists

\* A dispatch that takes no step keeps its invariant while its message stays in the queue.
LEMMA DispatchesKept ==
    ASSUME Inv,
           \A e \in Experiments : Follows(rec[e], rec'[e]),
           \A e \in Experiments : InQueue(e) => InQueue(e)' \/ Terminal(rec'[e])
    PROVE  \A t \in Dispatchers : disp'[t] = disp[t] => DispatchInv(t)'
<1> SUFFICES ASSUME NEW t \in Dispatchers, disp'[t] = disp[t] PROVE DispatchInv(t)'
  OBVIOUS
<1> DEFINE e == disp[t].exp
<1>1. DispatchInv(t)
  BY DEF Inv
<1>2. CASE disp[t].step = "idle"
  BY <1>2 DEF DispatchInv
<1>3. CASE disp[t].step # "idle"
  <2>1. e \in Experiments /\ Exists(rec[e]) /\ Follows(rec[e], rec'[e])
    BY <1>1, <1>3 DEF DispatchInv
  <2>2. disp[t].step = "mark" => Terminal(rec[e]) \/ InQueue(e)
    BY <1>1 DEF DispatchInv
  <2>3. disp[t].step = "mark" => Terminal(rec'[e]) \/ InQueue(e)'
    BY <2>1, <2>2 DEF Follows
  <2>4. QED BY <2>1, <2>3 DEF DispatchInv, Follows, Exists, Terminal, InQueue
<1>4. QED BY <1>2, <1>3

\* No job is lost while marked experiments keep their messages.
LEMMA NoLostJobKept ==
    ASSUME Inv,
           \A e \in Experiments :
               rec'[e].dispatched /\ ~Terminal(rec'[e]) =>
                   (rec[e].dispatched /\ ~Terminal(rec[e])) \/ InQueue(e)',
           \A e \in Experiments : InQueue(e) => InQueue(e)' \/ Terminal(rec'[e])
    PROVE  NoLostJob'
BY DEF Inv, NoLostJob, InQueue, Terminal
-----------------------------------------------------------------------------
\* Lemmas for the kinds of step a worker takes.

\* A step of one worker leaves the other workers' states alone.
LEMMA BecomeFacts ==
    ASSUME TypeOK, NEW w \in Workers, NEW k \in WorkerStates, Become(w, k)
    PROVE  /\ worker' \in [Workers -> WorkerStates]
           /\ worker'[w] = k
           /\ \A x \in Workers \ {w} : worker'[x] = worker[x]
BY DEF TypeOK, Become

\* What the acting worker's new state k must keep of its delivery.
SameDelivery(w, k) ==
    /\ worker[w].pc # "idle" /\ k.pc # "idle"
    /\ k.job = worker[w].job
    /\ k.target = worker[w].target

\* The record of w's delivery exists and is an experiment's.
LEMMA Busy ==
    ASSUME Inv, NEW w \in Workers, worker[w].pc # "idle"
    PROVE  LET e == worker[w].target
           IN  /\ e \in Experiments
               /\ worker[w].job \in Messages
               /\ rec[e] \in Records
               /\ RecordInv(rec[e])
               /\ Exists(rec[e])
               /\ DeliveryInv(worker[w], rec[e])
               /\ FreshInv(w, worker[w], rec[e])
               /\ worker[w] \in WorkerStates
BY DEF Inv, TypeOK, WorkerInv, DeliveryInv

\* A record that is left alone follows itself.
LEMMA FollowsItself ==
    ASSUME Inv, NEW e \in Experiments
    PROVE  Follows(rec[e], rec[e]) /\ SameView(rec[e], rec[e])
BY DEF Inv, TypeOK, Follows, SameView

\* Reading, deciding and giving up change nothing that is shared.
LEMMA LocalStep ==
    ASSUME Inv, NEW w \in Workers, NEW k \in WorkerStates,
           Become(w, k), SameDelivery(w, k),
           UNCHANGED <<rec, queue, disp>>,
           stop' \in [Workers -> BOOLEAN], faults' \in 0 .. MaxFaults,
           UNCHANGED current \/ \E th \in {"main", "renewer"} : ReadBy(w, th),
           DeliveryInv(k, rec[worker[w].target]),
           FreshInv(w, worker[w], rec[worker[w].target])'
    PROVE  Inv'
<1>1. /\ worker' \in [Workers -> WorkerStates]
      /\ worker'[w] = k
      /\ \A x \in Workers \ {w} : worker'[x] = worker[x]
  BY BecomeFacts DEF Inv
<1>2. /\ current' \in [Experiments -> SUBSET Threads]
      /\ \A x \in Workers \ {w}, th \in {"main", "renewer"}, e \in Experiments :
            <<x, th>> \in current'[e] => <<x, th>> \in current[e]
  <2>1. current \in [Experiments -> SUBSET Threads]
    BY DEF Inv, TypeOK
  <2>2. CASE UNCHANGED current
    BY <2>1, <2>2
  <2>3. ASSUME NEW th \in {"main", "renewer"}, ReadBy(w, th)
        PROVE  <1>2
    <3>1. <<w, th>> \in Threads
      BY DEF Threads
    <3>2. current' \in [Experiments -> SUBSET Threads]
      BY <2>1, <2>3, <3>1 DEF ReadBy
    <3>3. \A e \in Experiments : current'[e] \subseteq current[e] \cup {<<w, th>>}
      BY <2>1, <2>3 DEF ReadBy
    <3>4. QED BY <3>2, <3>3
  <2>4. QED BY <2>2, <2>3
<1>3. TypeOK'
  BY <1>1, <1>2 DEF Inv, TypeOK
<1>4. \A e \in Experiments : Follows(rec[e], rec'[e]) /\ SameView(rec[e], rec'[e])
  BY FollowsItself
<1>5. \A e \in Experiments : RecordInv(rec[e])'
  BY DEF Inv, RecordInv
<1>6. \A x \in Workers : WorkerInv(x)'
  <2>1. ASSUME NEW x \in Workers \ {w} PROVE WorkerInv(x)'
    BY <1>1, <1>2, <1>4, WorkerKept
  <2>2. WorkerInv(w)'
    BY <1>1 DEF WorkerInv, SameDelivery, DeliveryInv, FreshInv, Fresh, Exists, Terminal, ClaimedBy
  <2>3. QED BY <2>1, <2>2
<1>7. \A m \in Messages : MessageInv(m)'
  BY <1>1, MessagesKept DEF SameDelivery
<1>8. \A e \in Experiments : InQueue(e) <=> InQueue(e)'
  BY DEF InQueue
<1>9. \A t \in Dispatchers : DispatchInv(t)'
  BY <1>4, <1>8, DispatchesKept
<1>10. NoLostJob'
  BY <1>8, NoLostJobKept
<1>11. QED BY <1>3, <1>5, <1>6, <1>7, <1>9, <1>10 DEF Inv

\* A write that lands: the records stay well formed, and a worker that takes no step
\* keeps its invariant because its ETag is stale.
LEMMA RecordWritten ==
    ASSUME Inv, NEW e \in Experiments, NEW r, Write(e, r), Follows(rec[e], r)
    PROVE  /\ rec' \in [Experiments -> Records]
           /\ current' \in [Experiments -> SUBSET Threads]
           /\ rec'[e] = r /\ current'[e] = {}
           /\ \A f \in Experiments : Follows(rec[f], rec'[f])
           /\ \A f \in Experiments : f # e => rec'[f] = rec[f]
           /\ \A f \in Experiments : RecordInv(rec[f])'
           /\ \A x \in Workers : worker'[x] = worker[x] => WorkerInv(x)'
<1>1. /\ rec' \in [Experiments -> Records]
      /\ current' \in [Experiments -> SUBSET Threads]
      /\ rec'[e] = r /\ current'[e] = {}
      /\ \A f \in Experiments \ {e} : rec'[f] = rec[f] /\ current'[f] = current[f]
  BY DEF Inv, TypeOK, Write, Follows
<1>2. \A f \in Experiments : Follows(rec[f], rec'[f])
  BY <1>1, FollowsItself
<1>3. \A f \in Experiments : RecordInv(rec[f])'
  BY <1>2 DEF Follows, RecordInv
<1>4. \A x \in Workers, th \in {"main", "renewer"}, f \in Experiments :
          <<x, th>> \in current'[f] => <<x, th>> \in current[f] /\ SameView(rec[f], rec'[f])
  BY <1>1 DEF SameView
<1>5. \A x \in Workers : worker'[x] = worker[x] => WorkerInv(x)'
  BY <1>2, <1>4, WorkerKept
<1>6. QED BY <1>1, <1>2, <1>3, <1>5

\* A mutation by the worker that processes the delivery.
LEMMA WriteStep ==
    ASSUME Inv, NEW w \in Workers, NEW k \in WorkerStates, NEW r,
           Write(worker[w].target, r), Follows(rec[worker[w].target], r),
           r.dispatched => rec[worker[w].target].dispatched,
           Become(w, k), SameDelivery(w, k), DeliveryInv(k, r),
           UNCHANGED <<queue, disp>>,
           stop' \in [Workers -> BOOLEAN], faults' \in 0 .. MaxFaults
    PROVE  Inv'
<1> DEFINE e == worker[w].target
<1>1. e \in Experiments
  BY Busy DEF SameDelivery
<1>2. /\ worker' \in [Workers -> WorkerStates]
      /\ worker'[w] = k
      /\ \A x \in Workers \ {w} : worker'[x] = worker[x]
  BY BecomeFacts DEF Inv
<1>3. /\ rec' \in [Experiments -> Records]
      /\ current' \in [Experiments -> SUBSET Threads]
      /\ rec'[e] = r /\ current'[e] = {}
      /\ \A f \in Experiments : Follows(rec[f], rec'[f])
      /\ \A f \in Experiments : f # e => rec'[f] = rec[f]
      /\ \A f \in Experiments : RecordInv(rec[f])'
      /\ \A x \in Workers : worker'[x] = worker[x] => WorkerInv(x)'
  BY <1>1, RecordWritten
<1>4. TypeOK'
  BY <1>2, <1>3 DEF Inv, TypeOK
<1>5. WorkerInv(w)'
  BY <1>2, <1>3 DEF WorkerInv, SameDelivery, DeliveryInv, FreshInv, Fresh, Exists, Terminal
<1>6. \A m \in Messages : MessageInv(m)'
  <2>1. \A f \in Experiments : Exists(rec[f]) => Exists(rec'[f])
    BY <1>3 DEF Follows
  <2>2. QED BY <1>2, <2>1, MessagesKept DEF SameDelivery
<1>7. \A f \in Experiments : InQueue(f) <=> InQueue(f)'
  BY DEF InQueue
<1>8. \A t \in Dispatchers : DispatchInv(t)'
  BY <1>3, <1>7, DispatchesKept
<1>9. \A f \in Experiments :
          rec'[f].dispatched /\ ~Terminal(rec'[f]) => rec[f].dispatched /\ ~Terminal(rec[f])
  BY <1>3 DEF Follows
<1>10. NoLostJob'
  BY <1>7, <1>9, NoLostJobKept
<1>11. QED BY <1>2, <1>3, <1>4, <1>5, <1>6, <1>8, <1>10 DEF Inv

\* A step that ends or starts deliveries or changes messages, but no record.
LEMMA QueueStep ==
    ASSUME Inv, UNCHANGED <<rec, current>>,
           worker' \in [Workers -> WorkerStates], queue' \in [Messages -> QueueEntries],
           disp' \in [Dispatchers -> Dispatches],
           stop' \in [Workers -> BOOLEAN], faults' \in 0 .. MaxFaults,
           \A x \in Workers : worker'[x] = worker[x] \/ WorkerInv(x)',
           \A m \in Messages : MessageInv(m)',
           \A t \in Dispatchers : disp'[t] = disp[t] \/ DispatchInv(t)',
           \A e \in Experiments : InQueue(e) => InQueue(e)' \/ Terminal(rec[e])
    PROVE  Inv'
<1>1. TypeOK'
  BY DEF Inv, TypeOK
<1>2. \A e \in Experiments : Follows(rec[e], rec'[e]) /\ SameView(rec[e], rec'[e])
  BY FollowsItself
<1>3. \A e \in Experiments : RecordInv(rec[e])'
  BY DEF Inv, RecordInv
<1>4. \A x \in Workers : WorkerInv(x)'
  BY <1>2, WorkerKept
<1>5. \A t \in Dispatchers : DispatchInv(t)'
  BY <1>2, DispatchesKept
<1>6. NoLostJob'
  BY NoLostJobKept
<1>7. QED BY <1>1, <1>3, <1>4, <1>5, <1>6 DEF Inv

-----------------------------------------------------------------------------
\* The callbacks give records that may follow.
LEMMA Callbacks ==
    ASSUME NEW r \in Records, RecordInv(r), NEW w \in Workers
    PROVE  /\ Exists(r) => Follows(r, Dispatched(r))
           /\ Exists(r) => Follows(r, CancelRequested(r))
           /\ Claimable(r) /\ Exists(r) => Follows(r, Claimed(r, w))
           /\ ClaimedBy(w, r) => Follows(r, Renewed(r))
           /\ \A i, a \in Nat : Follows(r, WithMetric(r, i, a))
           /\ \A a \in Nat :
                 ClaimedBy(w, r) /\ ~r.cancelRequested => Follows(r, Completed(r, a))
           /\ \A s \in {"queued", "cancelled", "failed"} :
                 ClaimedBy(w, r) /\ (s = "cancelled" => r.cancelRequested)
                     => Follows(r, Finished(r, s))
<1> USE RecordTypes DEF Follows, RecordInv, Exists, Terminal, TerminalStatuses, ClaimedBy
<1>1. Exists(r) => Follows(r, Dispatched(r))
  BY DEF Dispatched, Records
<1>2. Exists(r) => Follows(r, CancelRequested(r))
  BY DEF CancelRequested, Records
<1>3. ASSUME Claimable(r), Exists(r) PROVE Follows(r, Claimed(r, w))
  <2>1. /\ Claimed(r, w) \in Records
        /\ Claimed(r, w).status = "running"
        /\ Claimed(r, w).cancelRequested = r.cancelRequested
    BY DEF Claimed, Records
  <2>2. QED BY <1>3, <2>1 DEF Claimable
<1>4. ClaimedBy(w, r) => Follows(r, Renewed(r))
  BY DEF Renewed, Records
<1>5. ASSUME NEW i \in Nat, NEW a \in Nat PROVE Follows(r, WithMetric(r, i, a))
  BY DEF WithMetric, Records
<1>6. ASSUME NEW a \in Nat, ClaimedBy(w, r), ~r.cancelRequested
      PROVE  Follows(r, Completed(r, a))
  BY <1>6 DEF Completed, Records
<1>7. ASSUME NEW s \in {"queued", "cancelled", "failed"}, ClaimedBy(w, r),
             s = "cancelled" => r.cancelRequested
      PROVE  Follows(r, Finished(r, s))
  BY <1>7 DEF Finished, Records, Statuses
<1>8. QED BY <1>1, <1>2, <1>3, <1>4, <1>5, <1>6, <1>7

\* Only Mark sets the dispatch mark.
LEMMA CallbacksDispatched ==
    ASSUME NEW r \in Records, NEW w
    PROVE  /\ CancelRequested(r).dispatched = r.dispatched
           /\ Claimed(r, w).dispatched = r.dispatched
           /\ Renewed(r).dispatched = r.dispatched
           /\ \A i, a : WithMetric(r, i, a).dispatched = r.dispatched
           /\ \A a : Completed(r, a).dispatched = r.dispatched
           /\ \A s : Finished(r, s).dispatched = r.dispatched
BY DEF CancelRequested, Claimed, Renewed, WithMetric, Completed, Finished, Records

\* A local step that starts no upload keeps what its ETags stand for.
LEMMA FreshKept ==
    ASSUME Inv, NEW w \in Workers, NEW k \in WorkerStates,
           UNCHANGED <<rec, current>>, Become(w, k), SameDelivery(w, k),
           k.pc \in WriteSteps => k.pc = worker[w].pc,
           k.refresh = "write" => worker[w].refresh = "write"
    PROVE  FreshInv(w, worker[w], rec[worker[w].target])'
<1>1. worker'[w] = k
  BY BecomeFacts DEF Inv
<1>2. FreshInv(w, worker[w], rec[worker[w].target])
  BY Busy DEF SameDelivery
<1>3. QED BY <1>1, <1>2 DEF FreshInv, Fresh, SameDelivery, ClaimedBy, WriteSteps

\* A worker that only moves on, starting no upload, preserves Inv.
LEMMA PlainLocalStep ==
    ASSUME Inv, NEW w \in Workers, NEW k \in WorkerStates,
           Become(w, k), SameDelivery(w, k),
           UNCHANGED <<rec, current, queue, disp>>,
           stop' \in [Workers -> BOOLEAN], faults' \in 0 .. MaxFaults,
           k.pc \in WriteSteps => k.pc = worker[w].pc,
           k.refresh = "write" => worker[w].refresh = "write",
           DeliveryInv(k, rec[worker[w].target])
    PROVE  Inv'
BY FreshKept, LocalStep

\* Moving the program counter keeps the rest of the state.
LEMMA GotoState ==
    ASSUME NEW k \in WorkerStates, NEW p \in PCs
    PROVE  LET q == [k EXCEPT !.pc = p]
           IN  /\ q \in WorkerStates
               /\ q.pc = p
               /\ q.job = k.job /\ q.target = k.target /\ q.iter = k.iter
               /\ q.verdict = k.verdict /\ q.action = k.action
               /\ q.refresh = k.refresh
BY DEF WorkerStates

\* Settling without an action preserves Inv (LeaseLostError, worker.py 353-356).
LEMMA GiveUpStep ==
    ASSUME Inv, NEW w \in Workers, worker[w].pc # "idle", GiveUp(w),
           UNCHANGED <<rec, current, queue, disp>>,
           stop' \in [Workers -> BOOLEAN], faults' \in 0 .. MaxFaults
    PROVE  Inv'
<1> DEFINE k == [worker[w] EXCEPT !.pc = "settle"]
           r == rec[worker[w].target]
<1>1. worker[w] \in WorkerStates /\ DeliveryInv(worker[w], r)
  BY Busy
<1>2. /\ k \in WorkerStates /\ k.pc = "settle"
      /\ k.job = worker[w].job /\ k.target = worker[w].target
      /\ k.verdict = worker[w].verdict /\ k.action = worker[w].action
      /\ k.refresh = worker[w].refresh
  BY <1>1, GotoState DEF PCs
<1>3. DeliveryInv(k, r)
  BY <1>1, <1>2 DEF DeliveryInv
<1>4. Become(w, k) /\ SameDelivery(w, k) /\ k.pc \notin WriteSteps
  BY <1>2 DEF GiveUp, Goto, SameDelivery, WriteSteps
<1> HIDE DEF k
<1>5. QED BY <1>2, <1>3, <1>4, PlainLocalStep

\* Going on to finish with a verdict preserves Inv (worker.py 308-323).
LEMMA RaiseStep ==
    ASSUME Inv, NEW w \in Workers, NEW v \in {"queued", "cancelled", "failed"},
           worker[w].pc \notin {"idle", "settle"}, Raise(w, v),
           v = "cancelled" => rec[worker[w].target].cancelRequested,
           UNCHANGED <<rec, current, queue, disp>>,
           stop' \in [Workers -> BOOLEAN], faults' \in 0 .. MaxFaults
    PROVE  Inv'
<1> DEFINE k == [worker[w] EXCEPT !.pc = "finish", !.verdict = v]
           r == rec[worker[w].target]
<1>1. CASE worker[w].lost
  BY <1>1, GiveUpStep DEF Raise
<1>2. CASE ~worker[w].lost
  <2>1. worker[w] \in WorkerStates /\ DeliveryInv(worker[w], r)
    BY Busy
  <2>2. /\ k \in WorkerStates /\ k.pc = "finish" /\ k.verdict = v
        /\ k.job = worker[w].job /\ k.target = worker[w].target
        /\ k.action = worker[w].action /\ k.refresh = worker[w].refresh
    BY <2>1 DEF WorkerStates, PCs, ReadSteps
  <2>3. DeliveryInv(k, r)
    BY <2>1, <2>2 DEF DeliveryInv
  <2>4. Become(w, k) /\ SameDelivery(w, k) /\ k.pc \notin WriteSteps
    BY <1>2, <2>2 DEF Raise, SameDelivery, WriteSteps
  <2> HIDE DEF k
  <2>5. QED BY <2>2, <2>3, <2>4, PlainLocalStep
<1>3. QED BY <1>1, <1>2

-----------------------------------------------------------------------------
\* The main thread of a delivery.

\* Finding the record terminal, or going on to claim it (worker.py 181-186).
LEMMA LoadRecordInv ==
    ASSUME Inv, NEW w \in Workers, LoadRecord(w)
    PROVE  Inv'
<1> DEFINE r == rec[worker[w].target]
<1>1. worker[w] \in WorkerStates /\ DeliveryInv(worker[w], r) /\ worker[w].pc = "received"
  BY Busy DEF LoadRecord
<1>2. stop' \in [Workers -> BOOLEAN] /\ faults' \in 0 .. MaxFaults
      /\ UNCHANGED <<rec, current, queue, disp>>
  BY DEF LoadRecord, Inv, TypeOK
<1>3. CASE Terminal(r)
  <2> DEFINE k == [worker[w] EXCEPT !.pc = "settle", !.action = "ack"]
  <2>1. /\ k \in WorkerStates /\ k.pc = "settle" /\ k.verdict = worker[w].verdict
        /\ k.job = worker[w].job /\ k.target = worker[w].target
        /\ k.refresh = worker[w].refresh
    BY <1>1 DEF WorkerStates, PCs
  <2>2. DeliveryInv(k, r)
    BY <1>1, <1>3, <2>1 DEF DeliveryInv
  <2>3. Become(w, k) /\ SameDelivery(w, k) /\ k.pc \notin WriteSteps
    BY <1>1, <1>3, <2>1 DEF LoadRecord, SettleBy, SameDelivery, WriteSteps
  <2> HIDE DEF k
  <2>4. QED BY <1>2, <2>1, <2>2, <2>3, PlainLocalStep
<1>4. CASE ~Terminal(r)
  <2> DEFINE k == [worker[w] EXCEPT !.pc = "claim"]
  <2>1. /\ k \in WorkerStates /\ k.pc = "claim"
        /\ k.job = worker[w].job /\ k.target = worker[w].target
        /\ k.verdict = worker[w].verdict /\ k.action = worker[w].action
        /\ k.refresh = worker[w].refresh
    BY <1>1, GotoState DEF PCs
  <2>2. DeliveryInv(k, r)
    BY <1>1, <2>1 DEF DeliveryInv
  <2>3. Become(w, k) /\ SameDelivery(w, k) /\ k.pc \notin WriteSteps
    BY <1>1, <1>4, <2>1 DEF LoadRecord, Goto, SameDelivery, WriteSteps
  <2> HIDE DEF k
  <2>4. QED BY <1>2, <2>1, <2>2, <2>3, PlainLocalStep
<1>5. QED BY <1>3, <1>4

\* What the delivery remembers of its claim (worker.py 186-206).
LEMMA EnteringState ==
    ASSUME NEW k \in WorkerStates, NEW r \in Records
    PROVE  LET q == Entering(k, r)
           IN  /\ q \in WorkerStates
               /\ q.pc = "enter" /\ q.verdict = ClaimVerdict(r) /\ q.refresh = "due"
               /\ q.job = k.job /\ q.target = k.target /\ q.action = k.action
<1> DEFINE v == ClaimVerdict(r)
           k1 == [k EXCEPT !.pc = "enter", !.attempt = r.attempts]
           k2 == [k1 EXCEPT !.verdict = v, !.refresh = "due"]
<1>1. v \in {"none", "cancelled", "failed"}
  BY DEF ClaimVerdict
<1>2. r.attempts \in Nat
  BY DEF Records
<1>3. Entering(k, r) = k2
  BY DEF Entering
<1> HIDE DEF v
<1>4. /\ k1 \in WorkerStates
      /\ k1.pc = "enter" /\ k1.job = k.job /\ k1.target = k.target /\ k1.action = k.action
  BY <1>2 DEF WorkerStates, PCs
<1>5. /\ k2 \in WorkerStates
      /\ k2.pc = "enter" /\ k2.verdict = v /\ k2.refresh = "due"
      /\ k2.job = k.job /\ k2.target = k.target /\ k2.action = k.action
  <2> HIDE DEF k1
  <2>1. QED BY <1>1, <1>4 DEF WorkerStates
<1>6. QED BY <1>3, <1>5 DEF v

\* A claim preserves Inv (worker.py 97-115).
LEMMA ClaimInv ==
    ASSUME Inv, NEW w \in Workers, Claim(w)
    PROVE  Inv'
<1> DEFINE e == worker[w].target
           r == Claimed(rec[e], w)
           k == Entering(worker[w], r)
<1>1. /\ worker[w] \in WorkerStates /\ DeliveryInv(worker[w], rec[e])
      /\ worker[w].pc = "claim" /\ Claimable(rec[e])
      /\ rec[e] \in Records /\ RecordInv(rec[e]) /\ Exists(rec[e])
  BY Busy DEF Claim
<1>2. r \in Records /\ Follows(rec[e], r) /\ r.dispatched = rec[e].dispatched
  BY <1>1, RecordTypes, Callbacks, CallbacksDispatched
<1>3. /\ k \in WorkerStates
      /\ k.pc = "enter" /\ k.verdict = ClaimVerdict(r) /\ k.refresh = "due"
      /\ k.job = worker[w].job /\ k.target = e /\ k.action = worker[w].action
  BY <1>1, <1>2, EnteringState
<1>4. Write(e, r) /\ Become(w, k) /\ UNCHANGED <<queue, disp, stop, faults>>
  BY DEF Claim
<1> HIDE DEF k, r
<1>5. DeliveryInv(k, r)
  BY <1>1, <1>2, <1>3 DEF DeliveryInv, Follows, ClaimVerdict
<1>6. SameDelivery(w, k)
  BY <1>1, <1>3 DEF SameDelivery
<1>7. stop' \in [Workers -> BOOLEAN] /\ faults' \in 0 .. MaxFaults
  BY <1>4 DEF Inv, TypeOK
<1>8. QED BY <1>2, <1>3, <1>4, <1>5, <1>6, <1>7, WriteStep

\* A refused claim preserves Inv (worker.py 100-103).
LEMMA ClaimRefusedInv ==
    ASSUME Inv, NEW w \in Workers, ClaimRefused(w)
    PROVE  Inv'
<1>1. stop' \in [Workers -> BOOLEAN] /\ faults' \in 0 .. MaxFaults
  BY DEF ClaimRefused, Inv, TypeOK
<1>2. QED BY <1>1, GiveUpStep DEF ClaimRefused

\* Moving on to another step of the attempt preserves Inv.
LEMMA GotoStep ==
    ASSUME Inv, NEW w \in Workers, NEW p \in PCs, Goto(w, p),
           worker[w].pc # "idle", p \notin {"idle", "received", "claim"} \cup WriteSteps,
           p = "metric" => worker[w].iter < Iterations,
           p = "finish" => worker[w].verdict # "none",
           worker[w].pc # "settle",
           UNCHANGED <<rec, current, queue, disp>>,
           stop' \in [Workers -> BOOLEAN], faults' \in 0 .. MaxFaults
    PROVE  Inv'
<1> DEFINE k == [worker[w] EXCEPT !.pc = p]
           r == rec[worker[w].target]
<1>1. worker[w] \in WorkerStates /\ DeliveryInv(worker[w], r)
  BY Busy
<1>2. /\ k \in WorkerStates /\ k.pc = p
      /\ k.job = worker[w].job /\ k.target = worker[w].target /\ k.iter = worker[w].iter
      /\ k.verdict = worker[w].verdict /\ k.action = worker[w].action
      /\ k.refresh = worker[w].refresh
  BY <1>1, GotoState
<1>3. Become(w, k)
  BY DEF Goto
<1> HIDE DEF k
<1>4. DeliveryInv(k, r)
  BY <1>1, <1>2 DEF DeliveryInv, WriteSteps
<1>5. SameDelivery(w, k) /\ k.pc \notin WriteSteps
  BY <1>2 DEF SameDelivery
<1>6. QED BY <1>2, <1>3, <1>4, <1>5, PlainLocalStep

\* The check between iterations preserves Inv (worker.py 225-245).
LEMMA CheckInv ==
    ASSUME Inv, NEW w \in Workers, Check(w)
    PROVE  Inv'
<1> DEFINE r == rec[worker[w].target]
<1>1. /\ stop' \in [Workers -> BOOLEAN] /\ faults' \in 0 .. MaxFaults
      /\ UNCHANGED <<rec, current, queue, disp>>
      /\ worker[w].pc = "check"
  BY DEF Check, Inv, TypeOK
<1>2. CASE GiveUp(w)
  BY <1>1, <1>2, GiveUpStep
<1>3. CASE r.cancelRequested /\ Raise(w, "cancelled")
  BY <1>1, <1>3, RaiseStep
<1>4. CASE Raise(w, "queued")
  BY <1>1, <1>4, RaiseStep
<1>5. CASE Goto(w, IF More(w) THEN "metric" ELSE "complete")
  <2>1. CASE More(w)
    BY <1>1, <1>5, <2>1, GotoStep DEF More, PCs, ReadSteps, WriteSteps
  <2>2. CASE ~More(w)
    BY <1>1, <1>5, <2>2, GotoStep DEF PCs, ReadSteps, WriteSteps
  <2>3. QED BY <2>1, <2>2
<1>6. QED BY <1>2, <1>3, <1>4, <1>5 DEF Check

\* A thread that owns the record at its read has claimed it.
LEMMA OwnerClaimed ==
    ASSUME Inv, NEW w \in Workers, worker[w].pc # "idle", Owns(w)
    PROVE  ClaimedBy(w, rec[worker[w].target])
BY Busy DEF Owns, OwnedBy, ClaimedBy, RecordInv, Records, Statuses, Terminal

\* Reading for an _owned mutation preserves Inv: the ETag it holds from now on stands for
\* a record that w claimed (worker.py 82-95).
LEMMA ReadInv ==
    ASSUME Inv, NEW w \in Workers, NEW step \in ReadSteps, Read(w, step)
    PROVE  Inv'
<1> DEFINE r == rec[worker[w].target]
           p == WriteStepOf(step)
           k == [worker[w] EXCEPT !.pc = p]
<1>1. /\ stop' \in [Workers -> BOOLEAN] /\ faults' \in 0 .. MaxFaults
      /\ UNCHANGED <<rec, queue, disp>>
      /\ worker[w].pc = step /\ worker[w].pc \notin {"idle", "settle"}
  BY DEF Read, Inv, TypeOK, ReadSteps
<1>2. CASE GiveUp(w) /\ UNCHANGED current
  BY <1>1, <1>2, GiveUpStep
<1>3. CASE CancelSeen(w) /\ Raise(w, "cancelled") /\ UNCHANGED current
  BY <1>1, <1>3, RaiseStep DEF CancelSeen
<1>4. CASE Owns(w) /\ ~CancelSeen(w) /\ Goto(w, p) /\ ReadBy(w, "main")
  <2>1. worker[w] \in WorkerStates /\ DeliveryInv(worker[w], r) /\ FreshInv(w, worker[w], r)
        /\ worker[w].target \in Experiments
    BY <1>1, Busy
  <2>2. /\ p \in PCs /\ p \in WriteSteps
        /\ p = "metricWrite" => step = "metric"
        /\ p = "completeWrite" => step = "complete"
        /\ p = "finishWrite" => step = "finish"
    BY DEF WriteStepOf, PCs, ReadSteps, WriteSteps
  <2>3. Become(w, k)
    BY <1>4 DEF Goto
  <2> HIDE DEF p
  <2>4. /\ k \in WorkerStates /\ k.pc = p
        /\ k.job = worker[w].job /\ k.target = worker[w].target /\ k.iter = worker[w].iter
        /\ k.verdict = worker[w].verdict /\ k.action = worker[w].action
        /\ k.refresh = worker[w].refresh
    BY <2>1, <2>2, GotoState
  <2> HIDE DEF k
  <2>5. DeliveryInv(k, r)
    BY <1>1, <2>1, <2>2, <2>4 DEF DeliveryInv, WriteSteps
  <2>6. SameDelivery(w, k)
    BY <1>1, <2>2, <2>4 DEF SameDelivery, WriteSteps
  <2>7. ClaimedBy(w, r) /\ (p = "completeWrite" => ~r.cancelRequested)
    BY <1>1, <1>4, <2>2, OwnerClaimed DEF CancelSeen
  <2>8. worker'[w] = k
    BY <2>3, <2>4, BecomeFacts DEF Inv
  <2>9. FreshInv(w, worker[w], rec[worker[w].target])'
    BY <1>1, <2>4, <2>7, <2>8 DEF FreshInv, Fresh, ClaimedBy
  <2>10. QED BY <1>1, <1>4, <2>3, <2>4, <2>5, <2>6, <2>9, LocalStep
<1>5. QED BY <1>2, <1>3, <1>4 DEF Read

\* What a landing upload of the main thread may do to the record.
LEMMA UploadFollows ==
    ASSUME Inv, NEW w \in Workers, worker[w].pc \in WriteSteps, Fresh(w, "main")
    PROVE  LET r == rec[worker[w].target]
           IN  /\ ClaimedBy(w, r)
               /\ worker[w].pc = "metricWrite" =>
                     Follows(r, MetricRecord(w)) /\ MetricRecord(w).dispatched = r.dispatched
               /\ worker[w].pc = "completeWrite" =>
                     /\ Follows(r, CompleteRecord(w))
                     /\ CompleteRecord(w).dispatched = r.dispatched
                     /\ Terminal(CompleteRecord(w))
               /\ worker[w].pc = "finishWrite" =>
                     /\ worker[w].verdict \in {"queued", "cancelled", "failed"}
                     /\ Follows(r, FinishRecord(w))
                     /\ FinishRecord(w).dispatched = r.dispatched
                     /\ worker[w].verdict # "queued" => Terminal(FinishRecord(w))
<1> DEFINE r == rec[worker[w].target]
           k == worker[w]
<1>1. /\ r \in Records /\ RecordInv(r) /\ k \in WorkerStates
      /\ DeliveryInv(k, r) /\ FreshInv(w, k, r)
  BY Busy DEF WriteSteps
<1>2. ClaimedBy(w, r) /\ (k.pc = "completeWrite" => ~r.cancelRequested)
  BY <1>1 DEF FreshInv, WriteSteps
<1>3. k.attempt \in Nat /\ k.iter \in Nat
  BY <1>1, IterationsAssumption DEF WorkerStates
<1>4. k.pc = "metricWrite" =>
        Follows(r, MetricRecord(w)) /\ MetricRecord(w).dispatched = r.dispatched
  BY <1>1, <1>3, Callbacks, CallbacksDispatched DEF MetricRecord
<1>5. k.pc = "completeWrite" =>
        /\ Follows(r, CompleteRecord(w))
        /\ CompleteRecord(w).dispatched = r.dispatched
        /\ Terminal(CompleteRecord(w))
  <2>1. Terminal(Completed(r, k.attempt))
    BY <1>1 DEF Completed, Terminal, TerminalStatuses, Records
  <2>2. QED BY <1>1, <1>2, <1>3, <2>1, Callbacks, CallbacksDispatched DEF CompleteRecord
<1>6. ASSUME k.pc = "finishWrite"
      PROVE  /\ k.verdict \in {"queued", "cancelled", "failed"}
             /\ Follows(r, FinishRecord(w))
             /\ FinishRecord(w).dispatched = r.dispatched
             /\ k.verdict # "queued" => Terminal(FinishRecord(w))
  <2>1. /\ k.verdict \in {"queued", "cancelled", "failed"}
        /\ k.verdict = "cancelled" => r.cancelRequested
    BY <1>1, <1>6 DEF DeliveryInv, WorkerStates
  <2>2. k.verdict # "queued" => Terminal(Finished(r, k.verdict))
    BY <1>1, <2>1 DEF Finished, Terminal, TerminalStatuses, Records
  <2>3. QED BY <1>1, <1>2, <2>1, <2>2, Callbacks, CallbacksDispatched DEF FinishRecord
<1>7. QED BY <1>2, <1>4, <1>5, <1>6

\* The upload of a metric preserves Inv (worker.py 117-155).
LEMMA WriteMetricInv ==
    ASSUME Inv, NEW w \in Workers, WriteMetric(w)
    PROVE  Inv'
<1> DEFINE r == MetricRecord(w)
           k == [worker[w] EXCEPT !.pc = "check", !.iter = @ + 1]
<1>1. /\ worker[w].pc = "metricWrite" /\ Fresh(w, "main")
      /\ Write(worker[w].target, r) /\ Become(w, k)
      /\ UNCHANGED <<queue, disp, stop, faults>>
  BY DEF WriteMetric, Upload
<1>2. worker[w] \in WorkerStates /\ DeliveryInv(worker[w], rec[worker[w].target])
  BY <1>1, Busy
<1>3. worker[w].iter + 1 \in 0 .. Iterations
  BY <1>1, <1>2, IterationsAssumption DEF DeliveryInv, WorkerStates
<1>4. /\ k \in WorkerStates /\ k.pc = "check"
      /\ k.job = worker[w].job /\ k.target = worker[w].target
      /\ k.verdict = worker[w].verdict /\ k.action = worker[w].action
  BY <1>2, <1>3 DEF WorkerStates, PCs
<1>5. Follows(rec[worker[w].target], r) /\ r.dispatched = rec[worker[w].target].dispatched
  BY <1>1, UploadFollows DEF WriteSteps
<1> HIDE DEF k, r
<1>6. DeliveryInv(k, r) /\ SameDelivery(w, k)
  BY <1>1, <1>2, <1>4, <1>5 DEF DeliveryInv, SameDelivery, Follows
<1>7. stop' \in [Workers -> BOOLEAN] /\ faults' \in 0 .. MaxFaults
  BY <1>1 DEF Inv, TypeOK
<1>8. QED BY <1>1, <1>4, <1>5, <1>6, <1>7, WriteStep

\* An attempt settles with its action once its last upload has landed.
LEMMA WriteLastStep ==
    ASSUME Inv, NEW w \in Workers, worker[w].pc \in WriteSteps,
           NEW r, Follows(rec[worker[w].target], r),
           r.dispatched = rec[worker[w].target].dispatched,
           Write(worker[w].target, r),
           NEW a \in {"ack", "abandon"}, a = "ack" => Terminal(r), SettleBy(w, a),
           UNCHANGED <<queue, disp, stop, faults>>
    PROVE  Inv'
<1> DEFINE k == [worker[w] EXCEPT !.pc = "settle", !.action = a]
<1>1. worker[w] \in WorkerStates /\ DeliveryInv(worker[w], rec[worker[w].target])
  BY Busy DEF WriteSteps
<1>2. /\ k \in WorkerStates /\ k.pc = "settle" /\ k.action = a
      /\ k.job = worker[w].job /\ k.target = worker[w].target
      /\ k.verdict = worker[w].verdict
  BY <1>1 DEF WorkerStates, PCs
<1>3. Become(w, k)
  BY DEF SettleBy
<1> HIDE DEF k
<1>4. DeliveryInv(k, r) /\ SameDelivery(w, k)
  BY <1>1, <1>2 DEF DeliveryInv, SameDelivery, Follows, WriteSteps
<1>5. stop' \in [Workers -> BOOLEAN] /\ faults' \in 0 .. MaxFaults
  BY DEF Inv, TypeOK
<1>6. QED BY <1>2, <1>3, <1>4, <1>5, WriteStep

\* The upload of a completion preserves Inv (worker.py 268-281).
LEMMA WriteCompleteInv ==
    ASSUME Inv, NEW w \in Workers, WriteComplete(w)
    PROVE  Inv'
<1> DEFINE r == CompleteRecord(w)
<1>1. /\ worker[w].pc = "completeWrite" /\ worker[w].pc \in WriteSteps /\ Fresh(w, "main")
      /\ Write(worker[w].target, r) /\ SettleBy(w, "ack")
      /\ UNCHANGED <<queue, disp, stop, faults>>
  BY DEF WriteComplete, Upload, WriteSteps
<1>2. QED BY <1>1, UploadFollows, WriteLastStep

\* The upload of another verdict preserves Inv (worker.py 331-345).
LEMMA WriteFinishInv ==
    ASSUME Inv, NEW w \in Workers, WriteFinish(w)
    PROVE  Inv'
<1> DEFINE r == FinishRecord(w)
           a == FinishAction(worker[w].verdict)
<1>1. /\ worker[w].pc = "finishWrite" /\ worker[w].pc \in WriteSteps /\ Fresh(w, "main")
      /\ Write(worker[w].target, r) /\ SettleBy(w, a)
      /\ UNCHANGED <<queue, disp, stop, faults>>
  BY DEF WriteFinish, Upload, WriteSteps
<1>2. a \in {"ack", "abandon"} /\ (a = "ack" => worker[w].verdict # "queued")
  BY DEF FinishAction
<1> HIDE DEF r, a
<1>3. QED BY <1>1, <1>2, UploadFollows, WriteLastStep DEF r

\* Starting a mutation over preserves Inv (repositories.py 188-190).
LEMMA RetryInv ==
    ASSUME Inv, NEW w \in Workers, Retry(w)
    PROVE  Inv'
<1> DEFINE p == ReadStepOf(worker[w].pc)
<1>1. /\ worker[w].pc \in WriteSteps /\ worker[w].pc \notin {"idle", "settle"} /\ Goto(w, p)
      /\ UNCHANGED <<rec, current, queue, disp>>
      /\ stop' \in [Workers -> BOOLEAN] /\ faults' \in 0 .. MaxFaults
  BY DEF Retry, WriteSteps, Inv, TypeOK
<1>2. DeliveryInv(worker[w], rec[worker[w].target])
  BY <1>1, Busy
<1>3. /\ p \in PCs /\ p \notin {"idle", "received", "claim"} \cup WriteSteps
      /\ p = "metric" => worker[w].pc = "metricWrite"
      /\ p = "finish" => worker[w].pc = "finishWrite"
  BY <1>1 DEF ReadStepOf, WriteSteps, ReadSteps, PCs
<1>4. /\ p = "metric" => worker[w].iter < Iterations
      /\ p = "finish" => worker[w].verdict # "none"
  BY <1>2, <1>3 DEF DeliveryInv
<1> HIDE DEF p
<1>5. QED BY <1>1, <1>3, <1>4, GotoStep

-----------------------------------------------------------------------------
\* The lease renewer and the settlement of a delivery.

\* Only a delivery has a renewer.
LEMMA RenewerBusy ==
    ASSUME Inv, NEW w \in Workers, worker[w].refresh # "off"
    PROVE  worker[w].pc \notin {"idle", "received", "claim"}
<1>1. worker[w].pc # "idle"
  BY DEF Inv, WorkerInv, IdleWorker
<1>2. QED BY <1>1, Busy DEF DeliveryInv

\* The state k of a delivery can take the place of w's present one.
Continues(w, k) ==
    /\ k \in WorkerStates
    /\ SameDelivery(w, k)
    /\ DeliveryInv(k, rec[worker[w].target])
    /\ k.pc \in WriteSteps => k.pc = worker[w].pc
    /\ k.refresh = "write" => worker[w].refresh = "write"

\* The states a refresh leads to can take the place of the present one.
LEMMA RefreshContinues ==
    ASSUME Inv, NEW w \in Workers, worker[w].refresh # "off", worker[w].pc # "settle",
           NEW f \in {"off", "due", "lease"}
    PROVE  /\ Continues(w, [worker[w] EXCEPT !.refresh = f])
           /\ Continues(w, [worker[w] EXCEPT !.lost = TRUE, !.refresh = "off"])
           /\ Continues(w, [worker[w] EXCEPT !.pc = "settle", !.refresh = "off"])
<1> DEFINE r == rec[worker[w].target]
<1>1. /\ worker[w] \in WorkerStates /\ DeliveryInv(worker[w], r)
      /\ worker[w].pc \notin {"idle", "received", "claim"}
  BY RenewerBusy, Busy
<1>2. ASSUME NEW k \in WorkerStates, k.pc \in {worker[w].pc, "settle"}, k.refresh # "write",
             k.job = worker[w].job, k.target = worker[w].target, k.iter = worker[w].iter,
             k.verdict = worker[w].verdict, k.action = worker[w].action
      PROVE  Continues(w, k)
  <2>1. SameDelivery(w, k)
    BY <1>1, <1>2 DEF SameDelivery
  <2>2. DeliveryInv(k, r)
    BY <1>1, <1>2 DEF DeliveryInv
  <2>3. QED BY <1>1, <1>2, <2>1, <2>2 DEF Continues, WriteSteps
<1>3. Continues(w, [worker[w] EXCEPT !.refresh = f])
  <2> DEFINE k == [worker[w] EXCEPT !.refresh = f]
  <2>1. /\ k \in WorkerStates /\ k.pc = worker[w].pc /\ k.refresh = f
        /\ k.job = worker[w].job /\ k.target = worker[w].target /\ k.iter = worker[w].iter
        /\ k.verdict = worker[w].verdict /\ k.action = worker[w].action
    BY <1>1 DEF WorkerStates
  <2> HIDE DEF k
  <2>2. Continues(w, k)
    BY <1>2, <2>1
  <2>3. QED BY <2>2 DEF k
<1>4. Continues(w, [worker[w] EXCEPT !.lost = TRUE, !.refresh = "off"])
  <2> DEFINE k == [worker[w] EXCEPT !.lost = TRUE, !.refresh = "off"]
  <2>1. /\ k \in WorkerStates /\ k.pc = worker[w].pc /\ k.refresh = "off"
        /\ k.job = worker[w].job /\ k.target = worker[w].target /\ k.iter = worker[w].iter
        /\ k.verdict = worker[w].verdict /\ k.action = worker[w].action
    BY <1>1 DEF WorkerStates
  <2> HIDE DEF k
  <2>2. Continues(w, k)
    BY <1>2, <2>1
  <2>3. QED BY <2>2 DEF k
<1>5. Continues(w, [worker[w] EXCEPT !.pc = "settle", !.refresh = "off"])
  <2> DEFINE k == [worker[w] EXCEPT !.pc = "settle", !.refresh = "off"]
  <2>1. /\ k \in WorkerStates /\ k.pc = "settle" /\ k.refresh = "off"
        /\ k.job = worker[w].job /\ k.target = worker[w].target /\ k.iter = worker[w].iter
        /\ k.verdict = worker[w].verdict /\ k.action = worker[w].action
    BY <1>1 DEF WorkerStates, PCs
  <2> HIDE DEF k
  <2>2. Continues(w, k)
    BY <1>2, <2>1
  <2>3. QED BY <2>2 DEF k
<1>6. QED BY <1>3, <1>4, <1>5

\* A failed refresh ends the renewer or the delivery (worker.py 43-55).
LEMMA RefreshFailedContinues ==
    ASSUME Inv, NEW w \in Workers, worker[w].refresh # "off", worker[w].pc # "settle",
           RefreshFailed(w)
    PROVE  \E k : Continues(w, k) /\ Become(w, k)
BY RefreshContinues DEF RefreshFailed

\* A delivery that goes on by itself preserves Inv.
LEMMA ContinueStep ==
    ASSUME Inv, NEW w \in Workers, NEW k, Continues(w, k), Become(w, k),
           UNCHANGED <<rec, current, queue, disp>>,
           stop' \in [Workers -> BOOLEAN], faults' \in 0 .. MaxFaults
    PROVE  Inv'
BY PlainLocalStep DEF Continues

\* A message keeps its experiment and stays in the queue; its receipt may go.
LEMMA ReceiptStep ==
    ASSUME Inv, NEW w \in Workers, NEW k, Continues(w, k), Become(w, k), HoldsReceipt(w),
           NEW q \in QueueEntries, q.state = "hidden", q.holder \in {w, NoWorker},
           q.exp = queue[worker[w].job].exp,
           queue' = [queue EXCEPT ![worker[w].job] = q],
           UNCHANGED <<rec, current, disp>>,
           stop' \in [Workers -> BOOLEAN], faults' \in 0 .. MaxFaults
    PROVE  Inv'
<1> DEFINE j == worker[w].job
<1>1. /\ worker' \in [Workers -> WorkerStates]
      /\ worker'[w] = k
      /\ \A x \in Workers \ {w} : worker'[x] = worker[x]
  BY BecomeFacts DEF Inv, Continues
<1>2. /\ j \in Messages
      /\ queue' \in [Messages -> QueueEntries]
      /\ queue'[j] = q
      /\ \A m \in Messages \ {j} : queue'[m] = queue[m]
  BY DEF Inv, TypeOK, HoldsReceipt
<1>3. queue[j].state # "free"
  BY <1>2 DEF Inv, MessageInv, HoldsReceipt
<1>4. WorkerInv(w)'
  <2>1. FreshInv(w, worker[w], rec[worker[w].target])'
    BY FreshKept DEF Continues
  <2>2. QED BY <1>1, <2>1 DEF WorkerInv, Continues, SameDelivery, DeliveryInv, Exists, Terminal
<1>5. ASSUME NEW m \in Messages PROVE MessageInv(m)'
  <2>1. MessageInv(m) /\ MessageInv(j)
    BY <1>2 DEF Inv
  <2>2. queue'[m].exp = queue[m].exp /\ (queue'[m].state # "free" <=> queue[m].state # "free")
    BY <1>2, <1>3
  <2>3. \A x \in Workers : queue'[m].holder = x => queue[m].holder = x
    BY <1>2, NoWorkerAssumption DEF HoldsReceipt
  <2>4. \A x \in Workers : worker[x].pc # "idle" =>
            /\ worker'[x].pc # "idle"
            /\ worker'[x].job = worker[x].job
            /\ worker'[x].target = worker[x].target
    BY <1>1 DEF Continues, SameDelivery
  <2>5. QED BY <2>1, <2>2, <2>3, <2>4 DEF MessageInv, Exists
<1>6. \A e \in Experiments : InQueue(e) => InQueue(e)'
  BY <1>2, <1>3 DEF InQueue
<1>7. disp' \in [Dispatchers -> Dispatches] /\ \A t \in Dispatchers : disp'[t] = disp[t]
  BY DEF Inv, TypeOK
<1>8. QED BY <1>1, <1>2, <1>4, <1>5, <1>6, <1>7, QueueStep

\* Renewing the message preserves Inv (worker.py 188-189, queueing.py 104-110).
LEMMA RefreshQueueInv ==
    ASSUME Inv, NEW w \in Workers, RefreshQueue(w)
    PROVE  Inv'
<1> DEFINE j == worker[w].job
           k == [worker[w] EXCEPT !.refresh = "lease"]
           q == [queue[j] EXCEPT !.state = "hidden"]
<1>1. /\ worker[w].refresh # "off" /\ worker[w].pc # "settle"
      /\ UNCHANGED <<rec, current, disp>>
      /\ stop' \in [Workers -> BOOLEAN] /\ faults' \in 0 .. MaxFaults
  BY DEF RefreshQueue, Inv, TypeOK
<1>2. CASE ~HoldsReceipt(w)
  <2>1. UNCHANGED queue /\ \E k1 : Continues(w, k1) /\ Become(w, k1)
    BY <1>1, <1>2, RefreshFailedContinues DEF RefreshQueue
  <2>2. QED BY <1>1, <2>1, ContinueStep
<1>3. CASE HoldsReceipt(w)
  <2>1. Continues(w, k) /\ Become(w, k)
    BY <1>1, <1>3, RefreshContinues DEF RefreshQueue
  <2>2. /\ q \in QueueEntries /\ q.state = "hidden" /\ q.holder = w /\ q.exp = queue[j].exp
        /\ queue' = [queue EXCEPT ![j] = q]
    BY <1>3 DEF RefreshQueue, HoldsReceipt, Inv, TypeOK, QueueEntries
  <2> HIDE DEF k, q
  <2>3. QED BY <1>1, <1>3, <2>1, <2>2, ReceiptStep
<1>4. QED BY <1>2, <1>3

\* Reading the record to renew its lease preserves Inv (worker.py 190-193).
LEMMA ReadLeaseInv ==
    ASSUME Inv, NEW w \in Workers, ReadLease(w)
    PROVE  Inv'
<1> DEFINE r == rec[worker[w].target]
           k == [worker[w] EXCEPT !.refresh = "write"]
<1>1. /\ worker[w].refresh # "off" /\ worker[w].pc \notin {"idle", "received", "claim"}
      /\ UNCHANGED <<rec, queue, disp>>
      /\ stop' \in [Workers -> BOOLEAN] /\ faults' \in 0 .. MaxFaults
  BY RenewerBusy DEF ReadLease, Inv, TypeOK
<1>2. CASE ~Owns(w)
  <2>1. RefreshFailed(w) /\ UNCHANGED current
    BY <1>2 DEF ReadLease
  <2>2. CASE worker[w].pc # "settle"
    <3>1. \E k1 : Continues(w, k1) /\ Become(w, k1)
      BY <1>1, <2>1, <2>2, RefreshFailedContinues
    <3>2. QED BY <1>1, <2>1, <3>1, ContinueStep
  <2>3. CASE worker[w].pc = "settle"
    <3> DEFINE k1 == [worker[w] EXCEPT !.lost = TRUE, !.refresh = "off"]
    <3>1. Become(w, k1)
      BY <2>1, <2>3 DEF RefreshFailed
    <3>2. worker[w] \in WorkerStates /\ DeliveryInv(worker[w], r)
      BY <1>1, Busy
    <3>3. /\ k1 \in WorkerStates /\ k1.pc = worker[w].pc /\ k1.refresh = "off"
          /\ k1.job = worker[w].job /\ k1.target = worker[w].target
          /\ k1.iter = worker[w].iter
          /\ k1.verdict = worker[w].verdict /\ k1.action = worker[w].action
      BY <3>2 DEF WorkerStates
    <3> HIDE DEF k1
    <3>4. SameDelivery(w, k1) /\ DeliveryInv(k1, r)
      BY <1>1, <3>2, <3>3 DEF DeliveryInv, SameDelivery
    <3>5. Continues(w, k1)
      BY <3>3, <3>4 DEF Continues
    <3>6. QED BY <1>1, <2>1, <3>1, <3>5, ContinueStep
  <2>4. QED BY <2>2, <2>3
<1>3. CASE Owns(w)
  <2>1. Become(w, k) /\ ReadBy(w, "renewer")
    BY <1>3 DEF ReadLease
  <2>2. worker[w] \in WorkerStates /\ DeliveryInv(worker[w], r) /\ FreshInv(w, worker[w], r)
        /\ worker[w].target \in Experiments
    BY <1>1, Busy
  <2>3. /\ k \in WorkerStates /\ k.pc = worker[w].pc /\ k.refresh = "write"
        /\ k.job = worker[w].job /\ k.target = worker[w].target /\ k.iter = worker[w].iter
        /\ k.verdict = worker[w].verdict /\ k.action = worker[w].action
    BY <2>2 DEF WorkerStates
  <2> HIDE DEF k
  <2>4. SameDelivery(w, k) /\ DeliveryInv(k, r)
    BY <1>1, <2>2, <2>3 DEF DeliveryInv, SameDelivery
  <2>5. ClaimedBy(w, r)
    BY <1>1, <1>3, OwnerClaimed
  <2>6. worker'[w] = k
    BY <2>1, <2>3, BecomeFacts DEF Inv
  <2>7. <<w, "main">> \in current'[worker[w].target] => Fresh(w, "main")
    BY <2>1, <2>2 DEF ReadBy, Fresh, Inv, TypeOK
  <2>8. FreshInv(w, worker[w], rec[worker[w].target])'
    BY <1>1, <2>2, <2>3, <2>5, <2>6, <2>7 DEF FreshInv, Fresh, ClaimedBy
  <2>9. QED BY <1>1, <2>1, <2>3, <2>4, <2>8, LocalStep
<1>4. QED BY <1>2, <1>3

\* What the renewal of the lease may do to the record.
LEMMA RenewalFollows ==
    ASSUME Inv, NEW w \in Workers, worker[w].refresh = "write", Fresh(w, "renewer")
    PROVE  LET r == rec[worker[w].target]
           IN  /\ Follows(r, Renewed(r))
               /\ Renewed(r).dispatched = r.dispatched
               /\ \A k : DeliveryInv(k, r) => DeliveryInv(k, Renewed(r))
<1> DEFINE r == rec[worker[w].target]
<1>1. worker[w].pc # "idle"
  BY RenewerBusy
<1>2. r \in Records /\ RecordInv(r) /\ FreshInv(w, worker[w], r)
  BY <1>1, Busy
<1>3. ClaimedBy(w, r)
  BY <1>2 DEF FreshInv
<1>4. Follows(r, Renewed(r)) /\ Renewed(r).dispatched = r.dispatched
  BY <1>2, <1>3, Callbacks, CallbacksDispatched
<1>5. ASSUME NEW k, DeliveryInv(k, r) PROVE DeliveryInv(k, Renewed(r))
  BY <1>4, <1>5 DEF Follows, DeliveryInv
<1>6. QED BY <1>4, <1>5

\* Renewing the lease preserves Inv (worker.py 193-199).
LEMMA WriteLeaseInv ==
    ASSUME Inv, NEW w \in Workers, WriteLease(w)
    PROVE  Inv'
<1> DEFINE r == rec[worker[w].target]
           p == Entered(worker[w].pc, worker[w].verdict)
           k == [worker[w] EXCEPT !.refresh = "due", !.pc = p]
<1>1. /\ worker[w].refresh = "write" /\ Fresh(w, "renewer")
      /\ Write(worker[w].target, Renewed(r)) /\ Become(w, k)
      /\ UNCHANGED <<queue, disp>>
      /\ stop' \in [Workers -> BOOLEAN] /\ faults' \in 0 .. MaxFaults
      /\ worker[w].pc \notin {"idle", "received", "claim"}
  BY RenewerBusy DEF WriteLease, Inv, TypeOK
<1>2. worker[w] \in WorkerStates /\ DeliveryInv(worker[w], r)
  BY <1>1, Busy
<1>3. /\ p \in PCs
      /\ p = worker[w].pc \/ (p = "check" /\ worker[w].pc = "enter")
         \/ (p = "finish" /\ worker[w].verdict # "none" /\ worker[w].pc = "enter")
  BY <1>2 DEF Entered, WorkerStates, PCs, ReadSteps
<1> HIDE DEF p
<1>4. /\ k \in WorkerStates /\ k.pc = p
      /\ k.job = worker[w].job /\ k.target = worker[w].target /\ k.iter = worker[w].iter
      /\ k.verdict = worker[w].verdict /\ k.action = worker[w].action
  BY <1>2, <1>3 DEF WorkerStates
<1> HIDE DEF k
<1>5. DeliveryInv(k, r) /\ SameDelivery(w, k)
  BY <1>1, <1>2, <1>3, <1>4 DEF DeliveryInv, SameDelivery
<1>6. QED BY <1>1, <1>4, <1>5, RenewalFollows, WriteStep

\* Starting the renewal over preserves Inv (repositories.py 188-190).
LEMMA RetryLeaseInv ==
    ASSUME Inv, NEW w \in Workers, RetryLease(w)
    PROVE  Inv'
<1> DEFINE r == rec[worker[w].target]
           k == [worker[w] EXCEPT !.refresh = "lease"]
<1>1. /\ Become(w, k)
      /\ UNCHANGED <<rec, current, queue, disp>>
      /\ stop' \in [Workers -> BOOLEAN] /\ faults' \in 0 .. MaxFaults
      /\ worker[w].pc \notin {"idle", "received", "claim"}
  BY RenewerBusy DEF RetryLease, Inv, TypeOK
<1>2. worker[w] \in WorkerStates /\ DeliveryInv(worker[w], r)
  BY <1>1, Busy
<1>3. /\ k \in WorkerStates /\ k.pc = worker[w].pc /\ k.refresh = "lease"
      /\ k.job = worker[w].job /\ k.target = worker[w].target /\ k.iter = worker[w].iter
      /\ k.verdict = worker[w].verdict /\ k.action = worker[w].action
  BY <1>2 DEF WorkerStates
<1> HIDE DEF k
<1>4. DeliveryInv(k, r) /\ SameDelivery(w, k)
  BY <1>1, <1>2, <1>3 DEF DeliveryInv, SameDelivery
<1>5. QED BY <1>1, <1>3, <1>4, PlainLocalStep

\* A refresh that raises, before or after it took effect, preserves Inv.
LEMMA RefreshFailsInv ==
    ASSUME Inv, NEW w \in Workers, RefreshFails(w)
    PROVE  Inv'
<1> DEFINE r == rec[worker[w].target]
           j == worker[w].job
           q == [queue[j] EXCEPT !.state = "hidden", !.holder = NoWorker]
<1>1. /\ worker[w].refresh # "off" /\ worker[w].pc # "settle"
      /\ UNCHANGED disp
      /\ stop' \in [Workers -> BOOLEAN] /\ faults' \in 0 .. MaxFaults
  BY MaxFaultsAssumption DEF RefreshFails, Fault, Inv, TypeOK
<1>2. PICK k : Continues(w, k) /\ Become(w, k)
  BY <1>1, RefreshFailedContinues DEF RefreshFails
<1>3. CASE UNCHANGED <<rec, current, queue>>
  BY <1>1, <1>2, <1>3, ContinueStep
<1>4. CASE /\ HoldsReceipt(w) /\ UNCHANGED <<rec, current>>
           /\ queue' = [queue EXCEPT ![j].state = "hidden", ![j].holder = NoWorker]
  <2>1. queue[j] \in QueueEntries /\ queue' = [queue EXCEPT ![j] = q]
    BY <1>4 DEF HoldsReceipt, Inv, TypeOK
  <2>2. q \in QueueEntries /\ q.state = "hidden" /\ q.holder = NoWorker /\ q.exp = queue[j].exp
    BY <2>1 DEF QueueEntries
  <2> HIDE DEF q
  <2>3. QED BY <1>1, <1>2, <1>4, <2>1, <2>2, ReceiptStep
<1>5. CASE /\ worker[w].refresh = "write" /\ Fresh(w, "renewer")
           /\ Write(worker[w].target, Renewed(r)) /\ UNCHANGED queue
  BY <1>1, <1>2, <1>5, RenewalFollows, WriteStep DEF Continues
<1>6. QED BY <1>3, <1>4, <1>5 DEF RefreshFails

-----------------------------------------------------------------------------
\* Ends and beginnings of deliveries.

\* A message after its delivery ended: nobody holds it, and it is still in the queue
\* unless it was acknowledged.
Released(m) ==
    /\ queue'[m].holder = NoWorker
    /\ \/ queue'[m].exp = queue[m].exp /\ (queue'[m].state # "free" <=> queue[m].state # "free")
       \/ queue'[m].state = "free" /\ Terminal(rec[queue[m].exp])

\* A delivery that ends and gives its receipt back, or loses it, preserves Inv.
LEMMA DeliveryEnds ==
    ASSUME Inv, NEW w \in Workers, Become(w, IdleWorker), UNCHANGED <<rec, current>>,
           queue' \in [Messages -> QueueEntries],
           \A m \in Messages : Released(m) \/ (queue[m].holder # w /\ queue'[m] = queue[m]),
           disp' \in [Dispatchers -> Dispatches],
           \A t \in Dispatchers : disp'[t] \in {disp[t], NotDispatching},
           stop' \in [Workers -> BOOLEAN], faults' \in 0 .. MaxFaults
    PROVE  Inv'
<1>1. IdleWorker \in WorkerStates
  BY IterationsAssumption DEF IdleWorker, WorkerStates, PCs
<1>2. /\ worker' \in [Workers -> WorkerStates]
      /\ worker'[w] = IdleWorker
      /\ \A x \in Workers \ {w} : worker'[x] = worker[x]
  BY <1>1, BecomeFacts DEF Inv
<1>3. WorkerInv(w)'
  BY <1>2 DEF WorkerInv, IdleWorker
<1>4. ASSUME NEW m \in Messages PROVE MessageInv(m)'
  <2>1. MessageInv(m)
    BY DEF Inv
  <2>2. CASE Released(m)
    BY <2>1, <2>2, NoWorkerAssumption DEF MessageInv, Released, Exists
  <2>3. CASE queue[m].holder # w /\ queue'[m] = queue[m]
    BY <1>2, <2>1, <2>3 DEF MessageInv, Exists
  <2>4. QED BY <2>2, <2>3
<1>5. \A t \in Dispatchers : disp'[t] = disp[t] \/ DispatchInv(t)'
  BY DEF DispatchInv, NotDispatching
<1>6. \A e \in Experiments : InQueue(e) => InQueue(e)' \/ Terminal(rec[e])
  <2> SUFFICES ASSUME NEW e \in Experiments, NEW m \in Messages,
                      queue[m].state # "free", queue[m].exp = e
               PROVE  InQueue(e)' \/ Terminal(rec[e])
    BY DEF InQueue
  <2>1. CASE Released(m)
    BY <2>1 DEF Released, InQueue
  <2>2. CASE queue'[m] = queue[m]
    BY <2>2 DEF InQueue
  <2>3. QED BY <2>1, <2>2
<1>7. QED BY <1>2, <1>3, <1>4, <1>5, <1>6, QueueStep

\* A worker without a valid receipt holds no message at all.
LEMMA OneReceipt ==
    ASSUME Inv, NEW w \in Workers, NEW m \in Messages, queue[m].holder = w
    PROVE  HoldsReceipt(w) /\ worker[w].job = m /\ worker[w].pc # "idle"
           /\ queue[m].state # "free" /\ worker[w].target = queue[m].exp
BY DEF Inv, MessageInv, HoldsReceipt

\* Settling preserves Inv: only messages of ended experiments leave the queue
\* (worker.py 357-367).
LEMMA SettleInv ==
    ASSUME Inv, NEW w \in Workers, Settle(w)
    PROVE  Inv'
<1> DEFINE j == worker[w].job
           a == worker[w].action
<1>1. /\ worker[w].pc = "settle" /\ Become(w, IdleWorker)
      /\ UNCHANGED <<rec, current, disp>>
      /\ disp' \in [Dispatchers -> Dispatches]
      /\ stop' \in [Workers -> BOOLEAN] /\ faults' \in 0 .. MaxFaults
      /\ queue \in [Messages -> QueueEntries]
  BY DEF Settle, Joined, Inv, TypeOK
<1>2. DeliveryInv(worker[w], rec[worker[w].target]) /\ worker[w] \in WorkerStates
  BY <1>1, Busy
<1>3. CASE ~HoldsReceipt(w)
  <2>1. queue' = queue /\ \A m \in Messages : queue[m].holder # w
    BY <1>3, OneReceipt DEF Settle
  <2>2. QED BY <1>1, <2>1, DeliveryEnds
<1>4. CASE HoldsReceipt(w)
  <2>1. j \in Messages /\ queue[j].holder = w /\ queue[j] \in QueueEntries
        /\ queue[j].state # "free" /\ worker[w].target = queue[j].exp
    BY <1>1, <1>4, OneReceipt DEF HoldsReceipt
  <2>2. queue' = [queue EXCEPT ![j] = Settled(j, a)]
    BY <1>4 DEF Settle
  <2>3. CASE a = "ack"
    <3>1. Settled(j, a) = FreeSlot /\ Terminal(rec[queue[j].exp])
      BY <1>2, <2>1, <2>3 DEF Settled, DeliveryInv
    <3>2. FreeSlot \in QueueEntries
      BY DEF FreeSlot, QueueEntries
    <3>3. queue' \in [Messages -> QueueEntries] /\ queue'[j] = FreeSlot
          /\ \A m \in Messages \ {j} : queue'[m] = queue[m]
      BY <1>1, <2>1, <2>2, <3>1, <3>2
    <3>4. Released(j)
      BY <3>1, <3>3 DEF Released, FreeSlot
    <3>5. \A m \in Messages \ {j} : queue[m].holder # w
      BY OneReceipt
    <3>6. QED BY <1>1, <3>3, <3>4, <3>5, DeliveryEnds
  <2>4. CASE a \in {"none", "abandon"}
    <3> DEFINE q == Settled(j, a)
    <3>1. /\ q \in QueueEntries /\ q.holder = NoWorker /\ q.exp = queue[j].exp
          /\ q.state # "free"
      BY <2>1, <2>4 DEF Settled, QueueEntries
    <3> HIDE DEF q
    <3>2. queue' \in [Messages -> QueueEntries] /\ queue'[j] = q
          /\ \A m \in Messages \ {j} : queue'[m] = queue[m]
      BY <1>1, <2>1, <2>2, <3>1 DEF q
    <3>3. Released(j)
      BY <2>1, <3>1, <3>2 DEF Released
    <3>4. \A m \in Messages \ {j} : queue[m].holder # w
      BY OneReceipt
    <3>5. QED BY <1>1, <3>2, <3>3, <3>4, DeliveryEnds
  <2>5. QED BY <1>2, <2>3, <2>4 DEF WorkerStates
<1>5. QED BY <1>3, <1>4

\* A settling call that fails preserves Inv (worker.py 359-365).
LEMMA SettleFailsInv ==
    ASSUME Inv, NEW w \in Workers, SettleFails(w)
    PROVE  Inv'
<1> DEFINE j == worker[w].job
           q == [queue[j] EXCEPT !.holder = NoWorker]
<1>1. /\ Become(w, IdleWorker) /\ HoldsReceipt(w)
      /\ UNCHANGED <<rec, current, disp>>
      /\ disp' \in [Dispatchers -> Dispatches]
      /\ stop' \in [Workers -> BOOLEAN] /\ faults' \in 0 .. MaxFaults
      /\ queue \in [Messages -> QueueEntries]
  BY MaxFaultsAssumption DEF SettleFails, Fault, Inv, TypeOK
<1>2. /\ j \in Messages /\ queue[j].holder = w /\ queue[j] \in QueueEntries
      /\ queue[j].state # "free"
  BY <1>1, OneReceipt DEF HoldsReceipt
<1>3. queue' = [queue EXCEPT ![j] = q]
  BY DEF SettleFails
<1>4. q \in QueueEntries /\ q.holder = NoWorker /\ q.exp = queue[j].exp /\ q.state # "free"
  BY <1>2 DEF QueueEntries
<1> HIDE DEF q
<1>5. queue' \in [Messages -> QueueEntries] /\ queue'[j] = q
      /\ \A m \in Messages \ {j} : queue'[m] = queue[m]
  BY <1>1, <1>2, <1>3, <1>4
<1>6. Released(j)
  BY <1>2, <1>4, <1>5 DEF Released
<1>7. \A m \in Messages \ {j} : queue[m].holder # w
  BY OneReceipt
<1>8. QED BY <1>1, <1>5, <1>6, <1>7, DeliveryEnds

\* A crash preserves Inv: receipts are lost, messages are not.
LEMMA CrashInv ==
    ASSUME Inv, NEW w \in Workers, Crash(w)
    PROVE  Inv'
<1>1. /\ Become(w, IdleWorker) /\ UNCHANGED <<rec, current>>
      /\ stop' \in [Workers -> BOOLEAN] /\ faults' \in 0 .. MaxFaults
      /\ queue \in [Messages -> QueueEntries]
  BY MaxFaultsAssumption DEF Crash, Fault, Inv, TypeOK
<1>2. disp' \in [Dispatchers -> Dispatches]
  BY DEF Crash, Inv, TypeOK, Dispatches, NotDispatching
<1>3. \A t \in Dispatchers : disp'[t] \in {disp[t], NotDispatching}
  BY DEF Crash, Inv, TypeOK
<1>4. ASSUME NEW m \in Messages
      PROVE  /\ queue'[m] \in QueueEntries
             /\ Released(m) \/ (queue[m].holder # w /\ queue'[m] = queue[m])
  <2>1. CASE queue[m].holder = w
    <3>1. queue'[m] = [queue[m] EXCEPT !.holder = NoWorker] /\ queue[m] \in QueueEntries
      BY <1>1, <2>1 DEF Crash
    <3>2. QED BY <3>1 DEF Released, QueueEntries
  <2>2. CASE queue[m].holder # w
    BY <1>1, <2>2 DEF Crash
  <2>3. QED BY <2>1, <2>2
<1>5. queue' \in [Messages -> QueueEntries]
  <2>1. queue' = [m \in Messages |-> queue'[m]]
    BY DEF Crash
  <2>2. QED BY <1>4, <2>1
<1>6. QED BY <1>1, <1>2, <1>3, <1>4, <1>5, DeliveryEnds

\* The state of a delivery that starts (worker.py 171-180).
LEMMA ReceivingState ==
    ASSUME NEW m \in Messages, NEW e \in Experiments
    PROVE  LET q == Receiving(IdleWorker, m, e)
           IN  /\ q \in WorkerStates
               /\ q.pc = "received" /\ q.job = m /\ q.target = e
               /\ q.verdict = "none" /\ q.action = "none" /\ q.refresh = "off"
<1> DEFINE k1 == [IdleWorker EXCEPT !.pc = "received", !.job = m]
           k2 == [k1 EXCEPT !.target = e]
<1>1. Receiving(IdleWorker, m, e) = k2
  BY DEF Receiving, IdleWorker
<1>2. IdleWorker \in WorkerStates /\ IdleWorker.verdict = "none"
      /\ IdleWorker.action = "none" /\ IdleWorker.refresh = "off"
  BY IterationsAssumption DEF IdleWorker, WorkerStates, PCs
<1> HIDE DEF IdleWorker
<1>3. /\ k1 \in WorkerStates
      /\ k1.pc = "received" /\ k1.job = m
      /\ k1.verdict = "none" /\ k1.action = "none" /\ k1.refresh = "off"
  BY <1>2 DEF WorkerStates, PCs
<1> HIDE DEF k1
<1>4. /\ k2 \in WorkerStates
      /\ k2.pc = "received" /\ k2.job = m /\ k2.target = e
      /\ k2.verdict = "none" /\ k2.action = "none" /\ k2.refresh = "off"
  BY <1>3 DEF WorkerStates
<1>5. QED BY <1>1, <1>4

\* Receiving a message preserves Inv: its former receipt becomes invalid (queueing.py 82-94).
LEMMA ReceiveInv ==
    ASSUME Inv, NEW w \in Workers, NEW j \in Messages, Receive(w, j)
    PROVE  Inv'
<1> DEFINE e == queue[j].exp
           k == Receiving(worker[w], j, e)
           q == [queue[j] EXCEPT !.state = "hidden", !.holder = w]
<1>1. /\ worker[w].pc = "idle" /\ queue[j].state = "visible"
      /\ queue' = [queue EXCEPT ![j].state = "hidden", ![j].holder = w]
      /\ Become(w, k) /\ UNCHANGED <<rec, current, disp, stop, faults>>
  BY DEF Receive
<1>2. /\ queue \in [Messages -> QueueEntries] /\ queue[j] \in QueueEntries
      /\ e \in Experiments /\ Exists(rec[e])
      /\ worker[w] = IdleWorker
  BY <1>1 DEF Inv, TypeOK, MessageInv, WorkerInv
<1>3. q \in QueueEntries /\ q.state = "hidden" /\ q.holder = w /\ q.exp = e
  BY <1>2 DEF QueueEntries
<1>4. queue' = [queue EXCEPT ![j] = q]
  BY <1>1, <1>2
<1> HIDE DEF q
<1>5. queue' \in [Messages -> QueueEntries] /\ queue'[j] = q
      /\ \A m \in Messages \ {j} : queue'[m] = queue[m]
  BY <1>2, <1>3, <1>4
<1>6. /\ k \in WorkerStates /\ k.pc = "received" /\ k.job = j /\ k.target = e
      /\ k.verdict = "none" /\ k.action = "none" /\ k.refresh = "off"
  BY <1>2, ReceivingState
<1> HIDE DEF k
<1>7. /\ worker' \in [Workers -> WorkerStates]
      /\ worker'[w] = k
      /\ \A x \in Workers \ {w} : worker'[x] = worker[x]
  BY <1>1, <1>6, BecomeFacts DEF Inv
<1>8. WorkerInv(w)'
  <2>1. DeliveryInv(worker[w], rec[worker[w].target])'
    BY <1>1, <1>2, <1>6, <1>7 DEF DeliveryInv, Exists, Terminal
  <2>2. FreshInv(w, worker[w], rec[worker[w].target])'
    BY <1>6, <1>7 DEF FreshInv, WriteSteps
  <2>3. QED BY <1>6, <1>7, <2>1, <2>2 DEF WorkerInv
<1>9. ASSUME NEW m \in Messages PROVE MessageInv(m)'
  <2>1. MessageInv(m)
    BY DEF Inv
  <2>2. CASE m = j
    BY <1>1, <1>2, <1>3, <1>5, <1>6, <1>7, <2>2 DEF MessageInv, Exists
  <2>3. CASE m # j
    <3>1. queue'[m] = queue[m] /\ queue[m].holder # w
      BY <1>1, <1>5, <2>1, <2>3 DEF MessageInv
    <3>2. QED BY <1>1, <1>7, <2>1, <3>1 DEF MessageInv, Exists
  <2>4. QED BY <2>2, <2>3
<1>10. \A f \in Experiments : InQueue(f) => InQueue(f)'
  BY <1>1, <1>3, <1>5 DEF InQueue
<1>11. /\ disp' \in [Dispatchers -> Dispatches] /\ \A t \in Dispatchers : disp'[t] = disp[t]
       /\ stop' \in [Workers -> BOOLEAN] /\ faults' \in 0 .. MaxFaults
  BY <1>1 DEF Inv, TypeOK
<1>12. QED BY <1>1, <1>5, <1>7, <1>8, <1>9, <1>10, <1>11, QueueStep

-----------------------------------------------------------------------------
\* Exceptions in the main thread.

\* The states an exception leads to can take the place of the present one.
LEMMA GotoContinues ==
    ASSUME Inv, NEW w \in Workers, worker[w].pc \notin {"idle", "settle"},
           NEW p \in PCs \ ({"idle", "received", "claim"} \cup WriteSteps),
           NEW v \in {"none", "queued", "cancelled", "failed"},
           p = "metric" => worker[w].iter < Iterations,
           p = "finish" => v # "none",
           v = "cancelled" => rec[worker[w].target].cancelRequested
    PROVE  Continues(w, [worker[w] EXCEPT !.pc = p, !.verdict = v])
<1> DEFINE r == rec[worker[w].target]
           k == [worker[w] EXCEPT !.pc = p, !.verdict = v]
<1>1. worker[w] \in WorkerStates /\ DeliveryInv(worker[w], r)
  BY Busy
<1>2. /\ k \in WorkerStates /\ k.pc = p /\ k.verdict = v
      /\ k.job = worker[w].job /\ k.target = worker[w].target /\ k.iter = worker[w].iter
      /\ k.action = worker[w].action /\ k.refresh = worker[w].refresh
  BY <1>1 DEF WorkerStates
<1> HIDE DEF k
<1>3. DeliveryInv(k, r) /\ SameDelivery(w, k)
  BY <1>1, <1>2 DEF DeliveryInv, SameDelivery, WriteSteps
<1>4. Continues(w, k)
  BY <1>2, <1>3 DEF Continues
<1>5. QED BY <1>4 DEF k

\* An exception in the main thread ends the attempt or the delivery (worker.py 308-356).
LEMMA ThrowContinues ==
    ASSUME Inv, NEW w \in Workers, worker[w].pc \notin {"idle", "settle"}, Throw(w)
    PROVE  \E k : Continues(w, k) /\ Become(w, k)
<1> DEFINE v == worker[w].verdict
           r == rec[worker[w].target]
<1>1. worker[w] \in WorkerStates /\ DeliveryInv(worker[w], r)
  BY Busy
<1>2. v \in {"none", "queued", "cancelled", "failed"} /\ (v = "cancelled" => r.cancelRequested)
  BY <1>1 DEF WorkerStates, DeliveryInv
<1>3. CASE GiveUp(w)
  <2> DEFINE k == [worker[w] EXCEPT !.pc = "settle", !.verdict = v]
  <2>1. Continues(w, k)
    BY <1>2, GotoContinues DEF PCs, WriteSteps
  <2>2. Become(w, k)
    BY <1>1, <1>3 DEF GiveUp, Goto, WorkerStates
  <2>3. QED BY <2>1, <2>2
<1>4. CASE Become(w, [worker[w] EXCEPT !.pc = "finish", !.verdict = "failed"])
  BY <1>4, GotoContinues DEF PCs, ReadSteps, WriteSteps
<1>5. QED BY <1>3, <1>4 DEF Throw, Raise

\* An upload landed and its delivery continues.
LEMMA LandedStep ==
    ASSUME Inv, NEW w \in Workers, NEW k, Continues(w, k), Become(w, k),
           NEW r, Follows(rec[worker[w].target], r),
           r.dispatched = rec[worker[w].target].dispatched, Write(worker[w].target, r),
           UNCHANGED <<queue, disp>>,
           stop' \in [Workers -> BOOLEAN], faults' \in 0 .. MaxFaults
    PROVE  Inv'
<1>1. DeliveryInv(k, r)
  BY DEF Continues, DeliveryInv, Follows
<1>2. QED BY <1>1, WriteStep DEF Continues

\* A storage call that raises preserves Inv.
LEMMA CallFailsInv ==
    ASSUME Inv, NEW w \in Workers, CallFails(w)
    PROVE  Inv'
<1>1. /\ worker[w].pc \notin {"idle", "settle"} /\ Throw(w)
      /\ UNCHANGED <<rec, current, queue, disp>>
      /\ stop' \in [Workers -> BOOLEAN] /\ faults' \in 0 .. MaxFaults
  BY MaxFaultsAssumption DEF CallFails, Fault, Inv, TypeOK, ReadSteps, WriteSteps
<1>2. QED BY <1>1, ThrowContinues, ContinueStep

\* A retryable engine error preserves Inv (worker.py 310-322).
LEMMA EngineFailsInv ==
    ASSUME Inv, NEW w \in Workers, EngineFails(w)
    PROVE  Inv'
<1>1. /\ worker[w].pc = "check"
      /\ \E v \in {"queued", "failed"} : Raise(w, v)
      /\ UNCHANGED <<rec, current, queue, disp>>
      /\ stop' \in [Workers -> BOOLEAN] /\ faults' \in 0 .. MaxFaults
  BY MaxFaultsAssumption DEF EngineFails, Fault, Inv, TypeOK
<1>2. QED BY <1>1, RaiseStep

\* An upload that lands without an answer preserves Inv.
LEMMA UploadUnacknowledgedInv ==
    ASSUME Inv, NEW w \in Workers, UploadUnacknowledged(w)
    PROVE  Inv'
<1> DEFINE e == worker[w].target
           p == ReadStepOf(worker[w].pc)
           v == worker[w].verdict
           k == [worker[w] EXCEPT !.pc = p, !.verdict = v]
<1>1. /\ worker[w].pc \in WriteSteps /\ worker[w].pc \notin {"idle", "settle"}
      /\ UNCHANGED <<queue, disp>>
      /\ stop' \in [Workers -> BOOLEAN] /\ faults' \in 0 .. MaxFaults
      /\ Throw(w) \/ Goto(w, p)
  BY MaxFaultsAssumption
     DEF UploadUnacknowledged, Upload, Fault, Inv, TypeOK, WriteSteps
<1>2. PICK r : /\ Follows(rec[e], r) /\ r.dispatched = rec[e].dispatched
               /\ Write(e, r)
  <2>1. CASE Upload(w, "metricWrite", MetricRecord(w))
    BY <1>1, <2>1, UploadFollows DEF Upload
  <2>2. CASE Upload(w, "completeWrite", CompleteRecord(w))
    BY <1>1, <2>2, UploadFollows DEF Upload
  <2>3. CASE Upload(w, "finishWrite", FinishRecord(w))
    BY <1>1, <2>3, UploadFollows DEF Upload
  <2>4. QED BY <2>1, <2>2, <2>3 DEF UploadUnacknowledged
<1>3. worker[w] \in WorkerStates /\ DeliveryInv(worker[w], rec[e])
  BY <1>1, Busy
<1>4. ASSUME Goto(w, p) PROVE Continues(w, k) /\ Become(w, k)
  <2>1. /\ p \in PCs \ ({"idle", "received", "claim"} \cup WriteSteps)
        /\ p = "metric" => worker[w].pc = "metricWrite"
        /\ p = "finish" => worker[w].pc = "finishWrite"
    BY <1>1 DEF ReadStepOf, PCs, ReadSteps, WriteSteps
  <2>2. /\ v \in {"none", "queued", "cancelled", "failed"}
        /\ v = "cancelled" => rec[e].cancelRequested
        /\ p = "metric" => worker[w].iter < Iterations
        /\ p = "finish" => v # "none"
    BY <1>3, <2>1 DEF DeliveryInv, WorkerStates
  <2>3. Become(w, k)
    BY <1>3, <1>4 DEF Goto, WorkerStates
  <2> HIDE DEF p, v
  <2>4. QED BY <1>1, <2>1, <2>2, <2>3, GotoContinues DEF v
<1>5. \E q : Continues(w, q) /\ Become(w, q)
  BY <1>1, <1>4, ThrowContinues
<1>6. QED BY <1>1, <1>2, <1>5, LandedStep

\* A claim that lands without an answer preserves Inv.
LEMMA ClaimUnacknowledgedInv ==
    ASSUME Inv, NEW w \in Workers, ClaimUnacknowledged(w)
    PROVE  Inv'
<1> DEFINE e == worker[w].target
           r == Claimed(rec[e], w)
<1>1. /\ worker[w].pc = "claim" /\ Claimable(rec[e]) /\ Write(e, r)
      /\ UNCHANGED <<queue, disp>>
      /\ stop' \in [Workers -> BOOLEAN] /\ faults' \in 0 .. MaxFaults
      /\ Throw(w)
  BY MaxFaultsAssumption DEF ClaimUnacknowledged, Fault, Inv, TypeOK, Throw
<1>2. rec[e] \in Records /\ RecordInv(rec[e]) /\ Exists(rec[e])
  BY <1>1, Busy
<1>3. Follows(rec[e], r) /\ r.dispatched = rec[e].dispatched
  BY <1>1, <1>2, Callbacks, CallbacksDispatched
<1> HIDE DEF r
<1>4. QED BY <1>1, <1>3, ThrowContinues, LandedStep

-----------------------------------------------------------------------------
\* API requests and dispatch.

\* A write by a thread that is not processing a delivery.
LEMMA RecordStep ==
    ASSUME Inv, NEW e \in Experiments, NEW r, Write(e, r), Follows(rec[e], r),
           UNCHANGED <<queue, worker>>,
           r.dispatched /\ ~Terminal(r)
               => (rec[e].dispatched /\ ~Terminal(rec[e])) \/ InQueue(e),
           disp' \in [Dispatchers -> Dispatches],
           \A t \in Dispatchers : disp'[t] = disp[t] \/ DispatchInv(t)',
           stop' \in [Workers -> BOOLEAN], faults' \in 0 .. MaxFaults
    PROVE  Inv'
<1>1. /\ rec' \in [Experiments -> Records]
      /\ current' \in [Experiments -> SUBSET Threads]
      /\ rec'[e] = r
      /\ \A f \in Experiments : Follows(rec[f], rec'[f])
      /\ \A f \in Experiments : f # e => rec'[f] = rec[f]
      /\ \A f \in Experiments : RecordInv(rec[f])'
      /\ \A x \in Workers : worker'[x] = worker[x] => WorkerInv(x)'
  BY RecordWritten
<1>2. TypeOK'
  BY <1>1 DEF Inv, TypeOK
<1>3. \A x \in Workers : WorkerInv(x)'
  BY <1>1
<1>4. \A m \in Messages : MessageInv(m)'
  <2>1. \A f \in Experiments : Exists(rec[f]) => Exists(rec'[f])
    BY <1>1 DEF Follows
  <2>2. QED BY <2>1, MessagesKept
<1>5. \A f \in Experiments : InQueue(f) <=> InQueue(f)'
  BY DEF InQueue
<1>6. \A t \in Dispatchers : DispatchInv(t)'
  BY <1>1, <1>5, DispatchesKept
<1>7. NoLostJob'
  BY <1>1, <1>5, NoLostJobKept
<1>8. QED BY <1>1, <1>2, <1>3, <1>4, <1>6, <1>7 DEF Inv

\* A step that touches no record and no worker.
LEMMA SharedStep ==
    ASSUME Inv, UNCHANGED <<rec, current, worker>>,
           queue' \in [Messages -> QueueEntries], \A m \in Messages : MessageInv(m)',
           disp' \in [Dispatchers -> Dispatches],
           \A t \in Dispatchers : disp'[t] = disp[t] \/ DispatchInv(t)',
           \A e \in Experiments : InQueue(e) => InQueue(e)',
           stop' \in [Workers -> BOOLEAN], faults' \in 0 .. MaxFaults
    PROVE  Inv'
<1>1. worker' \in [Workers -> WorkerStates] /\ \A x \in Workers : worker'[x] = worker[x]
  BY DEF Inv, TypeOK
<1>2. QED BY <1>1, QueueStep

\* Thread t's call goes on, or ends, as d.
LEMMA DispatchChanged ==
    ASSUME Inv, NEW t \in Dispatchers, NEW d \in Dispatches, disp' = [disp EXCEPT ![t] = d],
           d.step # "idle" => d.exp \in Experiments /\ Exists(rec'[d.exp]),
           d.step = "mark" => Terminal(rec'[d.exp]) \/ InQueue(d.exp)'
    PROVE  /\ disp' \in [Dispatchers -> Dispatches]
           /\ \A s \in Dispatchers : disp'[s] = disp[s] \/ DispatchInv(s)'
<1>1. /\ disp' \in [Dispatchers -> Dispatches] /\ disp'[t] = d
      /\ \A s \in Dispatchers \ {t} : disp'[s] = disp[s]
  BY DEF Inv, TypeOK
<1>2. DispatchInv(t)'
  BY <1>1 DEF DispatchInv, Exists, Terminal, InQueue
<1>3. QED BY <1>1, <1>2

\* Creating an experiment preserves Inv (service.py 28-49).
LEMMA SubmitInv ==
    ASSUME Inv, NEW c \in Clients, NEW e \in Experiments, Submit(c, e)
    PROVE  Inv'
<1> DEFINE d == [step |-> "send", exp |-> e]
<1>1. /\ Write(e, NewRecord) /\ ~Exists(rec[e])
      /\ disp' = [disp EXCEPT ![c] = d] /\ UNCHANGED <<queue, worker>>
      /\ stop' \in [Workers -> BOOLEAN] /\ faults' \in 0 .. MaxFaults
      /\ c \in Dispatchers
  BY DEF Submit, Inv, TypeOK, Dispatchers
<1>2. NewRecord.status = "queued" /\ ~NewRecord.leased /\ ~NewRecord.dispatched
  BY DEF NewRecord, AbsentRecord
<1>3. rec[e] \in Records /\ ~Terminal(rec[e])
  BY <1>1 DEF Inv, TypeOK, Exists, Terminal, TerminalStatuses
<1>4. NewRecord \in Records
  BY NewRecordTyped
<1>5. Follows(rec[e], NewRecord)
  BY <1>1, <1>2, <1>3, <1>4 DEF Follows, RecordInv, Exists
<1>6. d \in Dispatches /\ d.step = "send" /\ d.exp = e
  BY DEF Dispatches
<1> HIDE DEF d
<1>7. rec'[e] = NewRecord
  BY <1>1 DEF Write, Inv, TypeOK
<1>8. /\ disp' \in [Dispatchers -> Dispatches]
      /\ \A s \in Dispatchers : disp'[s] = disp[s] \/ DispatchInv(s)'
  BY <1>1, <1>2, <1>6, <1>7, DispatchChanged DEF Exists
<1>9. QED BY <1>1, <1>2, <1>5, <1>8, RecordStep

\* Dispatching a record read earlier preserves Inv (service.py 61-64).
LEMMA StartDispatchInv ==
    ASSUME Inv, NEW t \in Dispatchers, NEW e \in Experiments, StartDispatch(t, e)
    PROVE  Inv'
<1> DEFINE d == [step |-> "send", exp |-> e]
<1>1. /\ disp' = [disp EXCEPT ![t] = d] /\ UNCHANGED <<rec, current, queue, worker>>
      /\ Exists(rec[e]) /\ Exists(rec'[e])
      /\ stop' \in [Workers -> BOOLEAN] /\ faults' \in 0 .. MaxFaults
      /\ queue' \in [Messages -> QueueEntries]
  BY DEF StartDispatch, Inv, TypeOK
<1>2. d \in Dispatches /\ d.step = "send" /\ d.exp = e
  BY DEF Dispatches
<1> HIDE DEF d
<1>3. /\ disp' \in [Dispatchers -> Dispatches]
      /\ \A s \in Dispatchers : disp'[s] = disp[s] \/ DispatchInv(s)'
  BY <1>1, <1>2, DispatchChanged
<1>4. \A m \in Messages : MessageInv(m)'
  BY <1>1, MessagesKept
<1>5. \A f \in Experiments : InQueue(f) => InQueue(f)'
  BY <1>1 DEF InQueue
<1>6. QED BY <1>1, <1>3, <1>4, <1>5, SharedStep

\* A new message is for an existing record and disturbs no other (queueing.py 79-80).
LEMMA EnqueueFacts ==
    ASSUME Inv, NEW j \in Messages, NEW e \in Experiments, Enqueue(j, e),
           Exists(rec[e]), UNCHANGED <<rec, worker>>
    PROVE  /\ queue' \in [Messages -> QueueEntries]
           /\ \A m \in Messages : MessageInv(m)'
           /\ \A f \in Experiments : InQueue(f) => InQueue(f)'
           /\ InQueue(e)'
<1> DEFINE q == [exp |-> e, state |-> "visible", holder |-> NoWorker]
<1>1. q \in QueueEntries /\ q.state = "visible" /\ q.exp = e /\ q.holder = NoWorker
  BY DEF QueueEntries
<1>2. queue[j].state = "free" /\ queue' = [queue EXCEPT ![j] = q]
  BY DEF Enqueue
<1> HIDE DEF q
<1>3. /\ queue' \in [Messages -> QueueEntries] /\ queue'[j] = q
      /\ \A m \in Messages \ {j} : queue'[m] = queue[m]
  BY <1>1, <1>2 DEF Inv, TypeOK
<1>4. ASSUME NEW m \in Messages PROVE MessageInv(m)'
  <2>1. MessageInv(m)
    BY DEF Inv
  <2>2. QED BY <1>1, <1>3, <2>1, NoWorkerAssumption DEF MessageInv, Exists
<1>5. QED BY <1>1, <1>2, <1>3, <1>4 DEF InQueue

\* Sending preserves Inv, whatever becomes of the call.
LEMMA SendStep ==
    ASSUME Inv, NEW t \in Dispatchers, disp[t].step = "send",
           NEW j \in Messages, Enqueue(j, disp[t].exp),
           NEW d \in Dispatches, d.exp = disp[t].exp \/ d.step = "idle",
           disp' = [disp EXCEPT ![t] = d],
           UNCHANGED <<rec, current, worker>>,
           stop' \in [Workers -> BOOLEAN], faults' \in 0 .. MaxFaults
    PROVE  Inv'
<1>1. PICK e \in Experiments : e = disp[t].exp /\ Exists(rec[e]) /\ Exists(rec'[e])
  BY DEF Inv, DispatchInv
<1>2. /\ queue' \in [Messages -> QueueEntries]
      /\ \A m \in Messages : MessageInv(m)'
      /\ \A f \in Experiments : InQueue(f) => InQueue(f)'
      /\ InQueue(e)'
  BY <1>1, EnqueueFacts
<1>3. /\ disp' \in [Dispatchers -> Dispatches]
      /\ \A s \in Dispatchers : disp'[s] = disp[s] \/ DispatchInv(s)'
  BY <1>1, <1>2, DispatchChanged
<1>4. QED BY <1>2, <1>3, SharedStep

\* A send preserves Inv: from now on the mark is justified (service.py 65-66).
LEMMA SendInv ==
    ASSUME Inv, NEW t \in Dispatchers, Send(t)
    PROVE  Inv'
<1> DEFINE d == [disp[t] EXCEPT !.step = "mark"]
<1>1. /\ disp[t].step = "send" /\ UNCHANGED <<rec, current, worker>>
      /\ stop' \in [Workers -> BOOLEAN] /\ faults' \in 0 .. MaxFaults
      /\ disp[t] \in Dispatches
      /\ disp' = [disp EXCEPT ![t] = d]
  BY DEF Send, Inv, TypeOK
<1>2. d \in Dispatches /\ d.exp = disp[t].exp
  BY <1>1 DEF Dispatches
<1>3. PICK j \in Messages : Enqueue(j, disp[t].exp)
  BY DEF Send
<1> HIDE DEF d
<1>4. QED BY <1>1, <1>2, <1>3, SendStep

\* A send whose answer is lost preserves Inv.
LEMMA SendUnacknowledgedInv ==
    ASSUME Inv, NEW t \in Dispatchers, SendUnacknowledged(t)
    PROVE  Inv'
<1>1. /\ disp[t].step = "send" /\ UNCHANGED <<rec, current, worker>>
      /\ stop' \in [Workers -> BOOLEAN] /\ faults' \in 0 .. MaxFaults
      /\ disp' = [disp EXCEPT ![t] = NotDispatching]
  BY MaxFaultsAssumption DEF SendUnacknowledged, Fault, Inv, TypeOK
<1>2. NotDispatching \in Dispatches /\ NotDispatching.step = "idle"
  BY DEF Dispatches, NotDispatching
<1>3. PICK j \in Messages : Enqueue(j, disp[t].exp)
  BY DEF SendUnacknowledged
<1>4. QED BY <1>1, <1>2, <1>3, SendStep

\* A dispatch that fails preserves Inv (service.py 65-73).
LEMMA DispatchFailsInv ==
    ASSUME Inv, NEW t \in Dispatchers, DispatchFails(t)
    PROVE  Inv'
<1>1. /\ UNCHANGED <<rec, current, queue, worker>>
      /\ stop' \in [Workers -> BOOLEAN] /\ faults' \in 0 .. MaxFaults
      /\ disp' = [disp EXCEPT ![t] = NotDispatching]
      /\ queue' \in [Messages -> QueueEntries]
  BY MaxFaultsAssumption DEF DispatchFails, Fault, Inv, TypeOK
<1>2. NotDispatching \in Dispatches /\ NotDispatching.step = "idle"
  BY DEF Dispatches, NotDispatching
<1>3. /\ disp' \in [Dispatchers -> Dispatches]
      /\ \A s \in Dispatchers : disp'[s] = disp[s] \/ DispatchInv(s)'
  BY <1>1, <1>2, DispatchChanged
<1>4. \A m \in Messages : MessageInv(m)'
  BY <1>1, MessagesKept
<1>5. \A f \in Experiments : InQueue(f) => InQueue(f)'
  BY <1>1 DEF InQueue
<1>6. QED BY <1>1, <1>3, <1>4, <1>5, SharedStep

\* Marking preserves Inv: the message that was sent is still there, or the experiment has
\* ended meanwhile (service.py 67-74).
LEMMA MarkInv ==
    ASSUME Inv, NEW t \in Dispatchers, Mark(t)
    PROVE  Inv'
<1> DEFINE e == disp[t].exp
           r == Dispatched(rec[e])
<1>1. /\ disp[t].step = "mark" /\ Write(e, r) /\ UNCHANGED <<queue, worker>>
      /\ stop' \in [Workers -> BOOLEAN] /\ faults' \in 0 .. MaxFaults
      /\ disp' = [disp EXCEPT ![t] = NotDispatching]
  BY DEF Mark, Inv, TypeOK
<1>2. /\ e \in Experiments /\ Exists(rec[e]) /\ (Terminal(rec[e]) \/ InQueue(e))
      /\ rec[e] \in Records /\ RecordInv(rec[e])
  BY <1>1 DEF Inv, TypeOK, DispatchInv
<1>3. Follows(rec[e], r)
  <2>1. r \in Records
    BY <1>2 DEF Dispatched, Records
  <2>2. QED BY <1>2, <2>1 DEF Follows, RecordInv, Dispatched, Exists, Terminal, Records
<1>4. r.dispatched /\ ~Terminal(r) => InQueue(e)
  BY <1>2, <1>3 DEF Follows
<1>5. NotDispatching \in Dispatches /\ NotDispatching.step = "idle"
  BY DEF Dispatches, NotDispatching
<1> HIDE DEF r
<1>6. /\ disp' \in [Dispatchers -> Dispatches]
      /\ \A s \in Dispatchers : disp'[s] = disp[s] \/ DispatchInv(s)'
  BY <1>1, <1>5, DispatchChanged
<1>7. QED BY <1>1, <1>2, <1>3, <1>4, <1>6, RecordStep

\* A cancellation preserves Inv (service.py 79-87).
LEMMA CancelInv ==
    ASSUME Inv, NEW e \in Experiments, Cancel(e)
    PROVE  Inv'
<1> DEFINE r == CancelRequested(rec[e])
<1>1. /\ Exists(rec[e]) /\ Write(e, r) /\ UNCHANGED <<queue, worker>>
      /\ stop' \in [Workers -> BOOLEAN] /\ faults' \in 0 .. MaxFaults
      /\ disp' \in [Dispatchers -> Dispatches]
      /\ \A t \in Dispatchers : disp'[t] = disp[t]
  BY DEF Cancel, Inv, TypeOK
<1>2. rec[e] \in Records /\ RecordInv(rec[e])
  BY DEF Inv, TypeOK
<1>3. r \in Records /\ r.dispatched = rec[e].dispatched
  BY <1>2 DEF CancelRequested, Records, Statuses
<1>4. Follows(rec[e], r)
  BY <1>1, <1>2, <1>3
     DEF Follows, RecordInv, CancelRequested, Exists, Terminal, TerminalStatuses, Records
<1>5. r.dispatched /\ ~Terminal(r) => rec[e].dispatched /\ ~Terminal(rec[e])
  BY <1>3, <1>4 DEF Follows
<1> HIDE DEF r
<1>6. QED BY <1>1, <1>4, <1>5, RecordStep

-----------------------------------------------------------------------------
\* Time and the restart of containers.

\* The expiry of a lease preserves Inv: no callback reads the clock again after its record
\* was read.
LEMMA LapseInv ==
    ASSUME Inv, NEW e \in Experiments, Lapse(e)
    PROVE  Inv'
<1> DEFINE r == [rec[e] EXCEPT !.leased = FALSE]
<1>1. /\ UNCHANGED <<current, queue, disp, worker>>
      /\ stop' \in [Workers -> BOOLEAN] /\ faults' \in 0 .. MaxFaults
      /\ rec' = [rec EXCEPT ![e] = r] /\ rec[e] \in Records /\ RecordInv(rec[e])
  BY MaxFaultsAssumption DEF Lapse, Charge, Fault, Inv, TypeOK
<1>2. /\ r \in Records /\ ~r.leased /\ r.dispatched = rec[e].dispatched
      /\ SameView(rec[e], r)
  BY <1>1 DEF Records, SameView
<1> HIDE DEF r
<1>3. Follows(rec[e], r)
  BY <1>1, <1>2 DEF Follows, SameView, RecordInv, Exists, Terminal
<1>4. /\ rec' \in [Experiments -> Records] /\ rec'[e] = r
      /\ \A f \in Experiments \ {e} : rec'[f] = rec[f]
  BY <1>1, <1>2 DEF Inv, TypeOK
<1>5. \A f \in Experiments : Follows(rec[f], rec'[f]) /\ SameView(rec[f], rec'[f])
  BY <1>2, <1>3, <1>4, FollowsItself
<1>6. TypeOK'
  BY <1>1, <1>4 DEF Inv, TypeOK
<1>7. \A f \in Experiments : RecordInv(rec[f])'
  BY <1>5 DEF Follows, RecordInv
<1>8. \A x \in Workers : WorkerInv(x)'
  BY <1>1, <1>5, WorkerKept
<1>9. \A m \in Messages : MessageInv(m)'
  BY <1>1, <1>5, MessagesKept DEF Follows
<1>10. \A f \in Experiments : InQueue(f) <=> InQueue(f)'
  BY <1>1 DEF InQueue
<1>11. \A t \in Dispatchers : DispatchInv(t)'
  BY <1>1, <1>5, <1>10, DispatchesKept
<1>12. \A f \in Experiments :
          rec'[f].dispatched /\ ~Terminal(rec'[f]) => rec[f].dispatched /\ ~Terminal(rec[f])
  BY <1>2, <1>4, <1>5 DEF Follows
<1>13. NoLostJob'
  BY <1>10, <1>12, NoLostJobKept
<1>14. QED BY <1>6, <1>7, <1>8, <1>9, <1>11, <1>13 DEF Inv

\* The end of a visibility timeout preserves Inv; the receipt stays valid.
LEMMA ReappearInv ==
    ASSUME Inv, NEW j \in Messages, Reappear(j)
    PROVE  Inv'
<1> DEFINE q == [queue[j] EXCEPT !.state = "visible"]
<1>1. /\ UNCHANGED <<rec, current, disp, worker>>
      /\ stop' \in [Workers -> BOOLEAN] /\ faults' \in 0 .. MaxFaults
      /\ queue[j].state = "hidden" /\ queue' = [queue EXCEPT ![j] = q]
      /\ queue[j] \in QueueEntries
      /\ disp' \in [Dispatchers -> Dispatches]
      /\ \A t \in Dispatchers : disp'[t] = disp[t]
  BY MaxFaultsAssumption DEF Reappear, Charge, Fault, Inv, TypeOK
<1>2. /\ q \in QueueEntries /\ q.state = "visible" /\ q.exp = queue[j].exp
      /\ q.holder = queue[j].holder
  BY <1>1 DEF QueueEntries
<1> HIDE DEF q
<1>3. /\ queue' \in [Messages -> QueueEntries] /\ queue'[j] = q
      /\ \A m \in Messages \ {j} : queue'[m] = queue[m]
  BY <1>1, <1>2 DEF Inv, TypeOK
<1>4. ASSUME NEW m \in Messages PROVE MessageInv(m)'
  <2>1. MessageInv(m)
    BY DEF Inv
  <2>2. QED BY <1>1, <1>2, <1>3, <2>1 DEF MessageInv, Exists
<1>5. \A f \in Experiments : InQueue(f) => InQueue(f)'
  BY <1>1, <1>2, <1>3 DEF InQueue
<1>6. QED BY <1>1, <1>3, <1>4, <1>5, SharedStep

\* Only the stop events and the fault counter change.
LEMMA StopStep ==
    ASSUME Inv, UNCHANGED <<rec, current, queue, disp, worker>>,
           stop' \in [Workers -> BOOLEAN], faults' \in 0 .. MaxFaults
    PROVE  Inv'
<1>1. /\ queue' \in [Messages -> QueueEntries] /\ disp' \in [Dispatchers -> Dispatches]
      /\ \A t \in Dispatchers : disp'[t] = disp[t]
  BY DEF Inv, TypeOK
<1>2. \A m \in Messages : MessageInv(m)'
  BY MessagesKept
<1>3. \A f \in Experiments : InQueue(f) => InQueue(f)'
  BY DEF InQueue
<1>4. QED BY <1>1, <1>2, <1>3, SharedStep

\* A stop signal preserves Inv (worker.py 392-397).
LEMMA ShutdownInv ==
    ASSUME Inv, NEW w \in Workers, Shutdown(w)
    PROVE  Inv'
<1>1. stop' \in [Workers -> BOOLEAN] /\ faults' \in 0 .. MaxFaults
  BY MaxFaultsAssumption DEF Shutdown, Fault, Inv, TypeOK
<1>2. QED BY <1>1, StopStep DEF Shutdown

\* A restarted container preserves Inv.
LEMMA ReplaceInv ==
    ASSUME Inv, NEW w \in Workers, Replace(w)
    PROVE  Inv'
<1>1. stop' \in [Workers -> BOOLEAN] /\ faults' \in 0 .. MaxFaults
  BY DEF Replace, Inv, TypeOK
<1>2. QED BY <1>1, StopStep DEF Replace

-----------------------------------------------------------------------------
\* The theorems.

\* Nothing is created, sent or running at first, so every part of Inv holds.
LEMMA InitInv == Init => Inv
<1> SUFFICES ASSUME Init PROVE Inv
  OBVIOUS
<1>1. IdleWorker \in WorkerStates /\ NotDispatching \in Dispatches /\ FreeSlot \in QueueEntries
  BY IterationsAssumption
     DEF IdleWorker, WorkerStates, PCs, NotDispatching, Dispatches, FreeSlot, QueueEntries
<1>2. TypeOK
  BY <1>1, NewRecordTyped, MaxFaultsAssumption DEF Init, TypeOK
<1>3. \A e \in Experiments : RecordInv(rec[e]) /\ ~rec[e].dispatched
  BY DEF Init, RecordInv, AbsentRecord
<1>4. \A w \in Workers : WorkerInv(w)
  BY DEF Init, WorkerInv, IdleWorker
<1>5. \A m \in Messages : MessageInv(m)
  BY NoWorkerAssumption DEF Init, MessageInv, FreeSlot
<1>6. \A t \in Dispatchers : DispatchInv(t)
  BY DEF Init, DispatchInv, NotDispatching
<1>7. QED BY <1>2, <1>3, <1>4, <1>5, <1>6 DEF Inv, NoLostJob

\* Every step of a main thread preserves Inv.
LEMMA WorkerStepInv ==
    ASSUME Inv, NEW w \in Workers, WorkerStep(w)
    PROVE  Inv'
BY LoadRecordInv, ClaimInv, ClaimRefusedInv, CheckInv, ReadInv, WriteMetricInv,
   WriteCompleteInv, WriteFinishInv, RetryInv, SettleInv
   DEF WorkerStep, ReadMetric, ReadComplete, ReadFinish, ReadSteps

\* Every failure of a worker preserves Inv.
LEMMA WorkerFaultInv ==
    ASSUME Inv, NEW w \in Workers, WorkerFault(w)
    PROVE  Inv'
BY ShutdownInv, CallFailsInv, EngineFailsInv, UploadUnacknowledgedInv,
   ClaimUnacknowledgedInv, RefreshFailsInv, SettleFailsInv, CrashInv DEF WorkerFault

\* Every step of the platform, and every stuttering step, preserves Inv.
LEMMA NextInv == Inv /\ [Next]_vars => Inv'
<1> SUFFICES ASSUME Inv, [Next]_vars PROVE Inv'
  OBVIOUS
<1>1. CASE UNCHANGED vars
  <2>1. /\ UNCHANGED <<rec, current, queue, disp, worker>>
        /\ stop' \in [Workers -> BOOLEAN] /\ faults' \in 0 .. MaxFaults
    BY <1>1 DEF vars, Inv, TypeOK
  <2>2. QED BY <2>1, StopStep
<1>2. ASSUME NEW c \in Clients, NEW e \in Experiments, Submit(c, e) \/ Resubmit(c, e)
      PROVE  Inv'
  BY <1>2, SubmitInv, StartDispatchInv DEF Resubmit, Dispatchers
<1>3. ASSUME NEW w \in Workers, NEW e \in Experiments, Reconcile(w, e)
      PROVE  Inv'
  BY <1>3, StartDispatchInv DEF Reconcile, Dispatchers
<1>4. ASSUME NEW t \in Dispatchers,
             ServiceStep(t) \/ DispatchFails(t) \/ SendUnacknowledged(t)
      PROVE  Inv'
  BY <1>4, SendInv, MarkInv, DispatchFailsInv, SendUnacknowledgedInv DEF ServiceStep
<1>5. ASSUME NEW e \in Experiments, Cancel(e) \/ Lapse(e) PROVE Inv'
  BY <1>5, CancelInv, LapseInv
<1>6. ASSUME NEW w \in Workers, NEW m \in Messages, Receive(w, m) PROVE Inv'
  BY <1>6, ReceiveInv
<1>7. ASSUME NEW w \in Workers,
             WorkerStep(w) \/ RefreshStep(w) \/ Replace(w) \/ WorkerFault(w)
      PROVE  Inv'
  BY <1>7, WorkerStepInv, RefreshQueueInv, ReadLeaseInv, WriteLeaseInv, RetryLeaseInv,
     ReplaceInv, WorkerFaultInv DEF RefreshStep
<1>8. ASSUME NEW m \in Messages, Reappear(m) PROVE Inv'
  BY <1>8, ReappearInv
<1>9. QED BY <1>1, <1>2, <1>3, <1>4, <1>5, <1>6, <1>7, <1>8 DEF Next

\* Inv holds in every reachable state, whatever the number of workers, clients,
\* experiments, messages, iterations, attempts and faults.
THEOREM InvInvariant == Spec => []Inv
BY InitInv, NextInv, PTL DEF Spec

\* The variables keep their types (domain.py 88-114, queueing.py 13-17).
THEOREM TypeCorrect == Spec => []TypeOK
<1>1. Inv => TypeOK
  BY DEF Inv
<1>2. QED BY InvInvariant, <1>1, PTL

\* No dispatched experiment is ever left without a message: acknowledgement, abandonment,
\* lost receipts, crashes and duplicate sends never strand a job (worker.py 345-363,
\* service.py 61-74).
THEOREM NoJobIsLost == Spec => []NoLostJob
<1>1. Inv => NoLostJob
  BY DEF Inv
<1>2. QED BY InvInvariant, <1>1, PTL

\* A cancellation accepted before the result was written prevents completion, and nothing
\* is cancelled that nobody asked to cancel (worker.py 203, 244, 269; service.py 79-87).
THEOREM CancellationHonoured == Spec => []CancelHonoured
<1>1. Inv => CancelHonoured
  BY DEF Inv, RecordInv, CancelHonoured
<1>2. QED BY InvInvariant, <1>1, PTL

\* No lease outlives the requeueing of its experiment (worker.py 331-344, 188-199).
THEOREM RequeuedClaimable == Spec => []RequeuedIsClaimable
<1>1. Inv => RequeuedIsClaimable
  BY DEF Inv, RecordInv, RequeuedIsClaimable
<1>2. QED BY InvInvariant, <1>1, PTL
=============================================================================
