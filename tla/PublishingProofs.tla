--------------------------- MODULE PublishingProofs ---------------------------
(***************************************************************************)
(* Proofs about what attempts publish, for any numbers of workers and      *)
(* attempts and failures of any kind: the files of a completed record are  *)
(* whole for ever, its tracking is whole unless the record is marked,      *)
(* nothing else of a terminal record changes but the mark, MLflow's        *)
(* failures stay in the tracking, and the end-to-end check of a deployment *)
(* where workers take over from each other within the attempt limit passes.*)
(***************************************************************************)
EXTENDS SmokeStack, TLAPS

Records ==
    [status : {"queued", "running", "completed", "failed"}, attempts : Maybe,
     leased : BOOLEAN, run : Maybe, marked : BOOLEAN, result : Maybe]

Processes ==
    [pc : {"idle", "start", "record", "iterate", "metric", "put", "complete",
           "finish", "end", "mark", "close"},
     attempt : Maybe, count : 0 .. Iterations + 3, active : BOOLEAN,
     verdict : Verdicts, next : TrackedSteps \cup {"idle"}]

MlflowRuns ==
    [status : {"none", "RUNNING", "FINISHED", "FAILED"},
     points : [Points -> Maybe], summary : BOOLEAN]

\* The first n files of attempt a are whole in s.
Placed(s, a, n) == \A f \in Files : f <= n => s[Path(a, f)] = a

\* How far the process k is, in a store s.
ProgressInv(k, s) ==
    /\ k.pc # "idle" => k.attempt # 0
    /\ \/ k.pc \in {"start", "record", "iterate"}
       \/ k.pc = "mark" /\ k.next = "iterate"
       => k.count <= Iterations
    /\ k.pc = "mark" => k.next \in TrackedSteps
    /\ k.pc = "metric" => k.count < Iterations
    /\ k.pc = "put" =>
         /\ k.count >= Iterations /\ k.count <= Iterations + 2
         /\ Placed(s, k.attempt, k.count - Iterations)
    /\ k.pc = "complete" => Placed(s, k.attempt, 3)
    /\ k.pc = "finish" => k.verdict \in {"queued", "failed"}

\* The attempt has done with the record and the files.
Over(k) == k.pc \in {"finish", "end", "close"} \/ (k.pc = "mark" /\ k.next = "close")

CompletedInv(r, s) == r.status = "completed" => r.result # 0 /\ Placed(s, r.result, 3)

Inv ==
    /\ TypeOK
    /\ \A w \in Workers :
         /\ ProgressInv(worker[w], store)
         /\ Attempt(w) <= rec.attempts
         /\ rec.status = "completed" /\ Attempt(w) = rec.result => Over(worker[w]) \/ Attempt(w) = 0
    /\ \A v, w \in Workers : v # w /\ Attempt(v) = Attempt(w) => Attempt(w) = 0
    /\ CompletedInv(rec, store)

-----------------------------------------------------------------------------
LEMMA Typed ==
    Inv => /\ rec \in Records
           /\ worker \in [Workers -> Processes]
           /\ runs \in [Attempts -> MlflowRuns]
           /\ thread \in [Workers -> Maybe]
           /\ store \in [Maybe \X Files -> Maybe]
           /\ cut \subseteq Attempts
           /\ faulty \in Scenarios
  BY DEF Inv, TypeOK, Records, Processes, MlflowRuns

LEMMA IterationsPositive == Iterations \in Nat /\ Iterations >= 1 /\ MaxClaims \in Nat
  BY PublishingAssumption

\* Processes that only change where they are.
At(k, p)       == [k EXCEPT !.pc = p]
Marking(k, n)  == [k EXCEPT !.pc = "mark", !.next = n]
Aborting(k, v) == [k EXCEPT !.pc = "finish", !.verdict = v]

Steps ==
    {"idle", "start", "record", "iterate", "metric", "put", "complete", "finish", "end",
     "mark", "close"}

LEMMA AtTypes ==
    ASSUME NEW k \in Processes, NEW p \in Steps
    PROVE  /\ At(k, p) \in Processes /\ At(k, p).pc = p
           /\ At(k, p).attempt = k.attempt /\ At(k, p).count = k.count
           /\ At(k, p).next = k.next /\ At(k, p).verdict = k.verdict
           /\ At(k, p).active = k.active
  BY DEF Processes, At, Steps

LEMMA MarkingTypes ==
    ASSUME NEW k \in Processes, NEW n \in TrackedSteps
    PROVE  /\ Marking(k, n) \in Processes /\ Marking(k, n).pc = "mark"
           /\ Marking(k, n).attempt = k.attempt /\ Marking(k, n).count = k.count
           /\ Marking(k, n).next = n /\ Marking(k, n).active = k.active
  BY DEF Processes, Marking

LEMMA AbortingTypes ==
    ASSUME NEW k \in Processes, NEW v \in Verdicts
    PROVE  /\ Aborting(k, v) \in Processes /\ Aborting(k, v).pc = "finish"
           /\ Aborting(k, v).attempt = k.attempt /\ Aborting(k, v).verdict = v
           /\ Aborting(k, v).active = k.active
  BY DEF Processes, Aborting

\* A process that counts an observation, or a file.
LEMMA CountTypes ==
    ASSUME NEW k \in Processes, k.count < Iterations + 3
    PROVE  LET q == [k EXCEPT !.count = k.count + 1]
           IN  /\ q \in Processes /\ q.count = k.count + 1 /\ q.pc = k.pc
               /\ q.attempt = k.attempt /\ q.active = k.active
  <1>1. k.count + 1 \in 0 .. Iterations + 3
    BY IterationsPositive DEF Processes
  <1> QED
    BY <1>1 DEF Processes

\* The mutations give records again.
LEMMA RecordTypes ==
    ASSUME NEW r \in Records, NEW a \in Maybe
    PROVE  /\ [r EXCEPT !.marked = TRUE] \in Records
           /\ [r EXCEPT !.leased = FALSE] \in Records
           /\ [r EXCEPT !.run = a] \in Records
           /\ [r EXCEPT !.status = "completed", !.result = a] \in Records
           /\ \A v \in {"completed", "queued", "failed"} :
                [r EXCEPT !.status = v, !.leased = FALSE] \in Records
  <1>1. [r EXCEPT !.marked = TRUE] \in Records
    BY DEF Records
  <1>2. [r EXCEPT !.leased = FALSE] \in Records
    BY DEF Records
  <1>3. [r EXCEPT !.run = a] \in Records
    BY DEF Records
  <1>4. [r EXCEPT !.status = "completed", !.result = a] \in Records
    BY DEF Records
  <1>5. ASSUME NEW v \in {"completed", "queued", "failed"}
        PROVE  [r EXCEPT !.status = v, !.leased = FALSE] \in Records
    BY DEF Records
  <1> QED
    BY <1>1, <1>2, <1>3, <1>4, <1>5

LEMMA RunWritten ==
    ASSUME runs \in [Attempts -> MlflowRuns], NEW a, NEW q, runs[a] \in MlflowRuns => q \in MlflowRuns
    PROVE  [runs EXCEPT ![a] = q] \in [Attempts -> MlflowRuns]
  <1>1. CASE a \in Attempts
    BY <1>1
  <1>2. CASE a \notin Attempts
    BY <1>2
  <1> QED
    BY <1>1, <1>2

LEMMA StatusWritten ==
    ASSUME runs \in [Attempts -> MlflowRuns], NEW a,
           NEW st \in {"RUNNING", "FINISHED", "FAILED"}
    PROVE  [runs EXCEPT ![a].status = st] \in [Attempts -> MlflowRuns]
  <1>1. runs[a] \in MlflowRuns => [runs[a] EXCEPT !.status = st] \in MlflowRuns
    BY DEF MlflowRuns
  <1> QED
    BY <1>1, RunWritten

LEMMA EndWritten ==
    ASSUME runs \in [Attempts -> MlflowRuns], NEW a, NEW b \in BOOLEAN,
           NEW st \in {"RUNNING", "FINISHED", "FAILED"}
    PROVE  [runs EXCEPT ![a].status = st, ![a].summary = b] \in [Attempts -> MlflowRuns]
  <1>1. [runs EXCEPT ![a].status = st] \in [Attempts -> MlflowRuns]
    BY StatusWritten
  <1>2. \A q \in MlflowRuns : [q EXCEPT !.summary = b] \in MlflowRuns
    BY DEF MlflowRuns
  <1>3. \A f \in [Attempts -> MlflowRuns] :
          [f EXCEPT ![a] = [f[a] EXCEPT !.summary = b]] \in [Attempts -> MlflowRuns]
    BY <1>2
  <1> QED
    BY <1>1, <1>3

LEMMA PointWritten ==
    ASSUME runs \in [Attempts -> MlflowRuns], NEW a, NEW m \in Maybe, NEW i \in Points
    PROVE  [runs EXCEPT ![a].points[i] = m] \in [Attempts -> MlflowRuns]
  <1>1. runs[a] \in MlflowRuns => [runs[a] EXCEPT !.points[i] = m] \in MlflowRuns
    BY DEF MlflowRuns
  <1> QED
    BY <1>1, RunWritten

-----------------------------------------------------------------------------
\* A step of a process that keeps its attempt, or ends it.
LEMMA StepKeepsInv ==
    ASSUME Inv, NEW w \in Workers, NEW k \in Processes,
           worker' = [worker EXCEPT ![w] = k],
           k.attempt \in {Attempt(w), 0},
           runs' \in [Attempts -> MlflowRuns], thread' \in [Workers -> Maybe],
           cut' \subseteq Attempts, faulty' = faulty,
           rec' \in Records, rec'.attempts = rec.attempts,
           store' \in [Maybe \X Files -> Maybe],
           \A a \in Maybe : a # Attempt(w) =>
              \A f \in Files : store'[Path(a, f)] = store[Path(a, f)],
           ProgressInv(k, store'),
           Over(worker[w]) => store' = store /\ (Over(k) \/ k.attempt = 0),
           rec'.status = "completed" /\ rec.status = "completed" => rec'.result = rec.result,
           rec'.status = "completed" /\ rec.status # "completed" =>
              /\ rec'.result = Attempt(w) /\ Attempt(w) # 0
              /\ Over(k) /\ Placed(store', Attempt(w), 3)
    PROVE  Inv'
  <1>t. /\ rec \in Records /\ worker \in [Workers -> Processes]
        /\ store \in [Maybe \X Files -> Maybe] /\ faulty \in Scenarios
    BY Typed
  <1>w. /\ worker' \in [Workers -> Processes] /\ worker'[w] = k
        /\ \A v \in Workers : v # w => worker'[v] = worker[v]
    BY <1>t
  <1>m. \A v \in Workers : Attempt(v) \in Maybe
    BY <1>t DEF Attempt, Processes
  <1>p. \A v \in Workers :
          /\ ProgressInv(worker[v], store)
          /\ Attempt(v) <= rec.attempts
          /\ rec.status = "completed" /\ Attempt(v) = rec.result =>
               Over(worker[v]) \/ Attempt(v) = 0
    BY DEF Inv
  <1>d. \A v, u \in Workers : v # u /\ Attempt(v) = Attempt(u) => Attempt(u) = 0
    BY DEF Inv
  <1>c. CompletedInv(rec, store)
    BY DEF Inv
  <1>1. TypeOK'
    BY <1>t, <1>w DEF TypeOK, Records, Processes, MlflowRuns, Maybe, Attempts, Points, Files
  <1>2. ASSUME NEW v \in Workers, v # w
        PROVE  ProgressInv(worker[v], store')
    <2>1. CASE worker[v].pc = "idle"
      BY <2>1 DEF ProgressInv
    <2>2. CASE worker[v].pc # "idle"
      <3>1. Attempt(v) # Attempt(w)
        BY <1>2, <1>p, <1>d, <2>2 DEF ProgressInv, Attempt
      <3>2. \A f \in Files : store'[Path(Attempt(v), f)] = store[Path(Attempt(v), f)]
        BY <3>1, <1>m
      <3>3. \A n : Placed(store, Attempt(v), n) => Placed(store', Attempt(v), n)
        BY <3>2 DEF Placed
      <3> QED
        BY <3>3, <1>p DEF ProgressInv, Attempt
    <2> QED
      BY <2>1, <2>2
  <1>3. \A v \in Workers : ProgressInv(worker'[v], store')
    BY <1>2, <1>w
  <1>4. \A v \in Workers : worker'[v].attempt \in {Attempt(v), 0}
    BY <1>w DEF Attempt
  <1>5. \A v \in Workers : worker'[v].attempt <= rec'.attempts
    BY <1>4, <1>p, <1>t DEF Records, Maybe
  <1>6. \A v, u \in Workers :
          v # u /\ worker'[v].attempt = worker'[u].attempt => worker'[u].attempt = 0
    BY <1>4, <1>d
  <1>7. CASE rec'.status = "completed" /\ rec.status = "completed"
    <2>1. rec'.result = rec.result /\ rec.result # 0 /\ Placed(store, rec.result, 3)
      BY <1>7, <1>c DEF CompletedInv
    <2>2. rec.result \in Maybe
      BY <1>t DEF Records
    <2>3. Placed(store', rec.result, 3)
      <3>1. CASE Attempt(w) = rec.result
        BY <3>1, <2>1, <1>7, <1>p
      <3>2. CASE Attempt(w) # rec.result
        BY <3>2, <2>1, <2>2 DEF Placed
      <3> QED
        BY <3>1, <3>2
    <2>4. ASSUME NEW v \in Workers, worker'[v].attempt = rec'.result
          PROVE  Over(worker'[v])
      <3>1. Attempt(v) = rec.result /\ Over(worker[v])
        BY <2>1, <2>4, <1>4, <1>p, <1>7
      <3> QED
        BY <3>1, <2>1, <2>4, <1>w
    <2> QED
      BY <1>1, <1>3, <1>5, <1>6, <2>1, <2>3, <2>4 DEF Inv, CompletedInv, Attempt
  <1>8. CASE rec'.status = "completed" /\ rec.status # "completed"
    <2>1. ASSUME NEW v \in Workers, worker'[v].attempt = rec'.result
          PROVE  Over(worker'[v])
      <3>1. v = w
        BY <1>8, <2>1, <1>4, <1>d
      <3> QED
        BY <3>1, <1>8, <1>w
    <2> QED
      BY <1>1, <1>3, <1>5, <1>6, <1>8, <2>1 DEF Inv, CompletedInv, Attempt
  <1>9. CASE rec'.status # "completed"
    BY <1>1, <1>3, <1>5, <1>6, <1>9 DEF Inv, CompletedInv, Attempt
  <1> QED
    BY <1>7, <1>8, <1>9

LEMMA Here ==
    ASSUME Inv, NEW w \in Workers
    PROVE  /\ worker[w] \in Processes /\ Idle \in Processes
           /\ Attempt(w) = worker[w].attempt /\ Attempt(w) \in Maybe /\ thread[w] \in Maybe
           /\ ProgressInv(worker[w], store)
           /\ rec \in Records /\ runs \in [Attempts -> MlflowRuns]
           /\ thread \in [Workers -> Maybe] /\ cut \subseteq Attempts
           /\ store \in [Maybe \X Files -> Maybe]
           /\ rec.status = "completed" /\ Attempt(w) = rec.result =>
                Over(worker[w]) \/ Attempt(w) = 0
  <1>1. Idle \in Processes
    BY IterationsPositive DEF Idle, Processes, Maybe, Verdicts, TrackedSteps
  <1> QED
    BY <1>1, Typed DEF Inv, Attempt, Processes

\* A process that only goes on: to a step that asks nothing of the files, unless the
\* files are there already.
LEMMA MoveKeepsInv ==
    ASSUME Inv, NEW w \in Workers, NEW k \in Processes,
           worker' = [worker EXCEPT ![w] = k],
           k.attempt \in {Attempt(w), 0},
           runs' \in [Attempts -> MlflowRuns], thread' \in [Workers -> Maybe],
           cut' \subseteq Attempts, faulty' = faulty, store' = store,
           rec' \in Records, rec'.attempts = rec.attempts,
           rec'.result = rec.result,
           rec'.status = "completed" => rec.status = "completed",
           ProgressInv(k, store),
           Over(worker[w]) => Over(k) \/ k.attempt = 0
    PROVE  Inv'
  <1> QED
    BY StepKeepsInv, Here

LEMMA StartKeepsInv ==
    ASSUME Inv, NEW w \in Workers, Start(w) \/ StartFails(w)
    PROVE  Inv'
  <1>h. /\ worker[w] \in Processes /\ Attempt(w) = worker[w].attempt /\ Attempt(w) \in Maybe
        /\ ProgressInv(worker[w], store) /\ rec \in Records
        /\ runs \in [Attempts -> MlflowRuns] /\ thread \in [Workers -> Maybe]
        /\ cut \subseteq Attempts /\ store \in [Maybe \X Files -> Maybe]
    BY Here
  <1>s. /\ worker[w].pc = "start"
        /\ UNCHANGED <<rec, store, cut, faulty>>
    BY DEF Start, StartFails, WithinLimit
  <1>c. worker[w].count <= Iterations /\ worker[w].attempt # 0
    BY <1>s, <1>h DEF ProgressInv
  <1>r. runs' \in [Attempts -> MlflowRuns] /\ thread' \in [Workers -> Maybe]
    <2>1. [runs EXCEPT ![Attempt(w)].status = "RUNNING"] \in [Attempts -> MlflowRuns]
      BY <1>h, StatusWritten
    <2> QED
      BY <2>1, <1>h DEF Start, StartFails, RunStarted
  <1>1. PICK on \in Processes :
          /\ on.attempt = worker[w].attempt /\ on.count = worker[w].count
          /\ worker' = [worker EXCEPT ![w] = At(on, "record")]
               \/ worker' = [worker EXCEPT ![w] = Marking(on, "iterate")]
    <2>1. /\ [worker[w] EXCEPT !.active = TRUE] \in Processes
          /\ [worker[w] EXCEPT !.active = TRUE].attempt = worker[w].attempt
          /\ [worker[w] EXCEPT !.active = TRUE].count = worker[w].count
      BY <1>h DEF Processes
    <2>2. CASE Start(w)
      BY <2>1, <2>2, Zenon DEF Start, Become, Tracked, At, Marking
    <2>3. CASE StartFails(w)
      BY <2>3, <1>h, Zenon DEF StartFails, Become, Tracked, Marking
    <2> QED
      BY <2>2, <2>3
  <1>2. ASSUME NEW k \in Processes, k.attempt = Attempt(w), k.count <= Iterations,
               k.pc = "record" \/ (k.pc = "mark" /\ k.next = "iterate"),
               worker' = [worker EXCEPT ![w] = k]
        PROVE  Inv'
    <2>1. ProgressInv(k, store)
      BY <1>2, <1>c, <1>h DEF ProgressInv, TrackedSteps
    <2>2. ~Over(worker[w])
      BY <1>s DEF Over
    <2> QED
      BY <1>2, <2>1, <2>2, <1>r, <1>s, <1>h, MoveKeepsInv
  <1>3. /\ At(on, "record") \in Processes /\ At(on, "record").pc = "record"
        /\ At(on, "record").attempt = on.attempt /\ At(on, "record").count = on.count
    BY AtTypes DEF Steps
  <1>4. /\ Marking(on, "iterate") \in Processes /\ Marking(on, "iterate").pc = "mark"
        /\ Marking(on, "iterate").next = "iterate"
        /\ Marking(on, "iterate").attempt = on.attempt
        /\ Marking(on, "iterate").count = on.count
    BY MarkingTypes DEF TrackedSteps
  <1> QED
    BY <1>1, <1>2, <1>3, <1>4, <1>c, <1>h

\* Steps that leave the files alone and ask nothing of them.
LEMMA PlainProgress ==
    ASSUME NEW k \in Processes, NEW s, k.attempt # 0,
           \/ k.pc \in {"close", "end"}
           \/ k.pc = "finish" /\ k.verdict \in {"queued", "failed"}
           \/ k.pc = "mark" /\ k.next = "close"
           \/ k.pc = "mark" /\ k.next = "iterate" /\ k.count <= Iterations
           \/ k.pc \in {"iterate", "record"} /\ k.count <= Iterations
           \/ k.pc = "metric" /\ k.count < Iterations
    PROVE  ProgressInv(k, s)
  BY IterationsPositive DEF ProgressInv, TrackedSteps, Processes

LEMMA GoKeepsInv ==
    ASSUME Inv, NEW w \in Workers, NEW k \in Processes,
           worker' = [worker EXCEPT ![w] = k], k.attempt = Attempt(w), k.attempt # 0,
           runs' \in [Attempts -> MlflowRuns], thread' \in [Workers -> Maybe],
           cut' \subseteq Attempts, faulty' = faulty, store' = store,
           rec' \in Records, rec'.attempts = rec.attempts, rec'.result = rec.result,
           rec'.status = "completed" => rec.status = "completed",
           \/ k.pc \in {"close", "end"}
           \/ k.pc = "finish" /\ k.verdict \in {"queued", "failed"}
           \/ k.pc = "mark" /\ k.next = "close"
           \/ k.pc = "mark" /\ k.next = "iterate" /\ k.count <= Iterations
           \/ k.pc \in {"iterate", "record"} /\ k.count <= Iterations
           \/ k.pc = "metric" /\ k.count < Iterations,
           Over(worker[w]) => Over(k)
    PROVE  Inv'
  <1>1. ProgressInv(k, store)
    BY PlainProgress
  <1> QED
    BY <1>1, MoveKeepsInv

LEMMA Goes ==
    ASSUME Inv, NEW w \in Workers, NEW p \in Steps, Goto(w, p)
    PROVE  \E k \in Processes :
             /\ worker' = [worker EXCEPT ![w] = k] /\ k.pc = p /\ k.attempt = Attempt(w)
             /\ k.count = worker[w].count /\ k.next = worker[w].next
             /\ k.verdict = worker[w].verdict /\ k.active = worker[w].active
  <1>1. worker[w] \in Processes /\ Attempt(w) = worker[w].attempt
    BY Here
  <1>2. /\ At(worker[w], p) \in Processes /\ At(worker[w], p).pc = p
        /\ At(worker[w], p).attempt = Attempt(w)
        /\ At(worker[w], p).count = worker[w].count
        /\ At(worker[w], p).next = worker[w].next
        /\ At(worker[w], p).verdict = worker[w].verdict
        /\ At(worker[w], p).active = worker[w].active
    BY <1>1, AtTypes
  <1>3. worker' = [worker EXCEPT ![w] = At(worker[w], p)]
    BY DEF Goto, Become, At
  <1> QED
    BY <1>2, <1>3

LEMMA Aborts ==
    ASSUME Inv, NEW w \in Workers, NEW v \in Verdicts, Abort(w, v)
    PROVE  \E k \in Processes :
             /\ worker' = [worker EXCEPT ![w] = k] /\ k.pc = "finish"
             /\ k.attempt = Attempt(w) /\ k.verdict = v /\ k.active = worker[w].active
  <1>1. worker[w] \in Processes /\ Attempt(w) = worker[w].attempt
    BY Here
  <1>2. /\ Aborting(worker[w], v) \in Processes /\ Aborting(worker[w], v).pc = "finish"
        /\ Aborting(worker[w], v).attempt = Attempt(w) /\ Aborting(worker[w], v).verdict = v
        /\ Aborting(worker[w], v).active = worker[w].active
    BY <1>1, AbortingTypes
  <1>3. worker' = [worker EXCEPT ![w] = Aborting(worker[w], v)]
    BY DEF Abort, Become, Aborting
  <1> QED
    BY <1>2, <1>3

LEMMA Marks ==
    ASSUME Inv, NEW w \in Workers, NEW n \in TrackedSteps, NEW q \in Processes,
           q.attempt = Attempt(w), Tracked(w, q, n)
    PROVE  \E k \in Processes :
             /\ worker' = [worker EXCEPT ![w] = k] /\ k.pc = "mark" /\ k.next = n
             /\ k.attempt = Attempt(w) /\ k.count = q.count /\ k.active = q.active
  <1>1. /\ Marking(q, n) \in Processes /\ Marking(q, n).pc = "mark" /\ Marking(q, n).next = n
        /\ Marking(q, n).attempt = Attempt(w) /\ Marking(q, n).count = q.count
        /\ Marking(q, n).active = q.active
    BY MarkingTypes
  <1>2. worker' = [worker EXCEPT ![w] = Marking(q, n)]
    BY DEF Tracked, Become, Marking
  <1> QED
    BY <1>1, <1>2

LEMMA RecordRunKeepsInv ==
    ASSUME Inv, NEW w \in Workers, RecordRun(w)
    PROVE  Inv'
  <1>h. /\ worker[w] \in Processes /\ Attempt(w) = worker[w].attempt
        /\ ProgressInv(worker[w], store) /\ rec \in Records
        /\ runs \in [Attempts -> MlflowRuns] /\ thread \in [Workers -> Maybe]
        /\ cut \subseteq Attempts /\ Attempt(w) \in Maybe
    BY Here
  <1>s. /\ worker[w].pc = "record" /\ UNCHANGED <<thread, runs, store, cut, faulty>>
        /\ worker[w].count <= Iterations /\ Attempt(w) # 0 /\ ~Over(worker[w])
    BY <1>h DEF RecordRun, ProgressInv, Over
  <1>1. CASE Owned(w)
    <2>1. PICK k \in Processes :
            /\ worker' = [worker EXCEPT ![w] = k] /\ k.pc = "iterate"
            /\ k.attempt = Attempt(w) /\ k.count = worker[w].count
      BY <1>1, Goes DEF RecordRun, Steps
    <2>2. rec' = [rec EXCEPT !.run = Attempt(w)]
      BY <1>1 DEF RecordRun
    <2>3. /\ rec' \in Records /\ rec'.attempts = rec.attempts
          /\ rec'.status = rec.status /\ rec'.result = rec.result
      BY <2>2, <1>h DEF Records
    <2> QED
      BY <2>1, <2>3, <1>h, <1>s, GoKeepsInv
  <1>2. CASE ~Owned(w)
    <2>1. PICK k \in Processes :
            worker' = [worker EXCEPT ![w] = k] /\ k.pc = "close" /\ k.attempt = Attempt(w)
      BY <1>2, Goes DEF RecordRun, Steps
    <2>2. rec' = rec
      BY <1>2 DEF RecordRun
    <2> QED
      BY <2>1, <2>2, <1>h, <1>s, GoKeepsInv
  <1> QED
    BY <1>1, <1>2

LEMMA IterateKeepsInv ==
    ASSUME Inv, NEW w \in Workers, Iterate(w)
    PROVE  Inv'
  <1>h. /\ worker[w] \in Processes /\ Attempt(w) = worker[w].attempt
        /\ ProgressInv(worker[w], store) /\ rec \in Records
        /\ runs \in [Attempts -> MlflowRuns] /\ thread \in [Workers -> Maybe]
        /\ cut \subseteq Attempts /\ Attempt(w) \in Maybe
    BY Here
  <1>s. /\ worker[w].pc = "iterate" /\ UNCHANGED <<rec, thread, runs, store, cut, faulty>>
        /\ worker[w].count <= Iterations /\ Attempt(w) # 0 /\ ~Over(worker[w])
    BY <1>h DEF Iterate, ProgressInv, Over
  <1>1. CASE ~Owned(w)
    <2>1. PICK k \in Processes :
            worker' = [worker EXCEPT ![w] = k] /\ k.pc = "close" /\ k.attempt = Attempt(w)
      BY <1>1, Goes DEF Iterate, Steps
    <2> QED
      BY <2>1, <1>h, <1>s, GoKeepsInv
  <1>2. CASE Owned(w) /\ worker[w].count < Iterations
    <2>1. PICK k \in Processes :
            /\ worker' = [worker EXCEPT ![w] = k] /\ k.pc = "metric"
            /\ k.attempt = Attempt(w) /\ k.count = worker[w].count
      BY <1>2, Goes DEF Iterate, Steps
    <2> QED
      BY <1>2, <2>1, <1>h, <1>s, GoKeepsInv
  <1>3. CASE Owned(w) /\ ~(worker[w].count < Iterations)
    <2>1. PICK k \in Processes :
            /\ worker' = [worker EXCEPT ![w] = k] /\ k.pc = "put"
            /\ k.attempt = Attempt(w) /\ k.count = worker[w].count
      BY <1>3, Goes DEF Iterate, Steps
    <2>2. k.count = Iterations
      BY <1>3, <2>1, <1>s, <1>h, IterationsPositive DEF Processes
    <2>3. ProgressInv(k, store)
      BY <2>1, <2>2, <1>s, IterationsPositive DEF ProgressInv, Placed, Files
    <2> QED
      BY <2>1, <2>3, <1>h, <1>s, MoveKeepsInv
  <1> QED
    BY <1>1, <1>2, <1>3

\* The mark changes nothing the invariant speaks of.
LEMMA MarkedRecord ==
    ASSUME Inv, NEW w \in Workers, NEW r \in {rec, Marked(w)}
    PROVE  /\ r \in Records /\ r.attempts = rec.attempts /\ r.status = rec.status
           /\ r.result = rec.result
  <1>1. rec \in Records
    BY Here
  <1>2. /\ [rec EXCEPT !.marked = TRUE] \in Records
        /\ [rec EXCEPT !.marked = TRUE].attempts = rec.attempts
        /\ [rec EXCEPT !.marked = TRUE].status = rec.status
        /\ [rec EXCEPT !.marked = TRUE].result = rec.result
    BY <1>1 DEF Records
  <1> QED
    BY <1>1, <1>2, Zenon DEF Marked

LEMMA MarkKeepsInv ==
    ASSUME Inv, NEW w \in Workers, Mark(w)
    PROVE  Inv'
  <1>h. /\ worker[w] \in Processes /\ Attempt(w) = worker[w].attempt
        /\ ProgressInv(worker[w], store) /\ rec \in Records
        /\ runs \in [Attempts -> MlflowRuns] /\ thread \in [Workers -> Maybe]
        /\ cut \subseteq Attempts /\ Attempt(w) \in Maybe
    BY Here
  <1>s. /\ worker[w].pc = "mark" /\ UNCHANGED <<thread, runs, store, cut, faulty>>
        /\ Attempt(w) # 0 /\ worker[w].next \in TrackedSteps
        /\ worker[w].next = "iterate" => worker[w].count <= Iterations /\ ~Over(worker[w])
    BY <1>h DEF Mark, ProgressInv, Over
  <1>r. /\ rec' \in Records /\ rec'.attempts = rec.attempts /\ rec'.status = rec.status
        /\ rec'.result = rec.result
    BY MarkedRecord DEF Mark
  <1>1. PICK k \in Processes :
          /\ worker' = [worker EXCEPT ![w] = k] /\ k.pc = worker[w].next
          /\ k.attempt = Attempt(w) /\ k.count = worker[w].count
    <2>1. worker[w].next \in Steps
      BY <1>s DEF TrackedSteps, Steps
    <2> QED
      BY <2>1, Goes DEF Mark
  <1>2. CASE worker[w].next = "iterate"
    BY <1>1, <1>2, <1>r, <1>h, <1>s, GoKeepsInv
  <1>3. CASE worker[w].next = "close"
    <2>1. Over(k)
      BY <1>1, <1>3 DEF Over
    <2> QED
      BY <2>1, <1>1, <1>3, <1>r, <1>h, <1>s, GoKeepsInv
  <1> QED
    BY <1>2, <1>3, <1>s DEF TrackedSteps

LEMMA FinishedRecord ==
    ASSUME Inv, NEW w \in Workers, worker[w].pc = "finish"
    PROVE  /\ Finished(w) \in Records /\ Finished(w).attempts = rec.attempts
           /\ Finished(w).status # "completed" /\ Finished(w).result = rec.result
  <1>1. rec \in Records /\ worker[w].verdict \in {"queued", "failed"}
    BY Here DEF ProgressInv
  <1> QED
    BY <1>1 DEF Records, Finished

LEMMA FinishKeepsInv ==
    ASSUME Inv, NEW w \in Workers, Finish(w)
    PROVE  Inv'
  <1>h. /\ worker[w] \in Processes /\ Attempt(w) = worker[w].attempt
        /\ ProgressInv(worker[w], store) /\ rec \in Records
        /\ runs \in [Attempts -> MlflowRuns] /\ thread \in [Workers -> Maybe]
        /\ cut \subseteq Attempts /\ Attempt(w) \in Maybe
    BY Here
  <1>s. /\ worker[w].pc = "finish" /\ UNCHANGED <<thread, runs, store, cut, faulty>>
        /\ Attempt(w) # 0
    BY <1>h DEF Finish, ProgressInv
  <1>r. /\ rec' \in Records /\ rec'.attempts = rec.attempts /\ rec'.result = rec.result
        /\ rec'.status = "completed" => rec.status = "completed"
    BY <1>s, <1>h, FinishedRecord DEF Finish
  <1>1. PICK k \in Processes :
          /\ worker' = [worker EXCEPT ![w] = k] /\ k.pc \in {"end", "close"}
          /\ k.attempt = Attempt(w)
    BY Goes DEF Finish, Steps
  <1>2. Over(k)
    BY <1>1 DEF Over
  <1> QED
    BY <1>1, <1>2, <1>r, <1>h, <1>s, GoKeepsInv

\* The steps that give an attempt up before it has come to its end.
GivesUp(w) == LimitReached(w) \/ EngineRaises(w) \/ Cancelled(w) \/ LeaseLost(w)

LEMMA GivingUpSteps ==
    ASSUME Inv, NEW w \in Workers, GivesUp(w)
    PROVE  /\ UNCHANGED <<rec, thread, runs, store, cut, faulty>>
           /\ worker[w].pc \in {"start", "iterate", "complete", "finish"} /\ Attempt(w) # 0
           /\ \E k \in Processes :
                /\ worker' = [worker EXCEPT ![w] = k] /\ k.pc \in {"finish", "close"}
                /\ k.attempt = Attempt(w) /\ k.active = worker[w].active
                /\ k.pc = "finish" =>
                     /\ k.verdict \in {"queued", "failed"} /\ ~Over(worker[w])
                     /\ ~LeaseLost(w)
  <1>1. CASE LimitReached(w) \/ EngineRaises(w) \/ Cancelled(w)
    <2>1. PICK v \in {"queued", "failed"} : Abort(w, v)
      BY <1>1 DEF LimitReached, EngineRaises, Cancelled
    <2>2. /\ UNCHANGED <<rec, thread, runs, store, cut, faulty>>
          /\ worker[w].pc \in {"start", "iterate", "complete"}
      BY <1>1 DEF LimitReached, EngineRaises, Cancelled
    <2>3. PICK k \in Processes :
            /\ worker' = [worker EXCEPT ![w] = k] /\ k.pc = "finish"
            /\ k.attempt = Attempt(w) /\ k.verdict = v /\ k.active = worker[w].active
      BY <2>1, Aborts DEF Verdicts
    <2>4. ~LeaseLost(w)
      <3>1. worker'[w] = k
        BY <2>3, Typed
      <3>2. Goto(w, "close") => worker'[w].pc = "close"
        BY Typed, Here, AtTypes DEF Goto, Become, Processes
      <3> QED
        BY <2>3, <3>1, <3>2 DEF LeaseLost
    <2> QED
      BY <2>2, <2>3, <2>4, Here DEF ProgressInv, Over
  <1>2. CASE LeaseLost(w)
    <2>1. PICK k \in Processes :
            /\ worker' = [worker EXCEPT ![w] = k] /\ k.pc = "close"
            /\ k.attempt = Attempt(w) /\ k.active = worker[w].active
      BY <1>2, Goes DEF LeaseLost, Steps
    <2> QED
      BY <1>2, <2>1, Here DEF LeaseLost, ProgressInv
  <1> QED
    BY <1>1, <1>2 DEF GivesUp

LEMMA InterruptionKeepsInv ==
    ASSUME Inv, NEW w \in Workers, GivesUp(w)
    PROVE  Inv'
  <1>1. /\ UNCHANGED <<rec, thread, runs, store, cut, faulty>> /\ Attempt(w) # 0
        /\ worker[w].pc \in {"start", "iterate", "complete", "finish"}
    BY GivingUpSteps
  <1>2. PICK k \in Processes :
          /\ worker' = [worker EXCEPT ![w] = k] /\ k.pc \in {"finish", "close"}
          /\ k.attempt = Attempt(w)
          /\ k.pc = "finish" => k.verdict \in {"queued", "failed"}
    BY GivingUpSteps
  <1>3. Over(k)
    BY <1>2 DEF Over
  <1> QED
    BY <1>1, <1>2, <1>3, Here, GoKeepsInv

LEMMA MetricKeepsInv ==
    ASSUME Inv, NEW w \in Workers, TrackMetric(w)
    PROVE  Inv'
  <1>h. /\ worker[w] \in Processes /\ Attempt(w) = worker[w].attempt
        /\ ProgressInv(worker[w], store) /\ rec \in Records
        /\ runs \in [Attempts -> MlflowRuns] /\ thread \in [Workers -> Maybe]
        /\ cut \subseteq Attempts /\ Attempt(w) \in Maybe
    BY Here
  <1>s. /\ worker[w].pc = "metric" /\ UNCHANGED <<rec, thread, store, cut, faulty>>
        /\ worker[w].count < Iterations /\ Attempt(w) # 0 /\ ~Over(worker[w])
    BY <1>h DEF TrackMetric, ProgressInv, Over
  <1>c. worker[w].count + 1 \in Points /\ worker[w].count + 1 <= Iterations
    BY <1>s, <1>h, IterationsPositive DEF Processes, Points
  <1>r. runs' \in [Attempts -> MlflowRuns]
    <2>1. [runs EXCEPT ![thread[w]].points[worker[w].count + 1] = Attempt(w)]
            \in [Attempts -> MlflowRuns]
      BY <1>h, <1>c, PointWritten
    <2> QED
      BY <2>1, <1>h DEF TrackMetric
  <1>k. PICK q \in Processes :
          /\ q = [worker[w] EXCEPT !.count = worker[w].count + 1]
          /\ q.attempt = Attempt(w) /\ q.count <= Iterations
    <2>1. worker[w].count < Iterations + 3
      BY <1>s, <1>h, IterationsPositive DEF Processes
    <2> QED
      BY <2>1, <1>h, <1>c, CountTypes
  <1>q. q.attempt = Attempt(w) /\ q.count <= Iterations
    BY <1>k
  <1>1. Become(w, At(q, "iterate")) \/ Tracked(w, q, "iterate")
    BY <1>k, Zenon DEF TrackMetric, At
  <1>2. CASE Become(w, At(q, "iterate"))
    <2>1. /\ At(q, "iterate") \in Processes /\ At(q, "iterate").pc = "iterate"
          /\ At(q, "iterate").attempt = Attempt(w) /\ At(q, "iterate").count <= Iterations
      BY <1>k, AtTypes DEF Steps
    <2>2. worker' = [worker EXCEPT ![w] = At(q, "iterate")]
      BY <1>2 DEF Become
    <2> QED
      BY <2>1, <2>2, <1>h, <1>s, <1>r, GoKeepsInv
  <1>3. CASE Tracked(w, q, "iterate")
    <2>1. PICK k \in Processes :
            /\ worker' = [worker EXCEPT ![w] = k] /\ k.pc = "mark" /\ k.next = "iterate"
            /\ k.attempt = Attempt(w) /\ k.count = q.count
      BY <1>3, <1>q, Marks DEF TrackedSteps
    <2> QED
      BY <2>1, <1>q, <1>h, <1>s, <1>r, GoKeepsInv
  <1> QED
    BY <1>1, <1>2, <1>3

LEMMA EndRunTypes ==
    ASSUME Inv, NEW w \in Workers, NEW st \in {"FINISHED", "FAILED"},
           EndRun(w, st) \/ EndRunUnheard(w) \/ UNCHANGED <<thread, runs>>
    PROVE  runs' \in [Attempts -> MlflowRuns] /\ thread' \in [Workers -> Maybe]
  <1>h. runs \in [Attempts -> MlflowRuns] /\ thread \in [Workers -> Maybe]
    BY Here
  <1>1. [thread EXCEPT ![w] = 0] \in [Workers -> Maybe]
    BY <1>h, IterationsPositive DEF Maybe
  <1>2. PICK b \in BOOLEAN : b = (worker[w].pc = "end")
    OBVIOUS
  <1>3. [runs EXCEPT ![thread[w]].status = st, ![thread[w]].summary = b]
          \in [Attempts -> MlflowRuns]
    BY <1>h, EndWritten
  <1>4. CASE EndRun(w, st)
    <2>1. runs' = runs \/
          runs' = [runs EXCEPT ![thread[w]].status = st, ![thread[w]].summary = b]
      BY <1>4, <1>2, Zenon DEF EndRun
    <2> QED
      BY <2>1, <1>1, <1>3, <1>4, <1>h DEF EndRun
  <1>5. CASE EndRunUnheard(w)
    BY <1>5, <1>1, <1>h DEF EndRunUnheard
  <1> QED
    BY <1>4, <1>5, <1>h

LEMMA EndTrackingKeepsInv ==
    ASSUME Inv, NEW w \in Workers, EndTracking(w) \/ EndTrackingFails(w)
    PROVE  Inv'
  <1>h. /\ worker[w] \in Processes /\ Attempt(w) = worker[w].attempt
        /\ ProgressInv(worker[w], store) /\ rec \in Records
        /\ cut \subseteq Attempts /\ Attempt(w) \in Maybe
    BY Here
  <1>s. /\ worker[w].pc = "end" /\ UNCHANGED <<rec, store, cut, faulty>> /\ Attempt(w) # 0
    BY <1>h DEF EndTracking, EndTrackingFails, ProgressInv
  <1>r. runs' \in [Attempts -> MlflowRuns] /\ thread' \in [Workers -> Maybe]
    <2>1. RunStatus(worker[w].verdict) \in {"FINISHED", "FAILED"}
      BY DEF RunStatus
    <2>2. \/ EndRun(w, RunStatus(worker[w].verdict)) \/ EndRunUnheard(w)
          \/ UNCHANGED <<thread, runs>>
      BY DEF EndTracking, EndTrackingFails
    <2> QED
      BY <2>1, <2>2, EndRunTypes
  <1>1. CASE EndTracking(w)
    <2>1. [worker[w] EXCEPT !.pc = "close", !.active = FALSE] \in Processes
      BY <1>h DEF Processes
    <2>2. /\ [worker[w] EXCEPT !.pc = "close", !.active = FALSE].pc = "close"
          /\ [worker[w] EXCEPT !.pc = "close", !.active = FALSE].attempt = Attempt(w)
      BY <1>h DEF Processes
    <2>3. PICK k \in Processes :
            worker' = [worker EXCEPT ![w] = k] /\ k.pc = "close" /\ k.attempt = Attempt(w)
      BY <1>1, <2>1, <2>2, Zenon DEF EndTracking, Become
    <2>4. Over(k)
      BY <2>3 DEF Over
    <2> QED
      BY <2>3, <2>4, <1>h, <1>s, <1>r, GoKeepsInv
  <1>2. CASE EndTrackingFails(w)
    <2>1. PICK k \in Processes :
            /\ worker' = [worker EXCEPT ![w] = k] /\ k.pc = "mark" /\ k.next = "close"
            /\ k.attempt = Attempt(w)
      BY <1>2, <1>h, Marks DEF EndTrackingFails, TrackedSteps
    <2>2. Over(k)
      BY <2>1 DEF Over
    <2> QED
      BY <2>1, <2>2, <1>h, <1>s, <1>r, GoKeepsInv
  <1> QED
    BY <1>1, <1>2

LEMMA LeavingKeepsInv ==
    ASSUME Inv, NEW w \in Workers, Close(w) \/ Crash(w)
    PROVE  Inv'
  <1>h. /\ worker[w] \in Processes /\ Idle \in Processes
        /\ ProgressInv(worker[w], store) /\ rec \in Records
        /\ runs \in [Attempts -> MlflowRuns] /\ thread \in [Workers -> Maybe]
        /\ cut \subseteq Attempts /\ Attempt(w) \in Maybe /\ Attempt(w) = worker[w].attempt
    BY Here
  <1>s. /\ worker' = [worker EXCEPT ![w] = Idle] /\ UNCHANGED <<rec, store, faulty>>
        /\ worker[w].pc # "idle"
    BY DEF Close, Crash, Become
  <1>a. Attempt(w) \in Attempts
    BY <1>h, <1>s, IterationsPositive DEF ProgressInv, Maybe, Attempts
  <1>r. /\ runs' \in [Attempts -> MlflowRuns] /\ thread' \in [Workers -> Maybe]
        /\ cut' \subseteq Attempts
    <2>1. CASE Close(w)
      <3>1. EndRun(w, "FAILED") \/ EndRunUnheard(w) \/ UNCHANGED <<thread, runs>>
        BY <2>1 DEF Close
      <3> QED
        BY <3>1, <2>1, <1>h, EndRunTypes DEF Close
    <2>2. CASE Crash(w)
      BY <2>2, <1>h, <1>a, IterationsPositive DEF Crash, Maybe
    <2> QED
      BY <2>1, <2>2
  <1>1. Idle.pc = "idle" /\ Idle.attempt = 0
    BY DEF Idle
  <1>2. ProgressInv(Idle, store)
    BY <1>1 DEF ProgressInv
  <1> QED
    BY <1>1, <1>2, <1>h, <1>s, <1>r, MoveKeepsInv

\* Uploads go to the files of the worker's own attempt.
LEMMA PutTypes ==
    ASSUME Inv, NEW w \in Workers, worker[w].pc = "put", NEW a \in {0, Attempt(w)},
           store' = [store EXCEPT ![Path(Attempt(w), PutFile(w))] = a]
    PROVE  /\ store' \in [Maybe \X Files -> Maybe]
           /\ \A b \in Maybe : b # Attempt(w) =>
                \A f \in Files : store'[Path(b, f)] = store[Path(b, f)]
           /\ \A f \in Files : store'[Path(Attempt(w), f)]
                                 = IF f = PutFile(w) THEN a ELSE store[Path(Attempt(w), f)]
  <1>h. /\ store \in [Maybe \X Files -> Maybe] /\ Attempt(w) \in Maybe /\ 0 \in Maybe
        /\ PutFile(w) \in Files
    <2>1. /\ store \in [Maybe \X Files -> Maybe] /\ Attempt(w) \in Maybe
          /\ worker[w] \in Processes /\ ProgressInv(worker[w], store)
      BY Here
    <2>2. worker[w].count >= Iterations /\ worker[w].count <= Iterations + 2
      BY <2>1 DEF ProgressInv
    <2>3. worker[w].count \in Nat
      BY <2>1, IterationsPositive DEF Processes
    <2>4. PutFile(w) \in Files
      BY <2>2, <2>3, IterationsPositive DEF PutFile, Files
    <2> QED
      BY <2>1, <2>4, IterationsPositive DEF Maybe
  <1>1. \A b \in Maybe, f \in Files : <<b, f>> \in Maybe \X Files
    OBVIOUS
  <1>2. \A b \in Maybe, f \in Files :
          <<b, f>> = <<Attempt(w), PutFile(w)>> <=> b = Attempt(w) /\ f = PutFile(w)
    OBVIOUS
  <1> QED
    BY <1>h, <1>1, <1>2 DEF Path

LEMMA PutKeepsInv ==
    ASSUME Inv, NEW w \in Workers, Put(w)
    PROVE  Inv'
  <1>h. /\ worker[w] \in Processes /\ Attempt(w) = worker[w].attempt
        /\ ProgressInv(worker[w], store) /\ rec \in Records
        /\ runs \in [Attempts -> MlflowRuns] /\ thread \in [Workers -> Maybe]
        /\ cut \subseteq Attempts /\ Attempt(w) \in Maybe
        /\ rec.status = "completed" /\ Attempt(w) = rec.result =>
             Over(worker[w]) \/ Attempt(w) = 0
    BY Here
  <1>s. /\ worker[w].pc = "put" /\ UNCHANGED <<rec, thread, runs, cut, faulty>>
        /\ Attempt(w) # 0 /\ ~Over(worker[w])
        /\ worker[w].count >= Iterations /\ worker[w].count <= Iterations + 2
        /\ Placed(store, Attempt(w), worker[w].count - Iterations)
    BY <1>h DEF Put, ProgressInv, Over
  <1>f. /\ store' \in [Maybe \X Files -> Maybe]
        /\ \A b \in Maybe : b # Attempt(w) =>
             \A f \in Files : store'[Path(b, f)] = store[Path(b, f)]
        /\ \A f \in Files : store'[Path(Attempt(w), f)]
                     = IF f = PutFile(w) THEN Attempt(w) ELSE store[Path(Attempt(w), f)]
    BY <1>s, PutTypes DEF Put
  <1>p. Placed(store', Attempt(w), worker[w].count - Iterations + 1)
    BY <1>f, <1>s, <1>h, IterationsPositive DEF Placed, PutFile, Files, Processes
  <1>k. PICK q \in Processes :
          /\ q = [worker[w] EXCEPT !.count = worker[w].count + 1]
          /\ q.attempt = Attempt(w) /\ q.count = worker[w].count + 1
    <2>1. worker[w].count < Iterations + 3
      BY <1>s, <1>h, IterationsPositive DEF Processes
    <2>2. /\ [worker[w] EXCEPT !.count = worker[w].count + 1] \in Processes
          /\ [worker[w] EXCEPT !.count = worker[w].count + 1].count = worker[w].count + 1
          /\ [worker[w] EXCEPT !.count = worker[w].count + 1].attempt = worker[w].attempt
      BY <2>1, <1>h, CountTypes
    <2> QED
      BY <2>2, <1>h
  <1>q. q.attempt = Attempt(w) /\ q.count = worker[w].count + 1
    BY <1>k
  <1>1. PICK p \in {"put", "complete"} :
          /\ p = (IF PutFile(w) = 3 THEN "complete" ELSE "put")
          /\ worker' = [worker EXCEPT ![w] = At(q, p)]
    BY <1>k, Zenon DEF Put, Become, At
  <1>2. /\ At(q, p) \in Processes /\ At(q, p).pc = p
        /\ At(q, p).attempt = Attempt(w) /\ At(q, p).count = worker[w].count + 1
    BY <1>q, AtTypes DEF Steps
  <1>3. ProgressInv(At(q, p), store')
    <2>1. CASE PutFile(w) = 3
      <3>1. p = "complete" /\ worker[w].count - Iterations + 1 = 3
        BY <2>1, <1>1 DEF PutFile
      <3> QED
        BY <3>1, <1>2, <1>p, <1>s DEF ProgressInv
    <2>2. CASE PutFile(w) # 3
      <3>1. p = "put" /\ worker[w].count + 1 <= Iterations + 2
        BY <2>2, <1>1, <1>s, <1>h, IterationsPositive DEF PutFile, Processes
      <3>2. worker[w].count - Iterations + 1 = (worker[w].count + 1) - Iterations
        BY <1>h, IterationsPositive DEF Processes
      <3>3. worker[w].count + 1 >= Iterations
        BY <1>s, <1>h, IterationsPositive DEF Processes
      <3> QED
        BY <3>1, <3>2, <3>3, <1>2, <1>p, <1>s DEF ProgressInv
    <2> QED
      BY <2>1, <2>2
  <1> QED
    BY <1>1, <1>2, <1>3, <1>h, <1>s, <1>f, StepKeepsInv

LEMMA CompletedRecord ==
    ASSUME Inv, NEW w \in Workers
    PROVE  /\ Completed(w) \in Records /\ Completed(w).attempts = rec.attempts
           /\ Completed(w).status = "completed" /\ Completed(w).result = Attempt(w)
  <1>1. rec \in Records /\ Attempt(w) \in Maybe
    BY Here
  <1> QED
    BY <1>1 DEF Records, Completed

\* Completing the experiment, or, cut short in it, entering the failure handler.
LEMMA CompletionKeepsInv ==
    ASSUME Inv, NEW w \in Workers, NEW k \in Processes,
           worker[w].pc = "complete", rec' \in {rec, Completed(w)},
           rec' # rec => ~Ended,
           worker' = [worker EXCEPT ![w] = k], k.attempt = Attempt(w),
           \/ k.pc \in {"end", "close"}
           \/ k.pc = "finish" /\ k.verdict \in {"queued", "failed"},
           cut' \subseteq Attempts, UNCHANGED <<thread, runs, store, faulty>>
    PROVE  Inv'
  <1>h. /\ worker[w] \in Processes /\ Attempt(w) = worker[w].attempt
        /\ ProgressInv(worker[w], store) /\ rec \in Records
        /\ runs \in [Attempts -> MlflowRuns] /\ thread \in [Workers -> Maybe]
        /\ store \in [Maybe \X Files -> Maybe]
    BY Here
  <1>1. Attempt(w) # 0 /\ Placed(store, Attempt(w), 3) /\ ~Over(worker[w]) /\ Over(k)
    BY <1>h DEF ProgressInv, Over
  <1>2. ProgressInv(k, store)
    BY <1>1, PlainProgress
  <1>3. CASE rec' = rec
    BY <1>1, <1>2, <1>3, <1>h, MoveKeepsInv
  <1>4. CASE rec' # rec
    <2>1. /\ rec' \in Records /\ rec'.attempts = rec.attempts /\ rec.status # "completed"
          /\ rec'.result = Attempt(w)
      BY <1>4, CompletedRecord DEF Ended
    <2> QED
      BY <2>1, <1>1, <1>2, <1>h, StepKeepsInv
  <1> QED
    BY <1>3, <1>4

LEMMA CompleteKeepsInv ==
    ASSUME Inv, NEW w \in Workers, Complete(w)
    PROVE  Inv'
  <1>h. /\ worker[w] \in Processes /\ Attempt(w) = worker[w].attempt /\ cut \subseteq Attempts
    BY Here
  <1>s. worker[w].pc = "complete" /\ UNCHANGED <<thread, runs, store, cut, faulty>>
    BY DEF Complete
  <1>1. CASE Owned(w)
    <2>1. [worker[w] EXCEPT !.pc = "end", !.verdict = "completed"] \in Processes
      BY <1>h DEF Processes, Verdicts
    <2>2. /\ [worker[w] EXCEPT !.pc = "end", !.verdict = "completed"].pc = "end"
          /\ [worker[w] EXCEPT !.pc = "end", !.verdict = "completed"].attempt = Attempt(w)
      BY <1>h DEF Processes
    <2>3. PICK k \in Processes :
            worker' = [worker EXCEPT ![w] = k] /\ k.pc = "end" /\ k.attempt = Attempt(w)
      BY <1>1, <2>1, <2>2, Zenon DEF Complete, Become
    <2>4. rec' = Completed(w) /\ ~Ended
      BY <1>1 DEF Complete, Owned
    <2> QED
      BY <2>3, <2>4, <1>h, <1>s, CompletionKeepsInv
  <1>2. CASE ~Owned(w)
    <2>1. PICK k \in Processes :
            worker' = [worker EXCEPT ![w] = k] /\ k.pc = "close" /\ k.attempt = Attempt(w)
      BY <1>2, Goes DEF Complete, Steps
    <2>2. rec' = rec
      BY <1>2 DEF Complete
    <2> QED
      BY <2>1, <2>2, <1>h, <1>s, CompletionKeepsInv
  <1> QED
    BY <1>1, <1>2

LEMMA StorageFailureKeepsInv ==
    ASSUME Inv, NEW w \in Workers, StorageFails(w)
    PROVE  Inv'
  <1>h. /\ worker[w] \in Processes /\ Attempt(w) = worker[w].attempt
        /\ ProgressInv(worker[w], store) /\ rec \in Records
        /\ runs \in [Attempts -> MlflowRuns] /\ thread \in [Workers -> Maybe]
        /\ store \in [Maybe \X Files -> Maybe]
        /\ cut \subseteq Attempts /\ Attempt(w) \in Maybe
    BY Here
  <1>s. /\ UNCHANGED <<thread, runs, faulty>>
        /\ worker[w].pc \in {"start", "record", "iterate", "put", "complete", "finish", "mark"}
        /\ Attempt(w) # 0
    BY <1>h DEF StorageFails, ProgressInv
  <1>c. cut' \subseteq Attempts
    <2>1. Attempt(w) \in Attempts
      BY <1>h, <1>s, IterationsPositive DEF Maybe, Attempts
    <2> QED
      BY <2>1, <1>h DEF StorageFails
  <1>a. ASSUME Abort(w, "failed")
        PROVE  \E k \in Processes :
                 /\ worker' = [worker EXCEPT ![w] = k] /\ k.pc = "finish"
                 /\ k.attempt = Attempt(w) /\ k.verdict = "failed"
    BY <1>a, Aborts DEF Verdicts
  <1>g. ASSUME Goto(w, "close")
        PROVE  \E k \in Processes :
                 worker' = [worker EXCEPT ![w] = k] /\ k.pc = "close" /\ k.attempt = Attempt(w)
    BY <1>g, Goes DEF Steps
  <1>1. CASE worker[w].pc \in {"record", "iterate"}
    <2>1. Abort(w, "failed") /\ UNCHANGED <<rec, store>> /\ ~Over(worker[w])
      BY <1>1 DEF StorageFails, Over
    <2>2. PICK k \in Processes :
            /\ worker' = [worker EXCEPT ![w] = k] /\ k.pc = "finish"
            /\ k.attempt = Attempt(w) /\ k.verdict = "failed"
      BY <2>1, <1>a
    <2> QED
      BY <2>1, <2>2, <1>s, <1>c, <1>h, GoKeepsInv
  <1>2. CASE worker[w].pc = "put"
    <2>1. /\ Abort(w, "failed") /\ rec' = rec /\ ~Over(worker[w])
          /\ \/ store' = store
             \/ store' = [store EXCEPT ![Path(Attempt(w), PutFile(w))] = 0]
      BY <1>2 DEF StorageFails, Over
    <2>2. PICK k \in Processes :
            /\ worker' = [worker EXCEPT ![w] = k] /\ k.pc = "finish"
            /\ k.attempt = Attempt(w) /\ k.verdict = "failed"
      BY <2>1, <1>a
    <2>3. ProgressInv(k, store')
      BY <2>2, <1>s, PlainProgress
    <2>4. CASE store' = store
      BY <2>1, <2>2, <2>3, <2>4, <1>s, <1>c, <1>h, MoveKeepsInv
    <2>5. CASE store' = [store EXCEPT ![Path(Attempt(w), PutFile(w))] = 0]
      <3>1. /\ store' \in [Maybe \X Files -> Maybe]
            /\ \A b \in Maybe : b # Attempt(w) =>
                 \A f \in Files : store'[Path(b, f)] = store[Path(b, f)]
        BY <1>2, <2>5, PutTypes
      <3>2. /\ rec'.status = "completed" /\ rec.status # "completed" => FALSE
            /\ rec' \in Records /\ rec'.attempts = rec.attempts /\ rec'.result = rec.result
        BY <2>1, <1>h
      <3> QED
        BY <3>1, <3>2, <2>1, <2>2, <2>3, <1>s, <1>c, <1>h, StepKeepsInv
    <2> QED
      BY <2>1, <2>4, <2>5
  <1>3. CASE worker[w].pc = "complete"
    <2>1. /\ Abort(w, "failed") /\ store' = store /\ rec' \in {rec, Completed(w)}
          /\ rec' # rec => ~Ended
      BY <1>3 DEF StorageFails, Owned
    <2>2. PICK k \in Processes :
            /\ worker' = [worker EXCEPT ![w] = k] /\ k.pc = "finish"
            /\ k.attempt = Attempt(w) /\ k.verdict = "failed"
      BY <2>1, <1>a
    <2> QED
      BY <1>3, <2>1, <2>2, <1>s, <1>c, CompletionKeepsInv
  <1>4. CASE worker[w].pc = "finish"
    <2>1. Goto(w, "close") /\ store' = store /\ rec' \in {rec, Finished(w)}
      BY <1>4 DEF StorageFails
    <2>2. PICK k \in Processes :
            worker' = [worker EXCEPT ![w] = k] /\ k.pc = "close" /\ k.attempt = Attempt(w)
      BY <2>1, <1>g
    <2>3. /\ rec' \in Records /\ rec'.attempts = rec.attempts /\ rec'.result = rec.result
          /\ rec'.status = "completed" => rec.status = "completed"
      BY <1>4, <2>1, <1>h, FinishedRecord
    <2>4. Over(k)
      BY <2>2 DEF Over
    <2> QED
      BY <2>1, <2>2, <2>3, <2>4, <1>s, <1>c, <1>h, GoKeepsInv
  <1>5. CASE worker[w].pc = "mark"
    <2>1. /\ store' = store /\ rec' \in {rec, Marked(w)}
          /\ IF worker[w].next = "close" THEN Goto(w, "close") ELSE Abort(w, "failed")
      BY <1>5 DEF StorageFails
    <2>2. /\ rec' \in Records /\ rec'.attempts = rec.attempts /\ rec'.status = rec.status
          /\ rec'.result = rec.result
      BY <2>1, MarkedRecord
    <2>3. PICK k \in Processes :
            /\ worker' = [worker EXCEPT ![w] = k] /\ k.attempt = Attempt(w)
            /\ k.pc = "close" \/ (k.pc = "finish" /\ k.verdict = "failed")
      BY <2>1, <1>a, <1>g
    <2>4. Over(k)
      BY <2>3 DEF Over
    <2> QED
      BY <2>1, <2>2, <2>3, <2>4, <1>s, <1>c, <1>h, GoKeepsInv
  <1>6. CASE worker[w].pc = "start"
    <2>1. Goto(w, "close") /\ UNCHANGED <<rec, store>>
      BY <1>6 DEF StorageFails
    <2>2. PICK k \in Processes :
            worker' = [worker EXCEPT ![w] = k] /\ k.pc = "close" /\ k.attempt = Attempt(w)
      BY <2>1, <1>g
    <2>3. Over(k)
      BY <2>2 DEF Over
    <2> QED
      BY <2>1, <2>2, <2>3, <1>s, <1>c, <1>h, GoKeepsInv
  <1> QED
    BY <1>1, <1>2, <1>3, <1>4, <1>5, <1>6, <1>s

\* A claim begins an attempt that no worker is at.
LEMMA ClaimKeepsInv ==
    ASSUME Inv, NEW w \in Workers, Claim(w)
    PROVE  Inv'
  <1>t. /\ rec \in Records /\ worker \in [Workers -> Processes]
        /\ runs \in [Attempts -> MlflowRuns] /\ thread \in [Workers -> Maybe]
        /\ store \in [Maybe \X Files -> Maybe] /\ cut \subseteq Attempts
        /\ faulty \in Scenarios /\ Idle \in Processes
    BY Typed, Here
  <1>s. /\ UNCHANGED <<thread, runs, store, cut, faulty>>
        /\ rec.attempts < MaxClaims /\ ~Ended
    BY DEF Claim
  <1>n. /\ rec.attempts + 1 \in Maybe /\ rec.attempts \in Nat /\ rec.attempts + 1 # 0
    BY <1>t, <1>s, IterationsPositive DEF Records, Maybe
  <1>k. PICK k \in Processes :
          /\ k.pc = "start" /\ k.attempt = rec.attempts + 1 /\ k.count = 0
          /\ worker' = [worker EXCEPT ![w] = k]
    <2>1. /\ [Idle EXCEPT !.pc = "start", !.attempt = rec.attempts + 1] \in Processes
          /\ [Idle EXCEPT !.pc = "start", !.attempt = rec.attempts + 1].pc = "start"
          /\ [Idle EXCEPT !.pc = "start", !.attempt = rec.attempts + 1].attempt
               = rec.attempts + 1
          /\ [Idle EXCEPT !.pc = "start", !.attempt = rec.attempts + 1].count = 0
      BY <1>t, <1>n DEF Processes, Idle
    <2>2. worker' = [worker EXCEPT ![w] =
                       [Idle EXCEPT !.pc = "start", !.attempt = rec.attempts + 1]]
      BY DEF Claim, Become
    <2> QED
      BY <2>1, <2>2
  <1>r. /\ rec' \in Records /\ rec'.attempts = rec.attempts + 1 /\ rec'.status = "running"
    <2>1. rec' = [rec EXCEPT !.attempts = rec.attempts + 1, !.leased = TRUE,
                             !.status = "running"]
      BY DEF Claim
    <2> QED
      BY <2>1, <1>t, <1>n DEF Records
  <1>w. /\ worker' \in [Workers -> Processes] /\ worker'[w] = k
        /\ \A v \in Workers : v # w => worker'[v] = worker[v]
    BY <1>t, <1>k
  <1>p. \A v \in Workers :
          /\ ProgressInv(worker[v], store)
          /\ Attempt(v) <= rec.attempts
    BY DEF Inv
  <1>d. \A v, u \in Workers : v # u /\ Attempt(v) = Attempt(u) => Attempt(u) = 0
    BY DEF Inv
  <1>m. \A v \in Workers : worker[v].attempt \in Nat
    BY <1>t, IterationsPositive DEF Processes, Maybe
  <1>1. TypeOK'
    BY <1>t, <1>w, <1>r, <1>s
       DEF TypeOK, Records, Processes, MlflowRuns, Maybe, Attempts, Points, Files
  <1>2. ProgressInv(k, store)
    BY <1>k, <1>n, IterationsPositive DEF ProgressInv
  <1>3. \A v \in Workers : ProgressInv(worker'[v], store')
    BY <1>2, <1>w, <1>p, <1>s
  <1>4. \A v \in Workers : worker'[v].attempt <= rec'.attempts
    BY <1>w, <1>p, <1>k, <1>r, <1>n, <1>m DEF Attempt
  <1>5. \A v, u \in Workers :
          v # u /\ worker'[v].attempt = worker'[u].attempt => worker'[u].attempt = 0
    <2>1. ASSUME NEW v \in Workers
          PROVE  worker[v].attempt # rec.attempts + 1
      <3>1. worker[v].attempt <= rec.attempts /\ worker[v].attempt \in Nat
        BY <1>p, <1>m DEF Attempt
      <3> QED
        BY <3>1, <1>n
    <2> QED
      BY <2>1, <1>w, <1>d, <1>k DEF Attempt
  <1> QED
    BY <1>1, <1>3, <1>4, <1>5, <1>r DEF Inv, CompletedInv, Attempt

LEMMA LapseKeepsInv ==
    ASSUME Inv, Lapse
    PROVE  Inv'
  <1>t. /\ rec \in Records /\ worker \in [Workers -> Processes]
        /\ runs \in [Attempts -> MlflowRuns] /\ thread \in [Workers -> Maybe]
        /\ store \in [Maybe \X Files -> Maybe] /\ cut \subseteq Attempts
        /\ faulty \in Scenarios
    BY Typed
  <1>s. UNCHANGED <<worker, thread, runs, store, cut, faulty>>
    BY DEF Lapse
  <1>r. /\ rec' \in Records /\ rec'.attempts = rec.attempts /\ rec'.status = rec.status
        /\ rec'.result = rec.result
    BY <1>t DEF Lapse, Records
  <1>1. TypeOK'
    BY <1>t, <1>r, <1>s
       DEF TypeOK, Records, Processes, MlflowRuns, Maybe, Attempts, Points, Files
  <1> QED
    BY <1>1, <1>r, <1>s DEF Inv, CompletedInv, Attempt

LEMMA StutterKeepsInv == Inv /\ UNCHANGED vars => Inv'
  BY DEF Inv, vars, CompletedInv, Attempt, TypeOK, Maybe, Attempts, Points, Files

-----------------------------------------------------------------------------
\* The files of a completed record are there because its attempt put them there before it
\* completed, each under a path of its own attempt, and is done with them.
THEOREM InvInvariant == Spec => []Inv
  <1>1. Init => Inv
    <2> SUFFICES ASSUME Init PROVE Inv
      OBVIOUS
    <2>1. Idle \in Processes
      BY IterationsPositive DEF Idle, Processes, Maybe, Verdicts, TrackedSteps
    <2>2. NoRun \in MlflowRuns
      BY IterationsPositive DEF NoRun, MlflowRuns, Maybe
    <2>3. TypeOK
      <3>1. rec \in Records
        BY IterationsPositive DEF Init, Records, Maybe
      <3>2. /\ worker \in [Workers -> Processes] /\ runs \in [Attempts -> MlflowRuns]
            /\ thread \in [Workers -> Maybe] /\ store \in [Maybe \X Files -> Maybe]
            /\ cut \subseteq Attempts /\ faulty \in Scenarios
        BY <2>1, <2>2, IterationsPositive DEF Init, Maybe
      <3> QED
        BY <3>1, <3>2 DEF TypeOK, Records, Processes, MlflowRuns
    <2>4. \A w \in Workers : worker[w].pc = "idle" /\ worker[w].attempt = 0
      BY DEF Init, Idle
    <2>5. rec.status = "queued" /\ rec.attempts = 0
      BY DEF Init
    <2> QED
      BY <2>3, <2>4, <2>5 DEF Inv, ProgressInv, CompletedInv, Attempt
  <1>2. Inv /\ [Next]_vars => Inv'
    <2> SUFFICES ASSUME Inv, [Next]_vars PROVE Inv'
      OBVIOUS
    <2>1. ASSUME NEW w \in Workers, WorkerStep(w) PROVE Inv'
      BY <2>1, ClaimKeepsInv, StartKeepsInv, RecordRunKeepsInv, IterateKeepsInv,
         MetricKeepsInv, MarkKeepsInv, PutKeepsInv, CompleteKeepsInv, FinishKeepsInv,
         EndTrackingKeepsInv, LeavingKeepsInv, InterruptionKeepsInv DEF WorkerStep, GivesUp
    <2>2. ASSUME NEW w \in Workers,
                 \/ EngineRaises(w) \/ Cancelled(w) \/ LeaseLost(w) \/ StorageFails(w)
                 \/ Crash(w)
          PROVE  Inv'
      BY <2>2, InterruptionKeepsInv, StorageFailureKeepsInv, LeavingKeepsInv DEF GivesUp
    <2>3. CASE Lapse
      BY <2>3, LapseKeepsInv
    <2>4. CASE UNCHANGED vars
      BY <2>4, StutterKeepsInv
    <2> QED
      BY <2>1, <2>2, <2>3, <2>4 DEF Next
  <1> QED
    BY <1>1, <1>2, PTL DEF Spec

\* The variables keep their types (Publishing.tla).
THEOREM TypeCorrect == Spec => []TypeOK
  <1>1. Inv => TypeOK
    BY DEF Inv
  <1> QED
    BY <1>1, InvInvariant, PTL

\* The files a completed record names are whole and of its attempt for ever, for any
\* number of workers and attempts and whatever fails (worker.py 246-265).
THEOREM FilesIntact == Spec => []ArtifactsIntact
  <1>1. Inv => ArtifactsIntact
    BY DEF Inv, CompletedInv, Placed, ArtifactsIntact, Files
  <1> QED
    BY <1>1, InvInvariant, PTL

LEMMA SameRecord ==
    ASSUME NEW r \in Records
    PROVE  r = [r EXCEPT !.marked = r.marked]
  BY Zenon DEF Records

\* What the mutations do to the mark.
LEMMA MarkOnly ==
    ASSUME Inv, NEW w \in Workers
    PROVE  /\ Completed(w).marked = rec.marked /\ Finished(w).marked = rec.marked
           /\ [rec EXCEPT !.run = Attempt(w)].marked = rec.marked
           /\ [rec EXCEPT !.leased = FALSE].marked = rec.marked
           /\ \A a : [rec EXCEPT !.attempts = a, !.leased = TRUE, !.status = "running"].marked
                       = rec.marked
           /\ Marked(w) = [rec EXCEPT !.marked = Marked(w).marked]
           /\ Marked(w).marked # rec.marked => Attempt(w) = rec.attempts
  <1>1. rec \in Records
    BY Typed
  <1>2. /\ Completed(w).marked = rec.marked /\ Finished(w).marked = rec.marked
        /\ [rec EXCEPT !.run = Attempt(w)].marked = rec.marked
        /\ [rec EXCEPT !.leased = FALSE].marked = rec.marked
        /\ \A a : [rec EXCEPT !.attempts = a, !.leased = TRUE, !.status = "running"].marked
                    = rec.marked
    BY <1>1 DEF Records, Completed, Finished
  <1>3. CASE rec.attempts = Attempt(w)
    <2>1. Marked(w) = [rec EXCEPT !.marked = TRUE]
      BY <1>3 DEF Marked
    <2>2. [rec EXCEPT !.marked = TRUE].marked = TRUE
      BY <1>1 DEF Records
    <2> QED
      BY <2>1, <2>2, <1>2, <1>3, Zenon
  <1>4. CASE rec.attempts # Attempt(w)
    <2>1. Marked(w) = rec
      BY <1>4 DEF Marked
    <2> QED
      BY <2>1, <1>1, <1>2, SameRecord, Zenon
  <1> QED
    BY <1>3, <1>4

\* Nothing of a terminal record changes but the mark, which only the worker of its last
\* attempt sets, at the mark of a tracking failure (worker.py 163-168).
THEOREM EndedMarked == Spec => EndedOnlyMarked
  <1>1. Inv /\ [Next]_vars =>
          [/\ Ended => rec' = [rec EXCEPT !.marked = rec'.marked]
           /\ rec'.marked # rec.marked =>
                \E w \in Workers : worker[w].pc = "mark" /\ Attempt(w) = rec.attempts]_vars
    <2> SUFFICES ASSUME Inv, [Next]_vars
                 PROVE  /\ Ended => rec' = [rec EXCEPT !.marked = rec'.marked]
                        /\ rec'.marked # rec.marked =>
                             \E w \in Workers : worker[w].pc = "mark" /\ Attempt(w) = rec.attempts
      OBVIOUS
    <2>r. rec = [rec EXCEPT !.marked = rec.marked]
      BY Typed, SameRecord
    <2>1. CASE rec' = rec
      BY <2>1, <2>r, Zenon
    <2>2. CASE rec' # rec
      <3>1. ASSUME NEW w \in Workers, rec' = Marked(w), worker[w].pc = "mark"
            PROVE  /\ rec' = [rec EXCEPT !.marked = rec'.marked]
                   /\ rec'.marked # rec.marked => Attempt(w) = rec.attempts
        BY <3>1, MarkOnly, Zenon
      <3>2. ASSUME NEW w \in Workers, WorkerStep(w)
            PROVE  \/ rec' = Marked(w) /\ worker[w].pc = "mark"
                   \/ ~Ended /\ rec'.marked = rec.marked
        <4>1. CASE Claim(w)
          BY <4>1, MarkOnly DEF Claim
        <4>2. CASE RecordRun(w)
          BY <4>2, <2>2, MarkOnly DEF RecordRun, Owned
        <4>3. CASE Mark(w)
          BY <4>3 DEF Mark
        <4>4. CASE Complete(w)
          BY <4>4, <2>2, MarkOnly DEF Complete, Owned
        <4>5. CASE Finish(w)
          BY <4>5, <2>2, MarkOnly DEF Finish, Owned
        <4>6. CASE \/ LimitReached(w) \/ Start(w) \/ StartFails(w) \/ Iterate(w)
                   \/ TrackMetric(w) \/ Put(w)
                   \/ EndTracking(w) \/ EndTrackingFails(w) \/ Close(w)
          BY <4>6, <2>2 DEF LimitReached, Start, StartFails, Iterate, TrackMetric, Put, EndTracking,
             EndTrackingFails, Close
        <4> QED
          BY <3>2, <4>1, <4>2, <4>3, <4>4, <4>5, <4>6 DEF WorkerStep
      <3>3. ASSUME NEW w \in Workers,
                   \/ EngineRaises(w) \/ Cancelled(w) \/ LeaseLost(w) \/ StorageFails(w)
                   \/ Crash(w)
            PROVE  \/ rec' = Marked(w) /\ worker[w].pc = "mark"
                   \/ ~Ended /\ rec'.marked = rec.marked
        <4>1. StorageFails(w)
          BY <3>3, <2>2 DEF EngineRaises, Cancelled, LeaseLost, Crash
        <4>2. \/ rec' = Marked(w) /\ worker[w].pc = "mark"
              \/ (rec' = Completed(w) \/ rec' = Finished(w)) /\ ~Ended
          BY <4>1, <2>2 DEF StorageFails, Owned
        <4> QED
          BY <4>2, MarkOnly
      <3>4. CASE Lapse
        BY <3>4, <2>2, MarkOnly DEF Lapse
      <3>5. ASSUME NEW w \in Workers,
                   \/ rec' = Marked(w) /\ worker[w].pc = "mark"
                   \/ ~Ended /\ rec'.marked = rec.marked
            PROVE  /\ Ended => rec' = [rec EXCEPT !.marked = rec'.marked]
                   /\ rec'.marked # rec.marked =>
                        \E v \in Workers : worker[v].pc = "mark" /\ Attempt(v) = rec.attempts
        BY <3>1, <3>5, Zenon
      <3>6. CASE Next
        BY <3>2, <3>3, <3>4, <3>5, <3>6 DEF Next
      <3>7. CASE UNCHANGED vars
        BY <3>7, <2>2 DEF vars
      <3> QED
        BY <3>6, <3>7
    <2> QED
      BY <2>1, <2>2
  <1> QED
    BY <1>1, InvInvariant, PTL DEF Spec, EndedOnlyMarked

-----------------------------------------------------------------------------
(***************************************************************************)
(* Tracking: a completed record without the mark has its MLflow run, and   *)
(* a failing MLflow harms nothing but itself.                              *)
(***************************************************************************)

\* The observations 1 .. n of attempt a are in its run.
Logged(a, n) == \A i \in Points : i <= n => runs[a].points[i] = a

\* The run of attempt a is what a completed record without the mark promises.
RunWhole(a) ==
    rec.run = a /\ runs[a].status = "FINISHED" /\ runs[a].summary /\ Logged(a, Iterations)

\* A worker that is through with an attempt has forgotten it, and MLflow holds at most the
\* run of a worker's own attempt active on its thread.
ThreadInv ==
    \A w \in Workers :
        /\ worker[w].pc = "idle" => Attempt(w) = 0
        /\ thread[w] # 0 => thread[w] = Attempt(w) /\ worker[w].active
        /\ worker[w].pc = "start" => thread[w] = 0

\* The tracking of the latest attempt has not failed so far.
Untroubled(w) == Attempt(w) = rec.attempts /\ Attempt(w) \notin cut /\ ~rec.marked

\* Where worker w is at an attempt whose tracking has not failed.
TrackedSoFar(w) ==
    LET a == Attempt(w)
        k == worker[w]
    IN  /\ k.pc \in {"record", "iterate", "metric", "put", "complete"} => thread[w] = a
        /\ k.pc \in {"iterate", "metric", "put", "complete"} => rec.run = a
        /\ k.pc \in {"start", "record", "iterate", "metric", "put"} => Logged(a, k.count)
        /\ k.pc = "complete" => Logged(a, Iterations)
        /\ rec.status = "completed" =>
             \/ /\ k.pc = "end" /\ k.verdict = "completed" /\ Logged(a, Iterations)
                /\ thread[w] = a /\ rec.run = a
             \/ k.pc = "close" /\ ~k.active /\ RunWhole(a)
             \/ k.pc = "mark" /\ k.next = "close"

TrackingInv ==
    /\ ThreadInv
    /\ rec.status = "completed" => rec.result = rec.attempts
    /\ \A w \in Workers : Attempt(w) # 0 /\ Untroubled(w) => TrackedSoFar(w)
    /\ UnmarkedTrackingWhole

\* The steps of an attempt until it has done with the record.
Underway(k) ==
    \/ k.pc \in {"start", "record", "iterate", "metric", "put", "complete"}
    \/ k.pc = "mark" /\ k.next = "iterate"

\* If nothing fails but MLflow, the first attempt goes through.
OnlyTrackingInv ==
    \/ rec.attempts = 0 /\ rec.status = "queued" /\ ~rec.leased
    \/ /\ rec.attempts = 1 /\ rec.status = "running" /\ rec.leased
       /\ \E w \in Workers : Attempt(w) = 1 /\ Underway(worker[w])
    \/ rec.attempts = 1 /\ rec.status = "completed"

\* What does not happen in a scenario leaves no trace.
ScenarioInv ==
    /\ "tracking" \notin faulty => ~rec.marked /\ \A w \in Workers : worker[w].pc # "mark"
    /\ "storage" \notin faulty /\ "crash" \notin faulty => cut = {}
    /\ faulty \cap {"storage", "engine", "cancel"} = {} =>
         /\ rec.status = "failed" => rec.attempts > MaxAttempts
         /\ \A w \in Workers : worker[w].pc = "finish" => Attempt(w) > MaxAttempts
    /\ faulty = {"tracking"} => OnlyTrackingInv

\* The script believes the record.
SmokeInv ==
    /\ smoke = "completed" => rec.status = "completed"
    /\ smoke = "failed" => rec.status = "failed"

-----------------------------------------------------------------------------
\* A step of worker w that keeps its attempt or ends it: other workers keep their runs,
\* and only the owner of an open record writes more than the mark.
OwnStep(w) ==
    /\ \A v \in Workers : v # w => worker'[v] = worker[v] /\ thread'[v] = thread[v]
    /\ worker'[w].attempt \in {Attempt(w), 0}
    /\ \A a \in Attempts : a # Attempt(w) => runs'[a] = runs[a]
    /\ cut \subseteq cut' /\ (rec.marked => rec'.marked) /\ rec'.attempts = rec.attempts
    /\ \/ rec'.run = rec.run /\ rec'.status = rec.status /\ rec'.result = rec.result
       \/ /\ Attempt(w) = rec.attempts /\ Attempt(w) # 0 /\ ~Ended
          /\ rec'.status = "completed" =>
               rec'.result = Attempt(w) /\ worker'[w].attempt = Attempt(w)

OwnThread(w) ==
    /\ worker'[w].pc = "idle" => worker'[w].attempt = 0
    /\ thread'[w] # 0 => thread'[w] = worker'[w].attempt /\ worker'[w].active
    /\ worker'[w].pc # "start"

LEMMA RangeFacts ==
    ASSUME Inv, NEW w \in Workers, Attempt(w) # 0
    PROVE  Attempt(w) \in Attempts /\ Attempt(w) \in Nat /\ rec.attempts \in Nat
  <1>1. Attempt(w) \in Maybe /\ rec \in Records
    BY Here
  <1> QED
    BY <1>1, IterationsPositive DEF Maybe, Attempts, Records

\* The run of an attempt looks the same where nothing of it was written.
LEMMA SameRun ==
    ASSUME NEW a, runs'[a] = runs[a]
    PROVE  /\ \A n : Logged(a, n)' <=> Logged(a, n)
           /\ rec'.run = rec.run => (RunWhole(a)' <=> RunWhole(a))
  BY DEF Logged, RunWhole

\* Another worker's tracking is as it was.
LEMMA OthersTracked ==
    ASSUME Inv, TrackingInv, NEW w \in Workers, OwnStep(w), NEW v \in Workers, v # w,
           Attempt(v)' # 0, Untroubled(v)'
    PROVE  TrackedSoFar(v)'
  <1>1. /\ Attempt(v)' = Attempt(v) /\ worker'[v] = worker[v] /\ thread'[v] = thread[v]
        /\ Attempt(v) # 0 /\ Untroubled(v)
    BY DEF OwnStep, Untroubled, Attempt
  <1>2. Attempt(v) # Attempt(w)
    BY <1>1 DEF Inv
  <1>3. runs'[Attempt(v)] = runs[Attempt(v)]
    BY <1>1, <1>2, RangeFacts DEF OwnStep
  <1>4. rec'.run = rec.run /\ rec'.status = rec.status
    BY <1>1, <1>2 DEF OwnStep, Untroubled
  <1>5. /\ \A n : Logged(Attempt(v), n)' <=> Logged(Attempt(v), n)
        /\ RunWhole(Attempt(v))' <=> RunWhole(Attempt(v))
    BY <1>1, <1>3, <1>4, SameRun
  <1>6. TrackedSoFar(v)
    BY <1>1 DEF TrackingInv
  <1> QED
    BY <1>1, <1>4, <1>5, <1>6 DEF TrackedSoFar

LEMMA StepKeepsTracking ==
    ASSUME Inv, Inv', TrackingInv, NEW w \in Workers, OwnStep(w), OwnThread(w),
           Attempt(w)' # 0 /\ Untroubled(w)' => TrackedSoFar(w)',
           NEW a, a = Attempt(w),
           /\ rec.status = "completed" /\ rec.result = a /\ worker'[w].attempt = 0
           /\ ~rec'.marked /\ a \notin cut'
           => RunWhole(a)'
    PROVE  TrackingInv'
  <1>1. ThreadInv'
    <2>1. ASSUME NEW v \in Workers
          PROVE  /\ worker'[v].pc = "idle" => worker'[v].attempt = 0
                 /\ thread'[v] # 0 => thread'[v] = worker'[v].attempt /\ worker'[v].active
                 /\ worker'[v].pc = "start" => thread'[v] = 0
      BY <2>1 DEF OwnStep, OwnThread, TrackingInv, ThreadInv, Attempt
    <2> QED
      BY <2>1 DEF ThreadInv, Attempt
  <1>2. (rec.status = "completed" => rec.result = rec.attempts)'
    BY DEF OwnStep, TrackingInv
  <1>3. \A v \in Workers : Attempt(v)' # 0 /\ Untroubled(v)' => TrackedSoFar(v)'
    BY OthersTracked
  <1>4. UnmarkedTrackingWhole'
    <2> SUFFICES ASSUME NEW r, r = rec'.result,
                        rec'.status = "completed", ~rec'.marked, r \notin cut',
                        \A v \in Workers : worker'[v].attempt # r
                 PROVE  RunWhole(r)'
      BY IterationsPositive DEF UnmarkedTrackingWhole, Attempt, RunWhole, Logged, Points
    <2>1. rec.status = "completed" /\ rec.result = r /\ rec'.run = rec.run
      BY DEF OwnStep, Ended, Attempt
    <2>2. ~rec.marked /\ r \notin cut
      BY <2>1 DEF OwnStep
    <2>3. r # 0 /\ r \in Attempts
      <3>1. rec \in Records /\ r # 0
        BY <2>1, Typed DEF Inv, CompletedInv
      <3> QED
        BY <2>1, <3>1, IterationsPositive DEF Records, Maybe, Attempts
    <2>4. CASE a = r
      <3>1. worker'[w].attempt = 0
        BY <2>1, <2>4 DEF OwnStep
      <3> QED
        BY <2>1, <2>4, <3>1
    <2>5. CASE a # r
      <3>1. \A v \in Workers : Attempt(v) # r
        BY <2>1, <2>5 DEF OwnStep, Attempt
      <3>2. RunWhole(r)
        BY <2>1, <2>2, <3>1, IterationsPositive
           DEF TrackingInv, UnmarkedTrackingWhole, RunWhole, Logged, Points
      <3>3. runs'[r] = runs[r]
        BY <2>3, <2>5 DEF OwnStep
      <3> QED
        BY <2>1, <3>2, <3>3, SameRun
    <2> QED
      BY <2>4, <2>5
  <1> QED
    BY <1>1, <1>2, <1>3, <1>4 DEF TrackingInv


-----------------------------------------------------------------------------
\* An attempt that is not over has not completed the record.
LEMMA NotYetCompleted ==
    ASSUME Inv, TrackingInv, NEW w \in Workers, Attempt(w) # 0, Attempt(w) = rec.attempts,
           ~Over(worker[w])
    PROVE  rec.status # "completed"
  BY Here DEF TrackingInv

\* A worker goes on with the attempt and leaves MLflow alone.
LEMMA MoveKeepsTracking ==
    ASSUME Inv, Inv', TrackingInv, NEW w \in Workers, NEW k \in Processes,
           worker' = [worker EXCEPT ![w] = k], k.attempt = Attempt(w), Attempt(w) # 0,
           k.active = worker[w].active, k.pc \notin {"idle", "start"},
           UNCHANGED <<thread, runs>>, cut \subseteq cut', rec.marked => rec'.marked,
           rec'.attempts = rec.attempts,
           \/ rec'.run = rec.run /\ rec'.status = rec.status /\ rec'.result = rec.result
           \/ /\ Attempt(w) = rec.attempts /\ ~Ended
              /\ rec'.status = "completed" => rec'.result = Attempt(w),
           Untroubled(w)' => TrackedSoFar(w)'
    PROVE  TrackingInv'
  <1>1. worker'[w] = k /\ \A v \in Workers : v # w => worker'[v] = worker[v]
    BY Typed
  <1>2. OwnStep(w)
    BY <1>1 DEF OwnStep
  <1>3. OwnThread(w)
    BY <1>1 DEF OwnThread, TrackingInv, ThreadInv
  <1>4. PICK a : a = Attempt(w)
    OBVIOUS
  <1>5. Attempt(w)' # 0
    BY <1>1 DEF Attempt
  <1> QED
    BY <1>1, <1>2, <1>3, <1>4, <1>5, StepKeepsTracking

\* What is left of the tracking when worker w has gone on.
LEMMA WhatWasTracked ==
    ASSUME Inv, TrackingInv, NEW w \in Workers, NEW k \in Processes,
           worker' = [worker EXCEPT ![w] = k], k.attempt = Attempt(w), Attempt(w) # 0,
           cut \subseteq cut', rec.marked => rec'.marked, rec'.attempts = rec.attempts
    PROVE  /\ worker'[w] = k /\ Attempt(w)' = Attempt(w)
           /\ Untroubled(w)' =>
                /\ Untroubled(w) /\ TrackedSoFar(w) /\ Attempt(w) = rec.attempts
                /\ ~Over(worker[w]) => rec.status # "completed"
  <1>1. worker'[w] = k
    BY Typed
  <1>2. Attempt(w)' = Attempt(w)
    BY <1>1 DEF Attempt
  <1>3. Untroubled(w)' => Untroubled(w) /\ Attempt(w) = rec.attempts
    BY <1>2 DEF Untroubled
  <1> QED
    BY <1>1, <1>2, <1>3, NotYetCompleted DEF TrackingInv

LEMMA RecordRunTracking ==
    ASSUME Inv, Inv', TrackingInv, NEW w \in Workers, RecordRun(w)
    PROVE  TrackingInv'
  <1>h. /\ worker[w] \in Processes /\ Attempt(w) = worker[w].attempt
        /\ ProgressInv(worker[w], store) /\ rec \in Records
    BY Here
  <1>s. /\ worker[w].pc = "record" /\ UNCHANGED <<thread, runs, store, cut, faulty>>
        /\ Attempt(w) # 0 /\ ~Over(worker[w])
    BY <1>h DEF RecordRun, ProgressInv, Over
  <1>r. \A a, n : Logged(a, n)' <=> Logged(a, n)
    BY <1>s DEF Logged
  <1>1. CASE Owned(w)
    <2>1. PICK k \in Processes :
            /\ worker' = [worker EXCEPT ![w] = k] /\ k.pc = "iterate"
            /\ k.attempt = Attempt(w) /\ k.count = worker[w].count
            /\ k.active = worker[w].active
      BY <1>1, Goes DEF RecordRun, Steps
    <2>2. rec' = [rec EXCEPT !.run = Attempt(w)]
      BY <1>1 DEF RecordRun
    <2>3. /\ rec'.attempts = rec.attempts /\ rec'.status = rec.status
          /\ rec'.run = Attempt(w) /\ rec'.marked = rec.marked
      BY <2>2, <1>h DEF Records
    <2>4. Untroubled(w)' => TrackedSoFar(w)'
      <3>1. /\ worker'[w] = k /\ Attempt(w)' = Attempt(w)
            /\ Untroubled(w)' => TrackedSoFar(w) /\ rec.status # "completed"
        BY <2>1, <2>3, <1>s, WhatWasTracked
      <3> QED
        BY <3>1, <2>1, <2>3, <1>s, <1>r DEF TrackedSoFar
    <2>5. Attempt(w) = rec.attempts /\ ~Ended /\ rec'.status # "completed"
      BY <1>1, <2>3 DEF Owned, Ended
    <2> QED
      BY <2>1, <2>3, <2>4, <2>5, <1>s, MoveKeepsTracking
  <1>2. CASE ~Owned(w)
    <2>1. PICK k \in Processes :
            /\ worker' = [worker EXCEPT ![w] = k] /\ k.pc = "close"
            /\ k.attempt = Attempt(w) /\ k.active = worker[w].active
      BY <1>2, Goes DEF RecordRun, Steps
    <2>2. rec' = rec
      BY <1>2 DEF RecordRun
    <2>3. Untroubled(w)' => TrackedSoFar(w)'
      <3>1. worker'[w] = k /\ (Untroubled(w)' => rec.status # "completed")
        BY <2>1, <2>2, <1>s, WhatWasTracked
      <3> QED
        BY <3>1, <2>1, <2>2 DEF TrackedSoFar
    <2> QED
      BY <2>1, <2>2, <2>3, <1>s, MoveKeepsTracking
  <1> QED
    BY <1>1, <1>2

\* Steps that change nothing but where the worker is.
LEMMA IterationTracking ==
    ASSUME Inv, Inv', TrackingInv, NEW w \in Workers, Iterate(w)
    PROVE  TrackingInv'
  <1>h. /\ worker[w] \in Processes /\ Attempt(w) = worker[w].attempt
        /\ ProgressInv(worker[w], store)
    BY Here
  <1>s. /\ worker[w].pc = "iterate" /\ UNCHANGED <<rec, thread, runs, store, cut, faulty>>
        /\ Attempt(w) # 0 /\ ~Over(worker[w])
    BY <1>h DEF Iterate, ProgressInv, Over
  <1>r. \A a, n : Logged(a, n)' <=> Logged(a, n)
    BY <1>s DEF Logged
  <1>1. PICK k \in Processes :
          /\ worker' = [worker EXCEPT ![w] = k] /\ k.attempt = Attempt(w)
          /\ k.active = worker[w].active
          /\ k.pc \in {"metric", "put", "close"} /\ k.count = worker[w].count
    <2>1. PICK p \in {"metric", "put", "close"} : Goto(w, p)
      BY DEF Iterate
    <2> QED
      BY <2>1, Goes DEF Steps
  <1>2. Untroubled(w)' => TrackedSoFar(w)'
    <2>1. /\ worker'[w] = k /\ Attempt(w)' = Attempt(w)
          /\ Untroubled(w)' => TrackedSoFar(w) /\ rec.status # "completed"
      BY <1>1, <1>s, WhatWasTracked
    <2> QED
      BY <2>1, <1>1, <1>s, <1>r DEF TrackedSoFar
  <1> QED
    BY <1>1, <1>2, <1>s, MoveKeepsTracking

LEMMA GivingUpTracking ==
    ASSUME Inv, Inv', TrackingInv, NEW w \in Workers, GivesUp(w)
    PROVE  TrackingInv'
  <1>s. /\ UNCHANGED <<rec, thread, runs, store, cut, faulty>> /\ Attempt(w) # 0
        /\ worker[w].pc \in {"start", "iterate", "complete", "finish"}
    BY GivingUpSteps
  <1>1. PICK k \in Processes :
          /\ worker' = [worker EXCEPT ![w] = k] /\ k.pc \in {"finish", "close"}
          /\ k.attempt = Attempt(w) /\ k.active = worker[w].active
    BY GivingUpSteps
  <1>2. Untroubled(w)' => TrackedSoFar(w)'
    <2>1. worker'[w] = k /\ (Untroubled(w)' => TrackedSoFar(w))
      BY <1>1, <1>s, WhatWasTracked
    <2>2. TrackedSoFar(w) => rec.status # "completed"
      BY <1>s DEF TrackedSoFar
    <2> QED
      BY <2>1, <2>2, <1>1, <1>s DEF TrackedSoFar
  <1> QED
    BY <1>1, <1>2, <1>s, MoveKeepsTracking

\* Once the mark is through, the attempt is marked or out of date.
LEMMA MarkTracking ==
    ASSUME Inv, Inv', TrackingInv, NEW w \in Workers, Mark(w)
    PROVE  TrackingInv'
  <1>h. /\ worker[w] \in Processes /\ Attempt(w) = worker[w].attempt
        /\ ProgressInv(worker[w], store) /\ rec \in Records
    BY Here
  <1>s. /\ worker[w].pc = "mark" /\ UNCHANGED <<thread, runs, store, cut, faulty>>
        /\ Attempt(w) # 0 /\ worker[w].next \in TrackedSteps
    BY <1>h DEF Mark, ProgressInv
  <1>1. /\ rec'.attempts = rec.attempts /\ rec'.status = rec.status /\ rec'.run = rec.run
        /\ rec'.result = rec.result
        /\ rec.marked => rec'.marked
        /\ Attempt(w) = rec.attempts => rec'.marked
    <2>1. /\ [rec EXCEPT !.marked = TRUE].attempts = rec.attempts
          /\ [rec EXCEPT !.marked = TRUE].status = rec.status
          /\ [rec EXCEPT !.marked = TRUE].run = rec.run
          /\ [rec EXCEPT !.marked = TRUE].result = rec.result
          /\ [rec EXCEPT !.marked = TRUE].marked = TRUE
      BY <1>h DEF Records
    <2>2. CASE rec.attempts = Attempt(w)
      BY <2>1, <2>2, Zenon DEF Mark, Marked
    <2>3. CASE rec.attempts # Attempt(w)
      BY <2>3, Zenon DEF Mark, Marked
    <2> QED
      BY <2>2, <2>3
  <1>2. PICK k \in Processes :
          /\ worker' = [worker EXCEPT ![w] = k] /\ k.pc = worker[w].next
          /\ k.attempt = Attempt(w) /\ k.active = worker[w].active
    <2>1. worker[w].next \in Steps
      BY <1>s DEF TrackedSteps, Steps
    <2> QED
      BY <2>1, Goes DEF Mark
  <1>3. ~Untroubled(w)'
    <2>1. Attempt(w)' = Attempt(w)
      BY <1>1, <1>2, <1>s, WhatWasTracked
    <2> QED
      BY <2>1, <1>1 DEF Untroubled
  <1>4. k.pc \notin {"idle", "start"}
    BY <1>2, <1>s DEF TrackedSteps
  <1> QED
    BY <1>1, <1>2, <1>3, <1>4, <1>s, MoveKeepsTracking


LEMMA PutTracking ==
    ASSUME Inv, Inv', TrackingInv, NEW w \in Workers, Put(w)
    PROVE  TrackingInv'
  <1>h. /\ worker[w] \in Processes /\ Attempt(w) = worker[w].attempt
        /\ ProgressInv(worker[w], store)
    BY Here
  <1>s. /\ worker[w].pc = "put" /\ UNCHANGED <<rec, thread, runs, cut, faulty>>
        /\ Attempt(w) # 0 /\ ~Over(worker[w])
        /\ worker[w].count >= Iterations /\ worker[w].count <= Iterations + 2
    BY <1>h DEF Put, ProgressInv, Over
  <1>r. \A a, n : Logged(a, n)' <=> Logged(a, n)
    BY <1>s DEF Logged
  <1>q. PICK q \in Processes :
          /\ q = [worker[w] EXCEPT !.count = worker[w].count + 1]
          /\ q.attempt = Attempt(w) /\ q.active = worker[w].active
    <2>1. worker[w].count < Iterations + 3
      BY <1>s, <1>h, IterationsPositive DEF Processes
    <2>2. /\ [worker[w] EXCEPT !.count = worker[w].count + 1] \in Processes
          /\ [worker[w] EXCEPT !.count = worker[w].count + 1].active = worker[w].active
          /\ [worker[w] EXCEPT !.count = worker[w].count + 1].attempt = worker[w].attempt
      BY <2>1, <1>h, CountTypes
    <2> QED
      BY <2>2, <1>h
  <1>1. PICK p \in {"put", "complete"} : worker' = [worker EXCEPT ![w] = At(q, p)]
    BY <1>q, Zenon DEF Put, Become, At
  <1>2. /\ At(q, p) \in Processes /\ At(q, p).pc = p
        /\ At(q, p).attempt = Attempt(w) /\ At(q, p).active = worker[w].active
    <2>1. q.attempt = Attempt(w) /\ q.active = worker[w].active
      BY <1>q
    <2> QED
      BY <2>1, AtTypes DEF Steps
  <1>3. Untroubled(w)' => TrackedSoFar(w)'
    <2> SUFFICES ASSUME Untroubled(w)' PROVE TrackedSoFar(w)'
      OBVIOUS
    <2>1. /\ worker'[w] = At(q, p) /\ Attempt(w)' = Attempt(w)
          /\ TrackedSoFar(w) /\ rec.status # "completed"
      BY <1>1, <1>2, <1>s, WhatWasTracked
    <2>2. \A n : Logged(Attempt(w), n)
      <3>1. worker[w].count \in Nat /\ \A i \in Points : i <= worker[w].count
        BY <1>s, <1>h, IterationsPositive DEF Processes, Points
      <3> QED
        BY <2>1, <3>1, <1>s DEF TrackedSoFar, Logged
    <2> QED
      BY <2>1, <2>2, <1>2, <1>s, <1>r DEF TrackedSoFar
  <1> QED
    BY <1>1, <1>2, <1>3, <1>s, MoveKeepsTracking

LEMMA CompleteTracking ==
    ASSUME Inv, Inv', TrackingInv, NEW w \in Workers, Complete(w)
    PROVE  TrackingInv'
  <1>h. /\ worker[w] \in Processes /\ Attempt(w) = worker[w].attempt
        /\ ProgressInv(worker[w], store) /\ rec \in Records
    BY Here
  <1>s. /\ worker[w].pc = "complete" /\ UNCHANGED <<thread, runs, store, cut, faulty>>
        /\ Attempt(w) # 0 /\ ~Over(worker[w])
    BY <1>h DEF Complete, ProgressInv, Over
  <1>r. \A a, n : Logged(a, n)' <=> Logged(a, n)
    BY <1>s DEF Logged
  <1>1. CASE Owned(w)
    <2>1. /\ [worker[w] EXCEPT !.pc = "end", !.verdict = "completed"] \in Processes
          /\ [worker[w] EXCEPT !.pc = "end", !.verdict = "completed"].pc = "end"
          /\ [worker[w] EXCEPT !.pc = "end", !.verdict = "completed"].attempt = Attempt(w)
          /\ [worker[w] EXCEPT !.pc = "end", !.verdict = "completed"].verdict = "completed"
          /\ [worker[w] EXCEPT !.pc = "end", !.verdict = "completed"].active
               = worker[w].active
      BY <1>h DEF Processes, Verdicts
    <2>2. PICK k \in Processes :
            /\ worker' = [worker EXCEPT ![w] = k] /\ k.pc = "end" /\ k.attempt = Attempt(w)
            /\ k.verdict = "completed" /\ k.active = worker[w].active
      BY <1>1, <2>1, Zenon DEF Complete, Become
    <2>3. /\ rec'.attempts = rec.attempts /\ rec'.status = "completed"
          /\ rec'.result = Attempt(w) /\ rec'.run = rec.run /\ rec'.marked = rec.marked
      BY <1>1, <1>h DEF Complete, Completed, Records
    <2>4. Untroubled(w)' => TrackedSoFar(w)'
      <3>1. /\ worker'[w] = k /\ Attempt(w)' = Attempt(w)
            /\ Untroubled(w)' => TrackedSoFar(w)
        BY <2>2, <2>3, <1>s, WhatWasTracked
      <3> QED
        BY <3>1, <2>2, <2>3, <1>s, <1>r DEF TrackedSoFar
    <2>5. Attempt(w) = rec.attempts /\ ~Ended
      BY <1>1 DEF Owned
    <2> QED
      BY <2>2, <2>3, <2>4, <2>5, <1>s, MoveKeepsTracking
  <1>2. CASE ~Owned(w)
    <2>1. PICK k \in Processes :
            /\ worker' = [worker EXCEPT ![w] = k] /\ k.pc = "close"
            /\ k.attempt = Attempt(w) /\ k.active = worker[w].active
      BY <1>2, Goes DEF Complete, Steps
    <2>2. rec' = rec
      BY <1>2 DEF Complete
    <2>3. Untroubled(w)' => TrackedSoFar(w)'
      <3>1. worker'[w] = k /\ (Untroubled(w)' => rec.status # "completed")
        BY <2>1, <2>2, <1>s, WhatWasTracked
      <3> QED
        BY <3>1, <2>1, <2>2 DEF TrackedSoFar
    <2> QED
      BY <2>1, <2>2, <2>3, <1>s, MoveKeepsTracking
  <1> QED
    BY <1>1, <1>2

LEMMA FinishTracking ==
    ASSUME Inv, Inv', TrackingInv, NEW w \in Workers, Finish(w)
    PROVE  TrackingInv'
  <1>h. /\ worker[w] \in Processes /\ Attempt(w) = worker[w].attempt
        /\ ProgressInv(worker[w], store) /\ rec \in Records
    BY Here
  <1>s. /\ worker[w].pc = "finish" /\ UNCHANGED <<thread, runs, store, cut, faulty>>
        /\ Attempt(w) # 0
    BY <1>h DEF Finish, ProgressInv
  <1>1. CASE Owned(w)
    <2>1. PICK k \in Processes :
            /\ worker' = [worker EXCEPT ![w] = k] /\ k.pc = "end"
            /\ k.attempt = Attempt(w) /\ k.active = worker[w].active
      BY <1>1, Goes DEF Finish, Steps
    <2>2. /\ rec'.attempts = rec.attempts /\ rec'.status # "completed"
          /\ rec'.run = rec.run /\ rec'.marked = rec.marked
      BY <1>1, <1>h, <1>s, FinishedRecord DEF Finish, Finished, Records
    <2>3. Untroubled(w)' => TrackedSoFar(w)'
      <3>1. /\ worker'[w] = k /\ Attempt(w)' = Attempt(w)
            /\ Untroubled(w)' => TrackedSoFar(w)
        BY <2>1, <2>2, <1>s, WhatWasTracked
      <3> QED
        BY <3>1, <2>1, <2>2, <1>s DEF TrackedSoFar
    <2>4. Attempt(w) = rec.attempts /\ ~Ended
      BY <1>1 DEF Owned
    <2> QED
      BY <2>1, <2>2, <2>3, <2>4, <1>s, MoveKeepsTracking
  <1>2. CASE ~Owned(w)
    <2>1. PICK k \in Processes :
            /\ worker' = [worker EXCEPT ![w] = k] /\ k.pc = "close"
            /\ k.attempt = Attempt(w) /\ k.active = worker[w].active
      BY <1>2, Goes DEF Finish, Steps
    <2>2. rec' = rec
      BY <1>2 DEF Finish
    <2>3. Untroubled(w)' => TrackedSoFar(w)'
      <3>1. worker'[w] = k /\ (Untroubled(w)' => TrackedSoFar(w))
        BY <2>1, <2>2, <1>s, WhatWasTracked
      <3>2. TrackedSoFar(w) => rec.status # "completed"
        BY <1>s DEF TrackedSoFar
      <3> QED
        BY <3>1, <3>2, <2>1, <2>2 DEF TrackedSoFar
    <2> QED
      BY <2>1, <2>2, <2>3, <1>s, MoveKeepsTracking
  <1> QED
    BY <1>1, <1>2

\* An attempt that could not reach the storage is excepted from now on.
LEMMA StorageFailureTracking ==
    ASSUME Inv, Inv', TrackingInv, NEW w \in Workers, StorageFails(w)
    PROVE  TrackingInv'
  <1>h. /\ worker[w] \in Processes /\ Attempt(w) = worker[w].attempt
        /\ ProgressInv(worker[w], store) /\ rec \in Records
    BY Here
  <1>s. /\ UNCHANGED <<thread, runs, faulty>>
        /\ worker[w].pc \in {"start", "record", "iterate", "put", "complete", "finish", "mark"}
        /\ Attempt(w) # 0 /\ cut' = cut \cup {Attempt(w)}
    BY <1>h DEF StorageFails, ProgressInv
  <1>1. Abort(w, "failed") \/ Goto(w, "close")
    BY DEF StorageFails
  <1>2. PICK k \in Processes :
          /\ worker' = [worker EXCEPT ![w] = k] /\ k.pc \in {"finish", "close"}
          /\ k.attempt = Attempt(w) /\ k.active = worker[w].active
    BY <1>1, Aborts, Goes DEF Verdicts, Steps
  <1>3. Attempt(w)' = Attempt(w)
    BY <1>2, Typed DEF Attempt
  <1>4. ~Untroubled(w)'
    BY <1>3, <1>s DEF Untroubled
  <1>5. \/ rec' = rec
        \/ rec' = Marked(w)
        \/ rec' = Completed(w) /\ Owned(w)
        \/ rec' = Finished(w) /\ Owned(w) /\ worker[w].pc = "finish"
    BY <1>s DEF StorageFails
  <1>6. /\ rec.marked => rec'.marked
        /\ rec'.attempts = rec.attempts
        /\ \/ rec'.run = rec.run /\ rec'.status = rec.status /\ rec'.result = rec.result
           \/ /\ Attempt(w) = rec.attempts /\ ~Ended
              /\ rec'.status = "completed" => rec'.result = Attempt(w)
    <2>1. CASE rec' = rec
      BY <2>1
    <2>2. CASE rec' = Marked(w)
      BY <2>2, <1>h DEF Marked, Records
    <2>3. CASE rec' = Completed(w) /\ Owned(w)
      BY <2>3, <1>h DEF Completed, Owned, Records
    <2>4. CASE rec' = Finished(w) /\ Owned(w) /\ worker[w].pc = "finish"
      <3>1. rec'.marked = rec.marked /\ rec'.attempts = rec.attempts /\ rec'.status # "completed"
        BY <2>4, <1>h, FinishedRecord DEF Finished, Records
      <3> QED
        BY <3>1, <2>4 DEF Owned
    <2> QED
      BY <1>5, <2>1, <2>2, <2>3, <2>4
  <1> QED
    BY <1>2, <1>4, <1>6, <1>s, MoveKeepsTracking


-----------------------------------------------------------------------------
\* The calls of MLflow concern the worker's own run alone.

\* A tracker call raised before the attempt was over: the mark comes next.
LEMMA MarkingTracked ==
    ASSUME NEW w \in Workers, worker'[w].pc = "mark",
           \/ worker'[w].next = "close"
           \/ rec'.status # "completed"
    PROVE  TrackedSoFar(w)'
  BY DEF TrackedSoFar

LEMMA StartTracking ==
    ASSUME Inv, Inv', TrackingInv, NEW w \in Workers, Start(w) \/ StartFails(w)
    PROVE  TrackingInv'
  <1>h. /\ worker[w] \in Processes /\ Attempt(w) = worker[w].attempt
        /\ ProgressInv(worker[w], store) /\ runs \in [Attempts -> MlflowRuns]
        /\ thread \in [Workers -> Maybe]
    BY Here
  <1>s. /\ worker[w].pc = "start" /\ UNCHANGED <<rec, store, cut, faulty>>
        /\ Attempt(w) # 0 /\ ~Over(worker[w]) /\ thread[w] = 0
    BY <1>h DEF Start, StartFails, WithinLimit, ProgressInv, Over, TrackingInv, ThreadInv
  <1>r. /\ \A a \in Attempts : a # Attempt(w) => runs'[a] = runs[a]
        /\ \A n : Logged(Attempt(w), n) => \A i \in Points :
             i <= n => runs'[Attempt(w)].points[i] = Attempt(w)
    <2>1. CASE runs' = runs
      BY <2>1 DEF Logged
    <2>2. CASE RunStarted(w)
      <3>1. Attempt(w) \in Attempts
        BY <1>s, RangeFacts
      <3>2. /\ \A a \in Attempts : a # Attempt(w) => runs'[a] = runs[a]
            /\ runs'[Attempt(w)].points = runs[Attempt(w)].points
        BY <2>2, <3>1, <1>h DEF RunStarted, MlflowRuns
      <3> QED
        BY <3>2 DEF Logged
    <2> QED
      BY <2>1, <2>2 DEF Start, StartFails
  <1>a. PICK a : a = Attempt(w)
    OBVIOUS
  <1>1. ASSUME NEW k \in Processes, worker' = [worker EXCEPT ![w] = k],
               k.attempt = Attempt(w), k.pc \in {"record", "mark"},
               k.count = worker[w].count, k.pc = "record" => k.active /\ thread'[w] = a,
               thread' = thread \/ (thread' = [thread EXCEPT ![w] = a] /\ k.active)
        PROVE  TrackingInv'
    <2>1. /\ worker'[w] = k /\ Attempt(w)' = Attempt(w)
          /\ Untroubled(w)' => TrackedSoFar(w) /\ rec.status # "completed"
      BY <1>1, <1>s, WhatWasTracked
    <2>2. \A v \in Workers : v # w => worker'[v] = worker[v] /\ thread'[v] = thread[v]
      BY <1>1, <1>h, Typed
    <2>3. OwnStep(w)
      BY <1>1, <1>r, <1>s, <2>1, <2>2 DEF OwnStep
    <2>4. thread'[w] \in {0, a} /\ (thread'[w] = a => k.active)
      BY <1>1, <1>s, <1>h, <1>a
    <2>5. OwnThread(w)
      BY <1>1, <1>a, <2>1, <2>4 DEF OwnThread
    <2>6. Untroubled(w)' => TrackedSoFar(w)'
      <3> SUFFICES ASSUME Untroubled(w)' PROVE TrackedSoFar(w)'
        OBVIOUS
      <3>1. CASE k.pc = "mark"
        BY <3>1, <2>1, <1>s, MarkingTracked
      <3>2. CASE k.pc = "record"
        <4>1. Logged(Attempt(w), k.count)'
          BY <1>r, <1>s, <1>1, <2>1 DEF TrackedSoFar, Logged
        <4> QED
          BY <3>2, <4>1, <1>1, <1>s, <1>a, <2>1 DEF TrackedSoFar
      <3> QED
        BY <3>1, <3>2, <1>1
    <2> QED
      BY <1>1, <1>a, <1>s, <2>1, <2>3, <2>5, <2>6, StepKeepsTracking
  <1>2. CASE Start(w)
    <2> DEFINE on == [worker[w] EXCEPT !.active = TRUE]
    <2>1. /\ on \in Processes /\ on.attempt = Attempt(w) /\ on.count = worker[w].count
          /\ on.active
      BY <1>h DEF Processes
    <2>2. thread' = [thread EXCEPT ![w] = a] /\ thread'[w] = a
      BY <1>2, <1>a, <1>h DEF Start
    <2>3. Become(w, [on EXCEPT !.pc = "record"]) \/ Tracked(w, on, "iterate")
      BY <1>2, Zenon DEF Start
    <2> HIDE DEF on
    <2>4. CASE Become(w, [on EXCEPT !.pc = "record"])
      <3>1. worker' = [worker EXCEPT ![w] = At(on, "record")]
        BY <2>4 DEF Become, At
      <3>2. /\ At(on, "record") \in Processes /\ At(on, "record").pc = "record"
            /\ At(on, "record").attempt = Attempt(w)
            /\ At(on, "record").count = worker[w].count /\ At(on, "record").active
        BY <2>1, AtTypes DEF Steps
      <3> QED
        BY <3>1, <3>2, <2>2, <1>1
    <2>5. CASE Tracked(w, on, "iterate")
      <3>1. PICK k \in Processes :
              /\ worker' = [worker EXCEPT ![w] = k] /\ k.pc = "mark"
              /\ k.attempt = Attempt(w) /\ k.count = on.count /\ k.active = on.active
        BY <2>1, <2>5, Marks DEF TrackedSteps
      <3> QED
        BY <3>1, <2>1, <2>2, <1>1
    <2> QED
      BY <2>3, <2>4, <2>5
  <1>3. CASE StartFails(w)
    <2>1. PICK k \in Processes :
            /\ worker' = [worker EXCEPT ![w] = k] /\ k.pc = "mark"
            /\ k.attempt = Attempt(w) /\ k.count = worker[w].count
      BY <1>3, <1>h, Marks DEF StartFails, TrackedSteps
    <2>2. thread' = thread
      BY <1>3 DEF StartFails
    <2> QED
      BY <2>1, <2>2, <1>1
  <1> QED
    BY <1>2, <1>3

LEMMA MetricTracking ==
    ASSUME Inv, Inv', TrackingInv, NEW w \in Workers, TrackMetric(w)
    PROVE  TrackingInv'
  <1>h. /\ worker[w] \in Processes /\ Attempt(w) = worker[w].attempt
        /\ ProgressInv(worker[w], store) /\ runs \in [Attempts -> MlflowRuns]
    BY Here
  <1>s. /\ worker[w].pc = "metric" /\ UNCHANGED <<rec, thread, store, cut, faulty>>
        /\ worker[w].count < Iterations /\ Attempt(w) # 0 /\ ~Over(worker[w])
    BY <1>h DEF TrackMetric, ProgressInv, Over
  <1>c. /\ worker[w].count + 1 \in Points /\ worker[w].count \in Nat
    BY <1>s, <1>h, IterationsPositive DEF Processes, Points
  <1>a. PICK a : a = Attempt(w) /\ a \in Attempts
    BY <1>s, RangeFacts
  <1>t. thread[w] \in {0, a} /\ 0 \notin Attempts /\ (thread[w] = a => worker[w].active)
    BY <1>a, IterationsPositive DEF TrackingInv, ThreadInv, Attempts
  <1> DEFINE logged == [runs EXCEPT ![thread[w]].points[worker[w].count + 1] = Attempt(w)]
  <1>l. /\ \A b \in Attempts : b # a => logged[b] = runs[b]
        /\ thread[w] = a => logged[a].points =
                              [runs[a].points EXCEPT ![worker[w].count + 1] = a]
    BY <1>h, <1>a, <1>t DEF MlflowRuns
  <1>q. PICK q \in Processes :
          /\ q = [worker[w] EXCEPT !.count = worker[w].count + 1]
          /\ q.attempt = Attempt(w) /\ q.count = worker[w].count + 1
          /\ q.active = worker[w].active
    <2>1. worker[w].count < Iterations + 3
      BY <1>s, <1>c, IterationsPositive
    <2> QED
      BY <2>1, <1>h, CountTypes
  <1>f. q.attempt = Attempt(w) /\ q.count = worker[w].count + 1 /\ q.active = worker[w].active
    BY <1>q
  <1>1. \/ /\ Become(w, At(q, "iterate"))
           /\ runs' = IF worker[w].active THEN logged ELSE runs
        \/ Tracked(w, q, "iterate") /\ runs' \in {runs, logged}
    BY <1>q, Zenon DEF TrackMetric, At
  <1>r. \A b \in Attempts : b # Attempt(w) => runs'[b] = runs[b]
    BY <1>1, <1>l, <1>a
  <1> HIDE DEF logged
  <1>2. ASSUME NEW k \in Processes, worker' = [worker EXCEPT ![w] = k],
               k.attempt = Attempt(w), k.pc \in {"iterate", "mark"}, k.active = worker[w].active,
               Untroubled(w)' => TrackedSoFar(w)'
        PROVE  TrackingInv'
    <2>1. worker'[w] = k /\ \A v \in Workers : v # w => worker'[v] = worker[v]
      BY <1>2, Typed
    <2>2. OwnStep(w)
      BY <1>2, <1>r, <1>s, <2>1 DEF OwnStep
    <2>3. OwnThread(w)
      BY <1>2, <1>s, <2>1 DEF OwnThread, TrackingInv, ThreadInv
    <2> QED
      BY <1>2, <1>a, <1>s, <2>1, <2>2, <2>3, StepKeepsTracking
  <1>3. CASE /\ Become(w, At(q, "iterate"))
             /\ runs' = IF worker[w].active THEN logged ELSE runs
    <2>1. /\ At(q, "iterate") \in Processes /\ At(q, "iterate").pc = "iterate"
          /\ At(q, "iterate").attempt = Attempt(w)
          /\ At(q, "iterate").count = worker[w].count + 1
          /\ At(q, "iterate").active = worker[w].active
      BY <1>f, AtTypes DEF Steps
    <2>2. worker' = [worker EXCEPT ![w] = At(q, "iterate")]
      BY <1>3 DEF Become
    <2>3. Untroubled(w)' => TrackedSoFar(w)'
      <3> SUFFICES ASSUME Untroubled(w)' PROVE TrackedSoFar(w)'
        OBVIOUS
      <3>1. /\ worker'[w] = At(q, "iterate") /\ Attempt(w)' = a
            /\ TrackedSoFar(w) /\ rec.status # "completed"
        BY <2>1, <2>2, <1>s, <1>a, WhatWasTracked
      <3>2. thread[w] = a /\ rec.run = a /\ Logged(a, worker[w].count)
        BY <3>1, <1>s, <1>a DEF TrackedSoFar
      <3>3. runs' = logged /\ runs[a] \in MlflowRuns
        BY <3>2, <1>3, <1>t, <1>h, <1>a
      <3>4. \A i \in Points : i <= worker[w].count + 1 => runs'[a].points[i] = a
        <4>1. runs[a].points \in [Points -> Maybe]
          BY <3>3 DEF MlflowRuns
        <4>2. \A i \in Points : i <= worker[w].count \/ i = worker[w].count + 1
                                \/ ~(i <= worker[w].count + 1)
          BY <1>c DEF Points
        <4> QED
          BY <3>2, <3>3, <4>1, <4>2, <1>l DEF Logged
      <3> QED
        BY <3>1, <3>2, <3>4, <2>1, <1>s DEF TrackedSoFar, Logged
    <2> QED
      BY <2>1, <2>2, <2>3, <1>2
  <1>4. CASE Tracked(w, q, "iterate") /\ runs' \in {runs, logged}
    <2>1. PICK k \in Processes :
            /\ worker' = [worker EXCEPT ![w] = k] /\ k.pc = "mark" /\ k.next = "iterate"
            /\ k.attempt = Attempt(w) /\ k.active = q.active
      BY <1>4, <1>f, Marks DEF TrackedSteps
    <2>2. Untroubled(w)' => TrackedSoFar(w)'
      <3>1. worker'[w] = k /\ (Untroubled(w)' => rec.status # "completed")
        BY <2>1, <1>s, WhatWasTracked
      <3> QED
        BY <3>1, <2>1, <1>s, MarkingTracked
    <2> QED
      BY <2>1, <2>2, <1>2, <1>f
  <1> QED
    BY <1>1, <1>3, <1>4


\* What ending the worker's own run does.
LEMMA EndRunWrites ==
    ASSUME Inv, TrackingInv, NEW w \in Workers, NEW st \in {"FINISHED", "FAILED"},
           NEW a, a = Attempt(w), a # 0,
           EndRun(w, st) \/ EndRunUnheard(w) \/ UNCHANGED <<thread, runs>>
    PROVE  /\ \A v \in Workers : v # w => thread'[v] = thread[v]
           /\ thread'[w] \in {0, thread[w]}
           /\ \A b \in Attempts : b # a => runs'[b] = runs[b]
           /\ EndRun(w, st) => thread'[w] = 0
           /\ EndRun(w, st) /\ thread[w] = a =>
                /\ runs'[a].points = runs[a].points /\ runs'[a].status = st
                /\ runs'[a].summary <=> worker[w].pc = "end"
  <1>h. /\ runs \in [Attempts -> MlflowRuns] /\ thread \in [Workers -> Maybe]
    BY Here
  <1>a. a \in Attempts /\ thread[w] \in {0, a} /\ 0 \notin Attempts
    BY RangeFacts, IterationsPositive DEF TrackingInv, ThreadInv, Attempts
  <1>b. PICK b \in BOOLEAN : b = (worker[w].pc = "end")
    OBVIOUS
  <1>1. CASE EndRun(w, st)
    <2>1. thread' = [thread EXCEPT ![w] = 0]
      BY <1>1 DEF EndRun
    <2>2. CASE thread[w] = 0
      <3>1. runs' = runs
        BY <1>1, <2>2 DEF EndRun
      <3> QED
        BY <2>1, <2>2, <3>1, <1>h, <1>a
    <2>3. CASE thread[w] = a
      <3>1. runs' = [runs EXCEPT ![a].status = st, ![a].summary = b]
        BY <1>1, <1>a, <1>b, <2>3, Zenon DEF EndRun
      <3>2. /\ \A c \in Attempts : c # a => runs'[c] = runs[c]
            /\ runs'[a].points = runs[a].points /\ runs'[a].status = st /\ runs'[a].summary = b
        BY <3>1, <1>h, <1>a DEF MlflowRuns
      <3> QED
        BY <2>1, <3>2, <1>b, <1>h
    <2> QED
      BY <2>2, <2>3, <1>a
  <1>2. CASE EndRunUnheard(w) /\ ~EndRun(w, st)
    BY <1>2, <1>h DEF EndRunUnheard
  <1>3. CASE UNCHANGED <<thread, runs>> /\ ~EndRun(w, st)
    BY <1>3
  <1> QED
    BY <1>1, <1>2, <1>3

LEMMA EndTrackingTracking ==
    ASSUME Inv, Inv', TrackingInv, NEW w \in Workers, EndTracking(w) \/ EndTrackingFails(w)
    PROVE  TrackingInv'
  <1>h. /\ worker[w] \in Processes /\ Attempt(w) = worker[w].attempt
        /\ ProgressInv(worker[w], store)
    BY Here
  <1>s. /\ worker[w].pc = "end" /\ UNCHANGED <<rec, store, cut, faulty>> /\ Attempt(w) # 0
    BY <1>h DEF EndTracking, EndTrackingFails, ProgressInv
  <1>a. PICK a : a = Attempt(w) /\ a \in Attempts
    BY <1>s, RangeFacts
  <1> DEFINE st == RunStatus(worker[w].verdict)
  <1>e. /\ st \in {"FINISHED", "FAILED"}
        /\ worker[w].verdict = "completed" => st = "FINISHED"
        /\ EndRun(w, st) \/ EndRunUnheard(w) \/ UNCHANGED <<thread, runs>>
    BY DEF RunStatus, EndTracking, EndTrackingFails
  <1>r. /\ \A v \in Workers : v # w => thread'[v] = thread[v]
        /\ thread'[w] \in {0, thread[w]}
        /\ \A b \in Attempts : b # a => runs'[b] = runs[b]
        /\ EndRun(w, st) => thread'[w] = 0
        /\ EndRun(w, st) /\ thread[w] = a =>
             /\ runs'[a].points = runs[a].points /\ runs'[a].status = st
             /\ runs'[a].summary <=> worker[w].pc = "end"
    BY <1>e, <1>a, <1>s, EndRunWrites
  <1>t. thread[w] # 0 => thread[w] = a /\ worker[w].active
    BY <1>a DEF TrackingInv, ThreadInv
  <1> HIDE DEF st
  <1>1. ASSUME NEW k \in Processes, worker' = [worker EXCEPT ![w] = k],
               k.attempt = Attempt(w), k.pc \in {"mark", "close"},
               thread'[w] # 0 => k.active, Untroubled(w)' => TrackedSoFar(w)'
        PROVE  TrackingInv'
    <2>1. worker'[w] = k /\ \A v \in Workers : v # w => worker'[v] = worker[v]
      BY <1>1, Typed
    <2>2. OwnStep(w)
      BY <1>1, <1>r, <1>s, <1>a, <2>1 DEF OwnStep
    <2>3. OwnThread(w)
      BY <1>1, <1>r, <1>t, <1>a, <2>1 DEF OwnThread
    <2> QED
      BY <1>1, <1>a, <1>s, <2>1, <2>2, <2>3, StepKeepsTracking
  <1>2. CASE EndTracking(w)
    <2>1. /\ [worker[w] EXCEPT !.pc = "close", !.active = FALSE] \in Processes
          /\ [worker[w] EXCEPT !.pc = "close", !.active = FALSE].pc = "close"
          /\ [worker[w] EXCEPT !.pc = "close", !.active = FALSE].attempt = Attempt(w)
          /\ [worker[w] EXCEPT !.pc = "close", !.active = FALSE].active = FALSE
      BY <1>h DEF Processes
    <2>2. PICK k \in Processes :
            /\ worker' = [worker EXCEPT ![w] = k] /\ k.pc = "close"
            /\ k.attempt = Attempt(w) /\ k.active = FALSE
      BY <1>2, <2>1, Zenon DEF EndTracking, Become
    <2>3. /\ worker[w].active => EndRun(w, st)
          /\ ~worker[w].active => UNCHANGED <<thread, runs>>
      BY <1>2 DEF EndTracking, st
    <2>4. thread'[w] = 0
      BY <2>3, <1>r, <1>t
    <2>5. Untroubled(w)' => TrackedSoFar(w)'
      <3> SUFFICES ASSUME Untroubled(w)' PROVE TrackedSoFar(w)'
        OBVIOUS
      <3>1. worker'[w] = k /\ Attempt(w)' = a /\ TrackedSoFar(w)
        BY <2>2, <1>s, <1>a, WhatWasTracked
      <3>2. CASE rec.status = "completed"
        <4>1. /\ worker[w].verdict = "completed" /\ Logged(a, Iterations)
              /\ thread[w] = a /\ rec.run = a
          BY <3>1, <3>2, <1>s, <1>a DEF TrackedSoFar
        <4>2. /\ runs'[a].points = runs[a].points /\ runs'[a].status = st
              /\ runs'[a].summary
          BY <4>1, <2>3, <1>r, <1>t, <1>s, <1>a, IterationsPositive DEF Attempts
        <4>3. RunWhole(a)'
          BY <4>1, <4>2, <1>e, <1>s DEF RunWhole, Logged
        <4> QED
          BY <4>3, <3>1, <2>2 DEF TrackedSoFar, RunWhole, Logged
      <3>3. CASE rec.status # "completed"
        BY <3>3, <3>1, <2>2, <1>s DEF TrackedSoFar
      <3> QED
        BY <3>2, <3>3
    <2> QED
      BY <2>2, <2>4, <2>5, <1>1
  <1>3. CASE EndTrackingFails(w)
    <2>1. PICK k \in Processes :
            /\ worker' = [worker EXCEPT ![w] = k] /\ k.pc = "mark" /\ k.next = "close"
            /\ k.attempt = Attempt(w) /\ k.active = worker[w].active
      BY <1>3, <1>h, Marks DEF EndTrackingFails, TrackedSteps
    <2>2. TrackedSoFar(w)'
      <3>1. worker'[w] = k
        BY <2>1, Typed
      <3> QED
        BY <3>1, <2>1, MarkingTracked
    <2> QED
      BY <2>1, <2>2, <1>r, <1>t, <1>1
  <1> QED
    BY <1>2, <1>3

\* A worker leaves: it has closed its tracker, or it died.
LEMMA LeavingTracking ==
    ASSUME Inv, Inv', TrackingInv, NEW w \in Workers, Close(w) \/ Crash(w)
    PROVE  TrackingInv'
  <1>h. /\ worker[w] \in Processes /\ Idle \in Processes /\ Attempt(w) = worker[w].attempt
        /\ ProgressInv(worker[w], store) /\ thread \in [Workers -> Maybe]
    BY Here
  <1>s. /\ worker' = [worker EXCEPT ![w] = Idle] /\ UNCHANGED <<rec, store, faulty>>
        /\ worker[w].pc # "idle" /\ Attempt(w) # 0
    BY <1>h DEF Close, Crash, Become, ProgressInv
  <1>a. PICK a : a = Attempt(w) /\ a \in Attempts /\ a # 0
    BY <1>s, RangeFacts
  <1>w. /\ worker'[w] = Idle /\ Idle.pc = "idle" /\ Idle.attempt = 0
        /\ \A v \in Workers : v # w => worker'[v] = worker[v]
    BY <1>s, Typed DEF Idle
  <1>t. thread[w] # 0 => thread[w] = a /\ worker[w].active
    BY <1>a DEF TrackingInv, ThreadInv
  <1>1. /\ \A v \in Workers : v # w => thread'[v] = thread[v]
        /\ \A b \in Attempts : b # a => runs'[b] = runs[b]
        /\ thread'[w] = 0 /\ cut \subseteq cut'
        /\ Close(w) \/ a \in cut'
    <2>1. CASE Close(w)
      <3>1. EndRun(w, "FAILED") \/ EndRunUnheard(w) \/ UNCHANGED <<thread, runs>>
        BY <2>1 DEF Close
      <3>2. /\ \A v \in Workers : v # w => thread'[v] = thread[v]
            /\ \A b \in Attempts : b # a => runs'[b] = runs[b]
            /\ EndRun(w, "FAILED") => thread'[w] = 0
        BY <3>1, <1>a, EndRunWrites
      <3>3. EndRunUnheard(w) => thread'[w] = 0
        BY <1>h DEF EndRunUnheard
      <3>4. thread'[w] = 0 /\ cut' = cut
        BY <2>1, <3>2, <3>3, <1>t DEF Close
      <3> QED
        BY <2>1, <3>2, <3>4
    <2>2. CASE Crash(w)
      BY <2>2, <1>h, <1>a DEF Crash
    <2> QED
      BY <2>1, <2>2
  <1>2. OwnStep(w)
    BY <1>1, <1>w, <1>s, <1>a DEF OwnStep
  <1>3. OwnThread(w)
    BY <1>1, <1>w DEF OwnThread
  <1>4. Attempt(w)' = 0
    BY <1>w DEF Attempt
  <1>5. ASSUME rec.status = "completed", rec.result = a, ~rec'.marked, a \notin cut'
        PROVE  RunWhole(a)'
    <2>1. Close(w) /\ Untroubled(w)
      BY <1>5, <1>1, <1>s, <1>a DEF Untroubled, TrackingInv
    <2>2. TrackedSoFar(w) /\ worker[w].pc = "close"
      BY <2>1, <1>s DEF TrackingInv, Close
    <2>3. ~worker[w].active /\ RunWhole(a)
      BY <2>2, <1>5, <1>a DEF TrackedSoFar
    <2>4. runs' = runs
      BY <2>1, <2>3 DEF Close
    <2> QED
      BY <2>3, <2>4, <1>s DEF RunWhole, Logged
  <1> QED
    BY <1>2, <1>3, <1>4, <1>5, <1>a, StepKeepsTracking


\* The next attempt begins with a run of its own to start, on a thread that has none.
LEMMA ClaimTracking ==
    ASSUME Inv, TrackingInv, NEW w \in Workers, Claim(w)
    PROVE  TrackingInv'
  <1>t. /\ rec \in Records /\ worker \in [Workers -> Processes] /\ Idle \in Processes
    BY Typed, Here
  <1>s. /\ UNCHANGED <<thread, runs, store, cut, faulty>> /\ worker[w].pc = "idle"
        /\ rec.attempts \in Nat /\ rec'.attempts = rec.attempts + 1
        /\ rec'.status = "running"
    BY <1>t, IterationsPositive DEF Claim, Records, Maybe
  <1>1. thread[w] = 0
    BY <1>s DEF TrackingInv, ThreadInv
  <1>2. /\ worker'[w].pc = "start" /\ worker'[w].attempt = rec.attempts + 1
        /\ worker'[w].count = 0
        /\ \A v \in Workers : v # w => worker'[v] = worker[v]
    <2>1. worker' = [worker EXCEPT ![w] =
                       [Idle EXCEPT !.pc = "start", !.attempt = rec.attempts + 1]]
      BY DEF Claim, Become
    <2>2. /\ [Idle EXCEPT !.pc = "start", !.attempt = rec.attempts + 1].pc = "start"
          /\ [Idle EXCEPT !.pc = "start", !.attempt = rec.attempts + 1].attempt
               = rec.attempts + 1
          /\ [Idle EXCEPT !.pc = "start", !.attempt = rec.attempts + 1].count = 0
      BY DEF Idle
    <2> QED
      BY <2>1, <2>2, <1>t
  <1>3. ThreadInv'
    BY <1>1, <1>2, <1>s DEF TrackingInv, ThreadInv, Attempt
  <1>4. ASSUME NEW v \in Workers, v # w
        PROVE  ~Untroubled(v)' \/ Attempt(v)' = 0
    <2>1. Attempt(v)' = Attempt(v) /\ Attempt(v) <= rec.attempts
      BY <1>2, <1>4 DEF Attempt, Inv
    <2>2. Attempt(v) # 0 => Attempt(v) \in Nat
      BY RangeFacts
    <2> QED
      BY <2>1, <2>2, <1>s DEF Untroubled
  <1>5. TrackedSoFar(w)'
    <2>1. \A n : n = 0 => Logged(Attempt(w), n)'
      BY IterationsPositive DEF Logged, Points
    <2> QED
      BY <2>1, <1>2, <1>s DEF TrackedSoFar
  <1> QED
    BY <1>3, <1>4, <1>5, <1>s DEF TrackingInv, UnmarkedTrackingWhole

\* Steps that change nothing but whether the record is leased.
LEMMA LapseTracking ==
    ASSUME Inv, TrackingInv, Lapse \/ UNCHANGED vars
    PROVE  TrackingInv'
  <1>1. /\ UNCHANGED <<worker, thread, runs, cut>> /\ rec'.attempts = rec.attempts
        /\ rec'.status = rec.status /\ rec'.run = rec.run /\ rec'.result = rec.result
        /\ rec'.marked = rec.marked
    BY Typed DEF Lapse, vars, Records
  <1>2. /\ \A a : RunWhole(a)' <=> RunWhole(a)
        /\ \A a, n : Logged(a, n)' <=> Logged(a, n)
    BY <1>1 DEF RunWhole, Logged
  <1>3. \A w \in Workers : /\ Attempt(w)' = Attempt(w)
                           /\ Untroubled(w)' <=> Untroubled(w)
                           /\ TrackedSoFar(w)' <=> TrackedSoFar(w)
    BY <1>1, <1>2 DEF Attempt, Untroubled, TrackedSoFar
  <1>4. ThreadInv' /\ UnmarkedTrackingWhole'
    BY <1>1 DEF TrackingInv, ThreadInv, UnmarkedTrackingWhole, Attempt
  <1> QED
    BY <1>1, <1>3, <1>4 DEF TrackingInv

LEMMA TrackingInvariant == Spec => [](Inv /\ TrackingInv)
  <1>1. Init => TrackingInv
    <2> SUFFICES ASSUME Init PROVE TrackingInv
      OBVIOUS
    <2>1. /\ \A w \in Workers : Attempt(w) = 0 /\ thread[w] = 0 /\ worker[w].pc = "idle"
          /\ rec.status = "queued"
      BY DEF Init, Attempt, Idle
    <2> QED
      BY <2>1 DEF TrackingInv, ThreadInv, UnmarkedTrackingWhole
  <1>2. Inv /\ Inv' /\ TrackingInv /\ [Next]_vars => TrackingInv'
    <2> SUFFICES ASSUME Inv, Inv', TrackingInv, [Next]_vars PROVE TrackingInv'
      OBVIOUS
    <2>1. ASSUME NEW w \in Workers, WorkerStep(w) PROVE TrackingInv'
      BY <2>1, ClaimTracking, StartTracking, RecordRunTracking, IterationTracking,
         MetricTracking, MarkTracking, PutTracking, CompleteTracking, FinishTracking,
         EndTrackingTracking, LeavingTracking, GivingUpTracking DEF WorkerStep, GivesUp
    <2>2. ASSUME NEW w \in Workers,
                 \/ EngineRaises(w) \/ Cancelled(w) \/ LeaseLost(w) \/ StorageFails(w)
                 \/ Crash(w)
          PROVE  TrackingInv'
      BY <2>2, GivingUpTracking, StorageFailureTracking, LeavingTracking DEF GivesUp
    <2>3. CASE Lapse \/ UNCHANGED vars
      BY <2>3, LapseTracking
    <2> QED
      BY <2>1, <2>2, <2>3 DEF Next
  <1> QED
    BY <1>1, <1>2, InvInvariant, PTL DEF Spec

\* A completed record without the mark names a finished run with the summary and every
\* observation, whoever took over from whom (worker.py 157-169, 207-219, 281-295).
THEOREM TrackingIsWhole == Spec => []UnmarkedTrackingWhole
  <1>1. TrackingInv => UnmarkedTrackingWhole
    BY DEF TrackingInv
  <1> QED
    BY <1>1, TrackingInvariant, PTL


-----------------------------------------------------------------------------
\* What workers do in the scenarios without some kinds of failure.

\* Every step of a worker at an attempt.
AttemptStep(w) ==
    \/ Start(w) \/ StartFails(w) \/ RecordRun(w) \/ Iterate(w) \/ TrackMetric(w) \/ Mark(w)
    \/ Put(w) \/ Complete(w) \/ Finish(w) \/ EndTracking(w) \/ EndTrackingFails(w) \/ Close(w)
    \/ GivesUp(w) \/ StorageFails(w) \/ Crash(w)

LEMMA WhatIsWritten ==
    ASSUME NEW w \in Workers, AttemptStep(w)
    PROVE  /\ \/ rec' = rec
              \/ rec' = Marked(w) /\ worker[w].pc = "mark"
              \/ /\ rec' = [rec EXCEPT !.run = Attempt(w)]
                 /\ Owned(w) /\ worker[w].pc = "record"
              \/ rec' = Completed(w) /\ Owned(w) /\ worker[w].pc = "complete"
              \/ rec' = Finished(w) /\ Owned(w) /\ worker[w].pc = "finish"
           /\ cut' # cut => Fault("storage") \/ Fault("crash")
           /\ faulty' = faulty
  <1>1. CASE StorageFails(w)
    BY <1>1 DEF StorageFails
  <1>2. CASE Start(w) \/ StartFails(w) \/ Iterate(w) \/ TrackMetric(w) \/ Put(w)
    BY <1>2 DEF Start, StartFails, Iterate, TrackMetric, Put
  <1>3. CASE RecordRun(w) \/ Mark(w) \/ Complete(w) \/ Finish(w)
    BY <1>3 DEF RecordRun, Mark, Complete, Finish
  <1>4. CASE EndTracking(w) \/ EndTrackingFails(w) \/ Close(w)
    BY <1>4 DEF EndTracking, EndTrackingFails, Close
  <1>5. CASE GivesUp(w) \/ Crash(w)
    BY <1>5 DEF GivesUp, LimitReached, EngineRaises, Cancelled, LeaseLost, Crash
  <1> QED
    BY <1>1, <1>2, <1>3, <1>4, <1>5 DEF AttemptStep

\* Where a step takes its worker.  Whoever owns the record within the attempt limit and suffers
\* no failure but MLflow's stays with the attempt until it has completed the record.
Arrives(w, k) ==
    /\ worker' = [worker EXCEPT ![w] = k]
    /\ k.pc = "mark" => Fault("tracking")
    /\ k.pc = "finish" =>
         \/ Fault("storage") \/ Fault("engine") \/ Fault("cancel")
         \/ Attempt(w) > MaxAttempts /\ k.attempt = Attempt(w)
    /\ Owned(w) /\ ~(Attempt(w) > MaxAttempts) /\ Underway(worker[w]) /\ faulty = {"tracking"} =>
         \/ Underway(k) /\ k.attempt = Attempt(w)
         \/ rec' = Completed(w)

LEMMA ProgressArrives ==
    ASSUME Inv, NEW w \in Workers, RecordRun(w) \/ Iterate(w) \/ Mark(w)
    PROVE  \E k \in Processes : Arrives(w, k)
  <1>1. CASE RecordRun(w) \/ Iterate(w)
    <2>1. PICK p \in {"iterate", "metric", "put", "close"} :
            Goto(w, p) /\ (Owned(w) => p # "close")
      BY <1>1 DEF RecordRun, Iterate
    <2>2. PICK k \in Processes :
            worker' = [worker EXCEPT ![w] = k] /\ k.pc = p /\ k.attempt = Attempt(w)
      BY <2>1, Goes DEF Steps
    <2> QED
      BY <2>1, <2>2 DEF Arrives, Underway
  <1>2. CASE Mark(w)
    <2>1. worker[w].pc = "mark" /\ worker[w].next \in TrackedSteps
      BY <1>2, Here DEF Mark, ProgressInv
    <2>2. PICK k \in Processes :
            /\ worker' = [worker EXCEPT ![w] = k] /\ k.pc = worker[w].next
            /\ k.attempt = Attempt(w)
      BY <1>2, <2>1, Goes DEF Mark, Steps, TrackedSteps
    <2> QED
      BY <2>1, <2>2 DEF Arrives, Underway, TrackedSteps
  <1> QED
    BY <1>1, <1>2

LEMMA EndArrives ==
    ASSUME Inv, NEW w \in Workers,
           \/ Complete(w) \/ Finish(w) \/ EndTracking(w) \/ EndTrackingFails(w)
           \/ Close(w) \/ Crash(w)
    PROVE  \E k \in Processes : Arrives(w, k)
  <1>h. /\ worker[w] \in Processes /\ Attempt(w) = worker[w].attempt /\ Idle \in Processes
        /\ ProgressInv(worker[w], store)
    BY Here
  <1>1. CASE Complete(w)
    <2>1. CASE Owned(w)
      <3>1. /\ [worker[w] EXCEPT !.pc = "end", !.verdict = "completed"] \in Processes
            /\ [worker[w] EXCEPT !.pc = "end", !.verdict = "completed"].pc = "end"
        BY <1>h DEF Processes, Verdicts
      <3>2. PICK k \in Processes : worker' = [worker EXCEPT ![w] = k] /\ k.pc = "end"
        BY <1>1, <2>1, <3>1, Zenon DEF Complete, Become
      <3>3. rec' = Completed(w)
        BY <1>1, <2>1 DEF Complete
      <3> QED
        BY <3>2, <3>3 DEF Arrives
    <2>2. CASE ~Owned(w)
      <3>1. PICK k \in Processes : worker' = [worker EXCEPT ![w] = k] /\ k.pc = "close"
        BY <1>1, <2>2, Goes DEF Complete, Steps
      <3> QED
        BY <2>2, <3>1 DEF Arrives
    <2> QED
      BY <2>1, <2>2
  <1>2. CASE Finish(w)
    <2>1. PICK k \in Processes :
            worker' = [worker EXCEPT ![w] = k] /\ k.pc \in {"end", "close"}
      BY <1>2, Goes DEF Finish, Steps
    <2> QED
      BY <2>1, <1>2 DEF Arrives, Underway, Finish
  <1>3. CASE EndTracking(w)
    <2>1. /\ [worker[w] EXCEPT !.pc = "close", !.active = FALSE] \in Processes
          /\ [worker[w] EXCEPT !.pc = "close", !.active = FALSE].pc = "close"
      BY <1>h DEF Processes
    <2>2. PICK k \in Processes : worker' = [worker EXCEPT ![w] = k] /\ k.pc = "close"
      BY <1>3, <2>1, Zenon DEF EndTracking, Become
    <2> QED
      BY <2>2, <1>3 DEF Arrives, Underway, EndTracking
  <1>4. CASE EndTrackingFails(w)
    <2>1. PICK k \in Processes : worker' = [worker EXCEPT ![w] = k] /\ k.pc = "mark"
      BY <1>4, <1>h, Marks DEF EndTrackingFails, TrackedSteps
    <2> QED
      BY <2>1, <1>4 DEF Arrives, Underway, EndTrackingFails
  <1>5. CASE Close(w) \/ Crash(w)
    <2>1. worker' = [worker EXCEPT ![w] = Idle] /\ Idle.pc = "idle"
      BY <1>5 DEF Close, Crash, Become, Idle
    <2>2. faulty = {"tracking"} => worker[w].pc = "close"
      BY <1>5 DEF Close, Crash, Fault
    <2> QED
      BY <2>1, <2>2, <1>h DEF Arrives, Underway
  <1> QED
    BY <1>1, <1>2, <1>3, <1>4, <1>5

LEMMA FailureArrives ==
    ASSUME Inv, NEW w \in Workers, GivesUp(w) \/ StorageFails(w)
    PROVE  \E k \in Processes : Arrives(w, k)
  <1>1. CASE GivesUp(w)
    <2>1. PICK k \in Processes :
            /\ worker' = [worker EXCEPT ![w] = k] /\ k.pc \in {"finish", "close"}
            /\ k.attempt = Attempt(w)
            /\ k.pc = "finish" => ~LeaseLost(w)
      BY <1>1, GivingUpSteps
    <2>2. LimitReached(w) => Attempt(w) > MaxAttempts
      BY DEF LimitReached
    <2>3. EngineRaises(w) \/ Cancelled(w) \/ LeaseLost(w) => faulty # {"tracking"}
      BY DEF EngineRaises, Cancelled, LeaseLost, Fault
    <2>4. EngineRaises(w) \/ Cancelled(w) => Fault("engine") \/ Fault("cancel")
      BY DEF EngineRaises, Cancelled
    <2> QED
      BY <1>1, <2>1, <2>2, <2>3, <2>4 DEF Arrives, GivesUp
  <1>2. CASE StorageFails(w)
    <2>1. Abort(w, "failed") \/ Goto(w, "close")
      BY <1>2 DEF StorageFails
    <2>2. PICK k \in Processes :
            worker' = [worker EXCEPT ![w] = k] /\ k.pc \in {"finish", "close"}
      BY <2>1, Aborts, Goes DEF Verdicts, Steps
    <2>3. Fault("storage") /\ faulty # {"tracking"}
      BY <1>2 DEF StorageFails, Fault
    <2> QED
      BY <2>2, <2>3 DEF Arrives
  <1> QED
    BY <1>1, <1>2

LEMMA CallArrives ==
    ASSUME Inv, TrackingInv, NEW w \in Workers,
           Start(w) \/ StartFails(w) \/ TrackMetric(w) \/ Put(w)
    PROVE  \E k \in Processes : Arrives(w, k)
  <1>h. /\ worker[w] \in Processes /\ Attempt(w) = worker[w].attempt
        /\ ProgressInv(worker[w], store)
    BY Here
  <1>1. CASE Start(w)
    <2> DEFINE on == [worker[w] EXCEPT !.active = TRUE]
    <2>1. on \in Processes /\ on.attempt = Attempt(w)
      BY <1>h DEF Processes
    <2>2. Become(w, [on EXCEPT !.pc = "record"])
          \/ (Fault("tracking") /\ Tracked(w, on, "iterate"))
      BY <1>1, Zenon DEF Start
    <2> HIDE DEF on
    <2>3. CASE Become(w, [on EXCEPT !.pc = "record"])
      <3>1. worker' = [worker EXCEPT ![w] = At(on, "record")]
        BY <2>3 DEF Become, At
      <3>2. /\ At(on, "record") \in Processes /\ At(on, "record").pc = "record"
            /\ At(on, "record").attempt = Attempt(w)
        BY <2>1, AtTypes DEF Steps
      <3> QED
        BY <3>1, <3>2 DEF Arrives, Underway
    <2>4. CASE Fault("tracking") /\ Tracked(w, on, "iterate")
      <3>1. PICK k \in Processes :
              /\ worker' = [worker EXCEPT ![w] = k] /\ k.pc = "mark" /\ k.next = "iterate"
              /\ k.attempt = Attempt(w)
        BY <2>1, <2>4, Marks DEF TrackedSteps
      <3> QED
        BY <2>4, <3>1 DEF Arrives, Underway
    <2> QED
      BY <2>2, <2>3, <2>4
  <1>2. CASE StartFails(w)
    <2>1. Fault("tracking")
      BY <1>2 DEF StartFails, WithinLimit, TrackingInv, ThreadInv
    <2>2. PICK k \in Processes :
            /\ worker' = [worker EXCEPT ![w] = k] /\ k.pc = "mark" /\ k.next = "iterate"
            /\ k.attempt = Attempt(w)
      BY <1>2, <1>h, Marks DEF StartFails, TrackedSteps
    <2> QED
      BY <2>1, <2>2 DEF Arrives, Underway
  <1>3. CASE TrackMetric(w) \/ Put(w)
    <2>1. worker[w].count < Iterations + 3
      <3>1. worker[w].pc \in {"metric", "put"} /\ worker[w].count \in 0 .. Iterations + 3
        BY <1>3, <1>h DEF TrackMetric, Put, Processes
      <3> QED
        BY <3>1, <1>h, IterationsPositive DEF ProgressInv
    <2>2. PICK q \in Processes :
            q = [worker[w] EXCEPT !.count = worker[w].count + 1] /\ q.attempt = Attempt(w)
      BY <2>1, <1>h, CountTypes
    <2>3. \/ \E p \in {"iterate", "put", "complete"} : worker' = [worker EXCEPT ![w] = At(q, p)]
          \/ Tracked(w, q, "iterate") /\ Fault("tracking")
      <3>1. CASE TrackMetric(w)
        BY <2>2, <3>1, Zenon DEF TrackMetric, Become, At
      <3>2. CASE Put(w)
        BY <2>2, <3>2, Zenon DEF Put, Become, At
      <3> QED
        BY <1>3, <3>1, <3>2
    <2>4. q.attempt = Attempt(w)
      BY <2>2
    <2>5. CASE \E p \in {"iterate", "put", "complete"} : worker' = [worker EXCEPT ![w] = At(q, p)]
      <3>1. PICK p \in {"iterate", "put", "complete"} : worker' = [worker EXCEPT ![w] = At(q, p)]
        BY <2>5
      <3>2. At(q, p) \in Processes /\ At(q, p).pc = p /\ At(q, p).attempt = Attempt(w)
        BY <2>4, AtTypes DEF Steps
      <3> QED
        BY <3>1, <3>2 DEF Arrives, Underway
    <2>6. CASE Tracked(w, q, "iterate") /\ Fault("tracking")
      <3>1. PICK k \in Processes :
              /\ worker' = [worker EXCEPT ![w] = k] /\ k.pc = "mark" /\ k.next = "iterate"
              /\ k.attempt = Attempt(w)
        BY <2>4, <2>6, Marks DEF TrackedSteps
      <3> QED
        BY <2>6, <3>1 DEF Arrives, Underway
    <2> QED
      BY <2>3, <2>5, <2>6
  <1> QED
    BY <1>1, <1>2, <1>3

LEMMA StepArrives ==
    ASSUME Inv, TrackingInv, NEW w \in Workers, AttemptStep(w)
    PROVE  \E k \in Processes : Arrives(w, k)
  BY ProgressArrives, EndArrives, FailureArrives, CallArrives DEF AttemptStep


\* The fields of the records an attempt writes.
LEMMA WrittenFields ==
    ASSUME Inv, NEW w \in Workers
    PROVE  /\ Marked(w).attempts = rec.attempts /\ Marked(w).status = rec.status
           /\ Marked(w).leased = rec.leased
           /\ [rec EXCEPT !.run = Attempt(w)].attempts = rec.attempts
           /\ [rec EXCEPT !.run = Attempt(w)].status = rec.status
           /\ [rec EXCEPT !.run = Attempt(w)].leased = rec.leased
           /\ Completed(w).attempts = rec.attempts /\ Completed(w).status = "completed"
           /\ Finished(w).attempts = rec.attempts
  <1>1. rec \in Records
    BY Typed
  <1>2. /\ [rec EXCEPT !.marked = TRUE].attempts = rec.attempts
        /\ [rec EXCEPT !.marked = TRUE].status = rec.status
        /\ [rec EXCEPT !.marked = TRUE].leased = rec.leased
    BY <1>1 DEF Records
  <1>3. /\ Marked(w).attempts = rec.attempts /\ Marked(w).status = rec.status
        /\ Marked(w).leased = rec.leased
    <2>1. CASE rec.attempts = Attempt(w)
      BY <1>2, <2>1, Zenon DEF Marked
    <2>2. CASE rec.attempts # Attempt(w)
      BY <2>2, Zenon DEF Marked
    <2> QED
      BY <2>1, <2>2
  <1>4. /\ [rec EXCEPT !.run = Attempt(w)].attempts = rec.attempts
        /\ [rec EXCEPT !.run = Attempt(w)].status = rec.status
        /\ [rec EXCEPT !.run = Attempt(w)].leased = rec.leased
    BY <1>1 DEF Records
  <1>5. /\ Completed(w).attempts = rec.attempts /\ Completed(w).status = "completed"
        /\ Finished(w).attempts = rec.attempts
    BY <1>1 DEF Records, Completed, Finished
  <1> QED
    BY <1>3, <1>4, <1>5

\* If only MLflow fails, nobody but the first attempt's worker does anything.
LEMMA OnlyTrackingStep ==
    ASSUME Inv, TrackingInv, OnlyTrackingInv, faulty = {"tracking"},
           NEW w \in Workers, AttemptStep(w)
    PROVE  OnlyTrackingInv'
  <1>h. /\ worker[w] \in Processes /\ Attempt(w) = worker[w].attempt
        /\ ProgressInv(worker[w], store) /\ rec \in Records
    BY Here
  <1>k. PICK k \in Processes : Arrives(w, k)
    BY StepArrives
  <1>w. worker'[w] = k /\ \A v \in Workers : v # w => worker'[v] = worker[v]
    BY <1>k, Typed DEF Arrives
  <1>r. /\ \/ rec' = rec
           \/ rec' = Marked(w) /\ worker[w].pc = "mark"
           \/ /\ rec' = [rec EXCEPT !.run = Attempt(w)]
              /\ Owned(w) /\ worker[w].pc = "record"
           \/ rec' = Completed(w) /\ Owned(w) /\ worker[w].pc = "complete"
           \/ rec' = Finished(w) /\ Owned(w) /\ worker[w].pc = "finish"
    BY WhatIsWritten
  <1>f. rec'.attempts = rec.attempts
    BY <1>r, WrittenFields
  <1>n. worker[w].pc # "idle" /\ Attempt(w) # 0
    <2>1. worker[w].pc # "idle"
      <3>1. CASE Start(w) \/ StartFails(w) \/ RecordRun(w) \/ Iterate(w) \/ TrackMetric(w)
                 \/ Mark(w) \/ Put(w) \/ Complete(w) \/ Finish(w)
        BY <3>1 DEF Start, StartFails, WithinLimit, RecordRun, Iterate, TrackMetric, Mark,
           Put, Complete, Finish
      <3>2. CASE EndTracking(w) \/ EndTrackingFails(w) \/ Close(w) \/ GivesUp(w)
                 \/ StorageFails(w) \/ Crash(w)
        BY <3>2, GivingUpSteps DEF EndTracking, EndTrackingFails, Close, StorageFails, Crash
      <3> QED
        BY <3>1, <3>2 DEF AttemptStep
    <2> QED
      BY <2>1, <1>h DEF ProgressInv
  <1>a. Attempt(w) <= rec.attempts /\ Attempt(w) \in Nat
    BY <1>n, RangeFacts DEF Inv
  <1>1. CASE rec.attempts = 0
    BY <1>1, <1>a, <1>n
  <1>2. CASE /\ rec.attempts = 1 /\ rec.status = "running" /\ rec.leased
             /\ \E v \in Workers : Attempt(v) = 1 /\ Underway(worker[v])
    <2>1. Attempt(w) = 1
      BY <1>2, <1>a, <1>n
    <2>2. Underway(worker[w])
      <3>1. PICK v \in Workers : Attempt(v) = 1 /\ Underway(worker[v])
        BY <1>2
      <3>2. v = w
        BY <2>1, <3>1 DEF Inv
      <3> QED
        BY <3>1, <3>2
    <2>3. Owned(w)
      BY <1>2, <2>1 DEF Owned, Ended
    <2>4. CASE rec' = Completed(w)
      BY <2>4, <1>2, <1>f, WrittenFields DEF OnlyTrackingInv
    <2>5. CASE rec' # Completed(w)
      <3>1. Underway(k) /\ k.attempt = 1
        <4>1. ~(1 > MaxAttempts)
          BY PublishingAssumption
        <4> QED
          BY <4>1, <1>k, <2>1, <2>2, <2>3, <2>5 DEF Arrives
      <3>2. worker[w].pc # "finish"
        BY <2>2 DEF Underway
      <3>3. rec'.status = "running" /\ rec'.leased
        BY <1>2, <1>r, <2>5, <3>2, WrittenFields
      <3> QED
        BY <3>1, <3>3, <1>2, <1>f, <1>w DEF OnlyTrackingInv, Attempt
    <2> QED
      BY <2>4, <2>5
  <1>3. CASE rec.attempts = 1 /\ rec.status = "completed"
    <2>1. ~Owned(w)
      BY <1>3 DEF Owned, Ended
    <2> QED
      BY <1>3, <1>f, <1>r, <2>1, WrittenFields DEF OnlyTrackingInv
  <1> QED
    BY <1>1, <1>2, <1>3 DEF OnlyTrackingInv

LEMMA AttemptKeepsScenario ==
    ASSUME Inv, TrackingInv, ScenarioInv, NEW w \in Workers, AttemptStep(w)
    PROVE  ScenarioInv'
  <1>k. PICK k \in Processes : Arrives(w, k)
    BY StepArrives
  <1>w. worker'[w] = k /\ \A v \in Workers : v # w => worker'[v] = worker[v]
    BY <1>k, Typed DEF Arrives
  <1>r. /\ \/ rec' = rec
           \/ rec' = Marked(w) /\ worker[w].pc = "mark"
           \/ /\ rec' = [rec EXCEPT !.run = Attempt(w)]
              /\ Owned(w) /\ worker[w].pc = "record"
           \/ rec' = Completed(w) /\ Owned(w) /\ worker[w].pc = "complete"
           \/ rec' = Finished(w) /\ Owned(w) /\ worker[w].pc = "finish"
        /\ cut' # cut => Fault("storage") \/ Fault("crash")
        /\ faulty' = faulty
    BY WhatIsWritten
  <1>1. "tracking" \notin faulty' => ~rec'.marked /\ \A v \in Workers : worker'[v].pc # "mark"
    <2> SUFFICES ASSUME "tracking" \notin faulty'
                 PROVE  ~rec'.marked /\ \A v \in Workers : worker'[v].pc # "mark"
      OBVIOUS
    <2>1. ~rec.marked /\ \A v \in Workers : worker[v].pc # "mark"
      BY <1>r DEF ScenarioInv
    <2>2. k.pc # "mark"
      BY <1>k, <1>r DEF Arrives, Fault
    <2>3. rec'.marked = rec.marked
      BY <1>r, <2>1, MarkOnly
    <2> QED
      BY <1>w, <2>1, <2>2, <2>3
  <1>2. "storage" \notin faulty' /\ "crash" \notin faulty' => cut' = {}
    BY <1>r DEF ScenarioInv, Fault
  <1>3. faulty' \cap {"storage", "engine", "cancel"} = {} =>
          /\ rec'.status = "failed" => rec'.attempts > MaxAttempts
          /\ \A v \in Workers : worker'[v].pc = "finish" => worker'[v].attempt > MaxAttempts
    <2> SUFFICES ASSUME faulty' \cap {"storage", "engine", "cancel"} = {}
                 PROVE  /\ rec'.status = "failed" => rec'.attempts > MaxAttempts
                        /\ \A v \in Workers :
                             worker'[v].pc = "finish" => worker'[v].attempt > MaxAttempts
      OBVIOUS
    <2>1. /\ rec.status = "failed" => rec.attempts > MaxAttempts
          /\ \A v \in Workers : worker[v].pc = "finish" => worker[v].attempt > MaxAttempts
      BY <1>r DEF ScenarioInv, Attempt
    <2>2. k.pc = "finish" => k.attempt > MaxAttempts
      BY <1>k, <1>r DEF Arrives, Fault
    <2>3. rec'.attempts = rec.attempts
      BY <1>r, WrittenFields
    <2>4. rec'.status = "failed" =>
            rec.status = "failed" \/ (Owned(w) /\ worker[w].pc = "finish")
      BY <1>r, WrittenFields
    <2>5. Owned(w) /\ worker[w].pc = "finish" => rec.attempts > MaxAttempts
      BY <2>1 DEF Owned, Attempt
    <2> QED
      BY <1>w, <2>1, <2>2, <2>3, <2>4, <2>5
  <1>4. faulty' = {"tracking"} => OnlyTrackingInv'
    BY <1>r, OnlyTrackingStep DEF ScenarioInv
  <1> QED
    BY <1>1, <1>2, <1>3, <1>4 DEF ScenarioInv, Attempt

LEMMA ClaimKeepsScenario ==
    ASSUME Inv, TrackingInv, ScenarioInv, NEW w \in Workers, Claim(w)
    PROVE  ScenarioInv'
  <1>t. /\ rec \in Records /\ worker \in [Workers -> Processes] /\ Idle \in Processes
    BY Typed, Here
  <1>s. /\ UNCHANGED <<thread, runs, store, cut, faulty>> /\ ~Ended /\ ~rec.leased
        /\ rec'.attempts = rec.attempts + 1 /\ rec'.status = "running" /\ rec'.leased
        /\ rec'.marked = rec.marked
    BY <1>t DEF Claim, Records
  <1>1. /\ worker'[w].pc = "start" /\ worker'[w].attempt = rec.attempts + 1
        /\ \A v \in Workers : v # w => worker'[v] = worker[v]
    <2>1. worker' = [worker EXCEPT ![w] =
                       [Idle EXCEPT !.pc = "start", !.attempt = rec.attempts + 1]]
      BY DEF Claim, Become
    <2>2. /\ [Idle EXCEPT !.pc = "start", !.attempt = rec.attempts + 1].pc = "start"
          /\ [Idle EXCEPT !.pc = "start", !.attempt = rec.attempts + 1].attempt
               = rec.attempts + 1
      BY DEF Idle
    <2> QED
      BY <2>1, <2>2, <1>t
  <1>2. faulty = {"tracking"} => OnlyTrackingInv'
    <2> SUFFICES ASSUME OnlyTrackingInv PROVE OnlyTrackingInv'
      BY DEF ScenarioInv
    <2>1. rec.attempts = 0
      BY <1>s DEF OnlyTrackingInv, Ended
    <2> QED
      BY <2>1, <1>s, <1>1 DEF OnlyTrackingInv, Underway, Attempt
  <1> QED
    BY <1>1, <1>2, <1>s DEF ScenarioInv, Attempt

LEMMA LapseKeepsScenario ==
    ASSUME Inv, ScenarioInv, Lapse \/ UNCHANGED vars
    PROVE  ScenarioInv'
  <1>1. /\ UNCHANGED <<worker, cut, faulty>> /\ rec'.attempts = rec.attempts
        /\ rec'.status = rec.status /\ rec'.marked = rec.marked
        /\ rec'.leased = rec.leased \/ faulty # {"tracking"}
    BY Typed DEF Lapse, vars, Records, Fault
  <1>2. faulty = {"tracking"} => (OnlyTrackingInv' <=> OnlyTrackingInv)
    BY <1>1 DEF OnlyTrackingInv, Attempt
  <1> QED
    BY <1>1, <1>2 DEF ScenarioInv, Attempt

LEMMA ScenarioInvariant == Spec => [](Inv /\ TrackingInv /\ ScenarioInv)
  <1>1. Init => ScenarioInv
    <2> SUFFICES ASSUME Init PROVE ScenarioInv
      OBVIOUS
    <2>1. /\ \A w \in Workers : worker[w].pc = "idle"
          /\ rec.status = "queued" /\ rec.attempts = 0 /\ ~rec.leased /\ ~rec.marked
          /\ cut = {}
      BY DEF Init, Idle
    <2> QED
      BY <2>1 DEF ScenarioInv, OnlyTrackingInv
  <1>2. Inv /\ TrackingInv /\ ScenarioInv /\ [Next]_vars => ScenarioInv'
    <2> SUFFICES ASSUME Inv, TrackingInv, ScenarioInv, [Next]_vars PROVE ScenarioInv'
      OBVIOUS
    <2>1. ASSUME NEW w \in Workers, Claim(w) PROVE ScenarioInv'
      BY <2>1, ClaimKeepsScenario
    <2>2. ASSUME NEW w \in Workers, AttemptStep(w) PROVE ScenarioInv'
      BY <2>2, AttemptKeepsScenario
    <2>3. CASE Lapse \/ UNCHANGED vars
      BY <2>3, LapseKeepsScenario
    <2>4. Next => Lapse \/ \E w \in Workers : Claim(w) \/ AttemptStep(w)
      BY DEF Next, WorkerStep, AttemptStep, GivesUp
    <2> QED
      BY <2>1, <2>2, <2>3, <2>4
  <1> QED
    BY <1>1, <1>2, TrackingInvariant, PTL DEF Spec

\* If only MLflow fails, whenever no worker is at the experiment it is untouched or the
\* first attempt has completed it; if MLflow does not fail, no record is marked
\* (worker.py 157-169, 357-358; tracking.py 80-90).
THEOREM TrackingIsContained == Spec => []TrackingContained
  <1>1. Inv /\ TrackingInv /\ ScenarioInv => TrackingContained
    <2> SUFFICES ASSUME Inv, TrackingInv, ScenarioInv PROVE TrackingContained
      OBVIOUS
    <2>1. ASSUME faulty = {"tracking"}, \A w \in Workers : worker[w].pc = "idle"
          PROVE  \/ rec.attempts = 0
                 \/ rec.attempts = 1 /\ rec.status = "completed" /\ rec.result = 1
      <3>1. OnlyTrackingInv
        BY <2>1 DEF ScenarioInv
      <3>2. \A w \in Workers : ~Underway(worker[w])
        BY <2>1 DEF Underway
      <3> QED
        BY <3>1, <3>2 DEF OnlyTrackingInv, TrackingInv
    <2> QED
      BY <2>1 DEF TrackingContained, ScenarioInv
  <1> QED
    BY <1>1, ScenarioInvariant, PTL

-----------------------------------------------------------------------------
\* The script changes nothing of the deployment it watches.
LEMMA SmokeWatches == SmokeSpec => Spec
  <1>1. SmokeInit => Init
    BY DEF SmokeInit
  <1>2. [SmokeNext]_smokeVars => [Next]_vars
    BY DEF SmokeNext, smokeVars, PollStatus, SearchRuns
  <1> QED
    BY <1>1, <1>2, PTL DEF SmokeSpec, Spec

\* An ended record stays as it ended.
LEMMA EndedStays ==
    ASSUME Inv, [Next]_vars, NEW s \in {"completed", "failed"}, rec.status = s
    PROVE  rec'.status = s
  <1>1. Ended
    BY DEF Ended
  <1>2. ASSUME NEW w \in Workers, AttemptStep(w) PROVE rec'.status = s
    BY <1>1, <1>2, WhatIsWritten, WrittenFields DEF Owned
  <1>3. CASE Lapse \/ UNCHANGED vars
    BY <1>1, <1>3 DEF Lapse, vars
  <1>4. ~\E w \in Workers : Claim(w)
    BY <1>1 DEF Claim
  <1> QED
    BY <1>2, <1>3, <1>4 DEF Next, WorkerStep, AttemptStep, GivesUp

\* On a deployment where workers only take over from each other, the end-to-end check fails
\* only when they did so beyond worker_max_attempts, and it finds a finished run once the
\* workers are through with the completed experiment (smoke_stack.py 41-46, 65-84;
\* worker.py 108, 205-206).
THEOREM SmokeStackPasses == SmokeSpec => []SmokePasses
  <1>1. SmokeInit => SmokeInv
    BY DEF SmokeInit, SmokeInv
  <1>2. Inv /\ SmokeInv /\ [Next]_vars /\ [SmokeNext]_smokeVars => SmokeInv'
    <2> SUFFICES ASSUME Inv, SmokeInv, [Next]_vars, [SmokeNext]_smokeVars PROVE SmokeInv'
      OBVIOUS
    <2>1. CASE PollStatus
      BY <2>1 DEF PollStatus, SmokeInv, vars, Ended
    <2>2. CASE SearchRuns
      BY <2>2 DEF SearchRuns, SmokeInv
    <2>3. CASE smoke' = smoke
      BY <2>3, EndedStays DEF SmokeInv
    <2> QED
      BY <2>1, <2>2, <2>3 DEF SmokeNext, smokeVars
  <1>3. Inv /\ TrackingInv /\ ScenarioInv /\ SmokeInv => SmokePasses
    <2> SUFFICES ASSUME Inv, TrackingInv, ScenarioInv, SmokeInv, faulty \subseteq {"takeover"}
                 PROVE  /\ smoke = "failed" => rec.attempts > MaxAttempts
                        /\ smoke = "completed" /\ (\A w \in Workers : worker[w].pc = "idle") =>
                             SomeRunFinished
      BY DEF SmokePasses
    <2>1. /\ ~rec.marked /\ cut = {}
          /\ rec.status = "failed" => rec.attempts > MaxAttempts
      BY DEF ScenarioInv
    <2>2. ASSUME smoke = "completed", \A w \in Workers : worker[w].pc = "idle"
          PROVE  SomeRunFinished
      <3>1. rec.status = "completed" /\ rec.result # 0 /\ rec \in Records
        BY <2>2, Typed DEF SmokeInv, Inv, CompletedInv
      <3>2. \A w \in Workers : Attempt(w) = 0
        BY <2>2 DEF TrackingInv, ThreadInv
      <3>3. rec.run = rec.result /\ runs[rec.run].status = "FINISHED"
        BY <2>1, <3>1, <3>2 DEF TrackingInv, UnmarkedTrackingWhole
      <3>4. rec.run \in Attempts
        BY <3>1, <3>3, IterationsPositive DEF Records, Maybe, Attempts
      <3> QED
        BY <3>3, <3>4 DEF SomeRunFinished
    <2> QED
      BY <2>1, <2>2 DEF SmokeInv
  <1>4. SmokeSpec => [][Next]_vars
    BY SmokeWatches, PTL DEF Spec
  <1>5. SmokeSpec => [](Inv /\ TrackingInv /\ ScenarioInv)
    BY SmokeWatches, ScenarioInvariant, PTL
  <1> QED
    BY <1>1, <1>2, <1>3, <1>4, <1>5, PTL DEF SmokeSpec
=============================================================================
