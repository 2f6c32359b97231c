------------------------------ MODULE Publishing ------------------------------
(***************************************************************************)
(* What the attempts at one experiment publish outside its record: an      *)
(* MLflow run and the artifact files (worker.py process and _track,        *)
(* tracking.py, artifacts.py), with workers that take over from each other *)
(* and MLflow, storage and processes that fail.                            *)
(*                                                                         *)
(* The n-th claim stands for the UUID of its delivery: lease_owner is the  *)
(* latest attempt.  A run is named by the attempt that started it, 0 for   *)
(* none.  Mutations of the record are single steps here (JobPlatform has   *)
(* the two halves of an _owned mutation), and so are the calls of one      *)
(* tracker operation: they touch the worker's own run only.                *)
(***************************************************************************)
EXTENDS Naturals

CONSTANTS
    Workers,
    Iterations,  \* metrics of a complete execution
    MaxAttempts, \* worker_max_attempts: later attempts end the experiment
    MaxClaims,   \* attempts in one behaviour (a bound)
    Scenarios    \* sets of the kinds of failure that happen, each any number of times

FaultKinds == {"tracking", "storage", "crash", "engine", "takeover", "cancel"}

ASSUME PublishingAssumption ==
    /\ Iterations \in Nat \ {0} /\ MaxAttempts \in Nat \ {0} /\ MaxClaims \in Nat \ {0}
    /\ Scenarios \subseteq SUBSET FaultKinds

VARIABLES
    rec,     \* the record: what tracking and artifacts have to do with
    worker,  \* worker[w]: process() and its ExperimentTracker
    thread,  \* thread[w]: the run MLflow holds active for w's thread
    runs,    \* runs[a]: the run of attempt a on the tracking server
    store,   \* store[p]: the attempt whose whole file is at path p, or 0
    cut,     \* attempts that died, or failed to write the record
    faulty   \* the scenario of this behaviour

vars == <<rec, worker, thread, runs, store, cut, faulty>>

Attempts == 1 .. MaxClaims
Maybe    == 0 .. MaxClaims
Points   == 1 .. Iterations
Files    == 1 .. 3  \* configuration, result and convergence plot, as uploaded

NoRun == [status |-> "none", points |-> [i \in Points |-> 0], summary |-> FALSE]

Idle ==
    [pc |-> "idle", attempt |-> 0, count |-> 0, active |-> FALSE,
     verdict |-> "none", next |-> "idle"]

TrackedSteps == {"iterate", "close"}  \* what follows a _track call

Verdicts == {"none", "completed", "queued", "failed"}

\* Every variable keeps its type (domain.py 88-114, tracking.py 12-17).
TypeOK ==
    /\ rec \in [status : {"queued", "running", "completed", "failed"}, attempts : Maybe,
                leased : BOOLEAN, run : Maybe, marked : BOOLEAN, result : Maybe]
    /\ worker \in [Workers ->
         [pc : {"idle", "start", "record", "iterate", "metric", "put", "complete",
                "finish", "end", "mark", "close"},
          attempt : Maybe, count : 0 .. Iterations + 3, active : BOOLEAN,
          verdict : Verdicts, next : TrackedSteps \cup {"idle"}]]
    /\ thread \in [Workers -> Maybe]
    /\ runs \in [Attempts ->
         [status : {"none", "RUNNING", "FINISHED", "FAILED"},
          points : [Points -> Maybe], summary : BOOLEAN]]
    /\ store \in [Maybe \X Files -> Maybe]
    /\ cut \subseteq Attempts
    /\ faulty \in Scenarios

Init ==
    /\ rec = [status |-> "queued", attempts |-> 0, leased |-> FALSE, run |-> 0,
              marked |-> FALSE, result |-> 0]
    /\ worker = [w \in Workers |-> Idle]
    /\ thread = [w \in Workers |-> 0]
    /\ runs = [a \in Attempts |-> NoRun]
    /\ store = [p \in Maybe \X Files |-> 0]
    /\ cut = {}
    /\ faulty \in Scenarios

-----------------------------------------------------------------------------
Fault(kind) == kind \in faulty

Ended == rec.status \in {"completed", "failed"}

Attempt(w) == worker[w].attempt

\* The guard of _owned.
Owned(w) == rec.attempts = Attempt(w) /\ rec.leased /\ ~Ended

Become(w, k) == worker' = [worker EXCEPT ![w] = k]
Goto(w, p)   == Become(w, [worker[w] EXCEPT !.pc = p])

\* The failure handler is entered.
Abort(w, v) == Become(w, [worker[w] EXCEPT !.pc = "finish", !.verdict = v])

\* A tracker call raised: _track marks the record, then goes on.
Tracked(w, k, next) == Become(w, [k EXCEPT !.pc = "mark", !.next = next])

\* Mutated form: artifacts of all attempts share one directory.
SharedPath(a, f) == <<0, f>>

\* f"attempts/{owner}/" and the file's name.
Path(a, f) == <<a, f>>

-----------------------------------------------------------------------------
Claim(w) ==
    /\ worker[w].pc = "idle"
    /\ ~Ended /\ ~rec.leased /\ rec.attempts < MaxClaims
    /\ rec' = [rec EXCEPT !.attempts = @ + 1, !.leased = TRUE, !.status = "running"]
    /\ Become(w, [Idle EXCEPT !.pc = "start", !.attempt = rec.attempts + 1])
    /\ UNCHANGED <<thread, runs, store, cut, faulty>>

\* Mutated form: the last attempt is not let through.
LimitReachedEarly(w) ==
    /\ worker[w].pc = "start" /\ Attempt(w) >= MaxAttempts
    /\ Abort(w, "failed")
    /\ UNCHANGED <<rec, thread, runs, store, cut, faulty>>

\* The claim was one too many, whatever became of the attempts before it.
LimitReached(w) ==
    /\ worker[w].pc = "start" /\ Attempt(w) > MaxAttempts
    /\ Abort(w, "failed")
    /\ UNCHANGED <<rec, thread, runs, store, cut, faulty>>

WithinLimit(w) == worker[w].pc = "start" /\ Attempt(w) <= MaxAttempts

RunStarted(w) == runs' = [runs EXCEPT ![Attempt(w)].status = "RUNNING"]

\* tracker.start: mlflow.start_run refuses a thread that has an active run.
Start(w) ==
    LET on == [worker[w] EXCEPT !.active = TRUE]
    IN  /\ WithinLimit(w) /\ thread[w] = 0
        /\ RunStarted(w)
        /\ thread' = [thread EXCEPT ![w] = Attempt(w)]
        /\ \/ Become(w, [on EXCEPT !.pc = "record"])
           \/ Fault("tracking") /\ Tracked(w, on, "iterate")  \* log_params, set_tags
        /\ UNCHANGED <<rec, store, cut, faulty>>

\* start_run raised: it was refused, never arrived, or only its answer was lost.
StartFails(w) ==
    /\ WithinLimit(w)
    /\ \/ (thread[w] # 0 \/ Fault("tracking")) /\ UNCHANGED runs
       \/ thread[w] = 0 /\ Fault("tracking") /\ RunStarted(w)
    /\ Tracked(w, worker[w], "iterate")
    /\ UNCHANGED <<rec, thread, store, cut, faulty>>

\* Mutated form: the run is recorded by whoever started it.
RecordRunUnowned(w) ==
    /\ worker[w].pc = "record"
    /\ Goto(w, "iterate") /\ rec' = [rec EXCEPT !.run = Attempt(w)]
    /\ UNCHANGED <<thread, runs, store, cut, faulty>>

RecordRun(w) ==
    /\ worker[w].pc = "record"
    /\ IF Owned(w) THEN Goto(w, "iterate") /\ rec' = [rec EXCEPT !.run = Attempt(w)]
                   ELSE Goto(w, "close") /\ UNCHANGED rec
    /\ UNCHANGED <<thread, runs, store, cut, faulty>>

\* One observation reaches the record; once there are enough, the uploads begin.
Iterate(w) ==
    /\ worker[w].pc = "iterate"
    /\ Goto(w, IF ~Owned(w) THEN "close"
               ELSE IF worker[w].count < Iterations THEN "metric" ELSE "put")
    /\ UNCHANGED <<rec, thread, runs, store, cut, faulty>>

\* tracker.metric: to the thread's active run.
TrackMetric(w) ==
    LET i      == worker[w].count + 1
        k      == [worker[w] EXCEPT !.count = i]
        logged == [runs EXCEPT ![thread[w]].points[i] = Attempt(w)]
    IN  /\ worker[w].pc = "metric"
        /\ \/ /\ Become(w, [k EXCEPT !.pc = "iterate"])
              /\ runs' = IF worker[w].active THEN logged ELSE runs
           \/ /\ worker[w].active /\ Fault("tracking")
              /\ Tracked(w, k, "iterate")
              /\ runs' \in {runs, logged}
        /\ UNCHANGED <<rec, thread, store, cut, faulty>>

\* Mutated form: the mark ignores who owns the record now.
MarkedByAnyone(w) == [rec EXCEPT !.marked = TRUE]

\* The mark looks at the owner only: the record may be terminal, the lease expired.
Marked(w) == IF rec.attempts = Attempt(w) THEN [rec EXCEPT !.marked = TRUE] ELSE rec

Mark(w) ==
    /\ worker[w].pc = "mark"
    /\ rec' = Marked(w)
    /\ Goto(w, worker[w].next)
    /\ UNCHANGED <<thread, runs, store, cut, faulty>>

\* put_json, put_json, put_bytes: one file each, overwriting what is there.
PutFile(w) == worker[w].count - Iterations + 1

Put(w) ==
    /\ worker[w].pc = "put"
    /\ store' = [store EXCEPT ![Path(Attempt(w), PutFile(w))] = Attempt(w)]
    /\ Become(w, [worker[w] EXCEPT !.count = @ + 1,
                                   !.pc = IF PutFile(w) = 3 THEN "complete" ELSE "put"])
    /\ UNCHANGED <<rec, thread, runs, cut, faulty>>

Completed(w) == [rec EXCEPT !.status = "completed", !.result = Attempt(w)]

Complete(w) ==
    /\ worker[w].pc = "complete"
    /\ IF Owned(w)
         THEN /\ rec' = Completed(w)
              /\ Become(w, [worker[w] EXCEPT !.pc = "end", !.verdict = "completed"])
         ELSE Goto(w, "close") /\ UNCHANGED rec
    /\ UNCHANGED <<thread, runs, store, cut, faulty>>

Finished(w) == [rec EXCEPT !.status = worker[w].verdict, !.leased = FALSE]

Finish(w) ==
    /\ worker[w].pc = "finish"
    /\ IF Owned(w) THEN Goto(w, "end") /\ rec' = Finished(w)
                   ELSE Goto(w, "close") /\ UNCHANGED rec
    /\ UNCHANGED <<thread, runs, store, cut, faulty>>

-----------------------------------------------------------------------------
\* Ending the run.

\* mlflow.end_run takes the run off the thread, then tells the server.
EndRun(w, status) ==
    /\ thread' = [thread EXCEPT ![w] = 0]
    /\ runs' = IF thread[w] = 0 THEN runs
               ELSE [runs EXCEPT ![thread[w]].status = status,
                                 ![thread[w]].summary = worker[w].pc = "end"]

EndRunUnheard(w) == thread' = [thread EXCEPT ![w] = 0] /\ UNCHANGED runs

RunStatus(verdict) == IF verdict = "completed" THEN "FINISHED" ELSE "FAILED"

\* tracker.finish: summary and tag, then end_run.
EndTracking(w) ==
    /\ worker[w].pc = "end"
    /\ IF worker[w].active THEN EndRun(w, RunStatus(worker[w].verdict))
                           ELSE UNCHANGED <<thread, runs>>
    /\ Become(w, [worker[w] EXCEPT !.pc = "close", !.active = FALSE])
    /\ UNCHANGED <<rec, store, cut, faulty>>

\* It raises before end_run, or in it: then the tracker believes the run is active.
EndTrackingFails(w) ==
    /\ Fault("tracking")
    /\ worker[w].pc = "end" /\ worker[w].active
    /\ \/ UNCHANGED <<thread, runs>>
       \/ EndRun(w, RunStatus(worker[w].verdict))
       \/ EndRunUnheard(w)
    /\ Tracked(w, worker[w], "close")
    /\ UNCHANGED <<rec, store, cut, faulty>>

\* Mutated form: process() does not close its tracker.
CloseOmitted(w) ==
    /\ worker[w].pc = "close"
    /\ Become(w, Idle)
    /\ UNCHANGED <<rec, thread, runs, store, cut, faulty>>

\* tracker.close in the finally block swallows a failure of end_run.
Close(w) ==
    /\ worker[w].pc = "close"
    /\ IF worker[w].active
         THEN EndRun(w, "FAILED") \/ (Fault("tracking") /\ EndRunUnheard(w))
         ELSE UNCHANGED <<thread, runs>>
    /\ Become(w, Idle)
    /\ UNCHANGED <<rec, store, cut, faulty>>

-----------------------------------------------------------------------------
\* Failures.

\* The engine raises, or is told to stop.
EngineRaises(w) ==
    /\ Fault("engine")
    /\ worker[w].pc = "iterate"
    /\ \E v \in {"queued", "failed"} : Abort(w, v)
    /\ UNCHANGED <<rec, thread, runs, store, cut, faulty>>

\* A cancellation is seen: before the run is started, between iterations and uploads, or
\* by the completing mutation.  The status cancelled is "failed" here.
Cancelled(w) ==
    /\ Fault("cancel")
    /\ worker[w].pc = "start" \/ (worker[w].pc \in {"iterate", "complete"} /\ Owned(w))
    /\ Abort(w, "failed")
    /\ UNCHANGED <<rec, thread, runs, store, cut, faulty>>

\* A lease nobody renews expires.
Lapse ==
    /\ Fault("takeover")
    /\ rec.leased /\ ~Ended
    /\ rec' = [rec EXCEPT !.leased = FALSE]
    /\ UNCHANGED <<worker, thread, runs, store, cut, faulty>>

\* A renewal failed: the first one, before the checks of the attempt, or one that the
\* engine's checks or the failure handler learn of.
LeaseLost(w) ==
    /\ Fault("takeover")
    /\ worker[w].pc \in {"start", "iterate", "finish"}
    /\ Goto(w, "close")
    /\ UNCHANGED <<rec, thread, runs, store, cut, faulty>>

\* A storage call raises, landed or not: in the first renewal, which ends the delivery;
\* before the end of the attempt, and the failure handler runs; after it, and the handler
\* finds a terminal record or is itself cut short.
StorageFails(w) ==
    /\ Fault("storage")
    /\ \/ worker[w].pc = "start" /\ Goto(w, "close") /\ UNCHANGED <<rec, store, faulty>>
       \/ worker[w].pc \in {"record", "iterate"} /\ Abort(w, "failed") /\ UNCHANGED <<rec, store, faulty>>
       \/ /\ worker[w].pc = "put" /\ Abort(w, "failed") /\ UNCHANGED rec
          /\ store' \in {store, [store EXCEPT ![Path(Attempt(w), PutFile(w))] = 0]}
       \/ /\ worker[w].pc = "complete" /\ Abort(w, "failed") /\ UNCHANGED store
          /\ rec' \in {rec} \cup {r \in {Completed(w)} : Owned(w)}
       \/ /\ worker[w].pc = "finish" /\ Goto(w, "close") /\ UNCHANGED store
          /\ rec' \in {rec} \cup {r \in {Finished(w)} : Owned(w)}
       \/ /\ worker[w].pc = "mark" /\ UNCHANGED store
          /\ rec' \in {rec, Marked(w)}
          /\ IF worker[w].next = "close" THEN Goto(w, "close") ELSE Abort(w, "failed")
    /\ cut' = cut \cup {Attempt(w)}
    /\ UNCHANGED <<thread, runs, faulty>>

Crash(w) ==
    /\ Fault("crash")
    /\ worker[w].pc # "idle"
    /\ cut' = cut \cup {Attempt(w)}
    /\ thread' = [thread EXCEPT ![w] = 0]
    /\ Become(w, Idle)
    /\ UNCHANGED <<rec, runs, store, faulty>>

-----------------------------------------------------------------------------
WorkerStep(w) ==
    \/ Claim(w) \/ LimitReached(w) \/ Start(w) \/ StartFails(w) \/ RecordRun(w) \/ Iterate(w)
    \/ TrackMetric(w) \/ Mark(w) \/ Put(w) \/ Complete(w) \/ Finish(w)
    \/ EndTracking(w) \/ EndTrackingFails(w) \/ Close(w)

Next ==
    \/ \E w \in Workers : WorkerStep(w)
    \/ \E w \in Workers :
         EngineRaises(w) \/ Cancelled(w) \/ LeaseLost(w) \/ StorageFails(w) \/ Crash(w)
    \/ Lapse

Spec == Init /\ [][Next]_vars

-----------------------------------------------------------------------------
\* The files a completed record names are whole and of the attempt that completed it,
\* for ever: uploads of an attempt that was taken over, and half-written ones, land
\* elsewhere (worker.py 246-265; docs/ARCHITECTURE.md: "attempt-specific artifact paths").
ArtifactsIntact ==
    rec.status = "completed" => \A f \in Files : store[Path(rec.result, f)] = rec.result

\* A completed record without the mark has its tracking: it names the run of the attempt
\* that completed it, and that run is finished, with the summary and every metric of that
\* attempt.  Excepted are attempts that died or could not write the record, and the time
\* until the worker has closed its tracker (worker.py 157-169, 207-219, 281-295).
UnmarkedTrackingWhole ==
    /\ rec.status = "completed" /\ ~rec.marked /\ rec.result \notin cut
    /\ \A w \in Workers : Attempt(w) # rec.result
    => /\ rec.run = rec.result
       /\ runs[rec.run].status = "FINISHED" /\ runs[rec.run].summary
       /\ \A i \in Points : runs[rec.run].points[i] = rec.result

\* A terminal record changes no more, except that the attempt that ended it may add the
\* mark of its last tracking call; nobody marks the record of a later owner
\* (worker.py 163-168).
EndedOnlyMarked ==
    [][/\ Ended => rec' = [rec EXCEPT !.marked = rec'.marked]
       /\ rec'.marked # rec.marked =>
            \E w \in Workers : worker[w].pc = "mark" /\ Attempt(w) = rec.attempts]_vars

\* "Results survive" (docs/ARCHITECTURE.md 46-47): if only MLflow fails, and be it in every
\* call and with its answers lost, the first attempt completes the experiment.  And no
\* record is marked unless MLflow fails: no attempt, however it ended, leaves a run active
\* on its thread, which would fail the tracking of the next experiment
\* (worker.py 157-169, 357-358; tracking.py 80-90).
TrackingContained ==
    /\ faulty = {"tracking"} /\ (\A w \in Workers : worker[w].pc = "idle") =>
         \/ rec.attempts = 0
         \/ rec.attempts = 1 /\ rec.status = "completed" /\ rec.result = 1
    /\ "tracking" \notin faulty => ~rec.marked
=============================================================================
