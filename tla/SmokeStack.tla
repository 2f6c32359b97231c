------------------------------ MODULE SmokeStack ------------------------------
(***************************************************************************)
(* The end-to-end check of a deployment (scripts/smoke_stack.py) beside    *)
(* the attempts at the experiment it submitted: it polls the API until the *)
(* experiment has ended, and then MLflow until one of its runs is          *)
(* finished.  Its timeout is left out: here it waits as long as it takes.  *)
(***************************************************************************)
EXTENDS Publishing

VARIABLE smoke  \* the script: how far it has come

smokeVars == <<vars, smoke>>

SmokeInit == Init /\ smoke = "submitted"

\* GET /experiments/{id}: a terminal status must be "completed".
PollStatus ==
    /\ smoke = "submitted" /\ Ended
    /\ smoke' = IF rec.status = "completed" THEN "completed" ELSE "failed"
    /\ UNCHANGED vars

SomeRunFinished == \E a \in Attempts : runs[a].status = "FINISHED"

\* runs/search, again until a run of the experiment is finished.
SearchRuns ==
    /\ smoke = "completed" /\ SomeRunFinished
    /\ smoke' = "passed"
    /\ UNCHANGED vars

SmokeNext == PollStatus \/ SearchRuns \/ (Next /\ UNCHANGED smoke)

SmokeSpec == SmokeInit /\ [][SmokeNext]_smokeVars

\* If workers only take over from each other, the script fails only when they did so more
\* often than worker_max_attempts allows, and whenever the workers are through with a
\* completed experiment its search succeeds: takeovers leave failed runs beside the
\* finished one, and that one appears only some time after the completed record
\* (smoke_stack.py 41-46, 65-84; worker.py 108, 205-206).
SmokePasses ==
    faulty \subseteq {"takeover"} =>
        /\ smoke = "failed" => rec.attempts > MaxAttempts
        /\ smoke = "completed" /\ (\A w \in Workers : worker[w].pc = "idle") =>
             SomeRunFinished
=============================================================================
