------------------------------ MODULE EngineRun ------------------------------
(***************************************************************************)
(* The attempts of one experiment at running its engine: the loop of       *)
(* DemoEngine.execute (engine.py) over iterations, budget and best value,  *)
(* the metric each iteration reports, and what _record_metric and complete *)
(* (worker.py) make of it in the record.  An attempt may be interrupted    *)
(* anywhere (cancellation, shutdown, lost lease, crash); the next one      *)
(* starts the engine again with the same seed.                             *)
(*                                                                         *)
(* Numbers.  Fidelities, costs and the budget are multiples of 1/Unit.     *)
(* The progress of a record is in multiples of 1/(100 * budget).  The      *)
(* objective of an iteration is an arbitrary value that depends on the     *)
(* seed and the iteration alone; the iteration stands for the candidate.   *)
(***************************************************************************)
EXTENDS Integers, Sequences, FiniteSets

CONSTANTS
    Unit,         \* 1.0
    Fidelities,   \* fidelity lists that clients send
    Budgets,      \* budgets that clients send
    MinBudget,    \* the smallest budget that is accepted, 10.0 in the code
    Limits,       \* values of max_iterations
    Values,       \* objective values
    MaxAttempts   \* attempts in one behaviour (a bound)

ASSUME UnitAssumption     == Unit \in Nat \ {0}
ASSUME BudgetAssumption   == MinBudget \in Nat /\ MinBudget >= Unit /\ Budgets \subseteq Int
ASSUME LimitsAssumption   == Limits \subseteq Nat \ {0}
ASSUME ValuesAssumption   == Values \subseteq Int
ASSUME AttemptsAssumption == MaxAttempts \in Nat

\* Lists that pass validate_fidelities.
ValidFidelities(f) ==
    /\ f \in Seq(1 .. Unit)
    /\ Len(f) \in 2 .. 5
    /\ \A i, j \in 1 .. Len(f) : i < j => f[i] < f[j]
    /\ f[Len(f)] = Unit

Configs ==
    [budget : {b \in Budgets : b >= MinBudget},
     fidelities : {f \in Fidelities : ValidFidelities(f)},
     maxIterations : Limits]

VARIABLES
    config,    \* configuration of the experiment
    sample,    \* sample[i]: the objective that the seed gives to iteration i
    run,       \* local state of the attempt under way
    record,    \* what the experiment's record says of its metrics
    attempts   \* attempts so far

vars == <<config, sample, run, record, attempts>>

LesserOf(a, b) == IF a < b THEN a ELSE b

\* Mutated form: the number of iterations ignores the budget.
IterationsUnlimited(c) == c.maxIterations

Iterations(c) ==
    LET affordable == c.budget \div Unit
    IN  LesserOf(c.maxIterations, IF affordable < 1 THEN 1 ELSE affordable)

Fidelity(i) == config.fidelities[(i % Len(config.fidelities)) + 1]

None == [candidate |-> -1, objective |-> 0, fidelity |-> 0]

Idle ==
    [pc |-> "idle", iteration |-> 0, cost |-> 0, best |-> None, metrics |-> {}]

\* Mutated form: the engine goes on from the cost of the interrupted attempt.
FreshUnpaid == [Idle EXCEPT !.pc = "loop", !.cost = record.cost]

Fresh == [Idle EXCEPT !.pc = "loop"]

EmptyRecord ==
    [completed |-> FALSE, failed |-> FALSE, history |-> {}, evaluations |-> 0,
     best |-> 0, cost |-> 0, progress |-> 0, recommendation |-> None]

Init ==
    /\ config \in Configs
    /\ sample \in [0 .. Iterations(config) - 1 -> Values]
    /\ run = Idle
    /\ record = EmptyRecord
    /\ attempts = 0

-----------------------------------------------------------------------------
\* The engine.

\* Mutated form: the claim resets the progress.
StartReset ==
    /\ run.pc = "idle" /\ ~record.completed /\ ~record.failed
    /\ attempts < MaxAttempts
    /\ attempts' = attempts + 1
    /\ run' = Fresh
    /\ record' = [record EXCEPT !.progress = 0, !.history = {}]
    /\ UNCHANGED <<config, sample>>

Start ==
    /\ run.pc = "idle" /\ ~record.completed /\ ~record.failed
    /\ attempts < MaxAttempts
    /\ attempts' = attempts + 1
    /\ run' = Fresh
    /\ UNCHANGED <<config, sample, record>>

Goes == run.iteration < Iterations(config)

\* The loop breaks if the next evaluation would exceed the budget.
Affordable == run.cost + Fidelity(run.iteration) <= config.budget

Candidate(i) == [candidate |-> i, objective |-> sample[i], fidelity |-> Fidelity(i)]

\* Mutated form: a later candidate of the same value replaces the earlier one.
BetterOrEqual(p, q) == q = None \/ p.objective <= q.objective

Better(p, q) == q = None \/ p.objective < q.objective

Evaluate ==
    LET i == run.iteration
        best == IF Better(Candidate(i), run.best) THEN Candidate(i) ELSE run.best
        cost == run.cost + Fidelity(i)
        point == [iteration |-> i, objective |-> sample[i], best |-> best.objective,
                  cost |-> cost, fidelity |-> Fidelity(i)]
    IN  /\ run.pc = "loop" /\ Goes /\ Affordable
        /\ run' = [run EXCEPT !.pc = "report", !.cost = cost, !.best = best,
                              !.metrics = @ \cup {point}]
        /\ UNCHANGED <<config, sample, record, attempts>>

\* The loop ends; a run without a single evaluation is an error.
Finish ==
    /\ run.pc = "loop" /\ ~(Goes /\ Affordable)
    /\ IF run.metrics = {}
       THEN run' = Idle /\ record' = [record EXCEPT !.failed = TRUE]
       ELSE run' = [run EXCEPT !.pc = "complete"] /\ UNCHANGED record
    /\ UNCHANGED <<config, sample, attempts>>

-----------------------------------------------------------------------------
\* The record.

Progress(cost) == LesserOf(99 * config.budget, 100 * cost)

Whole == 100 * config.budget

\* Mutated form: the points of an earlier attempt stay.
RecordedKept(r, p) ==
    [r EXCEPT !.history = {q \in r.history : q.iteration # p.iteration} \cup {p},
              !.evaluations = p.iteration + 1, !.best = p.best, !.cost = p.cost,
              !.progress = Progress(p.cost),
              !.recommendation =
                  IF p.fidelity = Unit /\ Better(Candidate(p.iteration), r.recommendation)
                  THEN Candidate(p.iteration) ELSE r.recommendation]

\* _record_metric: the first observation of an attempt discards what earlier
\* attempts left; only the highest fidelity is recommended while the run goes on.
Recorded(r, p) ==
    LET first == p.iteration = 0
        earlier == IF first THEN {} ELSE {q \in r.history : q.iteration # p.iteration}
        recommended == IF first THEN None ELSE r.recommendation
    IN  [r EXCEPT !.history = earlier \cup {p},
                  !.evaluations = p.iteration + 1, !.best = p.best, !.cost = p.cost,
                  !.progress = Progress(p.cost),
                  !.recommendation =
                      IF p.fidelity = Unit /\ Better(Candidate(p.iteration), recommended)
                      THEN Candidate(p.iteration) ELSE recommended]

Report ==
    /\ run.pc = "report"
    /\ \E p \in run.metrics : p.iteration = run.iteration /\ record' = Recorded(record, p)
    /\ run' = [run EXCEPT !.pc = "loop", !.iteration = @ + 1]
    /\ UNCHANGED <<config, sample, attempts>>

Complete ==
    /\ run.pc = "complete"
    /\ record' = [record EXCEPT !.completed = TRUE, !.progress = Whole,
                                !.recommendation = run.best]
    /\ run' = Idle
    /\ UNCHANGED <<config, sample, attempts>>

\* The attempt ends early; its metric, if it was evaluated, may not be recorded.
Interrupt ==
    /\ run.pc # "idle"
    /\ run' = Idle
    /\ UNCHANGED <<config, sample, record, attempts>>

Next == Start \/ Evaluate \/ Finish \/ Report \/ Complete \/ Interrupt

Spec == Init /\ [][Next]_vars

-----------------------------------------------------------------------------
(***************************************************************************)
(* Properties                                                              *)
(***************************************************************************)

\* Every variable keeps its type: no run evaluates more often than planned and no progress
\* exceeds the whole (engine.py 93-134; worker.py 120-152).
TypeOK ==
    /\ run.pc \in {"idle", "loop", "report", "complete"}
    /\ run.iteration \in 0 .. Iterations(config)
    /\ run.cost \in Nat
    /\ record.cost \in Nat /\ record.progress \in 0 .. Whole
    /\ record.evaluations \in 0 .. Iterations(config)
    /\ attempts \in 0 .. MaxAttempts

\* Reference definitions: the uninterrupted run of the seed.
CostOf[k \in Nat] == IF k = 0 THEN 0 ELSE CostOf[k - 1] + Fidelity(k - 1)

\* The best of some iterations, the earliest one if there are several.
IsBestOf(p, is) ==
    IF is = {} THEN p = None
    ELSE \E i \in is :
            /\ p = Candidate(i)
            /\ \A j \in is : sample[i] <= sample[j] /\ (sample[i] = sample[j] => i <= j)

PointOf(i) ==
    LET least == CHOOSE v \in {sample[j] : j \in 0 .. i} : \A j \in 0 .. i : v <= sample[j]
    IN  [iteration |-> i, objective |-> sample[i], best |-> least,
         cost |-> CostOf[i + 1], fidelity |-> Fidelity(i)]

\* The recorded history is always a beginning of the one run that the seed
\* determines, so many attempts leave the record that a single one would have:
\* no cost, best value or point of an interrupted attempt is carried over.
HistoryReproducible == record.history = {PointOf(i) : i \in 0 .. record.evaluations - 1}

\* What the record shows beside the history belongs to that very history: cost
\* and best value are its last point's, the interim recommendation is the best
\* observation at full fidelity (_record_metric sets them in one mutation).
SummaryAgrees ==
    LET n == record.evaluations
    IN  /\ Cardinality(record.history) = n
        /\ n > 0 => record.cost = PointOf(n - 1).cost /\ record.best = PointOf(n - 1).best
        /\ ~record.completed =>
              IsBestOf(record.recommendation, {i \in 0 .. n - 1 : Fidelity(i) = Unit})

\* A completed experiment recommends the best of all its observations, at
\* whatever fidelity, and its history has all of them.
CompletedRunIsWhole ==
    record.completed =>
        /\ record.evaluations = Iterations(config)
        /\ IsBestOf(record.recommendation, 0 .. Iterations(config) - 1)

\* An accepted budget pays for every iteration: no run breaks off for want of
\* budget, none fails with "budget was insufficient", none overspends.
BudgetSuffices ==
    /\ run.pc = "loop" /\ Goes => Affordable
    /\ ~record.failed
    /\ run.cost <= config.budget /\ record.cost <= config.budget

\* "Preserve interrupted progress until the first observation of a new attempt"
\* (worker.py, _claim): progress falls, and points disappear, only then.  It shows
\* one only when the experiment is complete.
ProgressPreserved ==
    [][ /\ record'.progress = Whole => record'.completed
        /\ \/ record'.progress < record.progress
           \/ ~(record.history \subseteq record'.history)
           => run.pc = "report" /\ run.iteration = 0 /\ attempts > 1 ]_vars
=============================================================================
