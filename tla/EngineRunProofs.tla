--------------------------- MODULE EngineRunProofs ---------------------------
(***************************************************************************)
(* An accepted budget pays for the whole run, whatever the fidelities, the *)
(* objective values and the interruptions; a completed record recommends   *)
(* the best of the run; and whatever was interrupted, the record has a     *)
(* beginning of the one run that the seed determines, summarised rightly.  *)
(***************************************************************************)
EXTENDS EngineRun, FiniteSetTheorems, WellFoundedInduction, TLAPS

Candidates == [candidate : Int, objective : Int, fidelity : Int]

Points == [iteration : Nat, objective : Int, best : Int, cost : Nat, fidelity : Int]

Runs ==
    [pc : {"idle", "loop", "report", "complete"}, iteration : Nat, cost : Nat,
     best : Candidates, metrics : SUBSET Points]

Records ==
    [completed : BOOLEAN, failed : BOOLEAN, history : SUBSET Points, evaluations : Nat,
     best : Int, cost : Nat, progress : Int, recommendation : Candidates]

Typed ==
    /\ config \in Configs
    /\ sample \in [0 .. Iterations(config) - 1 -> Values]
    /\ run \in Runs
    /\ record \in Records

\* Where the attempt is, and that each of its evaluations cost one unit at most.
RunInv ==
    /\ run.iteration <= Iterations(config)
    /\ run.pc = "loop" => run.cost <= run.iteration * Unit
    /\ run.pc = "report" =>
          run.iteration < Iterations(config) /\ run.cost <= (run.iteration + 1) * Unit
    /\ run.pc = "loop" /\ run.metrics = {} => run.iteration = 0
    /\ run.pc = "report" => run.metrics # {}

CostInv ==
    /\ run.cost <= config.budget
    /\ \A p \in run.metrics : p.cost <= config.budget
    /\ record.cost <= config.budget
    /\ ~record.failed

Inv == Typed /\ RunInv /\ CostInv

-----------------------------------------------------------------------------
\* Rounding down to whole units.
LEMMA Quotient ==
    ASSUME NEW b \in Int, NEW u \in Nat, u > 0, b >= u
    PROVE  b \div u \in Nat /\ b \div u >= 1 /\ (b \div u) * u <= b
  <1>1. b \div u \in Int /\ b % u \in 0 .. u - 1 /\ b = u * (b \div u) + (b % u)
    OBVIOUS
  <1>2. b \div u >= 1
    BY <1>1
  <1> QED
    BY <1>1, <1>2

\* An accepted number of iterations is positive.
LEMMA LimitPositive ==
    ASSUME NEW x \in Limits
    PROVE  x \in Nat /\ x >= 1
  <1>1. x \in Nat \ {0}
    BY LimitsAssumption
  <1> QED
    BY <1>1

\* The round robin over a list of fidelities stays in the list.
LEMMA RoundRobin ==
    ASSUME NEW n \in Nat, n > 0, NEW i \in Nat
    PROVE  (i % n) + 1 \in 1 .. n
  <1>1. i % n \in 0 .. n - 1
    OBVIOUS
  <1> QED
    BY <1>1

\* The elements of a list of two to five elements.
LEMMA ListFacts ==
    ASSUME NEW S, NEW f \in Seq(S), Len(f) \in 2 .. 5
    PROVE  Len(f) \in Nat /\ Len(f) > 0 /\ \A j \in 1 .. Len(f) : f[j] \in S
  OBVIOUS

\* A step that costs one unit at most.
LEMMA OneMore ==
    ASSUME NEW k \in Nat, NEW n \in Nat, NEW u \in Nat, NEW c \in Nat, NEW f \in 1 .. u,
           c <= k * u, k + 1 <= n
    PROVE  c + f \in Nat /\ c + f <= (k + 1) * u /\ (k + 1) * u <= n * u
  <1>1. k * u \in Nat /\ (k + 1) * u = k * u + u
    OBVIOUS
  <1>2. PICK d \in Nat : n = (k + 1) + d
    <2>1. n - (k + 1) \in Nat /\ n = (k + 1) + (n - (k + 1))
      OBVIOUS
    <2> QED
      BY <2>1
  <1>3. n * u = (k + 1) * u + d * u /\ d * u \in Nat
    BY <1>2
  <1> QED
    BY <1>1, <1>3

\* What validation guarantees: the budget covers the iterations at full cost.
LEMMA ConfigFacts ==
    ASSUME config \in Configs
    PROVE  /\ config.budget \in Int /\ config.budget >= Unit
           /\ Iterations(config) \in Nat /\ Iterations(config) >= 1
           /\ Iterations(config) * Unit <= config.budget
           /\ \A i \in Nat : Fidelity(i) \in 1 .. Unit
           /\ config.budget >= 0
  <1>1. config.budget \in Int /\ config.budget >= Unit
    <2>1. config.budget \in Budgets /\ config.budget >= MinBudget
      BY DEF Configs
    <2>2. config.budget \in Int
      BY <2>1, BudgetAssumption
    <2> QED
      BY <2>1, <2>2, BudgetAssumption, UnitAssumption
  <1>2. config.maxIterations \in Nat /\ config.maxIterations >= 1
    <2>1. config.maxIterations \in Limits
      BY DEF Configs
    <2> QED
      BY <2>1, LimitPositive
  <1> DEFINE q == config.budget \div Unit
  <1>3. q \in Nat /\ q >= 1 /\ q * Unit <= config.budget
    BY <1>1, UnitAssumption, Quotient
  <1> HIDE DEF q
  <1>4. /\ Iterations(config) \in Nat /\ Iterations(config) >= 1 /\ Iterations(config) <= q
    BY <1>2, <1>3 DEF Iterations, LesserOf, q
  <1>5. Iterations(config) * Unit <= q * Unit
    BY <1>3, <1>4, UnitAssumption
  <1>6. Iterations(config) * Unit <= config.budget
    BY <1>1, <1>3, <1>4, <1>5, UnitAssumption
  <1>7. ASSUME NEW i \in Nat PROVE Fidelity(i) \in 1 .. Unit
    <2>1. config.fidelities \in Seq(1 .. Unit) /\ Len(config.fidelities) \in 2 .. 5
      BY DEF Configs, ValidFidelities
    <2> DEFINE f == config.fidelities
    <2> DEFINE n == Len(f)
    <2>2. n \in Nat /\ n > 0
      BY <2>1, ListFacts
    <2>3. \A j \in 1 .. n : f[j] \in 1 .. Unit
      BY <2>1, ListFacts
    <2>4. Fidelity(i) = f[(i % n) + 1]
      BY DEF Fidelity
    <2> HIDE DEF n, f
    <2>5. (i % n) + 1 \in 1 .. n
      BY <2>2, RoundRobin
    <2> QED
      BY <2>3, <2>4, <2>5
  <1>8. \A b \in Int : b >= Unit => b >= 0
    BY UnitAssumption
  <1>9. config.budget >= 0
    BY <1>1, <1>8
  <1> QED
    BY <1>1, <1>4, <1>6, <1>7, <1>9

\* The next evaluation of a run that goes on is affordable.
LEMMA NextAffordable ==
    ASSUME Inv, run.pc = "loop", Goes
    PROVE  /\ Affordable
           /\ run.cost + Fidelity(run.iteration) \in Nat
           /\ run.cost + Fidelity(run.iteration) <= (run.iteration + 1) * Unit
           /\ run.cost + Fidelity(run.iteration) <= config.budget
  <1> DEFINE k == run.iteration
             c == run.cost
             n == Iterations(config)
             f == Fidelity(k)
             b == config.budget
  <1>1. k \in Nat /\ c \in Nat
    BY DEF Inv, Typed, Runs
  <1>2. c <= k * Unit /\ k < n
    BY DEF Inv, RunInv, Goes
  <1>3. f \in 1 .. Unit /\ n \in Nat /\ b \in Int /\ n * Unit <= b
    BY <1>1, ConfigFacts DEF Inv, Typed
  <1>4. Affordable <=> c + f <= b
    BY DEF Affordable
  <1>5. Unit \in Nat
    BY UnitAssumption
  <1> HIDE DEF k, c, n, f, b
  <1>6. c + f \in Nat /\ c + f <= (k + 1) * Unit /\ (k + 1) * Unit <= n * Unit
    BY <1>1, <1>2, <1>3, <1>5, OneMore
  <1>7. (k + 1) * Unit \in Int /\ n * Unit \in Int
    BY <1>1, <1>3, <1>5
  <1>8. c + f <= b
    BY <1>3, <1>6, <1>7
  <1> QED
    BY <1>4, <1>6, <1>8 DEF k, c, f, b
-----------------------------------------------------------------------------
\* The candidate of an iteration, and the better of two candidates, are typed.
LEMMA CandidateTyped ==
    ASSUME Typed, NEW i \in Nat, i < Iterations(config)
    PROVE  Candidate(i) \in Candidates /\ sample[i] \in Int /\ Fidelity(i) \in Int
  <1>1. Fidelity(i) \in 1 .. Unit /\ Iterations(config) \in Nat
    BY ConfigFacts DEF Typed
  <1>2. Fidelity(i) \in Int
    BY <1>1, UnitAssumption
  <1>3. sample[i] \in Values
    <2>1. i \in 0 .. Iterations(config) - 1
      BY <1>1
    <2> QED
      BY <2>1 DEF Typed
  <1>4. sample[i] \in Int
    BY <1>3, ValuesAssumption
  <1> QED
    BY <1>2, <1>4 DEF Candidate, Candidates

LEMMA NoneTyped == None \in Candidates
  BY DEF None, Candidates

LEMMA InitInv ==
    ASSUME Init
    PROVE  Inv
  <1>1. Typed
    <2>1. run \in Runs
      BY NoneTyped DEF Init, Idle, Runs
    <2>2. record \in Records
      BY NoneTyped DEF Init, EmptyRecord, Records
    <2> QED
      BY <2>1, <2>2 DEF Init, Typed
  <1>2. config.budget \in Int /\ config.budget >= 0 /\ Iterations(config) \in Nat
    BY <1>1, ConfigFacts DEF Typed
  <1>3. /\ run.iteration = 0 /\ run.pc = "idle" /\ run.cost = 0 /\ run.metrics = {}
        /\ record.cost = 0 /\ record.failed = FALSE
    BY DEF Init, Idle, EmptyRecord
  <1>4. RunInv
    BY <1>2, <1>3 DEF RunInv
  <1>5. CostInv
    BY <1>2, <1>3 DEF CostInv
  <1> QED
    BY <1>1, <1>4, <1>5 DEF Inv

\* An attempt that is idle or has just begun satisfies the invariant.
LEMMA IdleInv ==
    ASSUME Inv, UNCHANGED <<config, sample, record>>, run' = Idle \/ run' = Fresh
    PROVE  Inv'
  <1>1. /\ run' \in Runs /\ run'.iteration = 0 /\ run'.cost = 0 /\ run'.metrics = {}
        /\ run'.pc \in {"idle", "loop"}
    BY NoneTyped DEF Idle, Fresh, Runs
  <1>2. config.budget \in Int /\ config.budget >= 0 /\ Iterations(config) \in Nat
    BY ConfigFacts DEF Inv, Typed
  <1>3. Typed' /\ Iterations(config)' = Iterations(config)
    BY <1>1 DEF Inv, Typed, Iterations
  <1>4. RunInv'
    <2>1. 0 <= 0 * Unit
      BY UnitAssumption
    <2> QED
      BY <1>1, <1>2, <1>3, <2>1 DEF RunInv
  <1>5. CostInv'
    BY <1>1, <1>2 DEF Inv, CostInv
  <1> QED
    BY <1>3, <1>4, <1>5 DEF Inv

LEMMA EvaluateInv ==
    ASSUME Inv, Evaluate
    PROVE  Inv'
  <1> DEFINE i == run.iteration
             best == IF Better(Candidate(i), run.best) THEN Candidate(i) ELSE run.best
             cost == run.cost + Fidelity(i)
             point == [iteration |-> i, objective |-> sample[i], best |-> best.objective,
                       cost |-> cost, fidelity |-> Fidelity(i)]
  <1>1. /\ run.pc = "loop" /\ Goes
        /\ run' = [run EXCEPT !.pc = "report", !.cost = cost, !.best = best,
                              !.metrics = @ \cup {point}]
        /\ UNCHANGED <<config, sample, record, attempts>>
    BY DEF Evaluate
  <1>2. cost \in Nat /\ cost <= (i + 1) * Unit /\ cost <= config.budget
    BY <1>1, NextAffordable
  <1>3. i \in Nat /\ i < Iterations(config)
    BY <1>1 DEF Inv, Typed, Runs, Goes
  <1>4. Candidate(i) \in Candidates /\ sample[i] \in Int /\ Fidelity(i) \in Int
    BY <1>3, CandidateTyped DEF Inv
  <1>5. best \in Candidates
    BY <1>4 DEF Inv, Typed, Runs
  <1>6. point \in Points /\ point.cost = cost
    BY <1>2, <1>3, <1>4, <1>5 DEF Points, Candidates
  <1> HIDE DEF point, best, cost
  <1>7. run \in Runs
    BY DEF Inv, Typed
  <1>8. /\ run' \in Runs /\ run'.pc = "report" /\ run'.cost = cost /\ run'.iteration = i
        /\ run'.metrics = run.metrics \cup {point}
    BY <1>1, <1>2, <1>5, <1>6, <1>7 DEF Runs
  <1>9. Iterations(config)' = Iterations(config)
    BY <1>1 DEF Iterations
  <1>10. Typed'
    BY <1>1, <1>8, <1>9 DEF Inv, Typed
  <1>11. RunInv'
    <2>1. i <= Iterations(config)
      BY <1>3 DEF Inv, RunInv
    <2> QED
      BY <1>2, <1>3, <1>8, <1>9, <2>1 DEF RunInv
  <1>12. CostInv'
    BY <1>1, <1>2, <1>6, <1>8 DEF Inv, CostInv
  <1> QED
    BY <1>10, <1>11, <1>12 DEF Inv

\* A loop that ends has evaluated something: its first evaluation was affordable.
LEMMA FinishInv ==
    ASSUME Inv, Finish
    PROVE  Inv'
  <1>1. run.metrics # {}
    <2>1. SUFFICES ASSUME run.metrics = {} PROVE FALSE
      OBVIOUS
    <2>2. run.pc = "loop" /\ run.iteration = 0
      BY <2>1 DEF Finish, Inv, RunInv
    <2>3. Iterations(config) \in Nat /\ Iterations(config) >= 1
      BY ConfigFacts DEF Inv, Typed
    <2>4. Goes
      BY <2>2, <2>3 DEF Goes
    <2> QED
      BY <2>2, <2>4, NextAffordable DEF Finish
  <1>2. /\ run' = [run EXCEPT !.pc = "complete"]
        /\ UNCHANGED <<config, sample, record>>
    BY <1>1 DEF Finish
  <1>3. run \in Runs
    BY DEF Inv, Typed
  <1>4. /\ run' \in Runs /\ run'.pc = "complete" /\ run'.cost = run.cost
        /\ run'.iteration = run.iteration /\ run'.metrics = run.metrics
    BY <1>2, <1>3 DEF Runs
  <1>5. Iterations(config)' = Iterations(config)
    BY <1>2 DEF Iterations
  <1>6. Typed'
    BY <1>2, <1>4, <1>5 DEF Inv, Typed
  <1>7. RunInv'
    BY <1>4, <1>5 DEF Inv, RunInv
  <1>8. CostInv'
    BY <1>2, <1>4 DEF Inv, CostInv
  <1> QED
    BY <1>6, <1>7, <1>8 DEF Inv

LEMMA ReportInv ==
    ASSUME Inv, Report
    PROVE  Inv'
  <1>1. PICK p \in run.metrics : p.iteration = run.iteration /\ record' = Recorded(record, p)
    BY DEF Report
  <1>2. /\ run.pc = "report"
        /\ run' = [run EXCEPT !.pc = "loop", !.iteration = @ + 1]
        /\ UNCHANGED <<config, sample>>
    BY DEF Report
  <1>3. run \in Runs /\ record \in Records
    BY DEF Inv, Typed
  <1>4. p \in Points /\ p.cost <= config.budget
    BY <1>1, <1>3 DEF Runs, Inv, CostInv
  <1>5. /\ run.iteration \in Nat /\ run.iteration < Iterations(config)
        /\ run.cost <= (run.iteration + 1) * Unit /\ run.metrics # {}
    BY <1>2, <1>3 DEF Inv, RunInv, Runs
  <1>6. config.budget \in Int /\ Iterations(config) \in Nat
    BY ConfigFacts DEF Inv, Typed
  <1>7. /\ record' \in Records /\ record'.cost = p.cost
        /\ record'.failed = record.failed
    <2> DEFINE earlier == IF p.iteration = 0 THEN {}
                          ELSE {q \in record.history : q.iteration # p.iteration}
               recommended == IF p.iteration = 0 THEN None ELSE record.recommendation
               chosen == IF p.fidelity = Unit /\ Better(Candidate(p.iteration), recommended)
                         THEN Candidate(p.iteration) ELSE recommended
               history == earlier \cup {p}
               evaluations == p.iteration + 1
               progress == Progress(p.cost)
    <2>1. record' = [record EXCEPT !.history = history, !.evaluations = evaluations,
                                   !.best = p.best, !.cost = p.cost, !.progress = progress,
                                   !.recommendation = chosen]
      BY <1>1 DEF Recorded
    <2>2. Candidate(p.iteration) \in Candidates
      BY <1>1, <1>5, CandidateTyped DEF Inv
    <2>3. chosen \in Candidates
      BY <1>3, <2>2, NoneTyped DEF Records
    <2>4. history \in SUBSET Points
      BY <1>3, <1>4 DEF Records
    <2>5. evaluations \in Nat /\ p.best \in Int /\ p.cost \in Nat
      BY <1>4 DEF Points
    <2>6. progress \in Int
      BY <1>6, <2>5 DEF Progress, LesserOf
    <2> HIDE DEF history, evaluations, progress, chosen
    <2> QED
      BY <1>3, <2>1, <2>3, <2>4, <2>5, <2>6 DEF Records
  <1>8. /\ run' \in Runs /\ run'.pc = "loop" /\ run'.iteration = run.iteration + 1
        /\ run'.cost = run.cost /\ run'.metrics = run.metrics
    <2> DEFINE next == run.iteration + 1
    <2>1. next \in Nat
      BY <1>5
    <2>2. run' = [run EXCEPT !.pc = "loop", !.iteration = next]
      BY <1>2
    <2> HIDE DEF next
    <2>3. run' \in Runs
      BY <1>3, <2>1, <2>2 DEF Runs
    <2>4. /\ run'.pc = "loop" /\ run'.iteration = next
          /\ run'.cost = run.cost /\ run'.metrics = run.metrics
      BY <1>3, <2>2 DEF Runs
    <2> QED
      BY <2>3, <2>4 DEF next
  <1>9. Iterations(config)' = Iterations(config)
    BY <1>2 DEF Iterations
  <1>10. Typed'
    BY <1>2, <1>7, <1>8, <1>9 DEF Inv, Typed
  <1>11. RunInv'
    BY <1>5, <1>6, <1>8, <1>9 DEF RunInv
  <1>12. CostInv'
    BY <1>2, <1>4, <1>7, <1>8 DEF Inv, CostInv
  <1> QED
    BY <1>10, <1>11, <1>12 DEF Inv

LEMMA CompleteInv ==
    ASSUME Inv, Complete
    PROVE  Inv'
  <1>1. run \in Runs /\ record \in Records
    BY DEF Inv, Typed
  <1>2. run' = Idle /\ UNCHANGED <<config, sample>>
    BY DEF Complete
  <1>3. config.budget \in Int /\ config.budget >= 0 /\ Iterations(config) \in Nat
    BY ConfigFacts DEF Inv, Typed
  <1>4. record' \in Records /\ record'.cost = record.cost /\ record'.failed = record.failed
    <2>1. Whole \in Int
      BY <1>3 DEF Whole
    <2>2. run.best \in Candidates
      BY <1>1 DEF Runs
    <2>3. record' = [record EXCEPT !.completed = TRUE, !.progress = Whole,
                                   !.recommendation = run.best]
      BY DEF Complete
    <2> QED
      BY <1>1, <2>1, <2>2, <2>3 DEF Records
  <1>5. /\ run' \in Runs /\ run'.pc = "idle" /\ run'.iteration = 0 /\ run'.cost = 0
        /\ run'.metrics = {}
    BY <1>2, NoneTyped DEF Idle, Runs
  <1>6. Typed' /\ Iterations(config)' = Iterations(config)
    BY <1>2, <1>4, <1>5 DEF Inv, Typed, Iterations
  <1>7. RunInv'
    BY <1>3, <1>5, <1>6 DEF RunInv
  <1>8. CostInv'
    BY <1>2, <1>3, <1>4, <1>5 DEF Inv, CostInv
  <1> QED
    BY <1>6, <1>7, <1>8 DEF Inv

LEMMA StepInv ==
    ASSUME Inv, [Next]_vars
    PROVE  Inv'
  <1>1. CASE Start
    BY <1>1, IdleInv DEF Start
  <1>2. CASE Evaluate
    BY <1>2, EvaluateInv
  <1>3. CASE Finish
    BY <1>3, FinishInv
  <1>4. CASE Report
    BY <1>4, ReportInv
  <1>5. CASE Complete
    BY <1>5, CompleteInv
  <1>6. CASE Interrupt
    BY <1>6, IdleInv DEF Interrupt
  <1>7. CASE UNCHANGED vars
    <2>1. UNCHANGED <<config, sample, run, record>>
      BY <1>7 DEF vars
    <2>2. Iterations(config)' = Iterations(config)
      BY <2>1 DEF Iterations
    <2> QED
      BY <2>1, <2>2 DEF Inv, Typed, RunInv, CostInv
  <1> QED
    BY <1>1, <1>2, <1>3, <1>4, <1>5, <1>6, <1>7 DEF Next

LEMMA InvSuffices ==
    ASSUME Inv
    PROVE  BudgetSuffices
  <1>1. run.pc = "loop" /\ Goes => Affordable
    BY NextAffordable
  <1> QED
    BY <1>1 DEF Inv, CostInv, BudgetSuffices

\* An accepted budget pays for every iteration of every attempt: execute never
\* breaks off for want of budget, never reports an insufficient one and never
\* spends more (engine.py, execute; domain.py, ExperimentConfig).
THEOREM BudgetAlwaysSuffices == Spec => []BudgetSuffices
  <1>1. Init => Inv
    BY InitInv
  <1>2. Inv /\ [Next]_vars => Inv'
    BY StepInv
  <1>3. Inv => BudgetSuffices
    BY InvSuffices
  <1> QED
    BY <1>1, <1>2, <1>3, PTL DEF Spec

-----------------------------------------------------------------------------
(***************************************************************************)
(* What a completed record says of the run.                                *)
(***************************************************************************)

\* The run's best value is the best of its evaluations so far, the record counts the
\* evaluations that were reported, and a run completes after all of them.
WholeInv ==
    /\ attempts \in 0 .. MaxAttempts
    /\ record.evaluations \in 0 .. Iterations(config)
    /\ record.progress \in 0 .. Whole
    /\ run.pc # "idle" => ~record.completed
    /\ run.pc = "loop" /\ run.iteration > 0 => record.evaluations = run.iteration
    /\ run.pc = "complete" =>
          run.iteration = Iterations(config) /\ record.evaluations = Iterations(config)
    /\ run.pc \in {"loop", "complete"} => IsBestOf(run.best, 0 .. run.iteration - 1)
    /\ run.pc = "report" => IsBestOf(run.best, 0 .. run.iteration)
    /\ CompletedRunIsWhole

\* One more candidate.
LEMMA BestAmong ==
    ASSUME Typed, NEW k \in Nat, k < Iterations(config), NEW S \in SUBSET (0 .. k - 1),
           NEW b, IsBestOf(b, S)
    PROVE  IsBestOf(IF Better(Candidate(k), b) THEN Candidate(k) ELSE b, S \cup {k})
  <1>t. \A j \in 0 .. k : sample[j] \in Int
    <2>1. Iterations(config) \in Nat
      BY ConfigFacts DEF Typed
    <2> QED
      BY <2>1, CandidateTyped
  <1>c. \A j : Candidate(j).candidate = j /\ Candidate(j).objective = sample[j]
    BY DEF Candidate
  <1>n. None.candidate = -1
    BY DEF None
  <1>s. \A j \in S \cup {k} : j \in 0 .. k /\ (j = k \/ (j \in S /\ j < k))
    OBVIOUS
  <1>e. S \cup {k} # {}
    OBVIOUS
  <1>1. CASE S = {}
    <2>1. b = None /\ S \cup {k} = {k}
      BY <1>1 DEF IsBestOf
    <2>2. Better(Candidate(k), b)
      BY <2>1 DEF Better
    <2>3. \E i \in {k} :
             /\ Candidate(k) = Candidate(i)
             /\ \A j \in {k} : sample[i] <= sample[j] /\ (sample[i] = sample[j] => i <= j)
      BY <1>t
    <2> QED
      BY <2>1, <2>2, <2>3 DEF IsBestOf
  <1>2. CASE S # {}
    <2>1. PICK i \in S :
            /\ b = Candidate(i)
            /\ \A j \in S : sample[i] <= sample[j] /\ (sample[i] = sample[j] => i <= j)
      BY <1>2 DEF IsBestOf
    <2>2. b # None /\ b.objective = sample[i] /\ i < k
      BY <2>1, <1>c, <1>n
    <2>3. CASE sample[k] < sample[i]
      <3>1. Better(Candidate(k), b)
        BY <2>2, <2>3, <1>c DEF Better
      <3>2. \A j \in S \cup {k} : sample[k] <= sample[j] /\ (sample[k] = sample[j] => k <= j)
        BY <2>1, <2>3, <1>s, <1>t
      <3> QED
        BY <3>1, <3>2, <1>e DEF IsBestOf
    <2>4. CASE ~(sample[k] < sample[i])
      <3>1. ~Better(Candidate(k), b)
        BY <2>2, <2>4, <1>c DEF Better
      <3>2. \A j \in S \cup {k} : sample[i] <= sample[j] /\ (sample[i] = sample[j] => i <= j)
        BY <2>1, <2>2, <2>4, <1>s, <1>t
      <3> QED
        BY <2>1, <3>1, <3>2, <1>e DEF IsBestOf
    <2> QED
      BY <2>3, <2>4
  <1> QED
    BY <1>1, <1>2

LEMMA BestStep ==
    ASSUME Typed, NEW k \in Nat, k < Iterations(config), NEW b, IsBestOf(b, 0 .. k - 1)
    PROVE  IsBestOf(IF Better(Candidate(k), b) THEN Candidate(k) ELSE b, 0 .. k)
  <1>1. (0 .. k - 1) \cup {k} = 0 .. k
    OBVIOUS
  <1> QED
    BY <1>1, BestAmong

\* The reference definitions look at the configuration and the seed only.
LEMMA SameSeed ==
    ASSUME UNCHANGED <<config, sample>>
    PROVE  /\ Iterations(config)' = Iterations(config) /\ Whole' = Whole
           /\ \A p, is : IsBestOf(p, is)' <=> IsBestOf(p, is)
  BY DEF Iterations, Whole, IsBestOf, Candidate, Fidelity

LEMMA InitWhole ==
    ASSUME Init
    PROVE  WholeInv
  <1>1. Iterations(config) \in Nat /\ config.budget \in Int /\ config.budget >= 0
    BY InitInv, ConfigFacts DEF Inv, Typed
  <1>2. 0 \in 0 .. Whole
    BY <1>1 DEF Whole
  <1> QED
    BY <1>1, <1>2, AttemptsAssumption
       DEF Init, WholeInv, Idle, EmptyRecord, CompletedRunIsWhole

\* An attempt begins, is interrupted, or nothing happens.
LEMMA IdleWhole ==
    ASSUME Inv, WholeInv, Start \/ Interrupt \/ UNCHANGED vars
    PROVE  WholeInv'
  <1>1. UNCHANGED <<config, sample, record>>
    BY DEF Start, Interrupt, vars
  <1>2. /\ Iterations(config)' = Iterations(config) /\ Whole' = Whole
        /\ \A p, is : IsBestOf(p, is)' <=> IsBestOf(p, is)
    BY <1>1, SameSeed
  <1>3. CompletedRunIsWhole' <=> CompletedRunIsWhole
    BY <1>1, <1>2 DEF CompletedRunIsWhole
  <1>4. CASE Start
    <2>1. run' = Fresh /\ ~record.completed /\ attempts' = attempts + 1 /\ attempts < MaxAttempts
      BY <1>4 DEF Start
    <2>2. /\ run'.pc = "loop" /\ run'.iteration = 0 /\ run'.best = None
      BY <2>1 DEF Fresh, Idle
    <2>3. IsBestOf(None, {})
      BY DEF IsBestOf
    <2>4. 0 .. 0 - 1 = {}
      OBVIOUS
    <2>5. attempts' \in 0 .. MaxAttempts
      BY <2>1, AttemptsAssumption DEF WholeInv
    <2> QED
      BY <1>1, <1>2, <1>3, <2>1, <2>2, <2>3, <2>4, <2>5 DEF WholeInv
  <1>5. CASE Interrupt
    <2>1. run'.pc = "idle" /\ attempts' = attempts
      BY <1>5 DEF Interrupt, Idle
    <2> QED
      BY <1>1, <1>2, <1>3, <2>1 DEF WholeInv
  <1>6. CASE UNCHANGED vars
    <2>1. run' = run /\ attempts' = attempts
      BY <1>6 DEF vars
    <2> QED
      BY <1>1, <1>2, <1>3, <2>1 DEF WholeInv
  <1> QED
    BY <1>4, <1>5, <1>6

LEMMA EvaluateWhole ==
    ASSUME Inv, WholeInv, Evaluate
    PROVE  WholeInv'
  <1> DEFINE i == run.iteration
             best == IF Better(Candidate(i), run.best) THEN Candidate(i) ELSE run.best
  <1>1. /\ run.pc = "loop" /\ i < Iterations(config)
        /\ UNCHANGED <<config, sample, record, attempts>>
    BY DEF Evaluate, Goes
  <1>2. run \in Runs /\ i \in Nat
    BY DEF Inv, Typed, Runs
  <1>3. run'.pc = "report" /\ run'.iteration = i /\ run'.best = best
    BY <1>2 DEF Evaluate, Runs
  <1>4. IsBestOf(best, 0 .. i)
    BY <1>1, <1>2, BestStep DEF WholeInv, Inv
  <1>5. /\ Iterations(config)' = Iterations(config) /\ Whole' = Whole
        /\ \A p, is : IsBestOf(p, is)' <=> IsBestOf(p, is)
    BY <1>1, SameSeed
  <1>6. CompletedRunIsWhole' <=> CompletedRunIsWhole
    BY <1>1, <1>5 DEF CompletedRunIsWhole
  <1> HIDE DEF i, best
  <1> QED
    BY <1>1, <1>3, <1>4, <1>5, <1>6 DEF WholeInv

LEMMA FinishWhole ==
    ASSUME Inv, WholeInv, Finish
    PROVE  WholeInv'
  <1>1. run.pc = "loop" /\ ~Goes
    BY NextAffordable DEF Finish
  <1>2. run \in Runs /\ Iterations(config) \in Nat /\ Iterations(config) >= 1
    BY ConfigFacts DEF Inv, Typed
  <1>3. run.iteration = Iterations(config)
    BY <1>1, <1>2 DEF Goes, Inv, RunInv, Runs
  <1>4. run.metrics # {}
    BY <1>1, <1>2, <1>3 DEF Inv, RunInv
  <1>5. /\ run' = [run EXCEPT !.pc = "complete"]
        /\ UNCHANGED <<config, sample, record, attempts>>
    BY <1>4 DEF Finish
  <1>6. run'.pc = "complete" /\ run'.iteration = run.iteration /\ run'.best = run.best
    BY <1>2, <1>5 DEF Runs
  <1>7. /\ Iterations(config)' = Iterations(config) /\ Whole' = Whole
        /\ \A p, is : IsBestOf(p, is)' <=> IsBestOf(p, is)
    BY <1>5, SameSeed
  <1>8. CompletedRunIsWhole' <=> CompletedRunIsWhole
    BY <1>5, <1>7 DEF CompletedRunIsWhole
  <1>9. record.evaluations = Iterations(config)
    BY <1>1, <1>2, <1>3 DEF WholeInv
  <1> QED
    BY <1>1, <1>3, <1>5, <1>6, <1>7, <1>8, <1>9 DEF WholeInv

LEMMA ReportWhole ==
    ASSUME Inv, WholeInv, Report
    PROVE  WholeInv'
  <1>1. PICK p \in run.metrics : p.iteration = run.iteration /\ record' = Recorded(record, p)
    BY DEF Report
  <1>2. /\ run.pc = "report" /\ run' = [run EXCEPT !.pc = "loop", !.iteration = @ + 1]
        /\ UNCHANGED <<config, sample, attempts>>
    BY DEF Report
  <1>3. run \in Runs /\ record \in Records /\ run.iteration \in Nat
    BY DEF Inv, Typed, Runs
  <1>4. p \in Points /\ p.cost \in Nat
    BY <1>1, <1>3 DEF Runs, Points
  <1>5. /\ run.iteration < Iterations(config) /\ Iterations(config) \in Nat
        /\ config.budget \in Int /\ config.budget >= 0
    BY <1>2, ConfigFacts DEF Inv, Typed, RunInv
  <1>6. run'.pc = "loop" /\ run'.iteration = run.iteration + 1 /\ run'.best = run.best
    BY <1>2, <1>3 DEF Runs
  <1>7. /\ record'.evaluations = run.iteration + 1 /\ record'.completed = record.completed
        /\ record'.progress = Progress(p.cost)
    BY <1>1, <1>3 DEF Recorded, Records
  <1>8. Progress(p.cost) \in 0 .. Whole
    BY <1>4, <1>5 DEF Progress, LesserOf, Whole
  <1>9. /\ Iterations(config)' = Iterations(config) /\ Whole' = Whole
        /\ \A q, is : IsBestOf(q, is)' <=> IsBestOf(q, is)
    BY <1>2, SameSeed
  <1>10. ~record.completed
    BY <1>2 DEF WholeInv
  <1>11. CompletedRunIsWhole'
    BY <1>7, <1>10 DEF CompletedRunIsWhole
  <1>12. (run.iteration + 1) - 1 = run.iteration
    BY <1>3
  <1>13. record'.evaluations \in 0 .. Iterations(config)
    BY <1>3, <1>5, <1>7
  <1> QED
    BY <1>2, <1>6, <1>7, <1>8, <1>9, <1>10, <1>11, <1>12, <1>13 DEF WholeInv

LEMMA CompleteWhole ==
    ASSUME Inv, WholeInv, Complete
    PROVE  WholeInv'
  <1>1. /\ run.pc = "complete" /\ run'.pc = "idle"
        /\ UNCHANGED <<config, sample, attempts>>
    BY DEF Complete, Idle
  <1>2. record \in Records
    BY DEF Inv, Typed
  <1>3. /\ record'.evaluations = record.evaluations /\ record'.progress = Whole
        /\ record'.recommendation = run.best
    BY <1>2 DEF Complete, Records
  <1>4. /\ Iterations(config)' = Iterations(config) /\ Whole' = Whole
        /\ \A q, is : IsBestOf(q, is)' <=> IsBestOf(q, is)
    BY <1>1, SameSeed
  <1>5. /\ record.evaluations = Iterations(config) /\ run.iteration = Iterations(config)
        /\ IsBestOf(run.best, 0 .. run.iteration - 1)
    BY <1>1 DEF WholeInv
  <1>6. CompletedRunIsWhole'
    BY <1>3, <1>4, <1>5 DEF CompletedRunIsWhole
  <1>7. Whole \in 0 .. Whole
    <2>1. config.budget \in Int /\ config.budget >= 0
      BY ConfigFacts DEF Inv, Typed
    <2> QED
      BY <2>1 DEF Whole
  <1> QED
    BY <1>1, <1>3, <1>4, <1>6, <1>7 DEF WholeInv

\* Both invariants together.
LEMMA WholeInvariant == Spec => [](Inv /\ WholeInv)
  <1>1. Init => Inv /\ WholeInv
    BY InitInv, InitWhole
  <1>2. Inv /\ WholeInv /\ [Next]_vars => Inv' /\ WholeInv'
    BY StepInv, IdleWhole, EvaluateWhole, FinishWhole, ReportWhole, CompleteWhole DEF Next
  <1> QED
    BY <1>1, <1>2, PTL DEF Spec

\* The variables keep their types (EngineRun.tla).
THEOREM TypeCorrect == Spec => []TypeOK
  <1>1. Inv /\ WholeInv => TypeOK
    <2> SUFFICES ASSUME Inv, WholeInv PROVE TypeOK
      OBVIOUS
    <2>1. run.pc \in {"idle", "loop", "report", "complete"} /\ run.cost \in Nat /\ record.cost \in Nat
      BY DEF Inv, Typed, Runs, Records
    <2>2. run.iteration \in 0 .. Iterations(config)
      BY ConfigFacts DEF Inv, Typed, RunInv, Runs
    <2> QED
      BY <2>1, <2>2 DEF WholeInv, TypeOK
  <1> QED
    BY <1>1, WholeInvariant, PTL

\* A completed experiment has all its evaluations and recommends the best of them, at
\* whatever fidelity, the earliest of equals: no interrupted attempt leaves its count or
\* its best value behind (engine.py 93-134; worker.py 120-152, 268-281).
THEOREM CompletedWhole == Spec => []CompletedRunIsWhole
  <1>1. WholeInv => CompletedRunIsWhole
    BY DEF WholeInv
  <1> QED
    BY <1>1, WholeInvariant, PTL

-----------------------------------------------------------------------------
(***************************************************************************)
(* The reference run.  Its costs are a recursive function, and what that   *)
(* is takes an induction: over a set of numbers, which the provers can be  *)
(* given, where the rule over a predicate cannot be instantiated.          *)
(***************************************************************************)

\* A set of numbers that is not empty has a least element.
LEMMA LeastElement ==
    ASSUME NEW T, T \subseteq Nat, T # {}
    PROVE  \E n \in T : \A m \in T : n <= m
  <1>1. \E n \in T : \A m \in T : ~ (<<m, n>> \in OpToRel(<, Nat))
    BY NatLessThanWellFounded, WFMin
  <1>2. \E n \in T : \A m \in T : ~ (m < n)
    BY <1>1 DEF OpToRel
  <1> QED
    BY <1>2

\* Induction over the natural numbers.
LEMMA Induction ==
    ASSUME NEW S, 0 \in S, \A n \in Nat : n \in S => n + 1 \in S
    PROVE  \A n \in Nat : n \in S
  <1> SUFFICES ASSUME Nat \ S # {} PROVE FALSE
    OBVIOUS
  <1>1. PICK n \in Nat \ S : \A m \in Nat \ S : n <= m
    BY LeastElement
  <1>2. n - 1 \in Nat /\ n - 1 \in S
    BY <1>1
  <1> QED
    BY <1>1, <1>2

\* The sums of a sequence of numbers exist.
LEMMA SumsExist ==
    ASSUME NEW F \in [Nat -> Nat]
    PROVE  \E f \in [Nat -> Nat] :
              f = [k \in Nat |-> IF k = 0 THEN 0 ELSE f[k - 1] + F[k - 1]]
  <1> DEFINE Sums(n) ==
               {g \in [0 .. n -> Nat] : g[0] = 0 /\ \A i \in 1 .. n : g[i] = g[i - 1] + F[i - 1]}
             Summed == {n \in Nat : Sums(n) # {}}
  <1>1. 0 \in Summed
    <2>1. [i \in 0 .. 0 |-> 0] \in Sums(0)
      OBVIOUS
    <2> QED
      BY <2>1
  <1>2. ASSUME NEW n \in Nat, n \in Summed
        PROVE  n + 1 \in Summed
    <2>1. PICK g : g \in Sums(n)
      BY <1>2
    <2>2. g \in [0 .. n -> Nat] /\ g[0] = 0 /\ \A i \in 1 .. n : g[i] = g[i - 1] + F[i - 1]
      BY <2>1
    <2> DEFINE h == [i \in 0 .. n + 1 |-> IF i = n + 1 THEN g[n] + F[n] ELSE g[i]]
    <2>3. h \in [0 .. n + 1 -> Nat] /\ h[0] = 0
      <3>1. n \in 0 .. n /\ g[n] \in Nat /\ F[n] \in Nat
        BY <2>2
      <3>2. g[n] + F[n] \in Nat
        BY <3>1
      <3>3. ASSUME NEW i \in 0 .. n + 1, i # n + 1 PROVE g[i] \in Nat
        <4>1. i \in 0 .. n
          BY <3>3
        <4> QED
          BY <2>2, <4>1
      <3>4. ASSUME NEW i \in 0 .. n + 1 PROVE h[i] \in Nat
        BY <3>2, <3>3
      <3>5. 0 \in 0 .. n + 1 /\ 0 # n + 1
        OBVIOUS
      <3> QED
        BY <2>2, <3>4, <3>5
    <2>4. ASSUME NEW i \in 1 .. n + 1 PROVE h[i] = h[i - 1] + F[i - 1]
      <3>1. CASE i = n + 1
        BY <3>1
      <3>2. CASE i # n + 1
        <4>1. i \in 1 .. n /\ i - 1 \in 0 .. n + 1 /\ i - 1 # n + 1
          BY <3>2
        <4> QED
          BY <2>2, <4>1
      <3> QED
        BY <3>1, <3>2
    <2>5. h \in Sums(n + 1)
      BY <2>3, <2>4
    <2> HIDE DEF h, Sums
    <2>6. Sums(n + 1) # {} /\ n + 1 \in Nat
      BY <2>5
    <2> QED
      BY <2>6
  <1> HIDE DEF Summed
  <1>3. \A n \in Nat : n \in Summed
    BY <1>1, <1>2, Induction
  <1> USE DEF Summed
  <1>4. ASSUME NEW n \in Nat, NEW g \in Sums(n), NEW m \in 0 .. n, NEW h \in Sums(m)
        PROVE  \A i \in 0 .. m : g[i] = h[i]
    <2> DEFINE Same == {i \in Nat : i <= m => g[i] = h[i]}
    <2>1. 0 \in Same
      OBVIOUS
    <2>2. ASSUME NEW i \in Nat, i \in Same
          PROVE  i + 1 \in Same
      <3> SUFFICES ASSUME i + 1 <= m PROVE g[i + 1] = h[i + 1]
        OBVIOUS
      <3>1. g[i] = h[i] /\ i + 1 \in 1 .. n /\ i + 1 \in 1 .. m /\ (i + 1) - 1 = i
        BY <2>2
      <3> QED
        BY <3>1
    <2> HIDE DEF Same
    <2>3. \A i \in Nat : i \in Same
      BY <2>1, <2>2, Induction
    <2> USE DEF Same
    <2>4. \A i \in Nat : i <= m => g[i] = h[i]
      BY <2>3
    <2>5. 0 .. m \subseteq Nat /\ \A i \in 0 .. m : i <= m
      OBVIOUS
    <2> HIDE DEF Same
    <2> QED
      BY <2>4, <2>5
  <1> DEFINE s(n) == CHOOSE g : g \in Sums(n)
             f == [n \in Nat |-> s(n)[n]]
  <1>5. ASSUME NEW n \in Nat PROVE s(n) \in Sums(n)
    BY <1>3
  <1> HIDE DEF s, Summed
  <1>6. f \in [Nat -> Nat]
    BY <1>5
  <1>7. ASSUME NEW k \in Nat
        PROVE  f[k] = IF k = 0 THEN 0 ELSE f[k - 1] + F[k - 1]
    <2>1. CASE k = 0
      BY <1>5, <2>1
    <2>2. CASE k # 0
      <3>1. k - 1 \in Nat /\ k - 1 \in 0 .. k /\ k \in 1 .. k /\ k - 1 \in 0 .. k - 1
        BY <2>2
      <3>2. s(k) \in Sums(k) /\ s(k - 1) \in Sums(k - 1)
        BY <1>5, <3>1
      <3>3. s(k)[k - 1] = s(k - 1)[k - 1]
        BY <1>4, <3>1, <3>2
      <3>4. s(k)[k] = s(k)[k - 1] + F[k - 1]
        BY <3>1, <3>2
      <3> QED
        BY <2>2, <3>1, <3>3, <3>4
    <2> QED
      BY <2>1, <2>2
  <1>8. f = [k \in Nat |-> IF k = 0 THEN 0 ELSE f[k - 1] + F[k - 1]]
    BY <1>7
  <1> HIDE DEF f
  <1> QED
    BY <1>6, <1>8

\* The costs of the reference run: what the first k evaluations cost together.
LEMMA Costs ==
    ASSUME config \in Configs
    PROVE  /\ CostOf \in [Nat -> Nat] /\ CostOf[0] = 0
           /\ \A k \in Nat : CostOf[k + 1] = CostOf[k] + Fidelity(k)
  <1> DEFINE F == [k \in Nat |-> Fidelity(k)]
  <1>1. F \in [Nat -> Nat]
    BY ConfigFacts, UnitAssumption
  <1>2. PICK f \in [Nat -> Nat] : f = [k \in Nat |-> IF k = 0 THEN 0 ELSE f[k - 1] + F[k - 1]]
    BY <1>1, SumsExist
  <1>3. f = [k \in Nat |-> IF k = 0 THEN 0 ELSE f[k - 1] + Fidelity(k - 1)]
    BY <1>2
  <1>4. CostOf = [k \in Nat |-> IF k = 0 THEN 0 ELSE CostOf[k - 1] + Fidelity(k - 1)]
    BY <1>3 DEF CostOf
  <1>5. ASSUME NEW g, g = [k \in Nat |-> IF k = 0 THEN 0 ELSE g[k - 1] + Fidelity(k - 1)]
        PROVE  g[0] = 0 /\ \A k \in Nat : g[k + 1] = g[k] + Fidelity(k)
    <2>1. \A k \in Nat : g[k] = IF k = 0 THEN 0 ELSE g[k - 1] + Fidelity(k - 1)
      BY <1>5
    <2>2. ASSUME NEW k \in Nat PROVE g[k + 1] = g[k] + Fidelity(k)
      <3>1. k + 1 \in Nat /\ k + 1 # 0 /\ (k + 1) - 1 = k
        OBVIOUS
      <3> QED
        BY <2>1, <3>1
    <2> QED
      BY <2>1, <2>2
  <1>6. CostOf[0] = 0 /\ \A k \in Nat : CostOf[k + 1] = CostOf[k] + Fidelity(k)
    BY <1>4, <1>5
  <1>7. \A k \in Nat : CostOf[k] \in Nat
    <2> DEFINE S == {k \in Nat : CostOf[k] \in Nat}
    <2>1. 0 \in S
      BY <1>6
    <2>2. ASSUME NEW k \in Nat, k \in S PROVE k + 1 \in S
      BY <1>6, <2>2, ConfigFacts, UnitAssumption
    <2> HIDE DEF S
    <2>3. \A k \in Nat : k \in S
      BY <2>1, <2>2, Induction
    <2> QED
      BY <2>3 DEF S
  <1> QED
    BY <1>4, <1>6, <1>7

-----------------------------------------------------------------------------
(***************************************************************************)
(* What the record says of the run while attempts come and go.             *)
(***************************************************************************)

\* The first n points of the reference run.
RunOf(n) == {PointOf(i) : i \in 0 .. n - 1}

\* The evaluations the attempt has made.
Reached == IF run.pc = "report" THEN run.iteration + 1 ELSE run.iteration

FullFidelity(n) == {i \in 0 .. n - 1 : Fidelity(i) = Unit}

\* The record has a beginning of the reference run, with the best full-fidelity point, the
\* cost and the progress of just that beginning.
RecordSays ==
    /\ record.cost = CostOf[record.evaluations]
    /\ ~record.completed =>
          /\ record.progress = Progress(record.cost)
          /\ IsBestOf(record.recommendation, FullFidelity(record.evaluations))
    /\ record.evaluations > 0 => record.best = PointOf(record.evaluations - 1).best
    /\ IsFiniteSet(record.history) /\ Cardinality(record.history) = record.evaluations
    /\ record.history = RunOf(record.evaluations)

\* An attempt repeats the reference run, and goes on where its last report left the record.
\* What only the first attempt finds is an empty record.
AttemptSays ==
    /\ run.pc # "idle" =>
          run.metrics = RunOf(Reached) /\ run.cost = CostOf[Reached] /\ attempts > 0
    /\ run.pc = "report" /\ run.iteration > 0 => record.evaluations = run.iteration
    /\ run.pc \in {"loop", "report"} /\ run.iteration = 0 /\ attempts = 1 =>
          record.evaluations = 0
    /\ attempts = 0 => record.evaluations = 0

HistoryInv == RecordSays /\ AttemptSays

\* The reference definitions look at the configuration and the seed only.
LEMMA SameRun ==
    ASSUME UNCHANGED <<config, sample>>
    PROVE  /\ CostOf' = CostOf
           /\ \A i : PointOf(i)' = PointOf(i)
           /\ \A n : RunOf(n)' = RunOf(n) /\ FullFidelity(n)' = FullFidelity(n)
           /\ \A c : Progress(c)' = Progress(c)
           /\ \A p, is : IsBestOf(p, is)' <=> IsBestOf(p, is)
  <1>1. \A i : Fidelity(i)' = Fidelity(i)
    BY DEF Fidelity
  <1>2. CostOf' = CostOf
    BY <1>1 DEF CostOf
  <1>3. \A i : PointOf(i)' = PointOf(i)
    BY <1>1, <1>2 DEF PointOf
  <1>4. \A n : RunOf(n)' = RunOf(n) /\ FullFidelity(n)' = FullFidelity(n)
    BY <1>1, <1>3 DEF RunOf, FullFidelity
  <1>5. \A c : Progress(c)' = Progress(c)
    BY DEF Progress
  <1> QED
    BY <1>2, <1>3, <1>4, <1>5, SameSeed

\* The points of the reference run, one after the other.
LEMMA Points0 == RunOf(0) = {} /\ FullFidelity(0) = {}
  BY DEF RunOf, FullFidelity

LEMMA PointStep ==
    ASSUME NEW k \in Nat
    PROVE  /\ RunOf(k + 1) = RunOf(k) \cup {PointOf(k)}
           /\ \A q \in RunOf(k) : q.iteration # k
           /\ PointOf(k).iteration = k /\ PointOf(k).cost = CostOf[k + 1]
           /\ PointOf(k).fidelity = Fidelity(k)
           /\ FullFidelity(k + 1) = IF Fidelity(k) = Unit THEN FullFidelity(k) \cup {k}
                                                          ELSE FullFidelity(k)
  <1>1. \A i : /\ PointOf(i).iteration = i /\ PointOf(i).cost = CostOf[i + 1]
               /\ PointOf(i).fidelity = Fidelity(i)
    BY DEF PointOf
  <1>2. 0 .. (k + 1) - 1 = (0 .. k - 1) \cup {k} /\ k \notin 0 .. k - 1
    OBVIOUS
  <1> QED
    BY <1>1, <1>2 DEF RunOf, FullFidelity

\* The best candidate so far has the best value of the last point.
LEMMA BestValue ==
    ASSUME Typed, NEW k \in Nat, k < Iterations(config), NEW b, IsBestOf(b, 0 .. k)
    PROVE  PointOf(k).best = b.objective
  <1> DEFINE V == {sample[j] : j \in 0 .. k}
             Least(v) == \A j \in 0 .. k : v <= sample[j]
  <1>1. \A j \in 0 .. k : sample[j] \in Int
    <2>1. Iterations(config) \in Nat
      BY ConfigFacts DEF Typed
    <2> QED
      BY <2>1, CandidateTyped
  <1>2. 0 \in 0 .. k
    OBVIOUS
  <1>3. PICK i \in 0 .. k : b = Candidate(i) /\ \A j \in 0 .. k : sample[i] <= sample[j]
    BY <1>2 DEF IsBestOf
  <1>4. b.objective = sample[i] /\ sample[i] \in V /\ Least(sample[i])
    BY <1>3 DEF Candidate
  <1>5. \A v, w \in V : Least(v) /\ Least(w) => v = w
    BY <1>1
  <1>6. PointOf(k).best = CHOOSE v \in V : Least(v)
    BY DEF PointOf
  <1> HIDE DEF V, Least
  <1> QED
    BY <1>4, <1>5, <1>6

LEMMA BestOfNone == IsBestOf(None, {})
  BY DEF IsBestOf

\* The interim recommendation after one more point.
LEMMA RecommendationStep ==
    ASSUME Typed, NEW k \in Nat, k < Iterations(config), NEW b, IsBestOf(b, FullFidelity(k))
    PROVE  IsBestOf(IF Fidelity(k) = Unit /\ Better(Candidate(k), b) THEN Candidate(k) ELSE b,
                    FullFidelity(k + 1))
  <1>1. FullFidelity(k) \in SUBSET (0 .. k - 1)
    BY DEF FullFidelity
  <1>2. IsBestOf(IF Better(Candidate(k), b) THEN Candidate(k) ELSE b, FullFidelity(k) \cup {k})
    BY <1>1, BestAmong
  <1> QED
    BY <1>2, PointStep

\* The progress of a run that is not complete.
LEMMA ProgressFacts ==
    ASSUME config \in Configs, NEW c \in Nat, NEW d \in Nat, c <= d
    PROVE  /\ Progress(c) <= Progress(d) /\ Progress(c) \in Nat /\ Progress(d) \in Nat
           /\ Progress(c) < Whole /\ Progress(0) = 0
  <1>1. config.budget \in Int /\ config.budget >= 1
    BY ConfigFacts, UnitAssumption
  <1> QED
    BY <1>1 DEF Progress, LesserOf, Whole

LEMMA InitHistory ==
    ASSUME Init
    PROVE  HistoryInv
  <1>1. config \in Configs
    BY DEF Init
  <1>2. CostOf[0] = 0 /\ Progress(0) = 0
    <2>1. 0 \in Nat /\ 0 <= 0
      OBVIOUS
    <2> QED
      BY <1>1, <2>1, Costs, ProgressFacts
  <1>3. /\ run.pc = "idle" /\ attempts = 0 /\ record.evaluations = 0 /\ record.cost = 0
        /\ record.progress = 0 /\ record.recommendation = None /\ record.history = {}
    BY DEF Init, Idle, EmptyRecord
  <1>4. RecordSays
    BY <1>2, <1>3, Points0, BestOfNone, FS_EmptySet DEF RecordSays
  <1>5. AttemptSays
    BY <1>3 DEF AttemptSays
  <1> QED
    BY <1>4, <1>5 DEF HistoryInv

LEMMA RecordStays ==
    ASSUME RecordSays, UNCHANGED <<config, sample, record>>
    PROVE  RecordSays'
  BY SameRun DEF RecordSays

\* An attempt begins, is interrupted, or nothing happens.
LEMMA IdleHistory ==
    ASSUME Inv, WholeInv, HistoryInv, Start \/ Interrupt \/ UNCHANGED vars
    PROVE  HistoryInv'
  <1>1. UNCHANGED <<config, sample, record>> /\ RecordSays /\ AttemptSays
    BY DEF HistoryInv, Start, Interrupt, vars
  <1>2. CASE Start
    <2>1. run' = Fresh /\ attempts' = attempts + 1 /\ attempts \in Nat
      BY <1>2, AttemptsAssumption DEF Start, WholeInv
    <2>2. run'.pc = "loop" /\ run'.iteration = 0 /\ run'.metrics = {} /\ run'.cost = 0
      BY <2>1 DEF Fresh, Idle
    <2>3. CostOf[0] = 0 /\ CostOf' = CostOf /\ RunOf(0)' = RunOf(0)
      BY <1>1, Costs, SameRun DEF Inv, Typed
    <2>4. Reached' = 0
      BY <2>2 DEF Reached
    <2>5. AttemptSays'
      BY <1>1, <2>1, <2>2, <2>3, <2>4, Points0 DEF AttemptSays
    <2> QED
      BY <1>1, <2>5, RecordStays DEF HistoryInv
  <1>3. CASE Interrupt
    <2>1. run'.pc = "idle" /\ attempts' = attempts
      BY <1>3 DEF Interrupt, Idle
    <2>2. AttemptSays'
      BY <1>1, <2>1 DEF AttemptSays
    <2> QED
      BY <1>1, <2>2, RecordStays DEF HistoryInv
  <1>4. CASE UNCHANGED vars
    <2>1. run' = run /\ attempts' = attempts /\ Reached' = Reached
      BY <1>4 DEF vars, Reached
    <2>2. AttemptSays'
      BY <1>1, <2>1, SameRun DEF AttemptSays
    <2> QED
      BY <1>1, <2>2, RecordStays DEF HistoryInv
  <1> QED
    BY <1>2, <1>3, <1>4

LEMMA EvaluateHistory ==
    ASSUME Inv, WholeInv, HistoryInv, Evaluate
    PROVE  HistoryInv'
  <1> DEFINE i == run.iteration
             best == IF Better(Candidate(i), run.best) THEN Candidate(i) ELSE run.best
             cost == run.cost + Fidelity(i)
             point == [iteration |-> i, objective |-> sample[i], best |-> best.objective,
                       cost |-> cost, fidelity |-> Fidelity(i)]
  <1>1. /\ run.pc = "loop" /\ i < Iterations(config)
        /\ UNCHANGED <<config, sample, record, attempts>>
    BY DEF Evaluate, Goes
  <1>2. run \in Runs /\ i \in Nat /\ RecordSays /\ AttemptSays
    BY DEF HistoryInv, Inv, Typed, Runs
  <1>3. /\ run' = [run EXCEPT !.pc = "report", !.cost = cost, !.best = best,
                              !.metrics = @ \cup {point}]
    BY DEF Evaluate
  <1>4. IsBestOf(best, 0 .. i)
    BY <1>1, <1>2, BestStep DEF WholeInv, Inv
  <1>5. Reached = i /\ run.metrics = RunOf(i) /\ run.cost = CostOf[i] /\ attempts > 0
    BY <1>1, <1>2 DEF AttemptSays, Reached
  <1>6. cost = CostOf[i + 1]
    BY <1>2, <1>5, Costs DEF Inv, Typed
  <1>7. point = PointOf(i)
    <2>1. PointOf(i).best = best.objective
      BY <1>1, <1>2, <1>4, BestValue DEF Inv
    <2>2. PointOf(i) = [iteration |-> i, objective |-> sample[i], best |-> PointOf(i).best,
                        cost |-> CostOf[i + 1], fidelity |-> Fidelity(i)]
      BY DEF PointOf
    <2> HIDE DEF best, cost
    <2> QED
      BY <1>6, <2>1, <2>2
  <1> HIDE DEF point, best, cost
  <1>8. /\ run'.pc = "report" /\ run'.iteration = i /\ run'.cost = cost
        /\ run'.metrics = run.metrics \cup {point}
    BY <1>2, <1>3 DEF Runs
  <1>9. Reached' = i + 1
    BY <1>8 DEF Reached
  <1>10. run'.metrics = RunOf(i + 1)
    BY <1>2, <1>5, <1>7, <1>8, PointStep
  <1>11. i > 0 => record.evaluations = i
    BY <1>1 DEF WholeInv
  <1>12. AttemptSays'
    BY <1>1, <1>2, <1>5, <1>6, <1>8, <1>9, <1>10, <1>11, SameRun DEF AttemptSays
  <1> QED
    BY <1>1, <1>2, <1>12, RecordStays DEF HistoryInv

LEMMA FinishHistory ==
    ASSUME Inv, WholeInv, HistoryInv, Finish
    PROVE  HistoryInv'
  <1>1. run.pc = "loop" /\ run \in Runs
    BY DEF Finish, Inv, Typed
  <1>2. run.metrics # {}
    <2>1. ~Goes
      BY NextAffordable DEF Finish
    <2>2. Iterations(config) \in Nat /\ Iterations(config) >= 1
      BY ConfigFacts DEF Inv, Typed
    <2>3. run.iteration # 0
      BY <2>1, <2>2 DEF Goes
    <2> QED
      BY <1>1, <2>3 DEF Inv, RunInv
  <1>3. /\ run' = [run EXCEPT !.pc = "complete"]
        /\ UNCHANGED <<config, sample, record, attempts>>
    BY <1>2 DEF Finish
  <1>4. /\ run'.pc = "complete" /\ run'.iteration = run.iteration
        /\ run'.metrics = run.metrics /\ run'.cost = run.cost
    BY <1>1, <1>3 DEF Runs
  <1>5. Reached' = Reached /\ RecordSays /\ AttemptSays
    BY <1>1, <1>4 DEF HistoryInv, Reached
  <1>6. AttemptSays'
    BY <1>1, <1>3, <1>4, <1>5, SameRun DEF AttemptSays
  <1> QED
    BY <1>3, <1>5, <1>6, RecordStays DEF HistoryInv

LEMMA ReportHistory ==
    ASSUME Inv, WholeInv, HistoryInv, Report
    PROVE  HistoryInv'
  <1> DEFINE i == run.iteration
  <1>1. PICK p \in run.metrics : p.iteration = i /\ record' = Recorded(record, p)
    BY DEF Report
  <1>2. /\ run.pc = "report" /\ run' = [run EXCEPT !.pc = "loop", !.iteration = @ + 1]
        /\ UNCHANGED <<config, sample, attempts>>
    BY DEF Report
  <1>3. run \in Runs /\ record \in Records /\ i \in Nat /\ i < Iterations(config)
    BY <1>2 DEF Inv, Typed, Runs, RunInv
  <1>4. RecordSays /\ AttemptSays /\ ~record.completed
    BY <1>2 DEF HistoryInv, WholeInv
  <1>5. Reached = i + 1 /\ run.metrics = RunOf(i + 1) /\ run.cost = CostOf[i + 1] /\ attempts > 0
    BY <1>2, <1>4 DEF AttemptSays, Reached
  <1>6. p = PointOf(i)
    <2>1. RunOf(i + 1) = RunOf(i) \cup {PointOf(i)} /\ \A q \in RunOf(i) : q.iteration # i
      BY <1>3, PointStep
    <2> QED
      BY <1>1, <1>5, <2>1
  <1>7. p.cost = CostOf[i + 1] /\ p.fidelity = Fidelity(i)
    BY <1>3, <1>6, PointStep
  <1> DEFINE earlier == IF i = 0 THEN {} ELSE {q \in record.history : q.iteration # i}
             recommended == IF i = 0 THEN None ELSE record.recommendation
             chosen == IF p.fidelity = Unit /\ Better(Candidate(i), recommended)
                       THEN Candidate(i) ELSE recommended
  <1>8. record' = [record EXCEPT !.history = earlier \cup {p}, !.evaluations = i + 1,
                                 !.best = p.best, !.cost = p.cost,
                                 !.progress = Progress(p.cost), !.recommendation = chosen]
    BY <1>1 DEF Recorded
  <1>9. i > 0 => record.evaluations = i
    BY <1>2, <1>4 DEF AttemptSays
  <1>10. earlier = RunOf(i) /\ IsFiniteSet(earlier) /\ Cardinality(earlier) = i
    <2>1. CASE i = 0
      BY <2>1, Points0, FS_EmptySet
    <2>2. CASE i # 0
      <3>1. record.evaluations = i
        BY <1>3, <1>9, <2>2
      <3>2. record.history = RunOf(i) /\ IsFiniteSet(RunOf(i)) /\ Cardinality(RunOf(i)) = i
        BY <1>4, <3>1 DEF RecordSays
      <3>3. \A q \in RunOf(i) : q.iteration # i
        BY <1>3, PointStep
      <3>4. earlier = RunOf(i)
        BY <2>2, <3>2, <3>3
      <3> QED
        BY <3>2, <3>4
    <2> QED
      BY <2>1, <2>2
  <1>11. IsBestOf(recommended, FullFidelity(i))
    <2>1. CASE i = 0
      BY <2>1, Points0, BestOfNone
    <2>2. CASE i # 0
      BY <1>3, <1>4, <1>9, <2>2 DEF RecordSays
    <2> QED
      BY <2>1, <2>2
  <1>12. IsBestOf(chosen, FullFidelity(i + 1))
    BY <1>3, <1>7, <1>11, RecommendationStep DEF Inv
  <1> HIDE DEF earlier, recommended, chosen
  <1>13. /\ record'.history = earlier \cup {p} /\ record'.evaluations = i + 1
         /\ record'.best = p.best /\ record'.cost = p.cost
         /\ record'.progress = Progress(p.cost) /\ record'.recommendation = chosen
         /\ record'.completed = record.completed
    BY <1>3, <1>8 DEF Records
  <1>14. record'.history = RunOf(i + 1)
    BY <1>3, <1>6, <1>10, <1>13, PointStep
  <1>15. IsFiniteSet(record'.history) /\ Cardinality(record'.history) = i + 1
    <2>1. p \notin earlier
      BY <1>1, <1>3, <1>10, PointStep
    <2> QED
      BY <1>10, <1>13, <2>1, FS_AddElement
  <1>16. (i + 1) - 1 = i /\ i + 1 # 0
    BY <1>3
  <1>17. RecordSays'
    BY <1>2, <1>4, <1>6, <1>7, <1>12, <1>13, <1>14, <1>15, <1>16, SameRun DEF RecordSays
  <1>18. /\ run'.pc = "loop" /\ run'.iteration = i + 1 /\ run'.metrics = run.metrics
         /\ run'.cost = run.cost
    BY <1>2, <1>3 DEF Runs
  <1>19. Reached' = i + 1
    BY <1>18 DEF Reached
  <1>20. AttemptSays'
    BY <1>2, <1>5, <1>16, <1>18, <1>19, SameRun DEF AttemptSays
  <1> QED
    BY <1>17, <1>20 DEF HistoryInv

LEMMA CompleteHistory ==
    ASSUME Inv, WholeInv, HistoryInv, Complete
    PROVE  HistoryInv'
  <1>1. run.pc = "complete" /\ run'.pc = "idle" /\ UNCHANGED <<config, sample, attempts>>
    BY DEF Complete, Idle
  <1>2. record \in Records /\ RecordSays /\ AttemptSays /\ attempts > 0
    BY <1>1 DEF HistoryInv, Inv, Typed, AttemptSays
  <1>3. /\ record'.evaluations = record.evaluations /\ record'.completed
        /\ record'.cost = record.cost /\ record'.best = record.best
        /\ record'.history = record.history
    BY <1>2 DEF Complete, Records
  <1>4. RecordSays'
    BY <1>1, <1>2, <1>3, SameRun DEF RecordSays
  <1>5. AttemptSays'
    BY <1>1, <1>2 DEF AttemptSays
  <1> QED
    BY <1>4, <1>5 DEF HistoryInv

\* All three invariants together.
LEMMA HistoryInvariant == Spec => [](Inv /\ WholeInv /\ HistoryInv)
  <1>1. Init => HistoryInv
    BY InitHistory
  <1>2. Inv /\ WholeInv /\ HistoryInv /\ [Next]_vars => HistoryInv'
    BY IdleHistory, EvaluateHistory, FinishHistory, ReportHistory, CompleteHistory DEF Next
  <1> QED
    BY <1>1, <1>2, WholeInvariant, PTL DEF Spec

\* A report loses nothing of its own attempt, and the first attempt finds nothing.
LEMMA ReportPreserves ==
    ASSUME Inv, WholeInv, HistoryInv, Report,
           record'.progress < record.progress \/ ~(record.history \subseteq record'.history)
    PROVE  run.pc = "report" /\ run.iteration = 0 /\ attempts > 1
  <1> DEFINE i == run.iteration
  <1>1. PICK p \in run.metrics : p.iteration = i /\ record' = Recorded(record, p)
    BY DEF Report
  <1>2. run.pc = "report" /\ RecordSays /\ AttemptSays /\ ~record.completed
    BY DEF HistoryInv, Report, WholeInv
  <1>3. i \in Nat /\ record \in Records /\ attempts \in Nat /\ config \in Configs
    BY AttemptsAssumption DEF Inv, Typed, Runs, WholeInv
  <1>4. run.metrics = RunOf(i + 1) /\ attempts > 0
    BY <1>2 DEF AttemptSays, Reached
  <1> HIDE DEF i
  <1>5. p = PointOf(i) /\ p.cost = CostOf[i + 1]
    <2>1. /\ RunOf(i + 1) = RunOf(i) \cup {PointOf(i)} /\ \A q \in RunOf(i) : q.iteration # i
          /\ PointOf(i).cost = CostOf[i + 1]
      BY <1>3, PointStep
    <2> QED
      BY <1>1, <1>4, <2>1
  <1>6. /\ record'.progress = Progress(p.cost)
        /\ i # 0 => record'.history = {q \in record.history : q.iteration # i} \cup {p}
    BY <1>1, <1>3 DEF Recorded, Records
  <1>7. CostOf[i] \in Nat /\ CostOf[i + 1] \in Nat /\ CostOf[i] <= CostOf[i + 1] /\ CostOf[0] = 0
    <2>1. CostOf[i + 1] = CostOf[i] + Fidelity(i) /\ CostOf[i] \in Nat /\ CostOf[0] = 0
      BY <1>3, Costs
    <2>2. Fidelity(i) \in Nat
      BY <1>3, ConfigFacts, UnitAssumption
    <2> QED
      BY <2>1, <2>2
  <1>8. i = 0
    <2> SUFFICES ASSUME i # 0 PROVE FALSE
      OBVIOUS
    <2>1. record.evaluations = i
      BY <1>2, <1>3 DEF AttemptSays, i
    <2>2. record.progress = Progress(CostOf[i]) /\ record.history = RunOf(i)
      BY <1>2, <2>1 DEF RecordSays
    <2>3. record.history \subseteq record'.history
      <3>1. \A q \in RunOf(i) : q.iteration # i
        BY <1>3, PointStep
      <3> QED
        BY <1>6, <2>2, <3>1
    <2>4. Progress(CostOf[i]) <= Progress(CostOf[i + 1])
          /\ Progress(CostOf[i]) \in Nat /\ Progress(CostOf[i + 1]) \in Nat
      BY <1>3, <1>7, ProgressFacts
    <2> QED
      BY <1>5, <1>6, <2>2, <2>3, <2>4
  <1>9. attempts # 1
    <2> SUFFICES ASSUME attempts = 1 PROVE FALSE
      OBVIOUS
    <2>1. record.evaluations = 0
      BY <1>2, <1>8 DEF AttemptSays, i
    <2>2. record.progress = 0 /\ record.history = {}
      BY <1>2, <1>3, <1>7, <2>1, Points0, ProgressFacts DEF RecordSays
    <2>3. Progress(CostOf[i + 1]) \in Nat
      BY <1>3, <1>7, ProgressFacts
    <2> QED
      BY <1>5, <1>6, <2>2, <2>3
  <1> QED
    BY <1>2, <1>3, <1>4, <1>8, <1>9 DEF i

\* However many attempts were interrupted, the record has a beginning of the one run that
\* the seed determines, point by point (engine.py 93-134; worker.py 117-154).
THEOREM HistoryIsTheRun == Spec => []HistoryReproducible
  <1>1. HistoryInv => HistoryReproducible
    BY DEF HistoryInv, RecordSays, RunOf, HistoryReproducible
  <1> QED
    BY <1>1, HistoryInvariant, PTL

\* Cost, best value, number of evaluations and interim recommendation of a record are those
\* of the history beside them (worker.py 120-152).
THEOREM SummaryIsOfHistory == Spec => []SummaryAgrees
  <1>1. Inv /\ WholeInv /\ HistoryInv => SummaryAgrees
    <2> SUFFICES ASSUME Inv, WholeInv, HistoryInv PROVE SummaryAgrees
      OBVIOUS
    <2> DEFINE n == record.evaluations
    <2>1. RecordSays /\ n \in Nat
      BY DEF HistoryInv, Inv, Typed, Records
    <2>2. n > 0 => PointOf(n - 1).cost = CostOf[n]
      <3> SUFFICES ASSUME n > 0 PROVE PointOf(n - 1).cost = CostOf[n]
        OBVIOUS
      <3>1. n - 1 \in Nat /\ (n - 1) + 1 = n
        BY <2>1
      <3> QED
        BY <3>1, PointStep
    <2>3. ~record.completed =>
             IsBestOf(record.recommendation, {i \in 0 .. n - 1 : Fidelity(i) = Unit})
      BY <2>1 DEF RecordSays, FullFidelity
    <2> QED
      BY <2>1, <2>2, <2>3 DEF SummaryAgrees, RecordSays
  <1> QED
    BY <1>1, HistoryInvariant, PTL

\* Progress falls, and points disappear, only with the first observation of a new attempt,
\* and nothing is lost before: the comment in _claim (worker.py 112-114) holds.
THEOREM ProgressIsPreserved == Spec => ProgressPreserved
  <1> DEFINE Fell == \/ record'.progress < record.progress
                     \/ ~(record.history \subseteq record'.history)
             Step == /\ record'.progress = Whole => record'.completed
                     /\ Fell => run.pc = "report" /\ run.iteration = 0 /\ attempts > 1
  <1>1. ASSUME Inv, WholeInv, HistoryInv, Inv', HistoryInv', [Next]_vars PROVE Step
    <2>1. config' = config /\ Whole' = Whole
      BY <1>1 DEF Next, vars, Start, Evaluate, Finish, Report, Complete, Interrupt, Whole
    <2>2. record'.progress = Whole => record'.completed
      <3> SUFFICES ASSUME ~record'.completed PROVE record'.progress # Whole
        OBVIOUS
      <3>1. record'.cost \in Nat /\ record'.progress = Progress(record'.cost)
        BY <1>1, <2>1 DEF Inv, Typed, Records, HistoryInv, RecordSays, Progress
      <3>2. config \in Configs
        BY <1>1 DEF Inv, Typed
      <3>3. Progress(record'.cost) < Whole /\ Progress(record'.cost) \in Nat
        BY <3>1, <3>2, ProgressFacts
      <3>4. Whole \in Int
        BY <3>2, ConfigFacts DEF Whole
      <3> QED
        BY <3>1, <3>3, <3>4
    <2>3. Fell => run.pc = "report" /\ run.iteration = 0 /\ attempts > 1
      <3>1. CASE record' = record
        <4>1. record.progress \in Int
          BY <1>1 DEF Inv, Typed, Records
        <4> QED
          BY <3>1, <4>1
      <3>2. CASE Report
        BY <1>1, <3>2, ReportPreserves
      <3>3. CASE Complete
        <4>1. record'.progress = Whole /\ record'.history = record.history
          BY <1>1, <3>3 DEF Complete, Inv, Typed, Records
        <4>2. Whole \in Int /\ config \in Configs
          <5>1. config \in Configs
            BY <1>1 DEF Inv, Typed
          <5>2. config.budget \in Int
            BY <5>1, ConfigFacts
          <5> QED
            BY <5>1, <5>2 DEF Whole
        <4>3. record.progress \in 0 .. Whole
          BY <1>1, <4>2 DEF Inv, Typed, Records, WholeInv, Whole
        <4> QED
          BY <4>1, <4>2, <4>3
      <3>4. CASE Finish
        <4>1. run.metrics # {}
          <5>1. ~Goes /\ run.pc = "loop"
            BY <1>1, <3>4, NextAffordable DEF Finish
          <5>2. Iterations(config) \in Nat /\ Iterations(config) >= 1
            BY <1>1, ConfigFacts DEF Inv, Typed
          <5> QED
            BY <1>1, <5>1, <5>2 DEF Goes, Inv, RunInv
        <4> QED
          BY <3>1, <3>4, <4>1 DEF Finish
      <3> QED
        BY <1>1, <3>1, <3>2, <3>3, <3>4 DEF Next, vars, Start, Evaluate, Interrupt
    <2> QED
      BY <2>2, <2>3
  <1>2. Step => [ /\ record'.progress = Whole => record'.completed
                  /\ \/ record'.progress < record.progress
                     \/ ~(record.history \subseteq record'.history)
                     => run.pc = "report" /\ run.iteration = 0 /\ attempts > 1 ]_vars
    OBVIOUS
  <1> QED
    BY <1>1, <1>2, HistoryInvariant, PTL DEF Spec, ProgressPreserved
=============================================================================
