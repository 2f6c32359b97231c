CONSTANTS
    Unit        = 4
    Fidelities <- MCFidelities
    Budgets     = {11, 12, 18}
    MinBudget   = 12
    Limits      = {1, 3, 6}
    Values      = {1, 2, 3}
    MaxAttempts = 3

SPECIFICATION Spec
CHECK_DEADLOCK FALSE

INVARIANTS
    HistoryReproducible
    SummaryAgrees
    CompletedRunIsWhole
    BudgetSuffices
PROPERTIES
    ProgressPreserved
