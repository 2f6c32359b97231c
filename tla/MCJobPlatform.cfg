CONSTANTS
    e1 = e1
    w1 = w1
    w2 = w2
    c1 = c1
    m1 = m1
    m2 = m2
    Experiments = {e1}
    Workers = {w1, w2}
    Clients = {c1}
    Messages = {m1, m2}
    NoWorker = NoWorker
    NoExperiment = NoExperiment
    NoMessage = NoMessage
    Iterations = 2
    MaxAttempts = 2
    MaxFaults = 2
SYMMETRY Symmetry
SPECIFICATION Spec
INVARIANTS
    TypeOK
    NoLostJob
    AttemptFencing
    AttemptLimit
    RerunsNeedFaults
    OneAttemptHistory
    CompletedResultIntact
    CancelHonoured
    RequeuedIsClaimable
PROPERTIES
    TerminalFinal
    StaleOwnersFenced
    LifecycleSpec
CONSTRAINT OneFaultWithDuplicates
