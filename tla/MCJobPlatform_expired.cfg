CONSTANTS
    e1 = e1
    w1 = w1
    w2 = w2
    c1 = c1
    m1 = m1
    m2 = m2
    Experiments = {e1}
    Workers = {w1, w2}
    Clients = {c1}
    Messages = {m1, m2}
    NoWorker = NoWorker
    NoExperiment = NoExperiment
    NoMessage = NoMessage
    Iterations = 1
    MaxAttempts = 1
    MaxFaults = 1
SYMMETRY Symmetry
SPECIFICATION Spec
PROPERTY ExpiredOwnersCannotCommit
