CONSTANTS
    e1 = e1
    w1 = w1
    w2 = w2
    c1 = c1
    m1 = m1
    Experiments = {e1}
    Workers = {w1, w2}
    Clients = {c1}
    Messages = {m1}
    NoWorker = NoWorker
    NoExperiment = NoExperiment
    NoMessage = NoMessage
    Iterations = 1
    MaxAttempts = 2
    MaxFaults = 1
SPECIFICATION FairSpec
PROPERTIES
    EventuallyTerminal
