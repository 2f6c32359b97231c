CONSTANTS
    Jobs = {j1, j2}
    Consumers = {c1, c2}
    NoConsumer = NoConsumer
    NoJob = NoJob
    MaxFaults = 3
    MaxReturns = 2
SPECIFICATION FairSpec
CHECK_DEADLOCK FALSE
INVARIANTS
    HeardDeliveriesSettle
PROPERTIES
    QueuesKeepPromise
    JobsRedelivered
