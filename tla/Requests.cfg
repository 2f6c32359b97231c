CONSTANTS
    Clients = {c1, c2}
    Keys = {k1}
    FreshIds = {f1, f2, f3}
    Configs = {a, b}
    NoKey = NoKey
    Nothing = Nothing
    MaxFaults = 1
SPECIFICATION FairSpec
CHECK_DEADLOCK FALSE
INVARIANTS
    AcceptedIsOwn
    ConflictIsTrue
PROPERTIES
    RequestsAnswered
