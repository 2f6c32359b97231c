CONSTANTS
    Count = 2
    UnreadableSets <- NotFirst
    Aliens = {}
    MaxFaults = 0
SPECIFICATION FairSpec
PROPERTIES
    UnsentReconciled
