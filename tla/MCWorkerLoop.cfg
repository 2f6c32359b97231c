CONSTANTS
    Count = 2
    UnreadableSets <- AllOrFirst
    Aliens = {x1}
    MaxFaults = 2
SPECIFICATION FairSpec
PROPERTIES
    AcceptedJobsDone
    StopHonoured
    DuplicatesDrained
