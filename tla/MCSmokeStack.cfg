CONSTANTS
    Workers = {w1, w2}
    Iterations = 2
    MaxAttempts = 2
    MaxClaims = 3
    Scenarios <- MCScenarios
SPECIFICATION SmokeSpec
SYMMETRY Symmetry
CHECK_DEADLOCK FALSE
INVARIANTS
    ArtifactsIntact
    UnmarkedTrackingWhole
    TrackingContained
    SmokePasses
PROPERTIES
    EndedOnlyMarked
