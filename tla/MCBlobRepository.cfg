CONSTANTS
    Creators = {k1, k2}
    Changers = {m1, m2}
    Readers  = {g1}
    MaxTries = 3

SYMMETRY Symmetry
SPECIFICATION Spec
CHECK_DEADLOCK FALSE

INVARIANTS
    RepeatsNeedLostAnswers
    GivingUpNeedsWrites
PROPERTIES
    AtomicRecordSpec
