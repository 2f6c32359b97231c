CONSTANTS
    Creators = {k1, k2}
    Changers = {m1, m2}
    Readers  = {g1}
    NoCaller = NoCaller
    State    = State
    NoFile   = NoFile
    Torn     = Torn

SPECIFICATION FairSpec
CHECK_DEADLOCK FALSE

INVARIANTS
    StateIsWhole
    AnswersAreExact
    NoLitter
PROPERTIES
    AtomicRecordSpec
    EveryCallAnswered
