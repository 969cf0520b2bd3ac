SPECIFICATION FairSpec
CONSTANTS
    MAX_TERMS = 2
    Readers = {0, 1}
    Writers = {0, 1}
    Frequencies = {32, 3}
INVARIANTS
    MaskedByItsHandler AcknowledgeWillCome ReadsAwaitAnInterrupt
PROPERTIES
    UncutWritesCount KeyboardComesBack SomeReadReturns
