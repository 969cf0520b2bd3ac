SPECIFICATION FairReadSpec
CONSTANTS
    MAX_TERMS = 3
    BUFFER_SIZE = 2
    WORD = 3
    Readers = {0, 1}
    Writers = {1, 2}
INVARIANTS
    OneReadPerEnter FlagsMatchEnters LinesAreTyped
PROPERTIES
    EnterIsAnswered
