SPECIFICATION Spec
CONSTANTS
    MAX_TERMS = 2
    NUM_COLS = 4
    NUM_ROWS = 3
    BUFFER_SIZE = 5
    Modifiers = {"CTRL", "ALT"}
    Texts <- SomeTexts
    Careful = TRUE
INVARIANTS
    CursorsAgree BackspaceUndoesALetter
