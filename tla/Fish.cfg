SPECIFICATION Spec
CONSTANTS
    ArraySize = 3
    ROWS = 2
    COLS = 3
    OFFSET = 1
    WORD = 8
    FRAME_LENGTH = 1
    Chars = {"a", "b"}
    Frames <- SomeFrames
    Requests <- SomeRequests
    Wanted = {2, 5}
INVARIANTS
    ScreenShowsBlinks
PROPERTIES
    ImplementsBlinks FramesAreDrawn
