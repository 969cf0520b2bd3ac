SPECIFICATION FairSpec
CONSTANTS
    MAX_LEVEL = 1
    BLOCK = 3
    SCROLL_X_DIM = 9
    SCROLL_Y_DIM = 9
    SHOW_MIN = 2
    PAN_BORDER = 1
    MaxTicks = 1
    Mazes <- OneTurn
    KeyDirs = {"left"}
    ButtonDirs = {"right", "down"}
INVARIANTS
    PlayerInCorridor PlayerInView PressWakesTux
PROPERTIES
    ThreadsStop HeldButtonSteers
CHECK_DEADLOCK FALSE
