SPECIFICATION Spec
CONSTANTS
    Dentries <- TheDentries
    Inodes <- TheInodes
    DataCount = 4
    Executables = {1}
    BLOCK_SIZE = 4
    MAX_FILE_SIZE = 10
    MAX_OPEN_FILES = 4
    Names = {"dot", "prog", "rtc", "text", "none"}
    Counts = {0, 3, 5}
    Crossing = FALSE
INVARIANTS
    LoadedProgramIsWhole
PROPERTIES
    ImplementsStreams
