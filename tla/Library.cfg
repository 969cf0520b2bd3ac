SPECIFICATION LibrarySpec
CONSTANTS
    Memory <- SomeMemory
    Places = {0, 1, 2, 3, 4, 5, 6, 7, 8}
    Lengths = {0, 1, 2, 3, 4, 5, 6, 7, 8, 9}
    HEX_DIGITS = 4
    HEX = 2
    DEC = 3
    Pieces <- SomePieces
    Texts <- SomeTexts
    MaxPieces = 2
    NUM_ROWS = 2
    NUM_COLS = 3
    MaxBelow = 2
    BUFFER_SIZE = 8
    Lines <- SomeLines
    Sizes <- SomeSizes
    FILENAME_LEN = 3
    Directory <- SomeFiles
    Wanted <- SomeNames
INVARIANTS
    MemoryIsExact ConsoleIsRight NamesArrive
