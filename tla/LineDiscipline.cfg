SPECIFICATION Spec
CONSTANTS
    TUXCTL_BUFSIZE = 7
    PACKET = 5
    COMMAND = 3
    Packets = 4
    Answered = {2, 3}
    MaxCommands = 3
    MaxChunk = 4
    MaxLost = 2
    Rooms = {1, 4}
INVARIANTS
    ReceivesInOrder SendsInOrder
CHECK_DEADLOCK FALSE
