SPECIFICATION ProtocolSpec
CONSTANTS
    Values = {v1, v2}
    Dark = dark
    MaxResets = 2
    MaxInFlight = 4
INVARIANTS
    AcksWillCome LedsAreCurrent
