SPECIFICATION FairSpec
CONSTANTS
    MAX_RUNNING_PROCESSES = 5
    MAX_TERMS = 3
    Statuses = {200}
    VidmapTerms = {1}
    Allowed = {}
INVARIANTS
    OneProcessPerTerminal RunningOwnsTheMachine CallersWait VidmapFollowsTerminal
PROPERTIES
    ImplementsStacks EveryTerminalRuns
