SPECIFICATION BuildSpec
CONSTANTS
    Sizes <- ThreeSizes
    StartFruits = 1
    GOD_MODE = TRUE
    ScanBelow = 3
    MaxTrials = 1
INVARIANTS
    BorderClosed LoopsEnd LevelIsWinnable
