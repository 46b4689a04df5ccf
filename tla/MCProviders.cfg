SPECIFICATION FairSpec
CONSTANTS
    Setups <- AllRuns
    Slots = 1
    Variables = 3
    Ranks = 2
INVARIANTS RightData RightForcing
PROPERTY AllEnd
CHECK_DEADLOCK FALSE
