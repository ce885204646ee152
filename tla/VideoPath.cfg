CONSTANTS
    Mode = {m1, m2}
    None = none
    MaxSwitches = 2
    MaxFaults = 2
    AmfDepth = 2
    MaxRangeChanges = 2
SPECIFICATION FairSpec
CHECK_DEADLOCK FALSE
INVARIANTS SizesAgree HeldInTurn
PROPERTIES PictureIsFresh StreamRecovers
