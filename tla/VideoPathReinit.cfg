CONSTANTS
    Mode = {m1, m2}
    None = none
    MaxSwitches = 2
    MaxFaults = 0
    AmfDepth = 2
    MaxRangeChanges = 0
SPECIFICATION Spec
CHECK_DEADLOCK FALSE
PROPERTIES AcquireCopies
