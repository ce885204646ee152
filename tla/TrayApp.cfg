CONSTANTS
    Client = {c1}
    Steady = {}
    Name = {tv}
    Key = {k}
    Absent = absent
    Callbacks = {}
    QueryInterval = 1
    StaleTimeout = 1
    MaxLosses = 0
    MaxStarts = 2
    Tabs = {0, 1, 2}
SPECIFICATION FairTraySpec
CHECK_DEADLOCK FALSE
INVARIANTS NoThreadAfterExit
PROPERTIES ScanButtonSpawns RowsForgetSilent
