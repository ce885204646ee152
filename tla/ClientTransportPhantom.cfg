CONSTANTS
    Entries = 4
    MaxDatagrams = 1
    MaxSends = 1
    MaxFaults = 0
SPECIFICATION FairSpec
CHECK_DEADLOCK FALSE
PROPERTY ImplementsStream
