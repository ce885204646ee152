CONSTANTS
    MaxDatagrams = 2
    MaxSends = 0
    MaxFaults = 0
    EmptyDatagrams = 1
SPECIFICATION FairSpec
CHECK_DEADLOCK FALSE
PROPERTY EveryPayloadReceived
