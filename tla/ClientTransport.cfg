CONSTANTS
    Entries = 2
    MaxDatagrams = 2
    MaxSends = 1
    MaxFaults = 1
SPECIFICATION FairSpec
CHECK_DEADLOCK FALSE
INVARIANTS BufferStable
PROPERTIES InOrderUntilSend NeverGoesBack EveryPayloadReceived DestructorReturns
