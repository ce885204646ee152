CONSTANTS
    MaxDatagrams = 3
    MaxSends = 2
    MaxFaults = 1
    EmptyDatagrams = 1
SPECIFICATION FairSpec
CHECK_DEADLOCK FALSE
INVARIANTS ContextsAccounted
PROPERTIES ImplementsStream SoundReception DestructorReturns
