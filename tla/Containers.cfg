CONSTANTS
    Requested = 3
    Capacity <- MCCapacity
    Item = {a, b}
    Vacant = vacant
    Exclusive = TRUE
    t1 = t1
    t2 = t2
    t3 = t3
    Thread <- Threads
    Allocators <- OnlyOne
    PoolSize = 3
    Null = null
    Garbage = garbage
SPECIFICATION ContainersSpec
SYMMETRY Releasers
INVARIANTS
    NoSlotRace
    SizeStaysTrue
    UniqueOwner
    NoLeak
PROPERTIES
    LinearisableQueue
    ImplementsFixedPool
