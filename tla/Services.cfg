SPECIFICATION MCSpec
CONSTANTS
    NumPages = 8
    MAX_ORDER = 2
    CounterValues = 64
    CachePages = {0, 1, 2, 3, 4, 5, 6, 7}
    Max = 2
    Available = {0, 1, 2, 3, 4, 6, 7}
    Reclaimed = {5}
    Numbers = {1, 3}
    MaxBlocks = 2
    MaxLive = 3
    Processors = {c1, c2, c3}
    TicketValues = 4
    NoHolder = NoHolder
    Readers = {r1}
    Lens = {0, 1, 3}
    KeyBuff = 3
    BuffLen = 3
    MaxKeys = 4
INVARIANTS NoBug PagesPartitioned BuddiesJoined CountersExact CacheSound MutualExclusion HolderSound NoStrandedReader
PROPERTIES FirstComeFirstServed Served InputInOrder ReadReturns
CHECK_DEADLOCK FALSE
