CONSTANTS
    k1 = k1
    k2 = k2
    s1 = s1
    s2 = s2
    None = None
    Key = {k1, k2}
    Shard = {s1, s2}
    ShardOf <- OwnShards
    ShardOrder <- TwoShards
    Reader = {r1}
    Worker = {w1}
    Modes = {"sync", "async"}
    Calls = {"close", "range"}
    QueueSize = 1
    MaxSets = 2
    MaxClock = 1
SPECIFICATION FairSpec
INVARIANTS MemoryInv
PROPERTIES ExpiredLeaves CloseEndsGoroutines
CHECK_DEADLOCK FALSE
