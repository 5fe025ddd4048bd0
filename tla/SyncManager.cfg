CONSTANTS
    Peer = {p1}
    KeyCount = 3
    Contents <- Filled
    Concurrency = 2
    MaxItems = 2
    MaxStarts = 2
    MaxTriggers = 2
    MaxWrites = 1
    MaxFaults = 1
    MaxEvents = 2
SPECIFICATION FairSpec
INVARIANTS SyncInv 
PROPERTY SyncEnds
CHECK_DEADLOCK FALSE
