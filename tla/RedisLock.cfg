SPECIFICATION Spec
CONSTANTS
    Client = {c1, c2}
    None = None
    Watchdog = {c1}
    RetryTimes = 0
    BlockWaiting = TRUE
    MaxDogs = 1
    Faults = TRUE
INVARIANTS MutualExclusion LockInv
PROPERTIES ImplementsLease OnlyOwnerReleases 
