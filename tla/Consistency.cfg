CONSTANTS
    c1 = c1
    c2 = c2
    n1 = n1
    n2 = n2
    None = None
    Client = {c1, c2}
    Cache = {n1, n2}
    Deployment <- AllDeployments
    MaxRetries = 1
    MaxWrites = 2
    Faults = TRUE
SPECIFICATION Spec
INVARIANTS ConsistencyInv RestingCacheIsFresh
CHECK_DEADLOCK FALSE
