SPECIFICATION Spec
CONSTANTS
    Leader = L
    f1 = f1
    k1 = k1
    Follower = {f1}
    Key = {k1, k2}
    Value = {v1}
    None = None
    Writer = {w1}
    Deployments <- PushesAndEverything
    Handler = {h1}
CHECK_DEADLOCK FALSE
INVARIANTS ReplicationInv  
