CONSTANTS
    n1 = n1
    n2 = n2
    n3 = n3
    n4 = n4
    Node = {n1, n2, n3, n4}
    Key = {k1}
    c1 = c1
    c2 = c2
    Client = {c1, c2}
    Size = 8
    Replicas = 1
    Deployments <- AllDeployments
    KeyHashes <- AtOne
    Weights = {0, 2}
    ReplicaFactor = 2
    Retries = 1
    MaxWrites = 2
    MaxDels = 1
    MaxChanges = 2
    MaxFaults = 2
SYMMETRY ClientSymmetry
SPECIFICATION Spec
INVARIANTS RingInv RoutesToNearest
  
CHECK_DEADLOCK FALSE
