CONSTANTS
    c1 = c1
    c2 = c2
    k1 = k1
    k2 = k2
    Key = {k1, k2, k3}
    Client = {c1, c2}
    Cleaning = cleaning
    Deployments <- Counted
    Sizes = {1, 2}
    MaxMemory = 3
    head = head
    tail = tail
    None = None
    MaxCalls = 4
SPECIFICATION FairSpec
INVARIANTS  ListIsRecency 
PROPERTY CallsReturn
CHECK_DEADLOCK FALSE
