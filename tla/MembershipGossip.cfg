CONSTANTS
    n1 = n1
    n2 = n2
    n3 = n3
    Node = {n1, n2, n3}
    Watcher = {}
    Mortal = {n3}
    Calls = {"gossip", "restart"}
    EventBufferSize = 0
    MaxGossip = 1
    MaxCrashes = 1
SPECIFICATION Spec
INVARIANT MembershipInv
CHECK_DEADLOCK FALSE
