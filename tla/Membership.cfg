CONSTANTS
    n1 = n1
    n2 = n2
    n3 = n3
    Node = {n1, n2}
    Watcher = {n1}
    Mortal = {n2}
    Calls = {"join", "leave"}
    EventBufferSize = 1
    MaxGossip = 0
    MaxCrashes = 1
SPECIFICATION FairSpec
INVARIANTS MembershipInv 
 
CHECK_DEADLOCK FALSE
