CONSTANTS
    n1 = n1
    n2 = n2
    Node = {n1}
    InitialLeaders = {{}, {n1}}
    Calls = {"stop", "promote", "demote", "info"}
    MaxStarts = 2
    MaxFailovers = 2
SPECIFICATION FairSpec
INVARIANTS LifecycleInv NoDoubleClose
PROPERTY FailoverPromotes
CHECK_DEADLOCK FALSE
