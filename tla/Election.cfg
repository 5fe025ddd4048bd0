SPECIFICATION Spec
CONSTANTS
    Node = {n1, n2}
    None = None
    MaxTerm = 2
    MaxElections = 2
    LogInfo <- NoLogs
INVARIANTS AtMostOneLeaderPerTerm VoteInv 
PROPERTIES VoteSpec VotesAreFinal  StopEndsLoop
CHECK_DEADLOCK FALSE
