---------------------------- MODULE MCReplication ----------------------------
(***************************************************************************)
(* Replication for TLC: one follower, and the deployments that the         *)
(* configurations choose from.                                             *)
(***************************************************************************)
EXTENDS Replication

CONSTANTS f1, k1

Deploy(calls, joined, keys, channelSize, maxLogEntries, maxRetries, maxWrites, maxLog, faults) ==
    [calls |-> calls, joined |-> joined, keys |-> keys, channelSize |-> channelSize,
     maxLogEntries |-> maxLogEntries, maxRetries |-> maxRetries,
     maxWrites |-> maxWrites, maxLog |-> maxLog, faults |-> faults]

Everything == {Deploy({"push", "full", "incremental", "add"}, {}, {k1}, 1, 1, 2, 1, 2, TRUE)}
OneEntryBatches == {Deploy({"push"}, {f1}, Key, 2, 1, 1, 2, 3, FALSE)}
ShortPushes == {Deploy({"push"}, {f1}, Key, 2, 2, 1, 2, 4, TRUE)}
OneWritePulls == {Deploy({"incremental"}, {f1}, Key, 2, 2, 1, 1, 2, FALSE)}
TwoWritePulls == {Deploy({"incremental"}, {f1}, Key, 2, 2, 1, 2, 2, FALSE)}
PushesOnly == {Deploy({"push"}, {f1}, Key, 2, 2, 1, 3, 5, TRUE)}
Rejoining == {Deploy({"push", "add"}, {f1}, Key, 2, 2, 1, 2, 3, FALSE)}
NoCalls == {Deploy({}, {}, Key, 2, 2, 1, 2, 2, FALSE)}

Small == OneEntryBatches \cup ShortPushes \cup TwoWritePulls \cup Rejoining \cup NoCalls
PushesAndEverything == PushesOnly \cup Everything
=============================================================================
