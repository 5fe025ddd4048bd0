---------------------------- MODULE MCSyncManager ----------------------------
\* SyncManager for TLC: peers with all the keys, or without the second.
EXTENDS SyncManager

Filled == {[k \in Key |-> 1], [k \in Key |-> IF k = 2 THEN 0 ELSE 1]}
=============================================================================
