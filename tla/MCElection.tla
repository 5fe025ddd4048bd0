----------------------------- MODULE MCElection -----------------------------
\* Values of the constants of ElectionTimers for model checking.
EXTENDS ElectionTimers

NoLogs == {<<0, 0>>}
=============================================================================
