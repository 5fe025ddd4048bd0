-------------------------- MODULE MCReplicationLog ---------------------------
\* ReplicationLog with the bounds the configurations give.
EXTENDS ReplicationLog
=============================================================================
