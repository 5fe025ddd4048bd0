------------------------------- MODULE LogOps --------------------------------
(***************************************************************************)
(* The operations of MemoryReplicationLog (cache/replication/              *)
(* replication_log.go) on the slice of entries, an entry being any record  *)
(* with an index.  Each is one critical section of the log's mutex.        *)
(***************************************************************************)
EXTENDS Integers, Sequences

\* GetLastIndex.
LastIndex(entries) ==
    IF entries = <<>> THEN 0 ELSE entries[Len(entries)].index

FirstIndex(entries) == entries[1].index

\* An Append that keeps the index the entry came with.
AppendKeepingIndex(entries, e) == Append(entries, e)

\* Append numbers the entry itself, whatever index it came with.
AppendEntry(entries, e) ==
    Append(entries, [e EXCEPT !.index = LastIndex(entries) + 1])

\* GetFrom returns an error for an empty log and for an index before the
\* first, nothing for an index after the last, and else at most maxCount
\* entries (all of them when maxCount is not positive).
GetFromFails(entries, start) ==
    entries = <<>> \/ start < FirstIndex(entries)

\* A GetFrom that returns one entry more than it is asked for.
GetFromOverlong(entries, start, maxCount) ==
    LET from == start - FirstIndex(entries)
        end == IF from + maxCount >= Len(entries) \/ maxCount <= 0
                 THEN Len(entries) ELSE from + maxCount + 1
    IN  IF from >= Len(entries) THEN <<>> ELSE SubSeq(entries, from + 1, end)

GetFrom(entries, start, maxCount) ==
    LET from == start - FirstIndex(entries)
        end == IF from + maxCount > Len(entries) \/ maxCount <= 0
                 THEN Len(entries) ELSE from + maxCount
    IN  IF from >= Len(entries) THEN <<>> ELSE SubSeq(entries, from + 1, end)

\* The condition under which Truncate cuts: index is in the log.
InLog(entries, index) ==
    /\ entries # <<>> /\ index >= FirstIndex(entries)
    /\ index - FirstIndex(entries) < Len(entries)

\* Entries are numbered without gaps or repetitions from 1.
Contiguous(entries) == \A i \in DOMAIN entries : entries[i].index = i
=============================================================================
