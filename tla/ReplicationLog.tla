---------------------------- MODULE ReplicationLog ---------------------------
(***************************************************************************)
(* One MemoryReplicationLog and the maintenance of it: appends of local    *)
(* and of replicated entries, Truncate, Clear, Serialize and Deserialize,  *)
(* and MemorySyncer.CleanupExpiredEntries, which reads the last index,     *)
(* reads the entries and truncates in three critical sections that other   *)
(* goroutines may come between.                                            *)
(***************************************************************************)
EXTENDS LogOps

CONSTANTS
    MaxLen,    \* bound on the length of the log
    MaxTerm,   \* bound on the terms
    MaxTime,   \* bound on the clock
    MaxAge     \* the maxAge of CleanupExpiredEntries

ASSUME BoundsAssumption ==
    MaxLen \in Nat /\ MaxTerm \in Nat /\ MaxTime \in Nat /\ MaxAge \in Nat

VARIABLES
    entries, lastTerm,
    saved,      \* the bytes of the last Serialize, as entries
    now,
    cleanup     \* where CleanupExpiredEntries is, and what it has read

logVars == <<entries, lastTerm, saved, now, cleanup>>

\* A timestamp is what the writer's clock said: an entry that comes from
\* another node keeps that node's, so timestamps need not be in order.
LogEntry == [index : Nat, term : 1 .. MaxTerm, time : 0 .. MaxTime]
Idle == [at |-> "idle", index |-> 0]

\* Type correctness of the log (replication_log.go:12-16).
TypeOK ==
    /\ entries \in Seq(LogEntry) /\ saved \in Seq(LogEntry)
    /\ lastTerm \in 0 .. MaxTerm
    /\ now \in 0 .. MaxTime
    /\ cleanup \in [at : {"idle", "read", "truncate"}, index : Nat]

\* NewMemoryReplicationLog.
LogInit ==
    /\ entries = <<>> /\ saved = <<>>
    /\ lastTerm = 0 /\ now = 0
    /\ cleanup = Idle
-----------------------------------------------------------------------------
TermOfLast(s) == IF s = <<>> THEN 0 ELSE s[Len(s)].term

LogAppend(term, time) ==
    /\ Len(entries) < MaxLen
    /\ entries' = AppendEntry(entries, [index |-> 0, term |-> term, time |-> time])
    /\ lastTerm' = IF term > lastTerm THEN term ELSE lastTerm
    /\ UNCHANGED <<saved, now, cleanup>>

\* Truncate: keeps the entries up to index, or all of them when index is not
\* in the log.
Cut(index) ==
    IF InLog(entries, index)
      THEN /\ entries' = SubSeq(entries, 1, index - FirstIndex(entries) + 1)
           /\ lastTerm' = TermOfLast(entries')
      ELSE UNCHANGED <<entries, lastTerm>>

Truncate(index) == Cut(index) /\ UNCHANGED <<saved, now, cleanup>>

Clear ==
    /\ entries' = <<>> /\ lastTerm' = 0
    /\ UNCHANGED <<saved, now, cleanup>>

Serialize ==
    /\ saved' = entries
    /\ UNCHANGED <<entries, lastTerm, now, cleanup>>

Deserialize ==
    /\ entries' = saved /\ lastTerm' = TermOfLast(saved)
    /\ UNCHANGED <<saved, now, cleanup>>

Tick ==
    /\ now < MaxTime /\ now' = now + 1
    /\ UNCHANGED <<entries, lastTerm, saved, cleanup>>
-----------------------------------------------------------------------------
Expired(e) == e.time <= now - MaxAge

\* Entry i ends the leading run of expired entries of s.
EndsExpired(s, i) ==
    /\ \A j \in 1 .. i : Expired(s[j])
    /\ i < Len(s) => ~Expired(s[i + 1])

CleanupLastIndex ==
    /\ cleanup.at = "idle"
    /\ cleanup' = [at |-> "read", index |-> LastIndex(entries)]
    /\ UNCHANGED <<entries, lastTerm, saved, now>>

\* GetFrom(1, last) and the search for the index to cut at.  An error, or no
\* index, ends the call.
CleanupRead ==
    /\ cleanup.at = "read"
    /\ LET s == IF GetFromFails(entries, 1) THEN <<>>
                ELSE GetFrom(entries, 1, cleanup.index)
       IN  \/ /\ s # <<>> => ~Expired(s[1])
              /\ cleanup' = Idle
           \/ \E i \in DOMAIN s :
                 /\ EndsExpired(s, i)
                 /\ cleanup' = [at |-> "truncate", index |-> s[i].index]
    /\ UNCHANGED <<entries, lastTerm, saved, now>>

CleanupTruncate ==
    /\ cleanup.at = "truncate"
    /\ Cut(cleanup.index)
    /\ cleanup' = Idle
    /\ UNCHANGED <<saved, now>>

LogNext ==
    \/ \E term \in 1 .. MaxTerm, time \in 0 .. now : LogAppend(term, time)
    \/ \E index \in 0 .. MaxLen : Truncate(index)
    \/ Clear \/ Serialize \/ Deserialize \/ Tick
    \/ CleanupLastIndex \/ CleanupRead \/ CleanupTruncate

LogSpec == LogInit /\ [][LogNext]_logVars
-----------------------------------------------------------------------------
(***************************************************************************)
(* Properties.                                                             *)
(***************************************************************************)
\* The index arithmetic of Get, GetFrom and Truncate relies on it: whatever
\* appends, truncations, clears and restores have happened, the entries are
\* numbered 1, 2, 3, ... (Append renumbers, replication_log.go:34-40), and
\* lastTerm is never below the term of the last entry (lines 43-45, 160-164).
LogInv ==
    /\ TypeOK
    /\ Contiguous(entries) /\ Contiguous(saved)
    /\ lastTerm >= TermOfLast(entries)

\* GetFrom's position arithmetic (replication_log.go:99-111) returns exactly
\* the entries whose index is in the window asked for, in order.
GetFromIsWindow ==
    \A start \in 1 .. MaxLen + 1, maxCount \in -1 .. MaxLen :
        ~GetFromFails(entries, start) =>
            LET r == GetFrom(entries, start, maxCount)
            IN  /\ {r[i] : i \in DOMAIN r} =
                       {e \in {entries[i] : i \in DOMAIN entries} :
                           e.index >= start /\ (maxCount <= 0 \/ e.index < start + maxCount)}
                /\ \A i, j \in DOMAIN r : i < j => r[i].index < r[j].index

\* CleanupExpiredEntries "清理过期的日志条目" (syncer.go:394), cleans the expired
\* entries: no fresh entry is lost and the leading expired ones are gone.
CleanupKeepsFresh ==
    [][ CleanupTruncate =>
          \A i \in DOMAIN entries :
              ~Expired(entries[i]) => \E j \in DOMAIN entries' : entries'[j] = entries[i]
      ]_logVars

\* GetLastTerm returns "最后一条日志的任期" (replication_log.go:128), the term of
\* the last entry.
LastTermIsLastEntrys == lastTerm = TermOfLast(entries)
=============================================================================
