--------------------------- MODULE ReplicationProofs --------------------------
(***************************************************************************)
(* Proofs about the replication log and about replication.                 *)
(*                                                                         *)
(* LogInv is inductive as it stands: Append relies on the number of the    *)
(* last entry, Deserialize on the numbering of what was saved.             *)
(* ReplicationInv needs the types of pushes and pulls (RInv).  That the    *)
(* leader's cache agrees with its log needs the entries on their way       *)
(* through the writer and the channel to be the last ones of the log, in   *)
(* order (LeaderInv); that a follower holds a prefix of the leader's log   *)
(* needs the push to be the first entries, and the cache to be the log up  *)
(* to the entry the push has reached, with the longer prefix applied       *)
(* before for the keys that entry has not touched (FollowerInv).           *)
(***************************************************************************)
EXTENDS ReplicationLog, Replication, WellFoundedInduction, TLAPS
-----------------------------------------------------------------------------
(***************************************************************************)
(* The operations of the log, on entries of any set.                       *)
(***************************************************************************)
\* The number GetLastIndex returns is the length of a numbered log.
LEMMA LastIndexIsLen ==
    ASSUME NEW S, NEW s \in Seq(S), Contiguous(s) PROVE LastIndex(s) = Len(s)
<1>1. CASE s = <<>>
  BY <1>1, Zenon DEF LastIndex
<1>2. CASE s # <<>>
  <2>1. Len(s) \in DOMAIN s
    BY <1>2
  <2> QED
    BY <1>2, <2>1, Zenon DEF LastIndex, Contiguous
<1> QED
  BY <1>1, <1>2, Zenon

\* Appending numbers the new entry with its position (replication_log.go:34-40).
LEMMA AppendNumbers ==
    ASSUME NEW S, NEW s \in Seq(S), Contiguous(s), NEW e,
           [e EXCEPT !.index = Len(s) + 1] \in S,
           [e EXCEPT !.index = Len(s) + 1].index = Len(s) + 1
    PROVE  /\ AppendEntry(s, e) = Append(s, [e EXCEPT !.index = Len(s) + 1])
           /\ AppendEntry(s, e) \in Seq(S)
           /\ Contiguous(AppendEntry(s, e))
<1> DEFINE f == [e EXCEPT !.index = Len(s) + 1]
           t == Append(s, f)
<1>1. AppendEntry(s, e) = t
  BY LastIndexIsLen, Zenon DEF AppendEntry
<1>2. f \in S /\ f.index = Len(s) + 1
  BY Zenon
<1> HIDE DEF f
<1>3. t \in Seq(S) /\ Len(t) = Len(s) + 1 /\ t[Len(s) + 1] = f
      /\ \A i \in 1 .. Len(s) : t[i] = s[i]
  BY <1>2
<1> HIDE DEF t
<1>4. Contiguous(t)
  BY <1>2, <1>3 DEF Contiguous
<1> QED
  BY <1>1, <1>3, <1>4, Zenon DEF t, f

\* A prefix of a numbered log is numbered (replication_log.go:157).
LEMMA PrefixContiguous ==
    ASSUME NEW S, NEW s \in Seq(S), NEW n \in 0 .. Len(s), Contiguous(s)
    PROVE  SubSeq(s, 1, n) \in Seq(S) /\ Contiguous(SubSeq(s, 1, n))
BY DEF Contiguous

\* The entries of s numbered start, start + 1, ..., as many as a positive
\* maxCount asks for, and all there are otherwise.
Window(r, S, s, start, maxCount) ==
    /\ r \in Seq(S)
    /\ start >= 1
    /\ \A i \in DOMAIN r : start + i - 1 \in DOMAIN s /\ r[i] = s[start + i - 1]
    /\ \A i \in DOMAIN r : r[i].index = start + i - 1
    /\ Len(r) = IF start > Len(s) THEN 0
                ELSE IF maxCount <= 0 \/ start - 1 + maxCount > Len(s)
                THEN Len(s) - start + 1 ELSE maxCount

\* In a numbered log the position arithmetic of GetFrom
\* (replication_log.go:99-111) returns the entries with the numbers asked for.
THEOREM GetFromNumbers ==
    ASSUME NEW S, NEW s \in Seq(S), Contiguous(s),
           NEW start \in Nat, NEW maxCount \in Int,
           ~GetFromFails(s, start)
    PROVE  Window(GetFrom(s, start, maxCount), S, s, start, maxCount)
<1> DEFINE end == IF start - 1 + maxCount > Len(s) \/ maxCount <= 0
                    THEN Len(s) ELSE start - 1 + maxCount
           r == GetFrom(s, start, maxCount)
<1>1. s # <<>> /\ FirstIndex(s) = 1 /\ start >= 1
  BY DEF GetFromFails, FirstIndex, Contiguous
<1>2. r = IF start - 1 >= Len(s) THEN <<>> ELSE SubSeq(s, start, end)
  BY <1>1 DEF GetFrom
<1>3. CASE start - 1 >= Len(s)
  BY <1>1, <1>2, <1>3 DEF Window
<1>4. CASE start - 1 < Len(s)
  <2>1. end \in start .. Len(s)
    BY <1>1, <1>4
  <2>2. r = SubSeq(s, start, end)
    BY <1>2, <1>4
  <2>3. r \in Seq(S) /\ Len(r) = end - start + 1 /\ DOMAIN r = 1 .. Len(r)
        /\ \A i \in 1 .. Len(r) : r[i] = s[start + i - 1]
    BY <2>2, <1>1, <2>1
  <2>4. end - start + 1 = IF maxCount <= 0 \/ start - 1 + maxCount > Len(s)
                          THEN Len(s) - start + 1 ELSE maxCount
    BY <1>1, <1>4
  <2> HIDE DEF r, end
  <2>5. \A i \in DOMAIN r : start + i - 1 \in DOMAIN s
    BY <2>1, <2>3, <1>1
  <2>6. \A i \in DOMAIN r : r[i].index = start + i - 1
    BY <2>3, <2>5, Zenon DEF Contiguous
  <2>7. ~(start > Len(s))
    BY <1>4
  <2> QED
    BY <1>1, <2>3, <2>4, <2>5, <2>6, <2>7, Zenon DEF r, Window
<1> QED
  BY <1>3, <1>4, <1>1

\* What GetFrom returns is a sequence of entries.
LEMMA GetFromType ==
    ASSUME NEW S, NEW s \in Seq(S), Contiguous(s), NEW start \in Nat, NEW maxCount \in Int,
           ~GetFromFails(s, start)
    PROVE  GetFrom(s, start, maxCount) \in Seq(S)
<1>1. Window(GetFrom(s, start, maxCount), S, s, start, maxCount)
  BY GetFromNumbers, Zenon
<1> QED
  BY <1>1, Zenon DEF Window
-----------------------------------------------------------------------------
(***************************************************************************)
(* The replication log.                                                    *)
(***************************************************************************)
\* An appended entry keeps its term.
LEMMA AppendContiguous ==
    ASSUME NEW s \in Seq(LogEntry), NEW e \in LogEntry, Contiguous(s)
    PROVE  /\ AppendEntry(s, e) \in Seq(LogEntry)
           /\ Contiguous(AppendEntry(s, e))
           /\ TermOfLast(AppendEntry(s, e)) = e.term
<1> DEFINE f == [e EXCEPT !.index = Len(s) + 1]
<1>1. f \in LogEntry /\ f.index = Len(s) + 1 /\ f.term = e.term
  <2>1. f = [index |-> Len(s) + 1, term |-> e.term, time |-> e.time]
    BY DEF LogEntry
  <2>2. Len(s) + 1 \in Nat
    OBVIOUS
  <2> QED
    BY <2>1, <2>2, Zenon DEF LogEntry
<1>2. AppendEntry(s, e) = Append(s, f) /\ AppendEntry(s, e) \in Seq(LogEntry)
      /\ Contiguous(AppendEntry(s, e))
  BY <1>1, AppendNumbers, Zenon
<1> HIDE DEF f
<1>3. TermOfLast(Append(s, f)) = f.term
  BY <1>1 DEF TermOfLast
<1> QED
  BY <1>1, <1>2, <1>3, Zenon

\* The term of the last entry is a term, or 0 for an empty log.
LEMMA TermOfLastType ==
    ASSUME NEW s \in Seq(LogEntry) PROVE TermOfLast(s) \in 0 .. MaxTerm
<1>1. CASE s = <<>>
  BY <1>1, BoundsAssumption DEF TermOfLast
<1>2. CASE s # <<>>
  <2>1. s[Len(s)] \in LogEntry
    BY <1>2
  <2>2. s[Len(s)].term \in 1 .. MaxTerm
    BY ZenonT(60), <2>1, Zenon DEF LogEntry
  <2> QED
    BY <1>2, <2>2, BoundsAssumption DEF TermOfLast
<1> QED
  BY <1>1, <1>2, Zenon

\* The cut of Truncate keeps LogInv (replication_log.go:137-169).
LEMMA CutKeeps ==
    ASSUME LogInv, NEW index \in Nat, Cut(index)
    PROVE  /\ entries' \in Seq(LogEntry) /\ lastTerm' \in 0 .. MaxTerm
           /\ Contiguous(entries') /\ lastTerm' >= TermOfLast(entries')
<1>1. CASE InLog(entries, index)
  <2>1. FirstIndex(entries) = 1
    BY <1>1 DEF LogInv, TypeOK, InLog, FirstIndex, Contiguous
  <2>2. entries' = SubSeq(entries, 1, index) /\ index \in 0 .. Len(entries)
    BY <1>1, <2>1 DEF Cut, InLog, LogInv, TypeOK
  <2>3. entries' \in Seq(LogEntry) /\ Contiguous(entries')
    BY <2>2, PrefixContiguous, Zenon DEF LogInv, TypeOK
  <2>4. lastTerm' = TermOfLast(entries')
    BY <1>1, Zenon DEF Cut
  <2>5. TermOfLast(entries') \in 0 .. MaxTerm
    BY <2>3, TermOfLastType, Zenon
  <2> QED
    BY <2>3, <2>4, <2>5
<1>2. CASE ~InLog(entries, index)
  BY <1>2, Zenon DEF Cut, LogInv, TypeOK, TermOfLast, Contiguous
<1> QED
  BY <1>1, <1>2, Zenon

\* Every behaviour keeps the entries numbered 1, 2, 3, ... and lastTerm at or
\* above the term of the last entry, under any interleaving of appends,
\* truncations, restores and cleanups (replication_log.go:26-217).
THEOREM LogInvariant == LogSpec => []LogInv
<1>1. LogInit => LogInv
  BY BoundsAssumption DEF LogInit, LogInv, TypeOK, Idle, Contiguous, TermOfLast
<1>2. LogInv /\ [LogNext]_logVars => LogInv'
  <2> SUFFICES ASSUME LogInv, [LogNext]_logVars PROVE LogInv'
    BY Zenon
  <2> USE BoundsAssumption
  <2>1. ASSUME NEW term \in 1 .. MaxTerm, NEW time \in 0 .. now, LogAppend(term, time)
        PROVE  LogInv'
    <3> DEFINE e == [index |-> 0, term |-> term, time |-> time]
    <3>1. e \in LogEntry /\ entries' = AppendEntry(entries, e)
      BY <2>1 DEF LogAppend, LogEntry, LogInv, TypeOK
    <3>2. entries' \in Seq(LogEntry) /\ Contiguous(entries') /\ TermOfLast(entries') = term
      BY <3>1, AppendContiguous, Zenon DEF LogInv, TypeOK
    <3> QED
      BY <2>1, <3>2 DEF LogAppend, LogInv, TypeOK, Contiguous
  <2>2. ASSUME NEW index \in 0 .. MaxLen, Truncate(index) PROVE LogInv'
    <3>1. Cut(index) /\ UNCHANGED <<saved, now, cleanup>>
      BY <2>2, Zenon DEF Truncate
    <3> QED
      BY <3>1, CutKeeps DEF LogInv, TypeOK, Contiguous
  <2>3. CASE Clear
    BY <2>3 DEF Clear, LogInv, TypeOK, Contiguous, TermOfLast
  <2>4. CASE Serialize
    BY <2>4, Zenon DEF Serialize, LogInv, TypeOK, Contiguous, TermOfLast
  <2>5. CASE Deserialize
    <3>1. TermOfLast(saved) \in 0 .. MaxTerm
      BY TermOfLastType, Zenon DEF LogInv, TypeOK
    <3> QED
      BY <2>5, <3>1 DEF Deserialize, LogInv, TypeOK, Contiguous, TermOfLast
  <2>6. CASE Tick
    BY <2>6 DEF Tick, LogInv, TypeOK, Contiguous, TermOfLast
  <2>7. CASE CleanupLastIndex
    <3>1. LastIndex(entries) \in Nat
      BY LastIndexIsLen DEF LogInv, TypeOK
    <3> QED
      BY <2>7, <3>1, Zenon DEF CleanupLastIndex, LogInv, TypeOK, Contiguous, TermOfLast
  <2>8. CASE CleanupRead
    <3> DEFINE s == IF GetFromFails(entries, 1) THEN <<>>
                    ELSE GetFrom(entries, 1, cleanup.index)
    <3>1. s \in Seq(LogEntry)
      BY GetFromType DEF LogInv, TypeOK
    <3>2. \/ cleanup' = Idle
          \/ \E i \in DOMAIN s : cleanup' = [at |-> "truncate", index |-> s[i].index]
      BY <2>8, Zenon DEF CleanupRead
    <3> HIDE DEF s
    <3>3. ASSUME NEW i \in DOMAIN s PROVE s[i].index \in Nat
      <4>1. s[i] \in LogEntry
        BY <3>1
      <4> QED
        BY <4>1, Zenon DEF LogEntry
    <3>4. cleanup' \in [at : {"idle", "read", "truncate"}, index : Nat]
      BY <3>2, <3>3 DEF Idle
    <3> QED
      BY <2>8, <3>4, Zenon DEF CleanupRead, LogInv, TypeOK, Contiguous, TermOfLast
  <2>9. CASE CleanupTruncate
    <3>1. Cut(cleanup.index) /\ cleanup' = Idle /\ UNCHANGED <<saved, now>>
      BY <2>9, Zenon DEF CleanupTruncate
    <3>2. cleanup.index \in Nat
      BY Zenon DEF LogInv, TypeOK
    <3> QED
      BY <3>1, <3>2, CutKeeps, Zenon DEF LogInv, TypeOK, Contiguous, Idle
  <2>10. CASE UNCHANGED logVars
    BY <2>10, Zenon DEF logVars, LogInv, TypeOK, Contiguous, TermOfLast
  <2> QED
    BY <2>1, <2>2, <2>3, <2>4, <2>5, <2>6, <2>7, <2>8, <2>9, <2>10, Zenon DEF LogNext
<1> QED
  BY <1>1, <1>2, PTL DEF LogSpec

\* The window that GetFrom returns, for every log, start and count
\* (replication_log.go:84-113).
THEOREM GetFromWindow == LogSpec => []GetFromIsWindow
<1>1. LogInv => GetFromIsWindow
  <2> SUFFICES ASSUME LogInv, NEW start \in 1 .. MaxLen + 1, NEW maxCount \in -1 .. MaxLen,
                      ~GetFromFails(entries, start)
               PROVE  LET r == GetFrom(entries, start, maxCount)
                      IN  /\ {r[i] : i \in DOMAIN r} =
                                {e \in {entries[i] : i \in DOMAIN entries} :
                                   e.index >= start
                                   /\ (maxCount <= 0 \/ e.index < start + maxCount)}
                          /\ \A i, j \in DOMAIN r : i < j => r[i].index < r[j].index
    BY Zenon DEF GetFromIsWindow
  <2> DEFINE r == GetFrom(entries, start, maxCount)
             n == Len(entries)
  <2>1. entries \in Seq(LogEntry) /\ Contiguous(entries)
    BY Zenon DEF LogInv, TypeOK
  <2>2. start \in Nat /\ maxCount \in Int
    BY BoundsAssumption
  <2>3. /\ r \in Seq(LogEntry) /\ start >= 1
        /\ \A i \in DOMAIN r : start + i - 1 \in DOMAIN entries /\ r[i] = entries[start + i - 1]
        /\ \A i \in DOMAIN r : r[i].index = start + i - 1
        /\ Len(r) = IF start > n THEN 0
                    ELSE IF maxCount <= 0 \/ start - 1 + maxCount > n
                    THEN n - start + 1 ELSE maxCount
    <3>1. Window(r, LogEntry, entries, start, maxCount)
      BY <2>1, <2>2, GetFromNumbers, Zenon
    <3> HIDE DEF r
    <3> QED
      BY <3>1, Zenon DEF Window
  <2>4. n \in Nat /\ DOMAIN entries = 1 .. n /\ DOMAIN r = 1 .. Len(r)
    BY <2>1, <2>3
  <2> HIDE DEF r, n
  <2>5. \A i \in DOMAIN r :
           r[i].index >= start /\ (maxCount <= 0 \/ r[i].index < start + maxCount)
    BY <2>2, <2>3, <2>4
  <2>6. ASSUME NEW j \in DOMAIN entries, entries[j].index >= start,
               maxCount <= 0 \/ entries[j].index < start + maxCount
        PROVE  \E i \in DOMAIN r : r[i] = entries[j]
    <3>1. entries[j].index = j
      BY <2>1, Zenon DEF Contiguous
    <3>2. j - start + 1 \in DOMAIN r
      BY <2>2, <2>3, <2>4, <2>6, <3>1
    <3>3. r[j - start + 1] = entries[j]
      BY <2>2, <2>3, <2>4, <3>2
    <3> QED
      BY <3>2, <3>3, Zenon
  <2>7. \A i, j \in DOMAIN r : i < j => r[i].index < r[j].index
    BY <2>2, <2>3, <2>4
  <2>8. {r[i] : i \in DOMAIN r} =
           {e \in {entries[i] : i \in DOMAIN entries} :
              e.index >= start /\ (maxCount <= 0 \/ e.index < start + maxCount)}
    BY <2>3, <2>5, <2>6
  <2> QED
    BY <2>7, <2>8, Zenon DEF r
<1> QED
  BY <1>1, LogInvariant, PTL
-----------------------------------------------------------------------------
(***************************************************************************)
(* Replication: types and numbering.                                       *)
(***************************************************************************)
LogsOK ==
    /\ cache \in [Node -> [Key -> Value \cup {None}]]
    /\ log \in [Node -> Seq(Entry)]
    /\ \A n \in Node : Contiguous(log[n])

WritersOK ==
    /\ writer \in [Writer -> [at : {"idle", "append", "send"}, entry : Entry \cup {NoEntry}]]
    /\ \A w \in Writer : writer[w].at # "idle" => writer[w].entry \in Entry
    /\ logCh \in Seq(Entry) /\ Len(logCh) <= dep.channelSize
    /\ applying \in Entry \cup {NoEntry}

StatusOK ==
    /\ followers \subseteq DOMAIN status /\ DOMAIN status \subseteq Follower
    /\ syncState \in [Follower -> State]
    /\ reached \in [Follower -> Nat]

PushType ==
    [at : {"idle", "apply"}, entries : Seq(Entry), cached : BOOLEAN, waits : BOOLEAN,
     size : Nat, upTo : Nat]

PullType ==
    [at : {"idle", "send", "last", "apply"}, entries : Seq(Entry), cached : BOOLEAN,
     first : Nat, from : Nat, next : Nat, try : Nat]

\* An entry that is in the cache only is still to be appended.
PushesOK ==
    push \in [Slot -> PushType] /\ \A s \in Slot : push[s].cached => push[s].entries # <<>>

PullsOK ==
    /\ pull \in [Pair -> PullType]
    /\ \A p \in Pair : pull[p].cached => pull[p].entries # <<>>
    /\ \A p \in Pair : pull[p].entries # <<>> => pull[p].at = "apply"

RInv == dep \in Deployments /\ LogsOK /\ WritersOK /\ StatusOK /\ PushesOK /\ PullsOK

\* The inductive invariant implies the one that the runs check.
LEMMA RInvImplies == RInv => ReplicationInv
<1> SUFFICES ASSUME RInv PROVE ReplicationInv
    BY Zenon
<1>1. \A s \in Slot : Batch(push[s])
  BY Zenon DEF RInv, PushesOK, PushType, Batch
<1>2. \A p \in Pair : Batch(pull[p])
  BY Zenon DEF RInv, PullsOK, PullType, Batch
<1> QED
  BY <1>1, <1>2, Zenon DEF RInv, LogsOK, WritersOK, StatusOK, ReplicationInv

\* The parts of a deployment.
LEMMA DeploymentType ==
    ASSUME dep \in Deployments
    PROVE  dep.maxLogEntries \in Nat \ {0} /\ dep.channelSize \in Nat
           /\ dep.maxRetries \in Nat \ {0} /\ dep.keys \subseteq Key
           /\ dep.joined \subseteq Follower
BY DeploymentAssumption, Zenon DEF Deployment

\* A pull has two nodes.
LEMMA PairNodes == \A p \in Pair : p[1] \in Node /\ p[2] \in Node
BY Zenon DEF Pair, Node

\* Applying an entry keeps the type of the caches (syncer.go:514-542).
LEMMA AppliedType ==
    ASSUME LogsOK, NEW n \in Node, NEW e \in Entry
    PROVE  Applied(n, e) \in [Node -> [Key -> Value \cup {None}]]
<1>1. e.key \in Key /\ e.val \in Value \cup {None}
  BY Zenon DEF Entry
<1> QED
  BY <1>1, Zenon DEF Applied, LogsOK

\* An entry that gets another number is an entry.
LEMMA Numbered ==
    ASSUME NEW e \in Entry, NEW i \in Nat
    PROVE  /\ [e EXCEPT !.index = i] = [index |-> i, key |-> e.key, val |-> e.val]
           /\ [e EXCEPT !.index = i] \in Entry
BY DEF Entry

\* Appending to a node's log keeps it numbered (replication_log.go:34-40).
LEMMA AppendedType ==
    ASSUME LogsOK, NEW n \in Node, NEW e \in Entry
    PROVE  /\ Appended(n, e) =
                 [log EXCEPT ![n] = Append(log[n], [index |-> Len(log[n]) + 1,
                                                    key |-> e.key, val |-> e.val])]
           /\ Appended(n, e) \in [Node -> Seq(Entry)]
           /\ \A m \in Node : Contiguous(Appended(n, e)[m])
<1> DEFINE f == [index |-> Len(log[n]) + 1, key |-> e.key, val |-> e.val]
<1>1. log[n] \in Seq(Entry) /\ Contiguous(log[n])
  BY Zenon DEF LogsOK
<1>2. Len(log[n]) + 1 \in Nat
  BY <1>1
<1>3. [e EXCEPT !.index = Len(log[n]) + 1] = f /\ f \in Entry /\ f.index = Len(log[n]) + 1
  BY <1>2, Numbered, Zenon
<1> HIDE DEF f
<1>4. /\ AppendEntry(log[n], e) = Append(log[n], f)
      /\ AppendEntry(log[n], e) \in Seq(Entry)
      /\ Contiguous(AppendEntry(log[n], e))
  BY <1>1, <1>3, AppendNumbers, Zenon
<1> QED
  BY <1>4, Zenon DEF Appended, LogsOK, f

\* What holds at the start.
LEMMA RInvInit == Init => RInv
<1> SUFFICES ASSUME Init PROVE RInv
    BY Zenon
<1>1. LogsOK
  BY DEF Init, LogsOK, Contiguous
<1>2. WritersOK
  BY DeploymentType DEF Init, WritersOK
<1>3. StatusOK
  BY DeploymentType, Zenon DEF Init, StatusOK, State
<1>4. PushesOK
  BY DEF Init, PushesOK, PushType, NoPush
<1>5. PullsOK
  BY DEF Init, PullsOK, PullType, NoPull
<1> QED
  BY <1>1, <1>2, <1>3, <1>4, <1>5, Zenon DEF Init, RInv

\* What the entries a batch has left are.
LEMMA BatchTail ==
    ASSUME NEW s \in Seq(Entry), s # <<>>
    PROVE  s[1] \in Entry /\ Tail(s) \in Seq(Entry)
OBVIOUS

\* Pushes keep their type when one of them changes within its type.
LEMMA PushesKept ==
    ASSUME PushesOK, NEW s \in Slot, NEW p \in PushType,
           p.cached => p.entries # <<>>, push' = [push EXCEPT ![s] = p]
    PROVE  PushesOK'
BY Zenon DEF PushesOK

\* Pulls keep their type when one of them changes within its type.
LEMMA PullsKept ==
    ASSUME PullsOK, NEW x \in Pair, NEW p \in PullType, p.cached => p.entries # <<>>,
           p.entries # <<>> => p.at = "apply", pull' = [pull EXCEPT ![x] = p]
    PROVE  PullsOK'
BY Zenon DEF PullsOK

\* The status of a follower is set, whether or not it has one.
LEMMA SetKeeps ==
    ASSUME StatusOK, NEW f \in Follower, NEW state
    PROVE  followers \subseteq DOMAIN Set(f, state) /\ DOMAIN Set(f, state) \subseteq Follower
BY Zenon DEF StatusOK, Set

\* A pull that is not in progress.
LEMMA NoPullType == NoPull \in PullType /\ ~NoPull.cached /\ NoPull.entries = <<>>
BY DEF NoPull, PullType

\* What starts a pull has the type of one (syncer.go:144-194).
LEMMA BeginKeeps ==
    ASSUME PullsOK, NEW x \in Pair, NEW first \in Nat, pull' = Begin(x, first)
    PROVE  PullsOK'
<1> DEFINE p == [NoPull EXCEPT !.at = "send", !.first = first, !.from = first, !.try = 1]
<1>2. p \in PullType /\ ~p.cached /\ p.entries = <<>>
  BY NoPullType, Zenon DEF PullType
<1>3. pull' = [pull EXCEPT ![x] = p]
  BY Zenon DEF Begin
<1> HIDE DEF p
<1> QED
  BY <1>2, <1>3, PullsKept, Zenon

\* The end of a pull keeps the types (leader.go:196-213, follower.go:269-300).
LEMMA FinishKeeps ==
    ASSUME PullsOK, StatusOK, NEW x \in Pair, NEW ok \in BOOLEAN, Finish(x, ok),
           UNCHANGED <<reached, followers>>
    PROVE  PullsOK' /\ StatusOK'
<1>2. PullsOK'
  BY NoPullType, PullsKept, Zenon DEF Finish
<1>3. x[1] # Leader => x[1] \in Follower
  BY Zenon DEF Pair
<1>4. x[1] = Leader => x[2] \in Follower
  BY NodeAssumption, Zenon DEF Pair
<1>5. syncState' \in [Follower -> State]
  BY <1>3, Zenon DEF Finish, StatusOK, State
<1>6. followers \subseteq DOMAIN status' /\ DOMAIN status' \subseteq Follower
  <2>1. CASE x[1] = Leader /\ ok
    <3>1. status' = Set(x[2], "Normal")
      BY <2>1, Zenon DEF Finish
    <3> QED
      BY <2>1, <3>1, <1>4, SetKeeps, Zenon
  <2>2. CASE ~(x[1] = Leader /\ ok)
    BY <2>2, Zenon DEF Finish, StatusOK
  <2> QED
    BY <2>1, <2>2, Zenon
<1> QED
  BY <1>2, <1>5, <1>6, Zenon DEF StatusOK

\* Every step keeps the types and the numbering.
LEMMA RInvStep == RInv /\ [Next]_vars => RInv'
<1> SUFFICES ASSUME RInv, [Next]_vars PROVE RInv'
    BY Zenon
<1>d. dep' = dep
  BY Zenon DEF Next, vars
<1>u. /\ UNCHANGED <<cache, log>> => LogsOK'
      /\ UNCHANGED <<writer, logCh, applying>> => WritersOK'
      /\ UNCHANGED <<followers, status, syncState, reached>> => StatusOK'
      /\ UNCHANGED push => PushesOK'
      /\ UNCHANGED pull => PullsOK'
  <2>1. UNCHANGED <<cache, log>> => LogsOK'
    BY Zenon DEF RInv, LogsOK
  <2>2. UNCHANGED <<writer, logCh, applying>> => WritersOK'
    BY <1>d, Zenon DEF RInv, WritersOK
  <2>3. UNCHANGED <<followers, status, syncState, reached>> => StatusOK'
    BY Zenon DEF RInv, StatusOK
  <2>4. UNCHANGED push => PushesOK'
    BY Zenon DEF RInv, PushesOK
  <2>5. UNCHANGED pull => PullsOK'
    BY Zenon DEF RInv, PullsOK
  <2> QED
    BY <2>1, <2>2, <2>3, <2>4, <2>5, Zenon
<1>a. LogsOK /\ WritersOK /\ StatusOK /\ PushesOK /\ PullsOK /\ dep \in Deployments
      /\ dep' \in Deployments
  BY <1>d, Zenon DEF RInv
<1>n. Leader \in Node /\ Follower \subseteq Node
  BY Zenon DEF Node
<1> SUFFICES LogsOK' /\ WritersOK' /\ StatusOK' /\ PushesOK' /\ PullsOK'
  BY <1>a, Zenon DEF RInv
<1>1. ASSUME NEW w \in Writer, NEW k \in dep.keys, NEW v \in Value \cup {None}, WriteCache(w, k, v)
      PROVE  LogsOK' /\ WritersOK' /\ StatusOK' /\ PushesOK' /\ PullsOK'
  <2> DEFINE e == [index |-> 0, key |-> k, val |-> v]
  <2>1. e \in Entry
    BY <1>a, DeploymentType, Zenon DEF Entry
  <2>2. cache' = Applied(Leader, e) /\ log' = log
        /\ writer' = [writer EXCEPT ![w] = [at |-> "append", entry |-> e]]
        /\ UNCHANGED <<logCh, applying>>
    BY <1>1, Zenon DEF WriteCache
  <2> HIDE DEF e
  <2>3. LogsOK'
    BY <1>a, <1>n, <2>1, <2>2, AppliedType, Zenon DEF LogsOK
  <2>4. WritersOK'
    BY <1>a, <1>d, <2>1, <2>2, Zenon DEF WritersOK
  <2> QED
    BY <1>1, <1>u, <2>3, <2>4, Zenon DEF WriteCache
<1>2. ASSUME NEW w \in Writer, WriteAppend(w)
      PROVE  LogsOK' /\ WritersOK' /\ StatusOK' /\ PushesOK' /\ PullsOK'
  <2>1. writer[w].entry \in Entry
    BY <1>2, <1>a, Zenon DEF WriteAppend, WritersOK
  <2>2. LogsOK'
    BY <1>2, <1>a, <1>n, <2>1, AppendedType, Zenon DEF WriteAppend, LogsOK
  <2>3. WritersOK'
    BY <1>2, <1>a, <1>d, <2>1, Zenon DEF WriteAppend, WritersOK
  <2> QED
    BY <1>2, <1>u, <2>2, <2>3, Zenon DEF WriteAppend
<1>3. ASSUME NEW w \in Writer, WriteSend(w)
      PROVE  LogsOK' /\ WritersOK' /\ StatusOK' /\ PushesOK' /\ PullsOK'
  <2>1. writer[w].entry \in Entry
    BY <1>3, <1>a, Zenon DEF WriteSend, WritersOK
  <2>2. logCh' \in Seq(Entry) /\ Len(logCh') <= dep.channelSize
    <3>1. dep.channelSize \in Nat /\ logCh \in Seq(Entry) /\ Len(logCh) <= dep.channelSize
      BY <1>a, DeploymentType, Zenon DEF WritersOK
    <3>2. \/ Len(logCh) < dep.channelSize /\ logCh' = Append(logCh, writer[w].entry)
          \/ logCh' = logCh
      BY <1>3, Zenon DEF WriteSend
    <3> QED
      BY <2>1, <3>1, <3>2
  <2>3. WritersOK'
    BY <1>3, <1>a, <1>d, <2>1, <2>2, Zenon DEF WriteSend, WritersOK
  <2> QED
    BY <1>3, <1>u, <2>3, Zenon DEF WriteSend
<1>4. CASE TakeLogEntry
  <2>1. Head(logCh) \in Entry /\ Tail(logCh) \in Seq(Entry)
        /\ Len(Tail(logCh)) <= dep.channelSize
    BY <1>4, <1>a, DeploymentType DEF TakeLogEntry, WritersOK
  <2>2. WritersOK'
    BY <1>4, <1>a, <1>d, <2>1, Zenon DEF TakeLogEntry, WritersOK
  <2> QED
    BY <1>4, <1>u, <2>2, Zenon DEF TakeLogEntry
<1>5. CASE ApplyLogEntry
  <2>1. applying \in Entry
    BY <1>5, <1>a, Zenon DEF ApplyLogEntry, WritersOK
  <2>2. LogsOK'
    BY <1>5, <1>a, <1>n, <2>1, AppliedType, Zenon DEF ApplyLogEntry, LogsOK
  <2>3. WritersOK'
    BY <1>5, <1>a, <1>d, Zenon DEF ApplyLogEntry, WritersOK
  <2> QED
    BY <1>5, <1>u, <2>2, <2>3, Zenon DEF ApplyLogEntry
<1>6. ASSUME NEW f \in Follower, NEW h \in Handler, Replicate(f, h)
      PROVE  LogsOK' /\ WritersOK' /\ StatusOK' /\ PushesOK' /\ PullsOK'
  <2> DEFINE s == GetFrom(log[Leader], 1, dep.maxLogEntries)
             p == [at |-> "apply", entries |-> s, cached |-> FALSE, waits |-> TRUE,
                   size |-> Len(s), upTo |-> Len(log[Leader])]
  <2>1. log[Leader] \in Seq(Entry) /\ Contiguous(log[Leader])
    BY <1>a, <1>n, Zenon DEF LogsOK
  <2>2. s \in Seq(Entry)
    <3>1. 1 \in Nat /\ dep.maxLogEntries \in Int
      BY <1>a, DeploymentType
    <3> QED
      BY <1>6, <2>1, <3>1, GetFromType, Zenon DEF Replicate
  <2>3. push' = [push EXCEPT ![<<f, h>>] = p]
    BY <1>6, Zenon DEF Replicate
  <2>4. Len(s) \in Nat /\ Len(log[Leader]) \in Nat
    BY <2>1, <2>2
  <2> HIDE DEF s
  <2>5. p \in PushType /\ ~p.cached
    BY <2>2, <2>4, Zenon DEF PushType
  <2>6. <<f, h>> \in Slot
    BY Zenon DEF Slot
  <2> HIDE DEF p
  <2>7. PushesOK'
    BY <1>a, <2>3, <2>5, <2>6, PushesKept, Zenon
  <2> QED
    BY <1>6, <1>u, <2>7, Zenon DEF Replicate, writeVars
<1>7. ASSUME NEW f \in Follower, ReplicateFails(f)
      PROVE  LogsOK' /\ WritersOK' /\ StatusOK' /\ PushesOK' /\ PullsOK'
  <2>1. StatusOK'
    BY <1>7, <1>a, SetKeeps, Zenon DEF ReplicateFails, StatusOK
  <2> QED
    BY <1>7, <1>u, <2>1, Zenon DEF ReplicateFails, writeVars
<1>8. ASSUME NEW f \in Follower, NEW h \in Handler, PushCache(f, h)
      PROVE  LogsOK' /\ WritersOK' /\ StatusOK' /\ PushesOK' /\ PullsOK'
  <2> DEFINE p == push[<<f, h>>]
  <2>1. <<f, h>> \in Slot /\ p \in PushType
    BY <1>a, Zenon DEF Slot, PushesOK
  <2>2. p.entries \in Seq(Entry) /\ p.entries # <<>>
    BY <1>8, <2>1, Zenon DEF PushCache, PushType
  <2>3. p.entries[1] \in Entry
    BY <2>2, BatchTail, Zenon
  <2>4. cache' = Applied(f, p.entries[1]) /\ log' = log
    BY <1>8, Zenon DEF PushCache
  <2>5. LogsOK'
    BY <1>a, <1>n, <2>3, <2>4, AppliedType, Zenon DEF LogsOK
  <2>6. push' = [push EXCEPT ![<<f, h>>] = [p EXCEPT !.cached = TRUE]]
    BY <1>8, Zenon DEF PushCache
  <2> HIDE DEF p
  <2>7. [p EXCEPT !.cached = TRUE] \in PushType /\ [p EXCEPT !.cached = TRUE].entries = p.entries
    BY <2>1, Zenon DEF PushType
  <2>8. PushesOK'
    BY <1>a, <2>1, <2>2, <2>6, <2>7, PushesKept, Zenon
  <2> QED
    BY <1>8, <1>u, <2>5, <2>8, Zenon DEF PushCache, writeVars
<1>9. ASSUME NEW f \in Follower, NEW h \in Handler, PushAppend(f, h)
      PROVE  LogsOK' /\ WritersOK' /\ StatusOK' /\ PushesOK' /\ PullsOK'
  <2> DEFINE p == push[<<f, h>>]
             q == [p EXCEPT !.cached = FALSE, !.entries = Tail(p.entries)]
  <2>1. <<f, h>> \in Slot /\ p \in PushType
    BY <1>a, Zenon DEF Slot, PushesOK
  <2>2. p.entries \in Seq(Entry) /\ p.entries # <<>>
    BY <1>9, <1>a, <2>1, Zenon DEF PushAppend, PushType, PushesOK
  <2>3. p.entries[1] \in Entry /\ Tail(p.entries) \in Seq(Entry)
    BY <2>2, BatchTail, Zenon
  <2>4. log' = Appended(f, p.entries[1]) /\ cache' = cache
    BY <1>9, Zenon DEF PushAppend
  <2>5. LogsOK'
    BY <1>a, <1>n, <2>3, <2>4, AppendedType, Zenon DEF LogsOK
  <2>6. push' = [push EXCEPT ![<<f, h>>] = q]
    BY <1>9, <2>1, <1>a, Zenon DEF PushAppend, PushesOK, PushType
  <2> HIDE DEF p
  <2>7. q \in PushType /\ ~q.cached
    BY <2>1, <2>3, Zenon DEF PushType
  <2> HIDE DEF q
  <2>8. PushesOK'
    BY <1>a, <2>1, <2>6, <2>7, PushesKept, Zenon
  <2> QED
    BY <1>9, <1>u, <2>5, <2>8, Zenon DEF PushAppend, writeVars
<1>10. ASSUME NEW f \in Follower, NEW h \in Handler, PushDone(f, h)
       PROVE  LogsOK' /\ WritersOK' /\ StatusOK' /\ PushesOK' /\ PullsOK'
  <2>1. <<f, h>> \in Slot /\ push[<<f, h>>] \in PushType
    BY <1>a, Zenon DEF Slot, PushesOK
  <2>2. NoPush \in PushType /\ ~NoPush.cached
    BY DEF NoPush, PushType
  <2>3. PushesOK'
    BY <1>10, <1>a, <2>1, <2>2, PushesKept, Zenon DEF PushDone
  <2>4. push[<<f, h>>].size \in Nat
    BY <2>1, Zenon DEF PushType
  <2>5. reached' \in [Follower -> Nat]
    BY <1>10, <1>a, <2>4, Zenon DEF PushDone, StatusOK
  <2>6. followers \subseteq DOMAIN status' /\ DOMAIN status' \subseteq Follower
    BY <1>10, <1>a, SetKeeps, Zenon DEF PushDone, StatusOK
  <2>7. StatusOK'
    BY <1>10, <1>a, <2>5, <2>6, Zenon DEF PushDone, StatusOK
  <2> QED
    BY <1>10, <1>u, <2>3, <2>7, Zenon DEF PushDone, writeVars
<1>11. ASSUME NEW f \in Follower, NEW h \in Handler, PushAbandoned(f, h)
       PROVE  LogsOK' /\ WritersOK' /\ StatusOK' /\ PushesOK' /\ PullsOK'
  <2> DEFINE p == push[<<f, h>>]
  <2>1. <<f, h>> \in Slot /\ p \in PushType /\ (p.cached => p.entries # <<>>)
    BY <1>a, Zenon DEF Slot, PushesOK
  <2>2. push' = [push EXCEPT ![<<f, h>>] = [p EXCEPT !.waits = FALSE]]
    BY <1>11, Zenon DEF PushAbandoned
  <2> HIDE DEF p
  <2>3. [p EXCEPT !.waits = FALSE] \in PushType
        /\ [p EXCEPT !.waits = FALSE].cached = p.cached
        /\ [p EXCEPT !.waits = FALSE].entries = p.entries
    BY <2>1, Zenon DEF PushType
  <2>4. PushesOK'
    BY <1>a, <2>1, <2>2, <2>3, PushesKept, Zenon
  <2>5. StatusOK'
    BY <1>11, <1>a, SetKeeps, Zenon DEF PushAbandoned, StatusOK
  <2> QED
    BY <1>11, <1>u, <2>4, <2>5, Zenon DEF PushAbandoned, writeVars
<1>12. ASSUME NEW f \in Follower, SyncFromLeader(f) \/ RequestFullSync(f)
       PROVE  LogsOK' /\ WritersOK' /\ StatusOK' /\ PushesOK' /\ PullsOK'
  <2>1. <<f, Leader>> \in Pair
    BY Zenon DEF Pair
  <2>2. log[f] \in Seq(Entry) /\ Contiguous(log[f])
    BY <1>a, <1>n, Zenon DEF LogsOK
  <2>3. LastIndex(log[f]) \in Nat
    BY <2>2, LastIndexIsLen
  <2>4. PullsOK'
    BY <1>12, <1>a, <2>1, <2>3, BeginKeeps, Zenon DEF SyncFromLeader, RequestFullSync
  <2>5. StatusOK'
    BY <1>12, <1>a, Zenon DEF SyncFromLeader, RequestFullSync, StatusOK, State
  <2> QED
    BY <1>12, <1>u, <2>4, <2>5, Zenon DEF SyncFromLeader, RequestFullSync, writeVars
<1>13. ASSUME NEW f \in Follower, AddFollower(f)
       PROVE  LogsOK' /\ WritersOK' /\ StatusOK' /\ PushesOK' /\ PullsOK'
  <2>1. <<Leader, f>> \in Pair
    BY Zenon DEF Pair
  <2>2. PullsOK'
    BY <1>13, <1>a, <2>1, BeginKeeps, Zenon DEF AddFollower
  <2>3. StatusOK'
    BY <1>13, <1>a, Zenon DEF AddFollower, StatusOK, Set
  <2> QED
    BY <1>13, <1>u, <2>2, <2>3, Zenon DEF AddFollower, writeVars
<1>14. ASSUME NEW f \in Follower, RemoveFollower(f)
       PROVE  LogsOK' /\ WritersOK' /\ StatusOK' /\ PushesOK' /\ PullsOK'
  <2>1. StatusOK'
    BY <1>14, <1>a, Zenon DEF RemoveFollower, StatusOK
  <2> QED
    BY <1>14, <1>u, <2>1, Zenon DEF RemoveFollower, writeVars
<1>15. ASSUME NEW x \in Pair, PullRead(x)
       PROVE  LogsOK' /\ WritersOK' /\ StatusOK' /\ PushesOK' /\ PullsOK'
  <2> DEFINE p == pull[x]
             peer == log[x[2]]
             s == IF GetFromFails(peer, p.from + 1) THEN <<>>
                  ELSE GetFrom(peer, p.from + 1, dep.maxLogEntries)
             q == [p EXCEPT !.at = IF s = <<>> THEN "last" ELSE "apply",
                            !.entries = s, !.next = LastIndex(s)]
  <2>1. p \in PullType /\ (p.cached => p.entries # <<>>)
    BY <1>a, Zenon DEF PullsOK
  <2>2. peer \in Seq(Entry) /\ Contiguous(peer)
    BY <1>a, PairNodes, Zenon DEF LogsOK
  <2>3. p.from + 1 \in Nat /\ dep.maxLogEntries \in Int
    BY <1>a, <2>1, DeploymentType DEF PullType
  <2>4. s \in Seq(Entry) /\ LastIndex(s) \in Nat
    <3>1. CASE GetFromFails(peer, p.from + 1)
      BY <3>1 DEF LastIndex
    <3>2. CASE ~GetFromFails(peer, p.from + 1)
      <4>1. s \in Seq(Entry)
        BY <2>2, <2>3, <3>2, GetFromType, Zenon
      <4> HIDE DEF s
      <4>2. s # <<>> => s[Len(s)] \in Entry
        BY <4>1
      <4> QED
        BY <4>1, <4>2, Zenon DEF LastIndex, Entry
    <3> QED
      BY <3>1, <3>2, Zenon
  <2>5. pull' = [pull EXCEPT ![x] = q]
    BY <1>15, Zenon DEF PullRead
  <2>6. ~p.cached
    BY <1>15, <1>a, Zenon DEF PullRead, PullsOK
  <2> HIDE DEF s
  <2>7. q \in PullType /\ ~q.cached /\ (q.entries # <<>> => q.at = "apply")
    BY <2>1, <2>4, <2>6, Zenon DEF PullType
  <2> HIDE DEF q
  <2>8. PullsOK'
    BY <1>a, <2>5, <2>7, PullsKept, Zenon
  <2> QED
    BY <1>15, <1>u, <2>8, Zenon DEF PullRead, writeVars
<1>16. ASSUME NEW x \in Pair, PullLast(x)
       PROVE  LogsOK' /\ WritersOK' /\ StatusOK' /\ PushesOK' /\ PullsOK'
  <2> DEFINE p == pull[x]
             q == [p EXCEPT !.at = "apply", !.next = LastIndex(log[x[2]])]
  <2>1. p \in PullType /\ (p.cached => p.entries # <<>>)
    BY <1>a, Zenon DEF PullsOK
  <2>2. log[x[2]] \in Seq(Entry) /\ Contiguous(log[x[2]])
    BY <1>a, PairNodes, Zenon DEF LogsOK
  <2>3. LastIndex(log[x[2]]) \in Nat
    BY <2>2, LastIndexIsLen
  <2>4. pull' = [pull EXCEPT ![x] = q]
    BY <1>16, Zenon DEF PullLast
  <2> HIDE DEF p
  <2>5. q \in PullType /\ (q.cached => q.entries # <<>>) /\ q.at = "apply"
    BY <2>1, <2>3, Zenon DEF PullType
  <2> HIDE DEF q
  <2>6. PullsOK'
    BY <1>a, <2>4, <2>5, PullsKept, Zenon
  <2> QED
    BY <1>16, <1>u, <2>6, Zenon DEF PullLast, writeVars
<1>17. ASSUME NEW x \in Pair, PullCache(x)
       PROVE  LogsOK' /\ WritersOK' /\ StatusOK' /\ PushesOK' /\ PullsOK'
  <2> DEFINE p == pull[x]
             q == [p EXCEPT !.cached = TRUE]
  <2>1. p \in PullType /\ p.entries # <<>> /\ p.at = "apply"
    BY <1>17, <1>a, Zenon DEF PullsOK, PullCache
  <2>2. p.entries \in Seq(Entry)
    BY <2>1, Zenon DEF PullType
  <2>3. p.entries[1] \in Entry
    BY <2>1, <2>2, BatchTail, Zenon
  <2>4. cache' = Applied(x[1], p.entries[1]) /\ log' = log
    BY <1>17, Zenon DEF PullCache
  <2>5. LogsOK'
    BY <1>a, <2>3, <2>4, PairNodes, AppliedType, Zenon DEF LogsOK
  <2>6. pull' = [pull EXCEPT ![x] = q]
    BY <1>17, Zenon DEF PullCache
  <2> HIDE DEF p
  <2>7. q \in PullType /\ q.entries = p.entries /\ q.at = p.at
    BY <2>1, Zenon DEF PullType
  <2> HIDE DEF q
  <2>8. PullsOK'
    BY <1>a, <2>1, <2>6, <2>7, PullsKept, Zenon
  <2> QED
    BY <1>17, <1>u, <2>5, <2>8, Zenon DEF PullCache, writeVars
<1>18. ASSUME NEW x \in Pair, PullAppend(x)
       PROVE  LogsOK' /\ WritersOK' /\ StatusOK' /\ PushesOK' /\ PullsOK'
  <2> DEFINE p == pull[x]
             q == [p EXCEPT !.cached = FALSE, !.entries = Tail(p.entries)]
  <2>1. p \in PullType /\ p.entries # <<>> /\ p.at = "apply"
    BY <1>18, <1>a, Zenon DEF PullsOK, PullAppend
  <2>2. p.entries \in Seq(Entry)
    BY <2>1, Zenon DEF PullType
  <2>3. p.entries[1] \in Entry /\ Tail(p.entries) \in Seq(Entry)
    BY <2>1, <2>2, BatchTail, Zenon
  <2>4. log' = Appended(x[1], p.entries[1]) /\ cache' = cache
    BY <1>18, Zenon DEF PullAppend
  <2>5. LogsOK'
    BY <1>a, <2>3, <2>4, PairNodes, AppendedType, Zenon DEF LogsOK
  <2>6. pull' = [pull EXCEPT ![x] = q]
    BY <1>18, <2>1, <1>a, Zenon DEF PullAppend, PullsOK, PullType
  <2> HIDE DEF p
  <2>7. q \in PullType /\ ~q.cached /\ q.at = p.at
    BY <2>1, <2>3, Zenon DEF PullType
  <2> HIDE DEF q
  <2>8. PullsOK'
    BY <1>a, <2>1, <2>6, <2>7, PullsKept, Zenon
  <2> QED
    BY <1>18, <1>u, <2>5, <2>8, Zenon DEF PullAppend, writeVars
<1>19. ASSUME NEW x \in Pair, PullNext(x)
       PROVE  LogsOK' /\ WritersOK' /\ StatusOK' /\ PushesOK' /\ PullsOK'
  <2> DEFINE p == pull[x]
             q == [p EXCEPT !.at = "send", !.from = p.next]
  <2>1. p \in PullType /\ p.entries = <<>> /\ ~p.cached
    BY <1>19, <1>a, Zenon DEF PullsOK, PullNext
  <2>2. CASE p.next > 0
    <3>1. pull' = [pull EXCEPT ![x] = q] /\ UNCHANGED <<syncState, status>>
      BY <1>19, <2>2, Zenon DEF PullNext
    <3> HIDE DEF p
    <3>2. q \in PullType /\ q.entries = <<>> /\ ~q.cached
      BY <2>1, Zenon DEF PullType
    <3> HIDE DEF q
    <3>3. PullsOK'
      BY <1>a, <3>1, <3>2, PullsKept, Zenon
    <3> QED
      BY <1>19, <1>u, <3>1, <3>3, Zenon DEF PullNext, writeVars
  <2>3. CASE ~(p.next > 0)
    <3>1. Finish(x, TRUE) /\ UNCHANGED <<reached, followers>>
      BY <1>19, <2>3, Zenon DEF PullNext
    <3> QED
      BY <1>19, <1>a, <1>u, <3>1, FinishKeeps, Zenon DEF PullNext, writeVars
  <2> QED
    BY <2>2, <2>3, Zenon
<1>20. ASSUME NEW x \in Pair, PullFails(x)
       PROVE  LogsOK' /\ WritersOK' /\ StatusOK' /\ PushesOK' /\ PullsOK'
  <2> DEFINE p == pull[x]
             q == [NoPull EXCEPT !.at = "send", !.first = p.first,
                                 !.from = p.first, !.try = p.try + 1]
  <2>1. p \in PullType
    BY <1>a, Zenon DEF PullsOK
  <2>2. CASE p.try < dep.maxRetries
    <3>1. pull' = [pull EXCEPT ![x] = q] /\ UNCHANGED <<syncState, status>>
      BY <1>20, <2>2, Zenon DEF PullFails
    <3>2. p.first \in Nat /\ p.try + 1 \in Nat
      BY <2>1 DEF PullType
    <3> HIDE DEF p
    <3>4. q \in PullType /\ q.entries = <<>> /\ ~q.cached
      BY <3>2, NoPullType, Zenon DEF PullType
    <3> HIDE DEF q
    <3>5. PullsOK'
      BY <1>a, <3>1, <3>4, PullsKept, Zenon
    <3> QED
      BY <1>20, <1>u, <3>1, <3>5, Zenon DEF PullFails, writeVars
  <2>3. CASE ~(p.try < dep.maxRetries)
    <3>1. Finish(x, FALSE) /\ UNCHANGED <<reached, followers>>
      BY <1>20, <2>3, Zenon DEF PullFails
    <3> QED
      BY <1>20, <1>a, <1>u, <3>1, FinishKeeps, Zenon DEF PullFails, writeVars
  <2> QED
    BY <2>2, <2>3, Zenon
<1>21. ASSUME NEW x \in Pair, PullTimesOut(x)
       PROVE  LogsOK' /\ WritersOK' /\ StatusOK' /\ PushesOK' /\ PullsOK'
  <2>1. Finish(x, FALSE) /\ UNCHANGED <<reached, followers>>
    BY <1>21, Zenon DEF PullTimesOut
  <2> QED
    BY <1>21, <1>a, <1>u, <2>1, FinishKeeps, Zenon DEF PullTimesOut, writeVars
<1>22. CASE UNCHANGED vars
  BY <1>22, <1>u, Zenon DEF vars, moving, writeVars
<1> QED
  BY <1>1, <1>2, <1>3, <1>4, <1>5, <1>6, <1>7, <1>8, <1>9, <1>10, <1>11, <1>12, <1>13,
     <1>14, <1>15, <1>16, <1>17, <1>18, <1>19, <1>20, <1>21, <1>22, Zenon
     DEF Next, Step, WriteStep, PushStep, PullStep

\* The types and the numbering of every log hold in every behaviour
\* (replication_log.go:34-40, syncer.go:283-301, 544-586).
THEOREM ReplicationInvariant == Spec => []ReplicationInv
<1> QED
  BY RInvInit, RInvStep, RInvImplies, PTL DEF Spec
-----------------------------------------------------------------------------
(***************************************************************************)
(* What replaying a log gives.                                             *)
(***************************************************************************)
\* A set of positions that is not empty has a largest one.
LEMMA LastPosition ==
    ASSUME NEW n \in Nat, NEW I, I \subseteq 1 .. n, I # {}
    PROVE  \E i \in I : \A j \in I : j <= i
<1> DEFINE D == {n - i : i \in I}
<1>1. D \subseteq Nat /\ D # {}
  <2>1. \A i \in I : n - i \in Nat
    OBVIOUS
  <2> QED
    BY <2>1, Zenon
<1>2. PICK d \in D : \A c \in D : <<c, d>> \notin OpToRel(<, Nat)
  <2> HIDE DEF D
  <2> QED
    BY <1>1, WFMin, NatLessThanWellFounded, Zenon
<1>3. \A c \in D : ~(c < d)
  <2> HIDE DEF D
  <2> QED
    BY <1>1, <1>2, Zenon DEF OpToRel
<1>4. PICK i \in I : d = n - i
  BY Zenon
<1>5. \A j \in I : ~(n - j < n - i)
  BY <1>3, <1>4, Zenon
<1>6. \A j \in I : j \in Nat /\ i \in Nat
  BY SMTT(30)
<1>7. \A j \in I : j <= i
  BY <1>5, <1>6
<1> QED
  BY <1>7, Zenon

\* The last entry for a key decides.
LEMMA LastWins ==
    ASSUME NEW s \in Seq(Entry), NEW k, NEW p \in 1 .. Len(s), s[p].key = k,
           \A j \in p + 1 .. Len(s) : s[j].key # k
    PROVE  Replay(s, k) = s[p].val
<1> DEFINE I == {i \in DOMAIN s : s[i].key = k}
           c == CHOOSE i \in I : \A j \in I : j <= i
<1>1. p \in I /\ I \subseteq 1 .. Len(s)
  OBVIOUS
<1>2. \A j \in I : j <= p
  OBVIOUS
<1>3. c \in I /\ \A j \in I : j <= c
  BY <1>1, <1>2, Zenon
<1>4. c = p
  <2> HIDE DEF I, c
  <2> QED
    BY <1>1, <1>2, <1>3
<1> QED
  BY <1>1, <1>4, Zenon DEF Replay

\* A key without an entry is absent.
LEMMA NoneWithout ==
    ASSUME NEW s \in Seq(Entry), NEW k, \A j \in 1 .. Len(s) : s[j].key # k
    PROVE  Replay(s, k) = None
BY DEF Replay

\* A key has a last entry, or none.
LEMMA LastOrNone ==
    ASSUME NEW s \in Seq(Entry), NEW k
    PROVE  \/ \A j \in 1 .. Len(s) : s[j].key # k
           \/ \E p \in 1 .. Len(s) : s[p].key = k /\ \A j \in p + 1 .. Len(s) : s[j].key # k
<1> DEFINE I == {i \in 1 .. Len(s) : s[i].key = k}
<1>1. CASE I = {}
  BY <1>1, Zenon
<1>2. CASE I # {}
  <2>0. Len(s) \in Nat /\ I \subseteq 1 .. Len(s)
    OBVIOUS
  <2>1. PICK p \in I : \A j \in I : j <= p
    <3> HIDE DEF I
    <3> QED
      BY <1>2, <2>0, LastPosition, Zenon
  <2>2. \A j \in p + 1 .. Len(s) : s[j].key # k
    BY <2>1
  <2> QED
    BY <2>2, Zenon
<1> QED
  BY <1>1, <1>2, Zenon

\* An entry for another key does not count.
LEMMA AppendOther ==
    ASSUME NEW s \in Seq(Entry), NEW e \in Entry, NEW k, e.key # k
    PROVE  Replay(Append(s, e), k) = Replay(s, k)
<1> DEFINE t == Append(s, e)
<1>1. t \in Seq(Entry) /\ Len(t) = Len(s) + 1 /\ t[Len(s) + 1] = e
      /\ \A i \in 1 .. Len(s) : t[i] = s[i]
  OBVIOUS
<1> HIDE DEF t
<1>2. CASE \A j \in 1 .. Len(s) : s[j].key # k
  <2>1. \A j \in 1 .. Len(t) : t[j].key # k
    BY <1>1, <1>2
  <2> QED
    BY <1>1, <1>2, <2>1, NoneWithout, Zenon DEF t
<1>3. CASE \E p \in 1 .. Len(s) : s[p].key = k /\ \A j \in p + 1 .. Len(s) : s[j].key # k
  <2>1. PICK p \in 1 .. Len(s) : s[p].key = k /\ \A j \in p + 1 .. Len(s) : s[j].key # k
    BY <1>3, Zenon
  <2>2. p \in 1 .. Len(t) /\ t[p].key = k /\ \A j \in p + 1 .. Len(t) : t[j].key # k
    BY <1>1, <2>1
  <2>3. Replay(t, k) = t[p].val /\ Replay(s, k) = s[p].val
    BY <1>1, <2>1, <2>2, LastWins, Zenon
  <2> QED
    BY <1>1, <2>1, <2>3, Zenon DEF t
<1> QED
  BY <1>2, <1>3, LastOrNone, Zenon

\* A prefix of a log, entry by entry.
LEMMA Prefix ==
    ASSUME NEW s \in Seq(Entry), NEW n \in 0 .. Len(s)
    PROVE  SubSeq(s, 1, n) \in Seq(Entry) /\ Len(SubSeq(s, 1, n)) = n
           /\ \A i \in 1 .. n : SubSeq(s, 1, n)[i] = s[i]
OBVIOUS

\* A prefix does not change when the log grows.
LEMMA PrefixStays ==
    ASSUME NEW s \in Seq(Entry), NEW e \in Entry, NEW n \in 0 .. Len(s)
    PROVE  SubSeq(Append(s, e), 1, n) = SubSeq(s, 1, n)
OBVIOUS

\* One entry more in the prefix decides its key and no other.
LEMMA PrefixGrows ==
    ASSUME NEW s \in Seq(Entry), NEW n \in 0 .. Len(s) - 1, NEW k
    PROVE  Replay(SubSeq(s, 1, n + 1), k) =
             IF s[n + 1].key = k THEN s[n + 1].val ELSE Replay(SubSeq(s, 1, n), k)
<1>1. SubSeq(s, 1, n + 1) = Append(SubSeq(s, 1, n), s[n + 1])
  OBVIOUS
<1>2. SubSeq(s, 1, n) \in Seq(Entry) /\ s[n + 1] \in Entry /\ Len(SubSeq(s, 1, n)) = n
  BY Prefix
<1>3. CASE s[n + 1].key # k
  BY <1>1, <1>2, <1>3, AppendOther, Zenon
<1>4. CASE s[n + 1].key = k
  <2> DEFINE t == SubSeq(s, 1, n + 1)
  <2>1. n + 1 \in 0 .. Len(s)
    OBVIOUS
  <2>2. t \in Seq(Entry) /\ Len(t) = n + 1 /\ t[n + 1] = s[n + 1]
    BY <2>1, Prefix
  <2> HIDE DEF t
  <2>3. Replay(t, k) = s[n + 1].val
    BY <1>4, <2>2, LastWins
  <2> QED
    BY <1>4, <2>3, Zenon DEF t
<1> QED
  BY <1>3, <1>4, Zenon
-----------------------------------------------------------------------------
(***************************************************************************)
(* Where nothing is pulled.                                                *)
(***************************************************************************)
NoPulls == Pushing => \A p \in Pair : pull[p] = NoPull

\* The steps that are left.
PushOnlyStep ==
    \/ \E w \in Writer :
          WriteStep(w) \/ \E k \in dep.keys, v \in Value \cup {None} : WriteCache(w, k, v)
    \/ TakeLogEntry \/ ApplyLogEntry
    \/ \E f \in Follower, h \in Handler :
          Replicate(f, h) \/ PushStep(f, h) \/ PushAbandoned(f, h)
    \/ \E f \in Follower : ReplicateFails(f)
    \/ UNCHANGED vars

\* No pull starts, and so none goes on.
LEMMA NoPullSteps ==
    ASSUME NoPulls, Pushing, [Next]_vars PROVE PushOnlyStep
<1>1. ASSUME NEW f \in Follower
      PROVE  ~SyncFromLeader(f) /\ ~RequestFullSync(f) /\ ~AddFollower(f) /\ ~RemoveFollower(f)
  BY Zenon DEF Pushing, SyncFromLeader, RequestFullSync, AddFollower, RemoveFollower
<1>2. ASSUME NEW x \in Pair
      PROVE  ~PullStep(x) /\ ~PullFails(x) /\ ~PullTimesOut(x)
  <2>1. pull[x].at = "idle" /\ pull[x].entries = <<>> /\ ~pull[x].cached
    BY DEF NoPulls, NoPull
  <2> QED
    BY <2>1, Zenon DEF PullStep, PullRead, PullLast, PullCache, PullAppend, PullNext, PullFails,
                PullTimesOut
<1> QED
  BY <1>1, <1>2, Zenon DEF Next, Step, PushOnlyStep

\* NoPulls holds throughout.
LEMMA NoPullsStep == NoPulls /\ [Next]_vars => NoPulls'
<1> SUFFICES ASSUME NoPulls, [Next]_vars, Pushing' PROVE (\A p \in Pair : pull[p] = NoPull)'
  BY Zenon DEF NoPulls
<1>1. Pushing
  BY Zenon DEF Pushing, Next, vars
<1>2. pull' = pull
  BY <1>1, NoPullSteps, Zenon DEF PushOnlyStep, WriteStep, WriteAppend, WriteSend, WriteCache,
     TakeLogEntry, ApplyLogEntry, Replicate, PushStep, PushCache, PushAppend, PushDone,
     PushAbandoned, ReplicateFails, vars, moving
<1> QED
  BY <1>1, <1>2, Zenon DEF NoPulls

\* Both invariants hold in every behaviour.
LEMMA AlwaysRInv == Spec => [](RInv /\ NoPulls)
<1>1. Init => NoPulls
  BY Zenon DEF Init, NoPulls
<1> QED
  BY <1>1, RInvInit, RInvStep, NoPullsStep, PTL DEF Spec
-----------------------------------------------------------------------------
(***************************************************************************)
(* The leader, with one writer.  The last entries of the log L are still   *)
(* on their way to the cache c for the second time: the one the reader of  *)
(* the channel has taken (ap), those in the channel (ch) and the one being *)
(* sent (wr), in this order.  A key whose value in the cache is not the    *)
(* log's is one of theirs, or is being written.                            *)
(***************************************************************************)
Same(d, e) == d.key = e.key /\ d.val = e.val
Sending(wr) == IF wr.at = "send" THEN 1 ELSE 0
Taken(ap) == IF ap = NoEntry THEN 0 ELSE 1

\* The position of the last entry that has left the channel.
Left(L, wr, ch) == Len(L) - Sending(wr) - Len(ch)

LeaderAt(L, c, wr, ch, ap) ==
    LET n == Left(L, wr, ch)
    IN  /\ n >= Taken(ap)
        /\ wr.at = "send" => Same(L[Len(L)], wr.entry)
        /\ \A i \in DOMAIN ch : Same(L[n + i], ch[i])
        /\ ap # NoEntry => Same(L[n], ap)
        /\ \A k \in Key : \/ c[k] = Replay(L, k)
                          \/ wr.at = "append" /\ wr.entry.key = k
                          \/ \E i \in n - Taken(ap) + 1 .. Len(L) : L[i].key = k

LeaderInv(w) ==
    Pushing /\ ~discarded => LeaderAt(log[Leader], cache[Leader], writer[w], logCh, applying)

WriterType == [at : {"idle", "append", "send"}, entry : Entry \cup {NoEntry}]

\* NoEntry is not an entry: it has no key.
LEMMA NoEntryIsNone == NoEntry \notin Entry
BY NoneAssumption, Zenon DEF Entry, NoEntry

\* A write to the cache (leader_follower_cluster.go:613-628).
LEMMA LeaderWrites ==
    ASSUME NEW L \in Seq(Entry), NEW c \in [Key -> Value \cup {None}], NEW wr \in WriterType,
           NEW ch \in Seq(Entry), NEW ap \in Entry \cup {NoEntry},
           LeaderAt(L, c, wr, ch, ap), wr.at = "idle", NEW e \in Entry
    PROVE  LeaderAt(L, [c EXCEPT ![e.key] = e.val], [at |-> "append", entry |-> e], ch, ap)
<1> DEFINE wn == [at |-> "append", entry |-> e]
<1>1. wn.at = "append" /\ wn.entry = e /\ Sending(wn) = Sending(wr) /\ wn.at # "send"
  BY Zenon DEF Sending
<1> HIDE DEF wn
<1>2. Left(L, wn, ch) = Left(L, wr, ch)
  BY <1>1, Zenon DEF Left
<1>3. \A k \in Key : k # e.key => [c EXCEPT ![e.key] = e.val][k] = c[k]
  BY Zenon
<1> QED
  BY <1>1, <1>2, <1>3, Zenon DEF LeaderAt, wn

\* The append (syncer.go:86-130).
LEMMA LeaderAppends ==
    ASSUME NEW L \in Seq(Entry), NEW c \in [Key -> Value \cup {None}], NEW wr \in WriterType,
           NEW ch \in Seq(Entry), NEW ap \in Entry \cup {NoEntry},
           LeaderAt(L, c, wr, ch, ap), wr.at = "append", wr.entry \in Entry,
           NEW d \in Entry, Same(d, wr.entry), NEW wn \in WriterType, wn.at = "send",
           wn.entry = wr.entry
    PROVE  LeaderAt(Append(L, d), c, wn, ch, ap)
<1> DEFINE M == Append(L, d)
           n == Left(L, wr, ch)
<1>1. M \in Seq(Entry) /\ Len(M) = Len(L) + 1 /\ M[Len(L) + 1] = d
      /\ \A i \in 1 .. Len(L) : M[i] = L[i]
  BY SMTT(30)
<1>2. Len(L) \in Nat /\ Len(ch) \in Nat /\ Taken(ap) \in {0, 1}
  BY DEF Taken
<1>3. n = Len(L) - Len(ch) /\ n >= Taken(ap)
  BY <1>2 DEF Left, Sending, LeaderAt
<1> HIDE DEF M
<1>4. Left(M, wn, ch) = n
  BY <1>1, <1>2, <1>3, SMTT(30) DEF Left, Sending
<1> HIDE DEF n
<1>5. \A i \in DOMAIN ch : n + i \in 1 .. Len(L)
  BY <1>2, <1>3
<1>6. \A i \in DOMAIN ch : Same(M[n + i], ch[i])
  BY <1>1, <1>5, Zenon DEF LeaderAt, n
<1>7. ap # NoEntry => Same(M[n], ap)
  <2>1. ap # NoEntry => n \in 1 .. Len(L)
    BY <1>2, <1>3 DEF Taken
  <2> QED
    BY <1>1, <2>1, Zenon DEF LeaderAt, n
<1>8. ASSUME NEW k \in Key
      PROVE  \/ c[k] = Replay(M, k)
             \/ \E i \in n - Taken(ap) + 1 .. Len(M) : M[i].key = k
  <2>1. CASE d.key = k
    <3>1. Len(M) \in n - Taken(ap) + 1 .. Len(M)
      BY <1>1, <1>2, <1>3, SMTT(30)
    <3> QED
      BY <2>1, <3>1, <1>1, Zenon
  <2>2. CASE d.key # k /\ c[k] = Replay(L, k)
    BY <2>2, AppendOther, Zenon DEF M
  <2>3. CASE d.key # k /\ \E i \in n - Taken(ap) + 1 .. Len(L) : L[i].key = k
    <3>1. PICK i \in n - Taken(ap) + 1 .. Len(L) : L[i].key = k
      BY <2>3, Zenon
    <3>2. i \in n - Taken(ap) + 1 .. Len(M) /\ i \in 1 .. Len(L)
      BY <1>1, <1>2, <1>3, <3>1
    <3> QED
      BY <3>1, <3>2, <1>1, Zenon
  <2> QED
    BY <2>1, <2>2, <2>3, Zenon DEF LeaderAt, Same, n
<1> QED
  BY <1>1, <1>3, <1>4, <1>6, <1>7, <1>8, Zenon DEF LeaderAt, M

\* The send, into a channel with room (syncer.go:132-141).
LEMMA LeaderSends ==
    ASSUME NEW L \in Seq(Entry), NEW c \in [Key -> Value \cup {None}], NEW wr \in WriterType,
           NEW ch \in Seq(Entry), NEW ap \in Entry \cup {NoEntry},
           LeaderAt(L, c, wr, ch, ap), wr.at = "send", wr.entry \in Entry,
           NEW wn \in WriterType, wn.at = "idle"
    PROVE  LeaderAt(L, c, wn, Append(ch, wr.entry), ap)
<1> DEFINE dh == Append(ch, wr.entry)
           n == Left(L, wr, ch)
<1>1. dh \in Seq(Entry) /\ Len(dh) = Len(ch) + 1 /\ dh[Len(ch) + 1] = wr.entry
      /\ \A i \in 1 .. Len(ch) : dh[i] = ch[i]
  OBVIOUS
<1>2. Len(L) \in Nat /\ Len(ch) \in Nat /\ Taken(ap) \in {0, 1}
  BY DEF Taken
<1>3. n = Len(L) - 1 - Len(ch) /\ n >= Taken(ap)
  BY <1>2, Zenon DEF Left, Sending, LeaderAt
<1> HIDE DEF dh
<1>4. Left(L, wn, dh) = n
  BY <1>1, <1>2, <1>3 DEF Left, Sending
<1> HIDE DEF n
<1>5. \A i \in DOMAIN dh : Same(L[n + i], dh[i])
  <2> TAKE i \in DOMAIN dh
  <2>1. CASE i \in 1 .. Len(ch)
    BY <1>1, <2>1 DEF LeaderAt, n
  <2>2. CASE i = Len(ch) + 1
    <3>1. n + i = Len(L)
      BY <1>2, <1>3, <2>2
    <3> QED
      BY <1>1, <2>2, <3>1, Zenon DEF LeaderAt
  <2> QED
    BY <1>1, <1>2, <2>1, <2>2
<1> QED
  BY <1>3, <1>4, <1>5, Zenon DEF LeaderAt, dh, n

\* The reader takes an entry (syncer.go:514-531).
LEMMA LeaderTakes ==
    ASSUME NEW L \in Seq(Entry), NEW c \in [Key -> Value \cup {None}], NEW wr \in WriterType,
           NEW ch \in Seq(Entry), LeaderAt(L, c, wr, ch, NoEntry), ch # <<>>
    PROVE  LeaderAt(L, c, wr, Tail(ch), Head(ch))
<1> DEFINE dh == Tail(ch)
           n == Left(L, wr, ch)
<1>1. dh \in Seq(Entry) /\ Len(dh) = Len(ch) - 1 /\ Len(ch) >= 1 /\ Head(ch) = ch[1]
      /\ Head(ch) \in Entry
      /\ \A i \in 1 .. Len(dh) : dh[i] = ch[i + 1]
  OBVIOUS
<1>2. Len(L) \in Nat /\ Len(ch) \in Nat /\ Sending(wr) \in {0, 1}
  BY DEF Sending
<1>3. Taken(NoEntry) = 0 /\ Taken(Head(ch)) = 1
  BY <1>1, NoEntryIsNone, Zenon DEF Taken
<1>4. n \in Nat
  BY <1>2, <1>3 DEF Left, LeaderAt
<1> HIDE DEF dh
<1>5. Left(L, wr, dh) = n + 1
  BY <1>1, <1>2 DEF Left
<1>6. \A i \in DOMAIN ch : Same(L[n + i], ch[i])
  BY Zenon DEF LeaderAt
<1>7. \A k \in Key : \/ c[k] = Replay(L, k)
                     \/ wr.at = "append" /\ wr.entry.key = k
                     \/ \E i \in n + 1 .. Len(L) : L[i].key = k
  BY <1>3, <1>4 DEF LeaderAt
<1> HIDE DEF n
<1>8. \A i \in DOMAIN dh : Same(L[n + 1 + i], dh[i])
  <2> TAKE i \in DOMAIN dh
  <2>0. i \in 1 .. Len(dh) /\ DOMAIN ch = 1 .. Len(ch)
    BY <1>1
  <2>1. i + 1 \in DOMAIN ch /\ n + (i + 1) = n + 1 + i
    BY <1>1, <1>2, <1>4, <2>0
  <2> QED
    BY <2>0, <2>1, <1>1, <1>6, Zenon
<1>9. Same(L[n + 1], Head(ch))
  BY <1>1, <1>6
<1>10. Left(L, wr, dh) - Taken(Head(ch)) + 1 = n + 1 /\ Left(L, wr, dh) >= Taken(Head(ch))
  BY <1>3, <1>4, <1>5
<1>11. wr.at = "send" => Same(L[Len(L)], wr.entry)
  BY Zenon DEF LeaderAt
<1> QED
  BY <1>5, <1>7, <1>8, <1>9, <1>10, <1>11, Zenon DEF LeaderAt, dh

\* The reader applies it (syncer.go:532-542).
LEMMA LeaderApplies ==
    ASSUME NEW L \in Seq(Entry), NEW c \in [Key -> Value \cup {None}], NEW wr \in WriterType,
           NEW ch \in Seq(Entry), NEW ap \in Entry, LeaderAt(L, c, wr, ch, ap)
    PROVE  LeaderAt(L, [c EXCEPT ![ap.key] = ap.val], wr, ch, NoEntry)
<1> DEFINE d == [c EXCEPT ![ap.key] = ap.val]
           n == Left(L, wr, ch)
<1>1. Len(L) \in Nat /\ Len(ch) \in Nat /\ Sending(wr) \in {0, 1}
  BY DEF Sending
<1>2. Taken(NoEntry) = 0 /\ Taken(ap) = 1 /\ ap # NoEntry
  BY NoEntryIsNone, Zenon DEF Taken
<1>3. n \in 1 .. Len(L)
  BY <1>1, <1>2 DEF Left, LeaderAt
<1>4. Same(L[n], ap)
  BY <1>2, Zenon DEF LeaderAt
<1>5. \A k \in Key : \/ c[k] = Replay(L, k)
                     \/ wr.at = "append" /\ wr.entry.key = k
                     \/ \E i \in n .. Len(L) : L[i].key = k
  BY <1>2, <1>3 DEF LeaderAt
<1>6. ap.key \in Key
  BY Zenon DEF Entry
<1>7. d[ap.key] = ap.val /\ \A k \in Key : k # ap.key => d[k] = c[k]
  BY <1>6, Zenon
<1> HIDE DEF d, n
<1>8. ASSUME NEW k \in Key
      PROVE  \/ d[k] = Replay(L, k)
             \/ wr.at = "append" /\ wr.entry.key = k
             \/ \E i \in n + 1 .. Len(L) : L[i].key = k
  <2>1. CASE k # ap.key
    <3>1. \A i \in n .. Len(L) : L[i].key = k => i \in n + 1 .. Len(L)
      BY <1>1, <1>3, <1>4, <2>1 DEF Same
    <3> QED
      BY <1>5, <1>7, <2>1, <3>1, Zenon
  <2>2. CASE k = ap.key /\ \A i \in n + 1 .. Len(L) : L[i].key # k
    <3>1. Replay(L, k) = L[n].val
      BY <1>3, <1>4, <2>2, LastWins, Zenon DEF Same
    <3> QED
      BY <1>4, <1>7, <2>2, <3>1, Zenon DEF Same
  <2> QED
    BY <2>1, <2>2, Zenon
<1>9. n >= 0 /\ n - 0 + 1 = n + 1
  BY <1>3
<1> QED
  BY <1>2, <1>8, <1>9, Zenon DEF LeaderAt, d, n

\* What the steps of followers and pushes leave alone.
LEMMA LeaderUntouched ==
    ASSUME RInv, PushOnlyStep, ~(\E w \in Writer : WriteStep(w)
              \/ \E k \in dep.keys, v \in Value \cup {None} : WriteCache(w, k, v)),
           ~TakeLogEntry, ~ApplyLogEntry
    PROVE  /\ cache'[Leader] = cache[Leader] /\ log'[Leader] = log[Leader]
           /\ UNCHANGED <<writer, logCh, applying, discarded>>
<1>1. \A f \in Follower : f # Leader
  BY NodeAssumption, Zenon
<1>2. UNCHANGED <<writer, logCh, applying, discarded>>
  BY Zenon DEF PushOnlyStep, Replicate, PushStep, PushCache, PushAppend, PushDone, PushAbandoned,
         ReplicateFails, writeVars, vars, moving
<1>3. \/ cache' = cache
      \/ \E f \in Follower, h \in Handler : cache' = Applied(f, push[<<f, h>>].entries[1])
  BY Zenon DEF PushOnlyStep, Replicate, PushStep, PushCache, PushAppend, PushDone, PushAbandoned,
         ReplicateFails, vars, moving
<1>4. \/ log' = log
      \/ \E f \in Follower, h \in Handler : log' = Appended(f, push[<<f, h>>].entries[1])
  BY Zenon DEF PushOnlyStep, Replicate, PushStep, PushCache, PushAppend, PushDone, PushAbandoned,
         ReplicateFails, vars, moving
<1>5. cache \in [Node -> [Key -> Value \cup {None}]] /\ log \in [Node -> Seq(Entry)]
      /\ Leader \in Node
  BY Zenon DEF RInv, LogsOK, Node
<1>6. cache'[Leader] = cache[Leader]
  BY <1>1, <1>3, <1>5, Zenon DEF Applied
<1>7. log'[Leader] = log[Leader]
  BY <1>1, <1>4, <1>5, Zenon DEF Appended
<1> QED
  BY <1>2, <1>6, <1>7, Zenon

\* Every step of a leader with one writer keeps the leader's invariant.
LEMMA LeaderStep ==
    ASSUME NEW w, Writer = {w}, RInv, NoPulls, LeaderInv(w), [Next]_vars
    PROVE  LeaderInv(w)'
<1> DEFINE L == log[Leader]
           c == cache[Leader]
           wr == writer[w]
<1> SUFFICES ASSUME Pushing', ~discarded'
             PROVE  LeaderAt(log'[Leader], cache'[Leader], writer'[w], logCh', applying')
  BY Zenon DEF LeaderInv
<1>1. Pushing /\ PushOnlyStep
  BY NoPullSteps, Zenon DEF Pushing, Next, vars
<1>2. ~discarded
  BY <1>1, Zenon DEF PushOnlyStep, WriteStep, WriteAppend, WriteSend, WriteCache,
     TakeLogEntry, ApplyLogEntry, Replicate, PushStep, PushCache, PushAppend, PushDone,
     PushAbandoned, ReplicateFails, vars, moving, writeVars
<1>3. LeaderAt(L, c, wr, logCh, applying)
  BY <1>1, <1>2, Zenon DEF LeaderInv
<1>4. /\ L \in Seq(Entry) /\ c \in [Key -> Value \cup {None}] /\ wr \in WriterType
      /\ logCh \in Seq(Entry) /\ applying \in Entry \cup {NoEntry}
      /\ wr.at # "idle" => wr.entry \in Entry
  BY Zenon DEF RInv, LogsOK, WritersOK, WriterType, Node
<1>5. /\ cache \in [Node -> [Key -> Value \cup {None}]] /\ log \in [Node -> Seq(Entry)]
      /\ Leader \in Node /\ w \in Writer /\ writer \in [Writer -> WriterType]
  BY Zenon DEF RInv, LogsOK, WritersOK, WriterType, Node
<1>6. ASSUME NEW k \in dep.keys, NEW v \in Value \cup {None}, WriteCache(w, k, v)
      PROVE  LeaderAt(log'[Leader], cache'[Leader], writer'[w], logCh', applying')
  <2> DEFINE e == [index |-> 0, key |-> k, val |-> v]
  <2>1. e \in Entry
    BY DeploymentType, Zenon DEF Entry, RInv
  <2>2. cache'[Leader] = [c EXCEPT ![e.key] = e.val] /\ log' = log /\ logCh' = logCh
        /\ applying' = applying /\ writer'[w] = [at |-> "append", entry |-> e] /\ wr.at = "idle"
    BY <1>5, <1>6, Zenon DEF WriteCache, Applied
  <2> HIDE DEF e, L, c, wr
  <2>3. LeaderAt(L, [c EXCEPT ![e.key] = e.val], [at |-> "append", entry |-> e], logCh, applying)
    BY <1>3, <1>4, <2>1, <2>2, LeaderWrites, Zenon
  <2> QED
    BY <2>2, <2>3, Zenon DEF L
<1>7. CASE WriteAppend(w)
  <2> DEFINE d == [index |-> Len(L) + 1, key |-> wr.entry.key, val |-> wr.entry.val]
             wn == [wr EXCEPT !.at = "send"]
  <2>1. wr.at = "append" /\ wr.entry \in Entry
    BY <1>4, <1>7, Zenon DEF WriteAppend
  <2>2. log'[Leader] = Append(L, d)
    BY <1>5, <1>7, <2>1, AppendedType DEF WriteAppend, RInv
  <2>3. writer'[w] = wn /\ UNCHANGED <<cache, logCh, applying>>
    BY <1>5, <1>7, Zenon DEF WriteAppend
  <2>4. Len(L) + 1 \in Nat
    BY <1>4
  <2> HIDE DEF L, c, wr
  <2>5. d \in Entry /\ Same(d, wr.entry)
    BY <2>1, <2>4, Zenon DEF Same, Entry
  <2>6. wn \in WriterType /\ wn.at = "send" /\ wn.entry = wr.entry
    BY <1>4, Zenon DEF WriterType
  <2> HIDE DEF d, wn
  <2>7. LeaderAt(Append(L, d), c, wn, logCh, applying)
    BY <1>3, <1>4, <2>1, <2>5, <2>6, LeaderAppends, Zenon
  <2> QED
    BY <2>2, <2>3, <2>7, Zenon DEF c
<1>8. CASE WriteSend(w)
  <2> DEFINE wn == [wr EXCEPT !.at = "idle"]
  <2>1. wr.at = "send" /\ wr.entry \in Entry
    BY <1>4, <1>8, Zenon DEF WriteSend
  <2>2. logCh' = Append(logCh, wr.entry)
    BY <1>8, Zenon DEF WriteSend
  <2>3. writer'[w] = wn /\ UNCHANGED <<cache, log, applying>>
    BY <1>5, <1>8, Zenon DEF WriteSend
  <2> HIDE DEF L, c, wr
  <2>4. wn \in WriterType /\ wn.at = "idle"
    BY <1>4, Zenon DEF WriterType
  <2> HIDE DEF wn
  <2>5. LeaderAt(L, c, wn, Append(logCh, wr.entry), applying)
    BY <1>3, <1>4, <2>1, <2>4, LeaderSends, Zenon
  <2> QED
    BY <2>2, <2>3, <2>5, Zenon DEF c, L
<1>9. CASE TakeLogEntry
  <2>1. applying = NoEntry /\ logCh # <<>> /\ applying' = Head(logCh) /\ logCh' = Tail(logCh)
        /\ UNCHANGED <<cache, log, writer>>
    BY <1>9, Zenon DEF TakeLogEntry
  <2> HIDE DEF L, c, wr
  <2>2. LeaderAt(L, c, wr, Tail(logCh), Head(logCh))
    BY <1>3, <1>4, <2>1, LeaderTakes, Zenon
  <2> QED
    BY <2>1, <2>2, Zenon DEF c, L, wr
<1>10. CASE ApplyLogEntry
  <2>1. applying \in Entry /\ applying' = NoEntry /\ UNCHANGED <<log, writer, logCh>>
    BY <1>4, <1>10, Zenon DEF ApplyLogEntry
  <2>2. cache'[Leader] = [c EXCEPT ![applying.key] = applying.val]
    BY <1>5, <1>10, Zenon DEF ApplyLogEntry, Applied
  <2> HIDE DEF L, c, wr
  <2>3. LeaderAt(L, [c EXCEPT ![applying.key] = applying.val], wr, logCh, NoEntry)
    BY <1>3, <1>4, <2>1, LeaderApplies, Zenon
  <2> QED
    BY <2>1, <2>2, <2>3, Zenon DEF L, wr
<1>11. CASE /\ ~(\E u \in Writer : WriteStep(u)
                    \/ \E k \in dep.keys, v \in Value \cup {None} : WriteCache(u, k, v))
            /\ ~TakeLogEntry /\ ~ApplyLogEntry
  BY <1>1, <1>3, <1>11, LeaderUntouched, Zenon
<1> QED
  BY <1>6, <1>7, <1>8, <1>9, <1>10, <1>11, Zenon DEF WriteStep

\* With one Set or Del at a time, the leader's cache agrees with its log
\* whenever the writes are through, pushes to the followers and the second
\* application through the channel interleaving as they may
\* (leader_follower_cluster.go:613-651, syncer.go:86-141, 514-542).
THEOREM LeaderMatches ==
    ASSUME NEW w, Writer = {w} PROVE Spec => []LeaderMatchesLog
<1>1. Init => LeaderInv(w)
  <2> SUFFICES ASSUME Init
               PROVE  LeaderAt(log[Leader], cache[Leader], writer[w], logCh, applying)
    BY Zenon DEF LeaderInv
  <2>1. log[Leader] = <<>> /\ writer[w].at = "idle" /\ logCh = <<>> /\ applying = NoEntry
        /\ \A k \in Key : cache[Leader][k] = None
    BY Zenon DEF Init, Node
  <2>2. \A k : Replay(<<>>, k) = None
    BY DEF Replay
  <2>3. Left(log[Leader], writer[w], logCh) = 0 /\ Taken(applying) = 0
    BY <2>1 DEF Left, Sending, Taken
  <2> QED
    BY <2>1, <2>2, <2>3 DEF LeaderAt
<1>2. RInv /\ NoPulls /\ LeaderInv(w) /\ [Next]_vars => LeaderInv(w)'
  BY LeaderStep, Zenon
<1>3. RInv /\ LeaderInv(w) => LeaderMatchesLog
  <2> SUFFICES ASSUME RInv, LeaderInv(w), Pushing, WritesDone, ~discarded, NEW k \in Key
               PROVE  cache[Leader][k] = Replay(log[Leader], k)
    BY Zenon DEF LeaderMatchesLog
  <2>1. LeaderAt(log[Leader], cache[Leader], writer[w], logCh, applying)
    BY Zenon DEF LeaderInv
  <2>2. writer[w].at = "idle" /\ logCh = <<>> /\ applying = NoEntry
    BY Zenon DEF WritesDone
  <2>3. log[Leader] \in Seq(Entry)
    BY Zenon DEF RInv, LogsOK, Node
  <2>4. Left(log[Leader], writer[w], logCh) = Len(log[Leader]) /\ Taken(applying) = 0
    BY <2>2, <2>3 DEF Left, Sending, Taken
  <2>5. Len(log[Leader]) - 0 + 1 .. Len(log[Leader]) = {}
    BY <2>3
  <2> QED
    BY <2>1, <2>2, <2>4, <2>5, Zenon DEF LeaderAt
<1> QED
  BY <1>1, <1>2, <1>3, AlwaysRInv, PTL DEF Spec
-----------------------------------------------------------------------------
(***************************************************************************)
(* A follower, with one push at a time.  Its cache c holds what the first  *)
(* r entries of the leader's log L leave.  While a push p goes through, it *)
(* sets out from the first entry again: a key among the first entries,     *)
(* those the push has applied, has the value they leave, and the others    *)
(* still have that of the first r.  No push is shorter than an earlier     *)
(* one: the log of the leader only grows, and max stays.                   *)
(***************************************************************************)
\* How many entries a push has applied to the cache.
Through(p) == p.size - Len(p.entries) + (IF p.cached THEN 1 ELSE 0)

Mixed(L, j, r, k) ==
    IF \E i \in 1 .. j : L[i].key = k
      THEN Replay(SubSeq(L, 1, j), k) ELSE Replay(SubSeq(L, 1, r), k)

FollowerAt(L, c, r, p, max) ==
    /\ r <= Len(L) /\ r <= max
    /\ p.at = "idle" => p = NoPush /\ \A k \in Key : c[k] = Replay(SubSeq(L, 1, r), k)
    /\ p.at = "apply" =>
          /\ p.size <= Len(L) /\ p.size <= max /\ r <= p.size /\ Len(p.entries) <= p.size
          /\ \A i \in DOMAIN p.entries : p.entries[i] = L[p.size - Len(p.entries) + i]
          /\ \A k \in Key : c[k] = Mixed(L, Through(p), r, k)

FollowerInv(f, h) ==
    Pushing => FollowerAt(log[Leader], cache[f], reached[f], push[<<f, h>>], dep.maxLogEntries)

\* How far a push can be.
LEMMA ThroughType ==
    ASSUME NEW p \in PushType, p.cached => p.entries # <<>>, Len(p.entries) <= p.size
    PROVE  /\ Through(p) \in 0 .. p.size
           /\ p.cached => Through(p) = p.size - Len(p.entries) + 1
           /\ ~p.cached => Through(p) = p.size - Len(p.entries)
<1>1. p.size \in Nat /\ p.entries \in Seq(Entry)
  BY Zenon DEF PushType
<1>2. CASE p.cached
  <2>1. Len(p.entries) \in Nat \ {0}
    BY <1>1, <1>2
  <2>2. Through(p) = p.size - Len(p.entries) + 1
    BY <1>2, Zenon DEF Through
  <2> QED
    BY <1>1, <1>2, <2>1, <2>2
<1>3. CASE ~p.cached
  <2>1. Len(p.entries) \in Nat
    BY <1>1
  <2>2. Through(p) = p.size - Len(p.entries) + 0
    BY <1>3, Zenon DEF Through
  <2> QED
    BY <1>1, <1>3, <2>1, <2>2
<1> QED
  BY <1>2, <1>3, Zenon

\* The leader's log grows under a push (syncer.go:86-130).
LEMMA FollowerSeesGrowth ==
    ASSUME NEW L \in Seq(Entry), NEW c, NEW r \in Nat, NEW p \in PushType, NEW max \in Nat,
           p.cached => p.entries # <<>>, FollowerAt(L, c, r, p, max), NEW e \in Entry
    PROVE  FollowerAt(Append(L, e), c, r, p, max)
<1> DEFINE M == Append(L, e)
<1>1. M \in Seq(Entry) /\ Len(M) = Len(L) + 1 /\ \A i \in 1 .. Len(L) : M[i] = L[i]
  OBVIOUS
<1>2. \A n \in 0 .. Len(L) : SubSeq(M, 1, n) = SubSeq(L, 1, n)
  BY PrefixStays, Zenon
<1> HIDE DEF M
<1>3. r <= Len(L) /\ r <= max /\ r \in 0 .. Len(L) /\ Len(L) \in Nat
  BY DEF FollowerAt
<1>4. r <= Len(M)
  BY <1>1, <1>3
<1>5. CASE p.at = "idle"
  BY <1>2, <1>3, <1>4, <1>5, Zenon DEF FollowerAt, M
<1>6. CASE p.at = "apply"
  <2>1. /\ p.size <= Len(L) /\ Len(p.entries) <= p.size /\ p.size \in Nat
        /\ p.entries \in Seq(Entry)
        /\ \A i \in DOMAIN p.entries : p.entries[i] = L[p.size - Len(p.entries) + i]
        /\ \A k \in Key : c[k] = Mixed(L, Through(p), r, k)
    BY <1>6, Zenon DEF FollowerAt, PushType
  <2>2. Through(p) \in 0 .. p.size
    BY <2>1, ThroughType, Zenon
  <2>3. Through(p) \in 0 .. Len(L)
    BY <1>3, <2>1, <2>2
  <2>4. \A i \in 1 .. Through(p) : M[i] = L[i]
    BY <1>1, <2>3
  <2>5. \A k \in Key : Mixed(M, Through(p), r, k) = Mixed(L, Through(p), r, k)
    BY <1>2, <1>3, <2>3, <2>4, Zenon DEF Mixed
  <2>6. \A i \in DOMAIN p.entries : p.size - Len(p.entries) + i \in 1 .. Len(L)
    BY <1>3, <2>1
  <2>7. \A i \in DOMAIN p.entries : p.entries[i] = M[p.size - Len(p.entries) + i]
    BY <1>1, <2>1, <2>6, Zenon
  <2>8. p.size <= Len(M)
    BY <1>1, <1>3, <2>1
  <2> QED
    BY <1>3, <1>4, <1>6, <2>1, <2>5, <2>7, <2>8, Zenon DEF FollowerAt, M
<1> QED
  BY <1>5, <1>6, Zenon DEF PushType

\* The entries of a push: the first ones, as many as there are or as fit.
LEMMA FirstEntries ==
    ASSUME NEW L \in Seq(Entry), Contiguous(L), NEW start \in Nat,
           NEW size \in Int, ~GetFromFails(L, start)
    PROVE  LET s == GetFrom(L, start, size)
           IN  start = 1 /\ size > 0 =>
               /\ s \in Seq(Entry)
               /\ \A i \in DOMAIN s : s[i] = L[i]
               /\ Len(s) = IF size > Len(L) THEN Len(L) ELSE size
<1> DEFINE s == GetFrom(L, start, size)
<1>2. /\ s \in Seq(Entry)
      /\ start >= 1
      /\ \A i \in DOMAIN s : start + i - 1 \in DOMAIN L /\ s[i] = L[start + i - 1]
      /\ \A i \in DOMAIN s : s[i].index = start + i - 1
      /\ Len(s) = IF start > Len(L) THEN 0
                  ELSE IF size <= 0 \/ start - 1 + size > Len(L)
                  THEN Len(L) - start + 1 ELSE size
  <2>1. Window(s, Entry, L, start, size)
    BY GetFromNumbers, Zenon
  <2> HIDE DEF s
  <2> QED
    BY <2>1, Zenon DEF Window
<1> HIDE DEF s
<1>3. L # <<>>
  BY Zenon DEF GetFromFails
<1>4. Len(L) >= 1 /\ Len(L) \in Nat
  BY <1>3
<1>5. start = 1 => \A i \in DOMAIN s : start + i - 1 = i
  BY <1>2
<1>6. start = 1 /\ size > 0 => Len(s) = IF size > Len(L) THEN Len(L) ELSE size
  BY <1>2, <1>4
<1> QED
  BY <1>2, <1>5, <1>6, Zenon DEF s

\* A push arrives (leader.go:272-328, syncer.go:440-511).
LEMMA FollowerReceives ==
    ASSUME NEW L \in Seq(Entry), Contiguous(L), NEW c, NEW r \in Nat, NEW max \in Nat \ {0},
           ~GetFromFails(L, 1), FollowerAt(L, c, r, NoPush, max)
    PROVE  LET s == GetFrom(L, 1, max)
           IN  FollowerAt(L, c, r,
                  [at |-> "apply", entries |-> s, cached |-> FALSE, waits |-> TRUE,
                   size |-> Len(s), upTo |-> Len(L)], max)
<1> DEFINE s == GetFrom(L, 1, max)
           p == [at |-> "apply", entries |-> s, cached |-> FALSE, waits |-> TRUE,
                 size |-> Len(s), upTo |-> Len(L)]
<1>1. 1 \in Nat /\ max \in Int /\ Len(L) \in Nat
  OBVIOUS
<1>2. /\ s \in Seq(Entry)
      /\ \A i \in DOMAIN s : s[i] = L[i]
      /\ Len(s) = IF max > Len(L) THEN Len(L) ELSE max
  BY <1>1, FirstEntries
<1> HIDE DEF s
<1>3. Len(s) <= Len(L) /\ Len(s) <= max /\ (r <= Len(L) /\ r <= max => r <= Len(s))
      /\ Len(s) \in Nat /\ Len(L) \in Nat
  BY <1>1, <1>2
<1>4. r <= Len(L) /\ r <= max /\ \A k \in Key : c[k] = Replay(SubSeq(L, 1, r), k)
  BY Zenon DEF FollowerAt, NoPush
<1>5. p.at = "apply" /\ p.entries = s /\ ~p.cached /\ p.size = Len(s)
  BY Zenon
<1> HIDE DEF p
<1>6. Through(p) = 0
  <2>1. Through(p) = Len(s) - Len(s) + 0
    BY <1>5, Zenon DEF Through
  <2> QED
    BY <1>3, <2>1
<1>7. \A k \in Key : c[k] = Mixed(L, Through(p), r, k)
  BY <1>4, <1>6 DEF Mixed
<1>8. \A i \in DOMAIN s : s[i] = L[Len(s) - Len(s) + i]
  <2> TAKE i \in DOMAIN s
  <2>1. Len(s) - Len(s) + i = i
    BY <1>2, <1>3
  <2> QED
    BY <1>2, <2>1, Zenon
<1>9. FollowerAt(L, c, r, p, max)
  BY <1>3, <1>4, <1>5, <1>7, <1>8, SMTT(30) DEF FollowerAt
<1> QED
  BY <1>9, Zenon DEF p, s

\* An entry of a push reaches the cache (syncer.go:283-291).
LEMMA FollowerCaches ==
    ASSUME NEW L \in Seq(Entry), NEW c \in [Key -> Value \cup {None}], NEW r \in Nat,
           NEW p \in PushType, NEW max \in Nat, p.entries # <<>>, ~p.cached,
           FollowerAt(L, c, r, p, max)
    PROVE  FollowerAt(L, [c EXCEPT ![p.entries[1].key] = p.entries[1].val], r,
                      [p EXCEPT !.cached = TRUE], max)
<1> DEFINE e == p.entries[1]
           d == [c EXCEPT ![e.key] = e.val]
           q == [p EXCEPT !.cached = TRUE]
           j == Through(p)
<1>1. p.at = "apply"
  BY DEF FollowerAt, PushType, NoPush
<1>2. /\ p.size <= Len(L) /\ p.size <= max /\ r <= p.size /\ Len(p.entries) <= p.size
      /\ r <= Len(L) /\ r <= max
      /\ \A i \in DOMAIN p.entries : p.entries[i] = L[p.size - Len(p.entries) + i]
      /\ \A k \in Key : c[k] = Mixed(L, j, r, k)
  BY <1>1, Zenon DEF FollowerAt
<1>3. p.size \in Nat /\ p.entries \in Seq(Entry) /\ Len(L) \in Nat
  BY DEF PushType
<1>4. Len(p.entries) \in Nat \ {0} /\ 1 \in DOMAIN p.entries /\ e \in Entry
  BY <1>3
<1>5. j = p.size - Len(p.entries)
  BY <1>2, ThroughType, Zenon
<1>6. q \in PushType /\ q.cached /\ q.at = p.at /\ q.entries = p.entries /\ q.size = p.size
  BY Zenon DEF PushType
<1> HIDE DEF q
<1>7. Through(q) = p.size - Len(p.entries) + 1
  BY <1>2, <1>6, ThroughType, Zenon
<1> HIDE DEF j
<1>8. j \in 0 .. Len(L) - 1 /\ e = L[j + 1] /\ Through(q) = j + 1
  BY <1>2, <1>3, <1>4, <1>5, <1>7
<1>9. e.key \in Key
  BY <1>4, Zenon DEF Entry
<1>10. d[e.key] = e.val /\ \A k \in Key : k # e.key => d[k] = c[k]
  BY <1>9, Zenon
<1> HIDE DEF d, e
<1>11. ASSUME NEW k \in Key PROVE d[k] = Mixed(L, j + 1, r, k)
  <2>1. Replay(SubSeq(L, 1, j + 1), k) =
           IF e.key = k THEN e.val ELSE Replay(SubSeq(L, 1, j), k)
    BY <1>8, PrefixGrows, Zenon
  <2>2. CASE e.key = k
    <3>1. \E i \in 1 .. j + 1 : L[i].key = k
      BY <1>8, <2>2
    <3> QED
      BY <1>10, <2>1, <2>2, <3>1, Zenon DEF Mixed
  <2>3. CASE e.key # k
    <3>1. (\E i \in 1 .. j + 1 : L[i].key = k) <=> \E i \in 1 .. j : L[i].key = k
      BY <1>8, <2>3
    <3>2. d[k] = Mixed(L, j, r, k)
      <4>1. d[k] = c[k]
        BY <1>10, <2>3, Zenon
      <4>2. c[k] = Mixed(L, j, r, k)
        BY <1>2, Zenon
      <4> QED
        BY <4>1, <4>2, Zenon
    <3>3. Mixed(L, j + 1, r, k) = Mixed(L, j, r, k)
      <4>1. CASE \E i \in 1 .. j : L[i].key = k
        BY <2>1, <2>3, <3>1, <4>1, Zenon DEF Mixed
      <4>2. CASE ~\E i \in 1 .. j : L[i].key = k
        BY <3>1, <4>2, Zenon DEF Mixed
      <4> QED
        BY <4>1, <4>2, Zenon
    <3> QED
      BY <3>2, <3>3, Zenon
  <2> QED
    BY <2>2, <2>3, Zenon
<1>12. FollowerAt(L, d, r, q, max)
  BY <1>1, <1>2, <1>6, <1>8, <1>11, Zenon DEF FollowerAt
<1> QED
  BY <1>12, Zenon DEF d, q, e

\* ... and the log (syncer.go:292-301).
LEMMA FollowerAppends ==
    ASSUME NEW L \in Seq(Entry), NEW c, NEW r \in Nat, NEW p \in PushType, NEW max \in Nat,
           p.entries # <<>>, p.cached, FollowerAt(L, c, r, p, max)
    PROVE  FollowerAt(L, c, r, [p EXCEPT !.cached = FALSE, !.entries = Tail(p.entries)], max)
<1> DEFINE q == [p EXCEPT !.cached = FALSE, !.entries = Tail(p.entries)]
<1>1. p.at = "apply"
  BY DEF FollowerAt, PushType, NoPush
<1>2. /\ p.size <= Len(L) /\ p.size <= max /\ r <= p.size /\ Len(p.entries) <= p.size
      /\ r <= Len(L) /\ r <= max
      /\ \A i \in DOMAIN p.entries : p.entries[i] = L[p.size - Len(p.entries) + i]
      /\ \A k \in Key : c[k] = Mixed(L, Through(p), r, k)
  BY <1>1, Zenon DEF FollowerAt
<1>3. p.size \in Nat /\ p.entries \in Seq(Entry) /\ Len(L) \in Nat
  BY DEF PushType
<1>4. Tail(p.entries) \in Seq(Entry) /\ Len(Tail(p.entries)) = Len(p.entries) - 1
      /\ Len(p.entries) \in Nat \ {0}
      /\ \A i \in 1 .. Len(p.entries) - 1 : Tail(p.entries)[i] = p.entries[i + 1]
  BY <1>3
<1>5. q \in PushType /\ ~q.cached /\ q.at = p.at /\ q.entries = Tail(p.entries)
      /\ q.size = p.size
  BY <1>4, Zenon DEF PushType
<1> HIDE DEF q
<1>6. Len(q.entries) <= q.size
  BY <1>2, <1>3, <1>4, <1>5
<1>7. Through(q) = q.size - Len(q.entries) /\ Through(p) = p.size - Len(p.entries) + 1
  BY <1>2, <1>5, <1>6, ThroughType, Zenon
<1>8. Through(q) = Through(p)
  BY <1>3, <1>4, <1>5, <1>7
<1>9. \A i \in DOMAIN q.entries : q.entries[i] = L[q.size - Len(q.entries) + i]
  <2> TAKE i \in DOMAIN q.entries
  <2>1. i \in 1 .. Len(p.entries) - 1
    BY <1>4, <1>5
  <2>2. i + 1 \in DOMAIN p.entries
    BY <1>3, <1>4, <2>1
  <2>3. p.size - Len(p.entries) + (i + 1) = q.size - Len(q.entries) + i
    <3>1. Len(q.entries) = Len(p.entries) - 1 /\ q.size = p.size
      BY <1>4, <1>5, Zenon
    <3>2. p.size \in Nat /\ Len(p.entries) \in Nat /\ i \in Nat
      BY <1>3, <1>4, <2>1
    <3>3. \A a, b, n \in Nat : a - b + (n + 1) = a - (b - 1) + n
      OBVIOUS
    <3>4. p.size - Len(p.entries) + (i + 1) = p.size - (Len(p.entries) - 1) + i
      BY <3>2, <3>3, Zenon
    <3> QED
      BY <3>1, <3>4, Zenon
  <2> QED
    BY <1>2, <1>4, <1>5, <2>1, <2>2, <2>3, Zenon
<1>10. FollowerAt(L, c, r, q, max)
  BY <1>1, <1>2, <1>5, <1>6, <1>8, <1>9, Zenon DEF FollowerAt
<1> QED
  BY <1>10, Zenon DEF q

\* A push has gone through.
LEMMA FollowerDone ==
    ASSUME NEW L \in Seq(Entry), NEW c, NEW r \in Nat, NEW p \in PushType, NEW max \in Nat,
           p.cached => p.entries # <<>>, p.at = "apply", p.entries = <<>>,
           FollowerAt(L, c, r, p, max)
    PROVE  FollowerAt(L, c, IF p.size > r THEN p.size ELSE r, NoPush, max)
<1>1. p.size <= Len(L) /\ p.size <= max /\ r <= p.size /\ p.size \in Nat /\ Len(L) \in Nat
      /\ \A k \in Key : c[k] = Mixed(L, Through(p), r, k)
  BY DEF FollowerAt, PushType
<1>2. (IF p.size > r THEN p.size ELSE r) = p.size
  BY <1>1
<1>3. Through(p) = p.size
  <2>1. Len(p.entries) = 0
    OBVIOUS
  <2>2. Len(p.entries) <= p.size
    BY <1>1, <2>1
  <2>3. Through(p) = p.size - Len(p.entries)
    BY <2>2, ThroughType, Zenon
  <2> QED
    BY <1>1, <2>1, <2>3
<1>4. ASSUME NEW k \in Key PROVE c[k] = Replay(SubSeq(L, 1, p.size), k)
  <2>1. CASE \E i \in 1 .. p.size : L[i].key = k
    BY <1>1, <1>3, <2>1, Zenon DEF Mixed
  <2>2. CASE ~(\E i \in 1 .. p.size : L[i].key = k)
    <3>1. c[k] = Replay(SubSeq(L, 1, r), k)
      BY <1>1, <1>3, <2>2, Zenon DEF Mixed
    <3>2. \A n \in 0 .. p.size : Replay(SubSeq(L, 1, n), k) = None
      <4> TAKE n \in 0 .. p.size
      <4>1. n \in 0 .. Len(L)
        BY <1>1
      <4>2. SubSeq(L, 1, n) \in Seq(Entry) /\ Len(SubSeq(L, 1, n)) = n
            /\ \A i \in 1 .. n : SubSeq(L, 1, n)[i] = L[i]
        BY <4>1, Prefix, Zenon
      <4>3. \A i \in 1 .. n : L[i].key # k
        BY <1>1, <2>2
      <4> QED
        BY <4>2, <4>3, NoneWithout, Zenon
    <3> QED
      BY <1>1, <3>1, <3>2
  <2> QED
    BY <2>1, <2>2, Zenon
<1> QED
  BY <1>1, <1>2, <1>4, Zenon DEF FollowerAt, NoPush

\* What a follower's invariant is about when neither the leader's log nor
\* the follower moves.
LEMMA FollowerUntouched ==
    ASSUME NEW f \in Follower, NEW h, FollowerInv(f, h), [Next]_vars,
           log'[Leader] = log[Leader], cache'[f] = cache[f], reached'[f] = reached[f],
           push'[<<f, h>>] = push[<<f, h>>]
    PROVE  FollowerInv(f, h)'
BY Zenon DEF FollowerInv, Pushing, Next, vars

\* Every step keeps the invariant of every follower with one handler.
LEMMA FollowerStep ==
    ASSUME NEW h, Handler = {h}, NEW f \in Follower, RInv, NoPulls, FollowerInv(f, h), [Next]_vars
    PROVE  FollowerInv(f, h)'
<1> DEFINE L == log[Leader]
           c == cache[f]
           r == reached[f]
           p == push[<<f, h>>]
           max == dep.maxLogEntries
<1> SUFFICES ASSUME Pushing' PROVE FollowerInv(f, h)'
  BY Zenon DEF FollowerInv
<1>1. Pushing /\ PushOnlyStep /\ dep' = dep
  BY NoPullSteps, Zenon DEF Pushing, Next, vars
<1>2. FollowerAt(L, c, r, p, max)
  BY <1>1, Zenon DEF FollowerInv
<1>3. /\ L \in Seq(Entry) /\ Contiguous(L) /\ c \in [Key -> Value \cup {None}] /\ r \in Nat
      /\ p \in PushType /\ (p.cached => p.entries # <<>>)
  BY Zenon DEF RInv, LogsOK, StatusOK, PushesOK, Node, Slot
<1>4. max \in Nat \ {0}
  BY DeploymentType, Zenon DEF RInv
<1>5. /\ cache \in [Node -> [Key -> Value \cup {None}]] /\ log \in [Node -> Seq(Entry)]
      /\ Leader \in Node /\ f \in Node /\ f # Leader /\ <<f, h>> \in Slot
      /\ push \in [Slot -> PushType] /\ reached \in [Follower -> Nat]
      /\ Follower \subseteq Node
  BY NodeAssumption, Zenon DEF RInv, LogsOK, StatusOK, PushesOK, Node, Slot
<1>6. ASSUME NEW w \in Writer, NEW k \in dep.keys, NEW v \in Value \cup {None}, WriteCache(w, k, v)
      PROVE  FollowerInv(f, h)'
  <2>1. cache'[f] = cache[f]
    BY <1>5, <1>6, Zenon DEF WriteCache, Applied
  <2> QED
    BY <1>6, <2>1, FollowerUntouched, Zenon DEF WriteCache
<1>7. ASSUME NEW w \in Writer, WriteAppend(w) PROVE FollowerInv(f, h)'
  <2> DEFINE e == writer[w].entry
             d == [index |-> Len(L) + 1, key |-> e.key, val |-> e.val]
  <2>1. e \in Entry
    BY <1>7, Zenon DEF WriteAppend, RInv, WritersOK
  <2>2. log'[Leader] = Append(L, d)
    BY <1>5, <1>7, <2>1, AppendedType DEF WriteAppend, RInv
  <2>3. cache'[f] = c /\ reached'[f] = r /\ push'[<<f, h>>] = p
    BY <1>7, Zenon DEF WriteAppend
  <2>4. Len(L) + 1 \in Nat
    BY <1>3
  <2> HIDE DEF e, L, c, r, p, max
  <2>5. d \in Entry
    BY <2>1, <2>4, Zenon DEF Entry
  <2> HIDE DEF d
  <2>6. FollowerAt(Append(L, d), c, r, p, max)
    BY <1>2, <1>3, <1>4, <2>5, FollowerSeesGrowth, Zenon
  <2> QED
    BY <1>1, <2>2, <2>3, <2>6, Zenon DEF FollowerInv, max
<1>8. ASSUME NEW w \in Writer, WriteSend(w) PROVE FollowerInv(f, h)'
  BY <1>8, FollowerUntouched, Zenon DEF WriteSend
<1>9. CASE TakeLogEntry
  BY <1>9, FollowerUntouched, Zenon DEF TakeLogEntry
<1>10. CASE ApplyLogEntry
  <2>1. cache'[f] = cache[f]
    BY <1>5, <1>10, Zenon DEF ApplyLogEntry, Applied
  <2> QED
    BY <1>10, <2>1, FollowerUntouched, Zenon DEF ApplyLogEntry
<1>11. CASE Replicate(f, h)
  <2> DEFINE s == GetFrom(L, 1, max)
             q == [at |-> "apply", entries |-> s, cached |-> FALSE, waits |-> TRUE,
                   size |-> Len(s), upTo |-> Len(L)]
  <2>1. p = NoPush /\ ~GetFromFails(L, 1) /\ push'[<<f, h>>] = q
        /\ UNCHANGED <<cache, log, reached>>
    BY <1>5, <1>11, Zenon DEF Replicate
  <2>2. FollowerAt(L, c, r, q, max)
    <3> HIDE DEF L, c, r, p, max
    <3> QED
      BY <1>2, <1>3, <1>4, <2>1, FollowerReceives, Zenon
  <2> QED
    BY <1>1, <2>1, <2>2, Zenon DEF FollowerInv
<1>12. CASE PushCache(f, h)
  <2> DEFINE q == [p EXCEPT !.cached = TRUE]
             d == [c EXCEPT ![p.entries[1].key] = p.entries[1].val]
  <2>1. p.entries # <<>> /\ ~p.cached /\ push'[<<f, h>>] = q /\ UNCHANGED <<log, reached>>
    BY <1>5, <1>12, Zenon DEF PushCache
  <2>2. cache'[f] = d
    BY <1>5, <1>12, Zenon DEF PushCache, Applied
  <2>3. FollowerAt(L, d, r, q, max)
    <3> HIDE DEF L, c, r, p, max
    <3> QED
      BY <1>2, <1>3, <1>4, <2>1, FollowerCaches, Zenon
  <2> QED
    BY <1>1, <2>1, <2>2, <2>3, Zenon DEF FollowerInv
<1>13. CASE PushAppend(f, h)
  <2> DEFINE q == [p EXCEPT !.cached = FALSE, !.entries = Tail(p.entries)]
  <2>1. p.cached /\ UNCHANGED <<cache, reached>>
    BY <1>13, Zenon DEF PushAppend
  <2>2. push'[<<f, h>>] = q
    BY <1>5, <1>13, Zenon DEF PushAppend, PushType
  <2>3. log'[Leader] = L
    BY <1>5, <1>13, Zenon DEF PushAppend, Appended
  <2>4. FollowerAt(L, c, r, q, max)
    <3> HIDE DEF L, c, r, p, max
    <3> QED
      BY <1>2, <1>3, <1>4, <2>1, FollowerAppends, Zenon
  <2> QED
    BY <1>1, <2>1, <2>2, <2>3, <2>4, Zenon DEF FollowerInv
<1>14. CASE PushDone(f, h)
  <2> DEFINE m == IF p.size > r THEN p.size ELSE r
  <2>1. p.at = "apply" /\ p.entries = <<>> /\ push'[<<f, h>>] = NoPush
        /\ reached'[f] = m /\ UNCHANGED <<cache, log>>
    BY <1>5, <1>14, Zenon DEF PushDone
  <2>2. FollowerAt(L, c, m, NoPush, max)
    <3> HIDE DEF L, c, r, p, max
    <3> QED
      BY <1>2, <1>3, <1>4, <2>1, FollowerDone, Zenon
  <2> QED
    BY <1>1, <2>1, <2>2, Zenon DEF FollowerInv
<1>15. CASE PushAbandoned(f, h)
  <2> DEFINE q == [p EXCEPT !.waits = FALSE]
  <2>1. p.waits /\ push'[<<f, h>>] = q /\ UNCHANGED <<cache, log, reached>>
    BY <1>5, <1>15, Zenon DEF PushAbandoned
  <2>2. p.at = "apply"
    BY <1>2, <1>3, <2>1 DEF FollowerAt, NoPush, PushType
  <2>3. FollowerAt(L, c, r, q, max)
    <3> HIDE DEF L, c, r, p, max
    <3>1. q.at = p.at /\ q.entries = p.entries /\ q.size = p.size /\ q.cached = p.cached
      BY <1>3, Zenon DEF PushType
    <3>2. Through(q) = Through(p)
      BY <3>1, Zenon DEF Through
    <3> HIDE DEF q
    <3> QED
      BY <1>2, <2>2, <3>1, <3>2, Zenon DEF FollowerAt
  <2> QED
    BY <1>1, <2>1, <2>3, Zenon DEF FollowerInv
<1>16. ASSUME NEW g \in Follower, g # f,
              Replicate(g, h) \/ PushStep(g, h) \/ PushAbandoned(g, h)
       PROVE  FollowerInv(f, h)'
  <2>0. <<g, h>> # <<f, h>>
    BY <1>16, Zenon
  <2>1. cache'[f] = cache[f]
    BY <1>5, <1>16, Zenon
       DEF Replicate, PushStep, PushCache, PushAppend, PushDone, PushAbandoned, Applied
  <2>2. log'[Leader] = log[Leader]
    BY <1>5, <1>16, NodeAssumption, Zenon
       DEF Replicate, PushStep, PushCache, PushAppend, PushDone, PushAbandoned, Appended
  <2>3. push'[<<f, h>>] = push[<<f, h>>]
    BY <1>5, <1>16, <2>0, Zenon
       DEF Replicate, PushStep, PushCache, PushAppend, PushDone, PushAbandoned
  <2>4. reached'[f] = reached[f]
    BY <1>5, <1>16, Zenon
       DEF Replicate, PushStep, PushCache, PushAppend, PushDone, PushAbandoned
  <2> QED
    BY <2>1, <2>2, <2>3, <2>4, FollowerUntouched, Zenon
<1>17. ASSUME NEW g \in Follower, ReplicateFails(g) PROVE FollowerInv(f, h)'
  BY <1>17, FollowerUntouched, Zenon DEF ReplicateFails
<1>18. CASE UNCHANGED vars
  BY <1>18, FollowerUntouched, Zenon DEF vars, moving
<1> QED
  BY <1>1, <1>6, <1>7, <1>8, <1>9, <1>10, <1>11, <1>12, <1>13, <1>14, <1>15, <1>16, <1>17,
     <1>18, Zenon
     DEF PushOnlyStep, WriteStep, PushStep

\* With one push at a time per follower, a follower whose push is through
\* holds what a prefix of the leader's log leaves, no shorter than any push
\* it has applied, whatever answers and calls were lost
\* (leader.go:238-328, syncer.go:283-301).
THEOREM FollowerPrefix ==
    ASSUME NEW h, Handler = {h} PROVE Spec => []FollowerHoldsPrefix
<1> DEFINE FInv == \A f \in Follower : FollowerInv(f, h)
<1>1. Init => FInv
  <2> SUFFICES ASSUME Init, NEW f \in Follower
               PROVE  FollowerAt(log[Leader], cache[f], reached[f], push[<<f, h>>],
                                 dep.maxLogEntries)
    BY Zenon DEF FollowerInv
  <2>1. log[Leader] = <<>> /\ reached[f] = 0 /\ push[<<f, h>>] = NoPush
        /\ \A k \in Key : cache[f][k] = None
    BY Zenon DEF Init, Node, Slot
  <2>2. \A k : Replay(SubSeq(<<>>, 1, 0), k) = None
    <3>1. <<>> \in Seq(Entry) /\ SubSeq(<<>>, 1, 0) = <<>> /\ Len(<<>>) = 0
      OBVIOUS
    <3> QED
      BY <3>1 DEF Replay
  <2>3. dep.maxLogEntries \in Nat
    BY DeploymentType, Zenon DEF Init
  <2>4. NoPush.at = "idle"
    BY Zenon DEF NoPush
  <2> QED
    BY <2>1, <2>2, <2>3, <2>4, SMTT(30) DEF FollowerAt
<1>2. RInv /\ NoPulls /\ FInv /\ [Next]_vars => FInv'
  BY FollowerStep, Zenon
<1>3. RInv /\ FInv => FollowerHoldsPrefix
  <2> SUFFICES ASSUME RInv, FInv, Pushing, NEW f \in Follower, push[<<f, h>>] = NoPush
               PROVE  \E n \in reached[f] .. Len(log[Leader]) :
                         \A k \in Key : cache[f][k] = Replay(SubSeq(log[Leader], 1, n), k)
    BY Zenon DEF FollowerHoldsPrefix
  <2>1. FollowerAt(log[Leader], cache[f], reached[f], NoPush, dep.maxLogEntries)
    BY Zenon DEF FollowerInv
  <2>2. reached[f] <= Len(log[Leader])
        /\ \A k \in Key : cache[f][k] = Replay(SubSeq(log[Leader], 1, reached[f]), k)
    BY <2>1, Zenon DEF FollowerAt, NoPush
  <2>3. reached[f] \in Nat /\ Len(log[Leader]) \in Nat
    BY DEF RInv, StatusOK, LogsOK, Node
  <2>4. reached[f] \in reached[f] .. Len(log[Leader])
    BY <2>2, <2>3
  <2> QED
    BY <2>2, <2>4, Zenon
<1> HIDE DEF FInv
<1> QED
  BY <1>1, <1>2, <1>3, AlwaysRInv, PTL DEF Spec
=============================================================================
