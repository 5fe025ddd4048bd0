----------------------------- MODULE Replication -----------------------------
(***************************************************************************)
(* Replication between the leader and the followers of a                   *)
(* LeaderFollowerCluster, with roles fixed: Set and Del at the leader      *)
(* (leader_follower_cluster.go), the MemorySyncer of every node with its   *)
(* log channel and HTTP handlers (syncer.go), the pushes of                *)
(* LeaderNodeImpl.ReplicateEntries, and the pulls of FullSync and          *)
(* IncrementalSync, which followers start and which AddFollower starts     *)
(* from the leader's side (leader.go, follower.go).  A cache write and a   *)
(* log append are separate critical sections everywhere, so goroutines     *)
(* interleave between them.  A value None stands for an absent key, and an *)
(* entry with value None for a Del.  Expirations and terms (always 1) are  *)
(* left out.                                                               *)
(***************************************************************************)
EXTENDS LogOps, FiniteSets

CONSTANTS
    Leader, Follower,  \* the nodes
    Key, Value, None,
    Writer,            \* goroutines that call Set and Del at the leader
    Handler,           \* bound: /replication/receive handlers of a follower at once
    Deployments

\* What a deployment fixes.
Deployment ==
    [calls : SUBSET {"push", "full", "incremental", "add"},  \* that are made
     joined : SUBSET Follower,          \* the followers whose AddFollower has completed
     keys : SUBSET Key,                 \* that are written
     channelSize : Nat,                 \* capacity of logCh
     maxLogEntries : Nat \ {0}, maxRetries : Nat \ {0},
     maxWrites : Nat,                   \* bound on the writes
     maxLog : Nat,                      \* bound on the length of a log
     faults : BOOLEAN]                  \* may requests and answers get lost or time out

ASSUME NodeAssumption == Leader \notin Follower
ASSUME NoneAssumption == None \notin Key \cup Value
ASSUME DeploymentAssumption == Deployments \subseteq Deployment

VARIABLES
    dep,               \* the deployment
    cache, log,        \* localCache and log of every node
    writer, written,   \* where each Set or Del is; how many there were
    logCh, applying,   \* the leader's channel; the entry its reader has taken
    discarded,         \* history: an entry did not fit into the channel
    reached,           \* history: the longest batch a follower applied to its end
    followers, status, \* l.followers and l.followerStatus
    push,              \* the batches being applied by receive handlers
    pull,              \* the syncs in progress, by <<who pulls, from whom>>
    syncState          \* f.syncState

writeVars == <<writer, written, logCh, applying, discarded>>
moving == <<cache, log, writeVars, followers, status, push, pull, syncState, reached>>
vars == <<dep, moving>>

Node == {Leader} \cup Follower
Slot == Follower \X Handler
\* A follower pulls from the leader, and the leader from a follower it adds.
Pair == ({Leader} \X Follower) \cup (Follower \X {Leader})

Entry == [index : Nat, key : Key, val : Value \cup {None}]
NoEntry == [index |-> 0, key |-> None, val |-> None]
State == {"Normal", "Syncing", "OutOfSync"}

\* A batch being applied: the entries left, whether the first of them is in
\* the cache but not yet in the log, and whether the caller still waits; its
\* size and the length of the leader's log when it was read (history).
NoPush == [at |-> "idle", entries |-> <<>>, cached |-> FALSE, waits |-> FALSE,
           size |-> 0, upTo |-> 0]
NoPull == [at |-> "idle", entries |-> <<>>, cached |-> FALSE,
           first |-> 0, from |-> 0, next |-> 0, try |-> 0]

\* NewLeaderFollowerCluster for every node, and Joined added to the leader.
Init ==
    /\ dep \in Deployments
    /\ cache = [n \in Node |-> [k \in Key |-> None]]
    /\ log = [n \in Node |-> <<>>]
    /\ writer = [w \in Writer |-> [at |-> "idle", entry |-> NoEntry]]
    /\ written = 0
    /\ logCh = <<>> /\ applying = NoEntry /\ discarded = FALSE
    /\ followers = dep.joined
    /\ status = [f \in dep.joined |-> "Normal"]
    /\ push = [s \in Slot |-> NoPush]
    /\ pull = [p \in Pair |-> NoPull]
    /\ syncState = [f \in Follower |-> "OutOfSync"]
    /\ reached = [f \in Follower |-> 0]
-----------------------------------------------------------------------------
(***************************************************************************)
(* Set and Del at the leader: the local cache, the log, the channel.       *)
(***************************************************************************)
\* applyEntryToLocal on the cache of node n.
Applied(n, e) == [cache EXCEPT ![n][e.key] = e.val]
Appended(n, e) == [log EXCEPT ![n] = AppendEntry(log[n], e)]
HasRoom(n) == Len(log[n]) < dep.maxLog

WriteCache(w, k, v) ==
    LET e == [index |-> 0, key |-> k, val |-> v]
    IN  /\ writer[w].at = "idle" /\ written < dep.maxWrites
        /\ cache' = Applied(Leader, e)
        /\ writer' = [writer EXCEPT ![w] = [at |-> "append", entry |-> e]]
        /\ written' = written + 1
        /\ UNCHANGED <<log, logCh, applying, discarded, followers, status, push, pull, syncState, reached>>

\* A write that records a Set and forgets to record a Del.
WriteAppendSetOnly(w) ==
    /\ writer[w].at = "append" /\ HasRoom(Leader)
    /\ log' = IF writer[w].entry.val = None THEN log
              ELSE Appended(Leader, writer[w].entry)
    /\ writer' = [writer EXCEPT ![w].at = "send"]
    /\ UNCHANGED <<cache, written, logCh, applying, discarded, followers, status,
                   push, pull, syncState, reached>>

\* RecordSetOperation and RecordDelOperation: the append ...
WriteAppend(w) ==
    /\ writer[w].at = "append" /\ HasRoom(Leader)
    /\ log' = Appended(Leader, writer[w].entry)
    /\ writer' = [writer EXCEPT ![w].at = "send"]
    /\ UNCHANGED <<cache, written, logCh, applying, discarded, followers, status,
                   push, pull, syncState, reached>>

\* ... and the send, which does not wait for room.
WriteSend(w) ==
    /\ writer[w].at = "send"
    /\ writer' = [writer EXCEPT ![w].at = "idle"]
    /\ IF Len(logCh) < dep.channelSize
         THEN logCh' = Append(logCh, writer[w].entry) /\ UNCHANGED discarded
         ELSE discarded' = TRUE /\ UNCHANGED logCh
    /\ UNCHANGED <<cache, log, written, applying, followers, status, push, pull, syncState, reached>>

\* processLogEntries takes an entry and applies it once more.
TakeLogEntry ==
    /\ applying = NoEntry /\ logCh # <<>>
    /\ applying' = Head(logCh) /\ logCh' = Tail(logCh)
    /\ UNCHANGED <<cache, log, writer, written, discarded, followers, status,
                   push, pull, syncState, reached>>

ApplyLogEntry ==
    /\ applying # NoEntry
    /\ cache' = Applied(Leader, applying)
    /\ applying' = NoEntry
    /\ UNCHANGED <<log, writer, written, logCh, discarded, followers, status,
                   push, pull, syncState, reached>>
-----------------------------------------------------------------------------
(***************************************************************************)
(* ReplicateNow: ReplicateEntries starts a goroutine per follower, which   *)
(* posts the first MaxLogEntries entries of the log, from index 1 again    *)
(* each time, and waits for the answer.                                    *)
(***************************************************************************)
Set(f, state) == [g \in DOMAIN status \cup {f} |-> IF g = f THEN state ELSE status[g]]

\* The batch reaches the follower's /replication/receive handler, or it is
\* lost on the way and the goroutine sees an error.
Replicate(f, h) ==
    /\ "push" \in dep.calls /\ f \in followers
    /\ ~GetFromFails(log[Leader], 1)
    /\ push[<<f, h>>] = NoPush
    /\ LET s == GetFrom(log[Leader], 1, dep.maxLogEntries)
       IN  push' = [push EXCEPT ![<<f, h>>] =
                      [at |-> "apply", entries |-> s, cached |-> FALSE, waits |-> TRUE,
                       size |-> Len(s), upTo |-> Len(log[Leader])]]
    /\ UNCHANGED <<cache, log, writeVars, reached, followers, status, pull, syncState>>

ReplicateFails(f) ==
    /\ "push" \in dep.calls /\ f \in followers /\ dep.faults
    /\ ~GetFromFails(log[Leader], 1)
    /\ status' = Set(f, "OutOfSync")
    /\ UNCHANGED <<cache, log, writeVars, reached, followers, push, pull, syncState>>

\* ApplySync: the cache first, then the log, entry after entry.
PushCache(f, h) ==
    LET p == push[<<f, h>>]
    IN  /\ p.entries # <<>> /\ ~p.cached
        /\ cache' = Applied(f, p.entries[1])
        /\ push' = [push EXCEPT ![<<f, h>>].cached = TRUE]
        /\ UNCHANGED <<log, writeVars, reached, followers, status, pull, syncState>>

PushAppend(f, h) ==
    LET p == push[<<f, h>>]
    IN  /\ p.cached /\ HasRoom(f)
        /\ log' = Appended(f, p.entries[1])
        /\ push' = [push EXCEPT ![<<f, h>>].cached = FALSE, ![<<f, h>>].entries = Tail(@)]
        /\ UNCHANGED <<cache, writeVars, reached, followers, status, pull, syncState>>

\* The answer: a goroutine that still waits notes that the follower is in
\* step, without asking whether it is still one.
PushDone(f, h) ==
    LET p == push[<<f, h>>]
    IN  /\ p.at = "apply" /\ p.entries = <<>>
        /\ push' = [push EXCEPT ![<<f, h>>] = NoPush]
        /\ status' = IF p.waits THEN Set(f, "Normal") ELSE status
        /\ reached' = [reached EXCEPT ![f] = IF p.size > @ THEN p.size ELSE @]
        /\ UNCHANGED <<cache, log, writeVars, followers, pull, syncState>>

\* A handler that stops when its caller is gone.
PushAbandonedHalfway(f, h) ==
    /\ push[<<f, h>>].waits /\ dep.faults
    /\ push' = [push EXCEPT ![<<f, h>>] = NoPush]
    /\ status' = Set(f, "OutOfSync")
    /\ UNCHANGED <<cache, log, writeVars, reached, followers, pull, syncState>>

\* The caller's context ends or the connection breaks; the handler goes on.
PushAbandoned(f, h) ==
    /\ push[<<f, h>>].waits /\ dep.faults
    /\ push' = [push EXCEPT ![<<f, h>>].waits = FALSE]
    /\ status' = Set(f, "OutOfSync")
    /\ UNCHANGED <<cache, log, writeVars, reached, followers, pull, syncState>>
-----------------------------------------------------------------------------
(***************************************************************************)
(* syncWithRetries and sendSyncRequest at the puller p[1], and             *)
(* HandleSyncRequest at the peer p[2].                                     *)
(***************************************************************************)
Begin(p, first) ==
    [pull EXCEPT ![p] = [NoPull EXCEPT !.at = "send", !.first = first, !.from = first,
                                       !.try = 1]]

SyncFromLeader(f) ==
    /\ "incremental" \in dep.calls /\ pull[<<f, Leader>>].at = "idle"
    /\ pull' = Begin(<<f, Leader>>, LastIndex(log[f]))
    /\ syncState' = [syncState EXCEPT ![f] = "Syncing"]
    /\ UNCHANGED <<cache, log, writeVars, reached, followers, status, push>>

RequestFullSync(f) ==
    /\ "full" \in dep.calls /\ pull[<<f, Leader>>].at = "idle"
    /\ pull' = Begin(<<f, Leader>>, 0)
    /\ syncState' = [syncState EXCEPT ![f] = "Syncing"]
    /\ UNCHANGED <<cache, log, writeVars, reached, followers, status, push>>

\* AddFollower: its goroutine runs the leader's FullSync against the follower.
AddFollower(f) ==
    /\ "add" \in dep.calls /\ f \notin followers
    /\ pull[<<Leader, f>>].at = "idle"
    /\ followers' = followers \cup {f}
    /\ status' = Set(f, "OutOfSync")
    /\ pull' = Begin(<<Leader, f>>, 0)
    /\ UNCHANGED <<cache, log, writeVars, reached, push, syncState>>

RemoveFollower(f) ==
    /\ "add" \in dep.calls /\ f \in followers
    /\ followers' = followers \ {f}
    /\ status' = [g \in DOMAIN status \ {f} |-> status[g]]
    /\ UNCHANGED <<cache, log, writeVars, reached, push, pull, syncState>>

\* How a sync ends: f.syncState for a follower's, followerStatus (when it
\* succeeded) for AddFollower's.
Finish(p, ok) ==
    /\ pull' = [pull EXCEPT ![p] = NoPull]
    /\ syncState' = IF p[1] = Leader THEN syncState
                    ELSE [syncState EXCEPT ![p[1]] = IF ok THEN "Normal" ELSE "OutOfSync"]
    /\ status' = IF p[1] = Leader /\ ok THEN Set(p[2], "Normal") ELSE status

\* HandleSyncRequest reads the entries after the index in the request ...
PullRead(p) ==
    LET peer == log[p[2]]
        fails == GetFromFails(peer, pull[p].from + 1)
        s == IF fails THEN <<>> ELSE GetFrom(peer, pull[p].from + 1, dep.maxLogEntries)
    IN  /\ pull[p].at = "send" /\ ~(fails /\ pull[p].from > 0)
        /\ pull' = [pull EXCEPT ![p].at = IF s = <<>> THEN "last" ELSE "apply",
                                ![p].entries = s, ![p].next = LastIndex(s)]
        /\ UNCHANGED <<cache, log, writeVars, reached, followers, status, push, syncState>>

\* ... and, when there are none, the last index of the log, in a critical
\* section of its own.
PullLast(p) ==
    /\ pull[p].at = "last"
    /\ pull' = [pull EXCEPT ![p].at = "apply", ![p].next = LastIndex(log[p[2]])]
    /\ UNCHANGED <<cache, log, writeVars, reached, followers, status, push, syncState>>

\* ApplySync at the puller.
PullCache(p) ==
    /\ pull[p].entries # <<>> /\ ~pull[p].cached
    /\ cache' = Applied(p[1], pull[p].entries[1])
    /\ pull' = [pull EXCEPT ![p].cached = TRUE]
    /\ UNCHANGED <<log, writeVars, reached, followers, status, push, syncState>>

PullAppend(p) ==
    /\ pull[p].cached /\ HasRoom(p[1])
    /\ log' = Appended(p[1], pull[p].entries[1])
    /\ pull' = [pull EXCEPT ![p].cached = FALSE, ![p].entries = Tail(@)]
    /\ UNCHANGED <<cache, writeVars, reached, followers, status, push, syncState>>

\* sendSyncRequest calls itself as long as NextIndex is positive.
PullNext(p) ==
    /\ pull[p].at = "apply" /\ pull[p].entries = <<>>
    /\ IF pull[p].next > 0
         THEN /\ pull' = [pull EXCEPT ![p].at = "send", ![p].from = pull[p].next]
              /\ UNCHANGED <<syncState, status>>
         ELSE Finish(p, TRUE)
    /\ UNCHANGED <<cache, log, writeVars, reached, followers, push>>

\* A request or its answer is lost, or the peer answers with an error: the
\* whole chain of requests starts again at its first index.
PullFails(p) ==
    /\ pull[p].at \in {"send", "last"}
    /\ dep.faults \/ (pull[p].from > 0 /\ log[p[2]] = <<>>)
    /\ IF pull[p].try < dep.maxRetries
         THEN /\ pull' = [pull EXCEPT ![p] =
                            [NoPull EXCEPT !.at = "send", !.first = pull[p].first,
                                !.from = pull[p].first, !.try = pull[p].try + 1]]
              /\ UNCHANGED <<syncState, status>>
         ELSE Finish(p, FALSE)
    /\ UNCHANGED <<cache, log, writeVars, reached, followers, push>>

\* The context of the sync expires while a request is out.
PullTimesOut(p) ==
    /\ pull[p].at \in {"send", "last"} /\ dep.faults
    /\ Finish(p, FALSE)
    /\ UNCHANGED <<cache, log, writeVars, reached, followers, push>>
-----------------------------------------------------------------------------
WriteStep(w) == WriteAppend(w) \/ WriteSend(w)
PushStep(f, h) == PushCache(f, h) \/ PushAppend(f, h) \/ PushDone(f, h)
PullStep(p) == PullRead(p) \/ PullLast(p) \/ PullCache(p) \/ PullAppend(p) \/ PullNext(p)

Step ==
    \/ \E w \in Writer : WriteStep(w) \/ \E k \in dep.keys, v \in Value \cup {None} : WriteCache(w, k, v)
    \/ TakeLogEntry \/ ApplyLogEntry
    \/ \E f \in Follower, h \in Handler :
          Replicate(f, h) \/ PushStep(f, h) \/ PushAbandoned(f, h)
    \/ \E f \in Follower :
          \/ ReplicateFails(f)
          \/ SyncFromLeader(f) \/ RequestFullSync(f) \/ AddFollower(f) \/ RemoveFollower(f)
    \/ \E p \in Pair : PullStep(p) \/ PullFails(p) \/ PullTimesOut(p)

Next == Step /\ UNCHANGED dep

Spec == Init /\ [][Next]_vars

\* Goroutines and handlers that can go on do; callers need not call.
FairSpec ==
    /\ Spec
    /\ \A w \in Writer : WF_moving(WriteStep(w))
    /\ WF_moving(TakeLogEntry) /\ WF_moving(ApplyLogEntry)
    /\ \A f \in Follower, h \in Handler : WF_moving(PushStep(f, h))
    /\ \A p \in Pair : WF_moving(PullStep(p))
-----------------------------------------------------------------------------
(***************************************************************************)
(* Properties.                                                             *)
(***************************************************************************)
\* The value that replaying entries leaves under a key.
Replay(s, k) ==
    LET I == {i \in DOMAIN s : s[i].key = k}
    IN  IF I = {} THEN None ELSE s[CHOOSE i \in I : \A j \in I : j <= i].val

Batch(x) == x.entries \in Seq(Entry) /\ (x.cached => x.entries # <<>>)

\* Type correctness, and that every log is numbered 1, 2, 3, ... whatever
\* pushes, pulls and local writes interleave on it: every Append renumbers
\* the entries it gets from other nodes (replication_log.go:34-40).
ReplicationInv ==
    /\ \A n \in Node :
          /\ cache[n] \in [Key -> Value \cup {None}]
          /\ log[n] \in Seq(Entry) /\ Contiguous(log[n])
    /\ \A w \in Writer : writer[w].at # "idle" => writer[w].entry \in Entry
    /\ logCh \in Seq(Entry) /\ Len(logCh) <= dep.channelSize
    /\ followers \subseteq DOMAIN status /\ DOMAIN status \subseteq Follower
    /\ \A s \in Slot : Batch(push[s])
    /\ \A p \in Pair : Batch(pull[p])
    /\ syncState \in [Follower -> State]

\* Where nothing is pulled.
Pushing == dep.calls \subseteq {"push"}

WritesDone == (\A w \in Writer : writer[w].at = "idle") /\ logCh = <<>> /\ applying = NoEntry

\* Set writes the leader's cache before and, through logCh, after it appends
\* to the log (leader_follower_cluster.go:613-651, syncer.go:132-141).  Once
\* the writes and the channel are through, the cache holds what replaying
\* the log gives, provided no entry was discarded for lack of room and no pull
\* writes the leader's cache.
LeaderMatchesLog ==
    Pushing /\ WritesDone /\ ~discarded => \A k \in Key : cache[Leader][k] = Replay(log[Leader], k)

\* A follower no handler works on holds a state that a prefix of the
\* leader's log leads to, and one no older than the batches it has applied:
\* a push resends the log from its start, so that the cache goes through
\* older values again (leader.go:284, syncer.go:283-301), but none of them
\* stays, lost answers and abandoned calls included.
FollowerHoldsPrefix ==
    Pushing => \A f \in Follower :
        (\A h \in Handler : push[<<f, h>>] = NoPush) =>
            \E n \in reached[f] .. Len(log[Leader]) :
                \A k \in Key : cache[f][k] = Replay(SubSeq(log[Leader], 1, n), k)

\* ReplicateEntries "复制日志条目到所有从节点" (leader.go:238): when a push is
\* answered and the follower is set to StateNormal, the follower's log has
\* every entry the leader's log had when the push was made.
AcknowledgedIsReplicated ==
    [][ \A f \in Follower, h \in Handler :
          (PushDone(f, h) /\ push[<<f, h>>].waits) =>
              \A i \in 1 .. push[<<f, h>>].upTo :
                  \E j \in DOMAIN log[f] : log[f][j].key = log[Leader][i].key
                                           /\ log[f][j].val = log[Leader][i].val
      ]_vars

\* "如果有更多数据，继续同步" (syncer.go:268): a sync goes on while there is more
\* data, and so comes to an end when there is none.
PullCompletes == \A p \in Pair : pull[p].at # "idle" ~> pull[p].at = "idle"

\* "没有新条目" (syncer.go:569): the index a sync jumps to when it was given no
\* entries leaves no entry of the leader behind.
PullSkipsNothing ==
    [][ \A f \in Follower :
          (PullNext(<<f, Leader>>) /\ pull[<<f, Leader>>].next > 0) =>
              Len(log[f]) >= pull[<<f, Leader>>].next
      ]_vars

\* "添加从节点" (leader.go:170): adding a follower, again or for the first time,
\* leaves the data of the leader alone: only writes change its cache.
AddingKeepsLeader ==
    [][ (\E f \in Follower : PullStep(<<Leader, f>>)) => cache'[Leader] = cache[Leader] ]_vars
=============================================================================
