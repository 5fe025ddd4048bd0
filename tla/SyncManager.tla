----------------------------- MODULE SyncManager -----------------------------
(***************************************************************************)
(* The data synchronisation between nodes (cache/cluster/sync.go) as seen  *)
(* by one node: the queue of tasks, the loop that takes some of them at    *)
(* every tick and waits for their goroutines, the request that a goroutine *)
(* sends to a peer, the peer's HandleSyncRequest, the items stored in the  *)
(* local cache and the task for the next page.                             *)
(*                                                                         *)
(* The keys are those the handler goes through, 1, 2, ...; 0 is the empty  *)
(* key, which leaves a range open.  A value is the number of the write     *)
(* that brought it, and 0 stands for no value or one that is not []byte.   *)
(***************************************************************************)
EXTENDS Integers, Sequences, FiniteSets, FiniteSetsExt

CONSTANTS
    Peer,
    KeyCount,      \* number of keys
    Contents,      \* what peers hold at the start
    Concurrency,   \* tasks taken at a tick
    MaxItems,      \* items of a page
    MaxStarts, MaxTriggers, MaxWrites, MaxFaults,
    MaxEvents      \* bounds, the last one on starts, writes and faults together

Key == 1 .. KeyCount

ASSUME SyncAssumption ==
    /\ IsFiniteSet(Peer) /\ KeyCount \in Nat \ {0}
    /\ Concurrency \in Nat \ {0} /\ MaxItems \in Nat \ {0}
    /\ MaxStarts \in Nat /\ MaxTriggers \in Nat /\ MaxWrites \in Nat /\ MaxFaults \in Nat
    /\ MaxEvents \in Nat
    /\ Contents \subseteq [Key -> {0, 1}]

VARIABLES
    running, stopped,   \* stopCh is closed
    loop,               \* syncLoop of every Start: "off", "select", "wait"
    full,               \* nodes that TriggerFullSync has not queued yet
    queue, processing,
    worker,             \* the goroutines of a loop's tick
    peer,               \* what the peers' caches hold
    cache,              \* what the local cache holds
    due,                \* history: what the last trigger has to bring
    brought,            \* history: what the last applied item of a peer brought
    starts, triggers, writes, faults

vars == <<running, stopped, full, loop, queue, processing, worker, peer, cache, due, brought,
          starts, triggers, writes, faults>>

Loop == 1 .. MaxStarts
Worker == Loop \X (1 .. Concurrency)

KeyRange == [start : 0 .. KeyCount, end : 0 .. KeyCount]
All == [start |-> 0, end |-> 0]
Task == [node : Peer, range : KeyRange, priority : {1, 2}]

\* A goroutine: its task, the key the peer's handler is at, the items
\* collected or not applied yet, and NextKey.
Idle == [at |-> "idle"]
Working(task, at) ==
    [at |-> at, task |-> task, key |-> 1, items |-> <<>>, next |-> 0]

\* The key of processingMap.
TaskKey(task) == <<task.node, task.range>>

Nothing == [n \in Peer |-> [k \in Key |-> 0]]

Init ==
    /\ running = FALSE /\ stopped = FALSE
    /\ loop = [l \in Loop |-> "off"]
    /\ full = {} /\ queue = <<>> /\ processing = {}
    /\ worker = [w \in Worker |-> Idle]
    /\ peer \in [Peer -> Contents]
    /\ cache = [k \in Key |-> 0]
    /\ due = Nothing /\ brought = Nothing
    /\ starts = 0 /\ triggers = 0 /\ writes = 1 /\ faults = 0
\* Another start, write or fault is within the bounds.
Room == starts + (writes - 1) + faults < MaxEvents
-----------------------------------------------------------------------------
(* Starting, stopping and the queue.                                       *)

Start ==
    /\ ~running
    /\ Room /\ starts < MaxStarts /\ starts' = starts + 1
    /\ running' = TRUE
    /\ loop' = [loop EXCEPT ![starts + 1] = "select"]
    /\ UNCHANGED <<stopped, full, queue, processing, worker, peer, cache, due, brought,
                   triggers, writes, faults>>

Stop ==
    /\ running
    /\ running' = FALSE /\ stopped' = TRUE
    /\ UNCHANGED <<full, loop, queue, processing, worker, peer, cache, due, brought,
                   starts, triggers, writes, faults>>

\* The new task moves forward past the tasks of lower priority.
QueueSyncTask(q, task) ==
    LET i == Max({0} \cup {j \in DOMAIN q : q[j].priority >= task.priority})
    IN  SubSeq(q, 1, i) \o <<task>> \o SubSeq(q, i + 1, Len(q))

\* A task for everything a node has: it has to bring what is there now.
QueueAll(n, priority) ==
    /\ queue' = QueueSyncTask(queue, [node |-> n, range |-> All, priority |-> priority])
    /\ due' = [due EXCEPT ![n] = peer[n]]
    /\ UNCHANGED <<running, stopped, loop, processing, worker, peer, cache, brought,
                   starts, writes, faults>>

TriggerSync(n) ==
    /\ triggers < MaxTriggers /\ triggers' = triggers + 1
    /\ QueueAll(n, 2)
    /\ UNCHANGED full

\* TriggerFullSync queues the nodes one by one in a random order.
TriggerFullSync ==
    /\ full = {}
    /\ triggers < MaxTriggers /\ triggers' = triggers + 1
    /\ full' = Peer
    /\ UNCHANGED <<running, stopped, loop, queue, processing, worker, peer, cache, due, brought,
                   starts, writes, faults>>

FullSyncQueues(n) ==
    /\ n \in full /\ full' = full \ {n}
    /\ QueueAll(n, 1)
    /\ UNCHANGED triggers
-----------------------------------------------------------------------------
(* The loop.                                                               *)

\* The select takes either case when stopCh is closed and the ticker fires.
LoopExit(l) ==
    /\ loop[l] = "select" /\ stopped
    /\ loop' = [loop EXCEPT ![l] = "off"]
    /\ UNCHANGED <<running, stopped, full, queue, processing, worker, peer, cache, due, brought,
                   starts, triggers, writes, faults>>

processSyncTasks(l) ==
    /\ loop[l] = "select" /\ queue # <<>>
    /\ LET taskCount == Min({Concurrency, Len(queue)}) IN
         /\ worker' = [w \in Worker |-> IF w[1] = l /\ w[2] <= taskCount
                                        THEN Working(queue[w[2]], "begin") ELSE worker[w]]
         /\ queue' = SubSeq(queue, taskCount + 1, Len(queue))
    /\ loop' = [loop EXCEPT ![l] = "wait"]
    /\ UNCHANGED <<running, stopped, full, processing, peer, cache, due, brought,
                   starts, triggers, writes, faults>>

\* wg.Wait has returned.
LoopWaited(l) ==
    /\ loop[l] = "wait" /\ \A w \in Worker : w[1] = l => worker[w] = Idle
    /\ loop' = [loop EXCEPT ![l] = "select"]
    /\ UNCHANGED <<running, stopped, full, queue, processing, worker, peer, cache, due, brought,
                   starts, triggers, writes, faults>>
-----------------------------------------------------------------------------
(* syncToNode.                                                             *)

GoesOn(w, x) == worker' = [worker EXCEPT ![w] = x]

\* A goroutine that does not look at processingMap.
SyncBeginUnchecked(w) ==
    /\ worker[w].at = "begin"
    /\ processing' = processing \cup {TaskKey(worker[w].task)}
    /\ GoesOn(w, [worker[w] EXCEPT !.at = "handle"])
    /\ UNCHANGED <<running, stopped, full, loop, queue, peer, cache, due, brought,
                   starts, triggers, writes, faults>>

\* A task whose range is being worked on is dropped.
SyncBegin(w) ==
    /\ worker[w].at = "begin"
    /\ LET key == TaskKey(worker[w].task) IN
         /\ GoesOn(w, IF key \in processing THEN Idle ELSE [worker[w] EXCEPT !.at = "handle"])
         /\ processing' = processing \cup {key}
    /\ UNCHANGED <<running, stopped, full, loop, queue, peer, cache, due, brought,
                   starts, triggers, writes, faults>>

\* The request or its answer is lost: the task is given up.
SendFails(w) ==
    /\ worker[w].at = "handle"
    /\ Room /\ faults < MaxFaults /\ faults' = faults + 1
    /\ GoesOn(w, [worker[w] EXCEPT !.at = "cleanup"])
    /\ due' = [due EXCEPT ![worker[w].task.node] = [k \in Key |-> 0]]
    /\ UNCHANGED <<running, stopped, full, loop, queue, processing, peer, cache, brought,
                   starts, triggers, writes>>

InRange(k, r) == (r.start = 0 \/ k >= r.start) /\ (r.end = 0 \/ k < r.end)

\* The answer does not say that there is more.
PageLast(x, items) == [x EXCEPT !.at = "apply", !.items = items]

\* A full page after which the range begins again.
PageFromStart(x, items) ==
    [x EXCEPT !.at = "apply", !.items = items, !.next = 1]

\* The page is full: the last key is where the next one begins.
PageFull(x, items) == [x EXCEPT !.at = "apply", !.items = items, !.next = x.key]

\* The peer looks at one key after the other.
HandleSyncRequest(w) ==
    /\ worker[w].at = "handle"
    /\ LET x     == worker[w]
           value == peer[x.task.node][x.key]
           items == IF InRange(x.key, x.task.range) /\ value # 0
                    THEN Append(x.items, [key |-> x.key, value |-> value]) ELSE x.items
       IN  GoesOn(w, IF Len(items) >= MaxItems THEN PageFull(x, items)
                     ELSE IF x.key = KeyCount THEN PageLast(x, items)
                     ELSE [x EXCEPT !.items = items, !.key = @ + 1])
    /\ UNCHANGED <<running, stopped, full, loop, queue, processing, peer, cache, due, brought,
                   starts, triggers, writes, faults>>

ApplyItem(w) ==
    /\ worker[w].at = "apply" /\ worker[w].items # <<>>
    /\ LET i == Head(worker[w].items) IN
         /\ cache' = [cache EXCEPT ![i.key] = i.value]
         /\ brought' = [brought EXCEPT ![worker[w].task.node][i.key] = i.value]
    /\ GoesOn(w, [worker[w] EXCEPT !.items = Tail(@)])
    /\ UNCHANGED <<running, stopped, full, loop, queue, processing, peer, due,
                   starts, triggers, writes, faults>>

\* The task for the next page.
NextPage(x) ==
    [node |-> x.task.node, range |-> [start |-> x.next, end |-> x.task.range.end], priority |-> 1]

QueueNextPage(w) ==
    /\ worker[w].at = "apply" /\ worker[w].items = <<>>
    /\ LET x == worker[w] IN
         queue' = IF x.next = 0 THEN queue
                  ELSE QueueSyncTask(queue, NextPage(x))
    /\ GoesOn(w, [worker[w] EXCEPT !.at = "cleanup"])
    /\ UNCHANGED <<running, stopped, full, loop, processing, peer, cache, due, brought,
                   starts, triggers, writes, faults>>

\* The deferred removal from processingMap.
SyncCleanup(w) ==
    /\ worker[w].at = "cleanup"
    /\ processing' = processing \ {TaskKey(worker[w].task)}
    /\ GoesOn(w, Idle)
    /\ UNCHANGED <<running, stopped, full, loop, queue, peer, cache, due, brought,
                   starts, triggers, writes, faults>>

syncToNode(w) ==
    \/ SyncBegin(w) \/ HandleSyncRequest(w)
    \/ ApplyItem(w) \/ QueueNextPage(w) \/ SyncCleanup(w)
-----------------------------------------------------------------------------
(* A client of a peer writes or removes a key.                             *)

PeerChanges(n, k) ==
    /\ Room /\ writes <= MaxWrites /\ writes' = writes + 1
    /\ \/ peer' = [peer EXCEPT ![n][k] = writes + 1] /\ UNCHANGED due
       \/ peer' = [peer EXCEPT ![n][k] = 0] /\ due' = [due EXCEPT ![n][k] = 0]
    /\ UNCHANGED <<running, stopped, full, loop, queue, processing, worker, cache, brought,
                   starts, triggers, faults>>

Next ==
    \/ Start \/ Stop \/ TriggerFullSync
    \/ \E n \in Peer : TriggerSync(n) \/ FullSyncQueues(n) \/ \E k \in Key : PeerChanges(n, k)
    \/ \E l \in Loop : LoopExit(l) \/ processSyncTasks(l) \/ LoopWaited(l)
    \/ \E w \in Worker : syncToNode(w) \/ SendFails(w)

Spec == Init /\ [][Next]_vars

\* The ticker fires again and again, goroutines run, and a select that can take
\* a case again and again takes it at some time.
FairSpec ==
    /\ Spec
    /\ \A l \in Loop : WF_vars(processSyncTasks(l) \/ LoopWaited(l)) /\ SF_vars(LoopExit(l))
    /\ \A w \in Worker : WF_vars(syncToNode(w))
-----------------------------------------------------------------------------
(* Properties.                                                             *)

InSync(w) == worker[w].at \notin {"idle", "begin"}

\* processingMap is the set of the ranges being worked on, each by one
\* goroutine, also when a restarted manager has two loops; the queue is sorted
\* by priority (sync.go:193, 203, 301).
SyncInv ==
    /\ queue \in Seq(Task) /\ cache \in [Key -> 0 .. MaxWrites + 1]
    /\ processing = {TaskKey(worker[w].task) : w \in {v \in Worker : InSync(v)}}
    /\ \A v, w \in Worker :
          InSync(v) /\ InSync(w) /\ TaskKey(worker[v].task) = TaskKey(worker[w].task) => v = w
    /\ \A i \in 1 .. Len(queue) - 1 : queue[i].priority >= queue[i + 1].priority

Drained == queue = <<>> /\ \A w \in Worker : worker[w] = Idle

\* Once there is nothing left to do, the local cache has got everything that
\* the peer had when its synchronisation was triggered, over pages and tasks
\* dropped as duplicates, unless a request failed (sync.go:194, 268, 371, 400).
\* A task may be dropped although the other one has read its key before only
\* when there are two loops, after a restart.
DrainedIsFresh ==
    starts <= 1 /\ Drained => \A n \in Peer, k \in Key : brought[n][k] >= due[n][k]

\* A manager that is not stopped works off its queue; once it is stopped its
\* loops end (sync.go:143, 268).
SyncEnds ==
    /\ <>[](running /\ ~stopped) => <>[]Drained
    /\ stopped ~> \A l \in Loop : loop[l] = "off"
=============================================================================
