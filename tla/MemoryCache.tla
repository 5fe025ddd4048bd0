----------------------------- MODULE MemoryCache -----------------------------
(***************************************************************************)
(* MemoryCache (cache/memcache.go) on its SkipShardedMap                   *)
(* (cache/skipmap.go), with the timer that calls cleanUp or the            *)
(* asynchronous Cleaner (cache/cleaner.go): reads and writes of clients,   *)
(* removals of expired items by readers and by the cleaning goroutines,    *)
(* and Close.                                                              *)
(*                                                                         *)
(* An item is the number of the Set that stored it and the time at which   *)
(* it expires.  An operation on a shard is one step: it runs under the     *)
(* shard's mutex.  RangeKeys is the exception.  It keeps the mutex of the  *)
(* skip list and gives up the shard's while it calls back.                 *)
(***************************************************************************)
EXTENDS Integers, Sequences, FiniteSets

CONSTANTS
    Key, Shard, ShardOf,
    ShardOrder,  \* the shards in the order of their indices
    Reader,      \* calls of Get or goroutines of GetRange that remove an item
    Worker,      \* workers of the Cleaner
    Modes,       \* "sync" or "async": which of the two cleanings runs
    Calls,       \* which of "range", "close" are called
    None,
    QueueSize,   \* capacity of taskQueue
    MaxSets,     \* bound on the calls of Set
    MaxClock     \* bound on the time

ASSUME ShardAssumption ==
    /\ IsFiniteSet(Key) /\ IsFiniteSet(Worker)
    /\ ShardOf \in [Key -> Shard]
    /\ ShardOrder \in Seq(Shard) /\ \A s \in Shard : \E i \in DOMAIN ShardOrder : ShardOrder[i] = s
ASSUME BoundAssumption ==
    QueueSize \in Nat \ {0} /\ MaxSets \in Nat /\ MaxClock \in Nat

Item == [id : 1 .. MaxSets, expiration : 0 .. MaxClock + 1]
Found == Key \X Item
Task == [shard : Shard, now : 0 .. MaxClock]

ASSUME NoneAssumption == None \notin Item /\ None \notin Found /\ None \notin Shard

VARIABLES
    mode, clock, sets,
    data,       \* the item of every key
    itemCount,
    reader,     \* what a reader has found expired and is about to remove
    taskQueue,
    scheduler,  \* "off", "select", or the shards it has not queued and its time
    worker,     \* "off", "select", or the keys it found expired and the shards left
    closed,     \* stopChan and stopCleanUp
    visiting,   \* the shard whose skip list a GetRange holds while it calls back
    stuck,      \* a writer holds that shard's mutex and waits for the skip list
    evicted     \* history: items given to onEvict

vars == <<mode, clock, sets, data, itemCount, reader, taskQueue, scheduler, worker,
          closed, visiting, stuck, evicted>>

\* Expired at the time now.
Expired(item, now) == now > item.expiration

\* Type correctness of the cache and its cleaner (memcache.go:14, cleaner.go:28).
TypeOK ==
    /\ mode \in Modes /\ clock \in 0 .. MaxClock /\ sets \in 0 .. MaxSets
    /\ data \in [Key -> Item \cup {None}]
    /\ itemCount \in Int
    /\ reader \in [Reader -> Found \cup {None}]
    /\ taskQueue \in Seq(Task) /\ Len(taskQueue) <= QueueSize
    /\ scheduler \in [at : {"off", "select", "queue"}, left : Seq(Shard), now : 0 .. MaxClock]
    /\ worker \in [Worker -> [at : {"off", "select", "scan", "delete"}, left : Seq(Shard),
                              now : 0 .. MaxClock, found : SUBSET Found]]
    /\ closed \in BOOLEAN
    /\ visiting \in Shard \cup {None} /\ stuck \in BOOLEAN
    /\ evicted \subseteq 1 .. MaxSets

Idle(at) == [at |-> at, left |-> <<>>, now |-> 0]
IdleWorker(at) == [at |-> at, left |-> <<>>, now |-> 0, found |-> {}]

\* NewMemoryCache: the Cleaner with its workers, or the timer's goroutine,
\* which is a worker that takes its tasks from itself.
Init ==
    /\ mode \in Modes /\ clock = 0 /\ sets = 0
    /\ data = [k \in Key |-> None] /\ itemCount = 0
    /\ reader = [r \in Reader |-> None]
    /\ taskQueue = <<>>
    /\ scheduler = Idle(IF mode = "async" THEN "select" ELSE "off")
    /\ \E timer \in Worker :
          worker = [w \in Worker |-> IdleWorker(IF mode = "async" \/ w = timer THEN "select" ELSE "off")]
    /\ closed = FALSE
    /\ visiting = None /\ stuck = FALSE
    /\ evicted = {}
-----------------------------------------------------------------------------
(* The sharded map.                                                        *)

\* An operation that needs the write lock of the key's shard goes on only if
\* nobody holds its skip list or waits for it.
CanWrite(s) == visiting # s
CanRead(s) == visiting = s => ~stuck

Present(k) == data[k] # None

\* SkipShardedMap.Store.
Store(k, item) ==
    /\ data' = [data EXCEPT ![k] = item]
    /\ itemCount' = IF Present(k) THEN itemCount ELSE itemCount + 1

\* SkipShardedMap.Delete, LoadAndDelete and the removal of the Cleaner.
Delete(k) ==
    /\ data' = [data EXCEPT ![k] = None]
    /\ itemCount' = IF Present(k) THEN itemCount - 1 ELSE itemCount

OnEvict(item) == evicted' = evicted \cup {item.id}
-----------------------------------------------------------------------------
(* Calls of the clients.                                                   *)

Tick ==
    /\ clock < MaxClock
    /\ clock' = clock + 1
    /\ UNCHANGED <<mode, sets, data, itemCount, reader, taskQueue, scheduler, worker,
                   closed, visiting, stuck, evicted>>

Set(k, ttl) ==
    /\ CanWrite(ShardOf[k]) /\ sets < MaxSets
    /\ sets' = sets + 1
    /\ Store(k, [id |-> sets + 1, expiration |-> clock + ttl])
    /\ UNCHANGED <<mode, clock, reader, taskQueue, scheduler, worker, closed, visiting, stuck, evicted>>

Del(k) ==
    /\ CanWrite(ShardOf[k]) /\ Present(k)
    /\ Delete(k)
    /\ OnEvict(data[k])
    /\ UNCHANGED <<mode, clock, sets, reader, taskQueue, scheduler, worker, closed, visiting, stuck>>

\* Get loads an item that has expired; a miss and a hit change nothing.
GetExpired(r, k) ==
    /\ reader[r] = None /\ CanRead(ShardOf[k]) /\ Present(k) /\ Expired(data[k], clock)
    /\ reader' = [reader EXCEPT ![r] = <<k, data[k]>>]
    /\ UNCHANGED <<mode, clock, sets, data, itemCount, taskQueue, scheduler, worker,
                   closed, visiting, stuck, evicted>>

\* It then deletes the key, whatever item it has by now, and reports the item
\* it loaded.
GetDelete(r) ==
    /\ reader[r] # None /\ CanWrite(ShardOf[reader[r][1]])
    /\ Delete(reader[r][1])
    /\ OnEvict(reader[r][2])
    /\ reader' = [reader EXCEPT ![r] = None]
    /\ UNCHANGED <<mode, clock, sets, taskQueue, scheduler, worker, closed, visiting, stuck>>

\* GetRange in RangeKeys: the callback runs with the skip list locked for
\* reading and the shard unlocked; an expired item is left to a goroutine.
RangeVisit(s) ==
    /\ "range" \in Calls /\ visiting = None
    /\ \E k \in Key : ShardOf[k] = s /\ Present(k)
    /\ visiting' = s
    /\ UNCHANGED <<mode, clock, sets, data, itemCount, reader, taskQueue, scheduler, worker,
                   closed, stuck, evicted>>

RangeLocksAgain ==
    /\ visiting # None /\ ~stuck
    /\ visiting' = None
    /\ UNCHANGED <<mode, clock, sets, data, itemCount, reader, taskQueue, scheduler, worker,
                   closed, stuck, evicted>>

\* A writer locks the shard meanwhile and waits for the skip list.
WriterWaits ==
    /\ visiting # None /\ ~stuck
    /\ stuck' = TRUE
    /\ UNCHANGED <<mode, clock, sets, data, itemCount, reader, taskQueue, scheduler, worker,
                   closed, visiting, evicted>>

Close ==
    /\ "close" \in Calls /\ ~closed
    /\ closed' = TRUE
    /\ UNCHANGED <<mode, clock, sets, data, itemCount, reader, taskQueue, scheduler, worker,
                   visiting, stuck, evicted>>
-----------------------------------------------------------------------------
(* The scheduler of the Cleaner.                                           *)

\* A scheduler whose loop over the shards begins with the second.
SchedulerTickFromSecond ==
    /\ scheduler.at = "select"
    /\ scheduler' = [at |-> "queue", left |-> Tail(ShardOrder), now |-> clock]
    /\ UNCHANGED <<mode, clock, sets, data, itemCount, reader, taskQueue, worker,
                   closed, visiting, stuck, evicted>>

SchedulerTick ==
    /\ scheduler.at = "select"
    /\ scheduler' = [at |-> "queue", left |-> ShardOrder, now |-> clock]
    /\ UNCHANGED <<mode, clock, sets, data, itemCount, reader, taskQueue, worker,
                   closed, visiting, stuck, evicted>>

\* scheduleCleanTasks: one task for every shard, as the queue has room.
ScheduleTask ==
    /\ scheduler.at = "queue" /\ scheduler.left # <<>> /\ Len(taskQueue) < QueueSize
    /\ taskQueue' = Append(taskQueue, [shard |-> Head(scheduler.left), now |-> scheduler.now])
    /\ scheduler' = [scheduler EXCEPT !.left = Tail(@)]
    /\ UNCHANGED <<mode, clock, sets, data, itemCount, reader, worker, closed, visiting, stuck, evicted>>

ScheduleDone ==
    /\ scheduler.at = "queue" /\ scheduler.left = <<>>
    /\ scheduler' = Idle("select")
    /\ UNCHANGED <<mode, clock, sets, data, itemCount, reader, taskQueue, worker,
                   closed, visiting, stuck, evicted>>

\* A scheduler that does not look at stopChan while it queues its tasks.
SchedulerExitSelecting ==
    /\ closed /\ scheduler.at = "select"
    /\ scheduler' = Idle("off")
    /\ UNCHANGED <<mode, clock, sets, data, itemCount, reader, taskQueue, worker,
                   closed, visiting, stuck, evicted>>

\* stopChan: the scheduler sees it in either of its selects.
SchedulerExit ==
    /\ closed /\ scheduler.at # "off"
    /\ scheduler.at = "queue" => scheduler.left # <<>>
    /\ scheduler' = Idle("off")
    /\ UNCHANGED <<mode, clock, sets, data, itemCount, reader, taskQueue, worker,
                   closed, visiting, stuck, evicted>>
-----------------------------------------------------------------------------
(* The workers of the Cleaner, and the timer's goroutine.                  *)

WorkerTakes(w) ==
    /\ mode = "async" /\ worker[w].at = "select" /\ taskQueue # <<>>
    /\ taskQueue' = Tail(taskQueue)
    /\ worker' = [worker EXCEPT ![w] = [at |-> "scan", left |-> <<Head(taskQueue).shard>>,
                                        now |-> Head(taskQueue).now, found |-> {}]]
    /\ UNCHANGED <<mode, clock, sets, data, itemCount, reader, scheduler, closed, visiting, stuck, evicted>>

\* cleanUp goes through all shards.
TimerFires(w) ==
    /\ mode = "sync" /\ worker[w].at = "select"
    /\ worker' = [worker EXCEPT ![w] = [at |-> "scan", left |-> ShardOrder, now |-> clock, found |-> {}]]
    /\ UNCHANGED <<mode, clock, sets, data, itemCount, reader, taskQueue, scheduler,
                   closed, visiting, stuck, evicted>>

\* The snapshot of a shard's expired items, under its read lock.
Scan(w) ==
    /\ worker[w].at = "scan"
    /\ \/ /\ worker[w].left # <<>> /\ CanRead(Head(worker[w].left))
          /\ worker' = [worker EXCEPT
                ![w].at = "delete", ![w].left = Tail(@),
                ![w].found = {f \in Found : /\ ShardOf[f[1]] = Head(worker[w].left)
                                            /\ data[f[1]] = f[2]
                                            /\ Expired(f[2], worker[w].now)}]
       \/ /\ worker[w].left = <<>>
          /\ worker' = [worker EXCEPT ![w] = IdleWorker("select")]
    /\ UNCHANGED <<mode, clock, sets, data, itemCount, reader, taskQueue, scheduler,
                   closed, visiting, stuck, evicted>>

\* The Cleaner's removal, with the count lowered whether or not the key is
\* still there.
CleanDeleteUncounted(w) ==
    /\ worker[w].at = "delete"
    /\ \/ \E f \in worker[w].found :
             /\ CanWrite(ShardOf[f[1]])
             /\ data' = [data EXCEPT ![f[1]] = None]
             /\ itemCount' = itemCount - 1
             /\ worker' = [worker EXCEPT ![w].found = @ \ {f}]
             /\ OnEvict(f[2])
       \/ /\ worker[w].found = {}
          /\ worker' = [worker EXCEPT ![w].at = "scan"]
          /\ UNCHANGED <<data, itemCount, evicted>>
    /\ UNCHANGED <<mode, clock, sets, reader, taskQueue, scheduler, closed, visiting, stuck>>

\* The removals, each under the write lock, of whatever item the key has by
\* now.  The Cleaner reports the item of its snapshot if it removed one,
\* cleanUp always.
CleanDelete(w) ==
    /\ worker[w].at = "delete"
    /\ \/ \E f \in worker[w].found :
             /\ CanWrite(ShardOf[f[1]])
             /\ Delete(f[1])
             /\ worker' = [worker EXCEPT ![w].found = @ \ {f}]
             /\ IF mode = "sync" \/ Present(f[1]) THEN OnEvict(f[2]) ELSE UNCHANGED evicted
       \/ /\ worker[w].found = {}
          /\ worker' = [worker EXCEPT ![w].at = "scan"]
          /\ UNCHANGED <<data, itemCount, evicted>>
    /\ UNCHANGED <<mode, clock, sets, reader, taskQueue, scheduler, closed, visiting, stuck>>

WorkerExit(w) ==
    /\ closed /\ worker[w].at = "select"
    /\ worker' = [worker EXCEPT ![w] = IdleWorker("off")]
    /\ UNCHANGED <<mode, clock, sets, data, itemCount, reader, taskQueue, scheduler,
                   closed, visiting, stuck, evicted>>
-----------------------------------------------------------------------------
Next ==
    \/ Tick \/ Close
    \/ \E k \in Key : Del(k) \/ \E ttl \in {0, 1} : Set(k, ttl)
    \/ \E r \in Reader : GetDelete(r) \/ \E k \in Key : GetExpired(r, k)
    \/ RangeLocksAgain \/ WriterWaits \/ \E s \in Shard : RangeVisit(s)
    \/ SchedulerTick \/ ScheduleTask \/ ScheduleDone \/ SchedulerExit
    \/ \E w \in Worker : WorkerTakes(w) \/ TimerFires(w) \/ Scan(w) \/ CleanDelete(w) \/ WorkerExit(w)

Spec == Init /\ [][Next]_vars

\* Goroutines run and tickers fire; a select whose stop channel is closed takes
\* that case some time (Go chooses among the ready cases at random), and a
\* mutex that is free again and again is got (sync.RWMutex starves nobody).
\* Nothing is assumed of the clients.
Fairness ==
    /\ WF_vars(SchedulerTick \/ ScheduleTask \/ ScheduleDone \/ SchedulerExit)
    /\ SF_vars(SchedulerExit)
    /\ WF_vars(RangeLocksAgain \/ WriterWaits)
    /\ \A w \in Worker :
          /\ WF_vars(WorkerTakes(w) \/ TimerFires(w) \/ Scan(w) \/ WorkerExit(w))
          /\ SF_vars(CleanDelete(w))
          /\ SF_vars(WorkerExit(w))

FairSpec == Spec /\ Fairness
-----------------------------------------------------------------------------
(* Properties.                                                             *)

\* ItemCount is the number of items, whatever clients, readers and cleaners
\* remove the same key at the same time, and no item that was reported to
\* onEvict is in the cache (skipmap.go:76, 97, 116, cleaner.go:203).
MemoryInv ==
    /\ TypeOK
    /\ itemCount = Cardinality({k \in Key : Present(k)})
    /\ \A k \in Key : Present(k) => data[k].id \notin evicted

\* An item that has expired leaves an open cache, although nobody reads it and
\* the queue of the Cleaner is full again and again (cleaner.go:164, 198,
\* memcache.go:215).
ExpiredLeaves ==
    \A k \in Key : \A i \in 1 .. MaxSets :
        Present(k) /\ data[k].id = i /\ Expired(data[k], clock)
            ~> closed \/ stuck \/ ~Present(k) \/ data[k].id # i

\* After Close every goroutine of the cache ends, hence Close returns: the
\* workers, and the scheduler also when it waits for room in the queue
\* (cleaner.go:109, 163).
CloseEndsGoroutines ==
    closed ~> stuck \/ (scheduler.at = "off" /\ \A w \in Worker : worker[w].at = "off")

\* "the callback called when an item is removed" (memcache.go:16): what is no
\* longer in the cache and was not replaced was reported.
RemovedIsReported ==
    [][\A k \in Key : Present(k) /\ data'[k] = None => data[k].id \in evicted']_vars

\* "clean up the expired items" (memcache.go:214, cleaner.go:27): a cleaning
\* goroutine removes no item that has not expired.
CleanRemovesExpired ==
    [][\A w \in Worker : CleanDelete(w) =>
          \A k \in Key : Present(k) /\ data'[k] = None => Expired(data[k], clock)]_vars

\* "GetRange implements the range query of the interface" (memcache.go:114):
\* a GetRange that is calling back goes on.
RangeReturns ==
    visiting # None ~> visiting = None
=============================================================================
