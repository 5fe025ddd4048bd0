----------------------------- MODULE MemoryProofs -----------------------------
(***************************************************************************)
(* Proofs about MemoryCache, for any number of keys, shards, readers and   *)
(* workers, in both modes of cleaning.                                     *)
(***************************************************************************)
EXTENDS MemoryCache, FiniteSetTheorems, TLAPS

Stored == {k \in Key : Present(k)}

\* A removal that is about to be made: its item was given its number by a Set
\* that has happened, and is under no other key.
Owned(f) ==
    /\ f[2].id <= sets
    /\ \A k \in Key : Present(k) /\ data[k].id = f[2].id => k = f[1]

\* Items are told apart by their numbers.
IdsInv ==
    /\ \A k \in Key : Present(k) => data[k].id <= sets
    /\ \A k, l \in Key : Present(k) /\ Present(l) /\ data[k].id = data[l].id => k = l
    /\ \A r \in Reader : reader[r] # None => Owned(reader[r])
    /\ \A w \in Worker : \A f \in worker[w].found : Owned(f)
    /\ \A i \in evicted : i <= sets

InductiveInv == MemoryInv /\ IdsInv
-----------------------------------------------------------------------------
\* A new cache satisfies the invariant (NewMemoryCache).
LEMMA InductiveInit == Init => InductiveInv
<1> SUFFICES ASSUME Init PROVE InductiveInv
    OBVIOUS
<1>1. TypeOK
    <2>1. 0 \in 0 .. MaxClock /\ 0 \in 0 .. MaxSets /\ <<>> \in Seq(Shard) /\ <<>> \in Seq(Task)
        BY BoundAssumption
    <2>2. PICK timer \in Worker :
             worker = [w \in Worker |->
                 IdleWorker(IF mode = "async" \/ w = timer THEN "select" ELSE "off")]
        BY DEF Init
    <2>3. worker \in [Worker -> [at : {"off", "select", "scan", "delete"}, left : Seq(Shard),
                                 now : 0 .. MaxClock, found : SUBSET Found]]
        BY <2>1, <2>2 DEF IdleWorker
    <2>4. scheduler \in [at : {"off", "select", "queue"}, left : Seq(Shard), now : 0 .. MaxClock]
        BY <2>1 DEF Init, Idle
    <2>5. /\ mode \in Modes /\ clock \in 0 .. MaxClock /\ sets \in 0 .. MaxSets
          /\ data \in [Key -> Item \cup {None}] /\ itemCount \in Int
          /\ reader \in [Reader -> Found \cup {None}]
          /\ taskQueue \in Seq(Task) /\ Len(taskQueue) <= QueueSize
          /\ visiting \in Shard \cup {None} /\ evicted \subseteq 1 .. MaxSets
        BY <2>1, BoundAssumption DEF Init
    <2>6. closed \in BOOLEAN /\ stuck \in BOOLEAN
        BY Zenon DEF Init
    <2>7. QED
        BY <2>3, <2>4, <2>5, <2>6, Zenon DEF TypeOK
<1>2. Stored = {}
    BY DEF Init, Stored, Present
<1>3. itemCount = Cardinality(Stored)
    BY <1>2, FS_EmptySet DEF Init
<1>4. \A w \in Worker : worker[w].found = {}
    BY DEF Init, IdleWorker
<1>5. IdsInv
    BY <1>4 DEF Init, IdsInv, Present
<1>6. QED
    BY <1>1, <1>2, <1>3, <1>5 DEF InductiveInv, MemoryInv, Stored, Present, Init

\* Storing counts a new key once (skipmap.go:64).
LEMMA StoreCounts ==
    ASSUME TypeOK, itemCount = Cardinality(Stored),
           NEW k \in Key, NEW item \in Item, Store(k, item)
    PROVE  /\ data' \in [Key -> Item \cup {None}]
           /\ itemCount' \in Int /\ itemCount' = Cardinality(Stored')
<1>1. IsFiniteSet(Stored) /\ Cardinality(Stored) \in Nat
    BY ShardAssumption, FS_Subset, FS_CardinalityType DEF Stored
<1>2. data' \in [Key -> Item \cup {None}]
    BY DEF TypeOK, Store
<1>3. Stored' = Stored \cup {k}
    BY NoneAssumption DEF Stored, Present, Store, TypeOK
<1>4. Cardinality(Stored') = IF k \in Stored THEN Cardinality(Stored) ELSE Cardinality(Stored) + 1
    BY <1>1, <1>3, FS_AddElement
<1>5. itemCount' = IF k \in Stored THEN itemCount ELSE itemCount + 1
    BY DEF Store, Stored
<1>6. QED
    BY <1>1, <1>2, <1>4, <1>5

\* Deleting counts a key that is there once, and one that is not never
\* (skipmap.go:91, cleaner.go:203).
LEMMA DeleteCounts ==
    ASSUME TypeOK, itemCount = Cardinality(Stored), NEW k \in Key, Delete(k)
    PROVE  /\ data' \in [Key -> Item \cup {None}]
           /\ itemCount' \in Int /\ itemCount' = Cardinality(Stored')
<1>1. IsFiniteSet(Stored) /\ Cardinality(Stored) \in Nat
    BY ShardAssumption, FS_Subset, FS_CardinalityType DEF Stored
<1>2. data' \in [Key -> Item \cup {None}]
    BY DEF TypeOK, Delete
<1>3. Stored' = Stored \ {k}
    BY DEF Stored, Present, Delete, TypeOK
<1>4. Cardinality(Stored') = IF k \in Stored THEN Cardinality(Stored) - 1 ELSE Cardinality(Stored)
    BY <1>1, <1>3, FS_RemoveElement
<1>5. itemCount' = IF k \in Stored THEN itemCount - 1 ELSE itemCount
    BY DEF Delete, Stored
<1>6. QED
    BY <1>1, <1>2, <1>4, <1>5
-----------------------------------------------------------------------------
(* Types and the number of items, action by action.                        *)

CacheTypes ==
    /\ mode \in Modes /\ clock \in 0 .. MaxClock /\ sets \in 0 .. MaxSets
    /\ data \in [Key -> Item \cup {None}] /\ itemCount \in Int
    /\ reader \in [Reader -> Found \cup {None}] /\ evicted \subseteq 1 .. MaxSets
    /\ itemCount = Cardinality(Stored)

SchedulerType == [at : {"off", "select", "queue"}, left : Seq(Shard), now : 0 .. MaxClock]
WorkerType ==
    [at : {"off", "select", "scan", "delete"}, left : Seq(Shard), now : 0 .. MaxClock,
     found : SUBSET Found]

CleanTypes ==
    /\ taskQueue \in Seq(Task) /\ Len(taskQueue) <= QueueSize
    /\ scheduler \in SchedulerType /\ worker \in [Worker -> WorkerType]

FlagTypes == closed \in BOOLEAN /\ visiting \in Shard \cup {None} /\ stuck \in BOOLEAN

LEMMA CacheTypesKept ==
    ASSUME CacheTypes, UNCHANGED <<mode, clock, sets, data, itemCount, reader, evicted>>
    PROVE  CacheTypes'
    BY DEF CacheTypes, Stored, Present

\* The actions of clients and readers change the map in Store and Delete only
\* (memcache.go:83, 93, 146).
LEMMA ClientTypes ==
    ASSUME TypeOK, CacheTypes,
           \/ Tick
           \/ \E k \in Key : Del(k) \/ \E ttl \in {0, 1} : Set(k, ttl)
           \/ \E r \in Reader : GetDelete(r) \/ \E k \in Key : GetExpired(r, k)
    PROVE  CacheTypes' /\ UNCHANGED <<taskQueue, scheduler, worker, closed, visiting, stuck>>
<1>1. CASE Tick
    <2>1. clock' \in 0 .. MaxClock
        BY <1>1, BoundAssumption DEF Tick, CacheTypes
    <2>2. QED
        BY <1>1, <2>1 DEF Tick, CacheTypes, Stored, Present
<1>2. ASSUME NEW k \in Key, Del(k)
      PROVE  CacheTypes' /\ UNCHANGED <<taskQueue, scheduler, worker, closed, visiting, stuck>>
    <2>1. /\ data' \in [Key -> Item \cup {None}]
          /\ itemCount' \in Int /\ itemCount' = Cardinality(Stored')
        BY <1>2, DeleteCounts DEF Del, CacheTypes
    <2>2. data[k] \in Item
        BY <1>2 DEF Del, Present, CacheTypes
    <2>3. evicted' \subseteq 1 .. MaxSets
        BY <1>2, <2>2 DEF Del, OnEvict, CacheTypes, Item
    <2>4. QED
        BY <1>2, <2>1, <2>3 DEF Del, CacheTypes
<1>3. ASSUME NEW k \in Key, NEW ttl \in {0, 1}, Set(k, ttl)
      PROVE  CacheTypes' /\ UNCHANGED <<taskQueue, scheduler, worker, closed, visiting, stuck>>
    <2>1. sets + 1 \in 1 .. MaxSets /\ clock + ttl \in 0 .. MaxClock + 1
        BY <1>3, BoundAssumption DEF Set, CacheTypes
    <2>2. [id |-> sets + 1, expiration |-> clock + ttl] \in Item
        BY <2>1 DEF Item
    <2>3. /\ data' \in [Key -> Item \cup {None}]
          /\ itemCount' \in Int /\ itemCount' = Cardinality(Stored')
        BY <1>3, <2>2, StoreCounts DEF Set, CacheTypes
    <2>4. QED
        BY <1>3, <2>1, <2>3, BoundAssumption DEF Set, CacheTypes
<1>4. ASSUME NEW r \in Reader, GetDelete(r)
      PROVE  CacheTypes' /\ UNCHANGED <<taskQueue, scheduler, worker, closed, visiting, stuck>>
    <2>1. reader[r] \in Found
        BY <1>4 DEF GetDelete, CacheTypes
    <2>2. reader[r][1] \in Key /\ reader[r][2] \in Item
        BY <2>1 DEF Found
    <2>3. /\ data' \in [Key -> Item \cup {None}]
          /\ itemCount' \in Int /\ itemCount' = Cardinality(Stored')
        BY <1>4, <2>2, DeleteCounts DEF GetDelete, CacheTypes
    <2>4. evicted' \subseteq 1 .. MaxSets
        BY <1>4, <2>2 DEF GetDelete, OnEvict, CacheTypes, Item
    <2>5. reader' \in [Reader -> Found \cup {None}]
        BY <1>4 DEF GetDelete, CacheTypes
    <2>6. QED
        BY <1>4, <2>3, <2>4, <2>5 DEF GetDelete, CacheTypes
<1>5. ASSUME NEW r \in Reader, NEW k \in Key, GetExpired(r, k)
      PROVE  CacheTypes' /\ UNCHANGED <<taskQueue, scheduler, worker, closed, visiting, stuck>>
    <2>1. <<k, data[k]>> \in Found
        BY <1>5 DEF GetExpired, Present, CacheTypes, Found
    <2>2. reader' \in [Reader -> Found \cup {None}]
        BY <1>5, <2>1 DEF GetExpired, CacheTypes
    <2>3. QED
        BY <1>5, <2>2 DEF GetExpired, CacheTypes, Stored, Present
<1>6. QED
    BY <1>1, <1>2, <1>3, <1>4, <1>5

\* The scheduler's actions (cleaner.go:140, 155).
LEMMA SchedulerTypes ==
    ASSUME CacheTypes, CleanTypes, SchedulerTick \/ ScheduleTask \/ ScheduleDone \/ SchedulerExit
    PROVE  /\ CleanTypes'
           /\ UNCHANGED <<mode, clock, sets, data, itemCount, reader, evicted, worker>>
           /\ UNCHANGED <<closed, visiting, stuck>>
<1>1. 0 \in 0 .. MaxClock /\ clock \in 0 .. MaxClock /\ <<>> \in Seq(Shard)
    BY BoundAssumption DEF CacheTypes
<1>2. CASE SchedulerTick
    BY <1>1, <1>2, ShardAssumption DEF SchedulerTick, CleanTypes, SchedulerType
<1>3. CASE ScheduleTask
    <2>1. /\ scheduler.left \in Seq(Shard) /\ scheduler.left # <<>>
          /\ scheduler.now \in 0 .. MaxClock
        BY <1>3 DEF ScheduleTask, CleanTypes, SchedulerType
    <2>2. Head(scheduler.left) \in Shard /\ Tail(scheduler.left) \in Seq(Shard)
        BY <2>1
    <2>3. [shard |-> Head(scheduler.left), now |-> scheduler.now] \in Task
        BY <2>1, <2>2 DEF Task
    <2>4. taskQueue' \in Seq(Task) /\ Len(taskQueue') <= QueueSize
        BY <1>3, <2>3, BoundAssumption DEF ScheduleTask, CleanTypes
    <2>5. scheduler' \in SchedulerType
        BY <1>3, <2>2 DEF ScheduleTask, CleanTypes, SchedulerType
    <2>6. QED
        BY <1>3, <2>4, <2>5 DEF ScheduleTask, CleanTypes
<1>4. CASE ScheduleDone
    BY <1>1, <1>4 DEF ScheduleDone, Idle, CleanTypes, SchedulerType
<1>5. CASE SchedulerExit
    BY <1>1, <1>5 DEF SchedulerExit, Idle, CleanTypes, SchedulerType
<1>6. QED
    BY <1>2, <1>3, <1>4, <1>5

\* The workers' actions that remove nothing (cleaner.go:126, 175, memcache.go:198).
LEMMA WorkerTypes ==
    ASSUME CacheTypes, CleanTypes, NEW w \in Worker,
           WorkerTakes(w) \/ TimerFires(w) \/ Scan(w) \/ WorkerExit(w)
    PROVE  /\ CleanTypes'
           /\ UNCHANGED <<mode, clock, sets, data, itemCount, reader, evicted, scheduler>>
           /\ UNCHANGED <<closed, visiting, stuck>>
<1>1. 0 \in 0 .. MaxClock /\ clock \in 0 .. MaxClock /\ <<>> \in Seq(Shard)
    BY BoundAssumption DEF CacheTypes
<1>2. worker[w] \in WorkerType
    BY DEF CleanTypes
<1>3. CASE WorkerTakes(w)
    <2>1. Head(taskQueue) \in Task /\ Tail(taskQueue) \in Seq(Task)
          /\ Len(Tail(taskQueue)) <= QueueSize
        BY <1>3, BoundAssumption DEF WorkerTakes, CleanTypes
    <2>2. Head(taskQueue).shard \in Shard /\ Head(taskQueue).now \in 0 .. MaxClock
        BY <2>1 DEF Task
    <2>3. [at |-> "scan", left |-> <<Head(taskQueue).shard>>, now |-> Head(taskQueue).now,
           found |-> {}] \in WorkerType
        BY <2>2 DEF WorkerType
    <2>4. worker' \in [Worker -> WorkerType]
        BY <1>3, <2>3 DEF WorkerTakes, CleanTypes
    <2>5. QED
        BY <1>3, <2>1, <2>4 DEF WorkerTakes, CleanTypes
<1>4. CASE TimerFires(w)
    <2>1. [at |-> "scan", left |-> ShardOrder, now |-> clock, found |-> {}] \in WorkerType
        BY <1>1, ShardAssumption DEF WorkerType
    <2>2. QED
        BY <1>4, <2>1 DEF TimerFires, CleanTypes
<1>5. CASE Scan(w)
    <2>1. IdleWorker("select") \in WorkerType
        BY <1>1 DEF IdleWorker, WorkerType
    <2>2. CASE worker[w].left # <<>>
        <3> DEFINE S == {f \in Found : /\ ShardOf[f[1]] = Head(worker[w].left)
                                       /\ data[f[1]] = f[2]
                                       /\ Expired(f[2], worker[w].now)}
        <3>1. Tail(worker[w].left) \in Seq(Shard) /\ S \in SUBSET Found
            BY <1>2, <2>2 DEF WorkerType
        <3>2. worker' = [worker EXCEPT ![w].at = "delete", ![w].left = Tail(@), ![w].found = S]
            BY <1>5, <2>2 DEF Scan
        <3> HIDE DEF S
        <3>3. QED
            BY <1>2, <3>1, <3>2 DEF WorkerType, CleanTypes
    <2>3. worker' \in [Worker -> WorkerType]
        BY <1>5, <2>1, <2>2 DEF Scan, CleanTypes
    <2>4. QED
        BY <1>5, <2>3 DEF Scan, CleanTypes
<1>6. CASE WorkerExit(w)
    <2>1. IdleWorker("off") \in WorkerType
        BY <1>1 DEF IdleWorker, WorkerType
    <2>2. QED
        BY <1>6, <2>1 DEF WorkerExit, CleanTypes
<1>7. QED
    BY <1>3, <1>4, <1>5, <1>6

\* The removals of a cleaning goroutine (cleaner.go:194, memcache.go:215).
LEMMA CleanDeleteTypes ==
    ASSUME TypeOK, CacheTypes, CleanTypes, NEW w \in Worker, CleanDelete(w)
    PROVE  /\ CacheTypes' /\ CleanTypes'
           /\ UNCHANGED <<sets, reader, closed, visiting, stuck>>
<1>1. worker[w] \in WorkerType
    BY DEF CleanTypes
<1>2. ASSUME NEW f \in worker[w].found, Delete(f[1]),
             worker' = [worker EXCEPT ![w].found = @ \ {f}],
             IF mode = "sync" \/ Present(f[1]) THEN OnEvict(f[2]) ELSE UNCHANGED evicted
      PROVE  CacheTypes' /\ CleanTypes'
    <2>1. f[1] \in Key /\ f[2] \in Item
        BY <1>1 DEF WorkerType, Found
    <2>2. /\ data' \in [Key -> Item \cup {None}]
          /\ itemCount' \in Int /\ itemCount' = Cardinality(Stored')
        BY <1>2, <2>1, DeleteCounts DEF CacheTypes
    <2>3. evicted' \subseteq 1 .. MaxSets
        BY <1>2, <2>1 DEF OnEvict, CacheTypes, Item
    <2>4. worker' \in [Worker -> WorkerType]
        BY <1>1, <1>2 DEF CleanTypes, WorkerType
    <2>5. QED
        BY <2>2, <2>3, <2>4 DEF CleanDelete, CacheTypes, CleanTypes
<1>3. ASSUME worker' = [worker EXCEPT ![w].at = "scan"], UNCHANGED <<data, itemCount, evicted>>
      PROVE  CacheTypes' /\ CleanTypes'
    <2>1. worker' \in [Worker -> WorkerType]
        BY <1>1, <1>3 DEF CleanTypes, WorkerType
    <2>2. QED
        BY <1>3, <2>1 DEF CleanDelete, CacheTypes, CleanTypes, Stored, Present
<1>4. QED
    BY <1>2, <1>3 DEF CleanDelete
-----------------------------------------------------------------------------
(* Which item an id is.                                                    *)

EvictedAreGone == \A k \in Key : Present(k) => data[k].id \notin evicted

\* A removal makes no item appear under another key.
LEMMA OwnedKept ==
    ASSUME UNCHANGED sets, \A k \in Key : data'[k] \in {data[k], None}, NEW f, Owned(f)
    PROVE  Owned(f)'
    BY DEF Owned, Present

\* Deleting a key and reporting an item that no other key has leaves no
\* reported item in the map (memcache.go:103, 150, cleaner.go:198).
LEMMA DeleteReports ==
    ASSUME CacheTypes, IdsInv, EvictedAreGone, UNCHANGED sets, NEW k \in Key, Delete(k),
           NEW item, Owned(<<k, item>>), evicted' \subseteq evicted \cup {item.id},
           \A r \in Reader : reader'[r] \in {reader[r], None},
           \A w \in Worker : worker'[w].found \subseteq worker[w].found
    PROVE  IdsInv' /\ EvictedAreGone'
<1>1. data' = [data EXCEPT ![k] = None] /\ data \in [Key -> Item \cup {None}]
    BY DEF Delete, CacheTypes
<1>2. \A l \in Key : data'[l] \in {data[l], None} /\ data'[k] = None
    BY <1>1
<1>3. \A l \in Key : Present(l)' => Present(l) /\ data'[l] = data[l] /\ l # k
    BY <1>1, <1>2 DEF Present
<1>4. \A f : Owned(f) => Owned(f)'
    BY <1>2, OwnedKept
<1>5. item.id <= sets /\ \A l \in Key : Present(l) /\ data[l].id = item.id => l = k
    BY DEF Owned
<1>6. EvictedAreGone'
    BY <1>3, <1>5 DEF EvictedAreGone
<1>7. \A r \in Reader : reader'[r] # None => Owned(reader[r])' /\ reader'[r] = reader[r]
    BY <1>4 DEF IdsInv
<1>8. \A w \in Worker : \A f \in worker'[w].found : Owned(f)'
    BY <1>4 DEF IdsInv
<1>9. \A i \in evicted' : i <= sets'
    BY <1>5 DEF IdsInv
<1>10. \A r \in Reader : (reader[r] # None => Owned(reader[r]))'
    BY <1>7 DEF Owned
<1>11. QED
    BY <1>3, <1>6, <1>8, <1>9, <1>10 DEF IdsInv

\* A Set gives its item a number that nothing has (memcache.go:83).
LEMMA SetIds ==
    ASSUME CacheTypes, CleanTypes, IdsInv, EvictedAreGone, NEW k \in Key, NEW ttl \in {0, 1}, Set(k, ttl)
    PROVE  IdsInv' /\ EvictedAreGone'
<1> DEFINE item == [id |-> sets + 1, expiration |-> clock + ttl]
<1>1. data' = [data EXCEPT ![k] = item] /\ sets' = sets + 1 /\ sets \in Nat
      /\ data \in [Key -> Item \cup {None}] /\ UNCHANGED <<reader, worker, evicted>>
    BY DEF Set, Store, CacheTypes
<1>2. data'[k] = item /\ \A l \in Key \ {k} : data'[l] = data[l]
    BY <1>1
<1>3. \A l \in Key : Present(l) => data[l].id \in Int /\ data[l].id <= sets
    BY <1>1 DEF IdsInv, Present, Item
<1>4. item.id = sets + 1
    OBVIOUS
<1> HIDE DEF item
<1>5. \A l \in Key : Present(l)' => \/ l = k /\ data'[l].id = sets + 1
                                    \/ l # k /\ Present(l) /\ data'[l] = data[l]
    BY <1>2, <1>4 DEF Present
<1>6. ASSUME NEW f, Owned(f), f[2].id \in Int PROVE Owned(f)'
    BY <1>1, <1>5, <1>6 DEF Owned
<1>7. ASSUME NEW r \in Reader, reader'[r] # None PROVE Owned(reader[r])'
    <2>1. PICK f : f = reader[r]
        OBVIOUS
    <2>2. Owned(f) /\ f[2].id \in Int /\ f = reader'[r]
        BY <1>1, <1>7, <2>1 DEF IdsInv, CacheTypes, Found, Item
    <2>3. Owned(f)'
        BY <1>6, <2>2
    <2>4. QED
        BY <2>2, <2>3 DEF Owned
<1>8. ASSUME NEW w \in Worker, NEW f \in worker'[w].found PROVE Owned(f)'
    <2>1. f \in worker[w].found
        BY <1>1, <1>8
    <2>2. Owned(f) /\ f \in Found
        BY <2>1 DEF IdsInv, CleanTypes, WorkerType
    <2>3. f[2].id \in Int
        BY <2>2 DEF Found, Item
    <2>4. QED
        BY <1>6, <2>2, <2>3
<1>9. \A i \in evicted' : i <= sets' /\ i <= sets
    BY <1>1 DEF IdsInv, CacheTypes
<1>10. EvictedAreGone'
    BY <1>1, <1>5, <1>9 DEF EvictedAreGone
<1>11. \A l \in Key : Present(l)' => data'[l].id <= sets'
    BY <1>1, <1>3, <1>5
<1>12. \A l, m \in Key : Present(l)' /\ Present(m)' /\ data'[l].id = data'[m].id => l = m
    BY <1>1, <1>3, <1>5 DEF IdsInv
<1>13. QED
    BY <1>7, <1>8, <1>9, <1>10, <1>11, <1>12 DEF IdsInv

\* Every step keeps the ids apart: a reader and a cleaning goroutine take note
\* only of items that are in the map (memcache.go:93, cleaner.go:175).
LEMMA IdsKept ==
    ASSUME TypeOK, CacheTypes, CleanTypes, IdsInv, EvictedAreGone, [Next]_vars
    PROVE  IdsInv' /\ EvictedAreGone'
<1> USE DEF Present
<1>1. ASSUME UNCHANGED <<sets, data, reader, evicted>>,
             \A w \in Worker : worker'[w].found \subseteq worker[w].found
      PROVE  IdsInv' /\ EvictedAreGone'
    BY <1>1 DEF IdsInv, EvictedAreGone, Owned
<1>2. CASE \/ UNCHANGED vars \/ Tick \/ Close \/ RangeLocksAgain \/ WriterWaits
           \/ (\E s \in Shard : RangeVisit(s))
           \/ SchedulerTick \/ ScheduleTask \/ ScheduleDone \/ SchedulerExit
    BY <1>1, <1>2 DEF vars, Tick, Close, RangeLocksAgain, WriterWaits, RangeVisit,
       SchedulerTick, ScheduleTask, ScheduleDone, SchedulerExit
<1>3. ASSUME NEW k \in Key, NEW ttl \in {0, 1}, Set(k, ttl)
      PROVE  IdsInv' /\ EvictedAreGone'
    BY <1>3, SetIds
<1>4. ASSUME NEW k \in Key, Del(k) PROVE IdsInv' /\ EvictedAreGone'
    <2>1. PICK item : item = data[k]
        OBVIOUS
    <2>2. Owned(<<k, item>>)
        BY <1>4, <2>1 DEF Del, IdsInv, Owned
    <2>3. evicted' = evicted \cup {item.id} /\ Delete(k) /\ UNCHANGED <<sets, reader, worker>>
        BY <1>4, <2>1 DEF Del, OnEvict
    <2>4. QED
        BY <2>2, <2>3, DeleteReports
<1>5. ASSUME NEW r \in Reader, GetDelete(r) PROVE IdsInv' /\ EvictedAreGone'
    <2>1. PICK f : f = reader[r]
        OBVIOUS
    <2>2. Owned(f) /\ f \in Found
        BY <1>5, <2>1 DEF GetDelete, IdsInv, CacheTypes
    <2>3. f[1] \in Key /\ f = <<f[1], f[2]>>
        BY <2>2 DEF Found
    <2>4. /\ Delete(f[1]) /\ evicted' = evicted \cup {f[2].id} /\ UNCHANGED <<sets, worker>>
          /\ \A q \in Reader : reader'[q] \in {reader[q], None}
        BY <1>5, <2>1 DEF GetDelete, OnEvict, CacheTypes
    <2>5. QED
        BY <2>2, <2>3, <2>4, DeleteReports
<1>6. ASSUME NEW r \in Reader, NEW k \in Key, GetExpired(r, k)
      PROVE  IdsInv' /\ EvictedAreGone'
    <2>1. /\ UNCHANGED <<sets, data, worker, evicted>> /\ data[k] # None
          /\ reader' = [reader EXCEPT ![r] = <<k, data[k]>>]
        BY <1>6 DEF GetExpired
    <2>2. ASSUME NEW q \in Reader, reader'[q] # None PROVE Owned(reader[q])'
        <3>1. CASE q = r
            <4>1. reader'[q] = <<k, data'[k]>>
                BY <2>1, <3>1 DEF CacheTypes
            <4>2. QED
                BY <2>1, <4>1 DEF IdsInv, Owned
        <3>2. CASE q # r
            BY <2>1, <2>2, <3>2 DEF IdsInv, Owned, CacheTypes
        <3>3. QED
            BY <3>1, <3>2
    <2>3. QED
        BY <2>1, <2>2 DEF IdsInv, EvictedAreGone, Owned
<1>7. ASSUME NEW w \in Worker, WorkerTakes(w) \/ TimerFires(w) \/ WorkerExit(w)
      PROVE  IdsInv' /\ EvictedAreGone'
    <2>1. \A v \in Worker : worker'[v].found \subseteq worker[v].found
        BY <1>7 DEF WorkerTakes, TimerFires, WorkerExit, IdleWorker, CleanTypes
    <2>2. QED
        BY <1>1, <1>7, <2>1 DEF WorkerTakes, TimerFires, WorkerExit
<1>8. ASSUME NEW w \in Worker, Scan(w) PROVE IdsInv' /\ EvictedAreGone'
    <2>1. UNCHANGED <<sets, data, reader, evicted>>
        BY <1>8 DEF Scan
    <2>2. ASSUME NEW v \in Worker, NEW f \in worker'[v].found
          PROVE  \/ f \in worker[v].found
                 \/ f \in Found /\ data[f[1]] = f[2]
        <3> DEFINE S == {g \in Found : /\ ShardOf[g[1]] = Head(worker[w].left)
                                       /\ data[g[1]] = g[2]
                                       /\ Expired(g[2], worker[w].now)}
        <3>1. \A g \in S : g \in Found /\ data[g[1]] = g[2]
            OBVIOUS
        <3>2. \/ worker' = [worker EXCEPT ![w].at = "delete", ![w].left = Tail(@), ![w].found = S]
              \/ worker' = [worker EXCEPT ![w] = IdleWorker("select")]
            BY <1>8 DEF Scan
        <3> HIDE DEF S
        <3>3. worker'[v].found \in {worker[v].found, S, {}}
            <4>1. worker \in [Worker -> WorkerType] /\ worker[v] \in WorkerType /\ worker[w] \in WorkerType
                BY DEF CleanTypes
            <4>2. CASE v # w
                BY <3>2, <4>1, <4>2
            <4>3. CASE v = w
                <5>1. \/ worker'[w].found = S
                      \/ worker'[w] = IdleWorker("select")
                    BY <3>2, <4>1 DEF WorkerType
                <5>2. QED
                    BY <4>3, <5>1 DEF IdleWorker
            <4>4. QED
                BY <4>2, <4>3
        <3>4. QED
            BY <2>2, <3>1, <3>3
    <2>3. ASSUME NEW f \in Found, data[f[1]] = f[2] PROVE Owned(f)
        <3>1. f[1] \in Key /\ f[2] # None
            BY NoneAssumption DEF Found
        <3>2. QED
            BY <2>3, <3>1 DEF IdsInv, Owned
    <2>4. \A v \in Worker : \A f \in worker'[v].found : Owned(f)
        BY <2>2, <2>3 DEF IdsInv
    <2>5. QED
        BY <2>1, <2>4 DEF IdsInv, EvictedAreGone, Owned
<1>9. ASSUME NEW w \in Worker, CleanDelete(w) PROVE IdsInv' /\ EvictedAreGone'
    <2>1. worker \in [Worker -> WorkerType] /\ UNCHANGED <<sets, reader>>
        BY <1>9 DEF CleanDelete, CleanTypes
    <2>2. ASSUME NEW f \in worker[w].found, Delete(f[1]),
                 worker' = [worker EXCEPT ![w].found = @ \ {f}],
                 IF mode = "sync" \/ Present(f[1]) THEN OnEvict(f[2]) ELSE UNCHANGED evicted
          PROVE  IdsInv' /\ EvictedAreGone'
        <3>1. Owned(f) /\ f \in Found
            BY <2>1 DEF IdsInv, WorkerType
        <3>2. f[1] \in Key /\ f = <<f[1], f[2]>>
            BY <3>1 DEF Found
        <3>3. evicted' \subseteq evicted \cup {f[2].id}
            BY <2>2 DEF OnEvict
        <3>4. \A v \in Worker : worker'[v].found \subseteq worker[v].found
            BY <2>1, <2>2 DEF WorkerType
        <3>5. QED
            BY <2>1, <2>2, <3>1, <3>2, <3>3, <3>4, DeleteReports
    <2>3. ASSUME worker' = [worker EXCEPT ![w].at = "scan"], UNCHANGED <<data, itemCount, evicted>>
          PROVE  IdsInv' /\ EvictedAreGone'
        <3>1. \A v \in Worker : worker'[v].found \subseteq worker[v].found
            BY <2>1, <2>3 DEF WorkerType
        <3>2. QED
            BY <1>1, <2>1, <2>3, <3>1
    <2>4. QED
        BY <1>9, <2>2, <2>3 DEF CleanDelete
<1>10. QED
    BY <1>2, <1>3, <1>4, <1>5, <1>6, <1>7, <1>8, <1>9 DEF Next
-----------------------------------------------------------------------------
\* Whatever clients, readers, the scheduler and the workers do in whatever
\* order, the number of items is right and no item given to onEvict is in the
\* cache (skipmap.go:76, 97, 116, memcache.go:103, cleaner.go:198).
THEOREM MemoryInvariant == Spec => []MemoryInv
<1>1. Init => InductiveInv
    BY InductiveInit
<1>2. InductiveInv /\ [Next]_vars => InductiveInv'
    <2> SUFFICES ASSUME InductiveInv, [Next]_vars PROVE InductiveInv'
        OBVIOUS
    <2>1. TypeOK /\ IdsInv /\ EvictedAreGone /\ itemCount = Cardinality(Stored)
        BY DEF InductiveInv, MemoryInv, EvictedAreGone, Stored
    <2>2. CacheTypes /\ CleanTypes
        BY <2>1 DEF TypeOK, CacheTypes, CleanTypes, SchedulerType, WorkerType
    <2>3. FlagTypes
        BY <2>1, Zenon DEF TypeOK, FlagTypes
    <2>4. IdsInv' /\ EvictedAreGone'
        BY <2>1, <2>2, IdsKept
    <2>5. CacheTypes' /\ CleanTypes' /\ FlagTypes'
        <3>1. CASE \/ Tick
                   \/ \E k \in Key : Del(k) \/ \E ttl \in {0, 1} : Set(k, ttl)
                   \/ \E r \in Reader : GetDelete(r) \/ \E k \in Key : GetExpired(r, k)
            BY <2>1, <2>2, <2>3, <3>1, ClientTypes, Zenon DEF CleanTypes, FlagTypes
        <3>2. CASE SchedulerTick \/ ScheduleTask \/ ScheduleDone \/ SchedulerExit
            BY <2>2, <2>3, <3>2, SchedulerTypes, CacheTypesKept, Zenon DEF FlagTypes
        <3>3. ASSUME NEW w \in Worker, WorkerTakes(w) \/ TimerFires(w) \/ Scan(w) \/ WorkerExit(w)
              PROVE  CacheTypes' /\ CleanTypes' /\ FlagTypes'
            BY <2>2, <2>3, <3>3, WorkerTypes, CacheTypesKept, Zenon DEF FlagTypes
        <3>4. ASSUME NEW w \in Worker, CleanDelete(w)
              PROVE  CacheTypes' /\ CleanTypes' /\ FlagTypes'
            BY <2>1, <2>2, <2>3, <3>4, CleanDeleteTypes, Zenon DEF FlagTypes
        <3>5. CASE \/ UNCHANGED vars \/ Close \/ RangeLocksAgain \/ WriterWaits
                   \/ \E s \in Shard : RangeVisit(s)
            <4>1. /\ UNCHANGED <<mode, clock, sets, data, itemCount, reader, evicted>>
                  /\ UNCHANGED <<taskQueue, scheduler, worker>>
                BY <3>5 DEF vars, Close, RangeLocksAgain, WriterWaits, RangeVisit
            <4>2. FlagTypes'
                BY <2>3, <3>5, Zenon DEF FlagTypes, vars, Close, RangeLocksAgain, WriterWaits, RangeVisit
            <4>3. QED
                BY <2>2, <4>1, <4>2, CacheTypesKept DEF CleanTypes
        <3>6. QED
            BY <3>1, <3>2, <3>3, <3>4, <3>5 DEF Next
    <2>6. TypeOK'
        BY <2>5, Zenon DEF TypeOK, CacheTypes, CleanTypes, FlagTypes, SchedulerType, WorkerType
    <2>7. QED
        BY <2>4, <2>5, <2>6 DEF InductiveInv, MemoryInv, EvictedAreGone, CacheTypes, Stored
<1>3. InductiveInv => MemoryInv
    BY DEF InductiveInv
<1>4. QED
    BY <1>1, <1>2, <1>3, PTL DEF Spec
=============================================================================
