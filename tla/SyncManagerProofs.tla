-------------------------- MODULE SyncManagerProofs ---------------------------
(***************************************************************************)
(* Proofs about the synchronisation between nodes: processingMap holds the *)
(* ranges being worked on, each by one goroutine, and the queue is sorted  *)
(* (SyncInv), for any number of restarts; and a synchronisation that has   *)
(* come to its end has brought what it was triggered for (DrainedIsFresh). *)
(***************************************************************************)
EXTENDS SyncManager, SequenceTheorems, WellFoundedInduction, TLAPS

Val == 0 .. MaxWrites + 1
Item == [key : Key, value : Val]
Busy == [at : {"begin", "handle", "apply", "cleanup"}, task : Task, key : Key,
         items : Seq(Item), next : 0 .. KeyCount]

TypeOK ==
    /\ starts \in Nat /\ writes \in 1 .. MaxWrites + 1
    /\ loop \in [Loop -> {"off", "select", "wait"}]
    /\ queue \in Seq(Task)
    /\ worker \in [Worker -> {Idle} \cup Busy]
    /\ peer \in [Peer -> [Key -> Val]]
    /\ due \in [Peer -> [Key -> Val]]
    /\ brought \in [Peer -> [Key -> Val]]
    /\ cache \in [Key -> Val]

\* A loop that does not wait has no goroutines, and one that was not started
\* does nothing.
LoopsOK ==
    /\ \A l \in Loop : loop[l] # "wait" => \A w \in Worker : w[1] = l => worker[w] = Idle
    /\ \A l \in Loop : l > starts => loop[l] = "off"

MarksOK ==
    /\ processing = {TaskKey(worker[w].task) : w \in {v \in Worker : InSync(v)}}
    /\ \A v, w \in Worker :
          InSync(v) /\ InSync(w) /\ TaskKey(worker[v].task) = TaskKey(worker[w].task) => v = w

Sorted(q) == \A i \in 1 .. Len(q) - 1 : q[i].priority >= q[i + 1].priority

SInv == TypeOK /\ LoopsOK /\ MarksOK /\ Sorted(queue)
-----------------------------------------------------------------------------
(***************************************************************************)
(* The queue.                                                              *)
(***************************************************************************)
\* A set of positions that is not empty has a largest one.
LEMMA LastPosition ==
    ASSUME NEW n \in Nat, NEW I, I \subseteq 0 .. n, I # {}
    PROVE  Max(I) \in I /\ \A j \in I : j <= Max(I)
<1> DEFINE D == {n - i : i \in I}
<1>1. D \subseteq Nat /\ D # {}
  <2>1. \A i \in I : n - i \in Nat
    OBVIOUS
  <2> QED
    BY <2>1, Zenon
<1>2. PICK d \in D : \A c \in D : <<c, d>> \notin OpToRel(<, Nat)
  <2> HIDE DEF D
  <2> QED
    BY <1>1, WFMin, NatLessThanWellFounded, Zenon
<1>3. \A c \in D : ~(c < d)
  <2> HIDE DEF D
  <2> QED
    BY <1>1, <1>2, Zenon DEF OpToRel
<1>4. PICK i \in I : d = n - i
  BY Zenon
<1>5. \A j \in I : ~(n - j < n - i)
  BY <1>3, <1>4, Zenon
<1>6. \A j \in I : j \in Nat /\ i \in Nat
  OBVIOUS
<1>7. \A j \in I : i >= j
  BY <1>5, <1>6
<1>8. Max(I) \in I /\ \A j \in I : Max(I) >= j
  BY <1>7, Zenon DEF Max
<1> QED
  BY <1>6, <1>8, Zenon

\* Where QueueSyncTask puts a task (sync.go:169-206).
LEMMA QueueInserts ==
    ASSUME NEW q \in Seq(Task), NEW t \in Task
    PROVE  LET r == QueueSyncTask(q, t)
           IN  \E i \in 0 .. Len(q) :
                 /\ r \in Seq(Task) /\ Len(r) = Len(q) + 1 /\ r[i + 1] = t
                 /\ \A j \in 1 .. i : r[j] = q[j]
                 /\ \A j \in i + 1 .. Len(q) : r[j + 1] = q[j]
                 /\ i > 0 => q[i].priority >= t.priority
                 /\ \A j \in i + 1 .. Len(q) : ~(q[j].priority >= t.priority)
<1> DEFINE I == {0} \cup {j \in DOMAIN q : q[j].priority >= t.priority}
           i == Max(I)
           a == SubSeq(q, 1, i)
           b == SubSeq(q, i + 1, Len(q))
           r == QueueSyncTask(q, t)
<1>1. Len(q) \in Nat /\ I \subseteq 0 .. Len(q) /\ I # {}
  OBVIOUS
<1>2. i \in I /\ \A j \in I : j <= i
  <2> HIDE DEF I
  <2> QED
    BY <1>1, LastPosition, Zenon
<1>3. r = a \o <<t>> \o b
  BY Zenon DEF QueueSyncTask
<1>4. i \in 0 .. Len(q)
  BY <1>1, <1>2, Zenon
<1>5. i > 0 => q[i].priority >= t.priority
  BY <1>2
<1>6. \A j \in i + 1 .. Len(q) : ~(q[j].priority >= t.priority)
  <2> TAKE j \in i + 1 .. Len(q)
  <2>1. j \notin I
    BY <1>2, <1>4
  <2> QED
    BY <1>4, <2>1
<1> HIDE DEF i, I
<1>7. a \in Seq(Task) /\ Len(a) = i /\ \A j \in 1 .. i : a[j] = q[j]
  BY <1>4
<1>8. b \in Seq(Task) /\ Len(b) = Len(q) - i /\ \A j \in 1 .. Len(q) - i : b[j] = q[i + j]
  BY <1>4
<1> HIDE DEF a, b, r
<1>9. r \in Seq(Task) /\ Len(r) = Len(q) + 1
  <2> DEFINE u == a \o <<t>>
  <2>1. u \in Seq(Task) /\ Len(u) = i + 1
    BY <1>7
  <2>2. r = u \o b
    BY <1>3, Zenon
  <2> HIDE DEF u
  <2>3. r \in Seq(Task) /\ Len(r) = Len(u) + Len(b)
    BY <1>8, <2>1, <2>2, ConcatProperties, Zenon
  <2> QED
    BY <1>1, <1>4, <1>8, <2>1, <2>3
<1>10. r[i + 1] = t /\ \A j \in 1 .. i : r[j] = q[j]
  BY <1>1, <1>3, <1>4, <1>7, <1>8
<1>11. ASSUME NEW j \in i + 1 .. Len(q) PROVE r[j + 1] = q[j]
  <2>1. r[j + 1] = b[j - i]
    BY <1>1, <1>3, <1>4, <1>7, <1>8
  <2>2. j - i \in 1 .. Len(q) - i /\ i + (j - i) = j
    BY <1>1, <1>4
  <2> QED
    BY <1>8, <2>1, <2>2, ConcatProperties, Zenon
<1> QED
  BY <1>4, <1>5, <1>6, <1>9, <1>10, <1>11, Zenon DEF r

\* Queueing keeps the order of the priorities and every task.
LEMMA QueueKeeps ==
    ASSUME NEW q \in Seq(Task), NEW t \in Task
    PROVE  /\ QueueSyncTask(q, t) \in Seq(Task)
           /\ Sorted(q) => Sorted(QueueSyncTask(q, t))
           /\ \E m \in DOMAIN QueueSyncTask(q, t) : QueueSyncTask(q, t)[m] = t
           /\ \A j \in DOMAIN q : \E m \in DOMAIN QueueSyncTask(q, t) :
                                     QueueSyncTask(q, t)[m] = q[j]
<1> DEFINE r == QueueSyncTask(q, t)
<1>1. PICK i \in 0 .. Len(q) :
         /\ r \in Seq(Task) /\ Len(r) = Len(q) + 1 /\ r[i + 1] = t
         /\ \A j \in 1 .. i : r[j] = q[j]
         /\ \A j \in i + 1 .. Len(q) : r[j + 1] = q[j]
         /\ i > 0 => q[i].priority >= t.priority
         /\ \A j \in i + 1 .. Len(q) : ~(q[j].priority >= t.priority)
  BY QueueInserts, Zenon
<1> HIDE DEF r
<1>2. Len(q) \in Nat /\ DOMAIN q = 1 .. Len(q) /\ DOMAIN r = 1 .. Len(q) + 1
  BY <1>1
<1>3. \E m \in DOMAIN r : r[m] = t
  BY <1>1, <1>2
<1>4. ASSUME NEW j \in DOMAIN q PROVE \E m \in DOMAIN r : r[m] = q[j]
  <2>1. CASE j \in 1 .. i
    BY <1>1, <1>2, <2>1
  <2>2. CASE j \in i + 1 .. Len(q)
    <3>1. j + 1 \in DOMAIN r /\ r[j + 1] = q[j]
      BY <1>1, <1>2, <2>2
    <3> QED
      BY <3>1, Zenon
  <2> QED
    BY <1>2, <2>1, <2>2
<1>5. \A j \in DOMAIN q : q[j].priority \in Nat
  <2> TAKE j \in DOMAIN q
  <2>1. q[j] \in Task
    OBVIOUS
  <2> QED
    BY <2>1 DEF Task
<1>6. t.priority \in Nat
  BY DEF Task
<1>7. ASSUME Sorted(q), NEW j \in 1 .. Len(r) - 1 PROVE r[j].priority >= r[j + 1].priority
  <2>0. j \in 1 .. Len(q) /\ j \in Nat
    BY <1>1, <1>2
  <2>1. CASE j < i
    <3>1. r[j] = q[j] /\ r[j + 1] = q[j + 1] /\ j \in 1 .. Len(q) - 1
      BY <1>1, <1>2, <2>0, <2>1
    <3> QED
      BY <1>7, <3>1, Zenon DEF Sorted
  <2>2. CASE j = i
    <3>1. r[j] = q[j] /\ r[j + 1] = t
      BY <1>1, <2>0, <2>2
    <3> QED
      BY <1>1, <2>0, <2>2, <3>1
  <2>3. CASE j = i + 1
    <3>1. r[j] = t /\ r[j + 1] = q[j] /\ j \in i + 1 .. Len(q) /\ j \in DOMAIN q
      BY <1>1, <1>2, <2>0, <2>3
    <3>2. ~(q[j].priority >= t.priority)
      BY <1>1, <3>1, Zenon
    <3>3. q[j].priority \in Nat
      BY <1>5, <3>1, Zenon
    <3>4. t.priority >= q[j].priority
      BY <1>6, <3>2, <3>3
    <3> QED
      BY <3>1, <3>4, Zenon
  <2>4. CASE j > i + 1
    <3>1. j - 1 \in i + 1 .. Len(q) /\ j \in i + 1 .. Len(q) /\ j - 1 \in 1 .. Len(q) - 1
          /\ (j - 1) + 1 = j
      BY <1>1, <1>2, <2>0, <2>4
    <3>2. r[(j - 1) + 1] = q[j - 1] /\ r[j + 1] = q[j]
      BY <1>1, <3>1, Zenon
    <3>3. q[j - 1].priority >= q[(j - 1) + 1].priority
      BY <1>7, <3>1, Zenon DEF Sorted
    <3> QED
      BY <3>1, <3>2, <3>3, Zenon
  <2> QED
    BY <1>1, <2>0, <2>1, <2>2, <2>3, <2>4
<1>8. Sorted(q) => Sorted(r)
  BY <1>7, Zenon DEF Sorted
<1> QED
  BY <1>1, <1>3, <1>4, <1>8, Zenon DEF r
-----------------------------------------------------------------------------
(***************************************************************************)
(* processingMap and the queue.                                            *)
(***************************************************************************)
\* A goroutine at work has a task.
LEMMA AtWork ==
    ASSUME TypeOK, NEW w \in Worker, worker[w].at # "idle"
    PROVE  worker[w] \in Busy /\ worker[w] # Idle
BY DEF TypeOK, Idle

\* The parts of a goroutine's state.
LEMMA BusyParts ==
    ASSUME NEW x \in Busy
    PROVE  /\ x.at \in {"begin", "handle", "apply", "cleanup"} /\ x.task \in Task /\ x.key \in Key
           /\ x.items \in Seq(Item) /\ x.next \in 0 .. KeyCount
           /\ x # Idle /\ x.at # "idle"
BY DEF Busy, Idle

\* A goroutine goes from one place to another.
LEMMA Moves ==
    ASSUME NEW x \in Busy, NEW at \in {"handle", "apply", "cleanup"}
    PROVE  /\ [x EXCEPT !.at = at] \in Busy /\ [x EXCEPT !.at = at].at = at
           /\ [x EXCEPT !.at = at].task = x.task /\ [x EXCEPT !.at = at].items = x.items
           /\ [x EXCEPT !.at = at].next = x.next /\ [x EXCEPT !.at = at].key = x.key
BY Zenon DEF Busy

\* A goroutine that goes on with its task leaves processingMap as it is.
LEMMA MarksKept ==
    ASSUME TypeOK, MarksOK, NEW w \in Worker, InSync(w), NEW x, GoesOn(w, x),
           x.at \notin {"idle", "begin"}, x.task = worker[w].task, processing' = processing
    PROVE  MarksOK'
<1>1. \A v \in Worker : worker'[v] = IF v = w THEN x ELSE worker[v]
  BY Zenon DEF GoesOn, TypeOK
<1>2. \A v \in Worker : InSync(v)' <=> InSync(v)
  BY <1>1, Zenon DEF InSync
<1>3. \A v \in Worker : worker'[v].task = worker[v].task
  BY <1>1, Zenon
<1>4. {v \in Worker : InSync(v)'} = {v \in Worker : InSync(v)}
  BY <1>2, Zenon
<1>5. {TaskKey(worker'[v].task) : v \in {u \in Worker : InSync(u)'}}
        = {TaskKey(worker[v].task) : v \in {u \in Worker : InSync(u)}}
  BY <1>3, <1>4, Zenon
<1>6. \A v, u \in Worker :
         InSync(v)' /\ InSync(u)' /\ TaskKey(worker'[v].task) = TaskKey(worker'[u].task)
                => v = u
  BY <1>2, <1>3, Zenon DEF MarksOK
<1> QED
  BY <1>5, <1>6, Zenon DEF MarksOK

\* The goroutines of a loop are at work while the loop waits.
LEMMA LoopsKept ==
    ASSUME TypeOK, LoopsOK, NEW w \in Worker, worker[w] # Idle, NEW x, GoesOn(w, x),
           UNCHANGED <<loop, starts>>
    PROVE  LoopsOK'
<1>1. w[1] \in Loop
  BY Zenon DEF Worker
<1>2. loop[w[1]] = "wait"
  BY <1>1, Zenon DEF LoopsOK
<1>3. \A v \in Worker : v # w => worker'[v] = worker[v]
  BY Zenon DEF GoesOn, TypeOK
<1>4. \A l \in Loop : loop[l] # "wait" => \A v \in Worker : v[1] = l => worker'[v] = Idle
  BY <1>2, <1>3, Zenon DEF LoopsOK
<1> QED
  BY <1>4, Zenon DEF LoopsOK

\* A goroutine that changes within its type.
LEMMA WorkerKept ==
    ASSUME TypeOK, NEW w \in Worker, NEW x \in {Idle} \cup Busy, GoesOn(w, x)
    PROVE  worker' \in [Worker -> {Idle} \cup Busy]
BY Zenon DEF TypeOK, GoesOn

\* A value of a node changes.
LEMMA SetCell ==
    ASSUME NEW f \in [Peer -> [Key -> Val]], NEW n \in Peer, NEW k \in Key, NEW v \in Val
    PROVE  /\ [f EXCEPT ![n][k] = v] \in [Peer -> [Key -> Val]]
           /\ \A m \in Peer, j \in Key :
                 [f EXCEPT ![n][k] = v][m][j] = IF m = n /\ j = k THEN v ELSE f[m][j]
BY Zenon

\* The types hold at the start.
LEMMA TypeInit == Init => TypeOK
<1> SUFFICES ASSUME Init PROVE TypeOK
  BY Zenon
<1>1. 0 \in Val /\ 1 \in Val /\ 1 \in 1 .. MaxWrites + 1
  BY SyncAssumption DEF Val
<1>2. peer \in [Peer -> [Key -> Val]]
  <2>1. [Key -> {0, 1}] \subseteq [Key -> Val]
    BY <1>1, Zenon
  <2> QED
    BY <2>1, SyncAssumption, Zenon DEF Init
<1> QED
  BY <1>1, <1>2 DEF Init, TypeOK, Nothing

\* What holds at the start.
LEMMA SInvInit == Init => SInv
<1> SUFFICES ASSUME Init PROVE SInv
  BY Zenon
<1>1. LoopsOK
  BY Zenon DEF Init, LoopsOK
<1>2. MarksOK
  <2>1. \A w \in Worker : ~InSync(w)
    BY Zenon DEF Init, InSync, Idle
  <2> QED
    BY <2>1, Zenon DEF Init, MarksOK
<1>3. Sorted(queue)
  BY DEF Init, Sorted
<1> QED
  BY <1>1, <1>2, <1>3, TypeInit, Zenon DEF SInv

\* The task that asks for everything of a node.
LEMMA WholeTask ==
    ASSUME NEW n \in Peer, NEW p \in {1, 2}
    PROVE  [node |-> n, range |-> All, priority |-> p] \in Task
BY SyncAssumption DEF Task, KeyRange, All

\* The task for the next page.
LEMMA NextPageTask ==
    ASSUME NEW x \in Busy
    PROVE  /\ NextPage(x) \in Task /\ NextPage(x).node = x.task.node
           /\ NextPage(x).range.start = x.next /\ NextPage(x).range.end = x.task.range.end
BY BusyParts, Zenon DEF NextPage, Task, KeyRange

\* The parts of what the peer's handler leaves (sync.go:364-404).
LEMMA HandlerStep ==
    ASSUME TypeOK, NEW w \in Worker, HandleSyncRequest(w)
    PROVE  LET x == worker[w]
               items == IF InRange(x.key, x.task.range) /\ peer[x.task.node][x.key] # 0
                          THEN Append(x.items, [key |-> x.key, value |-> peer[x.task.node][x.key]])
                          ELSE x.items
           IN  /\ x \in Busy /\ x.at = "handle" /\ items \in Seq(Item)
               /\ \E y \in Busy :
                     /\ GoesOn(w, y) /\ y.task = x.task /\ y.items = items
                     /\ \/ y.at = "apply" /\ y.next = x.key
                        \/ y.at = "apply" /\ x.key = KeyCount
                        \/ y.at = "handle" /\ y.key = x.key + 1
<1> DEFINE x == worker[w]
           v == peer[x.task.node][x.key]
           e == [key |-> x.key, value |-> v]
           items == IF InRange(x.key, x.task.range) /\ v # 0 THEN Append(x.items, e) ELSE x.items
<1>1. x \in Busy /\ x.at = "handle"
  BY AtWork, Zenon DEF HandleSyncRequest
<1>2. x.task \in Task /\ x.key \in Key /\ x.items \in Seq(Item) /\ x.next \in 0 .. KeyCount
  BY <1>1, BusyParts, Zenon
<1>3. v \in Val
  BY <1>2, Zenon DEF TypeOK, Task
<1>4. e \in Item
  <2> HIDE DEF x, v
  <2> QED
    BY <1>2, <1>3, Zenon DEF Item
<1>5. items \in Seq(Item)
  <2> HIDE DEF e, v
  <2> QED
    BY <1>2, <1>4
<1>6. GoesOn(w, IF Len(items) >= MaxItems THEN PageFull(x, items)
                ELSE IF x.key = KeyCount THEN PageLast(x, items)
                ELSE [x EXCEPT !.items = items, !.key = x.key + 1])
  BY Zenon DEF HandleSyncRequest
<1> HIDE DEF items, x
<1>7. x.key \in 0 .. KeyCount /\ (x.key # KeyCount => x.key + 1 \in Key)
  BY <1>2, SyncAssumption DEF Key
<1>8. PageFull(x, items) \in Busy /\ PageFull(x, items).task = x.task
      /\ PageFull(x, items).items = items /\ PageFull(x, items).at = "apply"
      /\ PageFull(x, items).next = x.key
  BY <1>1, <1>5, <1>7, Zenon DEF PageFull, Busy
<1>9. PageLast(x, items) \in Busy /\ PageLast(x, items).task = x.task
      /\ PageLast(x, items).items = items /\ PageLast(x, items).at = "apply"
  BY <1>1, <1>5, Zenon DEF PageLast, Busy
<1>10. ASSUME x.key # KeyCount
       PROVE  LET y == [x EXCEPT !.items = items, !.key = x.key + 1]
              IN  y \in Busy /\ y.task = x.task /\ y.items = items /\ y.at = "handle"
                  /\ y.key = x.key + 1
  BY <1>1, <1>5, <1>7, <1>10, Zenon DEF Busy
<1>11. \E y \in Busy :
          /\ GoesOn(w, y) /\ y.task = x.task /\ y.items = items
          /\ \/ y.at = "apply" /\ y.next = x.key
             \/ y.at = "apply" /\ x.key = KeyCount
             \/ y.at = "handle" /\ y.key = x.key + 1
  <2>1. CASE Len(items) >= MaxItems
    BY <1>6, <1>8, <2>1, Zenon
  <2>2. CASE ~(Len(items) >= MaxItems) /\ x.key = KeyCount
    BY <1>6, <1>9, <2>2, Zenon
  <2>3. CASE ~(Len(items) >= MaxItems) /\ x.key # KeyCount
    BY <1>6, <1>10, <2>3, Zenon
  <2> QED
    BY <2>1, <2>2, <2>3, Zenon
<1> QED
  BY <1>1, <1>5, <1>11, Zenon DEF items, x

\* Every step keeps the types.
LEMMA TypeStep == ASSUME TypeOK, [Next]_vars PROVE TypeOK'
<1>1. CASE Start
  <2>1. starts' \in Nat
    BY <1>1 DEF Start, TypeOK
  <2>2. loop' \in [Loop -> {"off", "select", "wait"}]
    BY <1>1, Zenon DEF Start, TypeOK
  <2> QED
    BY <1>1, <2>1, <2>2, Zenon DEF Start, TypeOK
<1>2. CASE Stop
  BY <1>2, Zenon DEF Stop, TypeOK
<1>3. CASE TriggerFullSync
  BY <1>3, Zenon DEF TriggerFullSync, TypeOK
<1>4. ASSUME NEW n \in Peer, NEW p \in {1, 2}, QueueAll(n, p) PROVE TypeOK'
  <2>1. queue' \in Seq(Task)
    BY <1>4, WholeTask, QueueKeeps, Zenon DEF QueueAll, TypeOK
  <2>2. due' \in [Peer -> [Key -> Val]]
    BY <1>4, Zenon DEF QueueAll, TypeOK
  <2> QED
    BY <1>4, <2>1, <2>2, Zenon DEF QueueAll, TypeOK
<1>5. ASSUME NEW n \in Peer, NEW k \in Key, PeerChanges(n, k) PROVE TypeOK'
  <2>1. writes' \in 1 .. MaxWrites + 1 /\ writes + 1 \in Val /\ 0 \in Val
    BY <1>5, SyncAssumption DEF PeerChanges, TypeOK, Val
  <2>2. /\ peer \in [Peer -> [Key -> Val]] /\ due \in [Peer -> [Key -> Val]]
        /\ \/ peer' = [peer EXCEPT ![n][k] = writes + 1] /\ due' = due
           \/ peer' = [peer EXCEPT ![n][k] = 0] /\ due' = [due EXCEPT ![n][k] = 0]
    BY <1>5, Zenon DEF PeerChanges, TypeOK
  <2>3. peer' \in [Peer -> [Key -> Val]] /\ due' \in [Peer -> [Key -> Val]]
    <3>1. CASE peer' = [peer EXCEPT ![n][k] = writes + 1] /\ due' = due
      BY <2>1, <2>2, <3>1, SetCell, Zenon
    <3>2. CASE peer' = [peer EXCEPT ![n][k] = 0] /\ due' = [due EXCEPT ![n][k] = 0]
      BY <2>1, <2>2, <3>2, SetCell, Zenon
    <3> QED
      BY <2>2, <3>1, <3>2, Zenon
  <2> QED
    BY <1>5, <2>1, <2>3, Zenon DEF PeerChanges, TypeOK
<1>6. ASSUME NEW l \in Loop, LoopExit(l) PROVE TypeOK'
  BY <1>6, Zenon DEF LoopExit, TypeOK
<1>7. ASSUME NEW l \in Loop, processSyncTasks(l) PROVE TypeOK'
  <2> DEFINE c == Min({Concurrency, Len(queue)})
  <2>1. c \in 1 .. Len(queue) /\ queue \in Seq(Task)
    <3>1. Concurrency \in Nat \ {0} /\ Len(queue) \in Nat \ {0}
      BY <1>7, SyncAssumption DEF processSyncTasks, TypeOK
    <3>2. c \in {Concurrency, Len(queue)} /\ \A m \in {Concurrency, Len(queue)} : c <= m
      BY <3>1 DEF Min
    <3> QED
      BY <3>1, <3>2 DEF TypeOK
  <2>2. worker' = [w \in Worker |-> IF w[1] = l /\ w[2] <= c
                                    THEN Working(queue[w[2]], "begin") ELSE worker[w]]
        /\ queue' = SubSeq(queue, c + 1, Len(queue))
    BY <1>7, Zenon DEF processSyncTasks
  <2> HIDE DEF c
  <2>3. queue' \in Seq(Task)
    BY <2>1, <2>2
  <2>4. \A t \in Task : Working(t, "begin") \in Busy
    BY SyncAssumption DEF Working, Busy, Key
  <2>5. \A w \in Worker : w[2] <= c => queue[w[2]] \in Task
    <3> TAKE w \in Worker
    <3>1. w[2] \in 1 .. Concurrency
      BY Zenon DEF Worker
    <3> QED
      BY <2>1, <3>1, SyncAssumption
  <2>6. worker' \in [Worker -> {Idle} \cup Busy]
    BY <2>2, <2>4, <2>5, Zenon DEF TypeOK
  <2> QED
    BY <1>7, <2>3, <2>6, Zenon DEF processSyncTasks, TypeOK
<1>8. ASSUME NEW l \in Loop, LoopWaited(l) PROVE TypeOK'
  BY <1>8, Zenon DEF LoopWaited, TypeOK
<1>9. ASSUME NEW w \in Worker, SyncBegin(w) PROVE TypeOK'
  <2>1. worker[w] \in Busy
    BY <1>9, AtWork, Zenon DEF SyncBegin
  <2>2. worker' \in [Worker -> {Idle} \cup Busy]
    BY <1>9, <2>1, Moves, WorkerKept, Zenon DEF SyncBegin
  <2> QED
    BY <1>9, <2>2, Zenon DEF SyncBegin, TypeOK
<1>10. ASSUME NEW w \in Worker, SendFails(w) PROVE TypeOK'
  <2>1. worker[w] \in Busy
    BY <1>10, AtWork, Zenon DEF SendFails
  <2>2. worker' \in [Worker -> {Idle} \cup Busy]
    BY <1>10, <2>1, Moves, WorkerKept, Zenon DEF SendFails
  <2>3. 0 \in Val
    BY SyncAssumption DEF Val
  <2>4. due' \in [Peer -> [Key -> Val]]
    BY <1>10, <2>3, Zenon DEF SendFails, TypeOK
  <2> QED
    BY <1>10, <2>2, <2>4, Zenon DEF SendFails, TypeOK
<1>11. ASSUME NEW w \in Worker, HandleSyncRequest(w) PROVE TypeOK'
  <2>1. \E y \in Busy : GoesOn(w, y)
    BY <1>11, HandlerStep, Zenon
  <2>2. worker' \in [Worker -> {Idle} \cup Busy]
    BY <2>1, WorkerKept, Zenon
  <2> QED
    BY <1>11, <2>2, Zenon DEF HandleSyncRequest, TypeOK
<1>12. ASSUME NEW w \in Worker, ApplyItem(w) PROVE TypeOK'
  <2> DEFINE x == worker[w]
             y == [x EXCEPT !.items = Tail(x.items)]
             i == Head(x.items)
  <2>1. x \in Busy
    BY <1>12, AtWork, Zenon DEF ApplyItem
  <2>2. x.items \in Seq(Item) /\ x.items # <<>> /\ x.task \in Task
    BY <1>12, <2>1, BusyParts, Zenon DEF ApplyItem
  <2>3. i \in Item /\ Tail(x.items) \in Seq(Item)
    BY <2>2
  <2>4. GoesOn(w, y) /\ cache' = [cache EXCEPT ![i.key] = i.value]
        /\ brought' = [brought EXCEPT ![x.task.node][i.key] = i.value]
    BY <1>12, Zenon DEF ApplyItem
  <2> HIDE DEF x, i
  <2>5. y \in Busy
    BY <2>1, <2>3, Zenon DEF Busy
  <2>6. i.key \in Key /\ i.value \in Val
    BY <2>3, Zenon DEF Item
  <2>7. worker' \in [Worker -> {Idle} \cup Busy]
    BY <2>4, <2>5, WorkerKept, Zenon
  <2>8. cache' \in [Key -> Val] /\ brought' \in [Peer -> [Key -> Val]]
    BY <2>4, <2>6, Zenon DEF TypeOK
  <2> QED
    BY <1>12, <2>7, <2>8, Zenon DEF ApplyItem, TypeOK
<1>13. ASSUME NEW w \in Worker, QueueNextPage(w) PROVE TypeOK'
  <2> DEFINE x == worker[w]
             t == NextPage(x)
  <2>1. x \in Busy
    BY <1>13, AtWork, Zenon DEF QueueNextPage
  <2>3. t \in Task
    BY <2>1, NextPageTask, Zenon
  <2>4. queue' = queue \/ queue' = QueueSyncTask(queue, t)
    BY <1>13, Zenon DEF QueueNextPage
  <2> HIDE DEF t
  <2>5. queue' \in Seq(Task)
    BY <2>3, <2>4, QueueKeeps, Zenon DEF TypeOK
  <2>6. worker' \in [Worker -> {Idle} \cup Busy]
    BY <1>13, <2>1, Moves, WorkerKept, Zenon DEF QueueNextPage
  <2> QED
    BY <1>13, <2>5, <2>6, Zenon DEF QueueNextPage, TypeOK
<1>14. ASSUME NEW w \in Worker, SyncCleanup(w) PROVE TypeOK'
  <2>1. worker' \in [Worker -> {Idle} \cup Busy]
    BY <1>14, WorkerKept, Zenon DEF SyncCleanup
  <2> QED
    BY <1>14, <2>1, Zenon DEF SyncCleanup, TypeOK
<1>15. CASE UNCHANGED vars
  BY <1>15, Zenon DEF vars, TypeOK
<1> QED
  BY <1>1, <1>2, <1>3, <1>4, <1>5, <1>6, <1>7, <1>8, <1>9, <1>10, <1>11, <1>12, <1>13, <1>14,
     <1>15, Zenon
     DEF Next, syncToNode, TriggerSync, FullSyncQueues

\* Every step keeps what holds of the loops, of processingMap and of the queue.
LEMMA SInvStep == ASSUME SInv, [Next]_vars PROVE SInv'
<1> SUFFICES LoopsOK' /\ MarksOK' /\ Sorted(queue')
  BY TypeStep, Zenon DEF SInv
<1>a. TypeOK /\ LoopsOK /\ MarksOK /\ Sorted(queue)
  BY Zenon DEF SInv
<1>l. UNCHANGED <<worker, loop, starts>> => LoopsOK'
  BY <1>a, Zenon DEF LoopsOK
<1>m. UNCHANGED <<worker, processing>> => MarksOK'
  BY <1>a, Zenon DEF MarksOK, InSync
<1>1. CASE Start
  <2>1. starts \in Nat /\ starts' = starts + 1 /\ starts' > starts
    BY <1>1, <1>a DEF Start, TypeOK
  <2>2. ASSUME NEW l \in Loop, loop'[l] # "wait" PROVE loop[l] # "wait"
    BY <1>1, <1>a, <2>1, <2>2, Zenon DEF Start, LoopsOK, TypeOK
  <2>3. ASSUME NEW l \in Loop, l > starts' PROVE loop'[l] = "off"
    <3>1. l # starts + 1 /\ l > starts
      BY <2>1, <2>3 DEF Loop
    <3> QED
      BY <1>1, <1>a, <3>1, Zenon DEF Start, LoopsOK, TypeOK
  <2>4. worker' = worker
    BY <1>1, Zenon DEF Start
  <2>5. LoopsOK'
    BY <1>a, <2>2, <2>3, <2>4, Zenon DEF LoopsOK
  <2> QED
    BY <1>1, <1>a, <1>m, <2>5, Zenon DEF Start
<1>2. CASE Stop
  BY <1>2, <1>a, <1>l, <1>m, Zenon DEF Stop
<1>3. CASE TriggerFullSync
  BY <1>3, <1>a, <1>l, <1>m, Zenon DEF TriggerFullSync
<1>4. ASSUME NEW n \in Peer, NEW p \in {1, 2}, QueueAll(n, p)
      PROVE  LoopsOK' /\ MarksOK' /\ Sorted(queue')
  <2>1. Sorted(queue')
    BY <1>4, <1>a, WholeTask, QueueKeeps, Zenon DEF QueueAll, TypeOK
  <2> QED
    BY <1>4, <1>l, <1>m, <2>1, Zenon DEF QueueAll
<1>5. ASSUME NEW n \in Peer, NEW k \in Key, PeerChanges(n, k)
      PROVE  LoopsOK' /\ MarksOK' /\ Sorted(queue')
  BY <1>5, <1>a, <1>l, <1>m, Zenon DEF PeerChanges
<1>6. ASSUME NEW l \in Loop, LoopExit(l) \/ LoopWaited(l)
      PROVE  LoopsOK' /\ MarksOK' /\ Sorted(queue')
  <2>1. LoopsOK'
    BY <1>6, <1>a, Zenon DEF LoopExit, LoopWaited, LoopsOK, TypeOK
  <2> QED
    BY <1>6, <1>a, <1>m, <2>1, Zenon DEF LoopExit, LoopWaited
<1>7. ASSUME NEW l \in Loop, processSyncTasks(l)
      PROVE  LoopsOK' /\ MarksOK' /\ Sorted(queue')
  <2> DEFINE c == Min({Concurrency, Len(queue)})
  <2>1. c \in 1 .. Len(queue) /\ queue \in Seq(Task)
    <3>1. Concurrency \in Nat \ {0} /\ Len(queue) \in Nat \ {0}
      BY <1>7, <1>a, SyncAssumption DEF processSyncTasks, TypeOK
    <3>2. c \in {Concurrency, Len(queue)} /\ \A m \in {Concurrency, Len(queue)} : c <= m
      BY <3>1 DEF Min
    <3> QED
      BY <1>a, <3>1, <3>2 DEF TypeOK
  <2>2. worker' = [w \in Worker |-> IF w[1] = l /\ w[2] <= c
                                    THEN Working(queue[w[2]], "begin") ELSE worker[w]]
        /\ queue' = SubSeq(queue, c + 1, Len(queue))
    BY <1>7, Zenon DEF processSyncTasks
  <2> HIDE DEF c
  <2>3. \A w \in Worker : w[1] # l => worker'[w] = worker[w]
    BY <2>2, Zenon
  <2>4. \A w \in Worker : w[1] = l => worker[w] = Idle
    BY <1>7, <1>a, Zenon DEF processSyncTasks, LoopsOK
  <2>5. \A w \in Worker : worker'[w] = worker[w] \/ (worker[w] = Idle /\ worker'[w].at = "begin")
    BY <2>2, <2>4, Zenon DEF Working
  <2>6. LoopsOK'
    BY <1>7, <1>a, <2>3, Zenon DEF processSyncTasks, LoopsOK, TypeOK
  <2>7. \A w \in Worker : (InSync(w)' <=> InSync(w)) /\ (InSync(w) => worker'[w] = worker[w])
    BY <2>5 DEF InSync, Idle
  <2>8. {v \in Worker : InSync(v)'} = {v \in Worker : InSync(v)}
    BY <2>7, Zenon
  <2>9. {TaskKey(worker'[v].task) : v \in {u \in Worker : InSync(u)'}}
          = {TaskKey(worker[v].task) : v \in {u \in Worker : InSync(u)}}
    BY <2>7, <2>8, Zenon
  <2>10. \A v, u \in Worker :
           InSync(v)' /\ InSync(u)' /\ TaskKey(worker'[v].task) = TaskKey(worker'[u].task)
                => v = u
    BY <1>a, <2>7, Zenon DEF MarksOK
  <2>11. MarksOK'
    BY <1>7, <1>a, <2>9, <2>10, Zenon DEF MarksOK, processSyncTasks
  <2>12. Len(queue') = Len(queue) - c /\ \A i \in 1 .. Len(queue) - c : queue'[i] = queue[c + i]
    BY <2>1, <2>2
  <2>13. ASSUME NEW i \in 1 .. Len(queue') - 1
         PROVE  queue'[i].priority >= queue'[i + 1].priority
    <3>1. c + i \in 1 .. Len(queue) - 1 /\ (c + i) + 1 = c + (i + 1)
          /\ i \in 1 .. Len(queue) - c /\ i + 1 \in 1 .. Len(queue) - c
      BY <2>1, <2>12
    <3>2. queue[c + i].priority >= queue[(c + i) + 1].priority
      BY <1>a, <3>1, Zenon DEF Sorted
    <3> QED
      BY <2>12, <3>1, <3>2, Zenon
  <2>14. Sorted(queue')
    BY <2>13, Zenon DEF Sorted
  <2> QED
    BY <2>6, <2>11, <2>14, Zenon
<1>8. ASSUME NEW w \in Worker, SyncBegin(w)
      PROVE  LoopsOK' /\ MarksOK' /\ Sorted(queue')
  <2> DEFINE key == TaskKey(worker[w].task)
             y == [worker[w] EXCEPT !.at = "handle"]
  <2>1. worker[w] \in Busy /\ worker[w] # Idle /\ ~InSync(w)
    BY <1>8, <1>a, AtWork, Zenon DEF SyncBegin, InSync
  <2>2. LoopsOK'
    BY <1>8, <1>a, <2>1, LoopsKept, Zenon DEF SyncBegin
  <2>3. \A v \in Worker : v # w => worker'[v] = worker[v] /\ (InSync(v)' <=> InSync(v))
    BY <1>8, <1>a, Zenon DEF SyncBegin, GoesOn, InSync, TypeOK
  <2>4. processing' = processing \cup {key}
    BY <1>8, Zenon DEF SyncBegin
  <2>5. MarksOK'
    <3>1. CASE key \in processing
      <4>1. worker'[w] = Idle
        BY <1>8, <1>a, <3>1, Zenon DEF SyncBegin, GoesOn, TypeOK
      <4>2. \A v \in Worker : (InSync(v)' <=> InSync(v)) /\ (InSync(v) => worker'[v] = worker[v])
        BY <2>1, <2>3, <4>1 DEF InSync, Idle
      <4>3. {v \in Worker : InSync(v)'} = {v \in Worker : InSync(v)}
        BY <4>2, Zenon
      <4>4. {TaskKey(worker'[v].task) : v \in {u \in Worker : InSync(u)'}}
              = {TaskKey(worker[v].task) : v \in {u \in Worker : InSync(u)}}
        BY <4>2, <4>3, Zenon
      <4>5. processing' = processing
        BY <2>4, <3>1, Zenon
      <4>6. \A v, u \in Worker :
              InSync(v)' /\ InSync(u)' /\ TaskKey(worker'[v].task) = TaskKey(worker'[u].task)
                => v = u
        BY <1>a, <4>2, Zenon DEF MarksOK
      <4> QED
        BY <1>a, <4>4, <4>5, <4>6, Zenon DEF MarksOK
    <3>2. CASE key \notin processing
      <4>1. worker'[w] = y
        BY <1>8, <1>a, <3>2, Zenon DEF SyncBegin, GoesOn, TypeOK
      <4>2. y.at = "handle" /\ y.task = worker[w].task
        BY <2>1, Moves, Zenon
      <4>3. InSync(w)' /\ TaskKey(worker'[w].task) = key
        BY <4>1, <4>2, Zenon DEF InSync
      <4>4. \A v \in Worker : InSync(v)' <=> (v = w \/ InSync(v))
        BY <2>1, <2>3, <4>3, Zenon
      <4>5. \A v \in Worker : InSync(v) => v # w /\ worker'[v] = worker[v]
        BY <2>1, <2>3, Zenon
      <4>6. processing = {TaskKey(worker[v].task) : v \in {u \in Worker : InSync(u)}}
        BY <1>a, Zenon DEF MarksOK
      <4> HIDE DEF key
      <4>7. processing' = {TaskKey(worker'[v].task) : v \in {u \in Worker : InSync(u)'}}
        <5>1. ASSUME NEW z \in processing'
              PROVE  \E v \in {u \in Worker : InSync(u)'} : z = TaskKey(worker'[v].task)
          BY <2>4, <4>3, <4>4, <4>5, <4>6, Zenon
        <5>2. ASSUME NEW v \in Worker, InSync(v)' PROVE TaskKey(worker'[v].task) \in processing'
          BY <2>4, <4>3, <4>4, <4>5, <4>6, <5>2, Zenon
        <5> QED
          BY <5>1, <5>2, Zenon
      <4>8. \A v \in Worker : InSync(v) => TaskKey(worker[v].task) # key
        BY <3>2, <4>6, Zenon
      <4>9. \A v, u \in Worker :
              InSync(v)' /\ InSync(u)' /\ TaskKey(worker'[v].task) = TaskKey(worker'[u].task)
                => v = u
        BY <1>a, <4>3, <4>4, <4>5, <4>8, Zenon DEF MarksOK
      <4> QED
        BY <4>7, <4>9, Zenon DEF MarksOK
    <3> QED
      BY <3>1, <3>2, Zenon
  <2> QED
    BY <1>8, <1>a, <2>2, <2>5, Zenon DEF SyncBegin
<1>9. ASSUME NEW w \in Worker, SendFails(w)
      PROVE  LoopsOK' /\ MarksOK' /\ Sorted(queue')
  <2> DEFINE y == [worker[w] EXCEPT !.at = "cleanup"]
  <2>1. worker[w] \in Busy /\ worker[w] # Idle /\ InSync(w)
    BY <1>9, <1>a, AtWork, Zenon DEF SendFails, InSync
  <2>2. GoesOn(w, y) /\ UNCHANGED <<loop, starts, processing, queue>>
    BY <1>9, Zenon DEF SendFails
  <2>3. y.at = "cleanup" /\ y.task = worker[w].task
    BY <2>1, Moves, Zenon
  <2> HIDE DEF y
  <2> QED
    BY <1>a, <2>1, <2>2, <2>3, LoopsKept, MarksKept, Zenon
<1>10. ASSUME NEW w \in Worker, HandleSyncRequest(w)
       PROVE  LoopsOK' /\ MarksOK' /\ Sorted(queue')
  <2>1. worker[w] \in Busy /\ worker[w] # Idle /\ InSync(w)
    BY <1>10, <1>a, AtWork, Zenon DEF HandleSyncRequest, InSync
  <2>2. PICK y \in Busy : GoesOn(w, y) /\ y.task = worker[w].task /\ y.at \in {"handle", "apply"}
    BY <1>10, <1>a, HandlerStep, Zenon
  <2>3. UNCHANGED <<loop, starts, processing, queue>>
    BY <1>10, Zenon DEF HandleSyncRequest
  <2> QED
    BY <1>a, <2>1, <2>2, <2>3, LoopsKept, MarksKept, Zenon
<1>11. ASSUME NEW w \in Worker, ApplyItem(w)
       PROVE  LoopsOK' /\ MarksOK' /\ Sorted(queue')
  <2> DEFINE y == [worker[w] EXCEPT !.items = Tail(worker[w].items)]
  <2>1. worker[w] \in Busy /\ worker[w] # Idle /\ InSync(w)
    BY <1>11, <1>a, AtWork, Zenon DEF ApplyItem, InSync
  <2>2. GoesOn(w, y) /\ UNCHANGED <<loop, starts, processing, queue>>
    BY <1>11, Zenon DEF ApplyItem
  <2>3. y.at = worker[w].at /\ y.task = worker[w].task
    BY <2>1, Zenon DEF Busy
  <2>4. y.at \notin {"idle", "begin"}
    BY <2>1, <2>3, Zenon DEF InSync
  <2> HIDE DEF y
  <2> QED
    BY <1>a, <2>1, <2>2, <2>3, <2>4, LoopsKept, MarksKept, Zenon
<1>12. ASSUME NEW w \in Worker, QueueNextPage(w)
       PROVE  LoopsOK' /\ MarksOK' /\ Sorted(queue')
  <2> DEFINE y == [worker[w] EXCEPT !.at = "cleanup"]
  <2>1. worker[w] \in Busy /\ worker[w] # Idle /\ InSync(w)
    BY <1>12, <1>a, AtWork, Zenon DEF QueueNextPage, InSync
  <2>2. GoesOn(w, y) /\ UNCHANGED <<loop, starts, processing>>
    BY <1>12, Zenon DEF QueueNextPage
  <2>3. y.at = "cleanup" /\ y.task = worker[w].task
    BY <2>1, Moves, Zenon
  <2>4. NextPage(worker[w]) \in Task
    BY <2>1, NextPageTask, Zenon
  <2>5. queue' = queue \/ queue' = QueueSyncTask(queue, NextPage(worker[w]))
    BY <1>12, Zenon DEF QueueNextPage
  <2>6. Sorted(queue')
    BY <1>a, <2>4, <2>5, QueueKeeps, Zenon DEF TypeOK
  <2> HIDE DEF y
  <2> QED
    BY <1>a, <2>1, <2>2, <2>3, <2>6, LoopsKept, MarksKept, Zenon
<1>13. ASSUME NEW w \in Worker, SyncCleanup(w)
       PROVE  LoopsOK' /\ MarksOK' /\ Sorted(queue')
  <2> DEFINE key == TaskKey(worker[w].task)
  <2>1. worker[w] \in Busy /\ worker[w] # Idle /\ InSync(w)
    BY <1>13, <1>a, AtWork, Zenon DEF SyncCleanup, InSync
  <2>2. GoesOn(w, Idle) /\ UNCHANGED <<loop, starts, queue>> /\ processing' = processing \ {key}
    BY <1>13, Zenon DEF SyncCleanup
  <2>3. LoopsOK'
    BY <1>a, <2>1, <2>2, LoopsKept, Zenon
  <2>4. \A v \in Worker : worker'[v] = IF v = w THEN Idle ELSE worker[v]
    BY <1>a, <2>2, Zenon DEF GoesOn, TypeOK
  <2>5. \A v \in Worker : InSync(v)' <=> (v # w /\ InSync(v))
    BY <2>4 DEF InSync, Idle
  <2>6. /\ processing = {TaskKey(worker[v].task) : v \in {u \in Worker : InSync(u)}}
        /\ \A v \in Worker : InSync(v) /\ v # w => TaskKey(worker[v].task) # key
    BY <1>a, <2>1, Zenon DEF MarksOK
  <2> HIDE DEF key
  <2>7. processing' = {TaskKey(worker'[v].task) : v \in {u \in Worker : InSync(u)'}}
    <3>1. ASSUME NEW z \in processing'
          PROVE  \E v \in {u \in Worker : InSync(u)'} : z = TaskKey(worker'[v].task)
      <4>1. PICK v \in Worker : InSync(v) /\ z = TaskKey(worker[v].task)
        BY <2>2, <2>6, Zenon
      <4>2. v # w
        BY <2>2, <4>1, Zenon DEF key
      <4> QED
        BY <2>4, <2>5, <4>1, <4>2, Zenon
    <3>2. ASSUME NEW v \in Worker, InSync(v)' PROVE TaskKey(worker'[v].task) \in processing'
      BY <2>2, <2>4, <2>5, <2>6, <3>2, Zenon
    <3> QED
      BY <3>1, <3>2, Zenon
  <2>8. \A v, u \in Worker :
          InSync(v)' /\ InSync(u)' /\ TaskKey(worker'[v].task) = TaskKey(worker'[u].task)
                => v = u
    BY <1>a, <2>4, <2>5, Zenon DEF MarksOK
  <2>9. MarksOK'
    BY <2>7, <2>8, Zenon DEF MarksOK
  <2> QED
    BY <1>a, <2>2, <2>3, <2>9, Zenon
<1>14. CASE UNCHANGED vars
  BY <1>14, <1>a, <1>l, <1>m, Zenon DEF vars
<1> QED
  BY <1>1, <1>2, <1>3, <1>4, <1>5, <1>6, <1>7, <1>8, <1>9, <1>10, <1>11, <1>12, <1>13, <1>14, Zenon
     DEF Next, syncToNode, TriggerSync, FullSyncQueues

\* processingMap marks exactly the ranges being worked on, each by one
\* goroutine, and the queue is sorted, over triggers, pages, failures and
\* restarts (sync.go:143-206, 284-318).
THEOREM SyncInvariant == Spec => []SyncInv
<1>1. SInv => SyncInv
  BY Zenon DEF SInv, TypeOK, MarksOK, Sorted, SyncInv, Val
<1>2. SInv /\ [Next]_vars => SInv'
  BY SInvStep, Zenon
<1> QED
  BY <1>1, <1>2, SInvInit, PTL DEF Spec
-----------------------------------------------------------------------------
(***************************************************************************)
(* What a synchronisation brings, with one loop.  A key of a node is       *)
(* settled when its last item is recent enough or a task for it waits in   *)
(* the queue.  Until then a goroutine has it in its range (Served), and    *)
(* one that has sent its request has still to read the key, has it among   *)
(* its items or leaves it to the next page (Awaited).  No item is older    *)
(* than what the last trigger asks for, unless a task is queued that will  *)
(* replace it (NoStale): the loop waits for its goroutines before it takes *)
(* further tasks.                                                          *)
(***************************************************************************)
Brought(n, k) == brought[n][k] >= due[n][k]
Waits(q, n, k) == \E i \in DOMAIN q : q[i].node = n /\ InRange(k, q[i].range)
Queued(n, k) == Waits(queue, n, k)
Settled(n, k) == Brought(n, k) \/ Queued(n, k)
On(x, n, k) == x.at # "idle" /\ x.task.node = n /\ InRange(k, x.task.range)
Pending(x, k) ==
    \/ x.at = "handle" /\ x.key <= k
    \/ x.at = "apply" /\ x.next # 0 /\ x.next <= k
    \/ x.at \in {"handle", "apply"} /\ \E i \in DOMAIN x.items : x.items[i].key = k

DueOK == \A n \in Peer, k \in Key : due[n][k] <= peer[n][k] /\ peer[n][k] <= writes
Served ==
    \A n \in Peer, k \in Key : Settled(n, k) \/ \E w \in Worker : On(worker[w], n, k)
Awaited ==
    \A w \in Worker, n \in Peer, k \in Key :
        InSync(w) /\ On(worker[w], n, k) => Settled(n, k) \/ Pending(worker[w], k)
Recent(d, q, n, e) == e.value >= d[n][e.key] \/ Waits(q, n, e.key)
ItemsRecent(x, d, q) ==
    x.at # "idle" => \A i \in DOMAIN x.items : Recent(d, q, x.task.node, x.items[i])
NoStale == \A w \in Worker : ItemsRecent(worker[w], due, queue)
BeginsAtFirst == \A w \in Worker : worker[w].at = "begin" => worker[w].key = 1

FreshInv == DueOK /\ Served /\ Awaited /\ NoStale /\ BeginsAtFirst

\* The values are numbers.
LEMMA Cells ==
    ASSUME TypeOK
    PROVE  /\ \A n \in Peer, k \in Key : peer[n][k] \in Nat /\ due[n][k] \in Nat
                                          /\ brought[n][k] \in Nat
           /\ writes \in Nat /\ starts \in Nat
           /\ Val \subseteq Nat
           /\ \A n \in Peer, k \in Key : peer[n][k] \in Val /\ due[n][k] \in Val
                                          /\ brought[n][k] \in Val
<1>1. Val \subseteq Nat
  BY SyncAssumption DEF Val
<1>2. \A n \in Peer, k \in Key : peer[n][k] \in Val /\ due[n][k] \in Val /\ brought[n][k] \in Val
  BY Zenon DEF TypeOK
<1>3. writes \in Nat /\ starts \in Nat
  BY SyncAssumption DEF TypeOK
<1> QED
  BY <1>1, <1>2, <1>3, Zenon

\* The values are numbers after a step.
LEMMA CellsNext ==
    ASSUME TypeOK'
    PROVE  \A n \in Peer, k \in Key :
              peer'[n][k] \in Nat /\ due'[n][k] \in Nat /\ brought'[n][k] \in Nat
<1>1. Val \subseteq Nat
  BY SyncAssumption DEF Val
<1>2. \A n \in Peer, k \in Key :
         peer'[n][k] \in Val /\ due'[n][k] \in Val /\ brought'[n][k] \in Val
  BY Zenon DEF TypeOK
<1> QED
  BY <1>1, <1>2, Zenon

\* A queue that keeps its tasks.
Grows == \A j \in DOMAIN queue : \E m \in DOMAIN queue' : queue'[m] = queue[j]

\* What is queued stays queued.
LEMMA StaysQueued ==
    ASSUME Grows, NEW n, NEW k, Queued(n, k) PROVE Queued(n, k)'
BY Zenon DEF Grows, Queued, Waits

\* What is settled stays settled when nothing more is due and no item is
\* applied.
LEMMA StaysSettled ==
    ASSUME TypeOK, TypeOK', Grows, brought' = brought,
           \A n \in Peer, k \in Key : due'[n][k] <= due[n][k]
    PROVE  \A n \in Peer, k \in Key : Settled(n, k) => Settled(n, k)'
<1> SUFFICES ASSUME NEW n \in Peer, NEW k \in Key, Settled(n, k) PROVE Settled(n, k)'
  BY Zenon
<1>1. brought[n][k] \in Nat /\ due[n][k] \in Nat
  BY Cells, Zenon
<1>2. due'[n][k] \in Nat /\ due'[n][k] <= due[n][k] /\ brought'[n][k] = brought[n][k]
  <2>1. \A m \in Peer, j \in Key : due'[m][j] \in Nat
    BY CellsNext, Zenon
  <2> QED
    BY <2>1, Zenon
<1>3. CASE Brought(n, k)
  BY <1>1, <1>2, <1>3 DEF Brought, Settled
<1>4. CASE Queued(n, k)
  BY <1>4, StaysQueued, Zenon DEF Settled
<1> QED
  BY <1>3, <1>4, Zenon DEF Settled

\* Items stay recent enough when nothing more is due.
LEMMA ItemsStay ==
    ASSUME TypeOK, TypeOK', Grows, \A n \in Peer, k \in Key : due'[n][k] <= due[n][k],
           NEW x \in {Idle} \cup Busy, ItemsRecent(x, due, queue)
    PROVE  ItemsRecent(x, due', queue')
<1> SUFFICES ASSUME x.at # "idle", NEW i \in DOMAIN x.items
             PROVE  Recent(due', queue', x.task.node, x.items[i])
  BY Zenon DEF ItemsRecent
<1> DEFINE n == x.task.node
           e == x.items[i]
<1>1. x \in Busy
  BY DEF Idle
<1>2. x.items \in Seq(Item) /\ x.task \in Task
  BY <1>1, BusyParts, Zenon
<1>3. e \in Item
  BY <1>2
<1>4. n \in Peer /\ e.key \in Key /\ e.value \in Val
  BY <1>2, <1>3, Zenon DEF Task, Item
<1>5. Recent(due, queue, n, e)
  BY Zenon DEF ItemsRecent
<1> HIDE DEF n, e
<1>6. due[n][e.key] \in Nat /\ e.value \in Nat /\ due'[n][e.key] <= due[n][e.key]
  BY <1>4, Cells, Zenon
<1>7. due'[n][e.key] \in Nat
  <2>1. \A m \in Peer, j \in Key : due'[m][j] \in Nat
    BY CellsNext, Zenon
  <2> QED
    BY <1>4, <2>1, Zenon
<1>8. e.value >= due[n][e.key] => e.value >= due'[n][e.key]
  BY <1>6, <1>7
<1>9. Waits(queue, n, e.key) => Waits(queue', n, e.key)
  BY StaysQueued, Zenon DEF Queued
<1>10. Recent(due', queue', n, e)
  BY <1>5, <1>8, <1>9, Zenon DEF Recent
<1> QED
  BY <1>10, Zenon DEF n, e

\* The goroutines that do not move.
LEMMA OthersFresh ==
    ASSUME TypeOK, TypeOK', FreshInv, Grows,
           \A n \in Peer, k \in Key : due'[n][k] <= due[n][k],
           \A n \in Peer, k \in Key : Settled(n, k) => Settled(n, k)',
           NEW v \in Worker, worker'[v] = worker[v]
    PROVE  /\ \A n \in Peer, k \in Key :
                 InSync(v)' /\ On(worker'[v], n, k) => Settled(n, k)' \/ Pending(worker'[v], k)
           /\ ItemsRecent(worker'[v], due', queue')
           /\ worker'[v].at = "begin" => worker'[v].key = 1
<1>0. worker[v] \in {Idle} \cup Busy
  BY Zenon DEF TypeOK
<1>1. \A n \in Peer, k \in Key :
         InSync(v)' /\ On(worker'[v], n, k) => Settled(n, k)' \/ Pending(worker'[v], k)
  BY Zenon DEF FreshInv, Awaited, InSync
<1>2. ItemsRecent(worker[v], due', queue')
  BY <1>0, ItemsStay, Zenon DEF FreshInv, NoStale
<1>3. worker[v].at = "begin" => worker[v].key = 1
  BY Zenon DEF FreshInv, BeginsAtFirst
<1> QED
  BY <1>1, <1>2, <1>3, Zenon

\* A goroutine goes on with its task.
LEMMA GoingOnFresh ==
    ASSUME TypeOK, TypeOK', FreshInv, Grows, UNCHANGED <<peer, writes>>,
           \A n \in Peer, k \in Key : due'[n][k] <= due[n][k],
           \A n \in Peer, k \in Key : Settled(n, k) => Settled(n, k)',
           NEW w \in Worker, NEW y \in Busy, GoesOn(w, y),
           worker[w] \in Busy, y.task = worker[w].task, y.at # "begin",
           ItemsRecent(y, due', queue'),
           \A k \in Key : InRange(k, y.task.range) =>
                             Settled(y.task.node, k)' \/ Pending(y, k)
    PROVE  FreshInv'
<1>1. \A v \in Worker : worker'[v] = IF v = w THEN y ELSE worker[v]
  BY Zenon DEF GoesOn, TypeOK
<1>2. y.at # "idle" /\ worker[w].at # "idle"
  BY BusyParts, Zenon
<1>3. DueOK'
  <2>1. \A n \in Peer, k \in Key : due[n][k] <= peer[n][k] /\ peer[n][k] <= writes
    BY Zenon DEF FreshInv, DueOK
  <2>2. \A m \in Peer, j \in Key : due'[m][j] \in Nat
    BY CellsNext, Zenon
  <2>3. \A n \in Peer, k \in Key : due[n][k] \in Nat /\ peer[n][k] \in Nat
    BY Cells, Zenon
  <2>4. \A n \in Peer, k \in Key : due'[n][k] <= peer[n][k]
    BY <2>1, <2>2, <2>3
  <2> QED
    BY <2>1, <2>4, Zenon DEF DueOK
<1>4. Served'
  <2>1. \A n \in Peer, k \in Key, v \in Worker : On(worker[v], n, k) => On(worker'[v], n, k)
    BY <1>1, <1>2, Zenon DEF On
  <2> QED
    BY <2>1, Zenon DEF FreshInv, Served
<1>5. \A v \in Worker :
         /\ \A n \in Peer, k \in Key :
               InSync(v)' /\ On(worker'[v], n, k) => Settled(n, k)' \/ Pending(worker'[v], k)
         /\ ItemsRecent(worker'[v], due', queue')
         /\ worker'[v].at = "begin" => worker'[v].key = 1
  <2> TAKE v \in Worker
  <2>1. CASE v # w
    BY <1>1, <2>1, OthersFresh, Zenon
  <2>2. CASE v = w
    BY <1>1, <2>2, Zenon DEF On
  <2> QED
    BY <2>1, <2>2, Zenon
<1>6. Awaited'
  BY <1>5, Zenon DEF Awaited
<1>7. NoStale' /\ BeginsAtFirst'
  BY <1>5, Zenon DEF NoStale, BeginsAtFirst
<1> QED
  BY <1>3, <1>4, <1>6, <1>7, Zenon DEF FreshInv

\* The queue keeps its tasks when one is added, and holds the new one.
LEMMA QueueGrows ==
    ASSUME TypeOK, NEW t \in Task, queue' = QueueSyncTask(queue, t)
    PROVE  Grows /\ \E m \in DOMAIN queue' : queue'[m] = t
<1>1. queue \in Seq(Task)
  BY Zenon DEF TypeOK
<1> QED
  BY <1>1, QueueKeeps, Zenon DEF Grows

\* Nothing is due that was not due before.
LEMMA DueKept ==
    ASSUME TypeOK, due' = due PROVE \A n \in Peer, k \in Key : due'[n][k] <= due[n][k]
BY Cells

\* A goroutine that sends its request has all keys of its range before it.
LEMMA SyncBeginFresh ==
    ASSUME TypeOK, TypeOK', MarksOK, FreshInv, NEW w \in Worker, SyncBegin(w)
    PROVE  FreshInv'
<1> DEFINE x == worker[w]
           y == [x EXCEPT !.at = "handle"]
<1>1. x \in Busy /\ x.at = "begin" /\ x.key = 1
  BY AtWork, Zenon DEF SyncBegin, FreshInv, BeginsAtFirst
<1>2. UNCHANGED <<queue, peer, due, brought, writes>>
  BY Zenon DEF SyncBegin
<1>3. Grows
  BY <1>2, Zenon DEF Grows
<1>4. \A n \in Peer, k \in Key : due'[n][k] <= due[n][k]
  BY <1>2, DueKept, Zenon
<1>5. \A n \in Peer, k \in Key : Settled(n, k) => Settled(n, k)'
  BY <1>2, <1>3, <1>4, StaysSettled, Zenon
<1>6. CASE TaskKey(x.task) \notin processing
  <2>1. GoesOn(w, y)
    BY <1>6, Zenon DEF SyncBegin
  <2>2. y \in Busy /\ y.at = "handle" /\ y.task = x.task /\ y.items = x.items /\ y.key = 1
    BY <1>1, Moves, Zenon
  <2>3. ItemsRecent(x, due, queue)
    BY Zenon DEF FreshInv, NoStale
  <2> HIDE DEF x, y
  <2>4. ItemsRecent(y, due', queue')
    BY <1>1, <1>2, <2>2, <2>3, Zenon DEF ItemsRecent
  <2>5. \A k \in Key : Pending(y, k)
    BY <2>2 DEF Pending, Key
  <2> QED
    BY <1>1, <1>2, <1>3, <1>4, <1>5, <2>1, <2>2, <2>4, <2>5, GoingOnFresh, Zenon DEF x
<1>7. CASE TaskKey(x.task) \in processing
  <2>1. GoesOn(w, Idle)
    BY <1>7, Zenon DEF SyncBegin
  <2>2. \A v \in Worker : worker'[v] = IF v = w THEN Idle ELSE worker[v]
    BY <2>1, Zenon DEF GoesOn, TypeOK
  <2>3. PICK u \in Worker : InSync(u) /\ TaskKey(x.task) = TaskKey(worker[u].task)
    BY <1>7, Zenon DEF MarksOK
  <2>4. u # w /\ worker[u].at # "idle"
    BY <1>1, <2>3, Zenon DEF InSync
  <2>5. worker[u].task.node = x.task.node /\ worker[u].task.range = x.task.range
    BY <2>3, Zenon DEF TaskKey
  <2>6. \A n \in Peer, k \in Key, v \in Worker :
           On(worker[v], n, k) => \E z \in Worker : On(worker'[z], n, k)
    <3> TAKE n \in Peer, k \in Key, v \in Worker
    <3>1. CASE v # w
      BY <2>2, <3>1, Zenon
    <3>2. CASE v = w
      BY <2>2, <2>4, <2>5, <3>2, Zenon DEF On
    <3> QED
      BY <3>1, <3>2, Zenon
  <2>7. DueOK'
    BY <1>2, Zenon DEF FreshInv, DueOK
  <2>8. Served'
    BY <1>5, <2>6, Zenon DEF FreshInv, Served
  <2>9. \A v \in Worker :
           /\ \A n \in Peer, k \in Key :
                 InSync(v)' /\ On(worker'[v], n, k) => Settled(n, k)' \/ Pending(worker'[v], k)
           /\ ItemsRecent(worker'[v], due', queue')
           /\ worker'[v].at = "begin" => worker'[v].key = 1
    <3> TAKE v \in Worker
    <3>1. CASE v # w
      BY <1>3, <1>4, <1>5, <2>2, <3>1, OthersFresh, Zenon
    <3>2. CASE v = w
      BY <2>2, <3>2 DEF On, ItemsRecent, Idle
    <3> QED
      BY <3>1, <3>2, Zenon
  <2>10. Awaited'
    BY <2>9, Zenon DEF Awaited
  <2>11. NoStale' /\ BeginsAtFirst'
    BY <2>9, Zenon DEF NoStale, BeginsAtFirst
  <2> QED
    BY <2>7, <2>8, <2>10, <2>11, Zenon DEF FreshInv
<1> QED
  BY <1>6, <1>7, Zenon

\* When the request fails nothing of the node is due any more.
LEMMA SendFailsFresh ==
    ASSUME TypeOK, TypeOK', FreshInv, NEW w \in Worker, SendFails(w)
    PROVE  FreshInv'
<1> DEFINE x == worker[w]
           y == [x EXCEPT !.at = "cleanup"]
<1>1. x \in Busy /\ x.at = "handle"
  BY AtWork, Zenon DEF SendFails
<1>2. UNCHANGED <<queue, peer, brought, writes>> /\ GoesOn(w, y)
      /\ due' = [due EXCEPT ![x.task.node] = [k \in Key |-> 0]]
  BY Zenon DEF SendFails
<1>3. Grows
  BY <1>2, Zenon DEF Grows
<1>4. x.task.node \in Peer
  BY <1>1, BusyParts, Zenon DEF Task
<1>5. y \in Busy /\ y.at = "cleanup" /\ y.task = x.task /\ y.items = x.items
  BY <1>1, Moves, Zenon
<1>6. ItemsRecent(x, due, queue)
  BY Zenon DEF FreshInv, NoStale
<1> HIDE DEF x, y
<1>7. \A n \in Peer, k \in Key : due'[n][k] = IF n = x.task.node THEN 0 ELSE due[n][k]
  BY <1>2, <1>4, Zenon DEF TypeOK
<1>8. \A n \in Peer, k \in Key : due'[n][k] <= due[n][k]
  BY <1>7, Cells
<1>9. \A n \in Peer, k \in Key : Settled(n, k) => Settled(n, k)'
  BY <1>2, <1>3, <1>8, StaysSettled, Zenon
<1>10. ItemsRecent(y, due', queue')
  <2>1. ItemsRecent(x, due', queue')
    BY <1>1, <1>3, <1>6, <1>8, ItemsStay, Zenon
  <2> QED
    BY <1>1, <1>5, <2>1, Zenon DEF ItemsRecent
<1>11. \A n \in Peer, k \in Key : n = x.task.node => Settled(n, k)'
  <2> SUFFICES ASSUME NEW n \in Peer, NEW k \in Key, n = x.task.node PROVE Settled(n, k)'
    BY Zenon
  <2>1. brought'[n][k] \in Nat /\ due'[n][k] = 0
    BY <1>7, CellsNext, Zenon
  <2> QED
    BY <2>1 DEF Settled, Brought
<1> QED
  BY <1>1, <1>2, <1>3, <1>4, <1>5, <1>8, <1>9, <1>10, <1>11, GoingOnFresh, Zenon DEF x

\* The peer reads a key: it goes among the items, or there is nothing that
\* could be due of it.
LEMMA HandlerFresh ==
    ASSUME TypeOK, TypeOK', FreshInv, NEW w \in Worker, HandleSyncRequest(w)
    PROVE  FreshInv'
<1> DEFINE x == worker[w]
           n == x.task.node
           v == peer[n][x.key]
           e == [key |-> x.key, value |-> v]
           items == IF InRange(x.key, x.task.range) /\ v # 0 THEN Append(x.items, e) ELSE x.items
<1>1. PICK y \in Busy :
         /\ GoesOn(w, y) /\ y.task = x.task /\ y.items = items
         /\ \/ y.at = "apply" /\ y.next = x.key
            \/ y.at = "apply" /\ x.key = KeyCount
            \/ y.at = "handle" /\ y.key = x.key + 1
  BY HandlerStep, Zenon
<1>2. x \in Busy /\ x.at = "handle" /\ items \in Seq(Item)
  BY HandlerStep, Zenon
<1>3. UNCHANGED <<queue, peer, due, brought, writes>>
  BY Zenon DEF HandleSyncRequest
<1>4. Grows
  BY <1>3, Zenon DEF Grows
<1>5. \A m \in Peer, k \in Key : due'[m][k] <= due[m][k]
  BY <1>3, DueKept, Zenon
<1>6. \A m \in Peer, k \in Key : Settled(m, k) => Settled(m, k)'
  BY <1>3, <1>4, <1>5, StaysSettled, Zenon
<1>7. ItemsRecent(x, due, queue)
  BY Zenon DEF FreshInv, NoStale
<1>8. x.task \in Task /\ x.key \in Key /\ x.items \in Seq(Item) /\ x.next \in 0 .. KeyCount
  BY <1>2, BusyParts, Zenon
<1>9. n \in Peer
  BY <1>8, Zenon DEF Task
<1>10. due[n][x.key] <= v /\ v \in Nat /\ due[n][x.key] \in Nat /\ brought[n][x.key] \in Nat
  BY <1>8, <1>9, Cells, Zenon DEF FreshInv, DueOK
<1>11. \A k \in Key : InRange(k, x.task.range) => Settled(n, k) \/ Pending(x, k)
  BY <1>2, <1>9, Zenon DEF FreshInv, Awaited, On, InSync
<1>12. \/ items = x.items
       \/ /\ Len(items) = Len(x.items) + 1 /\ items[Len(items)] = e
          /\ \A i \in 1 .. Len(x.items) : items[i] = x.items[i]
  <2> HIDE DEF e, v
  <2> QED
    BY <1>8
<1>13. InRange(x.key, x.task.range) /\ v # 0 =>
          items # x.items /\ \E i \in DOMAIN items : items[i].key = x.key
  <2>1. e.key = x.key
    BY Zenon
  <2> HIDE DEF e, v
  <2> SUFFICES ASSUME InRange(x.key, x.task.range), v # 0
               PROVE  items # x.items /\ \E i \in DOMAIN items : items[i].key = x.key
    BY Zenon
  <2>2. items = Append(x.items, e)
    BY Zenon
  <2>3. Len(x.items) \in Nat /\ Len(items) = Len(x.items) + 1 /\ items[Len(items)] = e
        /\ DOMAIN items = 1 .. Len(items)
    BY <1>8, <2>2
  <2>4. Len(items) \in DOMAIN items
    BY <2>3
  <2> QED
    BY <2>1, <2>3, <2>4
<1>14. \A k \in Key : (\E i \in DOMAIN x.items : x.items[i].key = k) =>
                       \E i \in DOMAIN items : items[i].key = k
  <2> HIDE DEF items, e, v, n, x
  <2>1. CASE items = x.items
    BY <2>1, Zenon
  <2>2. CASE /\ Len(items) = Len(x.items) + 1 /\ items[Len(items)] = e
             /\ \A i \in 1 .. Len(x.items) : items[i] = x.items[i]
    <3>1. DOMAIN x.items = 1 .. Len(x.items) /\ Len(x.items) \in Nat
          /\ DOMAIN items = 1 .. Len(items)
      BY <1>2, <1>8
    <3>2. 1 .. Len(x.items) \subseteq 1 .. Len(items)
      BY <2>2, <3>1
    <3> QED
      BY <2>2, <3>1, <3>2, Zenon
  <2> QED
    BY <1>12, <2>1, <2>2, Zenon
<1>15. e.key = x.key /\ e.value = v
  BY Zenon
<1>16. InRange(x.key, x.task.range) /\ v = 0 => Settled(n, x.key)
  BY <1>10 DEF Settled, Brought
<1> HIDE DEF e, v, items, n, x
<1>17. ItemsRecent(y, due', queue')
  <2> SUFFICES ASSUME NEW i \in DOMAIN y.items PROVE Recent(due, queue, n, y.items[i])
    BY <1>1, <1>3, Zenon DEF ItemsRecent, n
  <2>1. DOMAIN x.items = 1 .. Len(x.items) /\ Len(x.items) \in Nat /\ DOMAIN items = 1 .. Len(items)
    BY <1>2, <1>8
  <2>2. CASE i \in DOMAIN x.items /\ items[i] = x.items[i]
    BY <1>1, <1>2, <1>7, <2>2, Zenon DEF ItemsRecent, n
  <2>3. CASE items[i] = e
    <3>1. e.value >= due[n][e.key]
      BY <1>10, <1>15, Zenon
    <3> QED
      BY <1>1, <2>3, <3>1, Zenon DEF Recent
  <2>4. CASE items = x.items
    BY <1>1, <2>2, <2>4, Zenon
  <2>5. CASE /\ Len(items) = Len(x.items) + 1 /\ items[Len(items)] = e
             /\ \A j \in 1 .. Len(x.items) : items[j] = x.items[j]
    <3>1. i \in 1 .. Len(items)
      BY <1>1, <2>1, Zenon
    <3>2. i = Len(items) \/ i \in 1 .. Len(x.items)
      BY <2>1, <2>5, <3>1
    <3> QED
      BY <2>1, <2>2, <2>3, <2>5, <3>2, Zenon
  <2> QED
    BY <1>12, <2>4, <2>5, Zenon
<1>18. \A k \in Key : InRange(k, y.task.range) => Settled(n, k) \/ Pending(y, k)
  <2> SUFFICES ASSUME NEW k \in Key, InRange(k, x.task.range), ~Settled(n, k)
               PROVE  Pending(y, k)
    BY <1>1, Zenon
  <2>1. k \in Int /\ x.key \in Int /\ k <= KeyCount
    BY <1>8, SyncAssumption DEF Key
  <2>2. y.at \in {"handle", "apply"}
    BY <1>1, Zenon
  <2>3. CASE \E i \in DOMAIN x.items : x.items[i].key = k
    BY <1>1, <1>14, <2>2, <2>3, Zenon DEF Pending
  <2>4. CASE x.key = k
    <3>1. \E i \in DOMAIN items : items[i].key = k
      BY <1>13, <1>16, <2>4, Zenon
    <3> QED
      BY <1>1, <2>2, <3>1, Zenon DEF Pending
  <2>5. CASE x.key < k
    <3>1. CASE y.at = "apply" /\ y.next = x.key
      <4>1. y.next # 0 /\ y.next <= k
        BY <1>8, <2>1, <2>5, <3>1 DEF Key
      <4> QED
        BY <3>1, <4>1, Zenon DEF Pending
    <3>2. CASE x.key = KeyCount
      BY <2>1, <2>5, <3>2
    <3>3. CASE y.at = "handle" /\ y.key = x.key + 1
      <4>1. y.key <= k
        BY <2>1, <2>5, <3>3
      <4> QED
        BY <3>3, <4>1, Zenon DEF Pending
    <3> QED
      BY <1>1, <3>1, <3>2, <3>3, Zenon
  <2>6. Pending(x, k)
    BY <1>11, Zenon
  <2>7. x.key <= k \/ \E i \in DOMAIN x.items : x.items[i].key = k
    BY <1>2, <2>6, Zenon DEF Pending
  <2> QED
    BY <2>1, <2>3, <2>4, <2>5, <2>7
<1>19. \A m \in Peer, k \in Key :
          m = y.task.node /\ InRange(k, y.task.range) => Settled(m, k)' \/ Pending(y, k)
  BY <1>1, <1>6, <1>18, Zenon DEF n
<1> QED
  BY <1>1, <1>2, <1>3, <1>4, <1>5, <1>6, <1>9, <1>17, <1>19, GoingOnFresh, Zenon DEF n, x

\* An item that is applied is recent enough.
LEMMA ApplyFresh ==
    ASSUME TypeOK, TypeOK', FreshInv, NEW w \in Worker, ApplyItem(w)
    PROVE  FreshInv'
<1> DEFINE x == worker[w]
           n == x.task.node
           e == Head(x.items)
           y == [x EXCEPT !.items = Tail(x.items)]
<1>1. x \in Busy /\ x.at = "apply" /\ x.items # <<>>
  BY AtWork, Zenon DEF ApplyItem
<1>2. UNCHANGED <<queue, peer, due, writes>> /\ GoesOn(w, y)
      /\ brought' = [brought EXCEPT ![n][e.key] = e.value]
  BY Zenon DEF ApplyItem
<1>3. ItemsRecent(x, due, queue)
  BY Zenon DEF FreshInv, NoStale
<1>4. x.task \in Task /\ x.items \in Seq(Item)
  BY <1>1, BusyParts, Zenon
<1>5. e \in Item /\ e = x.items[1] /\ 1 \in DOMAIN x.items /\ Tail(x.items) \in Seq(Item)
  BY <1>1, <1>4
<1>6. n \in Peer /\ e.key \in Key /\ e.value \in Val
  BY <1>4, <1>5, Zenon DEF Task, Item
<1>7. \A k \in Key : InRange(k, x.task.range) => Settled(n, k) \/ Pending(x, k)
  BY <1>1, <1>6, Zenon DEF FreshInv, Awaited, On, InSync
<1>8. DOMAIN x.items = 1 .. Len(x.items) /\ Len(x.items) \in Nat
      /\ DOMAIN Tail(x.items) = 1 .. Len(x.items) - 1
      /\ \A i \in 1 .. Len(x.items) - 1 : Tail(x.items)[i] = x.items[i + 1]
  BY <1>1, <1>4
<1>9. Recent(due, queue, n, e)
  BY <1>1, <1>3, <1>5, Zenon DEF ItemsRecent
<1> HIDE DEF x, e
<1>10. y \in Busy /\ y.at = "apply" /\ y.task = x.task /\ y.items = Tail(x.items) /\ y.next = x.next
  BY <1>1, <1>5, Zenon DEF Busy
<1> HIDE DEF y, n
<1>11. Grows
  BY <1>2, Zenon DEF Grows
<1>12. \A m \in Peer, k \in Key : due'[m][k] <= due[m][k]
  BY <1>2, DueKept, Zenon
<1>13. \A m \in Peer, k \in Key :
          brought'[m][k] = IF m = n /\ k = e.key THEN e.value ELSE brought[m][k]
  BY <1>2, <1>6, SetCell DEF TypeOK
<1>14. \A m \in Peer, k \in Key : m = n /\ k = e.key => Settled(m, k)'
  <2> SUFFICES ASSUME NEW m \in Peer, NEW k \in Key, m = n, k = e.key PROVE Settled(m, k)'
    BY Zenon
  <2>1. brought'[m][k] = e.value /\ due'[m][k] = due[n][e.key] /\ queue' = queue
    BY <1>2, <1>13, Zenon
  <2> QED
    BY <1>9, <2>1, Zenon DEF Recent, Settled, Brought, Queued
<1>15. \A m \in Peer, k \in Key : Settled(m, k) => Settled(m, k)'
  <2> SUFFICES ASSUME NEW m \in Peer, NEW k \in Key, Settled(m, k), ~(m = n /\ k = e.key)
               PROVE  Settled(m, k)'
    BY <1>14, Zenon
  <2>1. brought'[m][k] = brought[m][k] /\ due'[m][k] = due[m][k] /\ queue' = queue
    BY <1>2, <1>13, Zenon
  <2> QED
    BY <2>1, Zenon DEF Settled, Brought, Queued
<1>16. ItemsRecent(y, due', queue')
  <2> SUFFICES ASSUME NEW i \in DOMAIN y.items PROVE Recent(due, queue, n, y.items[i])
    BY <1>2, <1>10, Zenon DEF ItemsRecent, n
  <2>1. y.items[i] = x.items[i + 1] /\ i + 1 \in DOMAIN x.items
    BY <1>8, <1>10
  <2> QED
    BY <1>1, <1>3, <2>1, Zenon DEF ItemsRecent, n
<1>17. \A m \in Peer, k \in Key :
          m = y.task.node /\ InRange(k, y.task.range) => Settled(m, k)' \/ Pending(y, k)
  <2> SUFFICES ASSUME NEW m \in Peer, NEW k \in Key, m = n, InRange(k, x.task.range),
                      ~(Settled(m, k)')
               PROVE  Pending(y, k)
    BY <1>10, Zenon DEF n
  <2>1. ~Settled(n, k) /\ k # e.key
    BY <1>14, <1>15, Zenon
  <2>2. Pending(x, k)
    BY <1>7, <2>1, Zenon
  <2>3. CASE x.next # 0 /\ x.next <= k
    BY <1>10, <2>3, Zenon DEF Pending
  <2>4. CASE \E i \in DOMAIN x.items : x.items[i].key = k
    <3>1. PICK i \in DOMAIN x.items : x.items[i].key = k
      BY <2>4, Zenon
    <3>2. i # 1
      BY <1>5, <2>1, <3>1, Zenon
    <3>3. i - 1 \in DOMAIN y.items /\ (i - 1) + 1 = i /\ i - 1 \in 1 .. Len(x.items) - 1
      BY <1>8, <1>10, <3>2
    <3>4. y.items[i - 1].key = k
      BY <1>8, <1>10, <3>1, <3>3, Zenon
    <3> QED
      BY <1>10, <3>3, <3>4, Zenon DEF Pending
  <2> QED
    BY <1>1, <2>2, <2>3, <2>4, Zenon DEF Pending
<1> QED
  BY <1>1, <1>2, <1>6, <1>10, <1>11, <1>12, <1>15, <1>16, <1>17, GoingOnFresh, Zenon DEF n, x

\* The rest of a page's range is queued before the goroutine ends.
LEMMA NextPageFresh ==
    ASSUME TypeOK, TypeOK', FreshInv, NEW w \in Worker, QueueNextPage(w)
    PROVE  FreshInv'
<1> DEFINE x == worker[w]
           n == x.task.node
           t == NextPage(x)
           y == [x EXCEPT !.at = "cleanup"]
<1>1. x \in Busy /\ x.at = "apply" /\ x.items = <<>>
  BY AtWork, Zenon DEF QueueNextPage
<1>2. UNCHANGED <<peer, due, brought, writes>> /\ GoesOn(w, y)
      /\ queue' = IF x.next = 0 THEN queue ELSE QueueSyncTask(queue, t)
  BY Zenon DEF QueueNextPage
<1>3. x.task \in Task /\ x.next \in 0 .. KeyCount
  BY <1>1, BusyParts, Zenon
<1>4. n \in Peer
  BY <1>3, Zenon DEF Task
<1>5. \A k \in Key : InRange(k, x.task.range) => Settled(n, k) \/ Pending(x, k)
  BY <1>1, <1>4, Zenon DEF FreshInv, Awaited, On, InSync
<1>6. y \in Busy /\ y.at = "cleanup" /\ y.task = x.task /\ y.items = <<>>
  BY <1>1, Moves, Zenon
<1>7. t \in Task /\ t.node = n /\ t.range.start = x.next /\ t.range.end = x.task.range.end
  BY <1>1, NextPageTask, Zenon
<1> HIDE DEF x, y, t
<1>8. Grows /\ (x.next # 0 => \E m \in DOMAIN queue' : queue'[m] = t)
  <2>1. CASE x.next = 0
    BY <1>2, <2>1, Zenon DEF Grows
  <2>2. CASE x.next # 0
    BY <1>2, <1>7, <2>2, QueueGrows, Zenon
  <2> QED
    BY <2>1, <2>2, Zenon
<1>9. \A m \in Peer, k \in Key : due'[m][k] <= due[m][k]
  BY <1>2, DueKept, Zenon
<1>10. \A m \in Peer, k \in Key : Settled(m, k) => Settled(m, k)'
  BY <1>2, <1>8, <1>9, StaysSettled, Zenon
<1>11. ItemsRecent(y, due', queue')
  BY <1>6 DEF ItemsRecent
<1> HIDE DEF n
<1>12. \A m \in Peer, k \in Key : m = y.task.node /\ InRange(k, y.task.range) => Settled(m, k)'
  <2> SUFFICES ASSUME NEW m \in Peer, NEW k \in Key, m = n, InRange(k, x.task.range),
                      ~Settled(m, k)
               PROVE  Settled(m, k)'
    BY <1>6, <1>10, Zenon DEF n
  <2>1. Pending(x, k)
    BY <1>5, Zenon
  <2>2. x.next # 0 /\ x.next <= k
    BY <1>1, <2>1 DEF Pending
  <2>3. k >= t.range.start
    BY <1>3, <1>7, <2>2, Zenon DEF Key
  <2>4. InRange(k, t.range)
    BY <1>7, <2>3, Zenon DEF InRange
  <2> QED
    BY <1>7, <1>8, <2>2, <2>4, Zenon DEF Settled, Queued, Waits
<1> QED
  BY <1>1, <1>2, <1>4, <1>6, <1>8, <1>9, <1>10, <1>11, <1>12, GoingOnFresh, Zenon DEF n, x

\* A goroutine that ends leaves nothing of its range.
LEMMA CleanupFresh ==
    ASSUME TypeOK, TypeOK', FreshInv, NEW w \in Worker, SyncCleanup(w)
    PROVE  FreshInv'
<1> DEFINE x == worker[w]
<1>1. x \in Busy /\ x.at = "cleanup"
  BY AtWork, Zenon DEF SyncCleanup
<1>2. UNCHANGED <<queue, peer, due, brought, writes>> /\ GoesOn(w, Idle)
  BY Zenon DEF SyncCleanup
<1>3. \A v \in Worker : worker'[v] = IF v = w THEN Idle ELSE worker[v]
  BY <1>2, Zenon DEF GoesOn, TypeOK
<1>4. \A n \in Peer, k \in Key : On(x, n, k) => Settled(n, k)
  BY <1>1, Zenon DEF FreshInv, Awaited, Pending, InSync
<1>5. Grows
  BY <1>2, Zenon DEF Grows
<1>6. \A n \in Peer, k \in Key : due'[n][k] <= due[n][k]
  BY <1>2, DueKept, Zenon
<1>7. \A n \in Peer, k \in Key : Settled(n, k) => Settled(n, k)'
  BY <1>2, <1>5, <1>6, StaysSettled, Zenon
<1>8. DueOK'
  BY <1>2, Zenon DEF FreshInv, DueOK
<1>9. Served'
  <2> SUFFICES ASSUME NEW n \in Peer, NEW k \in Key, ~Settled(n, k)
               PROVE  \E v \in Worker : On(worker'[v], n, k)
    BY <1>7, Zenon DEF Served
  <2>1. PICK v \in Worker : On(worker[v], n, k)
    BY Zenon DEF FreshInv, Served
  <2>2. v # w
    BY <1>4, <2>1, Zenon
  <2> QED
    BY <1>3, <2>1, <2>2, Zenon
<1>10. \A v \in Worker :
         /\ \A n \in Peer, k \in Key :
               InSync(v)' /\ On(worker'[v], n, k) => Settled(n, k)' \/ Pending(worker'[v], k)
         /\ ItemsRecent(worker'[v], due', queue')
         /\ worker'[v].at = "begin" => worker'[v].key = 1
  <2> TAKE v \in Worker
  <2>1. CASE v # w
    BY <1>3, <1>5, <1>6, <1>7, <2>1, OthersFresh, Zenon
  <2>2. CASE v = w
    BY <1>3, <2>2 DEF On, ItemsRecent, Idle
  <2> QED
    BY <2>1, <2>2, Zenon
<1>11. Awaited'
  BY <1>10, Zenon DEF Awaited
<1>12. NoStale' /\ BeginsAtFirst'
  BY <1>10, Zenon DEF NoStale, BeginsAtFirst
<1> QED
  BY <1>8, <1>9, <1>11, <1>12, Zenon DEF FreshInv

\* The goroutines stay as they are, and so does what is applied.
LEMMA WorkersFresh ==
    ASSUME TypeOK, TypeOK', FreshInv, UNCHANGED <<worker, brought>>, Grows, DueOK',
           \A n \in Peer, k \in Key : due'[n][k] <= due[n][k]
    PROVE  FreshInv'
<1>1. \A n \in Peer, k \in Key : Settled(n, k) => Settled(n, k)'
  BY StaysSettled, Zenon
<1>2. Served'
  BY <1>1, Zenon DEF FreshInv, Served
<1>3. \A v \in Worker :
         /\ \A n \in Peer, k \in Key :
               InSync(v)' /\ On(worker'[v], n, k) => Settled(n, k)' \/ Pending(worker'[v], k)
         /\ ItemsRecent(worker'[v], due', queue')
         /\ worker'[v].at = "begin" => worker'[v].key = 1
  BY <1>1, OthersFresh, Zenon
<1>4. Awaited'
  BY <1>3, Zenon DEF Awaited
<1>5. NoStale' /\ BeginsAtFirst'
  BY <1>3, Zenon DEF NoStale, BeginsAtFirst
<1> QED
  BY <1>2, <1>4, <1>5, Zenon DEF FreshInv

\* A client of a peer makes nothing due.
LEMMA PeerFresh ==
    ASSUME TypeOK, TypeOK', FreshInv, NEW n \in Peer, NEW k \in Key, PeerChanges(n, k)
    PROVE  FreshInv'
<1>1. UNCHANGED <<queue, worker, brought>> /\ writes' = writes + 1
  BY Zenon DEF PeerChanges
<1>2. writes \in Nat /\ writes + 1 \in Val /\ 0 \in Val
  BY SyncAssumption DEF PeerChanges, TypeOK, Val
<1>3. peer \in [Peer -> [Key -> Val]] /\ due \in [Peer -> [Key -> Val]]
  BY Zenon DEF TypeOK
<1>4. \A m \in Peer, j \in Key : peer[m][j] \in Nat /\ due[m][j] \in Nat
                                 /\ due[m][j] <= peer[m][j] /\ peer[m][j] <= writes
  BY Cells, Zenon DEF FreshInv, DueOK
<1>5. ASSUME NEW m \in Peer, NEW j \in Key
      PROVE  due'[m][j] <= due[m][j] /\ due'[m][j] <= peer'[m][j] /\ peer'[m][j] <= writes'
  <2>1. CASE peer' = [peer EXCEPT ![n][k] = writes + 1] /\ due' = due
    <3>1. peer'[m][j] = IF m = n /\ j = k THEN writes + 1 ELSE peer[m][j]
      BY <1>2, <1>3, <2>1, SetCell
    <3> QED
      BY <1>1, <1>2, <1>4, <2>1, <3>1
  <2>2. CASE peer' = [peer EXCEPT ![n][k] = 0] /\ due' = [due EXCEPT ![n][k] = 0]
    <3>1. /\ peer'[m][j] = IF m = n /\ j = k THEN 0 ELSE peer[m][j]
          /\ due'[m][j] = IF m = n /\ j = k THEN 0 ELSE due[m][j]
      BY <1>2, <1>3, <2>2, SetCell
    <3> QED
      BY <1>1, <1>2, <1>4, <3>1
  <2> QED
    BY <2>1, <2>2, Zenon DEF PeerChanges
<1>6. DueOK'
  BY <1>5, Zenon DEF DueOK
<1>7. Grows
  BY <1>1, Zenon DEF Grows
<1> QED
  BY <1>1, <1>5, <1>6, <1>7, WorkersFresh, Zenon

\* A trigger makes due what the node has now, with a task for all of it.
LEMMA QueueAllFresh ==
    ASSUME TypeOK, TypeOK', FreshInv, NEW n \in Peer, NEW p \in {1, 2}, QueueAll(n, p)
    PROVE  FreshInv'
<1> DEFINE t == [node |-> n, range |-> All, priority |-> p]
<1>1. UNCHANGED <<worker, brought, peer, writes>> /\ queue' = QueueSyncTask(queue, t)
      /\ due' = [due EXCEPT ![n] = peer[n]]
  BY Zenon DEF QueueAll
<1>2. t \in Task /\ t.node = n
  BY WholeTask, Zenon
<1>3. \A k \in Key : InRange(k, t.range)
  BY Zenon DEF InRange, All
<1> HIDE DEF t
<1>4. Grows /\ \E m \in DOMAIN queue' : queue'[m] = t
  BY <1>1, <1>2, QueueGrows, Zenon
<1>5. \A k \in Key : Waits(queue', n, k)
  BY <1>2, <1>3, <1>4, Zenon DEF Waits
<1>6. \A m \in Peer, k \in Key : due'[m][k] = IF m = n THEN peer[n][k] ELSE due[m][k]
  BY <1>1, Zenon DEF TypeOK
<1>7. DueOK'
  <2>1. \A m \in Peer, k \in Key :
           peer[m][k] \in Nat /\ due[m][k] <= peer[m][k] /\ peer[m][k] <= writes
    BY Cells, Zenon DEF FreshInv, DueOK
  <2> QED
    BY <1>1, <1>6, <2>1 DEF DueOK
<1>8. \A m \in Peer, k \in Key : Waits(queue, m, k) => Waits(queue', m, k)
  BY <1>4, StaysQueued, Zenon DEF Queued
<1>9. \A m \in Peer, k \in Key : Settled(m, k) => Settled(m, k)'
  <2> SUFFICES ASSUME NEW m \in Peer, NEW k \in Key, Settled(m, k) PROVE Settled(m, k)'
    BY Zenon
  <2>1. CASE m = n
    BY <1>5, <2>1, Zenon DEF Settled, Queued
  <2>2. CASE m # n
    BY <1>1, <1>6, <1>8, <2>2, Zenon DEF Settled, Queued, Brought
  <2> QED
    BY <2>1, <2>2, Zenon
<1>10. Served'
  BY <1>1, <1>9, Zenon DEF FreshInv, Served
<1>11. Awaited'
  <2>1. \A v \in Worker, m \in Peer, k \in Key :
           InSync(v)' /\ On(worker'[v], m, k) => Settled(m, k)' \/ Pending(worker'[v], k)
    BY <1>1, <1>9, Zenon DEF FreshInv, Awaited, InSync
  <2> QED
    BY <2>1, Zenon DEF Awaited
<1>12. NoStale'
  <2>1. ASSUME NEW v \in Worker PROVE ItemsRecent(worker[v], due', queue')
    <3> SUFFICES ASSUME worker[v].at # "idle", NEW i \in DOMAIN worker[v].items
                 PROVE  Recent(due', queue', worker[v].task.node, worker[v].items[i])
      BY Zenon DEF ItemsRecent
    <3> DEFINE m == worker[v].task.node
               e == worker[v].items[i]
    <3>1. worker[v] \in Busy
      BY AtWork, Zenon
    <3>2. worker[v].items \in Seq(Item) /\ worker[v].task \in Task
      BY <3>1, BusyParts, Zenon
    <3>3. e \in Item
      BY <3>2
    <3>4. m \in Peer /\ e.key \in Key
      BY <3>2, <3>3, Zenon DEF Task, Item
    <3>5. Recent(due, queue, m, e)
      BY Zenon DEF FreshInv, NoStale, ItemsRecent
    <3> HIDE DEF m, e
    <3>6. Recent(due', queue', m, e)
      BY <1>5, <1>6, <1>8, <3>4, <3>5, Zenon DEF Recent
    <3> QED
      BY <3>6, Zenon DEF m, e
  <2> QED
    BY <1>1, <2>1, Zenon DEF NoStale
<1>13. BeginsAtFirst'
  BY <1>1, Zenon DEF FreshInv, BeginsAtFirst
<1> QED
  BY <1>7, <1>10, <1>11, <1>12, <1>13, Zenon DEF FreshInv

\* The tasks taken from the queue are in the hands of goroutines.
LEMMA TakenFresh ==
    ASSUME SInv, TypeOK', FreshInv, starts <= 1, NEW l \in Loop, processSyncTasks(l)
    PROVE  FreshInv'
<1> DEFINE c == Min({Concurrency, Len(queue)})
<1>a. TypeOK /\ LoopsOK
  BY Zenon DEF SInv
<1>1. c \in 1 .. Len(queue) /\ c <= Concurrency /\ queue \in Seq(Task)
  <2>1. Concurrency \in Nat \ {0} /\ Len(queue) \in Nat \ {0}
    BY <1>a, SyncAssumption DEF processSyncTasks, TypeOK
  <2>2. c \in {Concurrency, Len(queue)} /\ \A m \in {Concurrency, Len(queue)} : c <= m
    BY <2>1 DEF Min
  <2> QED
    BY <1>a, <2>1, <2>2 DEF TypeOK
<1>2. worker' = [w \in Worker |-> IF w[1] = l /\ w[2] <= c
                                  THEN Working(queue[w[2]], "begin") ELSE worker[w]]
      /\ queue' = SubSeq(queue, c + 1, Len(queue))
      /\ UNCHANGED <<peer, due, brought, writes>>
  BY Zenon DEF processSyncTasks
<1>3. \A w \in Worker : worker[w] = Idle
  <2> TAKE w \in Worker
  <2>1. w[1] \in Loop /\ w[1] \in Nat /\ l \in Nat /\ l >= 1 /\ w[1] >= 1
    BY DEF Worker, Loop
  <2>2. ~(l > starts)
    BY <1>a, Zenon DEF processSyncTasks, LoopsOK
  <2>3. starts \in Nat
    BY <1>a, Zenon DEF TypeOK
  <2>4. w[1] = l \/ w[1] > starts
    BY <2>1, <2>2, <2>3
  <2>5. loop[w[1]] # "wait"
    BY <1>a, <2>1, <2>4, Zenon DEF processSyncTasks, LoopsOK
  <2> QED
    BY <1>a, <2>1, <2>5, Zenon DEF LoopsOK
<1> HIDE DEF c
<1>4. \A w \in Worker : \/ worker'[w] = Idle
                        \/ w[1] = l /\ w[2] <= c /\ worker'[w] = Working(queue[w[2]], "begin")
  BY <1>2, <1>3, Zenon
<1>w. /\ \A t : /\ Working(t, "begin").at = "begin" /\ Working(t, "begin").items = <<>>
                  /\ Working(t, "begin").key = 1
      /\ Idle.at = "idle"
  BY Zenon DEF Working, Idle
<1>5. \A w \in Worker : worker'[w].at \in {"idle", "begin"}
  BY <1>4, <1>w, Zenon
<1>6. DueOK'
  BY <1>2, Zenon DEF FreshInv, DueOK
<1>7. Served'
  <2> SUFFICES ASSUME NEW n \in Peer, NEW k \in Key
               PROVE  Settled(n, k)' \/ \E w \in Worker : On(worker'[w], n, k)
    BY Zenon DEF Served
  <2>1. Settled(n, k)
    BY <1>3 DEF FreshInv, Served, On, Idle
  <2>2. CASE Brought(n, k)
    BY <1>2, <2>2, Zenon DEF Settled, Brought
  <2>3. CASE Queued(n, k)
    <3>1. PICK i \in 1 .. Len(queue) : queue[i].node = n /\ InRange(k, queue[i].range)
      BY <1>1, <2>3 DEF Queued, Waits
    <3>2. CASE i <= c
      <4>1. <<l, i>> \in Worker
        BY <1>1, <3>1, <3>2, SyncAssumption DEF Worker
      <4>2. worker'[<<l, i>>] = Working(queue[i], "begin")
        BY <1>2, <3>2, <4>1, Zenon
      <4>3. On(worker'[<<l, i>>], n, k)
        BY <3>1, <4>2 DEF On, Working
      <4> QED
        BY <4>1, <4>3, Zenon
    <3>3. CASE ~(i <= c)
      <4>1. i - c \in 1 .. Len(queue) - c /\ c + (i - c) = i
        BY <1>1, <3>3
      <4>2. Len(queue') = Len(queue) - c /\ DOMAIN queue' = 1 .. Len(queue')
            /\ \A j \in 1 .. Len(queue) - c : queue'[j] = queue[c + j]
        BY <1>1, <1>2
      <4>3. i - c \in DOMAIN queue' /\ queue'[i - c] = queue[i]
        BY <4>1, <4>2, Zenon
      <4> QED
        BY <3>1, <4>3, Zenon DEF Settled, Queued, Waits
    <3> QED
      BY <3>2, <3>3, Zenon
  <2> QED
    BY <2>1, <2>2, <2>3, Zenon DEF Settled
<1>8. Awaited'
  <2>1. \A w \in Worker : ~(InSync(w)')
    BY <1>5, Zenon DEF InSync
  <2> QED
    BY <2>1, Zenon DEF Awaited
<1>9. \A w \in Worker : worker'[w].at # "idle" => worker'[w].items = <<>> /\ worker'[w].key = 1
  BY <1>4, <1>w, Zenon
<1>10. NoStale'
  <2>1. \A w \in Worker : ItemsRecent(worker'[w], due', queue')
    BY <1>9 DEF ItemsRecent
  <2> QED
    BY <2>1, Zenon DEF NoStale
<1>11. BeginsAtFirst'
  BY <1>9, Zenon DEF BeginsAtFirst
<1> QED
  BY <1>6, <1>7, <1>8, <1>10, <1>11, Zenon DEF FreshInv

\* At the start nothing is due.
LEMMA FreshInit == Init => FreshInv
<1> SUFFICES ASSUME Init PROVE FreshInv
  BY Zenon
<1>1. TypeOK
  BY TypeInit, Zenon
<1>2. \A n \in Peer, k \in Key : due[n][k] = 0 /\ brought[n][k] = 0 /\ peer[n][k] \in {0, 1}
  BY SyncAssumption, Zenon DEF Init, Nothing
<1>3. DueOK
  BY <1>2 DEF DueOK, Init
<1>4. \A w \in Worker : worker[w] = Idle
  BY Zenon DEF Init
<1>5. Served
  BY <1>2 DEF Served, Settled, Brought
<1>6. Awaited /\ NoStale /\ BeginsAtFirst
  BY <1>4 DEF Awaited, InSync, NoStale, ItemsRecent, BeginsAtFirst, Idle
<1> QED
  BY <1>3, <1>5, <1>6, Zenon DEF FreshInv

\* Every step of a manager with one loop keeps it.
LEMMA FreshStep ==
    ASSUME SInv, SInv', [Next]_vars, FreshInv, starts <= 1
    PROVE  FreshInv'
<1>a. TypeOK /\ TypeOK' /\ MarksOK
  BY Zenon DEF SInv
<1>u. UNCHANGED <<queue, worker, peer, due, brought, writes>> => FreshInv'
  <2> SUFFICES ASSUME UNCHANGED <<queue, worker, peer, due, brought, writes>> PROVE FreshInv'
    BY Zenon
  <2>1. Grows /\ DueOK'
    BY Zenon DEF Grows, FreshInv, DueOK
  <2> QED
    BY <1>a, <2>1, DueKept, WorkersFresh, Zenon
<1>1. CASE Start \/ Stop \/ TriggerFullSync
  BY <1>1, <1>u, Zenon DEF Start, Stop, TriggerFullSync
<1>2. ASSUME NEW n \in Peer, TriggerSync(n) \/ FullSyncQueues(n) PROVE FreshInv'
  BY <1>2, <1>a, QueueAllFresh, Zenon DEF TriggerSync, FullSyncQueues
<1>3. ASSUME NEW n \in Peer, NEW k \in Key, PeerChanges(n, k) PROVE FreshInv'
  BY <1>3, <1>a, PeerFresh, Zenon
<1>4. ASSUME NEW l \in Loop, LoopExit(l) \/ LoopWaited(l) PROVE FreshInv'
  BY <1>4, <1>u, Zenon DEF LoopExit, LoopWaited
<1>5. ASSUME NEW l \in Loop, processSyncTasks(l) PROVE FreshInv'
  BY <1>5, <1>a, TakenFresh, Zenon
<1>6. ASSUME NEW w \in Worker, SyncBegin(w) PROVE FreshInv'
  BY <1>6, <1>a, SyncBeginFresh, Zenon
<1>7. ASSUME NEW w \in Worker, HandleSyncRequest(w) PROVE FreshInv'
  BY <1>7, <1>a, HandlerFresh, Zenon
<1>8. ASSUME NEW w \in Worker, ApplyItem(w) PROVE FreshInv'
  BY <1>8, <1>a, ApplyFresh, Zenon
<1>9. ASSUME NEW w \in Worker, QueueNextPage(w) PROVE FreshInv'
  BY <1>9, <1>a, NextPageFresh, Zenon
<1>10. ASSUME NEW w \in Worker, SyncCleanup(w) PROVE FreshInv'
  BY <1>10, <1>a, CleanupFresh, Zenon
<1>11. ASSUME NEW w \in Worker, SendFails(w) PROVE FreshInv'
  BY <1>11, <1>a, SendFailsFresh, Zenon
<1>12. CASE UNCHANGED vars
  BY <1>12, <1>u, Zenon DEF vars
<1> QED
  BY <1>1, <1>2, <1>3, <1>4, <1>5, <1>6, <1>7, <1>8, <1>9, <1>10, <1>11, <1>12, Zenon
     DEF Next, syncToNode

\* When the queue is empty and no goroutine works, everything that a trigger
\* asked for is in the cache: the pages of a range leave no key out, a task
\* dropped as a duplicate is done by another goroutine, and no old item comes
\* after a recent one.  It speaks of a manager that was started once: with the
\* two loops of a restart a task may be dropped although the goroutine that has
\* its range has read its keys before (sync.go:194, 268, 371, 400).
THEOREM DrainedFresh == Spec => []DrainedIsFresh
<1> DEFINE Inv == SInv /\ (starts <= 1 => FreshInv)
<1>1. Init => Inv
  BY SInvInit, FreshInit, Zenon
<1>2. Inv /\ [Next]_vars => Inv'
  <2> SUFFICES ASSUME SInv, starts <= 1 => FreshInv, [Next]_vars PROVE Inv'
    BY Zenon
  <2>1. SInv'
    BY SInvStep, Zenon
  <2>2. starts' <= 1 => starts <= 1
    <3>1. starts \in Nat
      BY Zenon DEF SInv, TypeOK
    <3>2. starts' = starts \/ starts' = starts + 1
      BY Zenon DEF Next, vars, Start, Stop, TriggerFullSync, TriggerSync, FullSyncQueues, QueueAll,
             PeerChanges, LoopExit, processSyncTasks, LoopWaited, syncToNode, SyncBegin,
             HandleSyncRequest, ApplyItem, QueueNextPage, SyncCleanup, SendFails
    <3> QED
      BY <3>1, <3>2
  <2>3. starts' <= 1 => FreshInv'
    BY <2>1, <2>2, FreshStep, Zenon
  <2> QED
    BY <2>1, <2>3, Zenon
<1>3. Inv => DrainedIsFresh
  <2> SUFFICES ASSUME SInv, FreshInv, Drained, NEW n \in Peer, NEW k \in Key
               PROVE  brought[n][k] >= due[n][k]
    BY Zenon DEF DrainedIsFresh
  <2>1. ~Queued(n, k)
    BY DEF Drained, Queued, Waits
  <2>2. \A w \in Worker : ~On(worker[w], n, k)
    BY DEF Drained, On, Idle
  <2>3. Brought(n, k)
    BY <2>1, <2>2, Zenon DEF FreshInv, Served, Settled
  <2> QED
    BY <2>3, Zenon DEF Brought
<1> QED
  BY <1>1, <1>2, <1>3, PTL DEF Spec
=============================================================================
