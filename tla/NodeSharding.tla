----------------------------- MODULE NodeSharding -----------------------------
(***************************************************************************)
(* The node-sharded cache (cache/nodesharding.go) over the ring of         *)
(* HashRing: AddNode and RemoveNode, and Get, Set and Del as clients that  *)
(* call one node after the other.  Set holds the read lock of nsc.mu over  *)
(* its calls; Get and Del copy the nodes of the key and release it.        *)
(*                                                                         *)
(* The caches of the nodes are remote (cache/distributed): an attempt may  *)
(* fail although it was carried out, and is repeated.  A node that is      *)
(* added again may bring its old contents or come back empty.  A value is  *)
(* the number of the Set that brought it, and 0 stands for ErrKeyNotFound. *)
(* A call that finds no node returns at once and is not a step.            *)
(***************************************************************************)
EXTENDS HashRing

CONSTANTS
    Node, Key, Client,
    Deployments,    \* positions of the virtual nodes of each node, and the
                    \* nodes at the start in the order they were added
    KeyHashes,      \* positions of the keys
    Weights,        \* weights that AddNode is called with
    ReplicaFactor,
    Retries,        \* of a remote cache
    MaxWrites, MaxDels, MaxChanges, MaxFaults   \* bounds on calls and errors

ASSUME ShardingAssumption ==
    /\ ReplicaFactor \in Nat \ {0} /\ Retries \in Nat
    /\ KeyHashes \subseteq [Key -> Position]

VARIABLES
    vnode, keyHash,   \* the hash function
    ring, nodes,
    cache,            \* what the node's cache holds
    call,             \* the call of each client
    down,             \* has removeWithoutLock panicked
    promise,          \* history: the value a Get must return, and the number of
                      \* changes of the nodes it survives
    writes, dels, changes, faults

vars == <<vnode, keyHash, ring, nodes, cache, call, down, promise,
          writes, dels, changes, faults>>

NoPromise == [val |-> 0, spare |-> -1]

Idle == [op |-> "idle"]

Init ==
    /\ \E d \in Deployments :
          /\ vnode = d.vnode
          /\ nodes = Range(d.first)
          /\ ring = FoldLeft(LAMBDA r, n : AddToRing(r, n, 1, d.vnode), EmptyRing, d.first)
    /\ keyHash \in KeyHashes
    /\ cache = [n \in Node |-> [k \in Key |-> 0]]
    /\ call = [c \in Client |-> Idle]
    /\ down = FALSE
    /\ promise = [k \in Key |-> NoPromise]
    /\ writes = 0 /\ dels = 0 /\ changes = 0 /\ faults = 0

-----------------------------------------------------------------------------
\* The nodes of the key, of which those without a cache are left out.
NodeIDs(k) ==
    LET ids == IF ReplicaFactor > 1
               THEN RingGetN(ring, keyHash[k], ReplicaFactor)
               ELSE <<RingGet(ring, keyHash[k])>>
    IN  SelectSeq(ids, LAMBDA n : n \in nodes)

LookupSpins == ReplicaFactor > 1 /\ GetNSpins(ring, ReplicaFactor)

Ready(c) == ~down /\ call[c].op = "idle"

\* A call that begins to change k ends what was promised of it, and it and the
\* calls it meets promise nothing.
Changing(k) == {d \in Client : call[d].op \in {"set", "del"} /\ call[d].key = k}

Meets(k) ==
    [d \in Client |->
        IF d \in Changing(k) THEN [call[d] EXCEPT !.alone = FALSE]
        ELSE IF call[d].op = "get" /\ call[d].key = k THEN [call[d] EXCEPT !.want = -1]
        ELSE call[d]]

-----------------------------------------------------------------------------
(* The remote cache of a node.                                             *)

RemoteGet(n, k) == cache[n][k]
RemoteSet(n, k, v) == [cache EXCEPT ![n][k] = v]
RemoteDel(n, k) == [cache EXCEPT ![n][k] = 0]

\* An attempt that ends in an error: the request or its answer was lost, and
\* the peer has carried it out or not.
AttemptFails(after) ==
    /\ faults < MaxFaults /\ faults' = faults + 1
    /\ cache' \in {cache, after}

\* doWithRetry: an attempt without success is repeated, and the last one ends
\* the call to this node.
Again(x, next) == IF x.tries < Retries THEN [x EXCEPT !.tries = @ + 1] ELSE next

NextNode(x) == [x EXCEPT !.todo = Tail(@), !.tries = 0]

-----------------------------------------------------------------------------
\* GetN does not return, with the read lock held.
Spin(c) ==
    /\ Ready(c)
    /\ nodes # {}
    /\ LookupSpins
    /\ call' = [call EXCEPT ![c] = [op |-> "spin"]]
    /\ UNCHANGED <<vnode, keyHash, ring, nodes, cache, down, promise,
                   writes, dels, changes, faults>>

Looked(c, k) ==
    /\ Ready(c)
    /\ ~LookupSpins
    /\ nodes # {}
    /\ NodeIDs(k) # <<>>

Get(c, k) ==
    /\ Looked(c, k)
    /\ call' = [call EXCEPT ![c] =
           [op |-> "get", key |-> k, todo |-> NodeIDs(k), tries |-> 0,
            want |-> IF promise[k].spare >= 0 THEN promise[k].val ELSE -1]]
    /\ UNCHANGED <<vnode, keyHash, ring, nodes, cache, down, promise,
                   writes, dels, changes, faults>>

\* A Get that asks the primary only.
GetNodePrimaryOnly(c) ==
    /\ ~down /\ call[c].op = "get"
    /\ call' = [call EXCEPT ![c] = Idle]
    /\ UNCHANGED <<vnode, keyHash, ring, nodes, cache, down, promise,
                   writes, dels, changes, faults>>

\* The nodes are asked in turn until one has the key; a miss is an error like
\* any other.
GetNode(c) ==
    /\ ~down /\ call[c].op = "get"
    /\ LET x    == call[c]
           next == IF Tail(x.todo) = <<>> THEN Idle ELSE NextNode(x)
           hit  == RemoteGet(Head(x.todo), x.key) # 0
       IN  \/ /\ call' = [call EXCEPT ![c] = IF hit THEN Idle ELSE Again(x, next)]
              /\ UNCHANGED <<cache, faults>>
           \/ /\ AttemptFails(cache)
              /\ call' = [call EXCEPT ![c] = Again([x EXCEPT !.want = -1],
                              IF next = Idle THEN next ELSE [next EXCEPT !.want = -1])]
    /\ UNCHANGED <<vnode, keyHash, ring, nodes, down, promise, writes, dels, changes>>

-----------------------------------------------------------------------------
Set(c, k) ==
    /\ Looked(c, k)
    /\ writes < MaxWrites /\ writes' = writes + 1
    /\ call' = [Meets(k) EXCEPT ![c] =
           [op |-> "set", key |-> k, val |-> writes + 1, todo |-> NodeIDs(k),
            tries |-> 0, all |-> Len(NodeIDs(k)), primaryErr |-> FALSE, backupErrors |-> 0,
            alone |-> Changing(k) = {}]]
    /\ promise' = [promise EXCEPT ![k] = NoPromise]
    /\ UNCHANGED <<vnode, keyHash, ring, nodes, cache, down, dels, changes, faults>>

\* Primary and backups in turn, whatever fails.
SetNode(c) ==
    /\ ~down /\ call[c].op = "set" /\ call[c].todo # <<>>
    /\ LET x       == call[c]
           primary == Len(x.todo) = x.all
           stored  == RemoteSet(Head(x.todo), x.key, x.val)
           failed  == [NextNode(x) EXCEPT
                          !.primaryErr = @ \/ primary,
                          !.backupErrors = IF primary THEN @ ELSE @ + 1]
       IN  \/ /\ cache' = stored
              /\ call' = [call EXCEPT ![c] = NextNode(x)]
              /\ UNCHANGED faults
           \/ /\ AttemptFails(stored)
              /\ call' = [call EXCEPT ![c] = Again(x, failed)]
    /\ UNCHANGED <<vnode, keyHash, ring, nodes, down, promise, writes, dels, changes>>

\* The backups counted with the primary among them.
SetFailsUncounted(x) == x.primaryErr /\ ~ (x.backupErrors < x.all)

SetFails(x) == x.primaryErr /\ ~ (x.backupErrors < x.all - 1)

SetReturn(c) ==
    /\ ~down /\ call[c].op = "set"
    /\ LET x == call[c] IN
         /\ x.todo = <<>>
         /\ call' = [call EXCEPT ![c] = Idle]
         /\ promise' = [promise EXCEPT ![x.key] =
                IF x.alone /\ ~x.primaryErr /\ x.backupErrors = 0
                THEN [val |-> x.val, spare |-> x.all - 1] ELSE NoPromise]
    /\ UNCHANGED <<vnode, keyHash, ring, nodes, cache, down, writes, dels, changes, faults>>

-----------------------------------------------------------------------------
Del(c, k) ==
    /\ Looked(c, k)
    /\ dels < MaxDels /\ dels' = dels + 1
    /\ call' = [Meets(k) EXCEPT ![c] =
           [op |-> "del", key |-> k, todo |-> NodeIDs(k), all |-> Len(NodeIDs(k)),
            tries |-> 0, errs |-> 0, alone |-> Changing(k) = {}]]
    /\ promise' = [promise EXCEPT ![k] = NoPromise]
    /\ UNCHANGED <<vnode, keyHash, ring, nodes, cache, down, writes, changes, faults>>

DelNode(c) ==
    /\ ~down /\ call[c].op = "del" /\ call[c].todo # <<>>
    /\ LET x       == call[c]
           deleted == RemoteDel(Head(x.todo), x.key)
       IN  \/ /\ cache' = deleted
              /\ call' = [call EXCEPT ![c] = NextNode(x)]
              /\ UNCHANGED faults
           \/ /\ AttemptFails(deleted)
              /\ call' = [call EXCEPT ![c] = Again(x, [NextNode(x) EXCEPT !.errs = @ + 1])]
    /\ UNCHANGED <<vnode, keyHash, ring, nodes, down, promise, writes, dels, changes>>

DelReturn(c) ==
    /\ ~down /\ call[c].op = "del"
    /\ LET x == call[c] IN
         /\ x.todo = <<>>
         /\ call' = [call EXCEPT ![c] = Idle]
         /\ promise' = [promise EXCEPT ![x.key] =
                IF x.alone /\ x.errs = 0 THEN [val |-> 0, spare |-> 0] ELSE NoPromise]
    /\ UNCHANGED <<vnode, keyHash, ring, nodes, cache, down, writes, dels, changes, faults>>

-----------------------------------------------------------------------------
\* nsc.mu is free for a writer: no Set and no endless lookup holds it.
NobodyReads == \A c \in Client : call[c].op \notin {"set", "spin"}

\* A change of the nodes uses up one of the changes that a promise survives,
\* and a Del under way no longer meets the nodes of its key only.
NodesChange(reset, old) ==
    /\ ~down
    /\ NobodyReads
    /\ changes < MaxChanges /\ changes' = changes + 1
    /\ promise' = [k \in Key |->
           IF promise[k].spare <= 0 \/ old[k] \notin {0, promise[k].val} THEN NoPromise
           ELSE [promise[k] EXCEPT !.spare = @ - 1]]
    /\ call' = [d \in Client |->
           IF call[d].op = "del" THEN [call[d] EXCEPT !.alone = FALSE]
           ELSE IF call[d].op = "get" /\ Range(call[d].todo) \cap reset # {}
           THEN [call[d] EXCEPT !.want = -1] ELSE call[d]]
    /\ UNCHANGED <<vnode, keyHash, writes, dels, faults>>

AddNode(n, weight) ==
    /\ n \notin nodes
    /\ ring' = AddToRing(ring, n, weight, vnode)
    /\ nodes' = nodes \cup {n}
    /\ \/ /\ NodesChange({}, cache[n])
          /\ UNCHANGED cache
       \/ /\ NodesChange({n}, [k \in Key |-> 0])
          /\ cache' = [cache EXCEPT ![n] = [k \in Key |-> 0]]
    /\ UNCHANGED down

RemoveNode(n) ==
    /\ n \in nodes
    /\ NodesChange({}, [k \in Key |-> 0])
    /\ IF RemovePanics(ring, n)
       THEN down' = TRUE /\ UNCHANGED <<ring, nodes>>
       ELSE /\ ring' = RemoveFromRing(ring, n)
            /\ nodes' = nodes \ {n}
            /\ UNCHANGED down
    /\ UNCHANGED cache

Next ==
    \/ \E c \in Client :
          \/ \E k \in Key : Get(c, k) \/ Set(c, k) \/ Del(c, k)
          \/ Spin(c)
          \/ GetNode(c)
          \/ SetNode(c) \/ SetReturn(c)
          \/ DelNode(c) \/ DelReturn(c)
    \/ \E n \in Node : RemoveNode(n) \/ \E w \in Weights : AddNode(n, w)

Spec == Init /\ [][Next]_vars
-----------------------------------------------------------------------------
(* Properties.                                                             *)

Points(n) == Range(ring.nodeHashes[n])

\* No two virtual nodes have the same position.
HashesDiffer ==
    \A n, m \in Node : \A i \in DOMAIN vnode[n] : \A j \in DOMAIN vnode[m] :
        vnode[n][i] = vnode[m][j] => n = m /\ i = j

\* Ring and node table agree, also after collisions: the positions in the
\* sorted list are those of the map, and each of them belongs to a node that is
\* still there and has that position (consthash.go:87, 121, 137,
\* nodesharding.go:104, 123).
RingInv ==
    /\ nodes \subseteq Node
    /\ cache \in [Node -> [Key -> 0 .. MaxWrites]]
    /\ DOMAIN ring.weights = nodes /\ DOMAIN ring.nodeHashes = nodes
    /\ Range(ring.sortedHashes) = DOMAIN ring.hashMap
    /\ \A i \in 1 .. Len(ring.sortedHashes) - 1 :
          ring.sortedHashes[i] <= ring.sortedHashes[i + 1]
    /\ \A h \in DOMAIN ring.hashMap :
          ring.hashMap[h] \in nodes /\ h \in Points(ring.hashMap[h])

\* Clockwise distance from a position to the nearest point of a node.
Distance(n, p) == Min({(h - p) % Size : h \in Points(n)})

Nearest ==
    \A p \in Position :
        LET far == [n \in nodes |-> Distance(n, p)] IN
        \A count \in {ReplicaFactor, Cardinality(Node)} :
            LET got == RingGetN(ring, p, count) IN
            /\ Len(got) = Min({count, Cardinality(nodes)})
            /\ \A i \in 1 .. Len(got) - 1 : far[got[i]] < far[got[i + 1]]
            /\ \A n \in nodes \ Range(got) : \A m \in Range(got) : far[m] < far[n]

\* Where no positions collide, every lookup ends, no removal panics, and GetN
\* returns the nearest nodes clockwise, nearest first, whatever was added and
\* removed before (consthash.go:131, 165, 188).  Only AddNode and RemoveNode
\* change the ring, so that looking at it between calls sees every ring there is.
RoutesToNearest ==
    HashesDiffer =>
        /\ ~down /\ \A c \in Client : call[c].op # "spin"
        /\ (\A c \in Client : call[c] = Idle) => Nearest

\* A Set that returned nil has stored its value in a node, whichever of its
\* calls failed (nodesharding.go:267).
AcknowledgedIsStored ==
    [][\A c \in Client :
          SetReturn(c) /\ ~SetFails(call[c]) /\ call[c].alone =>
              \E n \in Node : cache[n][call[c].key] = call[c].val]_vars

\* What a Get that returns has got: the value at the node it asked last.
Answer(x) == cache[Head(x.todo)][x.key]

\* The replicas are there "for fault tolerance" (nodesharding.go:23): a Get
\* returns the value of a Set that reached all of its replicas and met no other
\* call, also after as many changes of the nodes as there are backups, before
\* the Get or while it goes from node to node.
GetReturnsLatest ==
    [][\A c \in Client :
          HashesDiffer /\ GetNode(c) /\ call'[c].op = "idle" /\ UNCHANGED faults
              => call[c].want \in {-1, Answer(call[c])}]_vars

\* "automatic migration of the data" (README.md:18): adding a node leaves every
\* key readable that was so before.
JoinKeepsReadable ==
    [][\A k \in Key : nodes \subseteq nodes' =>
          ((\E n \in Range(NodeIDs(k)) : cache[n][k] # 0)
              => \E n \in Range(NodeIDs(k)') : cache'[n][k] # 0)]_<<nodes, ring>>
=============================================================================
