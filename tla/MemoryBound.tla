------------------------------ MODULE MemoryBound ------------------------------
(***************************************************************************)
(* MemCacheMemory (cache/cachememory.go): a MemoryCache whose items have   *)
(* sizes, with the count of the memory in use and the list of accesses     *)
(* that Set evicts from.                                                   *)
(*                                                                         *)
(* A call is the sequence of the steps it still has to take; a step is     *)
(* what one mutex or one atomic operation covers.  The list is the doubly  *)
(* linked one of the code, with a node for a key in place of the pointer   *)
(* to it.  A node that is taken off the list is garbage.                   *)
(*                                                                         *)
(* NewMemCacheMemory replaces the callback of a cache that already runs.   *)
(* The timer's cleanUp calls the new one; the Cleaner of an asynchronous   *)
(* cache keeps the one it was made with and counts nothing.                *)
(***************************************************************************)
EXTENDS Integers, Sequences, FiniteSets, FiniteSetsExt, SequencesExt

CONSTANTS
    Key, Client,
    Cleaning,       \* the goroutine that removes expired items
    Deployments,    \* clients, keys, "sync" or "async" cleaning, whether items expire
    Sizes,          \* sizes of values
    MaxMemory,
    head, tail, None,
    MaxCalls        \* bound on the calls

ASSUME MemoryAssumption ==
    /\ IsFiniteSet(Key) /\ IsFiniteSet(Client) /\ Cleaning \notin Client
    /\ Sizes \subseteq Nat \ {0} /\ MaxMemory \in Nat /\ MaxCalls \in Nat
    /\ head \notin Key /\ tail \notin Key /\ None \notin Key /\ head # tail

VARIABLES
    dep,          \* the deployment
    item,         \* what the MemoryCache holds
    usedMemory,
    list,         \* accessList
    call,         \* of every client and of the cleaning goroutine
    calls,
    recent        \* history: the keys on the list, the last one used first

vars == <<dep, item, usedMemory, list, call, calls, recent>>

Item == [size : Sizes, expired : BOOLEAN]

\* A call: the key and size it is for, the key it removes and the item it
\* found there, and the steps left.
Call == [key : Key \cup {None}, size : Sizes \cup {0}, gone : Key \cup {None},
         found : Item \cup {None}, todo : Seq(STRING)]

NoCall == [key |-> None, size |-> 0, gone |-> None, found |-> None, todo |-> <<>>]
-----------------------------------------------------------------------------
(* The list of accesses.                                                   *)

EmptyList ==
    [next    |-> [k \in Key \cup {head, tail} |-> IF k = head THEN tail ELSE None],
     prev    |-> [k \in Key \cup {head, tail} |-> IF k = tail THEN head ELSE None],
     nodeMap |-> {}]

Unlink(l, k) ==
    [l EXCEPT !.next = [@ EXCEPT ![l.prev[k]] = l.next[k], ![k] = None],
              !.prev = [@ EXCEPT ![l.next[k]] = l.prev[k], ![k] = None]]

ToFront(l, k) ==
    [l EXCEPT !.next = [@ EXCEPT ![k] = l.next[head], ![head] = k],
              !.prev = [@ EXCEPT ![k] = head, ![l.next[head]] = k]]

ListAdd(l, k) ==
    [ToFront(IF k \in l.nodeMap THEN Unlink(l, k) ELSE l, k)
        EXCEPT !.nodeMap = @ \cup {k}]

\* An access that leaves the node where it is.
ListAccessUnmoved(l, k) == l

ListAccess(l, k) == IF k \in l.nodeMap THEN ToFront(Unlink(l, k), k) ELSE l

ListDel(l, k) ==
    IF k \in l.nodeMap THEN [Unlink(l, k) EXCEPT !.nodeMap = @ \ {k}] ELSE l

Init ==
    /\ dep \in Deployments
    /\ item = [k \in Key |-> None]
    /\ usedMemory = 0
    /\ list = EmptyList
    /\ call = [p \in Client \cup {Cleaning} |-> NoCall]
    /\ calls = 0
    /\ recent = <<>>
-----------------------------------------------------------------------------
(* Beginning a call.                                                       *)

Begin(c, x) ==
    /\ call[c] = NoCall
    /\ calls < MaxCalls /\ calls' = calls + 1
    /\ call' = [call EXCEPT ![c] = x]
    /\ UNCHANGED <<dep, item, usedMemory, list, recent>>

Set(c, k, size) ==
    Begin(c, [NoCall EXCEPT !.key = k, !.size = size, !.todo = <<"check">>])

\* A miss changes nothing.
Get(c, k) ==
    /\ item[k] # None
    /\ Begin(c, IF item[k].expired
                THEN [NoCall EXCEPT !.gone = k, !.found = item[k], !.todo = <<"delete">>]
                ELSE [NoCall EXCEPT !.key = k, !.todo = <<"access">>])

\* A Del that leaves the list to the callback.
DelStepsBare == <<"remove">>

\* MemCacheMemory.Del takes the key off the list once more.
DelSteps == <<"remove", "unlist">>

Del(c, k) == Begin(c, [NoCall EXCEPT !.gone = k, !.todo = DelSteps])

Expire(k) ==
    /\ dep.expires /\ item[k] # None /\ ~item[k].expired
    /\ item' = [item EXCEPT ![k].expired = TRUE]
    /\ UNCHANGED <<dep, usedMemory, list, call, calls, recent>>

\* The cleaning meets an expired item.
Clean(k) ==
    /\ call[Cleaning] = NoCall /\ item[k] # None /\ item[k].expired
    /\ call' = [call EXCEPT ![Cleaning] =
           [NoCall EXCEPT !.gone = k, !.found = item[k],
                          !.todo = IF dep.cleaning = "sync" THEN <<"delete">> ELSE <<"clean">>]]
    /\ UNCHANGED <<dep, item, usedMemory, list, calls, recent>>
-----------------------------------------------------------------------------
(* The steps of a call.                                                    *)

At(p, step) == call[p].todo # <<>> /\ Head(call[p].todo) = step

Rest(p) == Tail(call[p].todo)

\* The call goes on with the given steps, or returns.
GoOn(p, x, todo) ==
    call' = [call EXCEPT ![p] = IF todo = <<>> THEN NoCall ELSE [x EXCEPT !.todo = todo]]

\* c.mu is held from a check that failed to the choice of the victim.
MuFree == \A c \in Client : ~At(c, "evict")

\* A Set that counts new keys only.
ReserveNewKey(c) ==
    /\ usedMemory' = usedMemory + IF item[call[c].key] = None THEN call[c].size ELSE 0
    /\ GoOn(c, call[c], <<"list", "store">>)

\* The end of Set's loop.
Reserve(c) ==
    /\ usedMemory' = usedMemory + call[c].size
    /\ GoOn(c, call[c], <<"list", "store">>)

\* A check that leaves out the new value.
CheckBefore(c) ==
    /\ At(c, "check") /\ MuFree
    /\ IF usedMemory <= MaxMemory \/ list.prev[tail] = head
       THEN Reserve(c)
       ELSE GoOn(c, call[c], <<"evict">>) /\ UNCHANGED usedMemory
    /\ UNCHANGED <<dep, item, list, calls, recent>>

\* Evict reads the end of the list twice, without the list's mutex.
Check(c) ==
    /\ At(c, "check") /\ MuFree
    /\ IF usedMemory + call[c].size <= MaxMemory \/ list.prev[tail] = head
       THEN Reserve(c)
       ELSE GoOn(c, call[c], <<"evict">>) /\ UNCHANGED usedMemory
    /\ UNCHANGED <<dep, item, list, calls, recent>>

Evict(c) ==
    /\ At(c, "evict")
    /\ LET lruKey == list.prev[tail] IN
       IF lruKey = head
       THEN Reserve(c)
       ELSE /\ GoOn(c, [call[c] EXCEPT !.gone = lruKey], DelSteps \o <<"check">>)
            /\ UNCHANGED usedMemory
    /\ UNCHANGED <<dep, item, list, calls, recent>>

ListStep(c) ==
    /\ At(c, "list")
    /\ list' = ListAdd(list, call[c].key)
    /\ recent' = <<call[c].key>> \o Remove(recent, call[c].key)
    /\ GoOn(c, call[c], Rest(c))
    /\ UNCHANGED <<dep, item, usedMemory, calls>>

StoreStep(c) ==
    /\ At(c, "store")
    /\ item' = [item EXCEPT ![call[c].key] = [size |-> call[c].size, expired |-> FALSE]]
    /\ GoOn(c, call[c], Rest(c))
    /\ UNCHANGED <<dep, usedMemory, list, calls, recent>>

AccessStep(c) ==
    /\ At(c, "access")
    /\ list' = ListAccess(list, call[c].key)
    /\ recent' = IF Contains(recent, call[c].key)
                 THEN <<call[c].key>> \o Remove(recent, call[c].key) ELSE recent
    /\ GoOn(c, call[c], Rest(c))
    /\ UNCHANGED <<dep, item, usedMemory, calls>>
-----------------------------------------------------------------------------
(* Removals.                                                               *)

\* The callback: the size of the item that was found, then the list.
OnEvict == <<"subtract", "unlist">>

\* LoadAndDelete, and the callback if there was an item.
RemoveStep(c) ==
    /\ At(c, "remove")
    /\ LET x == call[c] IN
         GoOn(c, [x EXCEPT !.found = item[x.gone]],
              (IF item[x.gone] # None THEN OnEvict ELSE <<>>) \o Rest(c))
    /\ item' = [item EXCEPT ![call[c].gone] = None]
    /\ UNCHANGED <<dep, usedMemory, list, calls, recent>>

\* Get and cleanUp delete the key and call back, whatever the key has by now.
DeleteStep(p) ==
    /\ At(p, "delete")
    /\ item' = [item EXCEPT ![call[p].gone] = None]
    /\ GoOn(p, call[p], OnEvict \o Rest(p))
    /\ UNCHANGED <<dep, usedMemory, list, calls, recent>>

\* The Cleaner's callback is the one of before.
CleanerStep ==
    /\ At(Cleaning, "clean")
    /\ item' = [item EXCEPT ![call[Cleaning].gone] = None]
    /\ GoOn(Cleaning, call[Cleaning], Rest(Cleaning))
    /\ UNCHANGED <<dep, usedMemory, list, calls, recent>>

SubtractStep(p) ==
    /\ At(p, "subtract")
    /\ usedMemory' = usedMemory - call[p].found.size
    /\ GoOn(p, call[p], Rest(p))
    /\ UNCHANGED <<dep, item, list, calls, recent>>

UnlistStep(p) ==
    /\ At(p, "unlist")
    /\ list' = ListDel(list, call[p].gone)
    /\ recent' = Remove(recent, call[p].gone)
    /\ GoOn(p, call[p], Rest(p))
    /\ UNCHANGED <<dep, item, usedMemory, calls>>

Step(p) ==
    \/ Check(p) \/ Evict(p) \/ ListStep(p) \/ StoreStep(p) \/ AccessStep(p)
    \/ RemoveStep(p) \/ DeleteStep(p) \/ SubtractStep(p) \/ UnlistStep(p)

Next ==
    \/ \E c \in dep.clients, k \in dep.keys : (\E z \in Sizes : Set(c, k, z)) \/ Get(c, k) \/ Del(c, k)
    \/ \E k \in Key : Expire(k) \/ Clean(k)
    \/ \E p \in Client \cup {Cleaning} : Step(p)
    \/ CleanerStep

Spec == Init /\ [][Next]_vars

\* A goroutine that can take a step takes it.
FairSpec == Spec /\ \A c \in Client : WF_vars(Step(c))
-----------------------------------------------------------------------------
(* Properties.                                                             *)

Total(S, size(_)) == FoldSet(LAMBDA x, n : size(x) + n, 0, S)

Stored == Total({k \in Key : item[k] # None}, LAMBDA k : item[k].size)

\* What a call has counted and not stored yet, or has removed and not
\* subtracted yet.
Underway ==
    Total({p \in Client : \E i \in DOMAIN call[p].todo : call[p].todo[i] = "store"},
          LAMBDA p : call[p].size)
    + Total({p \in Client \cup {Cleaning} : At(p, "subtract")}, LAMBDA p : call[p].found.size)

\* The memory in use is never counted too low, so that Set does not let in
\* more than there is room for, however two clients overlap and although the
\* Cleaner removes items uncounted (cachememory.go:65, 175).
NeverUndercounts ==
    /\ item \in [Key -> Item \cup {None}] /\ usedMemory \in Int
    /\ \A p \in Client \cup {Cleaning} : call[p] \in Call
    /\ usedMemory >= Stored + Underway

\* The keys met on the way from the head to the tail.
Order ==
    LET from[k \in Key \cup {head}, n \in 0 .. Cardinality(Key)] ==
            IF list.next[k] = tail \/ n = 0 THEN <<>>
            ELSE <<list.next[k]>> \o from[list.next[k], n - 1]
    IN  from[head, Cardinality(Key)]

\* The linked list is the order of use, the last used key first, in both
\* directions; nodeMap has its keys (cachememory.go:221, 255, 275).
ListIsRecency ==
    /\ Order = recent
    /\ list.nodeMap = ToSet(recent)
    /\ \A k \in list.nodeMap \cup {head} : list.prev[list.next[k]] = k

Alone == Cardinality(dep.clients) = 1

\* "evicts when the memory in use is over the limit"
\* (memory_constrained_cache.go:28): calls that do not overlap never store more
\* than the limit, and a stored key is on the list, where Set can evict it
\* (cachememory.go:162, 179).
StoredFits ==
    Alone =>
        /\ Stored <= MaxMemory
        /\ \A k \in Key : item[k] # None => k \in list.nodeMap
              \/ \E p \in Client \cup {Cleaning} : At(p, "unlist") /\ call[p].gone = k

\* Every call returns: Set's loop ends, also where the keys on the list are no
\* longer stored (cachememory.go:162, 199).
CallsReturn == \A c \in Client : call[c] # NoCall ~> call[c] = NoCall
=============================================================================
