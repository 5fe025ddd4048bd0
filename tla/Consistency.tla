----------------------------- MODULE Consistency -----------------------------
(***************************************************************************)
(* The consistency strategies (cache/consistency): Get, Set, Del and       *)
(* Invalidate of cache-aside, write-through, write-through with delayed    *)
(* writes and the message-queue notifier, for one key.  The calls of a     *)
(* client are interleaved with those of the others at every access to the  *)
(* cache, the data source and the message queue; none of them is under a   *)
(* lock.                                                                   *)
(*                                                                         *)
(* A value is the number of the Set that brought it.  A hit, and an error  *)
(* of the cache in Get, change nothing and are not steps.                  *)
(***************************************************************************)
EXTENDS Integers

CONSTANTS
    Client,      \* goroutines that call a strategy
    Cache,       \* the caches
    Deployment,  \* pairs of a strategy and the cache of each client
    None,        \* no value
    MaxRetries,  \* of the message-queue notifier
    MaxWrites,   \* bound on the calls of Set
    Faults       \* may a call of the cache, the source or the queue fail

ASSUME RetriesAssumption == MaxRetries \in Nat /\ MaxWrites \in Nat
ASSUME NoneAssumption == None \notin Nat

\* Only the notifier tells other caches: with the other strategies the clients
\* share one.
ASSUME DeploymentAssumption ==
    /\ Deployment \subseteq {"aside", "through", "delayed", "mq"} \X [Client -> Cache]
    /\ \A d \in Deployment : d[1] # "mq" => \A b, c \in Client : d[2][b] = d[2][c]

VARIABLES
    strategy, cacheOf,
    source,   \* the data source
    cache,
    pc, val,  \* where a client is and the value it carries
    tries,    \* retries of publishWithRetry
    writes,   \* calls of Set so far
    delayed,  \* values of the goroutines that delayed writes have started
    inbox,    \* messages on their way to the subscribers
    since,    \* history: did the source change after the client's access to it
    doubt,    \* history: caches whose entry an overlap or an error may have made old
    stored    \* history: values the source has held

vars == <<strategy, cacheOf, source, cache, pc, val, tries, writes, delayed, inbox,
          since, doubt, stored>>

Value == 1 .. MaxWrites
Stage == {"idle", "load", "fill", "store", "setCache", "undo", "remove", "delCache", "publish"}
MsgType == {"update", "invalidate"}

\* A call succeeds, fails without effect, or fails after its effect.
Outcome == IF Faults THEN {"ok", "fail", "lost"} ELSE {"ok"}
Applied(o) == o # "fail"

\* Type correctness of the strategies, the caches and the data source.
TypeOK ==
    /\ <<strategy, cacheOf>> \in Deployment
    /\ source \in Value \cup {None} /\ cache \in [Cache -> Value \cup {None}]
    /\ pc \in [Client -> Stage] /\ val \in [Client -> 0 .. MaxWrites]
    /\ tries \in [Client -> 0 .. MaxRetries] /\ writes \in 0 .. MaxWrites
    /\ delayed \subseteq Value /\ inbox \subseteq Cache \X MsgType
    /\ since \subseteq Client /\ doubt \subseteq Cache /\ stored \subseteq Value

Init ==
    /\ \E d \in Deployment : strategy = d[1] /\ cacheOf = d[2]
    /\ source = None /\ cache = [n \in Cache |-> None]
    /\ pc = [c \in Client |-> "idle"] /\ val = [c \in Client |-> 0]
    /\ tries = [c \in Client |-> 0] /\ writes = 0
    /\ delayed = {} /\ inbox = {}
    /\ since = {} /\ doubt = {} /\ stored = {}
-----------------------------------------------------------------------------
(* Accesses.                                                               *)

\* A client goes on with the value v; a call that returns has none.
Enter(c, stage, v) == pc' = [pc EXCEPT ![c] = stage] /\ val' = [val EXCEPT ![c] = v]
Goto(c, stage) == Enter(c, stage, IF stage = "idle" THEN 0 ELSE val[c])

\* The source gets the value v; the clients that are busy, but c, have read or
\* written it before.
ChangeSource(c, v) ==
    /\ source' = v
    /\ since' = {d \in Client \ {c} : pc[d] # "idle"}
    /\ stored' = IF v = None THEN stored ELSE stored \cup {v}

KeepSource == UNCHANGED <<source, since, stored>>

\* cache.Set and cache.Del of the cache n.
CacheSet(n, v) == cache' = [cache EXCEPT ![n] = v]
CacheDel(n) == cache' = [cache EXCEPT ![n] = None] /\ doubt' = doubt \ {n}

\* An error may leave these caches with an old entry.
Doubt(caches) == doubt' = doubt \cup {n \in caches : cache[n] # None}

\* A change of the source, by another client or by a delayed write, has come
\* after c's access to it or is under way.  In cache-aside Del empties the
\* cache before it changes the source.
Overlapped(c) ==
    \/ c \in since
    \/ delayed # {}
    \/ strategy = "aside" /\ \E d \in Client : pc[d] = "remove"

DoubtIfOverlapped(c) ==
    doubt' = IF Overlapped(c) THEN doubt \cup {cacheOf[c]} ELSE doubt \ {cacheOf[c]}
-----------------------------------------------------------------------------
(* Get.                                                                    *)

Get(c) ==
    /\ pc[c] = "idle" /\ cache[cacheOf[c]] = None
    /\ Goto(c, "load")
    /\ UNCHANGED <<strategy, cacheOf, cache, tries, writes, delayed, inbox, doubt>>
    /\ KeepSource

\* With WriteOnMiss off, Get of cache-aside ends as it does after an error.
GetLoad(c) ==
    /\ pc[c] = "load"
    /\ \/ /\ Goto(c, "idle")
          /\ UNCHANGED since
       \/ /\ source # None
          /\ Enter(c, "fill", source)
          /\ since' = since \ {c}
    /\ UNCHANGED <<strategy, cacheOf, source, stored, cache, tries, writes, delayed, inbox, doubt>>

GetFill(c) ==
    /\ pc[c] = "fill"
    /\ \E o \in Outcome :
          \/ Applied(o) /\ CacheSet(cacheOf[c], val[c]) /\ DoubtIfOverlapped(c)
          \/ ~Applied(o) /\ UNCHANGED <<cache, doubt>>
    /\ Goto(c, "idle")
    /\ UNCHANGED <<strategy, cacheOf, tries, writes, delayed, inbox>>
    /\ KeepSource
-----------------------------------------------------------------------------
(* Set.                                                                    *)

Set(c) ==
    /\ pc[c] = "idle" /\ writes < MaxWrites
    /\ writes' = writes + 1
    /\ Enter(c, IF strategy = "delayed" THEN "setCache" ELSE "store", writes + 1)
    /\ UNCHANGED <<strategy, cacheOf, cache, tries, delayed, inbox, doubt>>
    /\ KeepSource

\* Set without the return on an error of the data source.
SetStoreUnchecked(c) ==
    /\ pc[c] = "store"
    /\ \E o \in Outcome :
          /\ IF Applied(o) THEN ChangeSource(c, val[c]) ELSE KeepSource
          /\ Goto(c, "setCache")
    /\ UNCHANGED <<strategy, cacheOf, cache, tries, writes, delayed, inbox, doubt>>

SetStore(c) ==
    /\ pc[c] = "store"
    /\ \E o \in Outcome :
          /\ IF Applied(o) THEN ChangeSource(c, val[c]) ELSE KeepSource
          /\ IF o = "ok" THEN Goto(c, "setCache") /\ UNCHANGED doubt
             ELSE Goto(c, "idle") /\ Doubt(IF o = "lost" THEN Cache ELSE {})
    /\ UNCHANGED <<strategy, cacheOf, cache, tries, writes, delayed, inbox>>

\* cache.Set, and what each strategy does when it fails.
SetCacheOK(c) ==
    /\ CacheSet(cacheOf[c], val[c])
    /\ DoubtIfOverlapped(c)
    /\ delayed' = IF strategy = "delayed" THEN delayed \cup {val[c]} ELSE delayed
    /\ Goto(c, IF strategy = "mq" THEN "publish" ELSE "idle")

SetCacheFails(c, o) ==
    /\ IF Applied(o) THEN CacheSet(cacheOf[c], val[c]) ELSE UNCHANGED cache
    /\ CASE strategy = "aside" ->
              /\ Goto(c, "idle")
              /\ IF Applied(o) THEN DoubtIfOverlapped(c) ELSE Doubt({cacheOf[c]})
         [] strategy = "through" -> Goto(c, "undo") /\ UNCHANGED doubt
         [] strategy = "delayed" ->
              /\ Goto(c, "idle")
              /\ doubt' = IF Applied(o) THEN doubt \cup {cacheOf[c]} ELSE doubt
         [] strategy = "mq" -> Goto(c, "publish") /\ UNCHANGED doubt
    /\ UNCHANGED delayed

SetCache(c) ==
    /\ pc[c] = "setCache"
    /\ \E o \in Outcome : IF o = "ok" THEN SetCacheOK(c) ELSE SetCacheFails(c, o)
    /\ UNCHANGED <<strategy, cacheOf, tries, writes, inbox>>
    /\ KeepSource

\* Write-through removes the entry it could not write.
SetUndo(c) ==
    /\ pc[c] = "undo"
    /\ \E o \in Outcome :
          IF Applied(o) THEN CacheDel(cacheOf[c]) ELSE Doubt({cacheOf[c]}) /\ UNCHANGED cache
    /\ Goto(c, "idle")
    /\ UNCHANGED <<strategy, cacheOf, tries, writes, delayed, inbox>>
    /\ KeepSource

\* The goroutine of a delayed write.
DelayedStore(v) ==
    /\ v \in delayed
    /\ delayed' = delayed \ {v}
    /\ \E o \in Outcome :
          IF Applied(o)
          THEN source' = v /\ since' = {d \in Client : pc[d] # "idle"} /\ stored' = stored \cup {v}
               /\ UNCHANGED doubt
          ELSE Doubt(Cache) /\ KeepSource
    /\ UNCHANGED <<strategy, cacheOf, cache, pc, val, tries, writes, inbox>>
-----------------------------------------------------------------------------
(* Del and Invalidate.                                                     *)

Del(c) ==
    /\ pc[c] = "idle"
    /\ Goto(c, IF strategy = "aside" THEN "delCache" ELSE "remove")
    /\ UNCHANGED <<strategy, cacheOf, cache, tries, writes, delayed, inbox, doubt>>
    /\ KeepSource

DelRemove(c) ==
    /\ pc[c] = "remove"
    /\ \E o \in Outcome :
          /\ IF Applied(o) THEN ChangeSource(c, None) ELSE KeepSource
          /\ Goto(c, IF o = "ok" /\ strategy # "aside" THEN "delCache" ELSE "idle")
          /\ Doubt(IF o = "lost" THEN Cache ELSE {})
    /\ UNCHANGED <<strategy, cacheOf, cache, tries, writes, delayed, inbox>>

\* The result of cache.Del is ignored; the notifier's message comes after it.
DelCache(c) ==
    /\ pc[c] = "delCache"
    /\ \E o \in Outcome :
          IF Applied(o) THEN CacheDel(cacheOf[c])
          ELSE Doubt(IF strategy = "mq" THEN {} ELSE {cacheOf[c]}) /\ UNCHANGED cache
    /\ Goto(c, CASE strategy = "aside" -> "remove" [] strategy = "mq" -> "publish" [] OTHER -> "idle")
    /\ UNCHANGED <<strategy, cacheOf, tries, writes, delayed, inbox>>
    /\ KeepSource

Invalidate(c) ==
    /\ pc[c] = "idle"
    /\ \E o \in Outcome :
          /\ IF Applied(o) THEN CacheDel(cacheOf[c]) ELSE UNCHANGED <<cache, doubt>>
          /\ Goto(c, IF o = "ok" /\ strategy = "mq" THEN "publish" ELSE "idle")
    /\ UNCHANGED <<strategy, cacheOf, tries, writes, delayed, inbox>>
    /\ KeepSource
-----------------------------------------------------------------------------
(* The message queue: every subscriber gets every message, maybe more than *)
(* once.                                                                   *)

\* publishWithRetry: the first attempt and MaxRetries others.
Publish(c) ==
    /\ pc[c] = "publish"
    /\ \E o \in Outcome :
          /\ inbox' = IF Applied(o)
                      THEN inbox \cup {<<n, IF val[c] = 0 THEN "invalidate" ELSE "update">> : n \in Cache}
                      ELSE inbox
          /\ \/ o = "ok" /\ Goto(c, "idle") /\ UNCHANGED doubt
             \/ o # "ok" /\ tries[c] < MaxRetries /\ UNCHANGED <<pc, val, doubt>>
             \/ o # "ok" /\ tries[c] = MaxRetries /\ Goto(c, "idle") /\ Doubt(Cache)
          /\ tries' = [tries EXCEPT ![c] = IF pc'[c] = "idle" THEN 0 ELSE @ + 1]
    /\ UNCHANGED <<strategy, cacheOf, cache, writes, delayed>>
    /\ KeepSource

\* handleMessage that leaves the cache alone on an update.
HandleMessageInvalidating(n, type) ==
    /\ <<n, type>> \in inbox
    /\ inbox' \in {inbox, inbox \ {<<n, type>>}}
    /\ IF type = "invalidate" THEN CacheDel(n) ELSE UNCHANGED <<cache, doubt>>
    /\ UNCHANGED <<strategy, cacheOf, pc, val, tries, writes, delayed>>
    /\ KeepSource

HandleMessage(n, type) ==
    /\ <<n, type>> \in inbox
    /\ inbox' \in {inbox, inbox \ {<<n, type>>}}
    /\ \E o \in Outcome :
          IF Applied(o) THEN CacheDel(n) ELSE Doubt({n}) /\ UNCHANGED cache
    /\ UNCHANGED <<strategy, cacheOf, pc, val, tries, writes, delayed>>
    /\ KeepSource

\* The entry's time is up, or the cache evicts it.
Expire(n) ==
    /\ cache[n] # None
    /\ CacheDel(n)
    /\ UNCHANGED <<strategy, cacheOf, pc, val, tries, writes, delayed, inbox>>
    /\ KeepSource
-----------------------------------------------------------------------------
ClientStep(c) ==
    \/ Get(c) \/ GetLoad(c) \/ GetFill(c)
    \/ Set(c) \/ SetStore(c) \/ SetCache(c) \/ SetUndo(c)
    \/ Del(c) \/ DelRemove(c) \/ DelCache(c) \/ Invalidate(c)
    \/ Publish(c)

Next ==
    \/ \E c \in Client : ClientStep(c)
    \/ \E v \in delayed : DelayedStore(v)
    \/ \E m \in inbox : HandleMessage(m[1], m[2])
    \/ \E n \in Cache : Expire(n)

Spec == Init /\ [][Next]_vars
-----------------------------------------------------------------------------
(* Properties.                                                             *)

\* A cache never holds a value that the data source has not held, whichever
\* calls fail half-way and however the clients overlap; delayed writes are
\* the exception, because they write the cache first (cache_aside.go:67,
\* write_through.go:93, mq_notifier.go:79).
CacheHoldsStored ==
    strategy # "delayed" => \A n \in Cache : cache[n] \in stored \cup {None}

\* Nothing is on its way to the cache n.
AtRest(n) ==
    /\ \A c \in Client : pc[c] = "idle"
    /\ delayed = {}
    /\ \A type \in MsgType : <<n, type>> \notin inbox

\* Once the calls have returned and the messages are handled, a cache holds
\* what the data source holds or nothing, unless its entry was written while
\* the source was being changed or an error was returned or swallowed since:
\* only overlaps and errors make entries old, and every other order of the
\* accesses of Get, Set, Del, Invalidate and handleMessage is safe.
RestingCacheIsFresh ==
    \A n \in Cache \ doubt : AtRest(n) => cache[n] \in {None, source}

\* The same in every state: an old entry that is not in doubt is about to be
\* replaced by a client that uses the cache, by a delayed write or by a message.
ReplacementPending(n) ==
    \/ \E c \in Client : pc[c] \in {"setCache", "undo", "delCache"} /\ cacheOf[c] = n
    \/ \E c \in Client : strategy = "mq" /\ pc[c] \in {"setCache", "delCache", "publish"}
    \/ delayed # {}
    \/ \E type \in MsgType : <<n, type>> \in inbox

ConsistencyInv ==
    /\ TypeOK
    /\ CacheHoldsStored
    /\ \A n \in Cache \ doubt : cache[n] \in {None, source} \/ ReplacementPending(n)

\* "updates the cache and the data source together, to keep them consistent"
\* (write_through.go:13): with one client and no errors a cache at rest holds
\* what the data source holds or nothing.
CacheMatchesSource ==
    \A n \in Cache : AtRest(n) => cache[n] \in {None, source}
=============================================================================
