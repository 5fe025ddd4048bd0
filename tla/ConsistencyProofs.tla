-------------------------- MODULE ConsistencyProofs --------------------------
(***************************************************************************)
(* Proofs about Consistency.  ConsistencyInv says that an old entry is in  *)
(* doubt or about to be replaced.  The inductive invariant adds what the   *)
(* clients carry: a value the source has held, and the one it holds now    *)
(* unless it has changed since; and what is true of the entries while a    *)
(* delayed write or a Del of cache-aside is under way.                     *)
(***************************************************************************)
EXTENDS Consistency, TLAPS

\* What a client carries to the cache.
CarriedInv ==
    \A c \in Client :
        /\ pc[c] \in {"fill", "store", "setCache", "undo"} => val[c] \in Value
        /\ pc[c] = "fill" \/ (pc[c] \in {"setCache", "undo"} /\ strategy # "delayed")
              => val[c] \in stored
        /\ c \notin since /\ (pc[c] = "fill" \/ (pc[c] = "setCache" /\ strategy # "delayed"))
              => val[c] = source
        /\ pc[c] = "store" => strategy # "delayed"

\* What the source holds and the caches hold, the source has held.
HeldInv ==
    /\ source \in stored \cup {None}
    /\ strategy # "delayed" => \A n \in Cache : cache[n] \in stored \cup {None}

\* Without the notifier there are entries in the shared cache only.
SharedInv ==
    strategy # "mq" => \A n \in Cache : cache[n] # None => \A c \in Client : cacheOf[c] = n

\* While writes are delayed, an entry that is not in doubt is that of the only one.
DelayedInv ==
    /\ strategy # "delayed" => delayed = {}
    /\ \A n \in Cache \ doubt : delayed # {} => cache[n] = None \/ delayed = {cache[n]}

\* While cache-aside removes a value from the source, every entry is in doubt.
AsideInv ==
    strategy = "aside" /\ (\E c \in Client : pc[c] = "remove")
        => \A n \in Cache \ doubt : cache[n] = None

\* A client is about to write or remove the entry of n, or to send a message.
Replacing(c, n) ==
    \/ cacheOf[c] = n /\ pc[c] \in {"undo", "delCache"}
    \/ cacheOf[c] = n /\ pc[c] = "setCache" /\ strategy # "delayed"
    \/ strategy = "mq" /\ pc[c] \in {"setCache", "delCache", "publish"}

\* The entry of n is that of the source, or about to be replaced.
Fresh(n) ==
    \/ cache[n] \in {None, source}
    \/ delayed # {}
    \/ \E type \in MsgType : <<n, type>> \in inbox
    \/ \E c \in Client : Replacing(c, n)

FreshInv == \A n \in Cache \ doubt : Fresh(n)

CInv == TypeOK /\ CarriedInv /\ HeldInv /\ SharedInv /\ DelayedInv /\ AsideInv /\ FreshInv
-----------------------------------------------------------------------------
\* The inductive invariant implies the invariants of the runs.
LEMMA CInvImplies == CInv => ConsistencyInv /\ RestingCacheIsFresh
<1> SUFFICES ASSUME CInv PROVE ConsistencyInv /\ RestingCacheIsFresh
    OBVIOUS
<1>1. CacheHoldsStored
    BY DEF CInv, HeldInv, CacheHoldsStored
<1>2. \A n \in Cache \ doubt : cache[n] \in {None, source} \/ ReplacementPending(n)
    BY DEF CInv, FreshInv, Fresh, Replacing, ReplacementPending
<1>3. RestingCacheIsFresh
    BY ZenonT(30) DEF CInv, FreshInv, Fresh, Replacing, RestingCacheIsFresh, AtRest
<1> QED
    BY <1>1, <1>2, <1>3 DEF CInv, ConsistencyInv

\* With nothing cached and nobody busy it holds.
LEMMA CInvInit == Init => CInv
<1> SUFFICES ASSUME Init PROVE CInv
    OBVIOUS
<1>1. TypeOK
    BY RetriesAssumption, DeploymentAssumption DEF Init, TypeOK, Stage, Value
<1> QED
    BY <1>1 DEF Init, CInv, CarriedInv, HeldInv, SharedInv, DelayedInv, AsideInv, FreshInv, Fresh

\* The clients share a cache unless they have the notifier.
LEMMA Sharing ==
    ASSUME TypeOK, strategy # "mq", NEW b \in Client, NEW c \in Client
    PROVE  cacheOf[b] = cacheOf[c]
BY DeploymentAssumption DEF TypeOK

\* The strategy and the caches of the clients are those of a deployment.
LEMMA CacheTypes == TypeOK => /\ strategy \in {"aside", "through", "delayed", "mq"}
                              /\ cacheOf \in [Client -> Cache]
BY DeploymentAssumption DEF TypeOK

\* The outcomes of a call.
LEMMA OutcomeTypes == Outcome \subseteq {"ok", "fail", "lost"} /\ "ok" \in Outcome
BY DEF Outcome

\* Every step keeps the types.
LEMMA TypeStep ==
    ASSUME TypeOK, CarriedInv, [Next]_vars
    PROVE  TypeOK'
<1>1. ASSUME NEW c \in Client, Get(c) PROVE TypeOK'
    BY <1>1, RetriesAssumption, CacheTypes DEF Get, Goto, Enter, KeepSource,
       CarriedInv, TypeOK, Stage, Value, MsgType
<1>2. ASSUME NEW c \in Client, GetLoad(c) PROVE TypeOK'
    BY <1>2, RetriesAssumption, CacheTypes DEF GetLoad, Goto, Enter, CarriedInv,
       TypeOK, Stage, Value, MsgType
<1>3. ASSUME NEW c \in Client, GetFill(c) PROVE TypeOK'
    BY <1>3, RetriesAssumption, CacheTypes DEF GetFill, Goto, Enter, KeepSource,
       CacheSet, DoubtIfOverlapped, Overlapped, Applied, CarriedInv, TypeOK, Stage,
       Value, MsgType
<1>4. ASSUME NEW c \in Client, Set(c) PROVE TypeOK'
    BY <1>4, RetriesAssumption, CacheTypes DEF Set, Enter, KeepSource, CarriedInv,
       TypeOK, Stage, Value, MsgType
<1>5. ASSUME NEW c \in Client, SetStore(c) PROVE TypeOK'
  <2>1. source' \in Value \cup {None} /\ since' \subseteq Client /\ stored' \subseteq Value
      BY <1>5 DEF SetStore, ChangeSource, KeepSource, Applied, CarriedInv, TypeOK
  <2>2. pc' \in [Client -> Stage] /\ val' \in [Client -> 0 .. MaxWrites]
      BY <1>5, RetriesAssumption DEF SetStore, Goto, Enter, Applied, TypeOK, Stage
  <2>3. doubt' \subseteq Cache
      BY <1>5 DEF SetStore, Doubt, Applied, TypeOK
  <2> QED
      BY <1>5, <2>1, <2>2, <2>3 DEF SetStore, TypeOK
<1>6. ASSUME NEW c \in Client, SetCache(c) PROVE TypeOK'
  <2>1. CASE SetCacheOK(c)
    <3>1. cache' \in [Cache -> Value \cup {None}] /\ doubt' \subseteq Cache
        BY <1>6, <2>1, CacheTypes DEF SetCache, SetCacheOK, CacheSet,
           DoubtIfOverlapped, CarriedInv, TypeOK
    <3>2. pc' \in [Client -> Stage] /\ val' \in [Client -> 0 .. MaxWrites]
        BY <1>6, <2>1, RetriesAssumption DEF SetCacheOK, Goto, Enter, TypeOK,
           Stage
    <3>3. delayed' \subseteq Value
        BY <1>6, <2>1 DEF SetCache, SetCacheOK, CarriedInv, TypeOK
    <3> QED
        BY <1>6, <2>1, <3>1, <3>2, <3>3 DEF SetCache, KeepSource, TypeOK
  <2>2. ASSUME NEW o \in Outcome, SetCacheFails(c, o) PROVE TypeOK'
    <3>1. CASE strategy = "aside"
        BY <1>6, <2>2, <3>1, RetriesAssumption, CacheTypes DEF SetCache,
           KeepSource, Goto, Enter, CacheSet, SetCacheFails, Applied,
           DoubtIfOverlapped, Overlapped, Doubt, CarriedInv, TypeOK, Stage,
           Value
    <3>2. CASE strategy = "through"
        BY <1>6, <2>2, <3>2, RetriesAssumption, CacheTypes DEF SetCache,
           KeepSource, Goto, Enter, CacheSet, SetCacheFails, Applied,
           CarriedInv, TypeOK, Stage, Value
    <3>3. CASE strategy = "delayed"
        BY <1>6, <2>2, <3>3, RetriesAssumption, CacheTypes DEF SetCache,
           KeepSource, Goto, Enter, CacheSet, SetCacheFails, Applied,
           CarriedInv, TypeOK, Stage, Value
    <3>4. CASE strategy = "mq"
        BY <1>6, <2>2, <3>4, RetriesAssumption, CacheTypes DEF SetCache,
           KeepSource, Goto, Enter, CacheSet, SetCacheFails, Applied,
           CarriedInv, TypeOK, Stage, Value
    <3> QED
        BY <3>1, <3>2, <3>3, <3>4, CacheTypes
  <2> QED
      BY <1>6, <2>1, <2>2 DEF SetCache
<1>7. ASSUME NEW c \in Client, SetUndo(c) PROVE TypeOK'
    BY <1>7, RetriesAssumption, CacheTypes DEF SetUndo, Goto, Enter, KeepSource,
       CacheDel, Doubt, Applied, CarriedInv, TypeOK, Stage, Value, MsgType
<1>8. ASSUME NEW c \in Client, Del(c) PROVE TypeOK'
    BY <1>8, RetriesAssumption, CacheTypes DEF Del, Goto, Enter, KeepSource,
       CarriedInv, TypeOK, Stage, Value, MsgType
<1>9. ASSUME NEW c \in Client, DelRemove(c) PROVE TypeOK'
  <2>1. source' \in Value \cup {None} /\ since' \subseteq Client /\ stored' \subseteq Value
      BY <1>9 DEF DelRemove, ChangeSource, KeepSource, Applied, CarriedInv, TypeOK
  <2>2. pc' \in [Client -> Stage] /\ val' \in [Client -> 0 .. MaxWrites]
      BY <1>9, RetriesAssumption DEF DelRemove, Goto, Enter, Applied, TypeOK,
         Stage
  <2>3. doubt' \subseteq Cache
      BY <1>9 DEF DelRemove, Doubt, Applied, TypeOK
  <2> QED
      BY <1>9, <2>1, <2>2, <2>3 DEF DelRemove, TypeOK
<1>10. ASSUME NEW c \in Client, DelCache(c) PROVE TypeOK'
    BY <1>10, RetriesAssumption, CacheTypes DEF DelCache, Goto, Enter, KeepSource,
       CacheDel, Doubt, Applied, CarriedInv, TypeOK, Stage, Value, MsgType
<1>11. ASSUME NEW c \in Client, Invalidate(c) PROVE TypeOK'
    BY <1>11, RetriesAssumption, CacheTypes DEF Invalidate, Goto, Enter, KeepSource,
       CacheDel, Applied, CarriedInv, TypeOK, Stage, Value, MsgType
<1>12. ASSUME NEW c \in Client, Publish(c) PROVE TypeOK'
    BY <1>12, RetriesAssumption, CacheTypes DEF Publish, Goto, Enter, KeepSource,
       Doubt, Applied, CarriedInv, TypeOK, Stage, Value, MsgType
<1>13. ASSUME NEW v \in delayed, DelayedStore(v) PROVE TypeOK'
    BY <1>13, RetriesAssumption, CacheTypes, ZenonT(30) DEF DelayedStore,
       KeepSource, Doubt, Applied, CarriedInv, TypeOK, Stage, Value, MsgType
<1>14. ASSUME NEW n \in Cache, NEW type \in MsgType, HandleMessage(n, type) PROVE TypeOK'
    BY <1>14, RetriesAssumption, CacheTypes DEF HandleMessage, KeepSource, CacheDel,
       Doubt, Applied, CarriedInv, TypeOK, Stage, Value, MsgType
<1>15. ASSUME NEW n \in Cache, Expire(n) PROVE TypeOK'
    BY <1>15, RetriesAssumption, CacheTypes DEF Expire, KeepSource, CacheDel,
       CarriedInv, TypeOK, Stage, Value, MsgType
<1>16. CASE UNCHANGED vars
    BY <1>16 DEF vars, CarriedInv, TypeOK, Stage, Value, MsgType
<1> QED
    BY <1>1, <1>2, <1>3, <1>4, <1>5, <1>6, <1>7, <1>8, <1>9, <1>10, <1>11, <1>12,
       <1>13, <1>14, <1>15, <1>16 DEF Next, ClientStep, TypeOK

\* What a client carries it has read or written, and its `since' says whether that is
\* still so.
LEMMA CarriedStep ==
    ASSUME TypeOK, CarriedInv, HeldInv, [Next]_vars
    PROVE  CarriedInv'
<1>1. ASSUME NEW c \in Client, Get(c) PROVE CarriedInv'
    BY <1>1, NoneAssumption, RetriesAssumption DEF Get, Goto, Enter, KeepSource,
       CarriedInv, HeldInv, TypeOK, Stage, Value
<1>2. ASSUME NEW c \in Client, GetLoad(c) PROVE CarriedInv'
    BY <1>2, NoneAssumption, RetriesAssumption DEF GetLoad, Goto, Enter, CarriedInv,
       HeldInv, TypeOK, Stage, Value
<1>3. ASSUME NEW c \in Client, GetFill(c) PROVE CarriedInv'
    BY <1>3, NoneAssumption, RetriesAssumption DEF GetFill, Goto, Enter, KeepSource,
       Applied, CarriedInv, HeldInv, TypeOK, Stage, Value
<1>4. ASSUME NEW c \in Client, Set(c) PROVE CarriedInv'
    BY <1>4, NoneAssumption, RetriesAssumption DEF Set, Enter, KeepSource,
       CarriedInv, HeldInv, TypeOK, Stage, Value
<1>5. ASSUME NEW c \in Client, SetStore(c) PROVE CarriedInv'
    BY <1>5, NoneAssumption, RetriesAssumption DEF SetStore, Goto, Enter,
       ChangeSource, KeepSource, Applied, CarriedInv, HeldInv, TypeOK, Stage, Value
<1>6. ASSUME NEW c \in Client, SetCache(c) PROVE CarriedInv'
  <2>1. CASE SetCacheOK(c)
      BY <1>6, <2>1 DEF SetCache, KeepSource, Goto, Enter, SetCacheOK, CarriedInv,
         TypeOK, Stage
  <2>2. ASSUME NEW o \in Outcome, SetCacheFails(c, o) PROVE CarriedInv'
    <3>1. CASE strategy = "aside"
        BY <1>6, <2>2, <3>1 DEF SetCache, KeepSource, Goto, Enter,
           SetCacheFails, Applied, CarriedInv, TypeOK, Stage
    <3>2. CASE strategy = "through"
        BY <1>6, <2>2, <3>2 DEF SetCache, KeepSource, Goto, Enter,
           SetCacheFails, Applied, CarriedInv, TypeOK, Stage
    <3>3. CASE strategy = "delayed"
        BY <1>6, <2>2, <3>3 DEF SetCache, KeepSource, Goto, Enter,
           SetCacheFails, Applied, CarriedInv, TypeOK, Stage
    <3>4. CASE strategy = "mq"
        BY <1>6, <2>2, <3>4 DEF SetCache, KeepSource, Goto, Enter,
           SetCacheFails, Applied, CarriedInv, TypeOK, Stage
    <3> QED
        BY <3>1, <3>2, <3>3, <3>4, CacheTypes
  <2> QED
      BY <1>6, <2>1, <2>2 DEF SetCache
<1>7. ASSUME NEW c \in Client, SetUndo(c) PROVE CarriedInv'
    BY <1>7, NoneAssumption, RetriesAssumption DEF SetUndo, Goto, Enter, KeepSource,
       Applied, CarriedInv, HeldInv, TypeOK, Stage, Value
<1>8. ASSUME NEW c \in Client, Del(c) PROVE CarriedInv'
    BY <1>8, NoneAssumption, RetriesAssumption DEF Del, Goto, Enter, KeepSource,
       CarriedInv, HeldInv, TypeOK, Stage, Value
<1>9. ASSUME NEW c \in Client, DelRemove(c) PROVE CarriedInv'
    BY <1>9, NoneAssumption, RetriesAssumption, OutcomeTypes DEF DelRemove, Goto,
       Enter, ChangeSource, KeepSource, Applied, CarriedInv, HeldInv, TypeOK, Stage,
       Value
<1>10. ASSUME NEW c \in Client, DelCache(c) PROVE CarriedInv'
    BY <1>10, NoneAssumption, RetriesAssumption DEF DelCache, Goto, Enter,
       KeepSource, Applied, CarriedInv, HeldInv, TypeOK, Stage, Value
<1>11. ASSUME NEW c \in Client, Invalidate(c) PROVE CarriedInv'
    BY <1>11, NoneAssumption, RetriesAssumption DEF Invalidate, Goto, Enter,
       KeepSource, Applied, CarriedInv, HeldInv, TypeOK, Stage, Value
<1>12. ASSUME NEW c \in Client, Publish(c) PROVE CarriedInv'
    BY <1>12, NoneAssumption, RetriesAssumption DEF Publish, Goto, Enter,
       KeepSource, Applied, CarriedInv, HeldInv, TypeOK, Stage, Value
<1>13. ASSUME NEW v \in delayed, DelayedStore(v) PROVE CarriedInv'
    BY <1>13, NoneAssumption, RetriesAssumption DEF DelayedStore, KeepSource,
       Applied, CarriedInv, HeldInv, TypeOK, Stage, Value
<1>14. ASSUME NEW n \in Cache, NEW type \in MsgType, HandleMessage(n, type) PROVE CarriedInv'
    BY <1>14, NoneAssumption, RetriesAssumption DEF HandleMessage, KeepSource,
       Applied, CarriedInv, HeldInv, TypeOK, Stage, Value
<1>15. ASSUME NEW n \in Cache, Expire(n) PROVE CarriedInv'
    BY <1>15, NoneAssumption, RetriesAssumption DEF Expire, KeepSource, CarriedInv,
       HeldInv, TypeOK, Stage, Value
<1>16. CASE UNCHANGED vars
    BY <1>16 DEF vars, CarriedInv, HeldInv, TypeOK, Stage, Value
<1> QED
    BY <1>1, <1>2, <1>3, <1>4, <1>5, <1>6, <1>7, <1>8, <1>9, <1>10, <1>11, <1>12,
       <1>13, <1>14, <1>15, <1>16 DEF Next, ClientStep, TypeOK

\* The source and the caches get values that the source has held.
LEMMA HeldStep ==
    ASSUME TypeOK, CarriedInv, HeldInv, [Next]_vars
    PROVE  HeldInv'
<1>1. ASSUME NEW c \in Client, Get(c) PROVE HeldInv'
    BY <1>1, CacheTypes DEF Get, KeepSource, CarriedInv, HeldInv, TypeOK
<1>2. ASSUME NEW c \in Client, GetLoad(c) PROVE HeldInv'
    BY <1>2, CacheTypes DEF GetLoad, CarriedInv, HeldInv, TypeOK
<1>3. ASSUME NEW c \in Client, GetFill(c) PROVE HeldInv'
    BY <1>3, CacheTypes DEF GetFill, KeepSource, CacheSet, Applied, CarriedInv,
       HeldInv, TypeOK
<1>4. ASSUME NEW c \in Client, Set(c) PROVE HeldInv'
    BY <1>4, CacheTypes DEF Set, KeepSource, CarriedInv, HeldInv, TypeOK
<1>5. ASSUME NEW c \in Client, SetStore(c) PROVE HeldInv'
    BY <1>5, CacheTypes DEF SetStore, ChangeSource, KeepSource, Applied, CarriedInv,
       HeldInv, TypeOK
<1>6. ASSUME NEW c \in Client, SetCache(c) PROVE HeldInv'
    BY <1>6, CacheTypes, ZenonT(30) DEF SetCache, SetCacheOK, SetCacheFails,
       KeepSource, CacheSet, Applied, CarriedInv, HeldInv, TypeOK
<1>7. ASSUME NEW c \in Client, SetUndo(c) PROVE HeldInv'
    BY <1>7, CacheTypes DEF SetUndo, KeepSource, CacheDel, Applied, CarriedInv,
       HeldInv, TypeOK
<1>8. ASSUME NEW c \in Client, Del(c) PROVE HeldInv'
    BY <1>8, CacheTypes DEF Del, KeepSource, CarriedInv, HeldInv, TypeOK
<1>9. ASSUME NEW c \in Client, DelRemove(c) PROVE HeldInv'
    BY <1>9, CacheTypes DEF DelRemove, ChangeSource, KeepSource, Applied,
       CarriedInv, HeldInv, TypeOK
<1>10. ASSUME NEW c \in Client, DelCache(c) PROVE HeldInv'
    BY <1>10, CacheTypes DEF DelCache, KeepSource, CacheDel, Applied, CarriedInv,
       HeldInv, TypeOK
<1>11. ASSUME NEW c \in Client, Invalidate(c) PROVE HeldInv'
    BY <1>11, CacheTypes DEF Invalidate, KeepSource, CacheDel, Applied, CarriedInv,
       HeldInv, TypeOK
<1>12. ASSUME NEW c \in Client, Publish(c) PROVE HeldInv'
    BY <1>12, CacheTypes DEF Publish, KeepSource, Applied, CarriedInv, HeldInv,
       TypeOK
<1>13. ASSUME NEW v \in delayed, DelayedStore(v) PROVE HeldInv'
    BY <1>13, CacheTypes DEF DelayedStore, KeepSource, Applied, CarriedInv, HeldInv,
       TypeOK
<1>14. ASSUME NEW n \in Cache, NEW type \in MsgType, HandleMessage(n, type) PROVE HeldInv'
    BY <1>14, CacheTypes DEF HandleMessage, KeepSource, CacheDel, Applied,
       CarriedInv, HeldInv, TypeOK
<1>15. ASSUME NEW n \in Cache, Expire(n) PROVE HeldInv'
    BY <1>15, CacheTypes DEF Expire, KeepSource, CacheDel, CarriedInv, HeldInv,
       TypeOK
<1>16. CASE UNCHANGED vars
    BY <1>16 DEF vars, CarriedInv, HeldInv, TypeOK
<1> QED
    BY <1>1, <1>2, <1>3, <1>4, <1>5, <1>6, <1>7, <1>8, <1>9, <1>10, <1>11, <1>12,
       <1>13, <1>14, <1>15, <1>16 DEF Next, ClientStep, TypeOK

\* Without the notifier a step writes to the shared cache.
LEMMA SharedStep ==
    ASSUME TypeOK, SharedInv, [Next]_vars
    PROVE  SharedInv'
<1>1. ASSUME NEW c \in Client, Get(c) PROVE SharedInv'
    BY <1>1, CacheTypes, Sharing DEF Get, SharedInv, TypeOK
<1>2. ASSUME NEW c \in Client, GetLoad(c) PROVE SharedInv'
    BY <1>2, CacheTypes, Sharing DEF GetLoad, SharedInv, TypeOK
<1>3. ASSUME NEW c \in Client, GetFill(c) PROVE SharedInv'
    BY <1>3, CacheTypes, Sharing DEF GetFill, CacheSet, Applied, SharedInv, TypeOK
<1>4. ASSUME NEW c \in Client, Set(c) PROVE SharedInv'
    BY <1>4, CacheTypes, Sharing DEF Set, SharedInv, TypeOK
<1>5. ASSUME NEW c \in Client, SetStore(c) PROVE SharedInv'
    BY <1>5, CacheTypes, Sharing DEF SetStore, Applied, SharedInv, TypeOK
<1>6. ASSUME NEW c \in Client, SetCache(c) PROVE SharedInv'
    BY <1>6, CacheTypes, Sharing, ZenonT(30) DEF SetCache, SetCacheOK,
       SetCacheFails, CacheSet, Applied, SharedInv, TypeOK
<1>7. ASSUME NEW c \in Client, SetUndo(c) PROVE SharedInv'
    BY <1>7, CacheTypes, Sharing DEF SetUndo, CacheDel, Applied, SharedInv, TypeOK
<1>8. ASSUME NEW c \in Client, Del(c) PROVE SharedInv'
    BY <1>8, CacheTypes, Sharing DEF Del, SharedInv, TypeOK
<1>9. ASSUME NEW c \in Client, DelRemove(c) PROVE SharedInv'
    BY <1>9, CacheTypes, Sharing DEF DelRemove, Applied, SharedInv, TypeOK
<1>10. ASSUME NEW c \in Client, DelCache(c) PROVE SharedInv'
    BY <1>10, CacheTypes, Sharing DEF DelCache, CacheDel, Applied, SharedInv, TypeOK
<1>11. ASSUME NEW c \in Client, Invalidate(c) PROVE SharedInv'
    BY <1>11, CacheTypes, Sharing DEF Invalidate, CacheDel, Applied, SharedInv,
       TypeOK
<1>12. ASSUME NEW c \in Client, Publish(c) PROVE SharedInv'
    BY <1>12, CacheTypes, Sharing DEF Publish, Applied, SharedInv, TypeOK
<1>13. ASSUME NEW v \in delayed, DelayedStore(v) PROVE SharedInv'
    BY <1>13, CacheTypes, Sharing DEF DelayedStore, Applied, SharedInv, TypeOK
<1>14. ASSUME NEW n \in Cache, NEW type \in MsgType, HandleMessage(n, type) PROVE SharedInv'
    BY <1>14, CacheTypes, Sharing DEF HandleMessage, CacheDel, Applied, SharedInv,
       TypeOK
<1>15. ASSUME NEW n \in Cache, Expire(n) PROVE SharedInv'
    BY <1>15, CacheTypes, Sharing DEF Expire, CacheDel, SharedInv, TypeOK
<1>16. CASE UNCHANGED vars
    BY <1>16 DEF vars, SharedInv, TypeOK
<1> QED
    BY <1>1, <1>2, <1>3, <1>4, <1>5, <1>6, <1>7, <1>8, <1>9, <1>10, <1>11, <1>12,
       <1>13, <1>14, <1>15, <1>16 DEF Next, ClientStep, TypeOK

\* A second delayed write puts the shared cache in doubt.
LEMMA DelayedStep ==
    ASSUME TypeOK, SharedInv, DelayedInv, [Next]_vars
    PROVE  DelayedInv'
<1>1. ASSUME NEW c \in Client, Get(c) PROVE DelayedInv'
    BY <1>1, CacheTypes, Sharing DEF Get, SharedInv, DelayedInv, TypeOK
<1>2. ASSUME NEW c \in Client, GetLoad(c) PROVE DelayedInv'
    BY <1>2, CacheTypes, Sharing DEF GetLoad, SharedInv, DelayedInv, TypeOK
<1>3. ASSUME NEW c \in Client, GetFill(c) PROVE DelayedInv'
    BY <1>3, CacheTypes, Sharing DEF GetFill, CacheSet, DoubtIfOverlapped,
       Overlapped, Applied, SharedInv, DelayedInv, TypeOK
<1>4. ASSUME NEW c \in Client, Set(c) PROVE DelayedInv'
    BY <1>4, CacheTypes, Sharing DEF Set, SharedInv, DelayedInv, TypeOK
<1>5. ASSUME NEW c \in Client, SetStore(c) PROVE DelayedInv'
    BY <1>5, CacheTypes, Sharing DEF SetStore, Doubt, Applied, SharedInv,
       DelayedInv, TypeOK
<1>6. ASSUME NEW c \in Client, SetCache(c) PROVE DelayedInv'
  <2>1. CASE SetCacheOK(c)
      BY <1>6, <2>1, CacheTypes, Sharing DEF SetCache, CacheSet, SetCacheOK,
         DoubtIfOverlapped, Overlapped, SharedInv, DelayedInv, TypeOK
  <2>2. ASSUME NEW o \in Outcome, SetCacheFails(c, o) PROVE DelayedInv'
    <3>1. CASE strategy = "aside"
        BY <1>6, <2>2, <3>1, CacheTypes, Sharing DEF SetCache, CacheSet,
           SetCacheFails, Applied, DoubtIfOverlapped, Overlapped, Doubt,
           SharedInv, DelayedInv, TypeOK
    <3>2. CASE strategy = "through"
        BY <1>6, <2>2, <3>2, CacheTypes, Sharing DEF SetCache, CacheSet,
           SetCacheFails, Applied, SharedInv, DelayedInv, TypeOK
    <3>3. CASE strategy = "delayed"
        BY <1>6, <2>2, <3>3, CacheTypes, Sharing DEF SetCache, CacheSet,
           SetCacheFails, Applied, SharedInv, DelayedInv, TypeOK
    <3>4. CASE strategy = "mq"
        BY <1>6, <2>2, <3>4, CacheTypes, Sharing DEF SetCache, CacheSet,
           SetCacheFails, Applied, SharedInv, DelayedInv, TypeOK
    <3> QED
        BY <3>1, <3>2, <3>3, <3>4, CacheTypes
  <2> QED
      BY <1>6, <2>1, <2>2 DEF SetCache
<1>7. ASSUME NEW c \in Client, SetUndo(c) PROVE DelayedInv'
    BY <1>7, CacheTypes, Sharing DEF SetUndo, CacheDel, Doubt, Applied, SharedInv,
       DelayedInv, TypeOK
<1>8. ASSUME NEW c \in Client, Del(c) PROVE DelayedInv'
    BY <1>8, CacheTypes, Sharing DEF Del, SharedInv, DelayedInv, TypeOK
<1>9. ASSUME NEW c \in Client, DelRemove(c) PROVE DelayedInv'
    BY <1>9, CacheTypes, Sharing DEF DelRemove, Doubt, Applied, SharedInv,
       DelayedInv, TypeOK
<1>10. ASSUME NEW c \in Client, DelCache(c) PROVE DelayedInv'
    BY <1>10, CacheTypes, Sharing DEF DelCache, CacheDel, Doubt, Applied, SharedInv,
       DelayedInv, TypeOK
<1>11. ASSUME NEW c \in Client, Invalidate(c) PROVE DelayedInv'
    BY <1>11, CacheTypes, Sharing DEF Invalidate, CacheDel, Applied, SharedInv,
       DelayedInv, TypeOK
<1>12. ASSUME NEW c \in Client, Publish(c) PROVE DelayedInv'
    BY <1>12, CacheTypes, Sharing DEF Publish, Doubt, Applied, SharedInv,
       DelayedInv, TypeOK
<1>13. ASSUME NEW v \in delayed, DelayedStore(v) PROVE DelayedInv'
    BY <1>13, CacheTypes, Sharing DEF DelayedStore, Doubt, Applied, SharedInv,
       DelayedInv, TypeOK
<1>14. ASSUME NEW n \in Cache, NEW type \in MsgType, HandleMessage(n, type) PROVE DelayedInv'
    BY <1>14, CacheTypes, Sharing DEF HandleMessage, CacheDel, Doubt, Applied,
       SharedInv, DelayedInv, TypeOK
<1>15. ASSUME NEW n \in Cache, Expire(n) PROVE DelayedInv'
    BY <1>15, CacheTypes, Sharing DEF Expire, CacheDel, SharedInv, DelayedInv,
       TypeOK
<1>16. CASE UNCHANGED vars
    BY <1>16 DEF vars, SharedInv, DelayedInv, TypeOK
<1> QED
    BY <1>1, <1>2, <1>3, <1>4, <1>5, <1>6, <1>7, <1>8, <1>9, <1>10, <1>11, <1>12,
       <1>13, <1>14, <1>15, <1>16 DEF Next, ClientStep, TypeOK

\* Del of cache-aside has emptied the cache or put it in doubt, and what others write to
\* it until the source has changed is in doubt.
LEMMA AsideStep ==
    ASSUME TypeOK, SharedInv, AsideInv, [Next]_vars
    PROVE  AsideInv'
<1>1. ASSUME NEW c \in Client, Get(c) PROVE AsideInv'
    BY <1>1, CacheTypes, Sharing DEF Get, Goto, Enter, SharedInv, AsideInv, TypeOK
<1>2. ASSUME NEW c \in Client, GetLoad(c) PROVE AsideInv'
    BY <1>2, CacheTypes, Sharing DEF GetLoad, Goto, Enter, SharedInv, AsideInv,
       TypeOK
<1>3. ASSUME NEW c \in Client, GetFill(c) PROVE AsideInv'
    BY <1>3, CacheTypes, Sharing DEF GetFill, Goto, Enter, CacheSet,
       DoubtIfOverlapped, Overlapped, Applied, SharedInv, AsideInv, TypeOK
<1>4. ASSUME NEW c \in Client, Set(c) PROVE AsideInv'
    BY <1>4, CacheTypes, Sharing DEF Set, Enter, SharedInv, AsideInv, TypeOK
<1>5. ASSUME NEW c \in Client, SetStore(c) PROVE AsideInv'
    BY <1>5, CacheTypes, Sharing DEF SetStore, Goto, Enter, Doubt, Applied,
       SharedInv, AsideInv, TypeOK
<1>6. ASSUME NEW c \in Client, SetCache(c) PROVE AsideInv'
    BY <1>6, CacheTypes, Sharing DEF SetCache, SetCacheOK, SetCacheFails, Goto,
       Enter, CacheSet, Doubt, DoubtIfOverlapped, Overlapped, Applied, SharedInv,
       AsideInv, TypeOK
<1>7. ASSUME NEW c \in Client, SetUndo(c) PROVE AsideInv'
    BY <1>7, CacheTypes, Sharing DEF SetUndo, Goto, Enter, CacheDel, Doubt, Applied,
       SharedInv, AsideInv, TypeOK
<1>8. ASSUME NEW c \in Client, Del(c) PROVE AsideInv'
    BY <1>8, CacheTypes, Sharing DEF Del, Goto, Enter, SharedInv, AsideInv, TypeOK
<1>9. ASSUME NEW c \in Client, DelRemove(c) PROVE AsideInv'
    BY <1>9, CacheTypes, Sharing DEF DelRemove, Goto, Enter, Doubt, Applied,
       SharedInv, AsideInv, TypeOK
<1>10. ASSUME NEW c \in Client, DelCache(c) PROVE AsideInv'
    BY <1>10, CacheTypes, Sharing DEF DelCache, Goto, Enter, CacheDel, Doubt,
       Applied, SharedInv, AsideInv, TypeOK
<1>11. ASSUME NEW c \in Client, Invalidate(c) PROVE AsideInv'
    BY <1>11, CacheTypes, Sharing DEF Invalidate, Goto, Enter, CacheDel, Applied,
       SharedInv, AsideInv, TypeOK
<1>12. ASSUME NEW c \in Client, Publish(c) PROVE AsideInv'
    BY <1>12, CacheTypes, Sharing DEF Publish, Goto, Enter, Doubt, Applied,
       SharedInv, AsideInv, TypeOK
<1>13. ASSUME NEW v \in delayed, DelayedStore(v) PROVE AsideInv'
    BY <1>13, CacheTypes, Sharing DEF DelayedStore, Doubt, Applied, SharedInv,
       AsideInv, TypeOK
<1>14. ASSUME NEW n \in Cache, NEW type \in MsgType, HandleMessage(n, type) PROVE AsideInv'
    BY <1>14, CacheTypes, Sharing DEF HandleMessage, CacheDel, Doubt, Applied,
       SharedInv, AsideInv, TypeOK
<1>15. ASSUME NEW n \in Cache, Expire(n) PROVE AsideInv'
    BY <1>15, CacheTypes, Sharing DEF Expire, CacheDel, SharedInv, AsideInv, TypeOK
<1>16. CASE UNCHANGED vars
    BY <1>16 DEF vars, SharedInv, AsideInv, TypeOK
<1> QED
    BY <1>1, <1>2, <1>3, <1>4, <1>5, <1>6, <1>7, <1>8, <1>9, <1>10, <1>11, <1>12,
       <1>13, <1>14, <1>15, <1>16 DEF Next, ClientStep, TypeOK

\* A step of a client leaves the others where they are.
LEMMA OthersStay ==
    ASSUME TypeOK, NEW c \in Client, ClientStep(c), NEW b \in Client, b # c
    PROVE  pc'[b] = pc[b] /\ UNCHANGED <<strategy, cacheOf>>
<1>1. CASE Get(c)
    BY <1>1 DEF Get, Goto, Enter, TypeOK
<1>2. CASE GetLoad(c)
    BY <1>2 DEF GetLoad, Goto, Enter, TypeOK
<1>3. CASE GetFill(c)
    BY <1>3 DEF GetFill, Goto, Enter, TypeOK
<1>4. CASE Set(c)
    BY <1>4 DEF Set, Enter, TypeOK
<1>5. CASE SetStore(c)
    BY <1>5 DEF SetStore, Goto, Enter, TypeOK
<1>6. CASE SetCache(c)
    BY <1>6, CacheTypes, ZenonT(30) DEF SetCache, SetCacheOK, SetCacheFails, Goto,
       Enter, TypeOK
<1>7. CASE SetUndo(c)
    BY <1>7 DEF SetUndo, Goto, Enter, TypeOK
<1>8. CASE Del(c)
    BY <1>8 DEF Del, Goto, Enter, TypeOK
<1>9. CASE DelRemove(c)
    BY <1>9 DEF DelRemove, Goto, Enter, TypeOK
<1>10. CASE DelCache(c)
    BY <1>10 DEF DelCache, Goto, Enter, TypeOK
<1>11. CASE Invalidate(c)
    BY <1>11 DEF Invalidate, Goto, Enter, TypeOK
<1>12. CASE Publish(c)
    BY <1>12 DEF Publish, Goto, Enter, TypeOK
<1> QED
    BY <1>1, <1>2, <1>3, <1>4, <1>5, <1>6, <1>7, <1>8, <1>9, <1>10, <1>11, <1>12 DEF
       ClientStep

\* An entry that is not in doubt stays fresh or about to be replaced.
LEMMA FreshStep ==
    ASSUME TypeOK, CarriedInv, HeldInv, SharedInv, DelayedInv, AsideInv, FreshInv, [Next]_vars
    PROVE  FreshInv'
<1>1. ASSUME NEW c \in Client, Get(c) PROVE FreshInv'
  <2> SUFFICES ASSUME NEW m \in Cache, m \notin doubt' PROVE Fresh(m)'
      BY DEF FreshInv
  <2>1. ASSUME NEW b \in Client, b # c, Replacing(b, m) PROVE Fresh(m)'
      BY <1>1, <2>1, OthersStay, Zenon DEF ClientStep, Replacing, Fresh
  <2>2. ASSUME \A b \in Client : Replacing(b, m) => b = c PROVE Fresh(m)'
      BY <1>1, <2>2, CacheTypes, Sharing DEF Get, Goto, Enter, KeepSource,
         CarriedInv, HeldInv, SharedInv, DelayedInv, AsideInv, FreshInv,
         Replacing, Fresh, TypeOK, MsgType
  <2> QED
      BY <2>1, <2>2
<1>2. ASSUME NEW c \in Client, GetLoad(c) PROVE FreshInv'
  <2> SUFFICES ASSUME NEW m \in Cache, m \notin doubt' PROVE Fresh(m)'
      BY DEF FreshInv
  <2>1. ASSUME NEW b \in Client, b # c, Replacing(b, m) PROVE Fresh(m)'
      BY <1>2, <2>1, OthersStay, Zenon DEF ClientStep, Replacing, Fresh
  <2>2. ASSUME \A b \in Client : Replacing(b, m) => b = c PROVE Fresh(m)'
      BY <1>2, <2>2, CacheTypes, Sharing DEF GetLoad, Goto, Enter, CarriedInv,
         HeldInv, SharedInv, DelayedInv, AsideInv, FreshInv, Replacing, Fresh,
         TypeOK, MsgType
  <2> QED
      BY <2>1, <2>2
<1>3. ASSUME NEW c \in Client, GetFill(c) PROVE FreshInv'
  <2> SUFFICES ASSUME NEW m \in Cache, m \notin doubt' PROVE Fresh(m)'
      BY DEF FreshInv
  <2>1. ASSUME NEW b \in Client, b # c, Replacing(b, m) PROVE Fresh(m)'
      BY <1>3, <2>1, OthersStay, Zenon DEF ClientStep, Replacing, Fresh
  <2>2. ASSUME \A b \in Client : Replacing(b, m) => b = c PROVE Fresh(m)'
      BY <1>3, <2>2, CacheTypes, Sharing, OutcomeTypes DEF GetFill, Goto, Enter,
         KeepSource, CacheSet, DoubtIfOverlapped, Overlapped, Applied, CarriedInv,
         HeldInv, SharedInv, DelayedInv, AsideInv, FreshInv, Replacing, Fresh,
         TypeOK, MsgType
  <2> QED
      BY <2>1, <2>2
<1>4. ASSUME NEW c \in Client, Set(c) PROVE FreshInv'
  <2> SUFFICES ASSUME NEW m \in Cache, m \notin doubt' PROVE Fresh(m)'
      BY DEF FreshInv
  <2>1. ASSUME NEW b \in Client, b # c, Replacing(b, m) PROVE Fresh(m)'
      BY <1>4, <2>1, OthersStay, Zenon DEF ClientStep, Replacing, Fresh
  <2>2. ASSUME \A b \in Client : Replacing(b, m) => b = c PROVE Fresh(m)'
      BY <1>4, <2>2, CacheTypes, Sharing DEF Set, Enter, KeepSource, CarriedInv,
         HeldInv, SharedInv, DelayedInv, AsideInv, FreshInv, Replacing, Fresh,
         TypeOK, MsgType
  <2> QED
      BY <2>1, <2>2
<1>5. ASSUME NEW c \in Client, SetStore(c) PROVE FreshInv'
  <2> SUFFICES ASSUME NEW m \in Cache, m \notin doubt' PROVE Fresh(m)'
      BY DEF FreshInv
  <2>1. ASSUME NEW b \in Client, b # c, Replacing(b, m) PROVE Fresh(m)'
      BY <1>5, <2>1, OthersStay, Zenon DEF ClientStep, Replacing, Fresh
  <2>2. ASSUME \A b \in Client : Replacing(b, m) => b = c PROVE Fresh(m)'
      BY <1>5, <2>2, CacheTypes, Sharing, OutcomeTypes DEF SetStore, Goto, Enter,
         ChangeSource, KeepSource, Doubt, Applied, CarriedInv, HeldInv, SharedInv,
         DelayedInv, AsideInv, FreshInv, Replacing, Fresh, TypeOK, MsgType
  <2> QED
      BY <2>1, <2>2
<1>6. ASSUME NEW c \in Client, SetCache(c) PROVE FreshInv'
  <2> SUFFICES ASSUME NEW m \in Cache, m \notin doubt' PROVE Fresh(m)'
      BY DEF FreshInv
  <2>1. ASSUME NEW b \in Client, b # c, Replacing(b, m) PROVE Fresh(m)'
      BY <1>6, <2>1, OthersStay, Zenon DEF ClientStep, Replacing, Fresh
  <2>2. ASSUME \A b \in Client : Replacing(b, m) => b = c PROVE Fresh(m)'
    <3>1. CASE SetCacheOK(c)
        <4>1. CASE m # cacheOf[c]
            BY <1>6, <3>1, <4>1, CacheTypes DEF SetCache, SetCacheOK,
               KeepSource, Goto, Enter, CacheSet, SharedInv, Replacing,
               Fresh, TypeOK
        <4>2. CASE m = cacheOf[c]
          <5>1. ~Overlapped(c)
              BY <1>6, <3>1, <4>2 DEF SetCacheOK, DoubtIfOverlapped
          <5>2. CASE strategy = "delayed"
              BY <3>1, <5>2, Zenon DEF SetCacheOK, Fresh
          <5>3. CASE strategy # "delayed"
              BY <1>6, <3>1, <4>2, <5>1, <5>3, CacheTypes DEF SetCache,
                 SetCacheOK, KeepSource, CacheSet, Overlapped, CarriedInv,
                 Fresh, TypeOK
          <5> QED
              BY <5>2, <5>3
        <4> QED
            BY <4>1, <4>2
    <3>2. ASSUME NEW o \in Outcome, SetCacheFails(c, o) PROVE Fresh(m)'
      <4>1. CASE strategy = "aside"
          BY <1>6, <3>2, <4>1, <2>2, CacheTypes, Sharing, NoneAssumption DEF
             SetCache, KeepSource, Goto, Enter, CacheSet, SetCacheFails,
             Applied, DoubtIfOverlapped, Overlapped, Doubt, CarriedInv,
             HeldInv, SharedInv, DelayedInv, AsideInv, FreshInv, Replacing,
             Fresh, TypeOK, MsgType
      <4>2. CASE strategy = "through"
          BY <1>6, <3>2, <4>2, <2>2, CacheTypes, Sharing, NoneAssumption DEF
             SetCache, KeepSource, Goto, Enter, CacheSet, SetCacheFails,
             Applied, CarriedInv, HeldInv, SharedInv, DelayedInv, AsideInv,
             FreshInv, Replacing, Fresh, TypeOK, MsgType
      <4>3. CASE strategy = "delayed"
          BY <1>6, <3>2, <4>3, <2>2, CacheTypes, Sharing, NoneAssumption DEF
             SetCache, KeepSource, Goto, Enter, CacheSet, SetCacheFails,
             Applied, CarriedInv, HeldInv, SharedInv, DelayedInv, AsideInv,
             FreshInv, Replacing, Fresh, TypeOK, MsgType
      <4>4. CASE strategy = "mq"
          BY <1>6, <3>2, <4>4, <2>2, CacheTypes, Sharing, NoneAssumption DEF
             SetCache, KeepSource, Goto, Enter, CacheSet, SetCacheFails,
             Applied, CarriedInv, HeldInv, SharedInv, DelayedInv, AsideInv,
             FreshInv, Replacing, Fresh, TypeOK, MsgType
      <4> QED
          BY <4>1, <4>2, <4>3, <4>4, CacheTypes
    <3> QED
        BY <1>6, <3>1, <3>2 DEF SetCache
  <2> QED
      BY <2>1, <2>2
<1>7. ASSUME NEW c \in Client, SetUndo(c) PROVE FreshInv'
  <2> SUFFICES ASSUME NEW m \in Cache, m \notin doubt' PROVE Fresh(m)'
      BY DEF FreshInv
  <2>1. ASSUME NEW b \in Client, b # c, Replacing(b, m) PROVE Fresh(m)'
      BY <1>7, <2>1, OthersStay, Zenon DEF ClientStep, Replacing, Fresh
  <2>2. ASSUME \A b \in Client : Replacing(b, m) => b = c PROVE Fresh(m)'
      BY <1>7, <2>2, CacheTypes, Sharing, OutcomeTypes DEF SetUndo, Goto, Enter,
         KeepSource, CacheDel, Doubt, Applied, CarriedInv, HeldInv, SharedInv,
         DelayedInv, AsideInv, FreshInv, Replacing, Fresh, TypeOK, MsgType
  <2> QED
      BY <2>1, <2>2
<1>8. ASSUME NEW c \in Client, Del(c) PROVE FreshInv'
  <2> SUFFICES ASSUME NEW m \in Cache, m \notin doubt' PROVE Fresh(m)'
      BY DEF FreshInv
  <2>1. ASSUME NEW b \in Client, b # c, Replacing(b, m) PROVE Fresh(m)'
      BY <1>8, <2>1, OthersStay, Zenon DEF ClientStep, Replacing, Fresh
  <2>2. ASSUME \A b \in Client : Replacing(b, m) => b = c PROVE Fresh(m)'
      BY <1>8, <2>2, CacheTypes, Sharing DEF Del, Goto, Enter, KeepSource,
         CarriedInv, HeldInv, SharedInv, DelayedInv, AsideInv, FreshInv,
         Replacing, Fresh, TypeOK, MsgType
  <2> QED
      BY <2>1, <2>2
<1>9. ASSUME NEW c \in Client, DelRemove(c) PROVE FreshInv'
  <2> SUFFICES ASSUME NEW m \in Cache, m \notin doubt' PROVE Fresh(m)'
      BY DEF FreshInv
  <2>1. ASSUME NEW b \in Client, b # c, Replacing(b, m) PROVE Fresh(m)'
      BY <1>9, <2>1, OthersStay, Zenon DEF ClientStep, Replacing, Fresh
  <2>2. ASSUME \A b \in Client : Replacing(b, m) => b = c PROVE Fresh(m)'
      BY <1>9, <2>2, CacheTypes, Sharing, OutcomeTypes DEF DelRemove, Goto, Enter,
         ChangeSource, KeepSource, Doubt, Applied, CarriedInv, HeldInv, SharedInv,
         DelayedInv, AsideInv, FreshInv, Replacing, Fresh, TypeOK, MsgType
  <2> QED
      BY <2>1, <2>2
<1>10. ASSUME NEW c \in Client, DelCache(c) PROVE FreshInv'
  <2> SUFFICES ASSUME NEW m \in Cache, m \notin doubt' PROVE Fresh(m)'
      BY DEF FreshInv
  <2>1. ASSUME NEW b \in Client, b # c, Replacing(b, m) PROVE Fresh(m)'
      BY <1>10, <2>1, OthersStay, Zenon DEF ClientStep, Replacing, Fresh
  <2>2. ASSUME \A b \in Client : Replacing(b, m) => b = c PROVE Fresh(m)'
      BY <1>10, <2>2, CacheTypes, Sharing, OutcomeTypes DEF DelCache, Goto, Enter,
         KeepSource, CacheDel, Doubt, Applied, CarriedInv, HeldInv, SharedInv,
         DelayedInv, AsideInv, FreshInv, Replacing, Fresh, TypeOK, MsgType
  <2> QED
      BY <2>1, <2>2
<1>11. ASSUME NEW c \in Client, Invalidate(c) PROVE FreshInv'
  <2> SUFFICES ASSUME NEW m \in Cache, m \notin doubt' PROVE Fresh(m)'
      BY DEF FreshInv
  <2>1. ASSUME NEW b \in Client, b # c, Replacing(b, m) PROVE Fresh(m)'
      BY <1>11, <2>1, OthersStay, Zenon DEF ClientStep, Replacing, Fresh
  <2>2. ASSUME \A b \in Client : Replacing(b, m) => b = c PROVE Fresh(m)'
      BY <1>11, <2>2, CacheTypes, Sharing, OutcomeTypes DEF Invalidate, Goto,
         Enter, KeepSource, CacheDel, Applied, CarriedInv, HeldInv, SharedInv,
         DelayedInv, AsideInv, FreshInv, Replacing, Fresh, TypeOK, MsgType
  <2> QED
      BY <2>1, <2>2
<1>12. ASSUME NEW c \in Client, Publish(c) PROVE FreshInv'
  <2> SUFFICES ASSUME NEW m \in Cache, m \notin doubt' PROVE Fresh(m)'
      BY DEF FreshInv
  <2>1. ASSUME NEW b \in Client, b # c, Replacing(b, m) PROVE Fresh(m)'
      BY <1>12, <2>1, OthersStay, Zenon DEF ClientStep, Replacing, Fresh
  <2>2. ASSUME \A b \in Client : Replacing(b, m) => b = c PROVE Fresh(m)'
      BY <1>12, <2>2, CacheTypes, Sharing, OutcomeTypes DEF Publish, Goto, Enter,
         KeepSource, Doubt, Applied, CarriedInv, HeldInv, SharedInv, DelayedInv,
         AsideInv, FreshInv, Replacing, Fresh, TypeOK, MsgType
  <2> QED
      BY <2>1, <2>2
<1>13. ASSUME NEW v \in delayed, DelayedStore(v) PROVE FreshInv'
  <2> SUFFICES ASSUME NEW m \in Cache, m \notin doubt' PROVE Fresh(m)'
      BY DEF FreshInv
  <2> QED
      BY <1>13, CacheTypes, Sharing DEF DelayedStore, KeepSource, Doubt, Applied,
         HeldInv, SharedInv, DelayedInv, AsideInv, FreshInv, Replacing, Fresh,
         TypeOK, MsgType
<1>14. ASSUME NEW n \in Cache, NEW type \in MsgType, HandleMessage(n, type) PROVE FreshInv'
  <2> SUFFICES ASSUME NEW m \in Cache, m \notin doubt' PROVE Fresh(m)'
      BY DEF FreshInv
  <2> QED
      BY <1>14, CacheTypes, Sharing DEF HandleMessage, KeepSource, CacheDel,
         Doubt, Applied, HeldInv, SharedInv, DelayedInv, AsideInv, FreshInv,
         Replacing, Fresh, TypeOK, MsgType
<1>15. ASSUME NEW n \in Cache, Expire(n) PROVE FreshInv'
  <2> SUFFICES ASSUME NEW m \in Cache, m \notin doubt' PROVE Fresh(m)'
      BY DEF FreshInv
  <2> QED
      BY <1>15, CacheTypes, Sharing DEF Expire, KeepSource, CacheDel, HeldInv,
         SharedInv, DelayedInv, AsideInv, FreshInv, Replacing, Fresh, TypeOK,
         MsgType
<1>16. CASE UNCHANGED vars
    BY <1>16 DEF vars, FreshInv, Fresh, Replacing
<1> QED
    BY <1>1, <1>2, <1>3, <1>4, <1>5, <1>6, <1>7, <1>8, <1>9, <1>10, <1>11, <1>12,
       <1>13, <1>14, <1>15, <1>16 DEF Next, ClientStep, TypeOK

-----------------------------------------------------------------------------
\* Every step of a client, a delayed write, a subscriber or the caches keeps it.
LEMMA CInvStep == CInv /\ [Next]_vars => CInv'
BY TypeStep, CarriedStep, HeldStep, SharedStep, DelayedStep, AsideStep, FreshStep DEF CInv

\* It holds in every reachable state.
LEMMA CInvAlways == Spec => []CInv
BY CInvInit, CInvStep, PTL DEF Spec

\* Whatever the number of clients, caches and calls: a cache holds only what the data
\* source has held (but with delayed writes), and an old entry is in doubt or about to
\* be replaced (cache_aside.go, write_through.go, mq_notifier.go).
THEOREM ConsistencyInvariant == Spec => []ConsistencyInv
BY CInvAlways, CInvImplies, PTL

\* Once the calls have returned and the messages are handled, every entry that no
\* overlap and no error has put in doubt is the value of the data source.
THEOREM RestingFresh == Spec => []RestingCacheIsFresh
BY CInvAlways, CInvImplies, PTL
=============================================================================
