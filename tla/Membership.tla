----------------------------- MODULE Membership ------------------------------
(***************************************************************************)
(* Cluster membership and the hash ring that follows it: the member table  *)
(* and the failure detector (cache/cluster/membership.go), the gossip of   *)
(* member tables (gossip.go), the messages of a Node (node.go), the event  *)
(* channel (events.go), and the NodeDistributor of a ShardedClusterCache   *)
(* that turns events into ring changes (integration/node_distributor.go,   *)
(* sharded_cluster_cache.go).                                              *)
(*                                                                         *)
(* Clocks are left out: a suspicion is "fresh" until SuspicionMult probe   *)
(* intervals have passed and "old" from then on.  Addresses and metadata   *)
(* are left out: no decision of this code depends on them.                 *)
(***************************************************************************)
EXTENDS Integers, Sequences, FiniteSets

CONSTANTS
    Node,
    Watcher,         \* the nodes of ShardedClusterCaches: their event channel is read
    Mortal,          \* the nodes that may crash
    Calls,           \* which of "join", "leave", "gossip", "restart" happen, and whether
                     \* a probe of a running node may fail ("loss")
    EventBufferSize, \* the capacity of the event channel
    MaxGossip,       \* bound on the gossip messages in flight
    MaxCrashes       \* bound on the crashes

ASSUME NodesAssumption == IsFiniteSet(Node) /\ Watcher \subseteq Node /\ Mortal \subseteq Node
ASSUME BoundsAssumption == EventBufferSize \in Nat /\ MaxGossip \in Nat /\ MaxCrashes \in Nat

VARIABLES
    view,     \* members of <<n, m>>: what n holds of m
    timer,    \* suspectTime of <<n, m>>
    crashed, crashes,
    left,     \* the nodes that have called Leave
    probes,   \* <<n, m>>: n waits for m's answer to a ping, or has it
    pings,    \* <<n, m>>: a ping of n on its way to m
    leaves,   \* <<n, m>>: a leave message of n on its way to m
    joins,    \* <<n, s>>: how far n's join at seed s is
    gossips,  \* the gossip messages on their way or being handled
    events,   \* the event channel of a watcher
    dropped,  \* the watchers whose channel was full when an event was published
    nodeMap, ring,  \* of the watchers' distributors: the remote nodes
    snapshot, \* Members() taken by ShardedClusterCache.Join, not yet in the ring
    joinErr   \* the watchers whose Join has returned an error of the ring

sharding == <<nodeMap, ring, snapshot, joinErr>>
network == <<crashed, crashes, left, probes, pings, leaves, joins, gossips>>
vars == <<view, timer, crashed, crashes, left, probes, pings, leaves, joins, gossips,
          events, dropped, nodeMap, ring, snapshot, joinErr>>

Pair == Node \X Node
Status == {"None", "Up", "Suspect", "Down"}
Alive(n) == n \notin crashed
Members(n) == {m \in Node : view[<<n, m>>] # "None"}

\* What is left to do of a gossip message: an entry per node, and, once
\* AddMember is done for an entry, the call that follows it.
Entry == Node \X {"Up", "Suspect", "Down", "alive", "suspect"}
Event == [type : {"Join", "Leave", "Failed", "Recovered"}, node : Node]

\* Type correctness of the tables, the messages and the rings.
TypeOK ==
    /\ view \in [Pair -> Status]
    /\ timer \in [Pair -> {"none", "fresh", "old"}]
    /\ crashed \subseteq Node /\ left \subseteq Node /\ crashes \in 0 .. MaxCrashes
    /\ probes \in [Pair -> {"none", "sent", "answered"}]
    /\ pings \subseteq Pair /\ leaves \subseteq Pair
    /\ joins \in [Pair -> {"none", "asked", "answered", "added", "taken"}]
    /\ \A g \in gossips : g.to \in Node /\ g.entries \subseteq Entry
    /\ events \in [Node -> Seq(Event)] /\ \A n \in Node : Len(events[n]) <= EventBufferSize
    /\ dropped \subseteq Watcher
    /\ nodeMap \in [Node -> SUBSET Node] /\ ring \in [Node -> SUBSET Node]
    /\ snapshot \in [Node -> SUBSET Node] /\ joinErr \subseteq Node

\* The nodes have been started; when no join is called they have all joined.
Init ==
    /\ view = [p \in Pair |-> IF p[1] = p[2] \/ "join" \notin Calls THEN "Up" ELSE "None"]
    /\ timer = [p \in Pair |-> "none"]
    /\ crashed = {} /\ crashes = 0 /\ left = {}
    /\ probes = [p \in Pair |-> "none"] /\ pings = {} /\ leaves = {}
    /\ joins = [p \in Pair |-> "none"]
    /\ gossips = {}
    /\ events = [n \in Node |-> <<>>] /\ dropped = {}
    /\ ring = [n \in Node |-> IF n \in Watcher THEN Members(n) \ {n} ELSE {}]
    /\ nodeMap = ring
    /\ snapshot = [n \in Node |-> {}] /\ joinErr = {}
-----------------------------------------------------------------------------
(* EventPublisher.Publish: an event that finds the channel full is dropped. *)

Publish(n, type, m) ==
    /\ events' = IF n \in Watcher /\ Len(events[n]) < EventBufferSize
                 THEN [events EXCEPT ![n] = Append(@, [type |-> type, node |-> m])]
                 ELSE events
    /\ dropped' = IF n \in Watcher /\ Len(events[n]) >= EventBufferSize
                  THEN dropped \cup {n} ELSE dropped

(* The operations of Membership, each under its mutex: n changes what it   *)
(* holds of m.                                                             *)

\* A member that is there already becomes Up without an event, and its
\* suspicion is not forgotten.
AddMember(n, m) ==
    /\ view' = [view EXCEPT ![<<n, m>>] = "Up"]
    /\ IF view[<<n, m>>] = "None" THEN Publish(n, "Join", m) ELSE UNCHANGED <<events, dropped>>
    /\ UNCHANGED timer

RemoveMember(n, m) ==
    /\ IF view[<<n, m>>] = "None"
       THEN UNCHANGED <<view, timer, events, dropped>>
       ELSE /\ view' = [view EXCEPT ![<<n, m>>] = "None"]
            /\ timer' = [timer EXCEPT ![<<n, m>>] = "none"]
            /\ Publish(n, "Leave", m)

\* A suspicion without its time.
MarkSuspectUntimed(n, m) ==
    /\ IF view[<<n, m>>] = "Up" THEN view' = [view EXCEPT ![<<n, m>>] = "Suspect"]
       ELSE UNCHANGED view
    /\ UNCHANGED <<timer, events, dropped>>

MarkSuspect(n, m) ==
    /\ IF view[<<n, m>>] = "Up"
       THEN /\ view' = [view EXCEPT ![<<n, m>>] = "Suspect"]
            /\ timer' = [timer EXCEPT ![<<n, m>>] = "fresh"]
       ELSE UNCHANGED <<view, timer>>
    /\ UNCHANGED <<events, dropped>>

MarkAlive(n, m) ==
    IF view[<<n, m>>] = "None"
    THEN UNCHANGED <<view, timer, events, dropped>>
    ELSE /\ view' = [view EXCEPT ![<<n, m>>] = "Up"]
         /\ timer' = [timer EXCEPT ![<<n, m>>] = "none"]
         /\ IF view[<<n, m>>] = "Suspect" THEN Publish(n, "Recovered", m)
            ELSE UNCHANGED <<events, dropped>>

\* A node that is Down already is reported again.
MarkFailed(n, m) ==
    /\ IF view[<<n, m>>] = "None"
       THEN UNCHANGED <<view, events, dropped>>
       ELSE /\ view' = [view EXCEPT ![<<n, m>>] = "Down"]
            /\ Publish(n, "Failed", m)
    /\ UNCHANGED timer
-----------------------------------------------------------------------------
(* The probe loop.  A message that is lost is one that is never sent.      *)

\* probeNextNode: any node that is Up (the table is a Go map, so the index
\* picks from a random order); the ping may be lost.  ProbeTimeout is less
\* than ProbeInterval by default, so that one probe waits at a time.
ProbeNextNode(n, m) ==
    /\ Alive(n) /\ m # n /\ view[<<n, m>>] = "Up"
    /\ \A k \in Node : probes[<<n, k>>] = "none"
    /\ probes' = [probes EXCEPT ![<<n, m>>] = "sent"]
    /\ \/ Alive(m) /\ pings' = pings \cup {<<n, m>>}
       \/ ("loss" \in Calls \/ ~Alive(m)) /\ UNCHANGED pings
    /\ UNCHANGED <<view, timer, crashed, crashes, left, leaves, joins, gossips, events, dropped, sharding>>

\* handlePingMessage at m; the answer reaches the probe if that still waits.
HandlePing(n, m) ==
    /\ <<n, m>> \in pings /\ Alive(m)
    /\ pings' = pings \ {<<n, m>>}
    /\ MarkAlive(m, n)
    /\ probes' = IF probes[<<n, m>>] = "sent"
                 THEN [probes EXCEPT ![<<n, m>>] = "answered"] ELSE probes
    /\ UNCHANGED <<crashed, crashes, left, leaves, joins, gossips, sharding>>

ProbeAnswered(n, m) ==
    /\ probes[<<n, m>>] = "answered"
    /\ probes' = [probes EXCEPT ![<<n, m>>] = "none"]
    /\ MarkAlive(n, m)
    /\ UNCHANGED <<crashed, crashes, left, pings, leaves, joins, gossips, sharding>>

\* An error or the timeout, also with the answer on its way.
ProbeFails(n, m) ==
    /\ probes[<<n, m>>] # "none" /\ ("loss" \in Calls \/ ~Alive(m))
    /\ probes' = [probes EXCEPT ![<<n, m>>] = "none"]
    /\ MarkSuspect(n, m)
    /\ UNCHANGED <<crashed, crashes, left, pings, leaves, joins, gossips, sharding>>

\* SuspicionMult probe intervals have passed since n's suspicion of m.
SuspicionAges(n, m) ==
    /\ timer[<<n, m>>] = "fresh"
    /\ timer' = [timer EXCEPT ![<<n, m>>] = "old"]
    /\ UNCHANGED <<view, network, events, dropped, sharding>>

\* The events of a loop over a Go map, in any order, as many as fit.
PublishFailed(n, S) ==
    \E order \in {q \in [1 .. Cardinality(S) -> S] : \A m \in S : \E i \in DOMAIN q : q[i] = m} :
        LET all == events[n] \o [i \in DOMAIN order |-> [type |-> "Failed", node |-> order[i]]]
            over == n \in Watcher /\ Len(all) > EventBufferSize
        IN  /\ events' = IF n \notin Watcher THEN events
                         ELSE [events EXCEPT ![n] = IF over THEN SubSeq(all, 1, EventBufferSize) ELSE all]
            /\ dropped' = IF over THEN dropped \cup {n} ELSE dropped

\* checkSuspectedNodes: an old suspicion that was withdrawn is forgotten.
CheckSuspectedNodes(n) ==
    LET old == {m \in Node : timer[<<n, m>>] = "old"}
        failed == {m \in old : view[<<n, m>>] = "Suspect"}
    IN  /\ Alive(n) /\ old # {}
        /\ view' = [p \in Pair |-> IF p[1] = n /\ p[2] \in failed THEN "Down" ELSE view[p]]
        /\ timer' = [p \in Pair |-> IF p[1] = n /\ p[2] \in old \ failed THEN "none" ELSE timer[p]]
        /\ PublishFailed(n, failed)
        /\ UNCHANGED <<network, sharding>>
-----------------------------------------------------------------------------
(* Gossip.                                                                 *)

\* spreadGossip: the table as it is now, to one member (the receiver skips
\* what is said of itself).
SpreadGossip(n, to) ==
    /\ "gossip" \in Calls /\ Alive(n) /\ Alive(to)
    /\ to \in Members(n) \ {n} /\ Members(n) # {to}
    /\ Cardinality(gossips) < MaxGossip
    /\ gossips' = gossips \cup
          {[to |-> to, entries |-> {<<m, view[<<n, m>>]>> : m \in Members(n) \ {to}}]}
    /\ UNCHANGED <<view, timer, crashed, crashes, left, probes, pings, leaves, joins, events, dropped, sharding>>

Pending(g) == {e \in g.entries : e[2] \in {"alive", "suspect"}}

\* What stays of g when e is replaced by the entries of S.
Continue(g, e, S) ==
    gossips' = (gossips \ {g}) \cup
        (IF (g.entries \ {e}) \cup S = {} THEN {}
         ELSE {[to |-> g.to, entries |-> (g.entries \ {e}) \cup S]})

\* HandleGossip, one call on the table at a time, the entries in the random
\* order of the map they came from.
HandleGossip(g, e) ==
    /\ Alive(g.to)
    /\ Pending(g) # {} => e \in Pending(g)
    /\ \/ e[2] = "Up"      /\ AddMember(g.to, e[1])   /\ Continue(g, e, {<<e[1], "alive">>})
       \/ e[2] = "Suspect" /\ AddMember(g.to, e[1])   /\ Continue(g, e, {<<e[1], "suspect">>})
       \/ e[2] = "Down"    /\ MarkFailed(g.to, e[1])  /\ Continue(g, e, {})
       \/ e[2] = "alive"   /\ MarkAlive(g.to, e[1])   /\ Continue(g, e, {})
       \/ e[2] = "suspect" /\ MarkSuspect(g.to, e[1]) /\ Continue(g, e, {})
    /\ UNCHANGED <<crashed, crashes, left, probes, pings, leaves, joins, sharding>>
-----------------------------------------------------------------------------
(* Joining, leaving, crashing.                                             *)

\* Node.Join asks a seed; a watcher's is called by ShardedClusterCache.Join.
Join(n, s) ==
    /\ "join" \in Calls /\ Alive(n) /\ n # s /\ Alive(s)
    /\ \A m \in Node : joins[<<n, m>>] = "none"
    /\ joins' = [joins EXCEPT ![<<n, s>>] = "asked"]
    /\ UNCHANGED <<view, timer, crashed, crashes, left, probes, pings, leaves, gossips, events, dropped, sharding>>

HandleJoin(n, s) ==
    /\ joins[<<n, s>>] = "asked" /\ Alive(s)
    /\ AddMember(s, n)
    /\ joins' = [joins EXCEPT ![<<n, s>>] = "answered"]
    /\ UNCHANGED <<crashed, crashes, left, probes, pings, leaves, gossips, sharding>>

\* The seed cannot be reached, or its answer does not come.
JoinFails(n, s) ==
    /\ joins[<<n, s>>] \in {"asked", "answered"}
    /\ joins' = [joins EXCEPT ![<<n, s>>] = "none"]
    /\ UNCHANGED <<view, timer, crashed, crashes, left, probes, pings, leaves, gossips, events, dropped, sharding>>

JoinAnswered(n, s) ==
    /\ joins[<<n, s>>] = "answered"
    /\ AddMember(n, s)
    /\ joins' = [joins EXCEPT ![<<n, s>>] = IF n \in Watcher THEN "added" ELSE "none"]
    /\ UNCHANGED <<crashed, crashes, left, probes, pings, leaves, gossips, sharding>>

\* ShardedClusterCache.Join reads the members, and gives them to the
\* distributor after that.
JoinReadsMembers(n, s) ==
    /\ joins[<<n, s>>] = "added"
    /\ joins' = [joins EXCEPT ![<<n, s>>] = "taken"]
    /\ snapshot' = [snapshot EXCEPT ![n] = {m \in Node \ {n} : view[<<n, m>>] \in {"Up", "Suspect"}}]
    /\ UNCHANGED <<view, timer, crashed, crashes, left, probes, pings, leaves, gossips, events, dropped,
                   nodeMap, ring, joinErr>>

\* InitFromMembers stops at the first member that is in the ring already,
\* with some of the others done before it.
InitFromMembers(n, s) ==
    /\ joins[<<n, s>>] = "taken"
    /\ joins' = [joins EXCEPT ![<<n, s>>] = "none"]
    /\ \/ /\ snapshot[n] \cap ring[n] = {}
          /\ ring' = [ring EXCEPT ![n] = @ \cup snapshot[n]]
          /\ nodeMap' = [nodeMap EXCEPT ![n] = @ \cup snapshot[n]]
          /\ UNCHANGED joinErr
       \/ \E e \in snapshot[n] \cap ring[n], done \in SUBSET (snapshot[n] \ ring[n]) :
             /\ ring' = [ring EXCEPT ![n] = @ \cup done]
             /\ nodeMap' = [nodeMap EXCEPT ![n] = @ \cup done \cup {e}]
             /\ joinErr' = joinErr \cup {n}
    /\ snapshot' = [snapshot EXCEPT ![n] = {}]
    /\ UNCHANGED <<view, timer, crashed, crashes, left, probes, pings, leaves, gossips, events, dropped>>

\* Node.Leave tells the members (some of the messages are lost) and removes
\* the node from its own table; its probes and its gossip go on.
Leave(n) ==
    /\ "leave" \in Calls /\ Alive(n)
    /\ \E told \in SUBSET {m \in Members(n) \ {n} : Alive(m)} :
          leaves' = leaves \cup {<<n, m>> : m \in told}
    /\ left' = left \cup {n}
    /\ RemoveMember(n, n)
    /\ UNCHANGED <<crashed, crashes, probes, pings, joins, gossips, sharding>>

HandleLeave(n, m) ==
    /\ <<n, m>> \in leaves /\ Alive(m)
    /\ leaves' = leaves \ {<<n, m>>}
    /\ RemoveMember(m, n)
    /\ UNCHANGED <<crashed, crashes, left, probes, pings, joins, gossips, sharding>>

\* The process ends and takes its tables with it.  Requests under way to it
\* fail; those it sent arrive.
Crash(n) ==
    /\ n \in Mortal /\ Alive(n) /\ crashes < MaxCrashes
    /\ crashed' = crashed \cup {n} /\ crashes' = crashes + 1
    /\ view' = [p \in Pair |-> IF p[1] # n THEN view[p] ELSE IF p[2] = n THEN "Up" ELSE "None"]
    /\ timer' = [p \in Pair |-> IF p[1] = n THEN "none" ELSE timer[p]]
    /\ probes' = [p \in Pair |-> IF p[1] = n THEN "none" ELSE probes[p]]
    /\ joins' = [p \in Pair |-> IF p[1] = n THEN "none" ELSE joins[p]]
    /\ pings' = {p \in pings : p[2] # n} /\ leaves' = {p \in leaves : p[2] # n}
    /\ gossips' = {g \in gossips : g.to # n}
    /\ left' = left \ {n}
    /\ events' = [events EXCEPT ![n] = <<>>] /\ dropped' = dropped \ {n}
    /\ ring' = [ring EXCEPT ![n] = {}] /\ nodeMap' = [nodeMap EXCEPT ![n] = {}]
    /\ snapshot' = [snapshot EXCEPT ![n] = {}] /\ joinErr' = joinErr \ {n}

\* Node.Start and Membership.addLocalNode in a new process.
Restart(n) ==
    /\ "restart" \in Calls /\ ~Alive(n)
    /\ crashed' = crashed \ {n}
    /\ UNCHANGED <<view, timer, crashes, left, probes, pings, leaves, joins, gossips, events, dropped, sharding>>
-----------------------------------------------------------------------------
(* NodeDistributor.HandleClusterEvent.                                     *)

\* A handler that forgets the address of a failed node and leaves it in the ring.
AfterEventKeepingFailed(n, e) ==
    /\ nodeMap' = [nodeMap EXCEPT ![n] = IF e.type = "Join" THEN @ \cup {e.node} ELSE @ \ {e.node}]
    /\ ring' = [ring EXCEPT ![n] = IF e.type = "Join" THEN @ \cup {e.node} ELSE @]

\* Events of the node itself change nothing.  A recovered node is added when
\* its address is known; AddNode refuses one that is in the ring.
AfterEvent(n, e) ==
    \/ /\ e.node = n
       /\ UNCHANGED <<nodeMap, ring>>
    \/ /\ e.node # n /\ e.type = "Join"
       /\ nodeMap' = [nodeMap EXCEPT ![n] = @ \cup {e.node}]
       /\ ring' = [ring EXCEPT ![n] = @ \cup {e.node}]
    \/ /\ e.node # n /\ e.type \in {"Leave", "Failed"}
       /\ nodeMap' = [nodeMap EXCEPT ![n] = @ \ {e.node}]
       /\ ring' = [ring EXCEPT ![n] = @ \ {e.node}]
    \/ /\ e.node # n /\ e.type = "Recovered"
       /\ ring' = [ring EXCEPT ![n] = @ \cup ({e.node} \cap nodeMap[n])]
       /\ UNCHANGED nodeMap

HandleClusterEvent(n) ==
    /\ events[n] # <<>>
    /\ events' = [events EXCEPT ![n] = Tail(@)]
    /\ AfterEvent(n, Head(events[n]))
    /\ UNCHANGED <<view, timer, network, dropped, snapshot, joinErr>>
-----------------------------------------------------------------------------
PairStep(n, m) ==
    \/ ProbeNextNode(n, m) \/ HandlePing(n, m) \/ ProbeAnswered(n, m) \/ ProbeFails(n, m)
    \/ SuspicionAges(n, m) \/ SpreadGossip(n, m) \/ HandleLeave(n, m)
    \/ Join(n, m) \/ HandleJoin(n, m) \/ JoinFails(n, m) \/ JoinAnswered(n, m)
    \/ JoinReadsMembers(n, m) \/ InitFromMembers(n, m)

NodeStep(n) ==
    \/ CheckSuspectedNodes(n) \/ Leave(n) \/ Crash(n) \/ Restart(n) \/ HandleClusterEvent(n)

Next ==
    \/ \E n, m \in Node : PairStep(n, m)
    \/ \E n \in Node : NodeStep(n)
    \/ \E g \in gossips : \E e \in g.entries : HandleGossip(g, e)

Spec == Init /\ [][Next]_vars

\* The probe loop ticks and its choice, random but for a turning index, leaves
\* nobody out for ever; a probe ends at its timeout, time passes, and the
\* distributor reads its channel.  How often gossip comes is left open: its
\* interval is a setting of its own.
Fairness ==
    /\ \A n \in Node : \A m \in Node \ {n} :
          /\ SF_vars(ProbeNextNode(n, m))
          /\ WF_vars(HandlePing(n, m))
          /\ WF_vars(ProbeAnswered(n, m) \/ ProbeFails(n, m))
          /\ WF_vars(SuspicionAges(n, m))
    /\ \A n \in Node : WF_vars(CheckSuspectedNodes(n))
    /\ \A n \in Watcher : WF_vars(HandleClusterEvent(n))

FairSpec == Spec /\ Fairness
-----------------------------------------------------------------------------
(* Properties.                                                             *)

\* The table of a node: whoever is suspected has a suspicion time, without
\* which checkSuspectedNodes would never look at it (membership.go:343); no
\* timer outlives its member; and no node comes to suspect, fail or lose
\* itself, whatever the others say of it, but by Leave.
MembershipInv ==
    /\ TypeOK
    /\ \A p \in Pair : view[p] = "Suspect" => timer[p] # "none"
    /\ \A p \in Pair : view[p] = "None" => timer[p] = "none"
    /\ \A n \in Node : view[<<n, n>>] = IF n \in left THEN "None" ELSE "Up"

\* The distributor routes to a remote node exactly when it knows its address:
\* nodeMap and the hash ring change together in HandleClusterEvent and
\* InitFromMembers, with an event handled between the two halves of a Join.
RingIsNodeMap ==
    \A n \in Node : ring[n] = nodeMap[n]

\* Failure detection, from the probe to the ring: a remote node that has
\* crashed and is not yet taken for failed leaves the ring of every running
\* ShardedClusterCache, unless the event channel was full when an event was
\* published (events.go:63).
CrashedLeavesRing ==
    \A n \in Watcher, m \in Mortal :
        m \in crashed /\ m \in ring[n] /\ view[<<n, m>>] \in {"Up", "Suspect"}
            ~> m \notin ring[n] \/ m \notin crashed \/ n \in dropped

\* "after a node is marked suspect, this multiple of ProbeInterval is waited
\* until the node is taken for failed" (option.go:28).
SuspicionEnds ==
    \A n \in Node, m \in Mortal :
        m \in crashed /\ view[<<n, m>>] = "Suspect" ~> view[<<n, m>>] \in {"Down", "None"} \/ m \notin crashed

\* "listens to cluster events and updates the hash ring, so that changes of
\* the cluster's nodes and the sharding agree" (node_distributor.go:12): when
\* every event has been handled the ring has the remote members that are
\* not down.
RingMatchesMembers ==
    \A n \in Watcher :
        Alive(n) /\ events[n] = <<>> /\ (\A m \in Node : joins[<<n, m>>] = "none") =>
            ring[n] = {m \in Node \ {n} : view[<<n, m>>] \in {"Up", "Suspect"}}

\* "add it to the hash ring again" (node_distributor.go:83): a recovery event
\* puts its node back.
RecoveryRestoresRing ==
    [][\A n \in Watcher :
          HandleClusterEvent(n) /\ Head(events[n]).type = "Recovered"
            => Head(events[n]).node \in ring'[n]]_vars

\* "Leave leaves the cluster" (node.go:223): a node that has left, and whose
\* leave message has been handled, stays out of the table.
LeftStaysOut ==
    [][\A n, m \in Node :
          m \in left /\ n \notin left /\ view[<<n, m>>] = "None" /\ m \in left'
            => view'[<<n, m>>] = "None"]_vars

\* A Join that its seed has answered succeeds (sharded_cluster_cache.go:176,
\* "initialise the node distributor, build the shards from the members").
JoinSucceeds ==
    joinErr = {}
=============================================================================
