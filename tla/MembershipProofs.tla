--------------------------- MODULE MembershipProofs --------------------------
(***************************************************************************)
(* Proofs about Membership.  The inductive invariant adds to MembershipInv *)
(* that no message, probe or gossip entry concerns a node at itself, which *)
(* is what keeps a node from suspecting or losing itself.                  *)
(***************************************************************************)
EXTENDS Membership, FiniteSetTheorems, SequenceTheorems, TLAPS

\* The tables.
TableInv ==
    /\ view \in [Pair -> Status]
    /\ timer \in [Pair -> {"none", "fresh", "old"}]
    /\ left \subseteq Node
    /\ \A p \in Pair : view[p] = "Suspect" => timer[p] # "none"
    /\ \A p \in Pair : view[p] = "None" => timer[p] = "none"
    /\ \A n \in Node : view[<<n, n>>] = IF n \in left THEN "None" ELSE "Up"

\* The event channels.
EventInv ==
    /\ events \in [Node -> Seq(Event)] /\ \A n \in Node : Len(events[n]) <= EventBufferSize
    /\ dropped \subseteq Watcher

\* The messages, none of which concerns a node at itself.
MessageInv ==
    /\ crashed \subseteq Node /\ crashes \in 0 .. MaxCrashes
    /\ probes \in [Pair -> {"none", "sent", "answered"}]
    /\ pings \subseteq Pair /\ leaves \subseteq Pair
    /\ joins \in [Pair -> {"none", "asked", "answered", "added", "taken"}]
    /\ \A p \in Pair : p[1] = p[2] => probes[p] = "none" /\ joins[p] = "none"
    /\ \A p \in pings \cup leaves : p[1] # p[2]
    /\ \A g \in gossips :
          g = [to |-> g.to, entries |-> g.entries] /\ g.to \in Node
          /\ g.entries \subseteq (Node \ {g.to}) \X {"Up", "Suspect", "Down", "alive", "suspect"}

\* The distributors.
RingInv ==
    /\ nodeMap \in [Node -> SUBSET Node] /\ ring \in [Node -> SUBSET Node]
    /\ snapshot \in [Node -> SUBSET Node] /\ joinErr \subseteq Node
    /\ nodeMap = ring

MInv == TableInv /\ EventInv /\ MessageInv /\ RingInv

LEMMA MInvImplies == MInv => MembershipInv /\ RingIsNodeMap
BY DEF MInv, TableInv, EventInv, MessageInv, RingInv, MembershipInv, RingIsNodeMap, TypeOK, Entry

LEMMA MInvInit == Init => MInv
<1> SUFFICES ASSUME Init PROVE MInv
    OBVIOUS
<1>1. TableInv
    BY DEF Init, TableInv, Pair, Status
<1>2. EventInv
    BY BoundsAssumption DEF Init, EventInv
<1>3. MessageInv
    BY BoundsAssumption DEF Init, MessageInv, Pair
<1>4. RingInv
    BY DEF Init, RingInv, Members
<1>5. QED
    BY <1>1, <1>2, <1>3, <1>4 DEF MInv

\* Publish adds an event that fits or drops it.
LEMMA PublishKeeps ==
    ASSUME EventInv, NEW n \in Node, NEW m \in Node,
           NEW type \in {"Join", "Leave", "Failed", "Recovered"}, Publish(n, type, m)
    PROVE  EventInv'
<1>1. [type |-> type, node |-> m] \in Event
    BY DEF Event
<1>2. QED
    BY <1>1, BoundsAssumption DEF EventInv, Publish

\* Each operation of Membership on another node keeps the table.
LEMMA TableOps ==
    ASSUME TableInv, EventInv, UNCHANGED left,
           NEW n \in Node, NEW m \in Node, n # m,
           \/ AddMember(n, m) \/ RemoveMember(n, m) \/ MarkSuspect(n, m)
           \/ MarkAlive(n, m) \/ MarkFailed(n, m)
    PROVE  TableInv' /\ EventInv'
<1> <<n, m>> \in Pair /\ \A k \in Node : <<k, k>> \in Pair /\ <<k, k>> # <<n, m>>
    BY DEF Pair
<1>1. CASE AddMember(n, m)
  <2>1. TableInv'
      BY <1>1 DEF AddMember, TableInv, Status
  <2>2. EventInv'
      BY <1>1, PublishKeeps DEF AddMember, EventInv
  <2>3. QED
      BY <2>1, <2>2
<1>2. CASE RemoveMember(n, m)
  <2>1. TableInv'
      BY <1>2 DEF RemoveMember, TableInv, Status
  <2>2. EventInv'
      BY <1>2, PublishKeeps DEF RemoveMember, EventInv
  <2>3. QED
      BY <2>1, <2>2
<1>3. CASE MarkSuspect(n, m)
    BY ZenonT(60), <1>3 DEF MarkSuspect, TableInv, EventInv, Status
<1>4. CASE MarkAlive(n, m)
  <2>1. TableInv'
      BY <1>4 DEF MarkAlive, TableInv, Status
  <2>2. EventInv'
      BY <1>4, PublishKeeps DEF MarkAlive, EventInv
  <2>3. QED
      BY <2>1, <2>2
<1>5. CASE MarkFailed(n, m)
  <2>1. TableInv'
      BY <1>5 DEF MarkFailed, TableInv, Status
  <2>2. EventInv'
      BY <1>5, PublishKeeps DEF MarkFailed, EventInv
  <2>3. QED
      BY <2>1, <2>2
<1>6. QED
    BY <1>1, <1>2, <1>3, <1>4, <1>5

\* The failures of one round of checkSuspectedNodes, as many as fit.
LEMMA PublishFailedKeeps ==
    ASSUME EventInv, NEW n \in Node, NEW S \in SUBSET Node, PublishFailed(n, S)
    PROVE  EventInv'
<1>1. PICK order \in {q \in [1 .. Cardinality(S) -> S] : \A m \in S : \E i \in DOMAIN q : q[i] = m} :
          LET all == events[n] \o [i \in DOMAIN order |-> [type |-> "Failed", node |-> order[i]]]
              over == n \in Watcher /\ Len(all) > EventBufferSize
          IN  /\ events' = IF n \notin Watcher THEN events
                           ELSE [events EXCEPT ![n] = IF over THEN SubSeq(all, 1, EventBufferSize) ELSE all]
              /\ dropped' = IF over THEN dropped \cup {n} ELSE dropped
    BY Zenon DEF PublishFailed
<1> DEFINE new == [i \in DOMAIN order |-> [type |-> "Failed", node |-> order[i]]]
           all == events[n] \o new
           kept == IF n \in Watcher /\ Len(all) > EventBufferSize
                   THEN SubSeq(all, 1, EventBufferSize) ELSE all
<1>2. CASE n \notin Watcher
    BY <1>1, <1>2 DEF EventInv
<1>3. CASE n \in Watcher
  <2>1. Cardinality(S) \in Nat
      BY NodesAssumption, FS_Subset, FS_CardinalityType
  <2>2. new \in Seq(Event)
    <3>1. new \in [1 .. Cardinality(S) -> Event]
        BY DEF Event
    <3>2. QED
        BY <2>1, <3>1
  <2>3. all \in Seq(Event)
    <3>1. events[n] \in Seq(Event)
        BY DEF EventInv
    <3> HIDE DEF new
    <3>2. QED
        BY <2>2, <3>1
  <2>4. kept \in Seq(Event) /\ Len(kept) <= EventBufferSize
    <3> HIDE DEF all
    <3>1. CASE Len(all) > EventBufferSize
      <4>1. SubSeq(all, 1, EventBufferSize) \in Seq(Event)
            /\ Len(SubSeq(all, 1, EventBufferSize)) = EventBufferSize
          BY <2>3, <3>1, BoundsAssumption, SubSeqProperties
      <4>2. QED
          BY <4>1, <3>1, <1>3, BoundsAssumption
    <3>2. CASE ~(Len(all) > EventBufferSize)
      <4>1. Len(all) \in Nat
          BY <2>3
      <4>2. QED
          BY <4>1, <2>3, <3>2, BoundsAssumption
    <3>3. QED
        BY <3>1, <3>2
  <2>5. events' = [events EXCEPT ![n] = kept]
      BY <1>1, <1>3
  <2>6. QED
      BY ZenonT(60), <2>4, <2>5, <1>1, <1>3 DEF EventInv
<1>4. QED
    BY <1>2, <1>3

\* Every action keeps the invariant: the tables and the channels by the lemmas
\* above, the messages because each is sent to another node than it is about.
LEMMA MInvNext == MInv /\ [Next]_vars => MInv'
<1> SUFFICES ASSUME MInv, [Next]_vars PROVE MInv'
    OBVIOUS
<1> USE DEF MInv
<1>1. ASSUME NEW n \in Node, NEW m \in Node, PairStep(n, m) PROVE MInv'
  <2> <<n, m>> \in Pair /\ <<m, n>> \in Pair
      BY DEF Pair
  <2>1. CASE ProbeNextNode(n, m)
    <3>1. TableInv' /\ EventInv'
        BY <2>1 DEF ProbeNextNode, TableInv, EventInv, network
    <3>2. MessageInv'
        BY <2>1 DEF ProbeNextNode, MessageInv, network, Pair
    <3>3. RingInv'
        BY <2>1 DEF ProbeNextNode, RingInv, sharding
    <3>4. QED
        BY <3>1, <3>2, <3>3
  <2>2. CASE HandlePing(n, m)
    <3>1. n # m
        BY <2>2 DEF HandlePing, MessageInv
    <3>2. TableInv' /\ EventInv'
        BY <2>2, <3>1, TableOps DEF HandlePing
    <3>3. MessageInv'
        BY <2>2, <3>1 DEF HandlePing, MessageInv, network, Pair
    <3>4. RingInv'
        BY <2>2 DEF HandlePing, RingInv, sharding
    <3>5. QED
        BY <3>2, <3>3, <3>4
  <2>3. CASE ProbeAnswered(n, m)
    <3>1. n # m
        BY <2>3 DEF ProbeAnswered, MessageInv
    <3>2. TableInv' /\ EventInv'
        BY <2>3, <3>1, TableOps DEF ProbeAnswered
    <3>3. MessageInv'
        BY <2>3, <3>1 DEF ProbeAnswered, MessageInv, network, Pair
    <3>4. RingInv'
        BY <2>3 DEF ProbeAnswered, RingInv, sharding
    <3>5. QED
        BY <3>2, <3>3, <3>4
  <2>4. CASE ProbeFails(n, m)
    <3>1. n # m
        BY <2>4 DEF ProbeFails, MessageInv
    <3>2. TableInv' /\ EventInv'
        BY <2>4, <3>1, TableOps DEF ProbeFails
    <3>3. MessageInv'
        BY <2>4, <3>1 DEF ProbeFails, MessageInv, network, Pair
    <3>4. RingInv'
        BY <2>4 DEF ProbeFails, RingInv, sharding
    <3>5. QED
        BY <3>2, <3>3, <3>4
  <2>5. CASE SuspicionAges(n, m)
    <3>1. TableInv' /\ EventInv'
        BY ZenonT(60), <2>5 DEF SuspicionAges, TableInv, EventInv, network
    <3>2. MessageInv'
        BY <2>5 DEF SuspicionAges, MessageInv, network, Pair
    <3>3. RingInv'
        BY <2>5 DEF SuspicionAges, RingInv, sharding
    <3>4. QED
        BY <3>1, <3>2, <3>3
  <2>6. CASE SpreadGossip(n, m)
    <3>1. TableInv' /\ EventInv'
        BY <2>6 DEF SpreadGossip, TableInv, EventInv, network
    <3>2. MessageInv'
      <4> DEFINE sent == {<<k, view[<<n, k>>]>> : k \in Members(n) \ {m}}
                 g == [to |-> m, entries |-> sent]
      <4>1. \A k \in Members(n) : k \in Node /\ view[<<n, k>>] \in {"Up", "Suspect", "Down"}
          BY DEF Members, TableInv, Pair, Status
      <4>2. sent \subseteq (Node \ {m}) \X {"Up", "Suspect", "Down", "alive", "suspect"}
        <5>1. SUFFICES ASSUME NEW k \in Members(n) \ {m}
                       PROVE  <<k, view[<<n, k>>]>>
                                \in (Node \ {m}) \X {"Up", "Suspect", "Down", "alive", "suspect"}
            BY Zenon
        <5>2. k \in Node \ {m} /\ view[<<n, k>>] \in {"Up", "Suspect", "Down", "alive", "suspect"}
            BY <4>1
        <5>3. QED
            BY <5>2
      <4>3. gossips' = gossips \cup {g}
          BY <2>6 DEF SpreadGossip
      <4>4. g = [to |-> g.to, entries |-> g.entries] /\ g.to = m /\ g.entries = sent
          BY SMT
      <4> HIDE DEF sent, g
      <4>5. \A h \in gossips' :
              /\ h = [to |-> h.to, entries |-> h.entries] /\ h.to \in Node
              /\ h.entries \subseteq (Node \ {h.to}) \X {"Up", "Suspect", "Down", "alive", "suspect"}
          BY Zenon, <4>2, <4>3, <4>4 DEF MessageInv
      <4>6. UNCHANGED <<crashed, crashes, probes, pings, leaves, joins>>
          BY <2>6 DEF SpreadGossip
      <4>7. QED
          BY <4>5, <4>6 DEF MessageInv
    <3>3. RingInv'
        BY <2>6 DEF SpreadGossip, RingInv, sharding
    <3>4. QED
        BY <3>1, <3>2, <3>3
  <2>7. CASE HandleLeave(n, m)
    <3>1. n # m
        BY <2>7 DEF HandleLeave, MessageInv
    <3>2. TableInv' /\ EventInv'
        BY <2>7, <3>1, TableOps DEF HandleLeave
    <3>3. MessageInv'
        BY <2>7, <3>1 DEF HandleLeave, MessageInv, network, Pair
    <3>4. RingInv'
        BY <2>7 DEF HandleLeave, RingInv, sharding
    <3>5. QED
        BY <3>2, <3>3, <3>4
  <2>8. CASE Join(n, m)
    <3>1. TableInv' /\ EventInv'
        BY <2>8 DEF Join, TableInv, EventInv, network
    <3>2. MessageInv'
        BY <2>8 DEF Join, MessageInv, network, Pair
    <3>3. RingInv'
        BY <2>8 DEF Join, RingInv, sharding
    <3>4. QED
        BY <3>1, <3>2, <3>3
  <2>9. CASE HandleJoin(n, m)
    <3>1. n # m
        BY <2>9 DEF HandleJoin, MessageInv
    <3>2. TableInv' /\ EventInv'
        BY <2>9, <3>1, TableOps DEF HandleJoin
    <3>3. MessageInv'
        BY <2>9, <3>1 DEF HandleJoin, MessageInv, network, Pair
    <3>4. RingInv'
        BY <2>9 DEF HandleJoin, RingInv, sharding
    <3>5. QED
        BY <3>2, <3>3, <3>4
  <2>10. CASE JoinFails(n, m)
    <3>1. TableInv' /\ EventInv'
        BY <2>10 DEF JoinFails, TableInv, EventInv, network
    <3>2. MessageInv'
        BY <2>10 DEF JoinFails, MessageInv, network, Pair
    <3>3. RingInv'
        BY <2>10 DEF JoinFails, RingInv, sharding
    <3>4. QED
        BY <3>1, <3>2, <3>3
  <2>11. CASE JoinAnswered(n, m)
    <3>1. n # m
        BY <2>11 DEF JoinAnswered, MessageInv
    <3>2. TableInv' /\ EventInv'
        BY <2>11, <3>1, TableOps DEF JoinAnswered
    <3>3. MessageInv'
        BY <2>11, <3>1 DEF JoinAnswered, MessageInv, network, Pair
    <3>4. RingInv'
        BY <2>11 DEF JoinAnswered, RingInv, sharding
    <3>5. QED
        BY <3>2, <3>3, <3>4
  <2>12. CASE JoinReadsMembers(n, m)
    <3>1. TableInv' /\ EventInv'
        BY <2>12 DEF JoinReadsMembers, TableInv, EventInv, network
    <3>2. MessageInv'
        BY <2>12 DEF JoinReadsMembers, MessageInv, network, Pair
    <3>3. RingInv'
        BY <2>12 DEF JoinReadsMembers, RingInv, sharding
    <3>4. QED
        BY <3>1, <3>2, <3>3
  <2>13. CASE InitFromMembers(n, m)
    <3>1. TableInv' /\ EventInv'
        BY <2>13 DEF InitFromMembers, TableInv, EventInv, network
    <3>2. MessageInv'
        BY <2>13 DEF InitFromMembers, MessageInv, network, Pair
    <3>3. RingInv'
      <4>1. n \in Node /\ snapshot' = [snapshot EXCEPT ![n] = {}]
          BY <2>13 DEF InitFromMembers
      <4>2. CASE /\ ring' = [ring EXCEPT ![n] = @ \cup snapshot[n]]
                 /\ nodeMap' = [nodeMap EXCEPT ![n] = @ \cup snapshot[n]]
                 /\ UNCHANGED joinErr
          BY <4>1, <4>2 DEF RingInv
      <4>3. ASSUME NEW e \in snapshot[n] \cap ring[n], NEW done \in SUBSET (snapshot[n] \ ring[n]),
                   ring' = [ring EXCEPT ![n] = @ \cup done],
                   nodeMap' = [nodeMap EXCEPT ![n] = @ \cup done \cup {e}],
                   joinErr' = joinErr \cup {n}
            PROVE  RingInv'
        <5>1. nodeMap[n] \cup done \cup {e} = ring[n] \cup done
            BY DEF RingInv
        <5>2. nodeMap' = ring'
            BY ZenonT(60), <4>3, <5>1 DEF RingInv
        <5>3. ring' \in [Node -> SUBSET Node]
            BY <4>3 DEF RingInv
        <5>4. QED
            BY ZenonT(60), <4>1, <4>3, <5>2, <5>3 DEF RingInv
      <4>4. QED
          BY <2>13, <4>2, <4>3 DEF InitFromMembers
    <3>4. QED
        BY <3>1, <3>2, <3>3
  <2>14. QED
      BY <1>1, <2>1, <2>2, <2>3, <2>4, <2>5, <2>6, <2>7, <2>8, <2>9, <2>10, <2>11, <2>12, <2>13 DEF PairStep
<1>2. ASSUME NEW n \in Node, NodeStep(n) PROVE MInv'
  <2>1. CASE CheckSuspectedNodes(n)
    <3>1. TableInv'
        BY <2>1 DEF CheckSuspectedNodes, TableInv, network, Pair, Status
    <3>2. EventInv'
        BY ZenonT(60), <2>1, PublishFailedKeeps DEF CheckSuspectedNodes
    <3>3. MessageInv' /\ RingInv'
        BY <2>1 DEF CheckSuspectedNodes, MessageInv, RingInv, network, sharding
    <3>4. QED
        BY <3>1, <3>2, <3>3
  <2>2. CASE Leave(n)
    <3>1. TableInv'
      <4> <<n, n>> \in Pair /\ \A k \in Node : <<k, k>> \in Pair /\ (k # n => <<k, k>> # <<n, n>>)
          BY DEF Pair
      <4>1. CASE view[<<n, n>>] = "None"
          BY <2>2, <4>1 DEF Leave, RemoveMember, TableInv, Status
      <4>2. CASE view[<<n, n>>] # "None"
          BY <2>2, <4>2 DEF Leave, RemoveMember, TableInv, Status
      <4>3. QED
          BY <4>1, <4>2
    <3>2. EventInv'
        BY <2>2, PublishKeeps DEF Leave, RemoveMember, EventInv
    <3>3. MessageInv'
        BY <2>2 DEF Leave, MessageInv, Members, Pair
    <3>4. RingInv'
        BY <2>2 DEF Leave, RingInv, sharding
    <3>5. QED
        BY <3>1, <3>2, <3>3, <3>4
  <2>3. CASE Crash(n)
    <3>1. TableInv'
        BY <2>3 DEF Crash, TableInv, Pair, Status
    <3>2. EventInv'
        BY <2>3, BoundsAssumption DEF Crash, EventInv
    <3>3. MessageInv'
        BY <2>3, BoundsAssumption DEF Crash, MessageInv, Pair
    <3>4. RingInv'
        BY <2>3 DEF Crash, RingInv
    <3>5. QED
        BY <3>1, <3>2, <3>3, <3>4
  <2>4. CASE Restart(n)
      BY <2>4 DEF Restart, TableInv, EventInv, MessageInv, RingInv, sharding
  <2>5. CASE HandleClusterEvent(n)
    <3>1. TableInv' /\ MessageInv'
        BY <2>5 DEF HandleClusterEvent, TableInv, MessageInv, network
    <3>2. events[n] \in Seq(Event) /\ events[n] # <<>>
        BY <2>5 DEF HandleClusterEvent, EventInv
    <3>3. EventInv'
        BY <2>5, <3>2, BoundsAssumption DEF HandleClusterEvent, EventInv
    <3>4. PICK e \in Event : e = Head(events[n])
        BY <3>2
    <3>5. RingInv'
      <4>1. AfterEvent(n, e) /\ UNCHANGED <<snapshot, joinErr>>
          BY <2>5, <3>4 DEF HandleClusterEvent
      <4>2. e.node \in Node
          BY DEF Event
      <4>3. CASE UNCHANGED <<nodeMap, ring>>
          BY <4>1, <4>3 DEF RingInv
      <4>4. CASE /\ nodeMap' = [nodeMap EXCEPT ![n] = @ \cup {e.node}]
                 /\ ring' = [ring EXCEPT ![n] = @ \cup {e.node}]
          BY <4>1, <4>2, <4>4 DEF RingInv
      <4>5. CASE /\ nodeMap' = [nodeMap EXCEPT ![n] = @ \ {e.node}]
                 /\ ring' = [ring EXCEPT ![n] = @ \ {e.node}]
          BY <4>1, <4>5 DEF RingInv
      <4>6. CASE /\ ring' = [ring EXCEPT ![n] = @ \cup ({e.node} \cap nodeMap[n])]
                 /\ UNCHANGED nodeMap
        <5>1. ring[n] \cup ({e.node} \cap nodeMap[n]) = ring[n]
            BY DEF RingInv
        <5>2. ring' = ring
            BY <4>6, <5>1 DEF RingInv
        <5>3. QED
            BY <4>1, <4>6, <5>2 DEF RingInv
      <4>7. QED
          BY <4>1, <4>3, <4>4, <4>5, <4>6 DEF AfterEvent
    <3>6. QED
        BY <3>1, <3>3, <3>5
  <2>6. QED
      BY <1>2, <2>1, <2>2, <2>3, <2>4, <2>5 DEF NodeStep
<1>3. ASSUME NEW g \in gossips, NEW e \in g.entries, HandleGossip(g, e) PROVE MInv'
  <2>1. g.to \in Node /\ e[1] \in Node /\ e[1] # g.to
      BY DEF MessageInv
  <2>2. TableInv' /\ EventInv'
      BY <1>3, <2>1, TableOps DEF HandleGossip
  <2>3. MessageInv'
    <3>1. \A S : S \subseteq {e[1]} \X {"alive", "suspect"} /\ Continue(g, e, S) =>
              \A h \in gossips' :
                  h = [to |-> h.to, entries |-> h.entries] /\ h.to \in Node
                  /\ h.entries \subseteq (Node \ {h.to}) \X {"Up", "Suspect", "Down", "alive", "suspect"}
        BY <2>1 DEF Continue, MessageInv
    <3>2. \E S : S \subseteq {e[1]} \X {"alive", "suspect"} /\ Continue(g, e, S)
        BY <1>3 DEF HandleGossip
    <3>3. QED
        BY <1>3, <3>1, <3>2 DEF HandleGossip, MessageInv
  <2>4. RingInv'
      BY <1>3 DEF HandleGossip, RingInv, sharding
  <2>5. QED
      BY <2>2, <2>3, <2>4
<1>4. CASE UNCHANGED vars
    BY <1>4 DEF vars, TableInv, EventInv, MessageInv, RingInv
<1>5. QED
    BY <1>1, <1>2, <1>3, <1>4 DEF Next

\* The member table keeps its shape and its timers, and a node keeps itself,
\* through every interleaving of probes, gossip, joins, leaves and crashes,
\* for any number of nodes (membership.go:149-263).
THEOREM TableInvariant == Spec => []MembershipInv
<1>1. Spec => []MInv
    BY MInvInit, MInvNext, PTL DEF Spec
<1>2. QED
    BY <1>1, MInvImplies, PTL

\* The distributor's address table and its hash ring agree in every state
\* (node_distributor.go:31-118).
THEOREM RingFollowsNodeMap == Spec => []RingIsNodeMap
<1>1. Spec => []MInv
    BY MInvInit, MInvNext, PTL DEF Spec
<1>2. QED
    BY <1>1, MInvImplies, PTL
=============================================================================
