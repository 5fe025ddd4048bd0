------------------------- MODULE LeaderFollowerProofs ------------------------
(***************************************************************************)
(* Proofs about LeaderFollower.  LifecycleInv and NoDoubleClose speak of   *)
(* the moments between calls; the inductive invariant below says what      *)
(* holds inside Stop and DemoteToFollower, and how often a node must have  *)
(* been started for one of its channels to be closed.                      *)
(***************************************************************************)
EXTENDS LeaderFollower, TLAPS

\* What is true of node n at every step.
NodeInv(n) ==
    /\ mu[n] = "stop" => running[n] /\ stopped[n]
    /\ mu[n] = "demote" => impl[n].kind = "Follower"
    /\ mu[n] # "demote" => impl[n].kind = role[n]
    /\ running[n] => impl[n].running /\ starts[n] >= 1
    /\ impl[n].kind = "Leader" /\ impl[n].running => syncer[n].running
    /\ stopped[n] => starts[n] >= 1
    /\ stopped[n] /\ running[n] /\ mu[n] # "stop" => starts[n] >= 2
    /\ impl[n].closed => starts[n] >= 1
    /\ impl[n].closed /\ impl[n].running => starts[n] >= 2
    /\ panicked[n] => starts[n] >= 2

LInv == TypeOK /\ \A n \in Node : NodeInv(n)

LEMMA LInvImplies == LInv => LifecycleInv /\ NoDoubleClose
BY BoundAssumption DEF LInv, NodeInv, LifecycleInv, NoDoubleClose, Free, TypeOK

LEMMA LInvInit == Init => LInv
BY BoundAssumption, NodesAssumption DEF Init, LInv, NodeInv, TypeOK, Thread, Impl, Syncer, Stage

\* MemorySyncer.Start leaves the syncer running; Stop leaves a syncer.
LEMMA SyncerOps ==
    ASSUME NEW s \in Syncer
    PROVE  /\ SyncerStarted(s) \in Syncer /\ SyncerStarted(s).running
           /\ SyncerStopped(s) \in Syncer
<1>1. s = [running |-> s.running, closed |-> s.closed, http |-> s.http]
    BY DEF Syncer
<1>2. SyncerStopped(s) \in Syncer
    BY DEF SyncerStopped, Syncer
<1>3. CASE s.running
    BY <1>2, <1>3 DEF SyncerStarted
<1>4. CASE ~s.running
  <2>1. SyncerStarted(s) = [running |-> TRUE, closed |-> s.closed,
                            http |-> IF s.http = "none" THEN "up" ELSE s.http]
      BY ZenonT(60), <1>1, <1>4 DEF SyncerStarted
  <2>2. QED
      BY <1>2, <2>1 DEF Syncer
<1>5. QED
    BY <1>3, <1>4 DEF Syncer

\* What Start, Stop and the constructors do to the node behind a role.
LEMMA ImplOps ==
    ASSUME NEW i \in Impl, NEW k \in {"Leader", "Follower"}
    PROVE  /\ i.kind \in {"Leader", "Follower"} /\ i.running \in BOOLEAN /\ i.closed \in BOOLEAN
           /\ LET j == ImplStarted(i) IN
                 j \in Impl /\ j.kind = i.kind /\ j.running /\ j.closed = i.closed
           /\ LET j == ImplStopped(i) IN
                 j \in Impl /\ j.kind = i.kind /\ ~j.running /\ (j.closed => i.running \/ i.closed)
           /\ LET j == Fresh(k) IN
                 j \in Impl /\ j.kind = k /\ j.running /\ ~j.closed
BY DEF Impl, ImplStarted, ImplStopped, Fresh

\* A step at node n that leaves the state of the others alone keeps LInv when
\* it keeps the type and the invariant of n.
LEMMA OneNode ==
    ASSUME LInv, NEW n \in Node, TypeOK', NodeInv(n)',
           \A m \in Node \ {n} :
              /\ mu'[m] = mu[m] /\ running'[m] = running[m] /\ stopped'[m] = stopped[m]
              /\ impl'[m] = impl[m] /\ role'[m] = role[m] /\ starts'[m] = starts[m]
              /\ syncer'[m] = syncer[m] /\ panicked'[m] = panicked[m]
    PROVE  LInv'
BY DEF LInv, NodeInv

LEMMA LInvNext == LInv /\ [Next]_vars => LInv'
<1> SUFFICES ASSUME LInv, [Next]_vars PROVE LInv'
    OBVIOUS
<1> USE BoundAssumption
<1>types. \A n \in Node : impl[n] \in Impl /\ syncer[n] \in Syncer
    BY DEF LInv, TypeOK
<1>ops. \A n \in Node, k \in {"Leader", "Follower"} :
          /\ impl[n].kind \in {"Leader", "Follower"}
          /\ impl[n].running \in BOOLEAN /\ impl[n].closed \in BOOLEAN
          /\ LET j == ImplStarted(impl[n]) IN
                j \in Impl /\ j.kind = impl[n].kind /\ j.running /\ j.closed = impl[n].closed
          /\ LET j == ImplStopped(impl[n]) IN
                /\ j \in Impl /\ j.kind = impl[n].kind /\ ~j.running
                /\ j.closed => impl[n].running \/ impl[n].closed
          /\ LET j == Fresh(k) IN j \in Impl /\ j.kind = k /\ j.running /\ ~j.closed
          /\ SyncerStarted(syncer[n]) \in Syncer /\ SyncerStarted(syncer[n]).running
          /\ SyncerStopped(syncer[n]) \in Syncer
    BY <1>types, ImplOps, SyncerOps
<1>1. ASSUME NEW n \in Node, Start(n) PROVE LInv'
  <2>1. TypeOK'
      BY <1>1, <1>types, <1>ops DEF Start, Free, Thread, Stage, LInv, TypeOK
  <2>2. NodeInv(n)'
      BY SMTT(60), <1>1, <1>types, <1>ops DEF Start, Free, LInv, NodeInv, TypeOK
  <2>3. QED
      BY ZenonT(60), <1>1, <2>1, <2>2, OneNode DEF Start, Free, LInv, TypeOK
<1>2. ASSUME NEW n \in Node, StopBegin(n) PROVE LInv'
  <2>1. TypeOK'
      BY <1>2, <1>types, <1>ops DEF StopBegin, Free, LInv, TypeOK
  <2>2. NodeInv(n)'
      BY <1>2, <1>types, <1>ops DEF StopBegin, Free, LInv, NodeInv, TypeOK
  <2>3. QED
      BY ZenonT(60), <1>2, <2>1, <2>2, OneNode DEF StopBegin, Free, LInv, TypeOK
<1>3. ASSUME NEW n \in Node, StopPanics(n) PROVE LInv'
  <2>1. TypeOK'
      BY <1>3, <1>types, <1>ops DEF StopPanics, Panic, Free, LInv, TypeOK
  <2>2. NodeInv(n)'
      BY <1>3, <1>types, <1>ops DEF StopPanics, Panic, Free, LInv, NodeInv, TypeOK
  <2>3. QED
      BY ZenonT(60), <1>3, <2>1, <2>2, OneNode DEF StopPanics, Panic, Free, LInv, TypeOK
<1>4. ASSUME NEW n \in Node, StopEnd(n) PROVE LInv'
  <2>1. TypeOK'
      BY <1>4, <1>types, <1>ops DEF StopEnd, ClosesTwice, LInv, TypeOK
  <2>2. NodeInv(n)'
      BY <1>4, <1>types, <1>ops DEF StopEnd, ClosesTwice, LInv, NodeInv, TypeOK
  <2>3. QED
      BY ZenonT(60), <1>4, <2>1, <2>2, OneNode DEF StopEnd, ClosesTwice, LInv, TypeOK
<1>5. ASSUME NEW n \in Node, PromoteToLeader(n) PROVE LInv'
  <2>1. TypeOK'
    <3>1. CASE ClosesTwice(impl[n])
        BY ZenonT(60), <1>5, <3>1 DEF PromoteToLeader, Panic, LInv, TypeOK
    <3>2. CASE ~ClosesTwice(impl[n])
      <4>1. Fresh("Leader") \in Impl /\ SyncerStarted(syncer[n]) \in Syncer
          BY <1>ops, <1>types
      <4>2. QED
          BY <1>5, <3>2, <4>1 DEF PromoteToLeader, Promotion, LInv, TypeOK
    <3>3. QED
        BY <3>1, <3>2
  <2>2. NodeInv(n)'
      BY <1>5, <1>types, <1>ops DEF PromoteToLeader, Promotion, Panic, Free, ClosesTwice, LInv, NodeInv, TypeOK
  <2>3. QED
      BY <1>5, <2>1, <2>2, OneNode DEF PromoteToLeader, Promotion, Panic, Free, ClosesTwice, LInv, TypeOK
<1>6. ASSUME NEW n \in Node, DemoteBegin(n) PROVE LInv'
  <2>1. TypeOK'
    <3>1. CASE ClosesTwice(impl[n])
        BY ZenonT(60), <1>6, <3>1 DEF DemoteBegin, Panic, LInv, TypeOK
    <3>2. CASE ~ClosesTwice(impl[n])
      <4>1. Fresh("Follower") \in Impl
          BY <1>ops
      <4>2. (IF impl[n].running THEN SyncerStopped(syncer[n]) ELSE syncer[n]) \in Syncer
          BY <1>ops, <1>types
      <4>3. QED
          BY <1>6, <3>2, <4>1, <4>2 DEF DemoteBegin, LInv, TypeOK
    <3>3. QED
        BY <3>1, <3>2
  <2>2. NodeInv(n)'
      BY <1>6, <1>types, <1>ops DEF DemoteBegin, Panic, Free, ClosesTwice, LInv, NodeInv, TypeOK
  <2>3. QED
      BY <1>6, <2>1, <2>2, OneNode DEF DemoteBegin, Panic, Free, ClosesTwice, LInv, TypeOK
<1>7. ASSUME NEW n \in Node, DemoteEnd(n) PROVE LInv'
  <2>1. TypeOK'
      BY <1>7, <1>types, <1>ops DEF DemoteEnd, LInv, TypeOK
  <2>2. NodeInv(n)'
      BY <1>7, <1>types, <1>ops DEF DemoteEnd, LInv, NodeInv, TypeOK
  <2>3. QED
      BY <1>7, <2>1, <2>2, OneNode DEF DemoteEnd, LInv, TypeOK
<1>8. ASSUME NEW n \in Node, InfoBegin(n) \/ InfoEnd(n) \/ WriterQueues(n) PROVE LInv'
  <2>1. TypeOK'
      BY <1>8, <1>types, <1>ops DEF InfoBegin, InfoEnd, WriterQueues, LInv, TypeOK
  <2>2. NodeInv(n)'
      BY <1>8, <1>types, <1>ops DEF InfoBegin, InfoEnd, WriterQueues, Free, LInv, NodeInv, TypeOK
  <2>3. QED
      BY <1>8, <2>1, <2>2, OneNode DEF InfoBegin, InfoEnd, WriterQueues, Free, LInv, TypeOK
<1>9. ASSUME NEW n \in Node, EventStep(n) PROVE LInv'
  <2>1. UNCHANGED <<running, starts, role, impl, mu, stopped, cancelled, syncer, stale, panicked>>
      BY <1>9 DEF EventStep, EventLoopExit, NodeJoins, HandleNodeJoin, LeaderFails, MonitorFires
  <2>2. PICK t \in Thread, s \in Stage : Move(t, s)
    <3>1. <<n, 0>> \in Thread
        BY BoundAssumption DEF Thread
    <3>2. CASE MonitorFires(n)
        BY <3>2 DEF MonitorFires, Stage
    <3>3. CASE EventLoopExit(n) \/ NodeJoins(n) \/ HandleNodeJoin(n) \/ LeaderFails(n)
        BY <3>1, <3>3 DEF EventLoopExit, NodeJoins, HandleNodeJoin, LeaderFails, Stage
    <3>4. QED
        BY <1>9, <3>2, <3>3 DEF EventStep
  <2>3. at' \in [Thread -> Stage]
      BY <2>2 DEF Move, LInv, TypeOK
  <2>4. QED
      BY <2>1, <2>3 DEF LInv, NodeInv, TypeOK
<1>10. ASSUME NEW t \in Thread, FailoverBegin(t) PROVE LInv'
  <2>1. TypeOK'
      BY <1>10 DEF FailoverBegin, Move, Thread, Stage, LInv, TypeOK
  <2>2. QED
      BY <1>10, <2>1 DEF FailoverBegin, Move, Thread, Stage, LInv, NodeInv
<1>11. ASSUME NEW t \in Thread, FailoverTimer(t) \/ FailoverCancel(t) PROVE LInv'
  <2>1. TypeOK'
      BY <1>11 DEF FailoverTimer, FailoverCancel, Move, Return, Thread, Stage, LInv, TypeOK
  <2>2. QED
      BY <1>11, <2>1 DEF FailoverTimer, FailoverCancel, Move, Return, Thread, Stage, LInv, NodeInv
<1>12. ASSUME NEW t \in Thread, NEW n \in Node, n = t[1], FailoverPromote(t) PROVE LInv'
  <2>1. TypeOK'
    <3>1. CASE UNCHANGED <<role, impl, syncer, panicked>>
        BY <1>12, <3>1 DEF FailoverPromote, Promotion, Panic, Move, Return, Stage, LInv, TypeOK
    <3>2. CASE Panic(n)
        BY <1>12, <3>2 DEF Panic, LInv, TypeOK
    <3>3. CASE Promotion(n) /\ Return(t) /\ UNCHANGED <<running, starts, mu, stopped, cancelled, stale, panicked>>
      <4>1. Fresh("Leader") \in Impl /\ SyncerStarted(syncer[n]) \in Syncer
          BY <1>ops
      <4>2. QED
          BY <1>12, <3>3, <4>1 DEF Promotion, Move, Return, Stage, LInv, TypeOK
    <3>4. QED
        BY <1>12, <3>1, <3>2, <3>3 DEF FailoverPromote
  <2>2. NodeInv(n)'
      BY <1>12, <1>types, <1>ops DEF FailoverPromote, Promotion, Panic, Free, ClosesTwice, LInv, NodeInv, TypeOK
  <2>3. QED
      BY <1>12, <2>1, <2>2, OneNode DEF FailoverPromote, Promotion, Panic, Free, ClosesTwice, LInv, TypeOK
<1>13. CASE UNCHANGED vars
    BY <1>13 DEF vars, LInv, NodeInv, TypeOK
<1>14. QED
  <2>1. \A t \in Thread : t[1] \in Node
      BY DEF Thread
  <2>2. QED
      BY <1>1, <1>2, <1>3, <1>4, <1>5, <1>6, <1>7, <1>8, <1>9, <1>10, <1>11, <1>12, <1>13, <2>1
         DEF Next, CallStep, FailoverStep

\* The structure that PromoteToLeader, DemoteToFollower, Start, Stop and the
\* failovers maintain, for any number of nodes, restarts and failovers.
THEOREM Lifecycle == Spec => []LifecycleInv
<1>1. LInv => LifecycleInv
    BY LInvImplies
<1>2. QED
    BY LInvInit, LInvNext, <1>1, PTL DEF Spec

\* A cluster that is started once closes no channel twice, for any number of
\* calls and failovers.
THEOREM CloseOnce == Spec => []NoDoubleClose
<1>1. LInv => NoDoubleClose
    BY LInvImplies
<1>2. QED
    BY LInvInit, LInvNext, <1>1, PTL DEF Spec
=============================================================================
