---------------------------- MODULE LeaderFollower ---------------------------
(***************************************************************************)
(* The life of the nodes of a LeaderFollowerCluster (cache/cluster/        *)
(* integration/leader_follower_cluster.go): Start, Stop, promotion,        *)
(* demotion and failover, with the mutex lfc.mu, the goroutine that        *)
(* handles cluster events, the heartbeat monitor of a follower and the     *)
(* syncer (cache/replication/follower.go, leader.go, syncer.go).           *)
(*                                                                         *)
(* Nothing in the code calls FollowerNodeImpl.HandleHeartbeat, and the     *)
(* leader's RequestSync is a stub (leader.go:422), so the heartbeat        *)
(* timeout of a follower always elapses.  What AddFollower and             *)
(* RequestFullSync do to caches and logs is in Replication.                *)
(***************************************************************************)
EXTENDS Integers

CONSTANTS
    Node,
    InitialLeaders, \* the sets of nodes that may be built WithInitialRole(RoleLeader)
    Calls,          \* which of "stop", "promote", "demote", "info" are called
    MaxStarts,      \* bound on the calls of Start that start a node
    MaxFailovers    \* bound on the failover goroutines of a node

ASSUME NodesAssumption == InitialLeaders \subseteq SUBSET Node
ASSUME BoundAssumption == MaxStarts \in Nat /\ MaxFailovers \in Nat

VARIABLES
    running, starts,
    role,        \* currentRole
    impl,        \* leaderNode or followerNode: which, is it running, is its stopCh closed
    mu,          \* who holds lfc.mu from one step to the next
    stopped,     \* stopCh is closed
    cancelled,   \* failoverStopCh is closed
    syncer,      \* running, stopCh closed, and the HTTP server
    at,          \* the goroutines: 0 handles cluster events, the others are failovers
    stale,       \* those that wait on a failoverStopCh that has been replaced
    panicked     \* a closed channel was closed again: the process is gone

vars == <<running, starts, role, impl, mu, stopped, cancelled, syncer, at, stale, panicked>>

Thread == Node \X (0 .. MaxFailovers)
Impl == [kind : {"Leader", "Follower"}, running : BOOLEAN, closed : BOOLEAN]
Syncer == [running : BOOLEAN, closed : BOOLEAN, http : {"none", "up", "down"}]
Stage == {"off", "select", "join", "lock", "wait", "promote"}

\* Type correctness of the nodes (leader_follower_cluster.go:18-58).
TypeOK ==
    /\ running \in [Node -> BOOLEAN] /\ starts \in [Node -> 0 .. MaxStarts]
    /\ role \in [Node -> {"Leader", "Follower"}]
    /\ impl \in [Node -> Impl]
    /\ mu \in [Node -> {"free", "stop", "demote", "info", "queued"}]
    /\ stopped \in [Node -> BOOLEAN] /\ cancelled \in [Node -> BOOLEAN]
    /\ syncer \in [Node -> Syncer]
    /\ at \in [Thread -> Stage]
    /\ stale \subseteq Thread
    /\ panicked \in [Node -> BOOLEAN]

Init ==
    /\ running = [n \in Node |-> FALSE] /\ starts = [n \in Node |-> 0]
    /\ \E leaders \in InitialLeaders :
          role = [n \in Node |-> IF n \in leaders THEN "Leader" ELSE "Follower"]
    /\ impl = [n \in Node |-> [kind |-> role[n], running |-> FALSE, closed |-> FALSE]]
    /\ mu = [n \in Node |-> "free"]
    /\ stopped = [n \in Node |-> FALSE] /\ cancelled = [n \in Node |-> FALSE]
    /\ syncer = [n \in Node |-> [running |-> FALSE, closed |-> FALSE, http |-> "none"]]
    /\ at = [t \in Thread |-> "off"] /\ stale = {}
    /\ panicked = [n \in Node |-> FALSE]
-----------------------------------------------------------------------------
(* The node behind the role and the syncer.                                *)

\* MemorySyncer.Start: the HTTP server is made once and never again.
SyncerStarted(s) ==
    IF s.running THEN s
    ELSE [s EXCEPT !.running = TRUE, !.http = IF @ = "none" THEN "up" ELSE @]

SyncerStopped(s) ==
    IF s.running THEN [running |-> FALSE, closed |-> TRUE, http |-> "down"] ELSE s

\* LeaderNodeImpl.Start and FollowerNodeImpl.Start.
ImplStarted(i) == [kind |-> i.kind, running |-> TRUE, closed |-> i.closed]

\* A FollowerNodeImpl.Stop that leaves the flag set.
ImplStoppedStillRunning(i) ==
    IF i.running THEN [i EXCEPT !.running = (i.kind = "Follower"), !.closed = TRUE] ELSE i

\* LeaderNodeImpl.Stop and FollowerNodeImpl.Stop.
ImplStopped(i) ==
    IF i.running THEN [kind |-> i.kind, running |-> FALSE, closed |-> TRUE] ELSE i

\* They close stopCh without a look at it, and Start does not make a new one.
ClosesTwice(i) == i.running /\ i.closed

\* The node of the other role, made and started.
Fresh(kind) == [kind |-> kind, running |-> TRUE, closed |-> FALSE]

\* The goroutine of startHeartbeatMonitor is there.
Monitors(n) == impl[n].kind = "Follower" /\ impl[n].running /\ ~impl[n].closed

Free(n) == mu[n] = "free" /\ ~panicked[n]

Panic(n) ==
    /\ panicked' = [panicked EXCEPT ![n] = TRUE]
    /\ UNCHANGED <<running, starts, role, impl, mu, stopped, cancelled, syncer, at, stale>>
-----------------------------------------------------------------------------
(* The calls.                                                              *)

Start(n) ==
    /\ Free(n) /\ ~running[n] /\ starts[n] < MaxStarts
    /\ running' = [running EXCEPT ![n] = TRUE]
    /\ starts' = [starts EXCEPT ![n] = @ + 1]
    /\ impl' = [impl EXCEPT ![n] = ImplStarted(@)]
    /\ syncer' = [syncer EXCEPT ![n] = SyncerStarted(@)]
    /\ at' = [at EXCEPT ![<<n, 0>>] = "select"]
    /\ UNCHANGED <<role, mu, stopped, cancelled, stale, panicked>>

\* Stop takes the mutex, closes failoverStopCh unless it is closed, closes
\* stopCh, and waits for the event goroutine with the mutex held.
StopBegin(n) ==
    /\ "stop" \in Calls /\ Free(n) /\ running[n]
    /\ ~stopped[n]
    /\ cancelled' = [cancelled EXCEPT ![n] = TRUE]
    /\ stopped' = [stopped EXCEPT ![n] = TRUE]
    /\ mu' = [mu EXCEPT ![n] = "stop"]
    /\ UNCHANGED <<running, starts, role, impl, syncer, at, stale, panicked>>

StopPanics(n) ==
    /\ "stop" \in Calls /\ Free(n) /\ running[n]
    /\ stopped[n]
    /\ Panic(n)

StopEnd(n) ==
    /\ mu[n] = "stop" /\ ~panicked[n] /\ at[<<n, 0>>] = "off"
    /\ panicked' = [panicked EXCEPT ![n] = ClosesTwice(impl[n])]
    /\ impl' = [impl EXCEPT ![n] = ImplStopped(@)]
    /\ syncer' = [syncer EXCEPT ![n] = SyncerStopped(@)]
    /\ running' = [running EXCEPT ![n] = FALSE]
    /\ mu' = [mu EXCEPT ![n] = "free"]
    /\ UNCHANGED <<starts, role, stopped, cancelled, at, stale>>

\* A promotion that starts the leader next to the follower it should replace.
PromotionKeepingFollower(n) ==
    /\ role' = [role EXCEPT ![n] = "Leader"]
    /\ syncer' = [syncer EXCEPT ![n] = SyncerStarted(@)]
    /\ UNCHANGED impl

\* The body of PromoteToLeader at a follower.
Promotion(n) ==
    /\ role' = [role EXCEPT ![n] = "Leader"]
    /\ impl' = [impl EXCEPT ![n] = Fresh("Leader")]
    /\ syncer' = [syncer EXCEPT ![n] = SyncerStarted(@)]

PromoteToLeader(n) ==
    /\ "promote" \in Calls /\ Free(n) /\ role[n] = "Follower"
    /\ \/ /\ ClosesTwice(impl[n])
          /\ Panic(n)
       \/ /\ ~ClosesTwice(impl[n])
          /\ Promotion(n)
          /\ UNCHANGED <<running, starts, mu, stopped, cancelled, at, stale, panicked>>

\* DemoteToFollower: LeaderNodeImpl.Stop stops the syncer too, and nothing
\* starts it again.  The mutex is held over RequestFullSync, the role is
\* changed after it.
DemoteBegin(n) ==
    /\ "demote" \in Calls /\ Free(n) /\ role[n] = "Leader"
    /\ \/ /\ ClosesTwice(impl[n])
          /\ Panic(n)
       \/ /\ ~ClosesTwice(impl[n])
          /\ impl' = [impl EXCEPT ![n] = Fresh("Follower")]
          /\ syncer' = [syncer EXCEPT ![n] = IF impl[n].running THEN SyncerStopped(@) ELSE @]
          /\ mu' = [mu EXCEPT ![n] = "demote"]
          /\ UNCHANGED <<running, starts, role, stopped, cancelled, at, stale, panicked>>

DemoteEnd(n) ==
    /\ mu[n] = "demote"
    /\ role' = [role EXCEPT ![n] = "Follower"]
    /\ mu' = [mu EXCEPT ![n] = "free"]
    /\ UNCHANGED <<running, starts, impl, stopped, cancelled, syncer, at, stale, panicked>>

\* GetClusterInfo at a follower holds the read lock when it calls GetLeader,
\* which takes it again.
InfoBegin(n) ==
    /\ "info" \in Calls /\ Free(n) /\ role[n] = "Follower"
    /\ mu' = [mu EXCEPT ![n] = "info"]
    /\ UNCHANGED <<running, starts, role, impl, stopped, cancelled, syncer, at, stale, panicked>>

InfoEnd(n) ==
    /\ mu[n] = "info"
    /\ mu' = [mu EXCEPT ![n] = "free"]
    /\ UNCHANGED <<running, starts, role, impl, stopped, cancelled, syncer, at, stale, panicked>>

\* A writer that comes to the mutex between the two waits for the first
\* read lock, and the second waits for the writer (sync.RWMutex).
WriterQueues(n) ==
    /\ mu[n] = "info"
    /\ \/ Calls \cap {"stop", "promote", "demote"} # {}
       \/ \E t \in Thread : t[1] = n /\ at[t] \in {"lock", "promote"}
    /\ mu' = [mu EXCEPT ![n] = "queued"]
    /\ UNCHANGED <<running, starts, role, impl, stopped, cancelled, syncer, at, stale, panicked>>
-----------------------------------------------------------------------------
(* The goroutines.                                                         *)

Move(t, stage) == at' = [at EXCEPT ![t] = stage]

\* Where a goroutine goes when handleFailover returns.
Return(t) == Move(t, IF t[2] = 0 THEN "select" ELSE "off")

\* handleClusterEvents: stopCh is closed.
EventLoopExit(n) ==
    /\ at[<<n, 0>>] = "select" /\ stopped[n] /\ ~panicked[n]
    /\ Move(<<n, 0>>, "off")
    /\ UNCHANGED <<running, starts, role, impl, mu, stopped, cancelled, syncer, stale, panicked>>

\* A join event: handleNodeJoin needs the read lock.
NodeJoins(n) ==
    /\ at[<<n, 0>>] = "select" /\ ~panicked[n]
    /\ Move(<<n, 0>>, "join")
    /\ UNCHANGED <<running, starts, role, impl, mu, stopped, cancelled, syncer, stale, panicked>>

HandleNodeJoin(n) ==
    /\ at[<<n, 0>>] = "join" /\ Free(n)
    /\ Move(<<n, 0>>, "select")
    /\ UNCHANGED <<running, starts, role, impl, mu, stopped, cancelled, syncer, stale, panicked>>

\* A leave or failure event for the leader this follower knows:
\* handleNodeFailure reads the role without the mutex.
LeaderFails(n) ==
    /\ at[<<n, 0>>] = "select" /\ ~panicked[n] /\ role[n] = "Follower"
    /\ Move(<<n, 0>>, "lock")
    /\ UNCHANGED <<running, starts, role, impl, mu, stopped, cancelled, syncer, stale, panicked>>

\* The heartbeat timeout elapses: the callback is run in a goroutine.
MonitorFires(n) ==
    /\ Monitors(n) /\ ~panicked[n]
    /\ \E t \in Thread :
          /\ t[1] = n /\ t[2] # 0 /\ at[t] = "off"
          /\ Move(t, "lock")
    /\ UNCHANGED <<running, starts, role, impl, mu, stopped, cancelled, syncer, stale, panicked>>

\* handleFailover: replace failoverStopCh when it is closed, then wait on it.
FailoverBegin(t) ==
    /\ at[t] = "lock" /\ Free(t[1])
    /\ cancelled' = [cancelled EXCEPT ![t[1]] = FALSE]
    /\ stale' = IF cancelled[t[1]]
                THEN stale \cup {u \in Thread : u[1] = t[1] /\ at[u] = "wait"}
                ELSE stale
    /\ Move(t, "wait")
    /\ UNCHANGED <<running, starts, role, impl, mu, stopped, syncer, panicked>>

\* handleFailover with the cases of its select exchanged.
FailoverTimerGivesUp(t) ==
    /\ at[t] = "wait" /\ ~panicked[t[1]]
    /\ Return(t)
    /\ stale' = stale \ {t}
    /\ UNCHANGED <<running, starts, role, impl, mu, stopped, cancelled, syncer, panicked>>

\* handleFailover: the wait is over.
FailoverTimer(t) ==
    /\ at[t] = "wait" /\ ~panicked[t[1]]
    /\ Move(t, "promote")
    /\ stale' = stale \ {t}
    /\ UNCHANGED <<running, starts, role, impl, mu, stopped, cancelled, syncer, panicked>>

FailoverCancel(t) ==
    /\ at[t] = "wait" /\ ~panicked[t[1]]
    /\ cancelled[t[1]] \/ t \in stale
    /\ Return(t)
    /\ stale' = stale \ {t}
    /\ UNCHANGED <<running, starts, role, impl, mu, stopped, cancelled, syncer, panicked>>

FailoverPromote(t) ==
    /\ at[t] = "promote" /\ Free(t[1])
    /\ \/ /\ role[t[1]] = "Leader"
          /\ Return(t)
          /\ UNCHANGED <<running, starts, role, impl, mu, stopped, cancelled, syncer, stale, panicked>>
       \/ /\ role[t[1]] = "Follower" /\ ClosesTwice(impl[t[1]])
          /\ Panic(t[1])
       \/ /\ role[t[1]] = "Follower" /\ ~ClosesTwice(impl[t[1]])
          /\ Promotion(t[1])
          /\ Return(t)
          /\ UNCHANGED <<running, starts, mu, stopped, cancelled, stale, panicked>>
-----------------------------------------------------------------------------
CallStep(n) ==
    \/ Start(n) \/ StopBegin(n) \/ StopPanics(n) \/ StopEnd(n)
    \/ PromoteToLeader(n) \/ DemoteBegin(n) \/ DemoteEnd(n)
    \/ InfoBegin(n) \/ InfoEnd(n) \/ WriterQueues(n)

EventStep(n) ==
    \/ EventLoopExit(n) \/ NodeJoins(n) \/ HandleNodeJoin(n)
    \/ LeaderFails(n) \/ MonitorFires(n)

FailoverStep(t) ==
    \/ FailoverBegin(t) \/ FailoverTimer(t) \/ FailoverCancel(t) \/ FailoverPromote(t)

Next ==
    \/ \E n \in Node : CallStep(n) \/ EventStep(n)
    \/ \E t \in Thread : FailoverStep(t)

Spec == Init /\ [][Next]_vars

\* A call that has begun goes on and a goroutine that can run runs; sync.RWMutex
\* starves nobody, so what waits for a mutex that is free again and again gets
\* it.  Nothing is assumed of when a call or an event comes.
Fairness ==
    /\ \A n \in Node : WF_vars(StopEnd(n) \/ DemoteEnd(n) \/ InfoEnd(n))
    /\ \A n \in Node : WF_vars(EventLoopExit(n)) /\ SF_vars(HandleNodeJoin(n))
    /\ \A t \in Thread : SF_vars(FailoverBegin(t)) /\ SF_vars(FailoverPromote(t))
    /\ \A t \in Thread : WF_vars(FailoverTimer(t) \/ FailoverCancel(t))

FairSpec == Spec /\ Fairness
-----------------------------------------------------------------------------
(* Properties.                                                             *)

\* Between calls, whatever was interleaved with them, the node that
\* PromoteToLeader, DemoteToFollower, Start and Stop leave in place is of the
\* role they recorded, a started cluster has it running, a running leader has
\* its syncer running; so no leader runs a heartbeat monitor.
LifecycleInv ==
    /\ TypeOK
    /\ \A n \in Node : Free(n) =>
          /\ impl[n].kind = role[n]
          /\ running[n] => impl[n].running
          /\ role[n] = "Leader" /\ impl[n].running => syncer[n].running

\* A cluster that is started once never closes a closed channel, whichever
\* calls and failovers meet (the unguarded close calls in
\* leader_follower_cluster.go:251, follower.go:121 and leader.go:123).
NoDoubleClose ==
    \A n \in Node : starts[n] <= 1 => ~panicked[n]

\* "wait some time before the election, so that several nodes do not try to
\* become leader at once" (leader_follower_cluster.go:581): at most one of the
\* running clusters is leader.
AtMostOneLeader ==
    \A m, n \in Node :
        running[m] /\ running[n] /\ role[m] = "Leader" /\ role[n] = "Leader" => m = n

\* "stop the failover monitoring" (leader_follower_cluster.go:242): no
\* failover makes a leader of a cluster that Stop has stopped.
StoppedIsNotPromoted ==
    [][\A n \in Node :
          starts[n] > 0 /\ ~running[n] /\ role[n] = "Follower" => role'[n] = "Follower"]_vars

\* "start to listen for cluster events" (leader_follower_cluster.go:225): a
\* started cluster has its event goroutine until it is stopped.
ListensWhileRunning ==
    \A n \in Node : running[n] /\ mu[n] # "stop" => at[<<n, 0>>] # "off"

\* "start the data syncer" (leader.go:96): a running leader has a syncer that
\* serves its followers and takes entries from its channel.
LeaderServes ==
    \A n \in Node :
        Free(n) /\ role[n] = "Leader" /\ impl[n].running =>
            syncer[n].http = "up" /\ ~syncer[n].closed

\* A failover that has begun to wait makes its node leader, unless Stop is
\* called or the process hangs in GetClusterInfo, whatever promotions,
\* demotions and other failovers come in between (handleFailover,
\* leader_follower_cluster.go:586).
FailoverPromotes ==
    \A t \in Thread :
        at[t] = "wait" ~> role[t[1]] = "Leader" \/ stopped[t[1]] \/ mu[t[1]] = "queued"

\* Stop returns (leader_follower_cluster.go:233, "Stop stops the cluster").
StopReturns ==
    \A n \in Node : mu[n] = "stop" ~> mu[n] = "free"

\* GetClusterInfo returns (leader_follower_cluster.go:678, "GetClusterInfo
\* gets the information on the cluster").
InfoReturns ==
    \A n \in Node : mu[n] = "info" ~> mu[n] = "free"
=============================================================================
