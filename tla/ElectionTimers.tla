--------------------------- MODULE ElectionTimers ---------------------------
(***************************************************************************)
(* The timers and goroutines of an ElectionManager (cache/cluster/         *)
(* election.go) around the voting of ElectionVotes: Start and Stop, the    *)
(* election timer, the goroutine electionLoop that waits on it, and the    *)
(* heartbeat goroutine of a new leader.                                    *)
(***************************************************************************)
EXTENDS ElectionVotes

VARIABLES
    running,      \* "new", "running", or "stopped" (stopCh closed)
    timer,        \* em.electionTimer: "armed", or "off" (stopped or spent)
    loop,         \* program counter of electionLoop
    watching,     \* the channel the loop selects on is the current timer's
    heartbeating  \* the heartbeat timer and its goroutine run

timerVars == <<timer, watching>>
goVars == <<running, loop, heartbeating>>
vars == <<voteVars, timerVars, goVars>>

\* Type correctness of the manager together with its goroutine and timers
\* (election.go:118-132).
TimersTypeOK ==
    /\ TypeOK
    /\ running \in [Node -> {"new", "running", "stopped"}]
    /\ timer \in [Node -> {"armed", "off"}]
    /\ loop \in [Node -> {"none", "select", "wait", "fired", "start", "exited"}]
    /\ watching \in [Node -> BOOLEAN]
    /\ heartbeating \in [Node -> BOOLEAN]

Init ==
    /\ VoteInit
    /\ running = [n \in Node |-> "new"]
    /\ timer = [n \in Node |-> "off"]
    /\ loop = [n \in Node |-> "none"]
    /\ watching = [n \in Node |-> FALSE]
    /\ heartbeating = [n \in Node |-> FALSE]
-----------------------------------------------------------------------------
\* resetElectionTimer stops the timer and puts a NEW one in its place: a loop
\* that already sits in its select keeps waiting on the stopped one.
ResetElectionTimer(n) ==
    /\ timer' = [timer EXCEPT ![n] = "armed"]
    /\ watching' = [watching EXCEPT ![n] = FALSE]

\* electionTimer.Stop() in Stop and becomeLeader.
StopElectionTimer(n) ==
    /\ timer' = [timer EXCEPT ![n] = "off"]
    /\ UNCHANGED watching

\* Start; calling it on a running manager changes nothing.  (Starting again
\* after Stop is not modelled: stopCh stays closed.)
Start(n) ==
    /\ ~muHeld[n] /\ running[n] = "new"
    /\ running' = [running EXCEPT ![n] = "running"]
    /\ ResetElectionTimer(n)
    /\ loop' = [loop EXCEPT ![n] = "select"]
    /\ UNCHANGED <<voteVars, heartbeating>>

\* Stop closes stopCh and stops the timers; the handlers stay usable.
StopForgettingVote(n) ==
    /\ ~muHeld[n] /\ running[n] = "running"
    /\ running' = [running EXCEPT ![n] = "stopped"]
    /\ StopElectionTimer(n)
    /\ votedFor' = [votedFor EXCEPT ![n] = None]
    /\ UNCHANGED <<currentTerm, role, votesReceived, currentLeader, lastLog, muHeld, netVars>>
    /\ UNCHANGED <<loop, heartbeating>>
Stop(n) ==
    /\ ~muHeld[n] /\ running[n] = "running"
    /\ running' = [running EXCEPT ![n] = "stopped"]
    /\ StopElectionTimer(n)
    /\ UNCHANGED <<voteVars, loop, heartbeating>>

\* electionLoop enters its select: it waits on the timer that is current now.
LoopSelect(n) ==
    /\ loop[n] = "select"
    /\ loop' = [loop EXCEPT ![n] = "wait"]
    /\ watching' = [watching EXCEPT ![n] = TRUE]
    /\ UNCHANGED <<voteVars, running, timer, heartbeating>>

\* The stopCh case of the select.
LoopExitWithTimer(n) ==
    /\ loop[n] = "wait" /\ running[n] = "stopped" /\ timer[n] = "armed"
    /\ loop' = [loop EXCEPT ![n] = "exited"]
    /\ UNCHANGED <<voteVars, timerVars, running, heartbeating>>
LoopExit(n) ==
    /\ loop[n] = "wait" /\ running[n] = "stopped"
    /\ loop' = [loop EXCEPT ![n] = "exited"]
    /\ UNCHANGED <<voteVars, timerVars, running, heartbeating>>

\* The timer case: only the timer the loop selected on can wake it up.
LoopFire(n) ==
    /\ loop[n] = "wait" /\ watching[n] /\ timer[n] = "armed"
    /\ loop' = [loop EXCEPT ![n] = "fired"]
    /\ timer' = [timer EXCEPT ![n] = "off"]
    /\ UNCHANGED <<voteVars, watching, running, heartbeating>>

\* The loop reads the role under the mutex, releases it, and decides.
LoopCheckRole(n) ==
    /\ loop[n] = "fired" /\ ~muHeld[n]
    /\ loop' = [loop EXCEPT ![n] = IF role[n] # "Leader" THEN "start" ELSE "select"]
    /\ UNCHANGED <<voteVars, timerVars, running, heartbeating>>

\* startElection, called by the loop.
LoopStartElection(n) ==
    /\ loop[n] = "start"
    /\ StartElection(n)
    /\ ResetElectionTimer(n)
    /\ loop' = [loop EXCEPT ![n] = "select"]
    /\ UNCHANGED <<running, heartbeating>>
-----------------------------------------------------------------------------
\* HandleVoteRequest: becomeFollower and a granted vote replace the timer.
OnVoteRequest(n, m) ==
    /\ HandleVoteRequest(n, m)
    /\ IF StepsDown(n, m) \/ Grants(n, m) THEN ResetElectionTimer(n) ELSE UNCHANGED timerVars
    /\ UNCHANGED goVars

\* handleVoteResponse: becomeLeader stops the timer.
OnVoteResponse(n, m) ==
    /\ HandleVoteResponse(n, m)
    /\ IF WinsWith(n, m) THEN StopElectionTimer(n) ELSE UNCHANGED timerVars
    /\ UNCHANGED goVars

\* HandleHeartbeat.  becomeFollower returns at once, and leaves the timer
\* alone, when a higher term comes from the leader the node already follows.
OnHeartbeat(n, term, leader) ==
    /\ HandleHeartbeat(n, term, leader)
    /\ IF role[n] = "Follower" /\ currentLeader[n] = leader /\ term > currentTerm[n]
       THEN UNCHANGED timerVars
       ELSE ResetElectionTimer(n)
    /\ UNCHANGED goVars

OnSetLogInfo(n, info) == SetLogInfo(n, info) /\ UNCHANGED <<timerVars, goVars>>

LoopStep(n) ==
    \/ LoopSelect(n) \/ LoopExit(n) \/ LoopFire(n)
    \/ LoopCheckRole(n) \/ LoopStartElection(n)

Next ==
    \E n \in Node :
        \/ Start(n) \/ Stop(n) \/ LoopStep(n)
        \/ \E info \in LogInfo : OnSetLogInfo(n, info)
        \/ \E m \in reqs : OnVoteRequest(n, m)
        \/ \E m \in resps : OnVoteResponse(n, m)
        \/ \E t \in 1 .. MaxTerm, l \in Node : OnHeartbeat(n, t, l)

\* The loop goroutine is scheduled as long as it can move.
Spec == Init /\ [][Next]_vars /\ \A n \in Node : WF_vars(LoopStep(n))

\* startHeartbeat, the last call of becomeLeader: it starts by locking em.mu.
StartHeartbeat(n) ==
    /\ role[n] = "Leader" /\ ~heartbeating[n] /\ ~muHeld[n]
    /\ heartbeating' = [heartbeating EXCEPT ![n] = TRUE]
    /\ UNCHANGED <<voteVars, timerVars, running, loop>>

HeartbeatSpec ==
    /\ Init /\ [][Next \/ \E n \in Node : StartHeartbeat(n)]_vars
    /\ \A n \in Node : WF_vars(LoopStep(n)) /\ WF_vars(StartHeartbeat(n))
-----------------------------------------------------------------------------
MuHeldByLeaders == \A n \in Node : muHeld[n] <=> role[n] = "Leader"

LoopLivesFromStartToStop ==
    \A n \in Node :
        /\ loop[n] = "none" <=> running[n] = "new"
        /\ loop[n] = "exited" => running[n] = "stopped"

\* em.mu is held for good exactly by a node that has become leader, an
\* electionLoop exists exactly once Start has run, and it ends only after Stop
\* (election.go:162-219, 349-370, 397-398).
TimersInv == TimersTypeOK /\ MuHeldByLeaders /\ LoopLivesFromStartToStop

\* The loop decides to start an election, releases em.mu, and locks it again
\* in startElection: in between its node may have been elected.  Still no
\* leader ever campaigns (election.go:208-227).
LeaderNeverCampaigns ==
    [][\A n \in Node : role[n] = "Leader" => role'[n] # "Candidate"]_vars

\* Once Stop has closed stopCh the loop goroutine ends, unless em.mu is never
\* released to it or the bound on elections keeps it (election.go:180-219).
StopEndsLoop ==
    \A n \in Node :
        running[n] = "stopped" ~>
            \/ loop[n] = "exited" \/ muHeld[n]
            \/ currentTerm[n] = MaxTerm \/ Cardinality(Elections) = MaxElections

\* A loop that waits while the election timer runs is woken up by it: after a
\* granted vote or a heartbeat "重置选举定时器" (resets the election timer,
\* election.go:611), a silent leader still leads to an election.
ArmedTimerFires ==
    \A n \in Node :
        loop[n] = "wait" /\ timer[n] = "armed" ~> loop[n] # "wait" \/ timer[n] = "off"

\* becomeLeader starts the heartbeat of the node it makes a leader
\* ("启动心跳定时器", start the heartbeat timer, election.go:368).
LeaderHeartbeats ==
    \A n \in Node : role[n] = "Leader" ~> heartbeating[n]
=============================================================================
