---------------------------- MODULE ElectionVotes ----------------------------
(***************************************************************************)
(* Voting in cache/cluster/election.go: the part of every ElectionManager  *)
(* that em.mu protects, and the vote messages between managers.  When an   *)
(* election starts is left open here (ElectionTimers adds the timers and   *)
(* the electionLoop goroutine that decide it).  Requests and responses     *)
(* travel over membership.transport.Send, which may lose either: a message *)
(* never taken from reqs or resps is a lost one.                           *)
(***************************************************************************)
EXTENDS Integers, FiniteSets

CONSTANTS
    Node,      \* the members; every node's Membership lists all of them
    None,      \* the empty string of votedFor and currentLeader
    MaxTerm,   \* bound on the terms that elections and heartbeats reach
    MaxElections, \* bound on the elections started, by all nodes together
    LogInfo    \* the <<lastLogTerm, lastLogIndex>> pairs SetLogInfo may set

ASSUME NodeAssumption == IsFiniteSet(Node) /\ None \notin Node
ASSUME TermAssumption == MaxTerm \in Nat /\ MaxElections \in Nat
ASSUME LogAssumption == LogInfo \subseteq Nat \X Nat /\ <<0, 0>> \in LogInfo

VARIABLES
    currentTerm, role, votedFor, votesReceived, currentLeader,
    lastLog,      \* <<lastLogTerm, lastLogIndex>>
    muHeld,       \* em.mu is held by a goroutine that will never release it
    reqs, resps,  \* VoteRequests and VoteResponses in flight
    granted       \* history: every vote cast

emVars == <<currentTerm, role, votedFor, votesReceived, currentLeader>>
netVars == <<reqs, resps, granted>>
voteVars == <<emVars, lastLog, muHeld, netVars>>

Roles == {"Follower", "Candidate", "Leader"}
Terms == 0 .. MaxTerm
Request == [term : Terms, from : Node, to : Node, log : LogInfo]
Response == [term : Terms, from : Node, to : Node, granted : BOOLEAN]
Vote == [voter : Node, term : Terms, cand : Node]

\* Type correctness of the fields of every ElectionManager and of the
\* messages in flight (election.go:81-132, 694-724).
TypeOK ==
    /\ currentTerm \in [Node -> Terms]
    /\ role \in [Node -> Roles]
    /\ votedFor \in [Node -> Node \cup {None}]
    /\ votesReceived \in [Node -> SUBSET Node]
    /\ currentLeader \in [Node -> Node \cup {None}]
    /\ lastLog \in [Node -> LogInfo]
    /\ muHeld \in [Node -> BOOLEAN]
    /\ reqs \subseteq Request
    /\ resps \subseteq Response
    /\ granted \subseteq Vote

\* NewElectionManager: term 0, no leader, no vote.
VoteInit ==
    /\ currentTerm = [n \in Node |-> 0]
    /\ role = [n \in Node |-> "Follower"]
    /\ votedFor = [n \in Node |-> None]
    /\ votesReceived = [n \in Node |-> {}]
    /\ currentLeader = [n \in Node |-> None]
    /\ lastLog = [n \in Node |-> <<0, 0>>]
    /\ muHeld = [n \in Node |-> FALSE]
    /\ reqs = {} /\ resps = {} /\ granted = {}
-----------------------------------------------------------------------------
\* SetLogInfo, called by the owner of the replication log.
SetLogInfo(n, info) ==
    /\ ~muHeld[n]
    /\ lastLog' = [lastLog EXCEPT ![n] = info]
    /\ UNCHANGED <<emVars, muHeld, netVars>>

\* The elections started so far: every candidate votes for itself.
Elections == {v \in granted : v.voter = v.cand}

\* startElection: a new term, a vote for itself, a request to every peer
\* (a peer that is skipped because it is Down is one whose request is lost).
StartElectionKeepingTerm(n) ==
    LET term == currentTerm[n] IN
    /\ ~muHeld[n]
    /\ Cardinality(Elections) < MaxElections
    /\ role' = [role EXCEPT ![n] = "Candidate"]
    /\ votedFor' = [votedFor EXCEPT ![n] = n]
    /\ votesReceived' = [votesReceived EXCEPT ![n] = {n}]
    /\ reqs' = reqs \cup
         {[term |-> term, from |-> n, to |-> p, log |-> lastLog[n]] : p \in Node \ {n}}
    /\ granted' = granted \cup {[voter |-> n, term |-> term, cand |-> n]}
    /\ UNCHANGED <<currentTerm, currentLeader, lastLog, muHeld, resps>>
StartElection(n) ==
    LET term == currentTerm[n] + 1 IN
    /\ ~muHeld[n]
    /\ term <= MaxTerm /\ Cardinality(Elections) < MaxElections
    /\ currentTerm' = [currentTerm EXCEPT ![n] = term]
    /\ role' = [role EXCEPT ![n] = "Candidate"]
    /\ votedFor' = [votedFor EXCEPT ![n] = n]
    /\ votesReceived' = [votesReceived EXCEPT ![n] = {n}]
    /\ reqs' = reqs \cup
         {[term |-> term, from |-> n, to |-> p, log |-> lastLog[n]] : p \in Node \ {n}}
    /\ granted' = granted \cup {[voter |-> n, term |-> term, cand |-> n]}
    /\ UNCHANGED <<currentLeader, lastLog, muHeld, resps>>

\* votesNeeded := len(members)/2 + 1
HalfTheVotes == Cardinality(Node) \div 2
VotesNeeded == Cardinality(Node) \div 2 + 1

\* becomeLeader, called by handleVoteResponse with em.mu held: its last call,
\* startHeartbeat, locks em.mu again, so the goroutine never gets past it and
\* em.mu is never released.
BecomeLeaderReleasing(n) ==
    /\ role' = [role EXCEPT ![n] = "Leader"]
    /\ currentLeader' = [currentLeader EXCEPT ![n] = n]
    /\ UNCHANGED muHeld
BecomeLeader(n) ==
    /\ role' = [role EXCEPT ![n] = "Leader"]
    /\ currentLeader' = [currentLeader EXCEPT ![n] = n]
    /\ muHeld' = [muHeld EXCEPT ![n] = TRUE]

\* handleVoteResponse drops a response unless the node is still a candidate
\* of that very term (so its step-down on a higher term is dead code).
StillACandidate(n, m) == role[n] = "Candidate"
StillCandidate(n, m) == role[n] = "Candidate" /\ m.term = currentTerm[n]

\* The vote counts once the response is recorded.
VotesWith(n, m) ==
    IF m.granted THEN votesReceived[n] \cup {m.from} ELSE votesReceived[n]

WinsWith(n, m) == StillCandidate(n, m) /\ Cardinality(VotesWith(n, m)) >= VotesNeeded

HandleVoteResponse(n, m) ==
    /\ ~muHeld[n] /\ m.to = n
    /\ resps' = resps \ {m}
    /\ votesReceived' =
         [votesReceived EXCEPT ![n] = IF StillCandidate(n, m) THEN VotesWith(n, m) ELSE @]
    /\ IF WinsWith(n, m) THEN BecomeLeader(n) ELSE UNCHANGED <<role, currentLeader, muHeld>>
    /\ UNCHANGED <<currentTerm, votedFor, lastLog, reqs, granted>>
-----------------------------------------------------------------------------
\* A higher term is adopted and clears the vote.
VotedForBefore(n, m) == IF m.term > currentTerm[n] THEN None ELSE votedFor[n]

\* logOK: the candidate's log is at least as new as ours.
LogOK(n, m) ==
    \/ m.log[1] > lastLog[n][1]
    \/ m.log[1] = lastLog[n][1] /\ m.log[2] >= lastLog[n][2]

\* The vote is granted: the term is not old, no vote went to another
\* candidate in this term, the log is new enough.  The priority check that
\* follows in the code only prints.
GrantsAnyCandidate(n, m) == m.term >= currentTerm[n] /\ LogOK(n, m)
Grants(n, m) ==
    /\ m.term >= currentTerm[n]
    /\ VotedForBefore(n, m) \in {None, m.from}
    /\ LogOK(n, m)

\* Only a node that is not a follower steps down on a higher term; a follower
\* keeps the leader it had.
StepsDown(n, m) == m.term > currentTerm[n] /\ role[n] # "Follower"

HandleVoteRequest(n, m) ==
    LET term == IF m.term > currentTerm[n] THEN m.term ELSE currentTerm[n] IN
    /\ ~muHeld[n] /\ m.to = n
    /\ currentTerm' = [currentTerm EXCEPT ![n] = term]
    /\ votedFor' = [votedFor EXCEPT ![n] =
                      IF Grants(n, m) THEN m.from ELSE VotedForBefore(n, m)]
    /\ role' = [role EXCEPT ![n] = IF StepsDown(n, m) THEN "Follower" ELSE @]
    /\ currentLeader' = [currentLeader EXCEPT ![n] = IF StepsDown(n, m) THEN None ELSE @]
    /\ reqs' = reqs \ {m}
    /\ resps' = resps \cup
         {[term |-> term, from |-> n, to |-> m.from, granted |-> Grants(n, m)]}
    /\ granted' = granted \cup
         (IF Grants(n, m) THEN {[voter |-> n, term |-> term, cand |-> m.from]} ELSE {})
    /\ UNCHANGED <<votesReceived, lastLog, muHeld>>

\* HandleHeartbeat and becomeFollower.  A lower term is an error; a higher
\* one is adopted WITHOUT clearing votedFor.  Nothing in src/ routes messages
\* to this handler, and no leader elected here ever sends one (BecomeLeader),
\* so any peer may be announced as the leader of any term.
HandleHeartbeat(n, term, leader) ==
    /\ ~muHeld[n] /\ leader # n
    /\ term >= currentTerm[n]
    /\ currentTerm' = [currentTerm EXCEPT ![n] = term]
    /\ role' = [role EXCEPT ![n] = "Follower"]
    /\ currentLeader' = [currentLeader EXCEPT ![n] = leader]
    /\ UNCHANGED <<votedFor, votesReceived, lastLog, muHeld, netVars>>

VoteNext ==
    \E n \in Node :
        \/ \E info \in LogInfo : SetLogInfo(n, info)
        \/ StartElection(n)
        \/ \E m \in reqs : HandleVoteRequest(n, m)
        \/ \E m \in resps : HandleVoteResponse(n, m)
        \/ \E t \in 1 .. MaxTerm, l \in Node : HandleHeartbeat(n, t, l)

\* What the timers may not disturb: an ElectionManager with its goroutines
\* (election.go:162-313) takes only the voting steps above.
VoteSpec == VoteInit /\ [][VoteNext]_voteVars
-----------------------------------------------------------------------------
\* No term has two leaders, whatever the order in which elections start and
\* votes, responses and heartbeats are handled or lost (election.go:222-370,
\* 480-609).
AtMostOneLeaderPerTerm ==
    \A a, b \in Node :
        role[a] = "Leader" /\ role[b] = "Leader" /\ currentTerm[a] = currentTerm[b] => a = b

\* A node never votes for two candidates in one term, although a heartbeat
\* of a higher term leaves a vote of an older term in votedFor
\* (election.go:511-524, 588-592).
OneVotePerTerm ==
    \A v, w \in granted : v.voter = w.voter /\ v.term = w.term => v.cand = w.cand

\* The votes a candidate or a leader counts were cast for it in its current
\* term: no response to an older election is ever counted
\* (election.go:316-335).
CountedVotesAreCurrent ==
    \A n \in Node : role[n] # "Follower" =>
        \A v \in votesReceived[n] :
            [voter |-> v, term |-> currentTerm[n], cand |-> n] \in granted

\* A vote belongs to a term its voter has reached, and the vote of the term
\* the voter is in is the one votedFor records.
GrantsAreRecorded ==
    \A v \in granted :
        /\ v.term <= currentTerm[v.voter]
        /\ v.term = currentTerm[v.voter] => votedFor[v.voter] = v.cand

\* A positive response in flight reports a vote that was cast.
ResponsesAreVotes ==
    \A m \in resps : m.granted =>
        [voter |-> m.from, term |-> m.term, cand |-> m.to] \in granted

LeaderHasMajority ==
    \A n \in Node : role[n] = "Leader" => Cardinality(votesReceived[n]) >= VotesNeeded

\* The inductive invariant behind AtMostOneLeaderPerTerm: the votes of a
\* leader are a majority, and each is a cast vote, of which a voter has one
\* per term (election.go:222-609).
VoteInv ==
    /\ TypeOK
    /\ GrantsAreRecorded
    /\ OneVotePerTerm
    /\ ResponsesAreVotes
    /\ CountedVotesAreCurrent
    /\ LeaderHasMajority

\* A node's term never decreases, and within a term a vote once cast is
\* neither withdrawn nor given to another candidate
\* (every assignment of currentTerm and votedFor in election.go).
VotesAreFinal ==
    [][\A n \in Node :
         /\ currentTerm'[n] >= currentTerm[n]
         /\ currentTerm'[n] = currentTerm[n] /\ votedFor[n] # None
              => votedFor'[n] = votedFor[n]]_voteVars
=============================================================================
