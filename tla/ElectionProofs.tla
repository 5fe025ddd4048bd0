--------------------------- MODULE ElectionProofs ---------------------------
(***************************************************************************)
(* Proofs about ElectionVotes and ElectionTimers, for every finite set of  *)
(* nodes and every bound on the terms.                                     *)
(***************************************************************************)
EXTENDS ElectionTimers, FiniteSetTheorems, TLAPS

\* Two sets of nodes that both reach votesNeeded share a node
\* (election.go:339-341).
LEMMA MajoritiesMeet ==
    ASSUME NEW S \in SUBSET Node, NEW T \in SUBSET Node,
           Cardinality(S) >= VotesNeeded, Cardinality(T) >= VotesNeeded
    PROVE  S \cap T # {}
<1>1. Cardinality(Node) \in Nat
    BY NodeAssumption, FS_CardinalityType
<1>2. Cardinality(S) \in Nat /\ Cardinality(T) \in Nat
    BY NodeAssumption, FS_Subset, FS_CardinalityType
<1>3. Cardinality(S) + Cardinality(T) > Cardinality(Node)
    BY <1>1, <1>2 DEF VotesNeeded
<1>4. QED
    BY <1>3, NodeAssumption, FS_MajoritiesIntersect

\* A fresh manager satisfies the invariant (NewElectionManager).
LEMMA VoteInvInit == VoteInit => VoteInv
<1> SUFFICES ASSUME VoteInit PROVE VoteInv
    OBVIOUS
<1> USE NodeAssumption, TermAssumption, LogAssumption DEF VoteInit
<1>1. TypeOK
    BY DEF TypeOK, Terms, Roles, Request, Response, Vote
<1>2. QED
    BY <1>1 DEF VoteInv, GrantsAreRecorded, OneVotePerTerm, ResponsesAreVotes,
                CountedVotesAreCurrent, LeaderHasMajority

\* The invariant carries the property: two leaders of one term would share a
\* voter, who voted once (election.go:316-346).
LEMMA VoteInvSafe == VoteInv => AtMostOneLeaderPerTerm
<1> SUFFICES ASSUME VoteInv,
                    NEW a \in Node, NEW b \in Node,
                    role[a] = "Leader", role[b] = "Leader",
                    currentTerm[a] = currentTerm[b]
             PROVE  a = b
    BY DEF AtMostOneLeaderPerTerm
<1>1. votesReceived[a] \in SUBSET Node /\ votesReceived[b] \in SUBSET Node
    BY DEF VoteInv, TypeOK
<1>2. PICK v \in Node : v \in votesReceived[a] /\ v \in votesReceived[b]
    <2>1. Cardinality(votesReceived[a]) >= VotesNeeded
        BY DEF VoteInv, LeaderHasMajority
    <2>2. Cardinality(votesReceived[b]) >= VotesNeeded
        BY DEF VoteInv, LeaderHasMajority
    <2>3. votesReceived[a] \cap votesReceived[b] # {}
        BY <1>1, <2>1, <2>2, MajoritiesMeet
    <2>4. QED
        BY <1>1, <2>3
<1>3. /\ [voter |-> v, term |-> currentTerm[a], cand |-> a] \in granted
      /\ [voter |-> v, term |-> currentTerm[a], cand |-> b] \in granted
    BY <1>2 DEF VoteInv, CountedVotesAreCurrent
<1>4. QED
    BY <1>3 DEF VoteInv, OneVotePerTerm
-----------------------------------------------------------------------------
\* SetLogInfo changes nothing the invariant speaks of but the log position.
LEMMA SetLogInfoKeeps ==
    ASSUME VoteInv, NEW n \in Node, NEW info \in LogInfo, SetLogInfo(n, info)
    PROVE  VoteInv'
<1> USE DEF SetLogInfo, emVars, netVars
<1>1. TypeOK'
    BY DEF VoteInv, TypeOK
<1>2. QED
    BY <1>1 DEF VoteInv, GrantsAreRecorded, OneVotePerTerm, ResponsesAreVotes,
                CountedVotesAreCurrent, LeaderHasMajority

\* startElection: the vote for itself is the first of a new term.
LEMMA StartElectionKeeps ==
    ASSUME VoteInv, NEW n \in Node, StartElection(n)
    PROVE  VoteInv'
<1> DEFINE t == currentTerm[n] + 1
           own == [voter |-> n, term |-> t, cand |-> n]
<1>1. TypeOK /\ GrantsAreRecorded /\ OneVotePerTerm /\ ResponsesAreVotes
      /\ CountedVotesAreCurrent /\ LeaderHasMajority
    BY DEF VoteInv
<1>2. currentTerm[n] \in Nat /\ t \in Terms /\ own \in Vote
    BY <1>1, TermAssumption DEF StartElection, TypeOK, Terms, Vote
<1>3. /\ currentTerm' = [currentTerm EXCEPT ![n] = t]
      /\ role' = [role EXCEPT ![n] = "Candidate"]
      /\ votedFor' = [votedFor EXCEPT ![n] = n]
      /\ votesReceived' = [votesReceived EXCEPT ![n] = {n}]
      /\ granted' = granted \cup {own}
      /\ resps' = resps
    BY DEF StartElection
<1>4. TypeOK'
    <2>1. reqs' \subseteq Request
        BY <1>1, <1>2 DEF StartElection, TypeOK, Request
    <2>2. QED
        BY <1>1, <1>2, <1>3, <2>1 DEF StartElection, TypeOK, Roles
<1> HIDE DEF t
<1>5. \A v \in granted : v.voter = n => v.term < t
    BY <1>1, <1>2 DEF GrantsAreRecorded, TypeOK, Vote, Terms, t
<1>6. GrantsAreRecorded'
    <2> SUFFICES ASSUME NEW v \in granted'
                 PROVE  /\ v.term <= currentTerm'[v.voter]
                        /\ v.term = currentTerm'[v.voter] => votedFor'[v.voter] = v.cand
        BY DEF GrantsAreRecorded
    <2>1. CASE v = own
        BY <1>1, <1>2, <1>3, <2>1 DEF TypeOK, Terms
    <2>2. CASE v \in granted /\ v.voter = n
        BY <1>1, <1>2, <1>3, <1>5, <2>2 DEF TypeOK, Terms, Vote
    <2>3. CASE v \in granted /\ v.voter # n
        BY <1>1, <1>3, <2>3 DEF TypeOK, GrantsAreRecorded, Vote
    <2>4. QED
        BY <1>3, <2>1, <2>2, <2>3
<1>7. OneVotePerTerm'
    <2> SUFFICES ASSUME NEW v \in granted', NEW w \in granted',
                        v.voter = w.voter, v.term = w.term
                 PROVE  v.cand = w.cand
        BY DEF OneVotePerTerm
    <2>1. CASE v \in granted /\ w \in granted
        BY <1>1, <2>1 DEF OneVotePerTerm
    <2>2. CASE v = own /\ w = own
        BY <2>2
    <2>3. CASE (v = own /\ w \in granted) \/ (v \in granted /\ w = own)
        BY <1>1, <1>2, <1>5, <2>3 DEF TypeOK, Vote, Terms
    <2>4. QED
        BY <1>3, <2>1, <2>2, <2>3
<1>8. ResponsesAreVotes'
    BY <1>1, <1>3 DEF ResponsesAreVotes
<1>9. CountedVotesAreCurrent'
    BY <1>1, <1>3 DEF CountedVotesAreCurrent, TypeOK
<1>10. LeaderHasMajority'
    BY <1>1, <1>3 DEF LeaderHasMajority, TypeOK
<1>11. QED
    BY <1>4, <1>6, <1>7, <1>8, <1>9, <1>10 DEF VoteInv

\* handleVoteResponse: a counted vote is one that was cast for this node in
\* its current term; the winner has the majority it counted.
LEMMA HandleVoteResponseKeeps ==
    ASSUME VoteInv, NEW n \in Node, NEW m \in resps, HandleVoteResponse(n, m)
    PROVE  VoteInv'
<1>1. TypeOK /\ GrantsAreRecorded /\ OneVotePerTerm /\ ResponsesAreVotes
      /\ CountedVotesAreCurrent /\ LeaderHasMajority
    BY DEF VoteInv
<1>2. m \in Response /\ m.to = n
    BY <1>1 DEF TypeOK, HandleVoteResponse
<1>3. /\ currentTerm' = currentTerm /\ votedFor' = votedFor /\ granted' = granted
      /\ resps' \subseteq resps
    BY DEF HandleVoteResponse
<1>4. VotesWith(n, m) \in SUBSET Node
    BY <1>1, <1>2 DEF VotesWith, TypeOK, Response
<1>5. TypeOK'
    <2>1. votesReceived' \in [Node -> SUBSET Node]
        BY <1>1, <1>4 DEF HandleVoteResponse, TypeOK
    <2>2. /\ role' \in [Node -> Roles] /\ muHeld' \in [Node -> BOOLEAN]
          /\ currentLeader' \in [Node -> Node \cup {None}]
        BY ZenonT(60), <1>1 DEF HandleVoteResponse, BecomeLeader, TypeOK, Roles
    <2>3. QED
        BY <1>1, <1>3, <2>1, <2>2 DEF HandleVoteResponse, TypeOK
<1>6. GrantsAreRecorded' /\ OneVotePerTerm' /\ ResponsesAreVotes'
    BY <1>1, <1>3 DEF GrantsAreRecorded, OneVotePerTerm, ResponsesAreVotes
<1>7. CountedVotesAreCurrent'
    <2> SUFFICES ASSUME NEW k \in Node, role'[k] # "Follower",
                        NEW v \in votesReceived'[k]
                 PROVE  [voter |-> v, term |-> currentTerm[k], cand |-> k] \in granted
        BY <1>3 DEF CountedVotesAreCurrent
    <2>1. role[k] # "Follower"
        BY <1>1 DEF HandleVoteResponse, BecomeLeader, WinsWith, StillCandidate, TypeOK
    <2>2. CASE v \in votesReceived[k]
        BY <1>1, <2>1, <2>2 DEF CountedVotesAreCurrent
    <2>3. CASE v \notin votesReceived[k]
        <3>1. k = n /\ StillCandidate(n, m) /\ m.granted /\ v = m.from
            BY <1>1, <2>3 DEF HandleVoteResponse, VotesWith, TypeOK
        <3>2. QED
            BY <1>1, <1>2, <3>1 DEF ResponsesAreVotes, StillCandidate
    <2>4. QED
        BY <2>2, <2>3
<1>8. LeaderHasMajority'
    <2> SUFFICES ASSUME NEW k \in Node, role'[k] = "Leader"
                 PROVE  Cardinality(votesReceived'[k]) >= VotesNeeded
        BY DEF LeaderHasMajority
    <2>1. CASE k = n /\ WinsWith(n, m)
        BY <1>1, <2>1 DEF WinsWith, HandleVoteResponse, TypeOK
    <2>2. CASE ~(k = n /\ WinsWith(n, m))
        <3>1. role[k] = "Leader"
            BY <1>1, <2>2 DEF HandleVoteResponse, BecomeLeader, TypeOK
        <3>2. votesReceived'[k] = votesReceived[k]
            BY <1>1, <3>1 DEF HandleVoteResponse, StillCandidate, TypeOK
        <3>3. QED
            BY <1>1, <3>1, <3>2 DEF LeaderHasMajority
    <2>3. QED
        BY <2>1, <2>2
<1>9. QED
    BY <1>5, <1>6, <1>7, <1>8 DEF VoteInv

\* HandleVoteRequest: a vote is cast only by a node whose votedFor of that
\* term is free or already names the candidate.
LEMMA HandleVoteRequestKeeps ==
    ASSUME VoteInv, NEW n \in Node, NEW m \in reqs, HandleVoteRequest(n, m)
    PROVE  VoteInv'
<1> DEFINE t == IF m.term > currentTerm[n] THEN m.term ELSE currentTerm[n]
           new == [voter |-> n, term |-> t, cand |-> m.from]
           answer == [term |-> t, from |-> n, to |-> m.from, granted |-> Grants(n, m)]
<1>1. TypeOK /\ GrantsAreRecorded /\ OneVotePerTerm /\ ResponsesAreVotes
      /\ CountedVotesAreCurrent /\ LeaderHasMajority
    BY DEF VoteInv
<1>2. m \in Request /\ m.term \in Nat /\ currentTerm[n] \in Nat /\ m.from \in Node
    BY <1>1, TermAssumption DEF TypeOK, Terms, Request
<1>3. t \in Terms /\ t \in Nat /\ t >= currentTerm[n] /\ t >= m.term
    BY <1>1, <1>2 DEF TypeOK, Terms, Request
<1>4. new \in Vote /\ answer \in Response
    <2>1. Grants(n, m) \in BOOLEAN
        BY DEF Grants
    <2>2. QED
        BY <1>2, <1>3, <2>1 DEF Vote, Response
<1>5. /\ currentTerm' = [currentTerm EXCEPT ![n] = t]
      /\ votedFor' = [votedFor EXCEPT ![n] =
                        IF Grants(n, m) THEN m.from ELSE VotedForBefore(n, m)]
      /\ granted' = granted \cup (IF Grants(n, m) THEN {new} ELSE {})
      /\ resps' = resps \cup {answer}
      /\ votesReceived' = votesReceived
      /\ role' = [role EXCEPT ![n] = IF StepsDown(n, m) THEN "Follower" ELSE @]
    BY DEF HandleVoteRequest
<1>6. TypeOK'
    <2>1. votedFor' \in [Node -> Node \cup {None}]
        BY <1>1, <1>2, <1>5 DEF TypeOK, VotedForBefore
    <2>2. /\ role' \in [Node -> Roles] /\ muHeld' \in [Node -> BOOLEAN]
          /\ currentLeader' \in [Node -> Node \cup {None}]
        BY <1>1 DEF HandleVoteRequest, TypeOK, Roles
    <2>3. currentTerm' \in [Node -> Terms] /\ granted' \subseteq Vote /\ resps' \subseteq Response
        BY <1>1, <1>3, <1>4, <1>5 DEF TypeOK
    <2>4. QED
        BY <1>1, <1>5, <2>1, <2>2, <2>3 DEF HandleVoteRequest, TypeOK
<1> HIDE DEF t
<1>7. Grants(n, m) => \A w \in granted : w.voter = n /\ w.term = t => w.cand = m.from
    <2> SUFFICES ASSUME Grants(n, m), NEW w \in granted, w.voter = n, w.term = t
                 PROVE  w.cand = m.from
        OBVIOUS
    <2>1. w.term <= currentTerm[n] /\ w.cand # None
        BY <1>1, NodeAssumption DEF GrantsAreRecorded, TypeOK, Vote
    <2>2. t = currentTerm[n] /\ ~(m.term > currentTerm[n])
        BY <1>2, <1>3, <2>1 DEF t
    <2>3. votedFor[n] = w.cand
        BY <1>1, <2>2 DEF GrantsAreRecorded
    <2>4. QED
        BY <2>1, <2>2, <2>3 DEF Grants, VotedForBefore
<1>8. GrantsAreRecorded'
    <2> SUFFICES ASSUME NEW v \in granted'
                 PROVE  /\ v.term <= currentTerm'[v.voter]
                        /\ v.term = currentTerm'[v.voter] => votedFor'[v.voter] = v.cand
        BY DEF GrantsAreRecorded
    <2>1. CASE v = new /\ Grants(n, m)
        BY <1>1, <1>3, <1>5, <2>1 DEF TypeOK
    <2>2. CASE v \in granted /\ v.voter # n
        BY <1>1, <1>5, <2>2 DEF TypeOK, GrantsAreRecorded, Vote
    <2>3. CASE v \in granted /\ v.voter = n
        <3>1. /\ v.term \in Nat /\ v.term <= currentTerm[n]
              /\ currentTerm'[n] = t
            BY <1>1, <1>5, <2>3 DEF TypeOK, GrantsAreRecorded, Vote, Terms
        <3>2. v.term = t => t = currentTerm[n] /\ votedFor[n] = v.cand /\ ~(m.term > currentTerm[n])
            BY <1>1, <1>2, <1>3, <2>3, <3>1 DEF GrantsAreRecorded, t
        <3>3. v.term = t => votedFor'[n] = v.cand
            BY <1>1, <1>5, <1>7, <2>3, <3>2 DEF TypeOK, VotedForBefore
        <3>4. QED
            BY <1>2, <1>3, <2>3, <3>1, <3>3
    <2>4. QED
        BY <1>5, <2>1, <2>2, <2>3
<1>9. OneVotePerTerm'
    <2> SUFFICES ASSUME NEW v \in granted', NEW w \in granted',
                        v.voter = w.voter, v.term = w.term
                 PROVE  v.cand = w.cand
        BY DEF OneVotePerTerm
    <2>1. CASE v \in granted /\ w \in granted
        BY <1>1, <2>1 DEF OneVotePerTerm
    <2>2. CASE Grants(n, m) /\ (v = new \/ w = new)
        BY <1>5, <1>7, <2>2
    <2>3. QED
        BY <1>5, <2>1, <2>2
<1>10. ResponsesAreVotes'
    BY <1>1, <1>5 DEF ResponsesAreVotes
<1>11. CountedVotesAreCurrent'
    <2>1. \A k \in Node : role'[k] # "Follower" =>
             role[k] # "Follower" /\ currentTerm'[k] = currentTerm[k]
        BY <1>1, <1>5 DEF StepsDown, TypeOK, t
    <2>2. QED
        BY <1>1, <1>5, <2>1 DEF CountedVotesAreCurrent
<1>12. LeaderHasMajority'
    BY <1>1, <1>5 DEF LeaderHasMajority, TypeOK
<1>13. QED
    BY <1>6, <1>8, <1>9, <1>10, <1>11, <1>12 DEF VoteInv

\* HandleHeartbeat: the term may grow over a vote of an older term.
LEMMA HandleHeartbeatKeeps ==
    ASSUME VoteInv, NEW n \in Node, NEW t \in 1 .. MaxTerm, NEW l \in Node,
           HandleHeartbeat(n, t, l)
    PROVE  VoteInv'
<1> USE DEF HandleHeartbeat, netVars
<1>1. TypeOK /\ GrantsAreRecorded /\ OneVotePerTerm /\ ResponsesAreVotes
      /\ CountedVotesAreCurrent /\ LeaderHasMajority
    BY DEF VoteInv
<1>2. t \in Terms /\ t >= currentTerm[n] /\ currentTerm[n] \in Nat
    BY <1>1, TermAssumption DEF TypeOK, Terms
<1>3. TypeOK'
    BY <1>1, <1>2 DEF TypeOK, Roles
<1>4. GrantsAreRecorded'
    BY <1>1, <1>2 DEF GrantsAreRecorded, TypeOK, Vote, Terms
<1>5. OneVotePerTerm' /\ ResponsesAreVotes'
    BY <1>1 DEF OneVotePerTerm, ResponsesAreVotes
<1>6. CountedVotesAreCurrent' /\ LeaderHasMajority'
    BY <1>1 DEF CountedVotesAreCurrent, LeaderHasMajority, TypeOK
<1>7. QED
    BY <1>3, <1>4, <1>5, <1>6 DEF VoteInv
-----------------------------------------------------------------------------
\* Every step of every manager keeps the invariant.
LEMMA VoteInvStep == VoteInv /\ [VoteNext]_voteVars => VoteInv'
<1> SUFFICES ASSUME VoteInv, [VoteNext]_voteVars PROVE VoteInv'
    OBVIOUS
<1>1. CASE UNCHANGED voteVars
    <2>1. TypeOK'
        BY <1>1 DEF voteVars, emVars, netVars, VoteInv, TypeOK
    <2>2. QED
        BY <1>1, <2>1 DEF voteVars, emVars, netVars, VoteInv, GrantsAreRecorded,
            OneVotePerTerm, ResponsesAreVotes, CountedVotesAreCurrent, LeaderHasMajority
<1>2. CASE VoteNext
    BY <1>2, SetLogInfoKeeps, StartElectionKeeps, HandleVoteResponseKeeps,
       HandleVoteRequestKeeps, HandleHeartbeatKeeps DEF VoteNext
<1>3. QED
    BY <1>1, <1>2

\* The manager keeps the invariant that its votes rest on, the types of its
\* fields and of the messages included (election.go:81-132, 222-609).
THEOREM VoteInvariant == VoteSpec => []VoteInv
    BY VoteInvInit, VoteInvStep, PTL DEF VoteSpec

\* No term has two leaders: for any number of nodes, any loss and any order
\* of messages (election.go:222-370, 480-609).
THEOREM LeaderUniqueness == VoteSpec => []AtMostOneLeaderPerTerm
    BY VoteInvariant, VoteInvSafe, PTL

\* A node casts one vote per term (election.go:511-524).
THEOREM OneVote == VoteSpec => []OneVotePerTerm
<1>1. VoteInv => OneVotePerTerm
    BY DEF VoteInv
<1>2. QED
    BY <1>1, VoteInvariant, PTL

\* Terms only grow, and a vote stands as long as its term does
\* (every assignment of currentTerm and votedFor in election.go).
THEOREM FinalVotes == VoteSpec => VotesAreFinal
<1> DEFINE A == \A n \in Node :
         /\ currentTerm'[n] >= currentTerm[n]
         /\ currentTerm'[n] = currentTerm[n] /\ votedFor[n] # None
              => votedFor'[n] = votedFor[n]
<1>1. VoteInv /\ [VoteNext]_voteVars => [A]_voteVars
    <2> SUFFICES ASSUME VoteInv, VoteNext PROVE A
        OBVIOUS
    <2>1. TypeOK /\ \A k \in Node : currentTerm[k] \in Nat
        BY TermAssumption DEF VoteInv, TypeOK, Terms
    <2>2. ASSUME NEW n \in Node, NEW info \in LogInfo, SetLogInfo(n, info)
          PROVE  A
        BY <2>1, <2>2 DEF SetLogInfo, emVars
    <2>3. ASSUME NEW n \in Node, NEW m \in resps, HandleVoteResponse(n, m)
          PROVE  A
        BY <2>1, <2>3 DEF HandleVoteResponse
    <2>4. ASSUME NEW n \in Node, StartElection(n)
          PROVE  A
        BY <2>1, <2>4 DEF StartElection, TypeOK
    <2>5. ASSUME NEW n \in Node, NEW t \in 1 .. MaxTerm, NEW l \in Node,
                 HandleHeartbeat(n, t, l)
          PROVE  A
        BY <2>1, <2>5 DEF HandleHeartbeat, TypeOK
    <2>6. ASSUME NEW n \in Node, NEW m \in reqs, HandleVoteRequest(n, m)
          PROVE  A
        <3>1. m.term \in Nat
            BY <2>1, TermAssumption DEF TypeOK, Request, Terms
        <3>2. QED
            BY <2>1, <2>6, <3>1 DEF HandleVoteRequest, VotedForBefore, Grants, TypeOK
    <2> HIDE DEF A
    <2>7. QED
        BY <2>2, <2>3, <2>4, <2>5, <2>6 DEF VoteNext
<1>2. QED
    BY <1>1, VoteInvariant, PTL DEF VoteSpec, VotesAreFinal
-----------------------------------------------------------------------------
\* Every step of a manager is a voting step or leaves the voting state alone.
LEMMA NextIsVoteNext == [Next]_vars => [VoteNext]_voteVars
<1> SUFFICES ASSUME [Next]_vars PROVE [VoteNext]_voteVars
    OBVIOUS
<1>1. CASE UNCHANGED vars
    BY <1>1 DEF vars
<1>2. ASSUME NEW n \in Node, Start(n) \/ Stop(n) \/ LoopStep(n)
      PROVE  VoteNext \/ UNCHANGED voteVars
    BY <1>2 DEF Start, Stop, LoopStep, LoopSelect, LoopExit, LoopFire,
                LoopCheckRole, LoopStartElection, VoteNext
<1>3. ASSUME NEW n \in Node, NEW info \in LogInfo, OnSetLogInfo(n, info)
      PROVE  VoteNext
    BY <1>3 DEF OnSetLogInfo, VoteNext
<1>4. ASSUME NEW n \in Node, NEW m \in reqs, OnVoteRequest(n, m)
      PROVE  VoteNext
    BY <1>4 DEF OnVoteRequest, VoteNext
<1>5. ASSUME NEW n \in Node, NEW m \in resps, OnVoteResponse(n, m)
      PROVE  VoteNext
    BY <1>5 DEF OnVoteResponse, VoteNext
<1>6. ASSUME NEW n \in Node, NEW t \in 1 .. MaxTerm, NEW l \in Node,
             OnHeartbeat(n, t, l)
      PROVE  VoteNext
    BY <1>6 DEF OnHeartbeat, VoteNext
<1>7. QED
    BY <1>1, <1>2, <1>3, <1>4, <1>5, <1>6 DEF Next

\* The timers and the goroutines disturb no vote: a manager with its loop
\* implements the voting (election.go:162-219).
THEOREM TimersRefineVotes == Spec => VoteSpec
<1>1. Init => VoteInit
    BY DEF Init
<1>2. QED
    BY <1>1, NextIsVoteNext, PTL DEF Spec, VoteSpec

\* So no term has two leaders in the running managers either.
THEOREM RunningLeaderUniqueness == Spec => []AtMostOneLeaderPerTerm
    BY TimersRefineVotes, LeaderUniqueness, PTL

\* A leader is stuck in em.mu, and a loop goroutine lives from Start to Stop
\* (election.go:162-219, 349-370, 397-398).
THEOREM TimersInvariant == Spec => []TimersInv
<1>1. Init => TimersInv
    <2>1. Init => TypeOK
        BY VoteInvInit DEF Init, VoteInv
    <2>2. QED
        BY <2>1 DEF Init, VoteInit, TimersInv, TimersTypeOK, MuHeldByLeaders, LoopLivesFromStartToStop
<1>2. TimersInv /\ TypeOK' /\ [Next]_vars => TimersInv'
    <2> SUFFICES ASSUME TimersInv, TypeOK', [Next]_vars PROVE TimersInv'
        OBVIOUS
    <2>1. TimersTypeOK /\ MuHeldByLeaders /\ LoopLivesFromStartToStop /\ TypeOK
        BY DEF TimersInv, TimersTypeOK
    <2> DEFINE T == /\ running' \in [Node -> {"new", "running", "stopped"}]
                    /\ timer' \in [Node -> {"armed", "off"}]
                    /\ loop' \in [Node -> {"none", "select", "wait", "fired", "start", "exited"}]
                    /\ watching' \in [Node -> BOOLEAN]
                    /\ heartbeating' \in [Node -> BOOLEAN]
               G == T /\ LoopLivesFromStartToStop'
    <2>2. (UNCHANGED <<timer, watching, running, loop, heartbeating>>) => G
        BY <2>1 DEF TimersTypeOK, LoopLivesFromStartToStop
    <2>3. ASSUME NEW n \in Node, ResetElectionTimer(n) \/ StopElectionTimer(n) \/ UNCHANGED timerVars,
                 UNCHANGED goVars
          PROVE  G
        <3>1. T
            BY ZenonT(60), <2>1, <2>3
            DEF TimersTypeOK, ResetElectionTimer, StopElectionTimer, timerVars, goVars
        <3>2. LoopLivesFromStartToStop'
            BY <2>1, <2>3 DEF LoopLivesFromStartToStop, goVars
        <3>3. QED
            BY <3>1, <3>2
    <2>4. ASSUME NEW n \in Node, Start(n) \/ Stop(n)
          PROVE  G
        <3>1. T
            BY ZenonT(60), <2>1, <2>4
            DEF TimersTypeOK, Start, Stop, ResetElectionTimer, StopElectionTimer
        <3>2. LoopLivesFromStartToStop'
            BY <2>1, <2>4 DEF TimersTypeOK, LoopLivesFromStartToStop, Start, Stop
        <3>3. QED
            BY <3>1, <3>2
    <2>5. ASSUME NEW n \in Node, LoopStep(n)
          PROVE  G
        <3>1. CASE LoopSelect(n)
            BY <2>1, <3>1 DEF TimersTypeOK, LoopLivesFromStartToStop, LoopSelect
        <3>2. CASE LoopExit(n)
            BY <2>1, <3>2 DEF TimersTypeOK, LoopLivesFromStartToStop, LoopExit, timerVars
        <3>3. CASE LoopFire(n)
            BY <2>1, <3>3 DEF TimersTypeOK, LoopLivesFromStartToStop, LoopFire
        <3>4. CASE LoopCheckRole(n)
            BY <2>1, <3>4 DEF TimersTypeOK, LoopLivesFromStartToStop, LoopCheckRole, timerVars
        <3>5. CASE LoopStartElection(n)
            <4>1. T
                BY <2>1, <3>5 DEF TimersTypeOK, LoopStartElection, ResetElectionTimer
            <4>2. LoopLivesFromStartToStop'
                BY <2>1, <3>5 DEF TimersTypeOK, LoopLivesFromStartToStop, LoopStartElection
            <4>3. QED
                BY <4>1, <4>2
        <3>6. QED
            BY <2>5, <3>1, <3>2, <3>3, <3>4, <3>5 DEF LoopStep
    <2> HIDE DEF G
    <2>6. G
        <3>1. ASSUME NEW n \in Node, NEW info \in LogInfo, OnSetLogInfo(n, info) PROVE G
            BY <2>3, <3>1 DEF OnSetLogInfo, timerVars, goVars
        <3>2. ASSUME NEW n \in Node, NEW m \in reqs, OnVoteRequest(n, m) PROVE G
            BY <2>3, <3>2 DEF OnVoteRequest
        <3>3. ASSUME NEW n \in Node, NEW m \in resps, OnVoteResponse(n, m) PROVE G
            BY <2>3, <3>3 DEF OnVoteResponse
        <3>4. ASSUME NEW n \in Node, NEW t \in 1 .. MaxTerm, NEW l \in Node, OnHeartbeat(n, t, l)
              PROVE  G
            BY <2>3, <3>4 DEF OnHeartbeat
        <3>5. ASSUME UNCHANGED vars PROVE G
            BY <2>2, <3>5 DEF vars, timerVars, goVars
        <3>6. QED
            BY <2>4, <2>5, <3>1, <3>2, <3>3, <3>4, <3>5 DEF Next
    <2>7. TimersTypeOK' /\ LoopLivesFromStartToStop'
        BY <2>6 DEF G, TimersTypeOK
    <2>8. MuHeldByLeaders'
        <3> DEFINE H == MuHeldByLeaders'
        <3> USE DEF MuHeldByLeaders, TypeOK
        <3>1. ASSUME UNCHANGED voteVars PROVE H
            BY <2>1, <3>1 DEF voteVars, emVars
        <3>2. ASSUME NEW n \in Node, NEW info \in LogInfo, SetLogInfo(n, info) PROVE H
            BY <2>1, <3>2 DEF SetLogInfo, emVars
        <3>3. ASSUME NEW n \in Node, StartElection(n) PROVE H
            BY <2>1, <3>3 DEF StartElection
        <3>4. ASSUME NEW n \in Node, NEW m \in reqs, HandleVoteRequest(n, m) PROVE H
            BY <2>1, <3>4 DEF HandleVoteRequest
        <3>5. ASSUME NEW n \in Node, NEW m \in resps, HandleVoteResponse(n, m) PROVE H
            BY <2>1, <3>5 DEF HandleVoteResponse, BecomeLeader
        <3>6. ASSUME NEW n \in Node, NEW t \in 1 .. MaxTerm, NEW l \in Node,
                     HandleHeartbeat(n, t, l)
              PROVE  H
            BY <2>1, <3>6 DEF HandleHeartbeat
        <3> HIDE DEF H
        <3>7. H
            BY <3>1, <3>2, <3>3, <3>4, <3>5, <3>6, NextIsVoteNext DEF VoteNext
        <3>8. QED
            BY <3>7 DEF H
    <2>9. QED
        BY <2>7, <2>8 DEF TimersInv
<1>3. VoteInv => TypeOK
    BY DEF VoteInv
<1>4. QED
    BY <1>1, <1>2, <1>3, TimersRefineVotes, VoteInvariant, PTL DEF Spec

\* Between the loop's look at the role and startElection the node may have
\* been elected, but then em.mu is never released to it (election.go:208-227).
THEOREM NoLeaderCampaigns == Spec => LeaderNeverCampaigns
<1> DEFINE A == \A n \in Node : role[n] = "Leader" => role'[n] # "Candidate"
<1>1. TimersInv /\ [Next]_vars => [A]_vars
    <2> SUFFICES ASSUME TimersInv, [Next]_vars, NEW k \in Node, role[k] = "Leader"
                 PROVE  role'[k] = role[k]
        OBVIOUS
    <2>1. muHeld[k] /\ role \in [Node -> Roles]
        BY DEF TimersInv, TimersTypeOK, MuHeldByLeaders, TypeOK
    <2>2. ASSUME NEW n \in Node, StartElection(n) PROVE role'[k] = role[k]
        BY <2>1, <2>2 DEF StartElection
    <2>3. ASSUME NEW n \in Node, NEW info \in LogInfo, SetLogInfo(n, info)
          PROVE  role'[k] = role[k]
        BY <2>3 DEF SetLogInfo, emVars
    <2>4. ASSUME NEW n \in Node, NEW m \in reqs, HandleVoteRequest(n, m)
          PROVE  role'[k] = role[k]
        BY <2>1, <2>4 DEF HandleVoteRequest
    <2>5. ASSUME NEW n \in Node, NEW m \in resps, HandleVoteResponse(n, m)
          PROVE  role'[k] = role[k]
        BY <2>1, <2>5 DEF HandleVoteResponse, BecomeLeader
    <2>6. ASSUME NEW n \in Node, NEW t \in 1 .. MaxTerm, NEW l \in Node, HandleHeartbeat(n, t, l)
          PROVE  role'[k] = role[k]
        BY <2>1, <2>6 DEF HandleHeartbeat
    <2>7. (UNCHANGED voteVars) => role'[k] = role[k]
        BY DEF voteVars, emVars
    <2>8. QED
        BY <2>2, <2>3, <2>4, <2>5, <2>6, <2>7, NextIsVoteNext DEF VoteNext
<1>2. QED
    BY <1>1, TimersInvariant, PTL DEF Spec, LeaderNeverCampaigns
=============================================================================
