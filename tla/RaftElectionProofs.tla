-------------------------- MODULE RaftElectionProofs --------------------------
(***************************************************************************)
(* Elections of Raft, for every number of peers, when calls end before the *)
(* caller's timers fire again (Late = {}): no vote is given twice, two     *)
(* peers that lead at the same time won elections of different terms, and  *)
(* what a leader counts as committed is on a voter of every other leader.  *)
(***************************************************************************)
EXTENDS RaftProofs, FiniteSetTheorems

\* A peer that stands for election or leads has voted for nobody else since.
OwnVotes ==
    \A i \in Server : state[i] # "Follower" =>
        /\ ballot[i] <= currentTerm[i]
        /\ \A g \in grants : g[1] = i => g[3] < ballot[i]

\* Neither a peer nor its Persister forgets the vote of its last term.
GrantsKept ==
    \A g \in grants :
        /\ g[3] <= currentTerm[g[1]]
        /\ g[3] = currentTerm[g[1]] => votedFor[g[1]] # None
        /\ g[3] <= persisted[g[1]].term
        /\ g[3] = persisted[g[1]].term => persisted[g[1]].votedFor # None

VoteCall(m) == m.live /\ m.type \in {"RV", "RVReply"}
BallotOf(m) == IF m.type = "RV" THEN m.term ELSE m.ballot

\* The vote calls a peer waits for belong to its last election, one for each peer
\* that is not counted yet, and a granted reply reports a vote really given.
CallsOfBallot ==
    /\ \A m \in net : VoteCall(m) =>
          /\ BallotOf(m) = ballot[m.src]
          /\ m.dst \notin votes[m.src][ballot[m.src]]
          /\ m.type = "RVReply" /\ m.granted => <<m.dst, m.src, m.ballot>> \in grants
    /\ \A m, o \in net : VoteCall(m) /\ VoteCall(o) /\ m.src = o.src /\ m.dst = o.dst => m = o

\* Every vote counted was given.
VotesGranted ==
    \A i \in Server : \A v \in votes[i][ballot[i]] : <<v, i, ballot[i]>> \in grants

\* A leader has the votes of half of the peers besides its own.
LeaderQuorum ==
    \A i \in Server : state[i] = "Leader" =>
        \E Q \in SUBSET Server :
            Cardinality(Q) = N \div 2 /\ \A v \in Q : <<v, i, ballot[i]>> \in grants

ElectionInv ==
    OwnVotes /\ GrantsKept /\ CallsOfBallot /\ VotesGranted /\ LeaderQuorum /\ NoDoubleGrant
-----------------------------------------------------------------------------

\* A granted vote names the voter, the candidate and a term.
LEMMA GrantTypes ==
    ASSUME TypeOK, NEW g \in grants
    PROVE  g[1] \in Server /\ g[2] \in Server /\ g[3] \in Nat
  <1>1. g \in Server \X Server \X Term
    BY DEF TypeOK
  <1> QED BY Zenon, <1>1, TermType

\* A step that adds no vote call.
LEMMA NoNewCalls ==
    ASSUME CallsOfBallot, ballot' = ballot, grants' = grants, votes' = votes,
           \A m \in net' : VoteCall(m) => m \in net
    PROVE  CallsOfBallot'
  <1>1. \A m \in net' : VoteCall(m) =>
          /\ BallotOf(m) = ballot'[m.src]
          /\ m.dst \notin votes'[m.src][ballot'[m.src]]
          /\ m.type = "RVReply" /\ m.granted => <<m.dst, m.src, m.ballot>> \in grants'
    BY DEF CallsOfBallot
  <1>2. \A m, o \in net' :
            VoteCall(m) /\ VoteCall(o) /\ m.src = o.src /\ m.dst = o.dst => m = o
    BY DEF CallsOfBallot
  <1> QED BY <1>1, <1>2 DEF CallsOfBallot

\* A step of peer i to term t, vote v and state s that grants no vote and starts or
\* wins no election: a peer that stays in its state goes to no lower term, and the
\* vote of the new term is not forgotten.
Moves(i, t, v, s) ==
    /\ t \in Term
    /\ currentTerm' = [currentTerm EXCEPT ![i] = t]
    /\ votedFor' = [votedFor EXCEPT ![i] = v]
    /\ state' = [state EXCEPT ![i] = s]
    /\ persisted' = persisted \/ Persist(i)
    /\ ballot' = ballot /\ grants' = grants /\ votes' = votes
    /\ s # "Follower" => s = state[i] /\ t >= currentTerm[i]
    /\ \A g \in grants : g[1] = i => g[3] <= t /\ (g[3] = t => v # None)

\* A step that moves one peer and sends no vote keeps the election invariant.
LEMMA PeerStep ==
    ASSUME TypeOK, ElectionInv, NEW i \in Server, NEW t, NEW v, NEW s, Moves(i, t, v, s),
           \A m \in net' : VoteCall(m) => m \in net
    PROVE  ElectionInv'
  <1> USE DEF Moves
  <1>0. OwnVotes /\ GrantsKept /\ VotesGranted /\ LeaderQuorum /\ NoDoubleGrant /\ CallsOfBallot
    BY DEF ElectionInv
  <1>1. /\ currentTerm \in [Server -> Term] /\ ballot \in [Server -> Term]
        /\ DOMAIN votedFor = Server /\ DOMAIN state = Server /\ DOMAIN persisted = Server
    BY Zenon DEF TypeOK
  <1>2. OwnVotes'
    <2>1. ASSUME NEW j \in Server, state'[j] # "Follower"
          PROVE  /\ ballot'[j] <= currentTerm'[j]
                 /\ \A g \in grants' : g[1] = j => g[3] < ballot'[j]
      <3>1. state[j] # "Follower" /\ currentTerm'[j] >= currentTerm[j]
        <4>1. CASE j = i
          BY <1>1, <2>1, <4>1
        <4>2. CASE j # i
          <5>1. state'[j] = state[j] /\ currentTerm'[j] = currentTerm[j]
            BY <1>1, <4>2
          <5>2. currentTerm[j] \in Nat
            BY Zenon, <1>1, TermType
          <5> QED BY <2>1, <5>1, <5>2
        <4> QED BY <4>1, <4>2
      <3>2. /\ ballot[j] <= currentTerm[j]
            /\ \A g \in grants : g[1] = j => g[3] < ballot[j]
        BY <1>0, <3>1 DEF OwnVotes
      <3>3. currentTerm[j] \in Nat /\ currentTerm'[j] \in Nat /\ ballot[j] \in Nat
        BY Zenon, <1>1, TermType
      <3> QED BY <3>1, <3>2, <3>3
    <2> QED BY <2>1 DEF OwnVotes
  <1>3. GrantsKept'
    <2>1. ASSUME NEW g \in grants
          PROVE  /\ g[3] <= currentTerm'[g[1]]
                 /\ g[3] = currentTerm'[g[1]] => votedFor'[g[1]] # None
      <3>1. g[1] \in Server
        BY GrantTypes
      <3>2. CASE g[1] = i
        BY <1>1, <3>2
      <3>3. CASE g[1] # i
        BY <1>0, <1>1, <3>1, <3>3 DEF GrantsKept
      <3> QED BY <3>2, <3>3
    <2>2. ASSUME NEW g \in grants
          PROVE  /\ g[3] <= persisted'[g[1]].term
                 /\ g[3] = persisted'[g[1]].term => persisted'[g[1]].votedFor # None
      <3>1. g[1] \in Server
        BY GrantTypes
      <3>2. CASE persisted' = persisted
        BY <1>0, <3>2 DEF GrantsKept
      <3>3. CASE Persist(i)
        <4>1. CASE g[1] = i
          <5>1. /\ persisted'[g[1]].term = currentTerm'[i]
                /\ persisted'[g[1]].votedFor = votedFor'[i]
            BY <1>1, <3>1, <3>3, <4>1 DEF Persist, StateData
          <5> QED BY <2>1, <4>1, <5>1
        <4>2. CASE g[1] # i
          <5>1. persisted'[g[1]] = persisted[g[1]]
            BY <1>1, <3>1, <3>3, <4>2 DEF Persist
          <5> QED BY <1>0, <5>1 DEF GrantsKept
        <4> QED BY <4>1, <4>2
      <3> QED BY <3>2, <3>3
    <2> QED BY <2>1, <2>2 DEF GrantsKept
  <1>4. LeaderQuorum'
    <2>1. \A j \in Server : state'[j] = "Leader" => state[j] = "Leader"
      BY <1>1
    <2> QED BY <1>0, <2>1 DEF LeaderQuorum, N
  <1>5. VotesGranted' /\ NoDoubleGrant'
    BY <1>0 DEF VotesGranted, NoDoubleGrant
  <1>6. CallsOfBallot'
    BY <1>0, NoNewCalls
  <1> QED BY <1>2, <1>3, <1>4, <1>5, <1>6 DEF ElectionInv

\* A step that leaves the election variables alone, whether or not it persists.
LEMMA SameElection ==
    ASSUME TypeOK, ElectionInv, UNCHANGED electionVars,
           persisted' = persisted \/ \E i \in Server : Persist(i),
           ballot' = ballot, grants' = grants, votes' = votes,
           \A m \in net' : VoteCall(m) => m \in net
    PROVE  ElectionInv'
  <1>1. PICK i \in Server : persisted' = persisted \/ Persist(i)
    BY ServerAssumption
  <1>2. /\ currentTerm' = [currentTerm EXCEPT ![i] = currentTerm[i]]
        /\ votedFor' = [votedFor EXCEPT ![i] = votedFor[i]]
        /\ state' = [state EXCEPT ![i] = state[i]]
        /\ currentTerm[i] \in Term
    BY DEF TypeOK, electionVars
  <1>3. currentTerm[i] >= currentTerm[i]
    BY <1>2, TermType
  <1>4. \A g \in grants : g[1] = i =>
            g[3] <= currentTerm[i] /\ (g[3] = currentTerm[i] => votedFor[i] # None)
    BY Zenon DEF ElectionInv, GrantsKept
  <1>5. Moves(i, currentTerm[i], votedFor[i], state[i])
    BY <1>1, <1>2, <1>3, <1>4 DEF Moves
  <1> QED BY <1>5, PeerStep

\* A candidate or a leader steps down on a reply.  It keeps no vote for its new
\* term, which is above the terms of all the votes it has given.
LEMMA StepDown ==
    ASSUME TypeOK, ElectionInv, NEW m \in net,
           StepDownOnVote(m) \/ StepDownOnAppend(m) \/ StepDownOnSnapshot(m)
    PROVE  ElectionInv'
  <1> DEFINE i == m.src
  <1>1. i \in Server /\ m.term \in Term /\ m \in Message
    BY Zenon, CallTypes DEF TypeOK
  <1>2. /\ currentTerm \in [Server -> Term] /\ ballot[i] \in Nat /\ currentTerm[i] \in Nat
        /\ m.term \in Nat
    BY Zenon, <1>1, TermType DEF TypeOK
  <1>3. state[i] # "Follower"
    BY DEF StepDownOnVote, StepDownOnAppend, StepDownOnSnapshot
  <1>4. /\ ballot[i] <= currentTerm[i]
        /\ \A g \in grants : g[1] = i => g[3] \in Nat /\ g[3] < ballot[i]
    BY <1>1, <1>3, GrantTypes DEF ElectionInv, OwnVotes
  <1>5. net' \subseteq net
    BY DEF StepDownOnVote, StepDownOnAppend, StepDownOnSnapshot
  <1>6. CASE StepDownOnVote(m)
    <2>1. m.ballot = ballot[i]
      <3>1. m \in net /\ m.live /\ m.type = "RVReply"
        BY Zenon, <1>1, <1>6, CallTypes DEF StepDownOnVote, RVReply
      <3> QED BY Zenon, <3>1 DEF ElectionInv, CallsOfBallot, VoteCall, BallotOf
    <2>2. \A g \in grants : g[1] = i => g[3] < m.term
      BY <1>2, <1>4, <1>6, <2>1 DEF StepDownOnVote
    <2>3. Moves(i, m.term, None, "Follower")
      <3>1. \A g \in grants : g[1] = i => g[3] <= m.term /\ (g[3] = m.term => None # None)
        BY <1>2, <1>4, <2>2
      <3> QED BY <1>1, <1>6, <3>1 DEF StepDownOnVote, Moves
    <2> QED BY <1>1, <1>5, <2>3, PeerStep
  <1>7. CASE StepDownOnAppend(m)
    <2>1. \A g \in grants : g[1] = i => g[3] < currentTerm[i]
      BY <1>2, <1>4
    <2>2. Moves(i, currentTerm[i], None, "Follower")
      <3>1. \A g \in grants : g[1] = i =>
                g[3] <= currentTerm[i] /\ (g[3] = currentTerm[i] => None # None)
        BY <1>2, <1>4, <2>1
      <3>2. currentTerm' = [currentTerm EXCEPT ![i] = currentTerm[i]] /\ currentTerm[i] \in Term
        BY Zenon, <1>1, <1>2, <1>7 DEF StepDownOnAppend
      <3> QED BY Zenon, <1>1, <1>7, <3>1, <3>2 DEF StepDownOnAppend, Moves, voteVars
    <2> QED BY <1>1, <1>5, <2>2, PeerStep
  <1>8. CASE StepDownOnSnapshot(m)
    <2>1. \A g \in grants : g[1] = i => g[3] < m.term
      BY <1>2, <1>4, <1>8 DEF StepDownOnSnapshot
    <2>2. Moves(i, m.term, None, "Follower")
      <3>1. \A g \in grants : g[1] = i => g[3] <= m.term /\ (g[3] = m.term => None # None)
        BY <1>2, <1>4, <2>1
      <3> QED BY Zenon, <1>1, <1>8, <3>1 DEF StepDownOnSnapshot, Moves, voteVars
    <2> QED BY <1>1, <1>5, <2>2, PeerStep
  <1> QED BY <1>6, <1>7, <1>8

\* A peer that accepts a leader records a vote for it, in a term not below its own.
LEMMA AcceptStep ==
    ASSUME TypeOK, ElectionInv, NEW m \in net,
           AppendPast(m) \/ AppendMatch(m) \/ AppendMismatch(m)
    PROVE  ElectionInv'
  <1> DEFINE i == m.dst
             s == IF state[i] = "Leader" THEN "Follower" ELSE state[i]
  <1>1. i \in Server /\ m.src \in Server /\ m.term \in Term
    BY Zenon, CallTypes DEF TypeOK
  <1>2. AcceptLeader(i, m) /\ votes' = votes /\ ballot' = ballot /\ grants' = grants
    BY Zenon DEF AppendPast, AppendMatch, AppendMismatch, voteVars
  <1>3. persisted' = persisted \/ Persist(i)
    BY Zenon DEF AppendPast, AppendMatch, AppendMismatch
  <1>4. m.src # None
    BY <1>1, ServerAssumption
  <1>5. currentTerm[i] \in Nat /\ m.term \in Nat /\ m.term >= currentTerm[i]
    BY Zenon, <1>1, <1>2, TermType DEF TypeOK, AcceptLeader
  <1>6. \A g \in grants : g[1] = i => g[3] \in Nat /\ g[3] <= currentTerm[i]
    BY GrantTypes DEF ElectionInv, GrantsKept
  <1>7. \A g \in grants : g[1] = i => g[3] <= m.term /\ (g[3] = m.term => m.src # None)
    BY <1>4, <1>5, <1>6
  <1>8. s # "Follower" => s = state[i] /\ m.term >= currentTerm[i]
    BY <1>5
  <1>9. /\ currentTerm' = [currentTerm EXCEPT ![i] = m.term]
        /\ votedFor' = [votedFor EXCEPT ![i] = m.src]
        /\ state' = [state EXCEPT ![i] = s]
    BY Zenon, <1>1, <1>2 DEF AcceptLeader, TypeOK
  <1> HIDE DEF s
  <1>10. Moves(i, m.term, m.src, s)
    BY <1>1, <1>2, <1>3, <1>7, <1>8, <1>9 DEF Moves
  <1>11. \A o \in net' : VoteCall(o) => o \in net
    BY SMTT(60) DEF AppendPast, AppendMatch, AppendMismatch, Answer, AppendReply, VoteCall
  <1> QED BY Zenon, <1>1, <1>10, <1>11, PeerStep

\* The calls that follow a served RequestVote.
LEMMA ServedCalls ==
    ASSUME TypeOK, ElectionInv, NEW m \in net, RequestVote(m)
    PROVE  CallsOfBallot'
  <1> DEFINE i == m.dst
             grant == VoteFree(i, m) /\ UpToDate(i, m)
             r == [type |-> "RVReply", src |-> m.src, dst |-> i, live |-> TRUE,
                   ballot |-> m.term,
                   term |-> IF m.term < currentTerm[i] THEN currentTerm[i] ELSE 0,
                   granted |-> grant]
  <1>1. /\ votes' = votes /\ ballot' = ballot /\ grants \subseteq grants'
        /\ m.type = "RV"
        /\ grant => <<i, m.src, m.term>> \in grants'
    BY Zenon DEF RequestVote
  <1>2. net' = (net \ {m}) \cup (IF m.live THEN {r} ELSE {})
    BY Zenon DEF RequestVote, Answer
  <1>3. /\ r.type = "RVReply" /\ r.src = m.src /\ r.dst = i /\ r.live = TRUE
        /\ r.ballot = m.term /\ r.granted = grant
    BY Zenon
  <1> HIDE DEF r
  <1>4. m.live => VoteCall(m) /\ BallotOf(m) = m.term
    BY Zenon, <1>1 DEF VoteCall, BallotOf
  <1>5. ASSUME NEW o \in net', VoteCall(o)
        PROVE  /\ BallotOf(o) = ballot'[o.src]
               /\ o.dst \notin votes'[o.src][ballot'[o.src]]
               /\ o.type = "RVReply" /\ o.granted => <<o.dst, o.src, o.ballot>> \in grants'
    <2>1. CASE o = r /\ m.live
      BY Zenon, <1>1, <1>3, <1>4, <2>1 DEF ElectionInv, CallsOfBallot, BallotOf
    <2>2. CASE o \in net
      BY Zenon, <1>1, <1>5, <2>2 DEF ElectionInv, CallsOfBallot
    <2> QED BY Zenon, <1>2, <2>1, <2>2
  <1>6. ASSUME NEW o \in net', NEW q \in net', VoteCall(o), VoteCall(q),
               o.src = q.src, o.dst = q.dst
        PROVE  o = q
    <2>1. ASSUME NEW x \in net, VoteCall(x), x # m, m.live
          PROVE  ~ (x.src = r.src /\ x.dst = r.dst)
      BY Zenon, <1>3, <1>4, <2>1 DEF ElectionInv, CallsOfBallot
    <2>2. CASE o \in net \ {m} /\ q \in net \ {m}
      BY Zenon, <1>6, <2>2 DEF ElectionInv, CallsOfBallot
    <2>3. CASE o = r /\ m.live /\ q \in net \ {m}
      BY <1>6, <2>1, <2>3
    <2>4. CASE q = r /\ m.live /\ o \in net \ {m}
      BY <1>6, <2>1, <2>4
    <2> QED BY <1>2, <2>2, <2>3, <2>4
  <1> QED BY <1>5, <1>6 DEF CallsOfBallot

\* A vote is granted only if none was given in that term: VotedFor says so, also
\* after a restart.
LEMMA RequestVoteStep ==
    ASSUME TypeOK, TypeOK', ElectionInv, NEW m \in net, RequestVote(m)
    PROVE  ElectionInv'
  <1> DEFINE i == m.dst
             higher == m.term > currentTerm[i]
             grant == VoteFree(i, m) /\ UpToDate(i, m)
             new == <<i, m.src, m.term>>
  <1>1. i \in Server /\ m.src \in Server /\ m.term \in Term /\ m.term \in Nat
    BY Zenon, CallTypes, TermType DEF TypeOK
  <1>2. /\ currentTerm' = [currentTerm EXCEPT ![i] = MaxOf(@, m.term)]
        /\ state' = [state EXCEPT ![i] = IF higher \/ grant THEN "Follower" ELSE @]
        /\ votedFor' = [votedFor EXCEPT ![i] =
                           IF grant THEN m.src ELSE IF higher THEN None ELSE @]
        /\ Persist(i) /\ votes' = votes /\ ballot' = ballot
        /\ grants' = IF grant THEN grants \cup {new} ELSE grants
    BY Zenon DEF RequestVote
  <1>3. /\ currentTerm \in [Server -> Term] /\ DOMAIN votedFor = Server /\ DOMAIN state = Server
        /\ DOMAIN persisted = Server /\ ballot \in [Server -> Term]
    BY Zenon DEF TypeOK
  <1>4. /\ currentTerm[i] \in Nat
        /\ currentTerm'[i] = IF higher THEN m.term ELSE currentTerm[i]
        /\ \A j \in Server : j # i => /\ currentTerm'[j] = currentTerm[j]
                                      /\ votedFor'[j] = votedFor[j] /\ state'[j] = state[j]
                                      /\ persisted'[j] = persisted[j]
        /\ persisted'[i].term = currentTerm'[i] /\ persisted'[i].votedFor = votedFor'[i]
    <2>1. currentTerm[i] \in Nat
      BY Zenon, <1>1, <1>3, TermType
    <2>2. currentTerm'[i] = IF higher THEN m.term ELSE currentTerm[i]
      <3>1. currentTerm'[i] = IF currentTerm[i] > m.term THEN currentTerm[i] ELSE m.term
        BY Zenon, <1>1, <1>2, <1>3 DEF MaxOf
      <3> QED BY <1>1, <2>1, <3>1
    <2>3. \A j \in Server : j # i => /\ currentTerm'[j] = currentTerm[j]
                                     /\ votedFor'[j] = votedFor[j] /\ state'[j] = state[j]
      BY Zenon, <1>2, <1>3
    <2>4. \A j \in Server : j # i => persisted'[j] = persisted[j]
      BY <1>2, <1>3 DEF Persist
    <2>5. persisted'[i].term = currentTerm'[i] /\ persisted'[i].votedFor = votedFor'[i]
      BY Zenon, <1>1, <1>2, <1>3 DEF Persist, StateData
    <2> QED BY Zenon, <2>1, <2>2, <2>3, <2>4, <2>5
  <1>5. grant => m.term = currentTerm'[i] /\ votedFor'[i] = m.src /\ m.src # None
    <2>1. grant => m.term >= currentTerm[i]
      BY SMTT(60), <1>1, <1>4 DEF VoteFree
    <2>2. grant => votedFor'[i] = m.src
      BY Zenon, <1>1, <1>2, <1>3
    <2>3. m.src # None
      BY <1>1, ServerAssumption
    <2> QED BY SMTT(60), <1>1, <1>4, <2>1, <2>2, <2>3
  <1>6. \A g \in grants : g[1] \in Server /\ g[3] \in Nat
    BY GrantTypes
  <1>7. new[1] = i /\ new[2] = m.src /\ new[3] = m.term
    OBVIOUS
  <1> HIDE DEF new, grant
  <1>8. grant => \A g \in grants : g[1] = i => g[3] # m.term
    BY SMTT(60), <1>1, <1>4, <1>6 DEF ElectionInv, GrantsKept, VoteFree, grant
  <1>9. GrantsKept'
    <2>1. ASSUME NEW g \in grants', g[1] = i
          PROVE  g[3] <= currentTerm'[i] /\ (g[3] = currentTerm'[i] => votedFor'[i] # None)
      <3>1. CASE grant /\ g = new
        BY <1>1, <1>5, <1>7, <3>1
      <3>2. CASE g \in grants
        <4>1. /\ g[3] \in Nat /\ g[3] <= currentTerm[i]
              /\ g[3] = currentTerm[i] => votedFor[i] # None
          BY <1>6, <2>1, <3>2 DEF ElectionInv, GrantsKept
        <4>2. CASE grant
          BY SMTT(60), <1>1, <1>4, <1>5, <4>1, <4>2
        <4>3. CASE ~ grant /\ higher
          BY SMTT(60), <1>1, <1>4, <4>1, <4>3
        <4>4. CASE ~ grant /\ ~ higher
          BY Zenon, <1>1, <1>2, <1>3, <1>4, <4>1, <4>4
        <4> QED BY Zenon, <4>2, <4>3, <4>4
      <3> QED BY Zenon, <1>2, <3>1, <3>2
    <2>2. ASSUME NEW g \in grants', g[1] # i
          PROVE  g \in grants /\ g[1] \in Server
      BY <1>2, <1>6, <1>7, <2>2
    <2>3. ASSUME NEW g \in grants'
          PROVE  /\ g[3] <= currentTerm'[g[1]]
                 /\ g[3] = currentTerm'[g[1]] => votedFor'[g[1]] # None
                 /\ g[3] <= persisted'[g[1]].term
                 /\ g[3] = persisted'[g[1]].term => persisted'[g[1]].votedFor # None
      <3>1. CASE g[1] = i
        BY Zenon, <1>4, <2>1, <3>1
      <3>2. CASE g[1] # i
        BY SMTT(60), <1>4, <2>2, <3>2 DEF ElectionInv, GrantsKept
      <3> QED BY Zenon, <3>1, <3>2
    <2> QED BY Zenon, <2>3 DEF GrantsKept
  <1>10. OwnVotes'
    <2>1. ASSUME NEW j \in Server, state'[j] # "Follower"
          PROVE  /\ ballot'[j] <= currentTerm'[j]
                 /\ \A g \in grants' : g[1] = j => g[3] < ballot'[j]
      <3>1. CASE j = i
        <4>1. ~ grant /\ ~ higher /\ state[i] # "Follower"
          BY Zenon, <1>1, <1>2, <1>3, <2>1, <3>1
        <4> QED BY Zenon, <1>1, <1>2, <1>4, <3>1, <4>1 DEF ElectionInv, OwnVotes
      <3>2. CASE j # i
        <4>1. \A g \in grants' : g[1] = j => g \in grants
          BY <1>2, <1>7, <3>2
        <4> QED BY Zenon, <1>2, <1>4, <2>1, <3>2, <4>1 DEF ElectionInv, OwnVotes
      <3> QED BY <3>1, <3>2
    <2> QED BY <2>1 DEF OwnVotes
  <1>11. NoDoubleGrant'
    <2>1. ASSUME NEW g \in grants', NEW h \in grants', g[1] = h[1], g[3] = h[3]
          PROVE  g[2] = h[2]
      <3>1. CASE g \in grants /\ h \in grants
        BY <2>1, <3>1 DEF ElectionInv, NoDoubleGrant
      <3>2. CASE grant /\ g = new /\ h = new
        BY <3>2
      <3>3. CASE grant /\ g = new /\ h \in grants
        BY <1>7, <1>8, <2>1, <3>3
      <3>4. CASE grant /\ h = new /\ g \in grants
        BY <1>7, <1>8, <2>1, <3>4
      <3> QED BY <1>2, <3>1, <3>2, <3>3, <3>4
    <2> QED BY <2>1 DEF NoDoubleGrant
  <1>12. grants \subseteq grants'
    BY <1>2
  <1>13. VotesGranted'
    BY Zenon, <1>2, <1>12 DEF ElectionInv, VotesGranted
  <1>14. LeaderQuorum'
    <2>1. \A j \in Server : state'[j] = "Leader" => state[j] = "Leader"
      BY Zenon, <1>2, <1>3
    <2> QED BY Zenon, <1>2, <1>12, <2>1 DEF ElectionInv, LeaderQuorum, N
  <1>15. CallsOfBallot'
    BY ServedCalls
  <1> QED BY <1>9, <1>10, <1>11, <1>13, <1>14, <1>15 DEF ElectionInv

\* canvassVotes: the term of the new election is above those of all votes given, and
\* as all earlier calls have ended, the vote calls are those of this election.
LEMMA CanvassVotesStep ==
    ASSUME Late = {}, TypeOK, ElectionInv, NEW i \in Server, CanvassVotes(i)
    PROVE  ElectionInv'
  <1> DEFINE t == currentTerm[i] + 1
             calls == [type : {"RV"}, src : {i}, dst : Server \ {i}, live : {TRUE},
                       term : {t}, lastLogIndex : {LastIndex(i)}, lastLogTerm : {LastTerm(i)}]
  <1>1. /\ currentTerm' = [currentTerm EXCEPT ![i] = t]
        /\ votedFor' = [votedFor EXCEPT ![i] = i]
        /\ state' = [state EXCEPT ![i] = "Candidate"]
        /\ ballot' = [ballot EXCEPT ![i] = t]
        /\ net' = net \cup calls
        /\ persisted' = persisted /\ grants' = grants
        /\ t <= MaxTerm
    BY Zenon DEF CanvassVotes
  <1>2. /\ currentTerm \in [Server -> Term] /\ DOMAIN votedFor = Server /\ DOMAIN state = Server
        /\ ballot \in [Server -> Term] /\ votes \in [Server -> [Term -> SUBSET Server]]
    BY Zenon DEF TypeOK
  <1>3. currentTerm[i] \in Nat /\ t \in Nat /\ t \in Term
    BY SMTT(60), <1>1, <1>2, BoundAssumption DEF Term
  <1>4. Outstanding(i) = {}
    BY Zenon DEF CanvassVotes, ElectionDue
  <1>5. \A m \in net : VoteCall(m) => m.src # i
    BY <1>4 DEF Outstanding, VoteCall
  <1>6. /\ votes' = [votes EXCEPT ![i] = [u \in Term |-> {}]]
    BY Zenon, <1>4 DEF CanvassVotes
  <1>7. \A j \in Server : j # i => /\ currentTerm'[j] = currentTerm[j] /\ state'[j] = state[j]
                                   /\ votedFor'[j] = votedFor[j] /\ ballot'[j] = ballot[j]
                                   /\ votes'[j] = votes[j]
    BY Zenon, <1>1, <1>2, <1>6
  <1>8. /\ currentTerm'[i] = t /\ ballot'[i] = t /\ state'[i] = "Candidate"
        /\ votedFor'[i] = i /\ votes'[i][t] = {} /\ i # None
    BY Zenon, <1>1, <1>2, <1>3, <1>6, ServerAssumption
  <1>9. \A g \in grants : g[1] \in Server /\ g[3] \in Nat
    BY GrantTypes
  <1>10. \A g \in grants : g[1] = i => g[3] < t
    BY SMTT(60), <1>3, <1>9 DEF ElectionInv, GrantsKept
  <1>11. \A o \in calls : /\ o.type = "RV" /\ o.src = i /\ o.live = TRUE /\ o.term = t
                          /\ o.lastLogIndex = LastIndex(i) /\ o.lastLogTerm = LastTerm(i)
    BY Zenon
  <1>12. \A o, q \in calls : o.dst = q.dst => o = q
    <2>1. \A o \in calls :
              o = [type |-> o.type, src |-> o.src, dst |-> o.dst, live |-> o.live,
                   term |-> o.term, lastLogIndex |-> o.lastLogIndex,
                   lastLogTerm |-> o.lastLogTerm]
      BY SMTT(60)
    <2> HIDE DEF calls
    <2>2. ASSUME NEW o \in calls, NEW q \in calls, o.dst = q.dst
          PROVE  o = q
      <3>1. /\ o.type = q.type /\ o.src = q.src /\ o.live = q.live /\ o.term = q.term
            /\ o.lastLogIndex = q.lastLogIndex /\ o.lastLogTerm = q.lastLogTerm
        BY Zenon, <1>11
      <3> QED BY Zenon, <2>1, <2>2, <3>1
    <2> QED BY <2>2
  <1> HIDE DEF t, calls
  <1>13. OwnVotes'
    <2>1. ASSUME NEW j \in Server, state'[j] # "Follower"
          PROVE  /\ ballot'[j] <= currentTerm'[j]
                 /\ \A g \in grants' : g[1] = j => g[3] < ballot'[j]
      <3>1. CASE j = i
        BY SMTT(60), <1>1, <1>3, <1>8, <1>10, <3>1
      <3>2. CASE j # i
        BY Zenon, <1>1, <1>7, <2>1, <3>2 DEF ElectionInv, OwnVotes
      <3> QED BY <3>1, <3>2
    <2> QED BY <2>1 DEF OwnVotes
  <1>14. GrantsKept'
    <2>1. ASSUME NEW g \in grants
          PROVE  /\ g[3] <= currentTerm'[g[1]]
                 /\ g[3] = currentTerm'[g[1]] => votedFor'[g[1]] # None
      <3>1. CASE g[1] = i
        BY SMTT(60), <1>3, <1>8, <1>9, <1>10, <3>1
      <3>2. CASE g[1] # i
        BY Zenon, <1>7, <1>9, <3>2 DEF ElectionInv, GrantsKept
      <3> QED BY Zenon, <3>1, <3>2
    <2> QED BY Zenon, <1>1, <2>1 DEF ElectionInv, GrantsKept
  <1>15. CallsOfBallot'
    <2>1. ASSUME NEW o \in net', VoteCall(o)
          PROVE  /\ BallotOf(o) = ballot'[o.src]
                 /\ o.dst \notin votes'[o.src][ballot'[o.src]]
                 /\ o.type = "RVReply" /\ o.granted => <<o.dst, o.src, o.ballot>> \in grants'
      <3>1. CASE o \in net
        <4>1. o.src # i /\ o.src \in Server
          BY Zenon, <1>5, <2>1, <3>1, CallTypes DEF TypeOK
        <4> QED BY Zenon, <1>1, <1>7, <2>1, <3>1, <4>1 DEF ElectionInv, CallsOfBallot
      <3>2. CASE o \in calls
        BY Zenon, <1>8, <1>11, <3>2 DEF BallotOf
      <3> QED BY Zenon, <1>1, <3>1, <3>2
    <2>2. ASSUME NEW o \in net', NEW q \in net', VoteCall(o), VoteCall(q),
                 o.src = q.src, o.dst = q.dst
          PROVE  o = q
      <3>1. CASE o \in net /\ q \in net
        BY Zenon, <2>2, <3>1 DEF ElectionInv, CallsOfBallot
      <3>2. CASE o \in calls /\ q \in calls
        BY <1>12, <2>2, <3>2
      <3>3. CASE (o \in net /\ q \in calls) \/ (o \in calls /\ q \in net)
        BY Zenon, <1>5, <1>11, <2>2, <3>3
      <3> QED BY Zenon, <1>1, <3>1, <3>2, <3>3
    <2> QED BY Zenon, <2>1, <2>2 DEF CallsOfBallot
  <1>16. VotesGranted'
    <2>1. ASSUME NEW j \in Server, NEW v \in votes'[j][ballot'[j]]
          PROVE  <<v, j, ballot'[j]>> \in grants'
      <3>1. j # i
        BY <1>8, <2>1
      <3> QED BY SMTT(60), <1>1, <1>7, <2>1, <3>1 DEF ElectionInv, VotesGranted
    <2> QED BY Zenon, <2>1 DEF VotesGranted
  <1>17. LeaderQuorum'
    <2>1. \A j \in Server : state'[j] = "Leader" => j # i /\ state[j] = "Leader"
      BY Zenon, <1>7, <1>8
    <2> QED BY SMTT(60), <1>1, <1>7, <2>1 DEF ElectionInv, LeaderQuorum, N
  <1>18. NoDoubleGrant'
    BY <1>1 DEF ElectionInv, NoDoubleGrant
  <1> QED BY <1>13, <1>14, <1>15, <1>16, <1>17, <1>18 DEF ElectionInv

\* The vote that makes a majority: with those counted before, half of the peers
\* have voted for the new leader.
LEMMA BecomeLeaderStep ==
    ASSUME TypeOK, ElectionInv, NEW m \in net, BecomeLeader(m)
    PROVE  ElectionInv'
  <1> DEFINE i == m.src
             b == ballot[i]
             Q == votes[i][b] \cup {m.dst}
  <1>1. i \in Server /\ m.dst \in Server /\ m \in RVReply /\ m.live
    BY Zenon, CallTypes DEF TypeOK, BecomeLeader, RVReply
  <1>2. /\ state' = [state EXCEPT ![i] = "Leader"] /\ state[i] = "Candidate"
        /\ currentTerm' = currentTerm /\ votedFor' = votedFor /\ persisted' = persisted
        /\ votes' = votes /\ ballot' = ballot /\ grants' = grants /\ net' \subseteq net
        /\ m.type = "RVReply" /\ m.granted /\ Majority(i, m.ballot)
    BY Zenon DEF BecomeLeader
  <1>3. m.ballot = b /\ m.dst \notin votes[i][b] /\ <<m.dst, i, b>> \in grants
    <2>1. VoteCall(m) /\ BallotOf(m) = m.ballot
      BY Zenon, <1>1, <1>2 DEF VoteCall, BallotOf
    <2> QED BY Zenon, <1>2, <2>1 DEF ElectionInv, CallsOfBallot
  <1>4. votes[i][b] \in SUBSET Server /\ DOMAIN state = Server
    <2>1. votes[i] \in [Term -> SUBSET Server] /\ b \in Term /\ DOMAIN state = Server
      BY Zenon, <1>1 DEF TypeOK
    <2> QED BY <2>1
  <1>5. Q \in SUBSET Server /\ \A v \in Q : <<v, i, b>> \in grants
    BY Zenon, <1>1, <1>3, <1>4 DEF ElectionInv, VotesGranted
  <1>6. Cardinality(Q) = N \div 2
    <2>1. IsFiniteSet(votes[i][b])
      BY Zenon, <1>4, FS_Subset, ServerAssumption
    <2>2. Cardinality(Q) = Cardinality(votes[i][b]) + 1 /\ Cardinality(votes[i][b]) \in Nat
      BY Zenon, <1>3, <2>1, FS_AddElement, FS_CardinalityType
    <2>3. 1 + Cardinality(votes[i][b]) = N \div 2
      BY Zenon, <1>2, <1>3 DEF Majority
    <2> QED BY SMTT(60), <2>2, <2>3
  <1> HIDE DEF Q
  <1>7. LeaderQuorum'
    <2>1. ASSUME NEW j \in Server, state'[j] = "Leader"
          PROVE  \E R \in SUBSET Server :
                    Cardinality(R) = N \div 2 /\ \A v \in R : <<v, j, ballot'[j]>> \in grants'
      <3>1. CASE j = i
        BY Zenon, <1>2, <1>5, <1>6, <3>1
      <3>2. CASE j # i
        BY Zenon, <1>2, <1>4, <2>1, <3>2 DEF ElectionInv, LeaderQuorum
      <3> QED BY Zenon, <3>1, <3>2
    <2> QED BY Zenon, <2>1 DEF LeaderQuorum, N
  <1>8. OwnVotes'
    <2>1. \A j \in Server : state'[j] # "Follower" => state[j] # "Follower"
      BY Zenon, <1>2, <1>4
    <2> QED BY Zenon, <1>2, <2>1 DEF ElectionInv, OwnVotes
  <1>9. GrantsKept' /\ VotesGranted' /\ NoDoubleGrant'
    BY Zenon, <1>2 DEF ElectionInv, GrantsKept, VotesGranted, NoDoubleGrant
  <1>10. CallsOfBallot'
    BY <1>2, NoNewCalls DEF ElectionInv
  <1> QED BY <1>7, <1>8, <1>9, <1>10 DEF ElectionInv

\* A counted vote is of the last election, and is counted once.
LEMMA CountVoteStep ==
    ASSUME TypeOK, ElectionInv, NEW m \in net, CountVote(m)
    PROVE  ElectionInv'
  <1> DEFINE i == m.src
             b == ballot[i]
  <1>1. i \in Server /\ m.dst \in Server /\ m \in RVReply /\ m.live
    BY Zenon, CallTypes DEF TypeOK, CountVote, RVReply
  <1>2. /\ state' = state /\ currentTerm' = currentTerm /\ votedFor' = votedFor
        /\ persisted' = persisted /\ ballot' = ballot /\ grants' = grants /\ net' = net \ {m}
        /\ m.type = "RVReply" /\ m.granted
        /\ votes' = [votes EXCEPT ![i][m.ballot] = @ \cup {m.dst}]
    BY Zenon DEF CountVote, electionVars
  <1>3. VoteCall(m) /\ m.ballot = b /\ <<m.dst, i, b>> \in grants
    <2>1. VoteCall(m) /\ BallotOf(m) = m.ballot
      BY Zenon, <1>1, <1>2 DEF VoteCall, BallotOf
    <2> QED BY Zenon, <1>2, <2>1 DEF ElectionInv, CallsOfBallot
  <1>4. /\ votes \in [Server -> [Term -> SUBSET Server]] /\ ballot \in [Server -> Term]
        /\ votes[i] \in [Term -> SUBSET Server] /\ b \in Term
    BY Zenon, <1>1 DEF TypeOK
  <1>5. /\ \A j \in Server : j # i => votes'[j] = votes[j]
        /\ votes'[i][b] = votes[i][b] \cup {m.dst}
    BY Zenon, <1>1, <1>2, <1>3, <1>4
  <1>6. VotesGranted'
    <2>1. ASSUME NEW j \in Server, NEW v \in votes'[j][ballot[j]]
          PROVE  <<v, j, ballot[j]>> \in grants
      <3>1. CASE j = i
        BY Zenon, <1>3, <1>5, <2>1, <3>1 DEF ElectionInv, VotesGranted
      <3>2. CASE j # i
        BY Zenon, <1>5, <2>1, <3>2 DEF ElectionInv, VotesGranted
      <3> QED BY Zenon, <3>1, <3>2
    <2> QED BY Zenon, <1>2, <2>1 DEF VotesGranted
  <1>7. CallsOfBallot'
    <2>1. ASSUME NEW o \in net', VoteCall(o)
          PROVE  /\ BallotOf(o) = ballot[o.src]
                 /\ o.dst \notin votes'[o.src][ballot[o.src]]
                 /\ o.type = "RVReply" /\ o.granted => <<o.dst, o.src, o.ballot>> \in grants
      <3>1. /\ o \in net /\ o # m /\ o.src \in Server
            /\ BallotOf(o) = ballot[o.src]
            /\ o.dst \notin votes[o.src][ballot[o.src]]
            /\ o.type = "RVReply" /\ o.granted => <<o.dst, o.src, o.ballot>> \in grants
        BY Zenon, <1>2, <2>1, CallTypes DEF ElectionInv, CallsOfBallot, TypeOK
      <3>2. CASE o.src = i
        <4>1. o.dst # m.dst
          BY Zenon, <1>3, <2>1, <3>1, <3>2 DEF ElectionInv, CallsOfBallot
        <4> QED BY SMTT(60), <1>5, <3>1, <3>2, <4>1
      <3>3. CASE o.src # i
        BY Zenon, <1>5, <3>1, <3>3
      <3> QED BY Zenon, <3>2, <3>3
    <2>2. \A o, q \in net' :
              VoteCall(o) /\ VoteCall(q) /\ o.src = q.src /\ o.dst = q.dst => o = q
      BY Zenon, <1>2 DEF ElectionInv, CallsOfBallot
    <2> QED BY Zenon, <1>2, <2>1, <2>2 DEF CallsOfBallot
  <1>8. OwnVotes' /\ GrantsKept' /\ LeaderQuorum' /\ NoDoubleGrant'
    BY Zenon, <1>2 DEF ElectionInv, OwnVotes, GrantsKept, LeaderQuorum, NoDoubleGrant, N
  <1> QED BY <1>6, <1>7, <1>8 DEF ElectionInv

\* After a restart the peer waits for no vote, and it remembers its own.
LEMMA RestartStep ==
    ASSUME TypeOK, ElectionInv, NEW i \in Server, Restart(i)
    PROVE  ElectionInv'
  <1> DEFINE p == persisted[i]
             kept == {m \in net : ~ (m.dst = i /\ m.type \in {"RV", "AE", "IS"})
                        /\ ~ (m.src = i /\ m.type \in {"RVReply", "AEReply", "ISReply"})}
  <1>1. /\ state' = [state EXCEPT ![i] = "Follower"]
        /\ currentTerm' = [currentTerm EXCEPT ![i] = p.term]
        /\ votedFor' = [votedFor EXCEPT ![i] = p.votedFor]
        /\ votes' = [votes EXCEPT ![i] = [t \in Term |-> {}]]
        /\ persisted' = persisted /\ ballot' = ballot /\ grants' = grants
        /\ net' = {IF m.src = i THEN [m EXCEPT !.live = FALSE] ELSE m : m \in kept}
    BY DEF Restart
  <1>2. /\ DOMAIN currentTerm = Server /\ DOMAIN votedFor = Server /\ DOMAIN state = Server
        /\ votes \in [Server -> [Term -> SUBSET Server]] /\ ballot \in [Server -> Term]
    BY Zenon DEF TypeOK
  <1>3. \A j \in Server : j # i => /\ currentTerm'[j] = currentTerm[j] /\ state'[j] = state[j]
                                   /\ votedFor'[j] = votedFor[j] /\ votes'[j] = votes[j]
    BY <1>1, <1>2
  <1>4. /\ currentTerm'[i] = p.term /\ votedFor'[i] = p.votedFor /\ state'[i] = "Follower"
        /\ votes'[i][ballot[i]] = {}
    BY <1>1, <1>2
  <1>5. OwnVotes'
    BY <1>1, <1>3, <1>4 DEF ElectionInv, OwnVotes
  <1>6. GrantsKept'
    <2>1. ASSUME NEW g \in grants
          PROVE  /\ g[3] <= currentTerm'[g[1]]
                 /\ g[3] = currentTerm'[g[1]] => votedFor'[g[1]] # None
      <3>1. CASE g[1] = i
        BY Zenon, <1>4, <3>1 DEF ElectionInv, GrantsKept
      <3>2. CASE g[1] # i
        BY Zenon, <1>3, <3>2, GrantTypes DEF ElectionInv, GrantsKept
      <3> QED BY Zenon, <3>1, <3>2
    <2> QED BY <1>1, <2>1 DEF ElectionInv, GrantsKept
  <1>7. \A o \in net' : VoteCall(o) => o \in net /\ o.src # i /\ o.src \in Server
    <2>1. ASSUME NEW m \in kept, NEW o,
                 o = IF m.src = i THEN [m EXCEPT !.live = FALSE] ELSE m, VoteCall(o)
          PROVE  o \in net /\ o.src # i /\ o.src \in Server
      <3>1. CASE m.src = i
        <4>1. m \in Message /\ "live" \in DOMAIN m
          BY ZenonT(60)
             DEF TypeOK, Message, RVRequest, AERequest, ISRequest, RVReply, AEReply, ISReply
        <4>2. o.live = FALSE
          BY <2>1, <3>1, <4>1
        <4> QED BY <2>1, <4>2 DEF VoteCall
      <3>2. CASE m.src # i
        BY Zenon, <2>1, <3>2, CallTypes DEF TypeOK
      <3> QED BY Zenon, <3>1, <3>2
    <2> QED BY <1>1, <2>1
  <1>8. CallsOfBallot'
    <2>1. ASSUME NEW o \in net', VoteCall(o)
          PROVE  /\ BallotOf(o) = ballot'[o.src]
                 /\ o.dst \notin votes'[o.src][ballot'[o.src]]
                 /\ o.type = "RVReply" /\ o.granted => <<o.dst, o.src, o.ballot>> \in grants'
      BY <1>1, <1>3, <1>7, <2>1 DEF ElectionInv, CallsOfBallot
    <2>2. \A o, q \in net' :
              VoteCall(o) /\ VoteCall(q) /\ o.src = q.src /\ o.dst = q.dst => o = q
      BY Zenon, <1>7 DEF ElectionInv, CallsOfBallot
    <2> QED BY Zenon, <2>1, <2>2 DEF CallsOfBallot
  <1>9. VotesGranted'
    <2>1. ASSUME NEW j \in Server, NEW v \in votes'[j][ballot[j]]
          PROVE  <<v, j, ballot[j]>> \in grants
      <3>1. j # i
        BY Zenon, <1>4, <2>1
      <3> QED BY Zenon, <1>3, <2>1, <3>1 DEF ElectionInv, VotesGranted
    <2> QED BY <1>1, <2>1 DEF VotesGranted
  <1>10. LeaderQuorum'
    <2>1. \A j \in Server : state'[j] = "Leader" => state[j] = "Leader"
      BY Zenon, <1>3, <1>4
    <2> QED BY <1>1, <2>1 DEF ElectionInv, LeaderQuorum, N
  <1>11. NoDoubleGrant'
    BY <1>1 DEF ElectionInv, NoDoubleGrant
  <1> QED BY Zenon, <1>5, <1>6, <1>8, <1>9, <1>10, <1>11 DEF ElectionInv
-----------------------------------------------------------------------------

\* The election invariant holds in the state Make leaves.
LEMMA InitElection == Init => ElectionInv
  <1> SUFFICES ASSUME Init PROVE ElectionInv
    OBVIOUS
  <1>1. OwnVotes /\ LeaderQuorum
    BY Zenon DEF Init, OwnVotes, LeaderQuorum
  <1>2. GrantsKept /\ NoDoubleGrant /\ CallsOfBallot
    BY Zenon DEF Init, GrantsKept, NoDoubleGrant, CallsOfBallot
  <1>3. VotesGranted
    <2>1. \A i \in Server : votes[i][ballot[i]] = {}
      BY Zenon, TermType DEF Init
    <2> QED BY Zenon, <2>1 DEF VotesGranted
  <1> QED BY <1>1, <1>2, <1>3 DEF ElectionInv

\* The actions that leave the election variables alone.
LEMMA OtherStep ==
    ASSUME TypeOK, ElectionInv,
           \/ \E i \in Server :
                 \/ \E n \in Server : ConsistencyCheck(i, n)
                 \/ \E c \in Command : Start(i, c)
                 \/ \E k \in 1..MaxIndex : NewSnapShot(i, k)
                 \/ TakeBatch(i)
           \/ \E m \in net :
                 \/ IgnoreVote(m) \/ AppendStale(m) \/ AppendAccepted(m) \/ AppendPanic(m)
                 \/ BackOff(m) \/ IgnoreReply(m) \/ InstallIgnored(m) \/ InstallSnapshot(m)
                 \/ SnapshotAccepted(m) \/ Drop(m)
    PROVE  ElectionInv'
  <1> DEFINE Other == /\ UNCHANGED electionVars
                      /\ persisted' = persisted \/ \E i \in Server : Persist(i)
                      /\ ballot' = ballot /\ grants' = grants /\ votes' = votes
                      /\ \A m \in net' : VoteCall(m) => m \in net
  <1>1. ASSUME NEW i \in Server,
               \/ \E n \in Server : ConsistencyCheck(i, n)
               \/ \E c \in Command : Start(i, c)
               \/ \E k \in 1..MaxIndex : NewSnapShot(i, k)
               \/ TakeBatch(i)
        PROVE  Other
    <2>1. ASSUME NEW n \in Server, ConsistencyCheck(i, n)
          PROVE  Other
      <3> DEFINE call == IF nextIndex[i][n] - 1 < snapshotIndex[i]
                         THEN SnapshotCall(i, n) ELSE AppendCall(i, n)
      <3>1. net' = net \cup {call}
        BY Zenon, <2>1 DEF ConsistencyCheck
      <3>2. UNCHANGED electionVars /\ persisted' = persisted /\ UNCHANGED voteVars
        BY Zenon, <2>1 DEF ConsistencyCheck
      <3>3. SnapshotCall(i, n).type = "IS" /\ AppendCall(i, n).type = "AE"
        BY DEF SnapshotCall, AppendCall
      <3>4. ~ VoteCall(call)
        BY <3>3 DEF VoteCall
      <3> HIDE DEF call
      <3>5. \A m \in net' : VoteCall(m) => m \in net
        BY Zenon, <3>1, <3>4
      <3>6. ballot' = ballot /\ grants' = grants /\ votes' = votes
        BY Zenon, <3>2 DEF voteVars
      <3> QED BY Zenon, <3>2, <3>5, <3>6
    <2>2. ASSUME NEW c \in Command, Start(i, c)
          PROVE  Other
      BY Zenon, <2>2 DEF Start, AppendCommand, voteVars
    <2>3. ASSUME NEW k \in 1..MaxIndex, NewSnapShot(i, k)
          PROVE  Other
      BY Zenon, <2>3 DEF NewSnapShot, voteVars
    <2>4. CASE TakeBatch(i)
      BY Zenon, <2>4 DEF TakeBatch, voteVars
    <2> QED BY Zenon, <1>1, <2>1, <2>2, <2>3, <2>4
  <1>2. ASSUME NEW m \in net,
               \/ IgnoreVote(m) \/ AppendStale(m) \/ AppendAccepted(m) \/ AppendPanic(m)
               \/ BackOff(m) \/ IgnoreReply(m) \/ InstallIgnored(m) \/ InstallSnapshot(m)
               \/ SnapshotAccepted(m) \/ Drop(m)
        PROVE  Other
    <2>0. m.dst \in Server
      BY Zenon, CallTypes DEF TypeOK
    <2>1. CASE IgnoreVote(m) \/ IgnoreReply(m) \/ Drop(m)
      BY Zenon, <2>1 DEF IgnoreVote, IgnoreReply, Drop, voteVars
    <2>2. CASE AppendStale(m)
      BY SMTT(60), <2>2 DEF AppendStale, Answer, AppendReply, VoteCall, voteVars
    <2>3. CASE AppendAccepted(m) \/ AppendPanic(m)
      BY Zenon, <2>3 DEF AppendAccepted, AppendPanic, voteVars
    <2>4. CASE BackOff(m)
      BY SMTT(60), <2>4 DEF BackOff, SnapshotCall, VoteCall, voteVars
    <2>5. CASE InstallIgnored(m)
      BY SMTT(60), <2>5 DEF InstallIgnored, Answer, SnapshotReply, VoteCall, voteVars
    <2>6. CASE InstallSnapshot(m)
      <3>1. Persist(m.dst) /\ UNCHANGED electionVars /\ Answer(m, SnapshotReply(m))
        BY Zenon, <2>6 DEF InstallSnapshot
      <3>2. ballot' = ballot /\ grants' = grants /\ votes' = votes
        BY Zenon, <2>6 DEF InstallSnapshot, voteVars
      <3>3. \A o \in net' : VoteCall(o) => o \in net
        BY SMTT(60), <3>1 DEF Answer, SnapshotReply, VoteCall
      <3> QED BY Zenon, <2>0, <3>1, <3>2, <3>3
    <2>7. CASE SnapshotAccepted(m)
      BY Zenon, <2>7 DEF SnapshotAccepted, voteVars
    <2> QED BY Zenon, <1>2, <2>1, <2>2, <2>3, <2>4, <2>5, <2>6, <2>7
  <1>3. Other
    BY Zenon, <1>1, <1>2
  <1> QED BY <1>3, SameElection

\* Every step keeps the election invariant, if calls end in time.
LEMMA ElectionStep ==
    ASSUME Late = {}, TypeOK, TypeOK', ElectionInv, [Next]_vars
    PROVE  ElectionInv'
  <1>1. ASSUME NEW i \in Server, Local(i)
        PROVE  ElectionInv'
    <2>1. CASE CanvassVotes(i)
      BY <2>1, CanvassVotesStep
    <2>2. CASE Restart(i)
      BY <2>2, RestartStep
    <2> QED BY Zenon, <1>1, <2>1, <2>2, OtherStep DEF Local
  <1>2. ASSUME NEW m \in net, OnCall(m)
        PROVE  ElectionInv'
    <2>1. CASE RequestVote(m)
      BY <2>1, RequestVoteStep
    <2>2. CASE BecomeLeader(m)
      BY <2>2, BecomeLeaderStep
    <2>3. CASE CountVote(m)
      BY <2>3, CountVoteStep
    <2>4. CASE StepDownOnVote(m) \/ StepDownOnAppend(m) \/ StepDownOnSnapshot(m)
      BY <2>4, StepDown
    <2>5. CASE AppendPast(m) \/ AppendMatch(m) \/ AppendMismatch(m)
      BY <2>5, AcceptStep
    <2> QED BY Zenon, <1>2, <2>1, <2>2, <2>3, <2>4, <2>5, OtherStep DEF OnCall
  <1>3. CASE UNCHANGED vars
    BY Zenon, <1>3 DEF ElectionInv, OwnVotes, GrantsKept, CallsOfBallot, VotesGranted, LeaderQuorum,
                NoDoubleGrant, N, vars, electionVars, voteVars
  <1> QED BY <1>1, <1>2, <1>3 DEF Next

\* Two sets of half of the peers and a leader each have a peer in common.
LEMMA QuorumsMeet ==
    ASSUME NEW P \in SUBSET Server, NEW Q \in SUBSET Server,
           NEW i \in Server, NEW j \in Server, i \notin P, j \notin Q,
           Cardinality(P) = N \div 2, Cardinality(Q) = N \div 2
    PROVE  (P \cup {i}) \cap (Q \cup {j}) # {}
  <1>1. IsFiniteSet(Server) /\ N \in Nat
    BY ServerAssumption, FS_CardinalityType DEF N
  <1>2. IsFiniteSet(P) /\ IsFiniteSet(Q)
    BY <1>1, FS_Subset
  <1>3. /\ Cardinality(P \cup {i}) = (N \div 2) + 1
        /\ Cardinality(Q \cup {j}) = (N \div 2) + 1
    BY Zenon, <1>2, FS_AddElement
  <1>4. ((N \div 2) + 1) + ((N \div 2) + 1) > N
    BY <1>1
  <1>5. P \cup {i} \subseteq Server /\ Q \cup {j} \subseteq Server
    OBVIOUS
  <1> QED BY Zenon, <1>1, <1>3, <1>4, <1>5, FS_MajoritiesIntersect DEF N

\* The election invariant implies that leaders come from different elections: their
\* majorities share a voter, and it has voted once.
LEMMA LeadersDiffer == TypeOK /\ ElectionInv => BallotSafety
  <1> SUFFICES ASSUME TypeOK, ElectionInv, NEW i \in Server, NEW j \in Server,
                      state[i] = "Leader", state[j] = "Leader", ballot[i] = ballot[j], i # j
               PROVE  FALSE
    BY Zenon DEF BallotSafety
  <1> DEFINE b == ballot[i]
  <1>1. b \in Nat
    BY Zenon, TermType DEF TypeOK
  <1>2. PICK P \in SUBSET Server :
            Cardinality(P) = N \div 2 /\ \A v \in P : <<v, i, b>> \in grants
    BY Zenon DEF ElectionInv, LeaderQuorum
  <1>3. PICK Q \in SUBSET Server :
            Cardinality(Q) = N \div 2 /\ \A v \in Q : <<v, j, b>> \in grants
    BY Zenon DEF ElectionInv, LeaderQuorum
  <1> HIDE DEF b
  <1>4. \A g \in grants : g[1] \in {i, j} => g[3] # b
    BY SMTT(60), <1>1 DEF ElectionInv, OwnVotes, b
  <1>5. i \notin P /\ i \notin Q /\ j \notin P /\ j \notin Q
    BY Zenon, <1>2, <1>3, <1>4
  <1>6. PICK v \in Server : v \in P \cup {i} /\ v \in Q \cup {j}
    BY SMTT(60), <1>2, <1>3, <1>5, QuorumsMeet
  <1>7. v \in P /\ v \in Q
    BY Zenon, <1>5, <1>6
  <1>8. <<v, i, b>> \in grants /\ <<v, j, b>> \in grants
    BY Zenon, <1>2, <1>3, <1>7
  <1> QED BY Zenon, <1>8 DEF ElectionInv, NoDoubleGrant
-----------------------------------------------------------------------------

\* For every number of peers, with crashes, restarts and lost calls: if calls end
\* before their caller's timers fire again, the election invariant holds.
THEOREM ElectionSound == Late = {} => (Spec => []ElectionInv)
  <1> SUFFICES ASSUME Late = {} PROVE Spec => []ElectionInv
    OBVIOUS
  <1>1. Init => ElectionInv
    BY InitElection
  <1>2. TypeOK /\ TypeOK' /\ ElectionInv /\ [Next]_vars => ElectionInv'
    BY ElectionStep
  <1> QED BY <1>1, <1>2, TypeCorrect, PTL DEF Spec

\* RequestVote: whatever crashes in between, no peer votes twice in a term.
THEOREM NoVoteTwice == Late = {} => (Spec => []NoDoubleGrant)
  <1> SUFFICES ASSUME Late = {} PROVE Spec => []NoDoubleGrant
    OBVIOUS
  <1>1. ElectionInv => NoDoubleGrant
    BY DEF ElectionInv
  <1>2. Spec => []ElectionInv
    BY ElectionSound
  <1> QED BY <1>1, <1>2, PTL

\* canvassVotes: two peers that lead at the same time won different elections.
THEOREM OneLeaderPerElection == Late = {} => (Spec => []BallotSafety)
  <1> SUFFICES ASSUME Late = {} PROVE Spec => []BallotSafety
    OBVIOUS
  <1>1. TypeOK /\ ElectionInv => BallotSafety
    BY LeadersDiffer
  <1>2. Spec => []ElectionInv
    BY ElectionSound
  <1> QED BY <1>1, <1>2, TypeCorrect, PTL

\* A commit quorum is smaller than a vote quorum when the number of peers is even, and
\* still leaves too few peers out for a leader's voters.
LEMMA CommitMeetsVotes ==
    ASSUME TypeOK, ElectionInv, NEW i \in Server, NEW l \in Server, state[i] = "Leader",
           NEW v \in Nat, IsTarget(matchIndex[l], v)
    PROVE  \E n \in Server : /\ matchIndex[l][n] >= v
                             /\ (n = i \/ <<n, i, ballot[i]>> \in grants)
  <1> DEFINE Behind == {n \in Server : matchIndex[l][n] < v}
  <1>1. IsFiniteSet(Server) /\ N \in Nat
    BY ServerAssumption, FS_CardinalityType DEF N
  <1>2. PICK Q \in SUBSET Server :
            Cardinality(Q) = N \div 2 /\ \A n \in Q : <<n, i, ballot[i]>> \in grants
    BY Zenon DEF ElectionInv, LeaderQuorum
  <1>3. i \notin Q
    <2> SUFFICES ASSUME i \in Q PROVE FALSE
      OBVIOUS
    <2>1. <<i, i, ballot[i]>> \in grants /\ ballot[i] \in Nat
      BY Zenon, <1>2, TermType DEF TypeOK
    <2>2. \A g \in grants : g[1] = i => g[3] < ballot[i]
      BY Zenon DEF ElectionInv, OwnVotes
    <2> QED BY SMTT(60), <2>1, <2>2
  <1>4. IsFiniteSet(Q) /\ IsFiniteSet(Behind)
    <2>1. Behind \subseteq Server
      OBVIOUS
    <2> QED BY Zenon, <1>1, <2>1, FS_Subset
  <1>5. Cardinality(Q \cup {i}) = (N \div 2) + 1
    BY Zenon, <1>2, <1>3, <1>4, FS_AddElement
  <1>6. Cardinality(Behind) <= N \div 2
    BY Zenon DEF IsTarget
  <1>7. ~ (Q \cup {i} \subseteq Behind)
    <2> SUFFICES ASSUME Q \cup {i} \subseteq Behind PROVE FALSE
      OBVIOUS
    <2> HIDE DEF Behind
    <2>1. Cardinality(Q \cup {i}) <= Cardinality(Behind)
      BY Zenon, <1>4, FS_Subset
    <2>2. Cardinality(Behind) \in Nat
      BY Zenon, <1>4, FS_CardinalityType
    <2> QED BY SMTT(60), <1>1, <1>5, <1>6, <2>1, <2>2
  <1>8. PICK n \in Server : n \in Q \cup {i} /\ n \notin Behind
    BY Zenon, <1>7
  <1>9. matchIndex[l][n] >= v
    <2>1. \A p \in Server : matchIndex[l][p] \in Nat
      BY Zenon DEF TypeOK
    <2>2. ~ (matchIndex[l][n] < v)
      BY Zenon, <1>8
    <2> QED BY SMTT(60), <2>1, <2>2
  <1> QED BY Zenon, <1>2, <1>8, <1>9

\* updateCommitIndex and replyHandler: for every number of peers, odd or even, what a
\* leader may count as committed is on a voter of any other leader.
THEOREM CommitsMeetElections == Late = {} => (Spec => []CommitMeetsElection)
  <1> SUFFICES ASSUME Late = {} PROVE Spec => []CommitMeetsElection
    OBVIOUS
  <1>1. TypeOK /\ ElectionInv => CommitMeetsElection
    <2> SUFFICES ASSUME TypeOK, ElectionInv, NEW i \in Server, NEW l \in Server,
                        NEW v \in {matchIndex[l][n] : n \in Server},
                        state[i] = "Leader", state[l] = "Leader", IsTarget(matchIndex[l], v)
                 PROVE  \E n \in Server : /\ matchIndex[l][n] >= v
                                          /\ (n = i \/ <<n, i, ballot[i]>> \in grants)
      BY Zenon DEF CommitMeetsElection
    <2>1. \A n \in Server : matchIndex[l][n] \in Nat
      BY Zenon DEF TypeOK
    <2>2. v \in Nat
      BY SMTT(60), <2>1
    <2> QED BY Zenon, <2>2, CommitMeetsVotes
  <1>2. Spec => []ElectionInv
    BY ElectionSound
  <1> QED BY <1>1, <1>2, TypeCorrect, PTL
=============================================================================
