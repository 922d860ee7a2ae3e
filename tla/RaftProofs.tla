----------------------------- MODULE RaftProofs -----------------------------
(***************************************************************************)
(* The type and index invariants of Raft, for every number of peers, every *)
(* bound and any lateness of calls.                                        *)
(***************************************************************************)
EXTENDS Raft, SequenceTheorems, TLAPS

USE DEF MinOf, MaxOf

\* What a call in flight looks like, by its type.
LEMMA CallTypes ==
    ASSUME NEW m \in Message
    PROVE  /\ m.src \in Server /\ m.dst \in Server
           /\ m.live \in BOOLEAN /\ m.term \in Term
           /\ m.type = "RV" => m \in RVRequest
           /\ m.type = "AE" => m \in AERequest
           /\ m.type = "IS" => m \in ISRequest
           /\ m.type = "RVReply" => m \in RVReply
           /\ m.type = "AEReply" => m \in AEReply
           /\ m.type = "ISReply" => m \in ISReply
           /\ m.type \in {"RV", "AE", "IS", "RVReply", "AEReply", "ISReply"}
  BY Zenon DEF Message, RVRequest, AERequest, ISRequest, RVReply, AEReply, ISReply

\* Terms are natural numbers, 0 among them.
LEMMA TermType == Term \subseteq Nat /\ 0 \in Term
  BY BoundAssumption DEF Term

\* The log of a peer: its last index is a natural number, and every index from
\* the snapshot to the last one has an entry.
LEMMA LogTypes ==
    ASSUME TypeOK, NEW i \in Server
    PROVE  /\ logs[i] \in Seq(Entry)
           /\ Len(logs[i]) \in Nat /\ Len(logs[i]) >= 1
           /\ LastIndex(i) \in Nat /\ LastIndex(i) >= snapshotIndex[i]
           /\ LastTerm(i) \in Term
           /\ \A k \in 1..Len(logs[i]) : logs[i][k] \in Entry
           /\ \A k \in snapshotIndex[i]..LastIndex(i) :
                 At(i, k) \in Entry /\ At(i, k).term \in Term
  <1>1. /\ logs[i] \in Seq(Entry) /\ logs[i] # <<>> /\ snapshotIndex[i] \in Nat
    BY DEF TypeOK
  <1>2. Len(logs[i]) \in Nat /\ Len(logs[i]) >= 1
    BY <1>1, EmptySeq, LenProperties
  <1>3. \A k \in 1..Len(logs[i]) : logs[i][k] \in Entry
    BY <1>1, ElementOfSeq
  <1>4. \A e \in Entry : e.term \in Term
    BY DEF Entry
  <1> QED BY SMTT(60), <1>1, <1>2, <1>3, <1>4 DEF LastIndex, LastTerm, At

\* persist keeps the type of what is saved.
LEMMA PersistType ==
    ASSUME TypeOK, NEW i \in Server, Persist(i),
           currentTerm'[i] \in Term, votedFor'[i] \in Server \cup {None},
           logs'[i] \in Seq(Entry) \ {<<>>}, snapshotIndex'[i] \in Nat,
           snapshotTerm'[i] \in Term
    PROVE  persisted' \in [Server -> SavedState]
  BY DEF TypeOK, Persist, StateData, SavedState

\* The answer to a call keeps the calls in flight well formed.
LEMMA AnswerType ==
    ASSUME TypeOK, NEW m \in net, NEW r \in Message, Answer(m, r)
    PROVE  net' \subseteq Message
  BY DEF TypeOK, Answer

-----------------------------------------------------------------------------
(* One lemma per group of actions.                                         *)

\* The state Make leaves is well typed.
LEMMA InitType == Init => TypeOK
  <1> SUFFICES ASSUME Init PROVE TypeOK
    OBVIOUS
  <1>1. <<[term |-> 0, cmd |-> None]>> \in Seq(Entry) \ {<<>>}
    BY TermType DEF Entry
  <1> QED BY Zenon, <1>1, TermType DEF Init, TypeOK, StateData, SavedState

\* A lost call leaves the state well typed.
LEMMA DropType ==
    ASSUME TypeOK, NEW m \in net, Drop(m)
    PROVE  TypeOK'
  BY Zenon DEF TypeOK, Drop, Running, electionVars, logVars, leaderVars, voteVars, applyVars

\* So does the start of an election (canvassVotes).
LEMMA CanvassVotesType ==
    ASSUME TypeOK, NEW i \in Server, CanvassVotes(i)
    PROVE  TypeOK'
  <1> DEFINE t == currentTerm[i] + 1
             calls == [type : {"RV"}, src : {i}, dst : Server \ {i}, live : {TRUE},
                       term : {t}, lastLogIndex : {LastIndex(i)}, lastLogTerm : {LastTerm(i)}]
  <1>1. t \in Term
    BY SMTT(60), BoundAssumption DEF TypeOK, CanvassVotes, Term
  <1>2. calls \subseteq RVRequest
    BY ZenonT(60), <1>1, LogTypes DEF RVRequest
  <1>3. net' \subseteq Message
    BY Zenon, <1>2 DEF CanvassVotes, TypeOK, Message
  <1>4. votes' \in [Server -> [Term -> SUBSET Server]]
    BY SMTT(60) DEF CanvassVotes, TypeOK
  <1>5. /\ currentTerm' \in [Server -> Term] /\ ballot' \in [Server -> Term]
        /\ votedFor' \in [Server -> Server \cup {None}]
        /\ state' \in [Server -> {"Follower", "Candidate", "Leader"}]
    BY <1>1 DEF CanvassVotes, TypeOK
  <1> QED BY Zenon, <1>3, <1>4, <1>5
          DEF TypeOK, CanvassVotes, Running, logVars, leaderVars, applyVars

\* So does the handler RequestVote.
LEMMA RequestVoteType ==
    ASSUME TypeOK, NEW m \in net, RequestVote(m)
    PROVE  TypeOK'
  <1> DEFINE i == m.dst
             grant == VoteFree(i, m) /\ UpToDate(i, m)
             reply == [type |-> "RVReply", src |-> m.src, dst |-> i, live |-> TRUE,
                       ballot |-> m.term,
                       term |-> IF m.term < currentTerm[i] THEN currentTerm[i] ELSE 0,
                       granted |-> grant]
  <1>1. m \in RVRequest /\ i \in Server /\ m.src \in Server /\ m.term \in Term
    BY Zenon, CallTypes DEF TypeOK, RequestVote
  <1>2. grant \in BOOLEAN
    BY DEF VoteFree, UpToDate
  <1>3. reply \in Message
    BY Zenon, <1>1, <1>2, TermType DEF TypeOK, RVReply, Message
  <1>4. net' \subseteq Message
    BY <1>3, AnswerType DEF RequestVote
  <1>5. /\ currentTerm' \in [Server -> Term]
        /\ state' \in [Server -> {"Follower", "Candidate", "Leader"}]
        /\ votedFor' \in [Server -> Server \cup {None}]
        /\ grants' \subseteq Server \X Server \X Term
    <2>1. currentTerm' \in [Server -> Term]
      BY Zenon, <1>1 DEF RequestVote, TypeOK
    <2>2. state' \in [Server -> {"Follower", "Candidate", "Leader"}]
      BY Zenon, <1>1 DEF RequestVote, TypeOK
    <2>3. votedFor' \in [Server -> Server \cup {None}]
      BY Zenon, <1>1 DEF RequestVote, TypeOK
    <2>4. <<m.dst, m.src, m.term>> \in Server \X Server \X Term
      BY <1>1
    <2>5. grants' \subseteq grants \cup {<<m.dst, m.src, m.term>>}
      BY DEF RequestVote
    <2> QED BY Zenon, <2>1, <2>2, <2>3, <2>4, <2>5 DEF TypeOK
  <1>6. logs' = logs /\ snapshotIndex' = snapshotIndex /\ snapshotTerm' = snapshotTerm
    BY DEF RequestVote, logVars
  <1>7. persisted' \in [Server -> SavedState]
    BY Zenon, <1>1, <1>5, <1>6, PersistType DEF RequestVote, TypeOK
  <1> QED BY Zenon, <1>4, <1>5, <1>6, <1>7 DEF TypeOK, RequestVote, Running, leaderVars, applyVars

\* So does the reply handler of canvassVotes, in each of its branches.
LEMMA VoteReplyType ==
    ASSUME TypeOK, NEW m \in net,
           StepDownOnVote(m) \/ BecomeLeader(m) \/ CountVote(m) \/ IgnoreVote(m)
    PROVE  TypeOK'
  <1> DEFINE i == m.src
  <1>1. m \in RVReply /\ i \in Server /\ m.dst \in Server /\ m.term \in Term
    BY Zenon, CallTypes DEF TypeOK, StepDownOnVote, BecomeLeader, CountVote, IgnoreVote
  <1>2. CASE StepDownOnVote(m)
    <2>1. /\ currentTerm' \in [Server -> Term]
          /\ state' \in [Server -> {"Follower", "Candidate", "Leader"}]
          /\ votedFor' \in [Server -> Server \cup {None}]
      BY Zenon, <1>1, <1>2 DEF StepDownOnVote, TypeOK
    <2>2. logs' = logs /\ snapshotIndex' = snapshotIndex /\ snapshotTerm' = snapshotTerm
      BY <1>2 DEF StepDownOnVote, logVars
    <2>3. persisted' \in [Server -> SavedState]
      BY Zenon, <1>1, <1>2, <2>1, <2>2, PersistType DEF StepDownOnVote, TypeOK
    <2>4. net' \subseteq Message /\ anomaly' \in BOOLEAN
      BY Zenon, <1>2 DEF StepDownOnVote, TypeOK
    <2> QED BY Zenon, <1>2, <2>1, <2>2, <2>3, <2>4
            DEF TypeOK, StepDownOnVote, Running, leaderVars, applyVars
  <1>3. CASE BecomeLeader(m)
    <2>1. LastIndex(i) \in Nat
      BY <1>1, LogTypes
    <2>2. /\ matchIndex' \in [Server -> [Server -> Nat]]
          /\ nextIndex' \in [Server -> [Server -> Nat]]
      <3>1. /\ [n \in Server |-> IF n = i THEN LastIndex(i) ELSE 0] \in [Server -> Nat]
            /\ [n \in Server |-> LastIndex(i) + 1] \in [Server -> Nat]
        BY <2>1
      <3> QED BY Zenon, <1>1, <1>3, <3>1 DEF BecomeLeader, ResetOnElection, TypeOK
    <2>3. /\ state' \in [Server -> {"Follower", "Candidate", "Leader"}]
          /\ elected' \subseteq Term \X Server /\ anomaly' \in BOOLEAN
          /\ net' \subseteq Message
      <3>1. <<currentTerm[i], i>> \in Term \X Server
        BY <1>1 DEF TypeOK
      <3>2. elected' = elected \cup {<<currentTerm[i], i>>}
        BY <1>3 DEF BecomeLeader
      <3>3. state' \in [Server -> {"Follower", "Candidate", "Leader"}] /\ net' \subseteq Message
        BY Zenon, <1>1, <1>3 DEF BecomeLeader, TypeOK
      <3>4. anomaly' \in BOOLEAN
        BY Zenon, <1>3 DEF BecomeLeader
      <3> QED BY Zenon, <3>1, <3>2, <3>3, <3>4 DEF TypeOK
    <2> QED BY Zenon, <1>3, <2>2, <2>3 DEF TypeOK, BecomeLeader, Running, logVars, applyVars
  <1>4. CASE CountVote(m)
    <2>1. votes' \in [Server -> [Term -> SUBSET Server]]
      <3>1. m.ballot \in Term /\ votes[i] \in [Term -> SUBSET Server]
        BY <1>1 DEF TypeOK, RVReply
      <3>2. [votes[i] EXCEPT ![m.ballot] = @ \cup {m.dst}] \in [Term -> SUBSET Server]
        BY <1>1, <3>1
      <3> QED BY Zenon, <1>1, <1>4, <3>1, <3>2 DEF CountVote, TypeOK
    <2> QED BY Zenon, <1>4, <2>1 DEF TypeOK, CountVote, Running, electionVars, logVars, leaderVars,
                              applyVars
  <1>5. CASE IgnoreVote(m)
    BY <1>5, DropType DEF IgnoreVote
  <1> QED BY <1>2, <1>3, <1>4, <1>5

\* The calls of a leader are well formed.
LEMMA LeaderCallTypes ==
    ASSUME TypeOK, NEW i \in Server, NEW n \in Server
    PROVE  /\ SnapshotCall(i, n) \in Message
           /\ nextIndex[i][n] - 1 >= snapshotIndex[i] => AppendCall(i, n) \in Message
  <1>1. SnapshotCall(i, n) \in ISRequest
    BY DEF TypeOK, SnapshotCall, ISRequest
  <1>2. ASSUME nextIndex[i][n] - 1 >= snapshotIndex[i]
        PROVE  AppendCall(i, n) \in AERequest
    <2> DEFINE prev == IF nextIndex[i][n] - 1 < LastIndex(i)
                       THEN nextIndex[i][n] - 1 ELSE LastIndex(i)
               from == nextIndex[i][n] - snapshotIndex[i] + 1
    <2>1. /\ nextIndex[i][n] \in Nat /\ snapshotIndex[i] \in Nat /\ currentTerm[i] \in Term
          /\ commitIndex[i] \in Nat
      BY DEF TypeOK
    <2>2. prev \in snapshotIndex[i]..LastIndex(i) /\ prev \in Nat
      BY SMTT(60), <1>2, <2>1, LogTypes
    <2>3. At(i, prev).term \in Term
      BY <2>2, LogTypes
    <2>4. from \in Int /\ from >= 1
      BY <1>2, <2>1
    <2>5. \A k \in from..Len(logs[i]) : logs[i][k] \in Entry
      BY <2>4, LogTypes
    <2>6. SubSeq(logs[i], from, Len(logs[i])) \in Seq(Entry)
      BY <2>4, <2>5, LogTypes, SubSeqProperties
    <2> QED BY Zenon, <2>1, <2>2, <2>3, <2>6 DEF AppendCall, AERequest
  <1> QED BY <1>1, <1>2 DEF Message

\* So does a heartbeat (consistencyCheck, sendSnapshot).
LEMMA ConsistencyCheckType ==
    ASSUME TypeOK, NEW i \in Server, NEW n \in Server, ConsistencyCheck(i, n)
    PROVE  TypeOK'
  <1>1. snapshotIndex[i] \in Nat /\ nextIndex[i][n] \in Nat
    BY DEF TypeOK
  <1>2. net' \subseteq Message
    <2>1. CASE nextIndex[i][n] - 1 < snapshotIndex[i]
      BY Zenon, <2>1, LeaderCallTypes DEF ConsistencyCheck, TypeOK
    <2>2. CASE nextIndex[i][n] - 1 >= snapshotIndex[i]
      BY Zenon, <1>1, <2>2, LeaderCallTypes DEF ConsistencyCheck, TypeOK
    <2> QED BY <1>1, <2>1, <2>2
  <1> QED BY Zenon, <1>2 DEF TypeOK, ConsistencyCheck, Running, electionVars, logVars, leaderVars,
                      voteVars, applyVars

\* So does Start.
LEMMA StartType ==
    ASSUME TypeOK, NEW i \in Server, NEW c \in Command, Start(i, c)
    PROVE  TypeOK'
  <1>1. [term |-> currentTerm[i], cmd |-> c] \in Entry
    BY DEF TypeOK, Entry
  <1>2. Append(logs[i], [term |-> currentTerm[i], cmd |-> c]) \in Seq(Entry) \ {<<>>}
    BY SMTT(60), <1>1, LogTypes, AppendProperties
  <1>3. logs' \in [Server -> Seq(Entry) \ {<<>>}]
    BY Zenon, <1>2 DEF Start, AppendCommand, TypeOK
  <1>4. nextIndex[i] \in [Server -> Nat] /\ matchIndex[i] \in [Server -> Nat]
    BY DEF TypeOK
  <1>5. /\ [nextIndex[i] EXCEPT ![i] = LastIndex(i) + 2] \in [Server -> Nat]
        /\ [matchIndex[i] EXCEPT ![i] = LastIndex(i) + 1] \in [Server -> Nat]
    <2>1. LastIndex(i) + 2 \in Nat /\ LastIndex(i) + 1 \in Nat
      BY LogTypes
    <2> QED BY Zenon, <1>4, <2>1
  <1>6. nextIndex' \in [Server -> [Server -> Nat]] /\ matchIndex' \in [Server -> [Server -> Nat]]
    BY Zenon, <1>5 DEF Start, AppendCommand, TypeOK
  <1>7. /\ currentTerm' = currentTerm /\ votedFor' = votedFor /\ state' = state
        /\ snapshotIndex' = snapshotIndex /\ snapshotTerm' = snapshotTerm
    BY Zenon DEF Start, AppendCommand, electionVars
  <1>8. persisted' \in [Server -> SavedState]
    BY Zenon, <1>3, <1>7, PersistType DEF Start, AppendCommand, TypeOK
  <1> QED BY Zenon, <1>3, <1>6, <1>7, <1>8
             DEF TypeOK, Start, AppendCommand, Running, voteVars, applyVars

\* The start of a valid AppendEntries keeps the election variables' types.
LEMMA AcceptLeaderType ==
    ASSUME TypeOK, NEW m \in net, AcceptLeader(m.dst, m)
    PROVE  /\ m \in AERequest /\ m.src \in Server /\ m.dst \in Server
           /\ currentTerm' \in [Server -> Term]
           /\ state' \in [Server -> {"Follower", "Candidate", "Leader"}]
           /\ votedFor' \in [Server -> Server \cup {None}]
  <1>1. m \in AERequest /\ m.src \in Server /\ m.dst \in Server /\ m.term \in Term
    BY Zenon, CallTypes DEF TypeOK, AcceptLeader
  <1>2. currentTerm' \in [Server -> Term]
    BY <1>1 DEF TypeOK, AcceptLeader
  <1>3. state' \in [Server -> {"Follower", "Candidate", "Leader"}]
    BY Zenon, <1>1 DEF TypeOK, AcceptLeader
  <1>4. votedFor' \in [Server -> Server \cup {None}]
    BY <1>1 DEF TypeOK, AcceptLeader
  <1> QED BY <1>1, <1>2, <1>3, <1>4

\* The replies of AppendEntries are well typed.
LEMMA AppendRepliesType ==
    ASSUME NEW m, m.src \in Server, m.dst \in Server, NEW t \in Term, NEW ok \in BOOLEAN,
           NEW c \in Term, NEW f \in Nat
    PROVE  AppendReply(m, t, ok, c, f) \in Message
  BY DEF AppendReply, AEReply, Message

\* The two early returns of AppendEntries leave the state well typed.
LEMMA AppendRefusedType ==
    ASSUME TypeOK, NEW m \in net, AppendStale(m) \/ AppendPast(m)
    PROVE  TypeOK'
  <1>1. CASE AppendStale(m)
    <2>1. m.src \in Server /\ m.dst \in Server /\ currentTerm[m.dst] \in Term
      BY CallTypes DEF TypeOK
    <2>2. net' \subseteq Message
      BY Zenon, <1>1, <2>1, TermType, AppendRepliesType, AnswerType DEF AppendStale
    <2> QED BY Zenon, <1>1, <2>2
               DEF TypeOK, AppendStale, Running, electionVars, logVars, leaderVars,
                              voteVars, applyVars
  <1>2. CASE AppendPast(m)
    <2>1. /\ m \in AERequest /\ m.src \in Server /\ m.dst \in Server
          /\ currentTerm' \in [Server -> Term]
          /\ state' \in [Server -> {"Follower", "Candidate", "Leader"}]
          /\ votedFor' \in [Server -> Server \cup {None}]
      BY Zenon, <1>2, AcceptLeaderType DEF AppendPast
    <2>2. m.term \in Term /\ snapshotTerm[m.dst] \in Term /\ snapshotIndex[m.dst] \in Nat
      BY <2>1 DEF TypeOK, AERequest
    <2>3. net' \subseteq Message
      BY Zenon, <1>2, <2>1, <2>2, AppendRepliesType, AnswerType DEF AppendPast
    <2> QED BY Zenon, <1>2, <2>1, <2>3
               DEF TypeOK, AppendPast, Running, logVars, leaderVars, voteVars,
                                    applyVars
  <1> QED BY <1>1, <1>2

\* So does the branch of AppendEntries that takes the entries.
LEMMA AppendMatchType ==
    ASSUME TypeOK, NEW m \in net, AppendMatch(m)
    PROVE  TypeOK'
  <1> DEFINE i == m.dst
             upto == m.prevLogIndex - snapshotIndex[i] + 1
             new == NewLog(i, m)
  <1>1. /\ m \in AERequest /\ m.src \in Server /\ i \in Server
        /\ currentTerm' \in [Server -> Term]
        /\ state' \in [Server -> {"Follower", "Candidate", "Leader"}]
        /\ votedFor' \in [Server -> Server \cup {None}]
    BY Zenon, AcceptLeaderType DEF AppendMatch
  <1>2. /\ m.prevLogIndex \in Nat /\ m.entries \in Seq(Entry) /\ m.leaderCommit \in Nat
        /\ snapshotIndex[i] \in Nat /\ commitIndex[i] \in Nat
    BY <1>1 DEF AERequest, TypeOK
  <1>3. upto \in 1..Len(logs[i])
    <2>1. m.prevLogIndex >= snapshotIndex[i] /\ m.prevLogIndex <= LastIndex(i)
      BY Zenon DEF AppendMatch, PrevMatches
    <2>2. Len(logs[i]) \in Nat
      BY <1>1, LogTypes
    <2> QED BY SMTT(60), <1>2, <2>1, <2>2 DEF LastIndex
  <1>4. SubSeq(logs[i], 1, upto) \in Seq(Entry) /\ Len(SubSeq(logs[i], 1, upto)) = upto
    <2>1. \A k \in 1..upto : logs[i][k] \in Entry
      BY SMTT(60), <1>1, <1>3, LogTypes
    <2> QED BY SMTT(60), <1>1, <1>3, <2>1, LogTypes, SubSeqProperties
  <1>5. new \in Seq(Entry) /\ Len(new) \in Nat /\ Len(new) >= 1
    BY SMTT(60), <1>2, <1>3, <1>4, ConcatProperties, LenProperties DEF NewLog
  <1>6. new # <<>> /\ new[Len(new)] \in Entry
    BY <1>5, EmptySeq, ElementOfSeq
  <1>7. logs' \in [Server -> Seq(Entry) \ {<<>>}]
    BY Zenon, <1>1, <1>5, <1>6 DEF AppendMatch, TypeOK
  <1>8. NewCommit(i, m) \in Nat
    BY <1>2, <1>5 DEF NewCommit
  <1>9. commitIndex' \in [Server -> Nat]
    BY Zenon, <1>1, <1>8 DEF AppendMatch, TypeOK
  <1>10. snapshotIndex' = snapshotIndex /\ snapshotTerm' = snapshotTerm
    BY Zenon DEF AppendMatch
  <1>11. persisted' \in [Server -> SavedState]
    BY Zenon, <1>1, <1>7, <1>10, PersistType DEF AppendMatch, TypeOK
  <1>12. new[Len(new)].term \in Term /\ snapshotIndex[i] + Len(new) - 1 \in Nat
    BY SMTT(60), <1>2, <1>5, <1>6 DEF Entry
  <1>13. AppendReply(m, 0, TRUE, new[Len(new)].term, snapshotIndex[i] + Len(new) - 1) \in Message
    BY Zenon, <1>1, <1>12, TermType, AppendRepliesType
  <1>14. net' \subseteq Message
    BY Zenon, <1>13, AnswerType DEF AppendMatch
  <1> QED BY Zenon, <1>1, <1>7, <1>9, <1>10, <1>11, <1>14
          DEF TypeOK, AppendMatch, Running, leaderVars, voteVars, applyVars

\* So does the branch of AppendEntries that reports a conflict.
LEMMA AppendMismatchType ==
    ASSUME TypeOK, NEW m \in net, AppendMismatch(m)
    PROVE  TypeOK'
  <1> DEFINE i == m.dst
             t == IF m.prevLogIndex <= LastIndex(i) THEN At(i, m.prevLogIndex).term ELSE 0
  <1>1. /\ m \in AERequest /\ m.src \in Server /\ i \in Server
        /\ currentTerm' \in [Server -> Term]
        /\ state' \in [Server -> {"Follower", "Candidate", "Leader"}]
        /\ votedFor' \in [Server -> Server \cup {None}]
    BY Zenon, AcceptLeaderType DEF AppendMismatch
  <1>2. m.prevLogIndex \in Nat /\ snapshotIndex[i] \in Nat /\ m.prevLogIndex >= snapshotIndex[i]
    BY Zenon, <1>1 DEF AERequest, TypeOK, AppendMismatch
  <1>3. t \in Term
    BY SMTT(60), <1>1, <1>2, LogTypes, TermType
  <1>4. ConflictTerm(i, m) \in Term
    BY Zenon, <1>1, <1>3, LogTypes DEF ConflictTerm
  <1>5. ConflictIndex(i, m) \in Nat
    BY SMTT(60), <1>1, <1>2, LogTypes DEF ConflictIndex
  <1>6. net' \subseteq Message
    BY Zenon, <1>1, <1>4, <1>5, TermType, AppendRepliesType, AnswerType DEF AppendMismatch
  <1>7. logs' = logs /\ snapshotIndex' = snapshotIndex /\ snapshotTerm' = snapshotTerm
    BY Zenon DEF AppendMismatch, logVars
  <1>8. persisted' \in [Server -> SavedState]
    BY Zenon, <1>1, <1>7, PersistType DEF AppendMismatch, TypeOK
  <1> QED BY Zenon, <1>1, <1>6, <1>7, <1>8
          DEF TypeOK, AppendMismatch, Running, leaderVars, voteVars, applyVars

\* The entries a leader commits are in its log: the match indices are within it
\* and the commit index is not below the snapshot.
LEMMA AppendReplyType ==
    ASSUME TypeOK, SnapshotCommitted, MatchWithinLog, NEW m \in net,
           \/ AppendAccepted(m) \/ AppendPanic(m) \/ StepDownOnAppend(m)
           \/ BackOff(m) \/ IgnoreReply(m)
    PROVE  TypeOK'
  <1> DEFINE i == m.src
             n == m.dst
  <1>1. i \in Server /\ n \in Server
    BY CallTypes DEF TypeOK
  <1>2. m.type = "AEReply" => m.firstIndex \in Nat /\ m.conflictTerm \in Term /\ m.term \in Term
    BY Zenon, CallTypes DEF TypeOK, AEReply
  <1>3. nextIndex[i] \in [Server -> Nat] /\ matchIndex[i] \in [Server -> Nat]
    BY Zenon, <1>1 DEF TypeOK
  <1>4. CASE AppendAccepted(m)
    <2> DEFINE match == [matchIndex[i] EXCEPT ![n] = m.firstIndex]
               commit == UpdatedCommit(i, match)
    <2>1. m.firstIndex \in Nat /\ m.firstIndex <= LastIndex(i)
      BY Zenon, <1>2, <1>4 DEF AppendAccepted
    <2>2. match \in [Server -> Nat]
      BY Zenon, <1>1, <1>3, <2>1
    <2>3. /\ commit \in Nat /\ commitIndex[i] \in Nat
          /\ commit = commitIndex[i] \/ commit <= LastIndex(i)
      <3>1. commitIndex[i] \in Nat /\ LastIndex(i) \in Nat
        BY Zenon, <1>1, LogTypes DEF TypeOK
      <3>2. \A x \in Server : match[x] \in Nat /\ match[x] <= LastIndex(i)
        BY Zenon, <1>1, <1>3, <1>4, <2>1 DEF MatchWithinLog, AppendAccepted
      <3>3. \A v \in {match[x] : x \in Server} : v \in Nat /\ v <= LastIndex(i)
        BY Zenon, <3>2
      <3> HIDE DEF match
      <3> QED BY Zenon, <3>1, <3>3 DEF UpdatedCommit
    <2>4. matchIndex' \in [Server -> [Server -> Nat]]
      BY Zenon, <1>1, <1>4, <2>2 DEF AppendAccepted, TypeOK
    <2>5. [nextIndex[i] EXCEPT ![n] = m.firstIndex + 1] \in [Server -> Nat]
      BY SMTT(60), <1>1, <1>3, <2>1
    <2>6. nextIndex' \in [Server -> [Server -> Nat]]
      BY Zenon, <1>1, <1>4, <2>5 DEF AppendAccepted, TypeOK
    <2>7. commitIndex' \in [Server -> Nat]
      BY Zenon, <1>1, <1>4, <2>3 DEF AppendAccepted, TypeOK
    <2>8. ASSUME NEW k \in (commitIndex[i] + 1)..commit
          PROVE  [index |-> k, entry |-> At(i, k), at |-> currentTerm[i]]
                    \in [index : Nat, entry : Entry, at : Term]
      <3>1. snapshotIndex[i] \in Nat /\ snapshotIndex[i] <= commitIndex[i] /\ LastIndex(i) \in Nat
        BY Zenon, <1>1, LogTypes DEF TypeOK, SnapshotCommitted
      <3>2. k \in Nat /\ k \in snapshotIndex[i]..LastIndex(i)
        BY <2>3, <2>8, <3>1
      <3>3. At(i, k) \in Entry /\ currentTerm[i] \in Term
        BY Zenon, <1>1, <3>2, LogTypes DEF TypeOK
      <3> QED BY Zenon, <3>2, <3>3
    <2>9. committed' \subseteq [index : Nat, entry : Entry, at : Term]
      <3>1. committed' = committed \cup
               {[index |-> k, entry |-> At(i, k), at |-> currentTerm[i]] :
                   k \in (commitIndex[i] + 1)..commit}
        BY Zenon, <1>4 DEF AppendAccepted
      <3>2. committed \subseteq [index : Nat, entry : Entry, at : Term]
        BY DEF TypeOK
      <3> HIDE DEF commit
      <3> QED BY Zenon, <2>8, <3>1, <3>2
    <2> QED BY Zenon, <1>4, <2>4, <2>6, <2>7, <2>9
            DEF TypeOK, AppendAccepted, Running, electionVars, logVars, voteVars, applyVars
  <1>5. CASE AppendPanic(m)
    BY Zenon, <1>5
       DEF TypeOK, AppendPanic, Panic, electionVars, logVars, leaderVars, voteVars, applyVars
  <1>6. CASE StepDownOnAppend(m)
    <2>1. /\ state' \in [Server -> {"Follower", "Candidate", "Leader"}]
          /\ votedFor' \in [Server -> Server \cup {None}] /\ net' \subseteq Message
      BY Zenon, <1>1, <1>6 DEF StepDownOnAppend, TypeOK
    <2>2. /\ currentTerm' = currentTerm /\ logs' = logs
          /\ snapshotIndex' = snapshotIndex /\ snapshotTerm' = snapshotTerm
      BY Zenon, <1>6 DEF StepDownOnAppend, logVars
    <2>3. persisted' \in [Server -> SavedState]
      BY Zenon, <1>1, <1>6, <2>1, <2>2, PersistType DEF StepDownOnAppend, TypeOK
    <2> QED BY Zenon, <1>6, <2>1, <2>2, <2>3
            DEF TypeOK, StepDownOnAppend, Running, leaderVars, voteVars, applyVars
  <1>7. CASE BackOff(m)
    <2>1. /\ LastIndex(i) \in Nat /\ snapshotIndex[i] \in Nat /\ m.firstIndex \in Nat
          /\ nextIndex[i][n] \in Nat
      BY Zenon, <1>1, <1>2, <1>3, <1>7, LogTypes DEF TypeOK, BackOff
    <2>2. Hint(i, m) \in Nat
      BY SMTT(60), <2>1 DEF Hint
    <2>3. BackOffIndex(i, m) \in Nat
      BY SMTT(60), <2>1, <2>2 DEF BackOffIndex
    <2>4. \A x \in Nat : [nextIndex[i] EXCEPT ![n] = x] \in [Server -> Nat]
      BY <1>1, <1>3
    <2>5. nextIndex' \in [Server -> [Server -> Nat]]
      BY Zenon, <1>1, <1>7, <2>2, <2>3, <2>4 DEF BackOff, TypeOK
    <2>6. net' \subseteq Message
      BY Zenon, <1>1, <1>7, LeaderCallTypes DEF BackOff, TypeOK
    <2> QED BY Zenon, <1>7, <2>5, <2>6
            DEF TypeOK, BackOff, Running, electionVars, logVars, voteVars, applyVars
  <1>8. CASE IgnoreReply(m)
    BY Zenon, <1>8, DropType DEF IgnoreReply
  <1> QED BY <1>4, <1>5, <1>6, <1>7, <1>8

\* The log after InstallSnapshot: it holds the placeholder, and no entry is lost
\* at its end.
LEMMA SnapshotLog ==
    ASSUME TypeOK, NEW m \in net, InstallSnapshot(m)
    PROVE  LET i == m.dst
               new == LogAfterSnapshot(i, m)
           IN /\ m \in ISRequest /\ m.src \in Server /\ i \in Server
              /\ new \in Seq(Entry) \ {<<>>}
              /\ new[1].term = m.lastIncludedTerm
              /\ m.lastIncludedIndex + Len(new) - 1 >= LastIndex(i)
  <1> DEFINE i == m.dst
             first == <<[term |-> m.lastIncludedTerm, cmd |-> None]>>
             from == m.lastIncludedIndex - snapshotIndex[i] + 2
             tail == SubSeq(logs[i], from, Len(logs[i]))
  <1>1. /\ m \in ISRequest /\ m.src \in Server /\ i \in Server
    BY Zenon, CallTypes DEF TypeOK, InstallSnapshot
  <1>2. /\ m.lastIncludedIndex \in Nat /\ m.lastIncludedTerm \in Term
        /\ snapshotIndex[i] \in Nat /\ m.lastIncludedIndex > snapshotIndex[i]
    BY Zenon, <1>1 DEF ISRequest, TypeOK, InstallSnapshot
  <1>3. Len(logs[i]) \in Nat /\ \A k \in 1..Len(logs[i]) : logs[i][k] \in Entry
    BY Zenon, <1>1, LogTypes
  <1>4. first \in Seq(Entry) /\ Len(first) = 1 /\ first[1].term = m.lastIncludedTerm
    BY SMTT(60), <1>2 DEF Entry
  <1>5. from \in Int /\ \A k \in from..Len(logs[i]) : logs[i][k] \in Entry
    BY SMTT(60), <1>2, <1>3
  <1>6. /\ tail \in Seq(Entry)
        /\ Len(tail) = IF from <= Len(logs[i]) THEN Len(logs[i]) - from + 1 ELSE 0
    BY SMTT(60), <1>3, <1>5, SubSeqProperties
  <1>7. /\ first \o tail \in Seq(Entry)
        /\ Len(first \o tail) = 1 + Len(tail)
        /\ (first \o tail)[1] = first[1]
    <2> HIDE DEF first, tail
    <2>1. Len(tail) \in Nat
      BY <1>6, LenProperties
    <2>2. /\ first \o tail \in Seq(Entry)
          /\ Len(first \o tail) = Len(first) + Len(tail)
          /\ \A k \in 1..(Len(first) + Len(tail)) : (first \o tail)[k] =
                 IF k <= Len(first) THEN first[k] ELSE tail[k - Len(first)]
      BY Zenon, <1>4, <1>6, ConcatProperties
    <2>3. 1 \in 1..(Len(first) + Len(tail)) /\ 1 <= Len(first)
      BY <1>4, <2>1
    <2> QED BY <1>4, <2>2, <2>3
  <1>8. first \o tail = LogAfterSnapshot(i, m)
    BY DEF LogAfterSnapshot
  <1>9. LogAfterSnapshot(i, m) # <<>>
    <2>1. Len(tail) \in Nat
      BY <1>6, LenProperties
    <2> HIDE DEF first, tail
    <2> QED BY <1>7, <1>8, <2>1, EmptySeq
  <1>10. m.lastIncludedIndex + Len(LogAfterSnapshot(i, m)) - 1 >= LastIndex(i)
    <2> HIDE DEF first, tail
    <2>1. Len(LogAfterSnapshot(i, m)) = 1 + Len(tail)
      BY <1>7, <1>8
    <2>2. LastIndex(i) = snapshotIndex[i] + Len(logs[i]) - 1
      BY DEF LastIndex
    <2>3. CASE from <= Len(logs[i])
      <3>1. Len(LogAfterSnapshot(i, m)) = 1 + (Len(logs[i]) - from + 1)
        BY <1>6, <2>1, <2>3
      <3> QED BY SMTT(60), <1>2, <1>3, <2>2, <3>1
    <2>4. CASE ~ (from <= Len(logs[i]))
      <3>1. Len(LogAfterSnapshot(i, m)) = 1
        BY <1>6, <2>1, <2>4
      <3>2. Len(logs[i]) < from
        BY <1>3, <1>5, <2>4
      <3> QED BY SMTT(60), <1>2, <1>3, <2>2, <3>1, <3>2
    <2> QED BY <2>3, <2>4
  <1> HIDE DEF first, tail
  <1> QED BY Zenon, <1>1, <1>4, <1>7, <1>8, <1>9, <1>10

\* So do InstallSnapshot and the handler of its reply.
LEMMA InstallType ==
    ASSUME TypeOK, NEW m \in net,
           \/ InstallIgnored(m) \/ InstallSnapshot(m)
           \/ StepDownOnSnapshot(m) \/ SnapshotAccepted(m)
    PROVE  TypeOK'
  <1>1. m.src \in Server /\ m.dst \in Server /\ m.term \in Term
    BY Zenon, CallTypes DEF TypeOK
  <1>2. SnapshotReply(m) \in Message
    BY Zenon, <1>1 DEF TypeOK, SnapshotReply, ISReply, Message
  <1>3. CASE InstallIgnored(m)
    <2>1. net' \subseteq Message
      BY Zenon, <1>2, <1>3, AnswerType DEF InstallIgnored
    <2> QED BY Zenon, <1>3, <2>1
               DEF TypeOK, InstallIgnored, Running, electionVars, logVars, leaderVars,
                              voteVars, applyVars
  <1>4. CASE InstallSnapshot(m)
    <2> DEFINE i == m.dst
    <2>1. m \in ISRequest /\ LogAfterSnapshot(i, m) \in Seq(Entry) \ {<<>>}
      BY Zenon, <1>4, SnapshotLog
    <2>2. m.lastIncludedIndex \in Nat /\ m.lastIncludedTerm \in Term
      BY <2>1 DEF ISRequest
    <2>3. /\ logs' \in [Server -> Seq(Entry) \ {<<>>}]
          /\ snapshotIndex' \in [Server -> Nat] /\ snapshotTerm' \in [Server -> Term]
          /\ commitIndex' \in [Server -> Nat] /\ lastApplied' \in [Server -> Nat]
      BY Zenon, <1>1, <1>4, <2>1, <2>2 DEF InstallSnapshot, TypeOK
    <2>4. net' \subseteq Message
      BY Zenon, <1>2, <1>4, AnswerType DEF InstallSnapshot
    <2>5. currentTerm' = currentTerm /\ votedFor' = votedFor /\ state' = state
      BY Zenon, <1>4 DEF InstallSnapshot, electionVars
    <2>6. persisted' \in [Server -> SavedState]
      BY Zenon, <1>1, <1>4, <2>3, <2>5, PersistType DEF InstallSnapshot, TypeOK
    <2> QED BY Zenon, <1>4, <2>3, <2>4, <2>5, <2>6
            DEF TypeOK, InstallSnapshot, Running, leaderVars, voteVars
  <1>5. CASE StepDownOnSnapshot(m)
    <2>1. /\ currentTerm' \in [Server -> Term]
          /\ state' \in [Server -> {"Follower", "Candidate", "Leader"}]
          /\ votedFor' \in [Server -> Server \cup {None}] /\ net' \subseteq Message
      BY Zenon, <1>1, <1>5 DEF StepDownOnSnapshot, TypeOK
    <2> QED BY Zenon, <1>5, <2>1
               DEF TypeOK, StepDownOnSnapshot, Running, logVars, leaderVars, voteVars,
                              applyVars
  <1>6. CASE SnapshotAccepted(m)
    <2> DEFINE i == m.src
    <2>1. /\ nextIndex[i] \in [Server -> Nat] /\ matchIndex[i] \in [Server -> Nat]
          /\ snapshotIndex[i] \in Nat
      BY Zenon, <1>1 DEF TypeOK
    <2>2. /\ [matchIndex[i] EXCEPT ![m.dst] = snapshotIndex[i]] \in [Server -> Nat]
          /\ [nextIndex[i] EXCEPT ![m.dst] = snapshotIndex[i] + 1] \in [Server -> Nat]
      BY SMTT(60), <1>1, <2>1
    <2>3. /\ matchIndex' \in [Server -> [Server -> Nat]]
          /\ nextIndex' \in [Server -> [Server -> Nat]] /\ net' \subseteq Message
      BY Zenon, <1>1, <1>6, <2>2 DEF SnapshotAccepted, TypeOK
    <2> QED BY Zenon, <1>6, <2>3
               DEF TypeOK, SnapshotAccepted, Running, electionVars, logVars, voteVars,
                              applyVars
  <1> QED BY <1>3, <1>4, <1>5, <1>6

\* The log NewSnapShot keeps: it starts with the entry of the snapshot and ends
\* where it ended before.
LEMMA TrimmedLog ==
    ASSUME TypeOK, NEW i \in Server, NEW index \in Nat,
           index > snapshotIndex[i], index <= LastIndex(i)
    PROVE  LET tail == SubSeq(logs[i], index - snapshotIndex[i] + 1, Len(logs[i]))
           IN /\ tail \in Seq(Entry) \ {<<>>} /\ tail[1] \in Entry
              /\ index + Len(tail) - 1 = LastIndex(i)
  <1> DEFINE from == index - snapshotIndex[i] + 1
             tail == SubSeq(logs[i], from, Len(logs[i]))
  <1>1. /\ snapshotIndex[i] \in Nat /\ Len(logs[i]) \in Nat
        /\ LastIndex(i) = snapshotIndex[i] + Len(logs[i]) - 1
    BY Zenon, LogTypes DEF TypeOK, LastIndex
  <1>2. from \in 1..Len(logs[i])
    BY <1>1
  <1>3. \A k \in from..Len(logs[i]) : logs[i][k] \in Entry
    BY SMTT(60), <1>2, LogTypes
  <1>4. tail \in Seq(Entry) /\ Len(tail) = Len(logs[i]) - from + 1
    BY SMTT(60), <1>1, <1>2, <1>3, SubSeqProperties
  <1>5. tail # <<>> /\ tail[1] \in Entry
    <2> HIDE DEF tail
    <2>1. Len(tail) \in Nat /\ Len(tail) >= 1
      BY SMTT(60), <1>1, <1>2, <1>4
    <2> QED BY <1>4, <2>1, EmptySeq, ElementOfSeq
  <1> HIDE DEF tail
  <1>6. index + Len(tail) - 1 = LastIndex(i)
    <2>1. index + (Len(logs[i]) - from + 1) - 1 = LastIndex(i)
      <3>1. \A a, b, c \in Int : a + (b - (a - c + 1) + 1) - 1 = c + b - 1
        OBVIOUS
      <3>2. index \in Int /\ Len(logs[i]) \in Int /\ snapshotIndex[i] \in Int
        BY <1>1
      <3>3. index + (Len(logs[i]) - (index - snapshotIndex[i] + 1) + 1) - 1
                = snapshotIndex[i] + Len(logs[i]) - 1
        BY <3>1, <3>2, Zenon
      <3> QED BY <1>1, <3>3, Zenon
    <2> HIDE DEF from
    <2> QED BY <1>4, <2>1
  <1> QED BY Zenon, <1>4, <1>5, <1>6 DEF tail

\* So does NewSnapShot.
LEMMA NewSnapShotType ==
    ASSUME TypeOK, NEW i \in Server, NEW index \in Nat, NewSnapShot(i, index)
    PROVE  TypeOK'
  <1> DEFINE tail == SubSeq(logs[i], index - snapshotIndex[i] + 1, Len(logs[i]))
  <1>1. index > snapshotIndex[i]
    BY Zenon DEF NewSnapShot
  <1>2. CASE index <= LastIndex(i)
    <2>1. tail \in Seq(Entry) \ {<<>>} /\ tail[1] \in Entry
      BY Zenon, <1>1, <1>2, TrimmedLog
    <2>2. /\ logs' = [logs EXCEPT ![i] = tail]
          /\ snapshotIndex' = [snapshotIndex EXCEPT ![i] = index]
          /\ snapshotTerm' = [snapshotTerm EXCEPT ![i] = tail[1].term]
          /\ Running /\ UNCHANGED electionVars /\ Persist(i)
      BY Zenon, <1>2 DEF NewSnapShot
    <2>3. tail[1].term \in Term
      BY Zenon, <2>1 DEF Entry
    <2> HIDE DEF tail
    <2>4. /\ logs' \in [Server -> Seq(Entry) \ {<<>>}]
          /\ snapshotIndex' \in [Server -> Nat] /\ snapshotTerm' \in [Server -> Term]
      BY Zenon, <2>1, <2>2, <2>3 DEF TypeOK
    <2>5. currentTerm' = currentTerm /\ votedFor' = votedFor /\ state' = state
      BY <2>2 DEF electionVars
    <2>6. persisted' \in [Server -> SavedState]
      BY Zenon, <2>2, <2>4, <2>5, PersistType DEF TypeOK
    <2> QED BY Zenon, <2>2, <2>4, <2>5, <2>6
            DEF TypeOK, NewSnapShot, Running, leaderVars, voteVars, applyVars
  <1>3. CASE ~ (index <= LastIndex(i))
    <2>1. Panic /\ UNCHANGED <<electionVars, logVars, persisted>>
      BY Zenon, <1>3 DEF NewSnapShot
    <2> QED BY Zenon, <2>1
               DEF TypeOK, NewSnapShot, Panic, electionVars, logVars, leaderVars, voteVars,
                        applyVars
  <1> QED BY <1>2, <1>3

\* So does a round of applyLogEntryDaemon.
LEMMA TakeBatchType ==
    ASSUME TypeOK, NEW i \in Server, TakeBatch(i)
    PROVE  TypeOK'
  <1> DEFINE want == (lastApplied[i] + 1)..commitIndex[i]
             stale == {k \in want : k > LastIndex(i)}
             cmd(k, junk) == IF k \in stale THEN junk[k] ELSE At(i, k).cmd
  <1>1. /\ lastApplied[i] \in Nat /\ commitIndex[i] \in Nat /\ snapshotIndex[i] \in Nat
        /\ handed[i] \in Nat /\ LastIndex(i) \in Nat
    BY Zenon, LogTypes DEF TypeOK
  <1>2. CASE fault' = TRUE /\ UNCHANGED applyVars
    BY Zenon, <1>2 DEF TypeOK, TakeBatch, electionVars, logVars, leaderVars, voteVars, applyVars
  <1>3. CASE /\ Running
             /\ lastApplied[i] + 1 >= snapshotIndex[i]
             /\ lastApplied' = [lastApplied EXCEPT ![i] = commitIndex[i]]
             /\ handed' = [handed EXCEPT ![i] = MaxOf(@, commitIndex[i])]
             /\ \E junk \in [stale -> Command \cup {None}] :
                   applied' = applied \cup {<<k, cmd(k, junk)>> : k \in want}
    <2>1. PICK junk \in [stale -> Command \cup {None}] :
              applied' = applied \cup {<<k, cmd(k, junk)>> : k \in want}
      BY Zenon, <1>3
    <2>2. ASSUME NEW k \in want
          PROVE  <<k, cmd(k, junk)>> \in Nat \X (Command \cup {None})
      <3>1. k \in Nat /\ k >= snapshotIndex[i]
        BY SMTT(60), <1>1, <1>3
      <3>2. CASE k \in stale
        BY Zenon, <3>1, <3>2
      <3>3. CASE k \notin stale
        <4>1. k \in snapshotIndex[i]..LastIndex(i)
          BY SMTT(60), <1>1, <3>1, <3>3
        <4>2. At(i, k).cmd \in Command \cup {None}
          BY Zenon, <4>1, LogTypes DEF Entry
        <4> QED BY Zenon, <3>1, <3>3, <4>2
      <3> QED BY Zenon, <3>2, <3>3
    <2> HIDE DEF want, cmd
    <2>3. applied' \subseteq Nat \X (Command \cup {None})
      BY SMTT(60), <2>1, <2>2 DEF TypeOK
    <2>4. lastApplied' \in [Server -> Nat] /\ handed' \in [Server -> Nat]
      BY Zenon, <1>1, <1>3 DEF TypeOK
    <2> QED BY Zenon, <1>3, <2>3, <2>4
            DEF TypeOK, TakeBatch, Running, electionVars, logVars, leaderVars, voteVars
  <1> QED BY Zenon, <1>2, <1>3 DEF TakeBatch, Panic

\* So do a crash and the following Make.
LEMMA RestartType ==
    ASSUME TypeOK, NEW i \in Server, Restart(i)
    PROVE  TypeOK'
  <1> DEFINE p == persisted[i]
             zero == [n \in Server |-> 0]
             kept == {m \in net : ~ (m.dst = i /\ m.type \in {"RV", "AE", "IS"})
                        /\ ~ (m.src = i /\ m.type \in {"RVReply", "AEReply", "ISReply"})}
  <1>1. /\ p.term \in Term /\ p.votedFor \in Server \cup {None}
        /\ p.logs \in Seq(Entry) \ {<<>>} /\ p.snapshotIndex \in Nat /\ p.snapshotTerm \in Term
    BY Zenon DEF TypeOK, SavedState
  <1>2. /\ currentTerm' \in [Server -> Term] /\ votedFor' \in [Server -> Server \cup {None}]
        /\ state' \in [Server -> {"Follower", "Candidate", "Leader"}]
        /\ logs' \in [Server -> Seq(Entry) \ {<<>>}]
        /\ snapshotIndex' \in [Server -> Nat] /\ snapshotTerm' \in [Server -> Term]
    BY Zenon, <1>1 DEF TypeOK, Restart
  <1>3. /\ commitIndex' \in [Server -> Nat] /\ lastApplied' \in [Server -> Nat]
        /\ handed' \in [Server -> Nat]
    BY Zenon, <1>1 DEF TypeOK, Restart, RestartIndex
  <1>4. /\ nextIndex' \in [Server -> [Server -> Nat]]
        /\ matchIndex' \in [Server -> [Server -> Nat]]
    <2>1. zero \in [Server -> Nat]
      OBVIOUS
    <2> QED BY Zenon, <2>1 DEF TypeOK, Restart
  <1>5. votes' \in [Server -> [Term -> SUBSET Server]]
    <2>1. [t \in Term |-> {}] \in [Term -> SUBSET Server]
      OBVIOUS
    <2> QED BY <2>1 DEF TypeOK, Restart
  <1>6. net' \subseteq Message
    <2>1. net' = {IF m.src = i THEN [m EXCEPT !.live = FALSE] ELSE m : m \in kept}
      BY DEF Restart
    <2>2. ASSUME NEW m \in kept, m.src = i
          PROVE  [m EXCEPT !.live = FALSE] \in Message
      <3>1. m \in Message /\ m.type \in {"RV", "AE", "IS"}
        BY Zenon, <2>2, CallTypes DEF TypeOK
      <3>2. CASE m.type = "RV"
        BY Zenon, <3>1, <3>2, CallTypes DEF RVRequest, Message
      <3>3. CASE m.type = "AE"
        BY Zenon, <3>1, <3>3, CallTypes DEF AERequest, Message
      <3>4. CASE m.type = "IS"
        BY Zenon, <3>1, <3>4, CallTypes DEF ISRequest, Message
      <3> QED BY <3>1, <3>2, <3>3, <3>4
    <2> QED BY <2>1, <2>2 DEF TypeOK
  <1>7. restarts' \in Nat
    BY DEF TypeOK, Restart
  <1> QED BY Zenon, <1>2, <1>3, <1>4, <1>5, <1>6, <1>7 DEF TypeOK, Restart, Running

-----------------------------------------------------------------------------
(* The indices.  TypeOK is not inductive by itself: the entries that        *)
(* updateCommitIndex commits are in the log only because the match indices *)
(* are within it and because no snapshot runs ahead of the commit index;   *)
(* and a restart keeps that because what it reads back is the present log. *)

IndexInv == TypeOK /\ LogDurable /\ SnapshotCommitted /\ MatchWithinLog

\* The index invariant holds in the state Make leaves.
LEMMA InitIndex == Init => IndexInv
  <1> SUFFICES ASSUME Init PROVE IndexInv
    OBVIOUS
  <1>1. TypeOK
    BY InitType
  <1>2. LogDurable
    BY Zenon DEF Init, LogDurable, StateData
  <1>3. SnapshotCommitted
    BY SMTT(60) DEF Init, SnapshotCommitted
  <1>4. MatchWithinLog
    BY Zenon DEF Init, MatchWithinLog
  <1> QED BY <1>1, <1>2, <1>3, <1>4 DEF IndexInv

\* A step that leaves the logs, the commit indices and the leaders' match indices
\* alone, whether or not it persists, keeps the index invariants.
LEMMA SameIndices ==
    ASSUME IndexInv, UNCHANGED <<logVars, commitIndex, matchIndex>>,
           persisted' = persisted \/ \E i \in Server : Persist(i),
           \A i \in Server : state'[i] = "Leader" => state[i] = "Leader"
    PROVE  LogDurable' /\ SnapshotCommitted' /\ MatchWithinLog'
  <1>1. /\ logs' = logs /\ snapshotIndex' = snapshotIndex /\ snapshotTerm' = snapshotTerm
        /\ commitIndex' = commitIndex /\ matchIndex' = matchIndex
    BY DEF logVars
  <1>2. LogDurable'
    <2>1. persisted \in [Server -> SavedState]
      BY Zenon DEF IndexInv, TypeOK
    <2>2. CASE persisted' = persisted
      BY Zenon, <1>1, <2>2 DEF IndexInv, LogDurable
    <2>3. ASSUME NEW i \in Server, Persist(i)
          PROVE  LogDurable'
      BY Zenon, <1>1, <2>1, <2>3 DEF IndexInv, LogDurable, Persist, StateData
    <2> QED BY Zenon, <2>2, <2>3
  <1>3. SnapshotCommitted'
    BY Zenon, <1>1 DEF IndexInv, SnapshotCommitted
  <1>4. MatchWithinLog'
    BY Zenon, <1>1 DEF IndexInv, MatchWithinLog, LastIndex
  <1> QED BY <1>2, <1>3, <1>4

\* A step that changes the log of peer i and persists it.
LEMMA ChangedLog ==
    ASSUME IndexInv, NEW i \in Server, Persist(i),
           NEW l, NEW s, NEW t, NEW c,
           logs' = [logs EXCEPT ![i] = l],
           snapshotIndex' = [snapshotIndex EXCEPT ![i] = s],
           snapshotTerm' = [snapshotTerm EXCEPT ![i] = t],
           commitIndex' = [commitIndex EXCEPT ![i] = c],
           s <= c, l[1].term = t
    PROVE  LogDurable' /\ SnapshotCommitted'
  <1>1. /\ persisted \in [Server -> SavedState] /\ DOMAIN logs = Server
        /\ DOMAIN snapshotIndex = Server /\ DOMAIN snapshotTerm = Server
        /\ DOMAIN commitIndex = Server
    BY Zenon DEF IndexInv, TypeOK
  <1>2. LogDurable'
    BY Zenon, <1>1 DEF IndexInv, LogDurable, Persist, StateData
  <1>3. SnapshotCommitted'
    BY Zenon, <1>1 DEF IndexInv, SnapshotCommitted
  <1> QED BY <1>2, <1>3

\* Actions that change no log, no commit index and no match index.
LEMMA QuietStep ==
    ASSUME IndexInv,
           \/ \E i \in Server : \/ CanvassVotes(i) \/ TakeBatch(i)
                                \/ \E n \in Server : ConsistencyCheck(i, n)
           \/ \E m \in net :
                 \/ RequestVote(m) \/ StepDownOnVote(m) \/ CountVote(m) \/ IgnoreVote(m)
                 \/ AppendStale(m) \/ AppendPast(m) \/ AppendMismatch(m)
                 \/ AppendPanic(m) \/ StepDownOnAppend(m) \/ BackOff(m) \/ IgnoreReply(m)
                 \/ InstallIgnored(m) \/ StepDownOnSnapshot(m) \/ Drop(m)
    PROVE  LogDurable' /\ SnapshotCommitted' /\ MatchWithinLog'
  <1> DEFINE Quiet == /\ UNCHANGED <<logVars, commitIndex, matchIndex>>
                      /\ persisted' = persisted \/ \E i \in Server : Persist(i)
                      /\ \A i \in Server : state'[i] = "Leader" => state[i] = "Leader"
  <1>1. state \in [Server -> {"Follower", "Candidate", "Leader"}] /\ net \subseteq Message
    BY Zenon DEF IndexInv, TypeOK
  <1>2. ASSUME NEW i \in Server,
               CanvassVotes(i) \/ TakeBatch(i) \/ \E n \in Server : ConsistencyCheck(i, n)
        PROVE  Quiet
    <2>1. CASE CanvassVotes(i)
      BY Zenon, <1>1, <2>1 DEF CanvassVotes, logVars, leaderVars
    <2>2. CASE TakeBatch(i)
      BY Zenon, <2>2 DEF TakeBatch, electionVars, logVars, leaderVars
    <2>3. CASE \E n \in Server : ConsistencyCheck(i, n)
      BY Zenon, <2>3 DEF ConsistencyCheck, electionVars, logVars, leaderVars
    <2> QED BY Zenon, <1>2, <2>1, <2>2, <2>3
  <1>3. ASSUME NEW m \in net,
               RequestVote(m) \/ StepDownOnVote(m) \/ CountVote(m) \/ IgnoreVote(m)
        PROVE  Quiet
    <2>0. m.src \in Server /\ m.dst \in Server
      BY Zenon, <1>1, CallTypes
    <2>1. CASE RequestVote(m)
      BY Zenon, <1>1, <2>0, <2>1 DEF RequestVote, logVars, leaderVars
    <2>2. CASE StepDownOnVote(m)
      BY Zenon, <1>1, <2>0, <2>2 DEF StepDownOnVote, logVars, leaderVars
    <2>3. CASE CountVote(m)
      BY Zenon, <2>3 DEF CountVote, electionVars, logVars, leaderVars
    <2>4. CASE IgnoreVote(m)
      BY Zenon, <2>4 DEF IgnoreVote, Drop, electionVars, logVars, leaderVars
    <2> QED BY Zenon, <1>3, <2>1, <2>2, <2>3, <2>4
  <1>4. ASSUME NEW m \in net,
               \/ AppendStale(m) \/ AppendPast(m) \/ AppendMismatch(m)
               \/ AppendPanic(m) \/ StepDownOnAppend(m) \/ BackOff(m) \/ IgnoreReply(m)
        PROVE  Quiet
    <2>0. m.src \in Server /\ m.dst \in Server
      BY Zenon, <1>1, CallTypes
    <2>1. CASE AppendStale(m)
      BY Zenon, <2>1 DEF AppendStale, electionVars, logVars, leaderVars
    <2>2. CASE AppendPast(m)
      BY Zenon, <1>1, <2>0, <2>2 DEF AppendPast, AcceptLeader, logVars, leaderVars
    <2>3. CASE AppendMismatch(m)
      BY Zenon, <1>1, <2>0, <2>3 DEF AppendMismatch, AcceptLeader, logVars, leaderVars
    <2>4. CASE AppendPanic(m)
      BY Zenon, <2>4 DEF AppendPanic, electionVars, logVars, leaderVars
    <2>5. CASE StepDownOnAppend(m)
      BY Zenon, <1>1, <2>0, <2>5 DEF StepDownOnAppend, logVars, leaderVars
    <2>6. CASE BackOff(m)
      BY Zenon, <2>6 DEF BackOff, electionVars, logVars
    <2>7. CASE IgnoreReply(m)
      BY Zenon, <2>7 DEF IgnoreReply, Drop, electionVars, logVars, leaderVars
    <2> QED BY Zenon, <1>4, <2>1, <2>2, <2>3, <2>4, <2>5, <2>6, <2>7
  <1>5. ASSUME NEW m \in net, InstallIgnored(m) \/ StepDownOnSnapshot(m) \/ Drop(m)
        PROVE  Quiet
    <2>0. m.src \in Server /\ m.dst \in Server
      BY Zenon, <1>1, CallTypes
    <2>1. CASE InstallIgnored(m)
      BY Zenon, <2>1 DEF InstallIgnored, electionVars, logVars, leaderVars
    <2>2. CASE StepDownOnSnapshot(m)
      BY Zenon, <1>1, <2>0, <2>2 DEF StepDownOnSnapshot, logVars, leaderVars
    <2>3. CASE Drop(m)
      BY Zenon, <2>3 DEF Drop, electionVars, logVars, leaderVars
    <2> QED BY Zenon, <1>5, <2>1, <2>2, <2>3
  <1>6. Quiet
    BY Zenon, <1>2, <1>3, <1>4, <1>5
  <1> QED BY Zenon, <1>6, SameIndices

\* An election win resets the match indices to the log's end or to zero.
LEMMA BecomeLeaderIndices ==
    ASSUME IndexInv, NEW m \in net, BecomeLeader(m)
    PROVE  LogDurable' /\ SnapshotCommitted' /\ MatchWithinLog'
  <1> DEFINE i == m.src
  <1>1. /\ logs' = logs /\ snapshotIndex' = snapshotIndex /\ snapshotTerm' = snapshotTerm
        /\ commitIndex' = commitIndex /\ persisted' = persisted
    BY Zenon DEF BecomeLeader, logVars
  <1>2. i \in Server
    BY Zenon, CallTypes DEF IndexInv, TypeOK
  <1>3. LogDurable' /\ SnapshotCommitted'
    BY Zenon, <1>1 DEF IndexInv, LogDurable, SnapshotCommitted
  <1>4. \A j \in Server : LastIndex(j)' = LastIndex(j)
    BY <1>1 DEF LastIndex
  <1>5. \A j \in Server : LastIndex(j) \in Nat
    BY Zenon, LogTypes DEF IndexInv
  <1>6. /\ matchIndex \in [Server -> [Server -> Nat]]
        /\ state \in [Server -> {"Follower", "Candidate", "Leader"}]
    BY Zenon DEF IndexInv, TypeOK
  <1>7. ASSUME NEW j \in Server, NEW n \in Server, state'[j] = "Leader"
        PROVE  matchIndex'[j][n] <= LastIndex(j)
    <2>1. CASE j = i
      BY SMTT(60), <1>2, <1>5, <1>6, <2>1 DEF BecomeLeader, ResetOnElection
    <2>2. CASE j # i
      BY Zenon, <1>2, <1>6, <1>7, <2>2 DEF BecomeLeader, ResetOnElection, IndexInv, MatchWithinLog
    <2> QED BY Zenon, <2>1, <2>2
  <1>8. MatchWithinLog'
    BY <1>4, <1>7 DEF MatchWithinLog
  <1> QED BY <1>3, <1>8

\* Replies move a match index to an index the leader's log has.
LEMMA ReplyIndices ==
    ASSUME IndexInv, NEW m \in net, AppendAccepted(m) \/ SnapshotAccepted(m)
    PROVE  LogDurable' /\ SnapshotCommitted' /\ MatchWithinLog'
  <1> DEFINE i == m.src
  <1>1. /\ logs' = logs /\ snapshotIndex' = snapshotIndex /\ snapshotTerm' = snapshotTerm
        /\ persisted' = persisted /\ state' = state
    BY Zenon DEF AppendAccepted, SnapshotAccepted, logVars, electionVars
  <1>2. i \in Server /\ m.dst \in Server
    BY Zenon, CallTypes DEF IndexInv, TypeOK
  <1>3. LogDurable'
    BY Zenon, <1>1 DEF IndexInv, LogDurable
  <1>4. /\ matchIndex \in [Server -> [Server -> Nat]] /\ matchIndex[i] \in [Server -> Nat]
        /\ commitIndex \in [Server -> Nat] /\ snapshotIndex[i] \in Nat
    BY Zenon, <1>2 DEF IndexInv, TypeOK
  <1>5. \A j \in Server : LastIndex(j)' = LastIndex(j)
    BY <1>1 DEF LastIndex
  <1>6. SnapshotCommitted'
    <2>1. CASE AppendAccepted(m)
      <3> DEFINE match == [matchIndex[i] EXCEPT ![m.dst] = m.firstIndex]
                 commit == UpdatedCommit(i, match)
      <3>1. m.firstIndex \in Nat
        BY Zenon, <2>1, CallTypes DEF AppendAccepted, AEReply, IndexInv, TypeOK
      <3>2. \A v \in {match[x] : x \in Server} : v \in Nat
        BY Zenon, <1>2, <1>4, <3>1
      <3>3. commit \in Nat /\ commit >= commitIndex[i]
        <4> DEFINE targets == {v \in {match[x] : x \in Server} :
                                  /\ IsTarget(match, v)
                                  /\ commitIndex[i] < v /\ snapshotIndex[i] < v
                                  /\ At(i, v).term = currentTerm[i]}
        <4>1. commitIndex[i] \in Nat
          BY Zenon, <1>2, <1>4
        <4>2. \A v \in targets : v \in Nat /\ commitIndex[i] < v
          BY Zenon, <3>2
        <4>3. commit = IF targets = {} THEN commitIndex[i] ELSE CHOOSE v \in targets : TRUE
          BY Zenon DEF UpdatedCommit
        <4> HIDE DEF match, commit, targets
        <4> QED BY SMTT(60), <4>1, <4>2, <4>3
      <3>4. commitIndex' = [commitIndex EXCEPT ![i] = commit]
        BY Zenon, <2>1 DEF AppendAccepted
      <3>5. \A j \in Server : commitIndex[j] \in Nat /\ snapshotIndex[j] \in Nat
        BY Zenon DEF IndexInv, TypeOK
      <3> HIDE DEF commit
      <3>6. \A j \in Server : commitIndex'[j] \in Nat /\ commitIndex'[j] >= commitIndex[j]
        BY SMTT(60), <1>2, <1>4, <3>3, <3>4, <3>5
      <3> QED BY SMTT(60), <1>1, <3>5, <3>6 DEF IndexInv, SnapshotCommitted
    <2>2. CASE SnapshotAccepted(m)
      BY Zenon, <1>1, <2>2 DEF SnapshotAccepted, IndexInv, SnapshotCommitted
    <2> QED BY <2>1, <2>2
  <1>7. PICK v : /\ v <= LastIndex(i)
                 /\ matchIndex' = [matchIndex EXCEPT ![i] = [matchIndex[i] EXCEPT ![m.dst] = v]]
    <2>1. CASE AppendAccepted(m)
      BY Zenon, <2>1 DEF AppendAccepted
    <2>2. CASE SnapshotAccepted(m)
      <3>1. snapshotIndex[i] <= LastIndex(i)
        BY Zenon, <1>2, <1>4, LogTypes DEF IndexInv
      <3> QED BY Zenon, <1>2, <1>4, <2>2, <3>1 DEF SnapshotAccepted
    <2> QED BY Zenon, <2>1, <2>2
  <1>8. MatchWithinLog'
    BY Zenon, <1>1, <1>2, <1>4, <1>5, <1>7 DEF IndexInv, MatchWithinLog
  <1> QED BY <1>3, <1>6, <1>8

\* Start: the log grows by one, and the leader's own match index with it.
LEMMA StartIndices ==
    ASSUME IndexInv, NEW i \in Server, NEW c \in Command, Start(i, c)
    PROVE  LogDurable' /\ SnapshotCommitted' /\ MatchWithinLog'
  <1> DEFINE e == [term |-> currentTerm[i], cmd |-> c]
             l == Append(logs[i], e)
  <1>1. TypeOK
    BY DEF IndexInv
  <1>2. /\ Persist(i) /\ logs' = [logs EXCEPT ![i] = l] /\ state' = state
        /\ snapshotIndex' = snapshotIndex /\ snapshotTerm' = snapshotTerm
        /\ commitIndex' = commitIndex
        /\ matchIndex' = [matchIndex EXCEPT ![i][i] = LastIndex(i) + 1]
    BY Zenon DEF Start, AppendCommand, electionVars
  <1>3. /\ logs[i] \in Seq(Entry) /\ e \in Entry /\ Len(logs[i]) \in Nat /\ Len(logs[i]) >= 1
    BY Zenon, <1>1, LogTypes DEF TypeOK, Entry
  <1>4. Len(l) = Len(logs[i]) + 1 /\ l[1] = logs[i][1]
    BY SMTT(60), <1>3, AppendProperties
  <1> HIDE DEF l
  <1>5. /\ logs \in [Server -> Seq(Entry) \ {<<>>}]
        /\ snapshotIndex \in [Server -> Nat] /\ snapshotTerm \in [Server -> Term]
        /\ commitIndex \in [Server -> Nat] /\ matchIndex \in [Server -> [Server -> Nat]]
    BY Zenon, <1>1 DEF TypeOK
  <1>6. LogDurable' /\ SnapshotCommitted'
    <2>1. /\ snapshotIndex' = [snapshotIndex EXCEPT ![i] = snapshotIndex[i]]
          /\ snapshotTerm' = [snapshotTerm EXCEPT ![i] = snapshotTerm[i]]
          /\ commitIndex' = [commitIndex EXCEPT ![i] = commitIndex[i]]
      BY Zenon, <1>2, <1>5
    <2>2. snapshotIndex[i] <= commitIndex[i] /\ l[1].term = snapshotTerm[i]
      BY Zenon, <1>4 DEF IndexInv, SnapshotCommitted
    <2> QED BY Zenon, <1>2, <2>1, <2>2, ChangedLog
  <1>7. \A j \in Server : LastIndex(j) \in Nat
    BY Zenon, <1>1, LogTypes
  <1>8. \A j \in Server : LastIndex(j)' = IF j = i THEN LastIndex(i) + 1 ELSE LastIndex(j)
    <2>1. ASSUME NEW j \in Server
          PROVE  LastIndex(j)' = IF j = i THEN LastIndex(i) + 1 ELSE LastIndex(j)
      <3>1. LastIndex(j)' = snapshotIndex[j] + Len(logs'[j]) - 1
        BY Zenon, <1>2 DEF LastIndex
      <3>2. CASE j = i
        <4>1. LastIndex(j)' = snapshotIndex[i] + (Len(logs[i]) + 1) - 1
          BY Zenon, <1>2, <1>4, <1>5, <3>1, <3>2
        <4>2. snapshotIndex[i] \in Nat
          BY <1>5
        <4> QED BY SMTT(60), <1>3, <3>2, <4>1, <4>2 DEF LastIndex
      <3>3. CASE j # i
        BY Zenon, <1>2, <1>5, <3>1, <3>3 DEF LastIndex
      <3> QED BY Zenon, <3>2, <3>3
    <2> QED BY Zenon, <2>1
  <1>9. ASSUME NEW j \in Server, NEW n \in Server, state'[j] = "Leader"
        PROVE  matchIndex'[j][n] <= LastIndex(j)'
    <2>1. /\ matchIndex[j][n] <= LastIndex(j) /\ matchIndex[j][n] \in Nat
          /\ matchIndex[i] \in [Server -> Nat]
      BY Zenon, <1>2, <1>5, <1>9 DEF IndexInv, MatchWithinLog
    <2>2. CASE j = i /\ n = i
      BY SMTT(60), <1>2, <1>5, <1>7, <1>8, <2>1, <2>2
    <2>3. CASE j = i /\ n # i
      <3>1. matchIndex'[j][n] = matchIndex[j][n]
        BY Zenon, <1>2, <1>5, <2>1, <2>3
      <3> QED BY SMTT(60), <1>7, <1>8, <2>1, <2>3, <3>1
    <2>4. CASE j # i
      BY Zenon, <1>2, <1>5, <1>8, <2>1, <2>4
    <2> QED BY Zenon, <2>2, <2>3, <2>4
  <1>10. MatchWithinLog'
    BY Zenon, <1>9 DEF MatchWithinLog
  <1> QED BY <1>6, <1>10

\* Taking or installing a snapshot shortens the log at its start only.
LEMMA ShiftedLog ==
    ASSUME IndexInv, NEW i \in Server, NEW l, NEW s,
           logs' = [logs EXCEPT ![i] = l],
           snapshotIndex' = [snapshotIndex EXCEPT ![i] = s],
           s + Len(l) - 1 \in Nat, s + Len(l) - 1 >= LastIndex(i),
           state' = state, matchIndex' = matchIndex
    PROVE  MatchWithinLog'
  <1>1. /\ logs \in [Server -> Seq(Entry) \ {<<>>}] /\ snapshotIndex \in [Server -> Nat]
        /\ matchIndex \in [Server -> [Server -> Nat]]
    BY Zenon DEF IndexInv, TypeOK
  <1>2. \A j \in Server : LastIndex(j) \in Nat
    BY Zenon, LogTypes DEF IndexInv
  <1>3. ASSUME NEW j \in Server
        PROVE  LastIndex(j)' \in Nat /\ LastIndex(j)' >= LastIndex(j)
    <2>1. CASE j = i
      <3>1. LastIndex(j)' = s + Len(l) - 1
        BY Zenon, <1>1, <2>1 DEF LastIndex
      <3> QED BY <2>1, <3>1
    <2>2. CASE j # i
      <3>1. LastIndex(j)' = LastIndex(j)
        BY Zenon, <1>1, <2>2 DEF LastIndex
      <3> QED BY <1>2, <3>1
    <2> QED BY Zenon, <2>1, <2>2
  <1>4. ASSUME NEW j \in Server, NEW n \in Server, state'[j] = "Leader"
        PROVE  matchIndex'[j][n] <= LastIndex(j)'
    <2>1. matchIndex[j][n] \in Nat /\ matchIndex[j][n] <= LastIndex(j)
      BY Zenon, <1>1, <1>4 DEF IndexInv, MatchWithinLog
    <2> QED BY SMTT(60), <1>2, <1>3, <2>1
  <1> QED BY Zenon, <1>4 DEF MatchWithinLog

\* NewSnapShot keeps the index invariants: it cuts at a committed index and saves.
LEMMA SnapshotIndices ==
    ASSUME IndexInv, NEW i \in Server, NEW index \in Nat, NewSnapShot(i, index)
    PROVE  LogDurable' /\ SnapshotCommitted' /\ MatchWithinLog'
  <1> DEFINE tail == SubSeq(logs[i], index - snapshotIndex[i] + 1, Len(logs[i]))
  <1>1. /\ index > snapshotIndex[i] /\ index <= commitIndex[i]
        /\ commitIndex' = commitIndex /\ matchIndex' = matchIndex
    BY Zenon DEF NewSnapShot, leaderVars
  <1>2. CASE index <= LastIndex(i)
    <2>1. tail \in Seq(Entry) \ {<<>>} /\ index + Len(tail) - 1 = LastIndex(i)
      BY Zenon, <1>1, <1>2, TrimmedLog DEF IndexInv
    <2>2. /\ logs' = [logs EXCEPT ![i] = tail]
          /\ snapshotIndex' = [snapshotIndex EXCEPT ![i] = index]
          /\ snapshotTerm' = [snapshotTerm EXCEPT ![i] = tail[1].term]
          /\ Persist(i) /\ state' = state
      BY Zenon, <1>2 DEF NewSnapShot, electionVars
    <2> HIDE DEF tail
    <2>3. commitIndex' = [commitIndex EXCEPT ![i] = commitIndex[i]]
      BY Zenon, <1>1 DEF IndexInv, TypeOK
    <2>4. LogDurable' /\ SnapshotCommitted'
      BY Zenon, <1>1, <2>2, <2>3, ChangedLog
    <2>5. LastIndex(i) \in Nat
      BY Zenon, LogTypes DEF IndexInv
    <2>6. index + Len(tail) - 1 \in Nat /\ index + Len(tail) - 1 >= LastIndex(i)
      BY SMTT(60), <2>1, <2>5
    <2>7. MatchWithinLog'
      BY Zenon, <1>1, <2>2, <2>6, ShiftedLog
    <2> QED BY <2>4, <2>7
  <1>3. CASE ~ (index <= LastIndex(i))
    <2>1. UNCHANGED <<electionVars, logVars, persisted>>
      BY Zenon, <1>3 DEF NewSnapShot
    <2> QED BY Zenon, <1>1, <2>1, SameIndices DEF electionVars
  <1> QED BY <1>2, <1>3

\* InstallSnapshot keeps them, whether the snapshot covers the whole log or a part.
LEMMA InstallIndices ==
    ASSUME IndexInv, NEW m \in net, InstallSnapshot(m)
    PROVE  LogDurable' /\ SnapshotCommitted' /\ MatchWithinLog'
  <1> DEFINE i == m.dst
             l == LogAfterSnapshot(i, m)
             s == m.lastIncludedIndex
  <1>1. /\ m \in ISRequest /\ i \in Server /\ l \in Seq(Entry) \ {<<>>}
        /\ l[1].term = m.lastIncludedTerm /\ s + Len(l) - 1 >= LastIndex(i)
    BY Zenon, SnapshotLog DEF IndexInv
  <1>2. /\ logs' = [logs EXCEPT ![i] = l]
        /\ snapshotIndex' = [snapshotIndex EXCEPT ![i] = s]
        /\ snapshotTerm' = [snapshotTerm EXCEPT ![i] = m.lastIncludedTerm]
        /\ commitIndex' = [commitIndex EXCEPT ![i] = s]
        /\ Persist(i) /\ state' = state /\ matchIndex' = matchIndex
    BY Zenon DEF InstallSnapshot, electionVars, leaderVars
  <1>3. s \in Nat /\ s <= s
    BY SMTT(60), <1>1 DEF ISRequest
  <1> HIDE DEF l
  <1>4. LogDurable' /\ SnapshotCommitted'
    BY Zenon, <1>1, <1>2, <1>3, ChangedLog
  <1>5. Len(l) \in Nat /\ LastIndex(i) \in Nat
    BY Zenon, <1>1, LogTypes, LenProperties DEF IndexInv
  <1>6. s + Len(l) - 1 \in Nat
    BY SMTT(60), <1>1, <1>3, <1>5
  <1>7. MatchWithinLog'
    BY Zenon, <1>1, <1>2, <1>6, ShiftedLog
  <1> QED BY <1>4, <1>7

\* AppendEntries may shorten the log at its end, but then the peer is no leader.
LEMMA AppendIndices ==
    ASSUME IndexInv, NEW m \in net, AppendMatch(m)
    PROVE  LogDurable' /\ SnapshotCommitted' /\ MatchWithinLog'
  <1> DEFINE i == m.dst
             upto == m.prevLogIndex - snapshotIndex[i] + 1
             head == SubSeq(logs[i], 1, upto)
             l == NewLog(i, m)
  <1>1. TypeOK
    BY DEF IndexInv
  <1>2. /\ m \in AERequest /\ i \in Server
        /\ AcceptLeader(i, m) /\ Persist(i) /\ logs' = [logs EXCEPT ![i] = l]
        /\ snapshotIndex' = snapshotIndex /\ snapshotTerm' = snapshotTerm
        /\ commitIndex' = [commitIndex EXCEPT ![i] = NewCommit(i, m)]
        /\ matchIndex' = matchIndex
        /\ m.prevLogIndex >= snapshotIndex[i] /\ m.prevLogIndex <= LastIndex(i)
    BY Zenon, <1>1, AcceptLeaderType DEF AppendMatch, PrevMatches, leaderVars
  <1>3. /\ m.prevLogIndex \in Nat /\ m.entries \in Seq(Entry) /\ m.leaderCommit \in Nat
        /\ snapshotIndex[i] \in Nat /\ commitIndex[i] \in Nat
        /\ logs[i] \in Seq(Entry) /\ Len(logs[i]) \in Nat /\ Len(logs[i]) >= 1
    BY Zenon, <1>1, <1>2, LogTypes DEF AERequest, TypeOK
  <1>4. upto \in 1..Len(logs[i])
    BY SMTT(60), <1>2, <1>3 DEF LastIndex
  <1>5. head \in Seq(Entry) /\ Len(head) = upto /\ head[1] = logs[i][1]
    <2>1. \A k \in 1..upto : logs[i][k] \in Entry
      BY SMTT(60), <1>1, <1>2, <1>4, LogTypes
    <2>2. head \in Seq(Entry) /\ Len(head) = upto
      BY SMTT(60), <1>3, <1>4, <2>1, SubSeqProperties
    <2>3. head[1] = logs[i][1]
      BY SMTT(60), <1>3, <1>4, <2>1, SubSeqProperties
    <2> QED BY Zenon, <2>2, <2>3
  <1>6. l = head \o m.entries
    BY DEF NewLog
  <1>7. Len(l) \in Nat /\ Len(l) >= 1 /\ l[1] = logs[i][1]
    <2> HIDE DEF l, head
    <2>1. Len(m.entries) \in Nat /\ upto \in Nat /\ upto >= 1
      BY SMTT(60), <1>3, <1>4, LenProperties
    <2>2. /\ Len(head \o m.entries) = Len(head) + Len(m.entries)
          /\ \A k \in 1..(Len(head) + Len(m.entries)) : (head \o m.entries)[k] =
                 IF k <= Len(head) THEN head[k] ELSE m.entries[k - Len(head)]
      BY ZenonT(60), <1>3, <1>5, ConcatProperties
    <2> HIDE DEF upto
    <2>3. 1 \in 1..(Len(head) + Len(m.entries)) /\ 1 <= Len(head)
      BY SMTT(60), <1>5, <2>1
    <2> QED BY SMTT(60), <1>5, <1>6, <2>1, <2>2, <2>3
  <1>8. LogDurable' /\ SnapshotCommitted'
    <2>1. /\ snapshotIndex' = [snapshotIndex EXCEPT ![i] = snapshotIndex[i]]
          /\ snapshotTerm' = [snapshotTerm EXCEPT ![i] = snapshotTerm[i]]
      BY Zenon, <1>1, <1>2 DEF TypeOK
    <2>2. snapshotIndex[i] <= commitIndex[i] /\ l[1].term = snapshotTerm[i]
      BY Zenon, <1>2, <1>7 DEF IndexInv, SnapshotCommitted
    <2> HIDE DEF l
    <2>3. snapshotIndex[i] <= NewCommit(i, m)
      <3>1. Len(NewLog(i, m)) \in Nat /\ Len(NewLog(i, m)) >= 1
        BY Zenon, <1>7 DEF l
      <3> QED BY SMTT(60), <1>3, <2>2, <3>1 DEF NewCommit
    <2> QED BY Zenon, <1>2, <2>1, <2>2, <2>3, ChangedLog
  <1>9. MatchWithinLog'
    <2> HIDE DEF l
    <2>1. ASSUME NEW j \in Server, NEW n \in Server, state'[j] = "Leader"
          PROVE  matchIndex'[j][n] <= LastIndex(j)'
      <3>1. state \in [Server -> {"Follower", "Candidate", "Leader"}]
        BY Zenon, <1>1 DEF TypeOK
      <3>2. j # i /\ state[j] = "Leader"
        BY Zenon, <1>2, <2>1, <3>1 DEF AcceptLeader
      <3>3. LastIndex(j)' = LastIndex(j)
        BY Zenon, <1>1, <1>2, <3>2 DEF LastIndex, TypeOK
      <3> QED BY Zenon, <1>2, <3>2, <3>3 DEF IndexInv, MatchWithinLog
    <2> QED BY Zenon, <2>1 DEF MatchWithinLog
  <1> QED BY <1>8, <1>9

\* A restarted peer reads back the log it had.
LEMMA RestartIndices ==
    ASSUME IndexInv, NEW i \in Server, Restart(i)
    PROVE  LogDurable' /\ SnapshotCommitted' /\ MatchWithinLog'
  <1>1. /\ persisted[i].logs = logs[i] /\ persisted[i].snapshotIndex = snapshotIndex[i]
        /\ persisted[i].snapshotTerm = snapshotTerm[i]
    BY Zenon DEF IndexInv, LogDurable
  <1>2. /\ logs' = logs /\ snapshotIndex' = snapshotIndex /\ snapshotTerm' = snapshotTerm
        /\ persisted' = persisted
    BY Zenon, <1>1 DEF IndexInv, TypeOK, Restart
  <1>3. LogDurable'
    BY Zenon, <1>2 DEF IndexInv, LogDurable
  <1>4. SnapshotCommitted'
    <2>1. commitIndex' = [commitIndex EXCEPT ![i] = snapshotIndex[i]]
      BY <1>1 DEF Restart, RestartIndex
    <2>2. snapshotIndex \in [Server -> Nat] /\ commitIndex \in [Server -> Nat]
      BY Zenon DEF IndexInv, TypeOK
    <2> QED BY SMTT(60), <1>2, <2>1, <2>2 DEF IndexInv, SnapshotCommitted
  <1>5. MatchWithinLog'
    <2>1. \A j \in Server : state'[j] = "Leader" => j # i /\ state[j] = "Leader"
      BY DEF Restart, IndexInv, TypeOK
    <2>2. \A j \in Server : j # i => matchIndex'[j] = matchIndex[j]
      BY DEF Restart, IndexInv, TypeOK
    <2> QED BY Zenon, <1>2, <2>1, <2>2 DEF IndexInv, MatchWithinLog, LastIndex
  <1> QED BY <1>3, <1>4, <1>5

\* Every step keeps the index invariant.
LEMMA IndexStep ==
    ASSUME IndexInv, [Next]_vars
    PROVE  IndexInv'
  <1>1. TypeOK /\ SnapshotCommitted /\ MatchWithinLog
    BY DEF IndexInv
  <1>2. ASSUME NEW i \in Server, Local(i)
        PROVE  IndexInv'
    <2>1. CASE CanvassVotes(i)
      BY Zenon, <1>1, <2>1, CanvassVotesType, QuietStep DEF IndexInv
    <2>2. ASSUME NEW n \in Server, ConsistencyCheck(i, n)
          PROVE  IndexInv'
      BY Zenon, <1>1, <2>2, ConsistencyCheckType, QuietStep DEF IndexInv
    <2>3. ASSUME NEW c \in Command, Start(i, c)
          PROVE  IndexInv'
      BY <1>1, <2>3, StartType, StartIndices DEF IndexInv
    <2>4. ASSUME NEW k \in 1..MaxIndex, NewSnapShot(i, k)
          PROVE  IndexInv'
      <3>1. k \in Nat
        BY BoundAssumption
      <3> QED BY <1>1, <2>4, <3>1, NewSnapShotType, SnapshotIndices DEF IndexInv
    <2>5. CASE TakeBatch(i)
      BY Zenon, <1>1, <2>5, TakeBatchType, QuietStep DEF IndexInv
    <2>6. CASE Restart(i)
      BY <1>1, <2>6, RestartType, RestartIndices DEF IndexInv
    <2> QED BY Zenon, <1>2, <2>1, <2>2, <2>3, <2>4, <2>5, <2>6 DEF Local
  <1>3. ASSUME NEW m \in net, OnCall(m)
        PROVE  IndexInv'
    <2>1. CASE RequestVote(m)
      BY Zenon, <1>1, <2>1, RequestVoteType, QuietStep DEF IndexInv
    <2>2. CASE StepDownOnVote(m) \/ CountVote(m) \/ IgnoreVote(m)
      BY Zenon, <1>1, <2>2, VoteReplyType, QuietStep DEF IndexInv
    <2>3. CASE BecomeLeader(m)
      BY <1>1, <2>3, VoteReplyType, BecomeLeaderIndices DEF IndexInv
    <2>4. CASE AppendStale(m) \/ AppendPast(m)
      BY Zenon, <1>1, <2>4, AppendRefusedType, QuietStep DEF IndexInv
    <2>5. CASE AppendMatch(m)
      BY <1>1, <2>5, AppendMatchType, AppendIndices DEF IndexInv
    <2>6. CASE AppendMismatch(m)
      BY Zenon, <1>1, <2>6, AppendMismatchType, QuietStep DEF IndexInv
    <2>7. CASE AppendAccepted(m)
      BY <1>1, <2>7, AppendReplyType, ReplyIndices DEF IndexInv
    <2>8. CASE AppendPanic(m) \/ StepDownOnAppend(m) \/ BackOff(m) \/ IgnoreReply(m)
      BY Zenon, <1>1, <2>8, AppendReplyType, QuietStep DEF IndexInv
    <2>9. CASE InstallSnapshot(m)
      BY <1>1, <2>9, InstallType, InstallIndices DEF IndexInv
    <2>10. CASE InstallIgnored(m) \/ StepDownOnSnapshot(m)
      BY Zenon, <1>1, <2>10, InstallType, QuietStep DEF IndexInv
    <2>11. CASE SnapshotAccepted(m)
      BY Zenon, <1>1, <2>11, InstallType, ReplyIndices DEF IndexInv
    <2>12. CASE Drop(m)
      BY Zenon, <1>1, <2>12, DropType, QuietStep DEF IndexInv
    <2> QED BY Zenon, <1>3, <2>1, <2>2, <2>3, <2>4, <2>5, <2>6, <2>7, <2>8, <2>9, <2>10, <2>11,
               <2>12 DEF OnCall
  <1>4. CASE UNCHANGED vars
    BY Zenon, <1>4
       DEF IndexInv, TypeOK, LogDurable, SnapshotCommitted, MatchWithinLog, LastIndex, vars,
                electionVars, logVars, leaderVars, voteVars, applyVars
  <1> QED BY <1>2, <1>3, <1>4 DEF Next
-----------------------------------------------------------------------------

\* For every number of peers, every bound and every lateness of calls: what a peer
\* persists is its log, its snapshot is committed, and what a leader believes of its
\* followers (updateCommitIndex reads the log there) lies within its log.
THEOREM IndexSafety == Spec => []IndexInv
  <1>1. Init => IndexInv
    BY InitIndex
  <1>2. IndexInv /\ [Next]_vars => IndexInv'
    BY IndexStep
  <1> QED BY <1>1, <1>2, PTL DEF Spec

\* Every variable of the peer, and every call in flight, always has its type.
THEOREM TypeCorrect == Spec => []TypeOK
  <1>1. IndexInv => TypeOK
    BY DEF IndexInv
  <1> QED BY <1>1, IndexSafety, PTL

\* persist: whenever a peer crashes, its log and snapshot indices are on disk.
THEOREM LogAlwaysDurable == Spec => []LogDurable
  <1>1. IndexInv => LogDurable
    BY DEF IndexInv
  <1> QED BY <1>1, IndexSafety, PTL

\* NewSnapShot, InstallSnapshot: the snapshot never passes the commit index, and
\* Logs[0] always carries its term.
THEOREM SnapshotAlwaysCommitted == Spec => []SnapshotCommitted
  <1>1. IndexInv => SnapshotCommitted
    BY DEF IndexInv
  <1> QED BY <1>1, IndexSafety, PTL

\* consistencyCheckReplyHandler: whatever late reply a leader takes, its match
\* indices stay within its log.
THEOREM MatchAlwaysWithinLog == Spec => []MatchWithinLog
  <1>1. IndexInv => MatchWithinLog
    BY DEF IndexInv
  <1> QED BY <1>1, IndexSafety, PTL
=============================================================================
