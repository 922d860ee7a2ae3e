-------------------------------- MODULE Raft --------------------------------
(***************************************************************************)
(* The Raft peer of src/raft/raft.go: elections, log replication,          *)
(* snapshots, persistence and the apply loop, over the simulated network   *)
(* of src/labrpc and under the crash/restart harness of src/raft/config.go.*)
(*                                                                         *)
(* Every action is one critical section of rf.mu: an RPC handler, the code *)
(* that runs when an RPC returns, a daemon's step or a call of the service.*)
(* The snapshot's contents are left to the service; here a snapshot is the *)
(* index and the term it covers.                                           *)
(***************************************************************************)
EXTENDS Integers, Sequences, FiniteSets

CONSTANTS
    Server,         \* the peers
    Command,        \* commands the service hands to Start
    None,           \* VotedFor = -1, and the nil Command
    MaxTerm,        \* bound: no election starts above this term
    MaxIndex,       \* bound: Start appends no entry above this index
    MaxRestarts,    \* bound: crashes in a behaviour
    MaxCalls,       \* bound: RPCs in flight
    MaxApplied,     \* bound: no batch is taken from this index on
    SnapshotsOn,    \* the service takes snapshots (maxraftstate >= 0)
    Late            \* which halves of a call may outlive the caller's timers

ASSUME ServerAssumption ==
    /\ IsFiniteSet(Server) /\ Server # {}
    /\ None \notin Server /\ None \notin Command
ASSUME BoundAssumption ==
    /\ MaxTerm \in Nat /\ MaxIndex \in Nat /\ MaxRestarts \in Nat
    /\ MaxCalls \in Nat /\ MaxApplied \in Nat
    /\ SnapshotsOn \in BOOLEAN /\ Late \subseteq {"request", "reply"}

VARIABLES
    currentTerm, votedFor, state,    \* CurrentTerm, VotedFor, state
    logs,                            \* Logs; logs[i][1] is Logs[0], the placeholder
    snapshotIndex, snapshotTerm,     \* what Logs[0] stands for
    commitIndex, lastApplied,        \* volatile indices
    nextIndex, matchIndex,           \* of a leader, per peer
    votes,          \* votes[i][t]: peers counted by the closure of i's election of term t
    persisted,      \* what the Persister of each peer holds
    handed,         \* highest index applyLogEntryDaemon has taken for the service
    net,            \* RPCs in flight, as requests or as replies
    restarts,       \* number of crashes so far
    fault,          \* the process has panicked
    ballot,         \* history: term of the last election of each peer
    grants,         \* history: <<voter, candidate, term>> of every vote granted
    elected,        \* history: <<term, leader>> of every election won
    anomaly,        \* history: an election went wrong (see RegularElections)
    committed,      \* history: entries a leader has committed, and in which term
    applied         \* history: <<index, command>> taken for a service

electionVars == <<currentTerm, votedFor, state>>
logVars == <<logs, snapshotIndex, snapshotTerm>>
leaderVars == <<nextIndex, matchIndex>>
voteVars == <<votes, ballot, grants, elected, anomaly>>
applyVars == <<lastApplied, handed, applied>>
vars == <<electionVars, logVars, leaderVars, voteVars, applyVars, commitIndex,
          persisted, net, restarts, fault, committed>>
-----------------------------------------------------------------------------
(* Indices and logs                                                        *)

N == Cardinality(Server)
Term == 0..MaxTerm
Entry == [term : Term, cmd : Command \cup {None}]

MinOf(a, b) == IF a < b THEN a ELSE b
MaxOf(a, b) == IF a > b THEN a ELSE b

\* lastLogIndexAndTerm: the absolute index and the term of the last entry of Logs.
LastIndex(i) == snapshotIndex[i] + Len(logs[i]) - 1
LastTerm(i) == logs[i][Len(logs[i])].term

\* Logs[k - snapshotIndex]
At(i, k) == logs[i][k - snapshotIndex[i] + 1]

SavedState == [term : Term, votedFor : Server \cup {None}, logs : Seq(Entry) \ {<<>>},
               snapshotIndex : Nat, snapshotTerm : Term]

\* stateData: what persist and SaveStateAndSnapshot write.
StateData(i) ==
    [term |-> currentTerm[i], votedFor |-> votedFor[i], logs |-> logs[i],
     snapshotIndex |-> snapshotIndex[i], snapshotTerm |-> snapshotTerm[i]]

\* Variant of Persist: the call is forgotten.
PersistNothing(i) == UNCHANGED persisted

\* Called at the end of a critical section, so it saves the new values.
Persist(i) == persisted' = [persisted EXCEPT ![i] = StateData(i)']
-----------------------------------------------------------------------------
(* The network.  A call is in flight from its Call() until the code after  *)
(* Call() runs in the caller (src) or the call is lost.  A request whose   *)
(* caller has crashed is not live: it may still be served, but nobody      *)
(* reads the answer.                                                       *)

RVRequest == [type : {"RV"}, src : Server, dst : Server, live : BOOLEAN,
              term : Term, lastLogIndex : Nat, lastLogTerm : Term]
RVReply == [type : {"RVReply"}, src : Server, dst : Server, live : {TRUE},
            ballot : Term, term : Term, granted : BOOLEAN]
AERequest == [type : {"AE"}, src : Server, dst : Server, live : BOOLEAN,
              term : Term, prevLogIndex : Nat, prevLogTerm : Term,
              entries : Seq(Entry), leaderCommit : Nat]
AEReply == [type : {"AEReply"}, src : Server, dst : Server, live : {TRUE},
            term : Term, success : BOOLEAN, conflictTerm : Term, firstIndex : Nat]
ISRequest == [type : {"IS"}, src : Server, dst : Server, live : BOOLEAN,
              term : Term, lastIncludedIndex : Nat, lastIncludedTerm : Term]
ISReply == [type : {"ISReply"}, src : Server, dst : Server, live : {TRUE}, term : Term]
Message == RVRequest \cup RVReply \cup AERequest \cup AEReply \cup ISRequest \cup ISReply

\* The calls the present instance of i is waiting for.
Outstanding(i) == {m \in net : m.src = i /\ m.live}

\* labrpc delays a request by at most 26 ms and a reply not at all, less than a
\* heartbeat interval (40 ms) and an election timeout (at least 400 ms): a timer of
\* i finds the calls it started earlier finished (Late = {}).  With its switch
\* longReordering a reply may come later (Late = {"reply"}); on any network both may.
\* The snapshot that a reply triggers is sent off the beat and may still be there.
Phase(m) == IF m.type \in {"RV", "AE", "IS"} THEN "request" ELSE "reply"
ElectionDue(i) == \A m \in Outstanding(i) : Phase(m) \in Late
HeartbeatDue(i, n) ==
    \A m \in Outstanding(i) :
        m.dst = n => Phase(m) \in Late \/ m.type \in {"IS", "ISReply"}

\* A panic of any goroutine ends the process, and with it every peer.
Running == ~ fault /\ fault' = fault
Panic == ~ fault /\ fault' = TRUE

Room(k) == Cardinality(net) + k <= MaxCalls

\* The handler of m returns: the answer travels unless the caller is gone.
Answer(m, reply) == net' = (net \ {m}) \cup (IF m.live THEN {reply} ELSE {})

\* A request or a reply is lost, or the peers are disconnected: Call returns false.
Drop(m) ==
    /\ Running
    /\ net' = net \ {m}
    /\ UNCHANGED <<electionVars, logVars, leaderVars, voteVars, applyVars,
                   commitIndex, persisted, restarts, committed>>
-----------------------------------------------------------------------------
(* Elections                                                               *)

\* canvassVotes with fillRequestVoteArgs: the election timer of i has fired.
\* The goroutine takes rf.mu whatever the state is by then.  Nothing is
\* persisted.  The counters of elections nobody answers any more are dropped.
CanvassVotes(i) ==
    LET t == currentTerm[i] + 1
        calls == [type : {"RV"}, src : {i}, dst : Server \ {i}, live : {TRUE}, term : {t},
                  lastLogIndex : {LastIndex(i)}, lastLogTerm : {LastTerm(i)}]
        waiting(u) == \E m \in Outstanding(i) :
                          \/ m.type = "RV" /\ m.term = u
                          \/ m.type = "RVReply" /\ m.ballot = u
    IN /\ Running
       /\ t <= MaxTerm
       /\ Room(N - 1)
       /\ ElectionDue(i)
       /\ ~ waiting(t)
       /\ votedFor' = [votedFor EXCEPT ![i] = i]
       /\ currentTerm' = [currentTerm EXCEPT ![i] = t]
       /\ state' = [state EXCEPT ![i] = "Candidate"]
       /\ votes' = [votes EXCEPT ![i] =
                       [u \in Term |-> IF waiting(u) THEN votes[i][u] ELSE {}]]
       /\ net' = net \cup calls
       /\ ballot' = [ballot EXCEPT ![i] = t]
       /\ UNCHANGED <<logVars, leaderVars, applyVars, commitIndex, persisted,
                      restarts, grants, elected, anomaly, committed>>

\* Variant of UpToDate that compares no index.
UpToDateByTerm(i, m) == m.lastLogTerm >= LastTerm(i)

\* The candidate's log is at least as up to date as that of i.
UpToDate(i, m) ==
    \/ m.lastLogTerm = LastTerm(i) /\ m.lastLogIndex >= LastIndex(i)
    \/ m.lastLogTerm > LastTerm(i)

\* Variant of VoteFree that does not look at VotedFor.
VoteAlwaysFree(i, m) == m.term >= currentTerm[i]

\* The vote of i is free in the term of m; a higher term frees it.
VoteFree(i, m) ==
    \/ m.term > currentTerm[i]
    \/ m.term = currentTerm[i] /\ votedFor[i] = None

\* The RequestVote handler.  The reply carries the term only when it refuses
\* an old one.
RequestVote(m) ==
    LET i == m.dst
        higher == m.term > currentTerm[i]
        grant == VoteFree(i, m) /\ UpToDate(i, m)
    IN /\ Running
       /\ m.type = "RV"
       /\ currentTerm' = [currentTerm EXCEPT ![i] = MaxOf(@, m.term)]
       /\ state' = [state EXCEPT ![i] = IF higher \/ grant THEN "Follower" ELSE @]
       /\ votedFor' = [votedFor EXCEPT ![i] =
                          IF grant THEN m.src ELSE IF higher THEN None ELSE @]
       /\ UNCHANGED logVars
       /\ Persist(i)
       /\ Answer(m, [type |-> "RVReply", src |-> m.src, dst |-> i, live |-> TRUE,
                     ballot |-> m.term,
                     term |-> IF m.term < currentTerm[i] THEN currentTerm[i] ELSE 0,
                     granted |-> grant])
       /\ grants' = IF grant THEN grants \cup {<<i, m.src, m.term>>} ELSE grants
       /\ UNCHANGED <<leaderVars, applyVars, commitIndex, votes, ballot, elected,
                      anomaly, restarts, committed>>

\* votes == peers/2: with this vote the closure has a majority.
Majority(i, t) == 1 + Cardinality(votes[i][t]) = N \div 2

\* Variant of ResetOnElection: the leader's own match index is its log's length.
ResetPastEnd(i) ==
    /\ matchIndex' = [matchIndex EXCEPT ![i] =
                         [n \in Server |-> IF n = i THEN LastIndex(i) + 1 ELSE 0]]
    /\ nextIndex' = [nextIndex EXCEPT ![i] = [n \in Server |-> LastIndex(i) + 1]]

\* resetOnElection
ResetOnElection(i) ==
    /\ matchIndex' = [matchIndex EXCEPT ![i] =
                         [n \in Server |-> IF n = i THEN LastIndex(i) ELSE 0]]
    /\ nextIndex' = [nextIndex EXCEPT ![i] = [n \in Server |-> LastIndex(i) + 1]]

\* replyHandler, higher term: the candidate takes over the term of the reply,
\* which it compares with the term of the election, not with its own.
StepDownOnVote(m) ==
    LET i == m.src
    IN /\ Running
       /\ m.type = "RVReply" /\ state[i] = "Candidate"
       /\ m.term > m.ballot
       /\ currentTerm' = [currentTerm EXCEPT ![i] = m.term]
       /\ state' = [state EXCEPT ![i] = "Follower"]
       /\ votedFor' = [votedFor EXCEPT ![i] = None]
       /\ UNCHANGED logVars
       /\ Persist(i)
       /\ anomaly' = (anomaly \/ m.term < currentTerm[i])
       /\ net' = net \ {m}
       /\ UNCHANGED <<leaderVars, applyVars, commitIndex, votes, ballot, grants,
                      elected, restarts, committed>>

\* replyHandler, the vote that makes a majority: i leads its current term.
BecomeLeader(m) ==
    LET i == m.src
    IN /\ Running
       /\ m.type = "RVReply" /\ state[i] = "Candidate"
       /\ m.term <= m.ballot /\ m.granted
       /\ Majority(i, m.ballot)
       /\ state' = [state EXCEPT ![i] = "Leader"]
       /\ ResetOnElection(i)
       /\ net' = net \ {m}
       /\ elected' = elected \cup {<<currentTerm[i], i>>}
       /\ anomaly' = \/ anomaly
                     \/ m.ballot # currentTerm[i]
                     \/ \E e \in elected : e[1] = currentTerm[i]
       /\ UNCHANGED <<currentTerm, votedFor, logVars, applyVars, commitIndex, persisted,
                      votes, ballot, grants, restarts, committed>>

\* replyHandler, a vote short of a majority.
CountVote(m) ==
    LET i == m.src
    IN /\ Running
       /\ m.type = "RVReply" /\ state[i] = "Candidate"
       /\ m.term <= m.ballot /\ m.granted
       /\ ~ Majority(i, m.ballot)
       /\ votes' = [votes EXCEPT ![i][m.ballot] = @ \cup {m.dst}]
       /\ net' = net \ {m}
       /\ UNCHANGED <<electionVars, logVars, leaderVars, applyVars, commitIndex, persisted,
                      ballot, grants, elected, anomaly, restarts, committed>>

\* replyHandler, no longer a candidate or the vote was refused.
IgnoreVote(m) ==
    /\ m.type = "RVReply"
    /\ \/ state[m.src] # "Candidate"
       \/ m.term <= m.ballot /\ ~ m.granted
    /\ Drop(m)
-----------------------------------------------------------------------------
(* Replication                                                             *)

\* sendSnapshot
SnapshotCall(i, n) ==
    [type |-> "IS", src |-> i, dst |-> n, live |-> TRUE, term |-> currentTerm[i],
     lastIncludedIndex |-> snapshotIndex[i], lastIncludedTerm |-> snapshotTerm[i]]

\* The arguments of AppendEntries; previndex is clipped to the log's end.
AppendCall(i, n) ==
    LET prev == MinOf(nextIndex[i][n] - 1, LastIndex(i))
    IN [type |-> "AE", src |-> i, dst |-> n, live |-> TRUE, term |-> currentTerm[i],
        prevLogIndex |-> prev, prevLogTerm |-> At(i, prev).term,
        entries |-> SubSeq(logs[i], nextIndex[i][n] - snapshotIndex[i] + 1, Len(logs[i])),
        leaderCommit |-> commitIndex[i]]

\* consistencyCheck, run for every peer by heartbeatDaemon.
ConsistencyCheck(i, n) ==
    /\ Running
    /\ state[i] = "Leader" /\ n # i
    /\ Room(1)
    /\ HeartbeatDue(i, n)
    /\ net' = net \cup {IF nextIndex[i][n] - 1 < snapshotIndex[i]
                        THEN SnapshotCall(i, n) ELSE AppendCall(i, n)}
    /\ UNCHANGED <<electionVars, logVars, leaderVars, voteVars, applyVars, commitIndex,
                   persisted, restarts, committed>>

\* Start appends, and tells followers only with the next heartbeat.
AppendCommand(i, c) ==
    /\ logs' = [logs EXCEPT ![i] = Append(@, [term |-> currentTerm[i], cmd |-> c])]
    /\ nextIndex' = [nextIndex EXCEPT ![i][i] = LastIndex(i) + 2]
    /\ matchIndex' = [matchIndex EXCEPT ![i][i] = LastIndex(i) + 1]
    /\ UNCHANGED <<electionVars, snapshotIndex, snapshotTerm>>
    /\ Persist(i)
    /\ UNCHANGED <<voteVars, applyVars, commitIndex, net, restarts, committed>>

\* Variant of Start that does not check for leadership.
StartAnywhere(i, c) == Running /\ LastIndex(i) < MaxIndex /\ AppendCommand(i, c)

\* Start, on a leader.
Start(i, c) ==
    /\ Running
    /\ state[i] = "Leader"
    /\ LastIndex(i) < MaxIndex
    /\ AppendCommand(i, c)

AppendReply(m, t, ok, conflict, first) ==
    [type |-> "AEReply", src |-> m.src, dst |-> m.dst, live |-> TRUE,
     term |-> t, success |-> ok, conflictTerm |-> conflict, firstIndex |-> first]

\* AppendEntries of an old term: refused.
AppendStale(m) ==
    /\ Running
    /\ m.type = "AE" /\ m.term < currentTerm[m.dst]
    /\ Answer(m, AppendReply(m, currentTerm[m.dst], FALSE, 0, 0))
    /\ UNCHANGED <<electionVars, logVars, leaderVars, voteVars, applyVars, commitIndex,
                   persisted, restarts, committed>>

\* The start of a valid AppendEntries: only a leader turns into a follower.
AcceptLeader(i, m) ==
    /\ m.type = "AE" /\ m.term >= currentTerm[i]
    /\ currentTerm' = [currentTerm EXCEPT ![i] = m.term]
    /\ state' = [state EXCEPT ![i] = IF @ = "Leader" THEN "Follower" ELSE @]
    /\ votedFor' = [votedFor EXCEPT ![i] = m.src]

\* PrevLogIndex lies before the snapshot: refused, and not persisted.
AppendPast(m) ==
    LET i == m.dst
    IN /\ Running
       /\ AcceptLeader(i, m)
       /\ m.prevLogIndex < snapshotIndex[i]
       /\ Answer(m, AppendReply(m, m.term, FALSE, snapshotTerm[i], snapshotIndex[i]))
       /\ UNCHANGED <<logVars, leaderVars, voteVars, applyVars, commitIndex,
                      persisted, restarts, committed>>

\* Variant of PrevMatches that compares no term.
PrevPresent(i, m) == m.prevLogIndex <= LastIndex(i)

\* The entry before the new ones is in the log of i, with the same term.
PrevMatches(i, m) ==
    /\ m.prevLogIndex <= LastIndex(i)
    /\ At(i, m.prevLogIndex).term = m.prevLogTerm

\* What follows PrevLogIndex is cut off and replaced.
NewLog(i, m) ==
    SubSeq(logs[i], 1, m.prevLogIndex - snapshotIndex[i] + 1) \o m.entries

\* min(leaderCommit, index of last new entry)
NewCommit(i, m) ==
    LET last == snapshotIndex[i] + Len(NewLog(i, m)) - 1
    IN IF m.leaderCommit > commitIndex[i] THEN MinOf(m.leaderCommit, last) ELSE commitIndex[i]

\* The consistency check succeeds.  The reply leaves CurrentTerm unset.
AppendMatch(m) ==
    LET i == m.dst
        new == NewLog(i, m)
    IN /\ Running
       /\ AcceptLeader(i, m)
       /\ m.prevLogIndex >= snapshotIndex[i] /\ PrevMatches(i, m)
       /\ logs' = [logs EXCEPT ![i] = new]
       /\ UNCHANGED <<snapshotIndex, snapshotTerm>>
       /\ commitIndex' = [commitIndex EXCEPT ![i] = NewCommit(i, m)]
       /\ Persist(i)
       /\ Answer(m, AppendReply(m, 0, TRUE, new[Len(new)].term,
                                snapshotIndex[i] + Len(new) - 1))
       /\ UNCHANGED <<leaderVars, voteVars, applyVars, restarts, committed>>

\* First index of the run of entries with the term of PrevLogIndex, or the end
\* of the log when it has no entry (or the term 0) there.
ConflictTerm(i, m) ==
    LET t == IF m.prevLogIndex <= LastIndex(i) THEN At(i, m.prevLogIndex).term ELSE 0
    IN IF t = 0 THEN LastTerm(i) ELSE t
ConflictIndex(i, m) ==
    LET t == IF m.prevLogIndex <= LastIndex(i) THEN At(i, m.prevLogIndex).term ELSE 0
        begins == {k \in (snapshotIndex[i] + 1)..m.prevLogIndex :
                      /\ At(i, k - 1).term # t
                      /\ \A l \in k..(m.prevLogIndex - 1) : At(i, l).term = t}
    IN CASE t = 0 -> LastIndex(i) + 1
         [] t # 0 /\ begins = {} -> snapshotIndex[i] + 1
         [] OTHER -> CHOOSE k \in begins : TRUE

\* The consistency check fails.  The reply leaves CurrentTerm unset.
AppendMismatch(m) ==
    LET i == m.dst
    IN /\ Running
       /\ AcceptLeader(i, m)
       /\ m.prevLogIndex >= snapshotIndex[i] /\ ~ PrevMatches(i, m)
       /\ UNCHANGED logVars
       /\ Persist(i)
       /\ Answer(m, AppendReply(m, 0, FALSE, ConflictTerm(i, m), ConflictIndex(i, m)))
       /\ UNCHANGED <<leaderVars, voteVars, applyVars, commitIndex, restarts, committed>>

\* Variant of IsTarget: the highest match index.
IsHighest(match, v) == \A n \in Server : match[n] <= v

\* v is match[len(peers)/2] of the sorted match indices.
IsTarget(match, v) ==
    /\ Cardinality({n \in Server : match[n] < v}) <= N \div 2
    /\ Cardinality({n \in Server : match[n] <= v}) > N \div 2

\* Variant of UpdatedCommit: an entry counts as committed whatever its term.
UpdatedAnyTerm(i, match) ==
    LET targets == {v \in {match[n] : n \in Server} :
                       IsTarget(match, v) /\ commitIndex[i] < v /\ snapshotIndex[i] < v}
    IN IF targets = {} THEN commitIndex[i] ELSE CHOOSE v \in targets : TRUE

\* updateCommitIndex: the new commit index of leader i.
UpdatedCommit(i, match) ==
    LET targets == {v \in {match[n] : n \in Server} :
                       /\ IsTarget(match, v)
                       /\ commitIndex[i] < v /\ snapshotIndex[i] < v
                       /\ At(i, v).term = currentTerm[i]}
    IN IF targets = {} THEN commitIndex[i] ELSE CHOOSE v \in targets : TRUE

\* consistencyCheckReplyHandler, success: whatever term the call was made in.
AppendAccepted(m) ==
    LET i == m.src
        match == [matchIndex[i] EXCEPT ![m.dst] = m.firstIndex]
        commit == UpdatedCommit(i, match)
    IN /\ Running
       /\ m.type = "AEReply" /\ state[i] = "Leader" /\ m.success
       /\ m.firstIndex <= LastIndex(i)
       /\ matchIndex' = [matchIndex EXCEPT ![i] = match]
       /\ nextIndex' = [nextIndex EXCEPT ![i][m.dst] = m.firstIndex + 1]
       /\ commitIndex' = [commitIndex EXCEPT ![i] = commit]
       /\ committed' = committed \cup
             {[index |-> k, entry |-> At(i, k), at |-> currentTerm[i]] :
                 k \in (commitIndex[i] + 1)..commit}
       /\ net' = net \ {m}
       /\ UNCHANGED <<electionVars, logVars, voteVars, applyVars, persisted, restarts>>

\* The same, past the end of the leader's log: panic.
AppendPanic(m) ==
    /\ m.type = "AEReply" /\ state[m.src] = "Leader" /\ m.success
    /\ m.firstIndex > LastIndex(m.src)
    /\ Panic
    /\ UNCHANGED <<electionVars, logVars, leaderVars, voteVars, applyVars, commitIndex,
                   persisted, net, restarts, committed>>

\* A higher term: the leader turns into a follower, but keeps its own term.
StepDownOnAppend(m) ==
    LET i == m.src
    IN /\ Running
       /\ m.type = "AEReply" /\ state[i] = "Leader" /\ ~ m.success
       /\ m.term > currentTerm[i]
       /\ state' = [state EXCEPT ![i] = "Follower"]
       /\ votedFor' = [votedFor EXCEPT ![i] = None]
       /\ UNCHANGED <<currentTerm, logVars>>
       /\ Persist(i)
       /\ net' = net \ {m}
       /\ UNCHANGED <<leaderVars, voteVars, applyVars, commitIndex, restarts, committed>>

\* Where the next attempt for the peer that sent m should start: the last entry
\* of the conflicting term if the leader has it, or the peer's hint.
Hint(i, m) ==
    LET last == {k \in (snapshotIndex[i] + 1)..LastIndex(i) :
                    /\ At(i, k).term = m.conflictTerm
                    /\ \A l \in (k + 1)..LastIndex(i) : At(i, l).term # m.conflictTerm}
    IN IF m.conflictTerm = 0 \/ last = {} THEN m.firstIndex
       ELSE MinOf(CHOOSE k \in last : TRUE, m.firstIndex)

\* Variant of BackOffIndex with the bounds swapped.
BackOffToEnd(i, m) == MaxOf(MaxOf(Hint(i, m), snapshotIndex[i] + 1), LastIndex(i) + 1)

\* nextIndex is kept within the log; it moves back by one when it would not move.
BackOffIndex(i, m) ==
    LET next == MinOf(MaxOf(Hint(i, m), snapshotIndex[i] + 1), LastIndex(i) + 1)
    IN IF next = nextIndex[i][m.dst] THEN MaxOf(next - 1, snapshotIndex[i]) ELSE next

\* consistencyCheckReplyHandler, failure: back off, or send the snapshot at once.
BackOff(m) ==
    LET i == m.src
        snap == snapshotIndex[i] # 0 /\ Hint(i, m) <= snapshotIndex[i]
    IN /\ Running
       /\ m.type = "AEReply" /\ state[i] = "Leader" /\ ~ m.success
       /\ m.term <= currentTerm[i]
       /\ nextIndex' = [nextIndex EXCEPT ![i][m.dst] =
                           IF snap THEN Hint(i, m) ELSE BackOffIndex(i, m)]
       /\ net' = (net \ {m}) \cup (IF snap THEN {SnapshotCall(i, m.dst)} ELSE {})
       /\ UNCHANGED <<electionVars, logVars, matchIndex, voteVars, applyVars, commitIndex,
                      persisted, restarts, committed>>

\* Any reply to a leader's call that finds no leader is ignored.
IgnoreReply(m) ==
    /\ m.type \in {"AEReply", "ISReply"} /\ state[m.src] # "Leader"
    /\ Drop(m)
-----------------------------------------------------------------------------
(* Snapshots                                                               *)

SnapshotReply(m) ==
    [type |-> "ISReply", src |-> m.src, dst |-> m.dst, live |-> TRUE,
     term |-> currentTerm[m.dst]]

\* InstallSnapshot of an old term, or of a snapshot i already has.
InstallIgnored(m) ==
    /\ Running
    /\ m.type = "IS"
    /\ \/ m.term < currentTerm[m.dst]
       \/ m.lastIncludedIndex <= snapshotIndex[m.dst]
    /\ Answer(m, SnapshotReply(m))
    /\ UNCHANGED <<electionVars, logVars, leaderVars, voteVars, applyVars, commitIndex,
                   persisted, restarts, committed>>

\* Variant of LogAfterSnapshot: the placeholder forgets the snapshot's term.
LogAfterUntermed(i, m) ==
    <<[term |-> 0, cmd |-> None]>> \o
        SubSeq(logs[i], m.lastIncludedIndex - snapshotIndex[i] + 2, Len(logs[i]))

\* Variant of LogAfterSnapshot: there is no placeholder.
LogAfterTail(i, m) ==
    SubSeq(logs[i], m.lastIncludedIndex - snapshotIndex[i] + 2, Len(logs[i]))

\* The log after a snapshot: the entries behind it stay, if there are any.
LogAfterSnapshot(i, m) ==
    <<[term |-> m.lastIncludedTerm, cmd |-> None]>> \o
        SubSeq(logs[i], m.lastIncludedIndex - snapshotIndex[i] + 2, Len(logs[i]))

\* InstallSnapshot.  Neither the term nor the state changes, and both indices
\* are set back to the snapshot.  rf.mu is held while the service receives it.
InstallSnapshot(m) ==
    LET i == m.dst
    IN /\ Running
       /\ m.type = "IS"
       /\ m.term >= currentTerm[i] /\ m.lastIncludedIndex > snapshotIndex[i]
       /\ logs' = [logs EXCEPT ![i] = LogAfterSnapshot(i, m)]
       /\ snapshotIndex' = [snapshotIndex EXCEPT ![i] = m.lastIncludedIndex]
       /\ snapshotTerm' = [snapshotTerm EXCEPT ![i] = m.lastIncludedTerm]
       /\ commitIndex' = [commitIndex EXCEPT ![i] = m.lastIncludedIndex]
       /\ lastApplied' = [lastApplied EXCEPT ![i] = m.lastIncludedIndex]
       /\ UNCHANGED electionVars
       /\ Persist(i)
       /\ Answer(m, SnapshotReply(m))
       /\ UNCHANGED <<leaderVars, voteVars, handed, applied, restarts, committed>>

\* replayHandler of sendSnapshot: step down, without persisting the term.
StepDownOnSnapshot(m) ==
    LET i == m.src
    IN /\ Running
       /\ m.type = "ISReply" /\ state[i] = "Leader"
       /\ m.term > currentTerm[i]
       /\ currentTerm' = [currentTerm EXCEPT ![i] = m.term]
       /\ state' = [state EXCEPT ![i] = "Follower"]
       /\ votedFor' = [votedFor EXCEPT ![i] = None]
       /\ net' = net \ {m}
       /\ UNCHANGED <<logVars, leaderVars, voteVars, applyVars, commitIndex, persisted,
                      restarts, committed>>

\* replayHandler of sendSnapshot: the peer is at the leader's present snapshot.
SnapshotAccepted(m) ==
    LET i == m.src
    IN /\ Running
       /\ m.type = "ISReply" /\ state[i] = "Leader"
       /\ m.term <= currentTerm[i]
       /\ matchIndex' = [matchIndex EXCEPT ![i][m.dst] = snapshotIndex[i]]
       /\ nextIndex' = [nextIndex EXCEPT ![i][m.dst] = snapshotIndex[i] + 1]
       /\ net' = net \ {m}
       /\ UNCHANGED <<electionVars, logVars, voteVars, applyVars, commitIndex, persisted,
                      restarts, committed>>

\* NewSnapShot, called by the service for a message it has applied.
NewSnapShot(i, index) ==
    LET tail == SubSeq(logs[i], index - snapshotIndex[i] + 1, Len(logs[i]))
    IN /\ SnapshotsOn
       /\ index <= handed[i]
       /\ index <= commitIndex[i] /\ index > snapshotIndex[i]
       /\ IF index <= LastIndex(i)
          THEN /\ logs' = [logs EXCEPT ![i] = tail]
               /\ snapshotIndex' = [snapshotIndex EXCEPT ![i] = index]
               /\ snapshotTerm' = [snapshotTerm EXCEPT ![i] = tail[1].term]
               /\ Running
               /\ UNCHANGED electionVars
               /\ Persist(i)
          ELSE /\ Panic     \* of the slice expression
               /\ UNCHANGED <<electionVars, logVars, persisted>>
       /\ UNCHANGED <<leaderVars, voteVars, applyVars, commitIndex, net, restarts, committed>>
-----------------------------------------------------------------------------
(* The apply loop, crashes                                                 *)

\* applyLogEntryDaemon takes the committed entries and sends them to the service.
\* The slice expression panics below the log's start, and above its end unless
\* the array behind the slice is long enough: then it yields whatever entries
\* that array still holds.
TakeBatch(i) ==
    LET want == (lastApplied[i] + 1)..commitIndex[i]
        stale == {k \in want : k > LastIndex(i)}
        cmd(k, junk) == IF k \in stale THEN junk[k] ELSE At(i, k).cmd
    IN /\ lastApplied[i] < commitIndex[i] /\ lastApplied[i] < MaxApplied
       /\ \/ /\ Running
             /\ lastApplied[i] + 1 >= snapshotIndex[i]
             /\ lastApplied' = [lastApplied EXCEPT ![i] = commitIndex[i]]
             /\ handed' = [handed EXCEPT ![i] = MaxOf(@, commitIndex[i])]
             /\ \E junk \in [stale -> Command \cup {None}] :
                   applied' = applied \cup {<<k, cmd(k, junk)>> : k \in want}
          \/ /\ Panic
             /\ ~ (lastApplied[i] + 1 >= snapshotIndex[i] /\ stale = {})
             /\ UNCHANGED applyVars
       /\ UNCHANGED <<electionVars, logVars, leaderVars, voteVars, commitIndex,
                      persisted, net, restarts, committed>>

\* Variant of RestartIndex: both indices start from zero.
RestartFromZero(i) == 0

\* Make: commitIndex and lastApplied of a new instance.
RestartIndex(i) == persisted[i].snapshotIndex

\* crash1 and start1 of the harness, with Make and readPersist: the new instance
\* starts from what was persisted.  Requests to the old instance and replies to it
\* are lost, its own requests are orphaned.
Restart(i) ==
    LET p == persisted[i]
        zero == [n \in Server |-> 0]
        kept == {m \in net : ~ (m.dst = i /\ m.type \in {"RV", "AE", "IS"})
                             /\ ~ (m.src = i /\ m.type \in {"RVReply", "AEReply", "ISReply"})}
    IN /\ Running
       /\ restarts < MaxRestarts
       /\ restarts' = restarts + 1
       /\ state' = [state EXCEPT ![i] = "Follower"]
       /\ currentTerm' = [currentTerm EXCEPT ![i] = p.term]
       /\ votedFor' = [votedFor EXCEPT ![i] = p.votedFor]
       /\ logs' = [logs EXCEPT ![i] = p.logs]
       /\ snapshotIndex' = [snapshotIndex EXCEPT ![i] = p.snapshotIndex]
       /\ snapshotTerm' = [snapshotTerm EXCEPT ![i] = p.snapshotTerm]
       /\ commitIndex' = [commitIndex EXCEPT ![i] = RestartIndex(i)]
       /\ lastApplied' = [lastApplied EXCEPT ![i] = RestartIndex(i)]
       /\ handed' = [handed EXCEPT ![i] = RestartIndex(i)]
       /\ votes' = [votes EXCEPT ![i] = [t \in Term |-> {}]]
       /\ nextIndex' = [nextIndex EXCEPT ![i] = zero]
       /\ matchIndex' = [matchIndex EXCEPT ![i] = zero]
       /\ net' = {IF m.src = i THEN [m EXCEPT !.live = FALSE] ELSE m : m \in kept}
       /\ UNCHANGED <<persisted, ballot, grants, elected, anomaly, committed, applied>>
-----------------------------------------------------------------------------
(* The specification                                                       *)

\* Make of a peer that has never run: an empty Persister.
Init ==
    /\ currentTerm = [i \in Server |-> 0]
    /\ votedFor = [i \in Server |-> None]
    /\ state = [i \in Server |-> "Follower"]
    /\ logs = [i \in Server |-> <<[term |-> 0, cmd |-> None]>>]
    /\ snapshotIndex = [i \in Server |-> 0]
    /\ snapshotTerm = [i \in Server |-> 0]
    /\ commitIndex = [i \in Server |-> 0]
    /\ lastApplied = [i \in Server |-> 0]
    /\ nextIndex = [i \in Server |-> [n \in Server |-> 0]]
    /\ matchIndex = [i \in Server |-> [n \in Server |-> 0]]
    /\ votes = [i \in Server |-> [t \in Term |-> {}]]
    /\ persisted = [i \in Server |-> StateData(i)]
    /\ handed = [i \in Server |-> 0]
    /\ net = {} /\ restarts = 0 /\ fault = FALSE
    /\ ballot = [i \in Server |-> 0]
    /\ grants = {} /\ elected = {} /\ anomaly = FALSE
    /\ committed = {} /\ applied = {}

\* What a peer does on its own: timers, daemons and calls of its service.
Local(i) ==
    \/ CanvassVotes(i)
    \/ \E n \in Server : ConsistencyCheck(i, n)
    \/ \E c \in Command : Start(i, c)
    \/ \E k \in 1..MaxIndex : NewSnapShot(i, k)
    \/ TakeBatch(i)
    \/ Restart(i)

\* What happens to a call: it is served, it returns, or it is lost.
OnCall(m) ==
    \/ RequestVote(m)
    \/ StepDownOnVote(m) \/ BecomeLeader(m) \/ CountVote(m) \/ IgnoreVote(m)
    \/ AppendStale(m) \/ AppendPast(m) \/ AppendMatch(m) \/ AppendMismatch(m)
    \/ AppendAccepted(m) \/ AppendPanic(m) \/ StepDownOnAppend(m) \/ BackOff(m)
    \/ IgnoreReply(m)
    \/ InstallIgnored(m) \/ InstallSnapshot(m)
    \/ StepDownOnSnapshot(m) \/ SnapshotAccepted(m)
    \/ Drop(m)

Next == (\E i \in Server : Local(i)) \/ (\E m \in net : OnCall(m))

Spec == Init /\ [][Next]_vars
-----------------------------------------------------------------------------
(* Properties                                                              *)

\* Every variable keeps its type: terms stay within the bound, logs are never
\* empty, indices are natural numbers, calls in flight are well formed.
TypeOK ==
    /\ currentTerm \in [Server -> Term]
    /\ votedFor \in [Server -> Server \cup {None}]
    /\ state \in [Server -> {"Follower", "Candidate", "Leader"}]
    /\ logs \in [Server -> Seq(Entry) \ {<<>>}]
    /\ snapshotIndex \in [Server -> Nat] /\ snapshotTerm \in [Server -> Term]
    /\ commitIndex \in [Server -> Nat] /\ lastApplied \in [Server -> Nat]
    /\ nextIndex \in [Server -> [Server -> Nat]]
    /\ matchIndex \in [Server -> [Server -> Nat]]
    /\ votes \in [Server -> [Term -> SUBSET Server]]
    /\ persisted \in [Server -> SavedState]
    /\ handed \in [Server -> Nat]
    /\ net \subseteq Message
    /\ restarts \in Nat /\ fault \in BOOLEAN
    /\ ballot \in [Server -> Term]
    /\ grants \subseteq Server \X Server \X Term
    /\ elected \subseteq Term \X Server
    /\ anomaly \in BOOLEAN
    /\ committed \subseteq [index : Nat, entry : Entry, at : Term]
    /\ applied \subseteq Nat \X (Command \cup {None})

\* RequestVote: no peer grants its vote to two candidates in one term, also not
\* across a crash: the vote is persisted before the reply leaves.
NoDoubleGrant ==
    \A g, h \in grants : g[1] = h[1] /\ g[3] = h[3] => g[2] = h[2]

\* canvassVotes: two peers that lead at the same time won elections of different
\* terms.
BallotSafety ==
    \A i, j \in Server :
        state[i] = "Leader" /\ state[j] = "Leader" /\ ballot[i] = ballot[j] => i = j

\* Nothing that went wrong in an election so far: no peer won with votes of an
\* older election, no term was won twice, no term went back on a vote's reply.
RegularElections == ~ anomaly

\* persist: a restart loses no log entry and no snapshot index.
LogDurable ==
    \A i \in Server : /\ persisted[i].logs = logs[i]
                      /\ persisted[i].snapshotIndex = snapshotIndex[i]
                      /\ persisted[i].snapshotTerm = snapshotTerm[i]

\* Log[0] stands for the snapshot, which never runs ahead of the commit index.
SnapshotCommitted ==
    \A i \in Server : /\ snapshotIndex[i] <= commitIndex[i]
                      /\ logs[i][1].term = snapshotTerm[i]

\* updateCommitIndex reads no entry beyond the leader's log.
MatchWithinLog ==
    \A i, n \in Server : state[i] = "Leader" => matchIndex[i][n] <= LastIndex(i)

\* updateCommitIndex and replyHandler: what a leader may count as committed is on a peer
\* that has voted for any other leader, the commit quorum being the smaller one when the
\* number of peers is even.
CommitMeetsElection ==
    \A i, l \in Server : \A v \in {matchIndex[l][n] : n \in Server} :
        state[i] = "Leader" /\ state[l] = "Leader" /\ IsTarget(matchIndex[l], v)
            => \E n \in Server : /\ matchIndex[l][n] >= v
                                  /\ (n = i \/ <<n, i, ballot[i]>> \in grants)

Holds(i, k) == k > snapshotIndex[i] /\ k <= LastIndex(i)

\* Two entries with the same index and term hold the same command.
EntryAgreement ==
    RegularElections =>
        \A i, j \in Server : \A k \in 1..MaxIndex :
            Holds(i, k) /\ Holds(j, k) /\ At(i, k).term = At(j, k).term
                => At(i, k).cmd = At(j, k).cmd

\* Log Matching: logs that agree on an entry's term agree on all before it.
LogMatching ==
    RegularElections =>
        \A i, j \in Server : \A k \in 1..MaxIndex :
            Holds(i, k) /\ Holds(j, k) /\ At(i, k).term = At(j, k).term
                => \A l \in MaxOf(snapshotIndex[i], snapshotIndex[j])..k :
                       At(i, l).term = At(j, l).term

\* Leader Completeness: a leader has every entry committed in its term or before.
LeaderCompleteness ==
    RegularElections =>
        \A i \in Server : \A c \in committed :
            state[i] = "Leader" /\ currentTerm[i] >= c.at /\ c.index > snapshotIndex[i]
                => c.index <= LastIndex(i) /\ At(i, c.index) = c.entry

\* State Machine Safety: no two services receive different commands for an index.
StateMachineSafety ==
    RegularElections =>
        \A a, b \in applied : a[1] = b[1] => a[2] = b[2]

\* The commit index stays within the log, and nothing panics.
NoFault ==
    RegularElections => ~ fault /\ \A i \in Server : commitIndex[i] <= LastIndex(i)
-----------------------------------------------------------------------------
(* What the repository's documents say without a condition                 *)

\* Election Safety: a term has at most one leader at a time.
ElectionSafety ==
    \A i, j \in Server :
        state[i] = "Leader" /\ state[j] = "Leader" /\ currentTerm[i] = currentTerm[j] => i = j
=============================================================================
