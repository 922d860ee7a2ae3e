----------------------------- MODULE RaftCatchUp -----------------------------
(***************************************************************************)
(* A leader that has just been elected brings one follower up to date: the *)
(* heartbeats of heartbeatDaemon, the back-off of nextIndex and the        *)
(* snapshots sent on the way, for every pair of logs an election may find. *)
(* The peers, their handlers and the network are those of Raft; nobody     *)
(* else acts and no command arrives.                                       *)
(***************************************************************************)
EXTENDS Raft, FiniteSetsExt

CONSTANTS
    Lead, Follow,   \* the two peers
    SnapshotAhead   \* the follower's snapshot may be ahead of the leader's

ASSUME RoleAssumption ==
    /\ Lead \in Server /\ Follow \in Server /\ Lead # Follow
    /\ SnapshotAhead \in BOOLEAN

\* The terms of a log's entries, for elections below MaxTerm.
TermLogs ==
    {s \in UNION {[1..n -> 1..(MaxTerm - 1)] : n \in 0..MaxIndex} :
        \A k \in 2..Len(s) : s[k - 1] <= s[k]}

\* The entries of a term come from the log of one leader: two logs that hold some
\* have the first of them at the same place and agree before it.
SameLeaders(s, u) ==
    \A t \in 1..(MaxTerm - 1) : \A j \in 1..Len(s), k \in 1..Len(u) :
        s[j] = t /\ u[k] = t =>
            \E f \in 1..MinOf(j, k) :
                s[f] = t /\ u[f] = t /\ \A x \in 1..(f - 1) : s[x] = u[x] /\ s[x] # t

CommonPrefix(s, u) ==
    Max({p \in 0..MinOf(Len(s), Len(u)) : \A x \in 1..p : s[x] = u[x]})

\* Logs that holds s and starts at the snapshot of index snap.
LogFrom(s, snap) ==
    LET entry(k) == [term |-> s[k], cmd |-> CHOOSE c \in Command : TRUE]
    IN [k \in 1..(Len(s) - snap + 1) |->
           IF snap + k = 1 THEN [term |-> 0, cmd |-> None] ELSE entry(snap + k - 1)]

\* Lead has won the election of MaxTerm with the votes of the others, whose logs
\* equal its own; Follow was cut off, and may have led a term itself.  Snapshots
\* cover committed entries only, which all logs share.
CatchUpInit ==
    \E s, u \in TermLogs : \E a, b \in 0..MaxIndex :
        LET log(i) == CASE i = Lead -> LogFrom(s, a)
                        [] i = Follow -> LogFrom(u, b)
                        [] OTHER -> LogFrom(s, 0)
            snap == [i \in Server |-> CASE i = Lead -> a [] i = Follow -> b [] OTHER -> 0]
        IN /\ SameLeaders(s, u)
           /\ a <= CommonPrefix(s, u) /\ b <= CommonPrefix(s, u)
           /\ SnapshotAhead \/ b <= a
           /\ currentTerm = [i \in Server |-> MaxTerm]
           /\ votedFor = [i \in Server |-> Lead]
           /\ state = [i \in Server |-> IF i = Lead THEN "Leader" ELSE "Follower"]
           /\ logs = [i \in Server |-> log(i)]
           /\ snapshotIndex = snap
           /\ snapshotTerm = [i \in Server |-> log(i)[1].term]
           /\ commitIndex = snap /\ lastApplied = snap /\ handed = snap
           /\ nextIndex = [i \in Server |->
                              [n \in Server |-> IF i = Lead THEN Len(s) + 1 ELSE 0]]
           /\ matchIndex = [i \in Server |->
                              [n \in Server |-> IF i = Lead /\ n = i THEN Len(s) ELSE 0]]
           /\ votes = [i \in Server |-> [t \in Term |-> {}]]
           /\ persisted = [i \in Server |-> StateData(i)]
           /\ net = {} /\ restarts = 0 /\ fault = FALSE
           /\ ballot = [i \in Server |-> IF i = Lead THEN MaxTerm ELSE 0]
           /\ grants = {} /\ elected = {<<MaxTerm, Lead>>} /\ anomaly = FALSE
           /\ committed = {} /\ applied = {}

CatchUpNext == ConsistencyCheck(Lead, Follow) \/ (\E m \in net : OnCall(m))

\* The follower serves a call; the leader handles its reply.
Serve(m) ==
    \/ AppendPast(m) \/ AppendMatch(m) \/ AppendMismatch(m)
    \/ InstallIgnored(m) \/ InstallSnapshot(m)
HandleReply(m) == AppendAccepted(m) \/ BackOff(m) \/ SnapshotAccepted(m)

\* heartbeatDaemon beats for ever.  Calls may be lost, each with a fixed
\* probability: of infinitely many, infinitely many get through.
CatchUpSpec ==
    /\ CatchUpInit /\ [][CatchUpNext]_vars
    /\ WF_vars(ConsistencyCheck(Lead, Follow))
    /\ SF_vars(\E m \in net : Serve(m))
    /\ SF_vars(\E m \in net : HandleReply(m))

InSync ==
    /\ LastIndex(Follow) = LastIndex(Lead)
    /\ \A k \in 1..LastIndex(Lead) :
          Holds(Lead, k) /\ Holds(Follow, k) => At(Lead, k) = At(Follow, k)

\* The follower deletes what differs and ends up with the leader's log.
EventuallyInSync == <>[]InSync
=============================================================================
