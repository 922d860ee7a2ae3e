------------------------------- MODULE MCRaft -------------------------------
(***************************************************************************)
(* Instances of Raft for TLC.                                              *)
(***************************************************************************)
EXTENDS Raft, TLC

Symmetry == Permutations(Server) \cup Permutations(Command)

\* The views leave out what no later step reads: the indices of a peer that is no
\* leader, the histories a run does not look at, and, where calls end in time
\* (Late = {}), the vote counters of a peer that is no candidate.
LeaderView == [i \in Server |-> IF state[i] = "Leader" THEN <<nextIndex[i], matchIndex[i]>>
                                                       ELSE <<>>]
VoteView == [i \in Server |-> IF state[i] = "Candidate" THEN votes[i] ELSE <<>>]
BallotView == [i \in Server |-> IF state[i] = "Follower" THEN 0 ELSE ballot[i]]
PeerView == <<electionVars, logVars, LeaderView, commitIndex, lastApplied, handed, net,
              restarts, fault>>
LogView == <<PeerView, VoteView, persisted, elected, anomaly, committed, applied>>
RecoveryView == <<LogView, BallotView, grants>>

Zero == [i \in Server |-> 0]

\* What all the initial states below share: the given calls are in flight, there is
\* no snapshot, nothing is applied, nobody has counted votes.
Quiet(calls) ==
    /\ snapshotIndex = Zero /\ lastApplied = Zero /\ handed = Zero
    /\ votes = [i \in Server |-> [t \in Term |-> {}]]
    /\ anomaly = FALSE /\ net = calls /\ restarts = 0 /\ fault = FALSE /\ applied = {}

Placeholder == [term |-> 0, cmd |-> None]
TermEntry(t) == [term |-> t, cmd |-> CHOOSE c \in Command : TRUE]

\* Peer l leads term 1 with the vote of v; the call to the third peer was lost.
TermOne(l, v) ==
    /\ l # v
    /\ currentTerm = [i \in Server |-> IF i \in {l, v} THEN 1 ELSE 0]
    /\ votedFor = [i \in Server |-> IF i \in {l, v} THEN l ELSE None]
    /\ state = [i \in Server |-> IF i = l THEN "Leader" ELSE "Follower"]
    /\ ballot = [i \in Server |-> IF i = l THEN 1 ELSE 0]
    /\ grants = {<<v, l, 1>>} /\ elected = {<<1, l>>}

\* The election has just been won.
LedInit ==
    \E l, v \in Server :
        /\ TermOne(l, v)
        /\ Quiet({})
        /\ logs = [i \in Server |-> <<Placeholder>>] /\ snapshotTerm = Zero
        /\ nextIndex = [i \in Server |-> [n \in Server |-> IF i = l THEN 1 ELSE 0]]
        /\ matchIndex = [i \in Server |-> Zero]
        /\ persisted = [i \in Server |-> [StateData(i) EXCEPT
                           !.term = IF i = v THEN 1 ELSE 0,
                           !.votedFor = IF i = v THEN l ELSE None]]
        /\ commitIndex = Zero /\ committed = {}

\* p has led term 1, q leads term 2 and p leads again, term 3, each with a vote of r.
\* q has an entry of term 2 at index 1 that it has sent to nobody.  p has one of term t
\* there: of term 1 and sent to nobody, or of term 3 and committed with r.
ConflictInit ==
    \E p, q, r \in Server, t \in {1, 3} :
        LET entry(i) == TermEntry(IF i = q THEN 2 ELSE t)
            lacks(i) == i = r /\ t = 1
            done == IF t = 3 THEN {p} ELSE {}
        IN /\ Cardinality({p, q, r}) = 3
           /\ Quiet({})
           /\ currentTerm = [i \in Server |-> IF i = q THEN 2 ELSE 3]
           /\ votedFor = [i \in Server |-> IF i = q THEN q ELSE p]
           /\ state = [i \in Server |-> IF i = r THEN "Follower" ELSE "Leader"]
           /\ ballot = [i \in Server |-> IF i = r THEN 0 ELSE currentTerm[i]]
           /\ grants = {<<r, p, 1>>, <<r, q, 2>>, <<r, p, 3>>}
           /\ elected = {<<1, p>>, <<2, q>>, <<3, p>>}
           /\ logs = [i \in Server |-> <<Placeholder>> \o IF lacks(i) THEN <<>> ELSE <<entry(i)>>]
           /\ snapshotTerm = Zero
           /\ matchIndex = [i \in Server |-> [n \in Server |->
                  IF (i = n /\ i # r) \/ (i \in done /\ n = r) THEN 1 ELSE 0]]
           /\ nextIndex = [i \in Server |-> [n \in Server |->
                  CASE i = r -> 0
                    [] i = p /\ t = 1 -> 2
                    [] OTHER -> matchIndex[i][n] + 1]]
           /\ persisted = [i \in Server |->
                  [StateData(i) EXCEPT !.term = IF i = p THEN t ELSE @]]
           /\ commitIndex = [i \in Server |-> IF i \in done THEN 1 ELSE 0]
           /\ committed = {[index |-> 1, entry |-> entry(i), at |-> t] : i \in done}

LedSpec == LedInit /\ [][Next]_vars
ConflictSpec == ConflictInit /\ [][Next]_vars
=============================================================================
