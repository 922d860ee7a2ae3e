---------------------------- MODULE MCKVService ----------------------------
(***************************************************************************)
(* Instances of KVService for TLC.                                         *)
(***************************************************************************)
EXTENDS KVService

CONSTANTS writer, other    \* clerks

\* One clerk appends, the other reads and overwrites.
WriterAndOther == [c \in Clerk |-> IF c = writer THEN {"Append"} ELSE {"Get", "Put"}]
Appends == [c \in Clerk |-> {"Append"}]

\* The view leaves out what no later step reads: the leader and the result of a clerk
\* that has made its calls, whether a call can only fail or only time out, a snapshot
\* that every server has, and, without snapshots, the log of a follower that lacks
\* committed entries.
Over(c) == op[c] = None /\ seq[c] > MaxSeq
CallView == [c \in Clerk |-> IF call[c].stage = "failed" THEN [call[c] EXCEPT !.stage = "hung"]
                             ELSE call[c]]
SnapshotView == IF shipped # None /\ \E s \in Server : snapshotIndex[s] < shipped.index
                THEN shipped ELSE None
LogView == [s \in Server |-> IF SnapshotsOn \/ lead[s] # 0 \/ IsPrefix(committed, rlog[s])
                             THEN rlog[s] ELSE <<>>]
View == <<seq, op, [c \in Clerk |-> IF Over(c) THEN <<>> ELSE <<leader[c], since[c], result[c]>>],
          CallView, stray, term, lead, committed, LogView, raftVars, kv, daemon, disk, SnapshotView,
          restarts>>

\* The first election is over, server 0 has won it.
LedInit == Booted /\ term = 1 /\ lead = [s \in Server |-> IF s = 0 THEN 1 ELSE 0]
LedSpec == LedInit /\ [][Next]_vars
============================================================================
