----------------------------- MODULE KVService -----------------------------
(***************************************************************************)
(* The key/value service of src/kvraft: clerks that retry, the RPC         *)
(* handlers Get and PutAppend, applyDaemon with duplicate detection, and   *)
(* snapshots with their Persister, across crashes.                         *)
(*                                                                         *)
(* Raft appears as the service sees it: GetState, Start, the messages on   *)
(* applyCh, NewSnapShot and InstallSnapshot of src/raft/raft.go.  Elections*)
(* and replication behind them are reduced to what module Raft establishes *)
(* about them: one sequence of committed entries, which the log of every   *)
(* newly elected leader extends.                                           *)
(***************************************************************************)
EXTENDS Integers, Sequences, FiniteSets

CONSTANTS
    Clerk,          \* the clerks
    NumServers,     \* the number of servers
    Key,            \* keys
    Kinds,          \* for each clerk what it calls, of {"Get", "Put", "Append"}
    None,
    MaxSeq,         \* bound: calls of a clerk
    MaxTerm,        \* bound: elections
    MaxLog,         \* bound: length of a log
    MaxStray,       \* bound: requests their clerk has given up, before they are served
    MaxRestarts,    \* bound: crashes
    SnapshotsOn,    \* maxraftstate >= 0
    Rollback        \* a snapshot may reach a server that has applied more than it

ASSUME ServiceAssumption ==
    /\ IsFiniteSet(Clerk) /\ NumServers \in Nat \ {0}
    /\ Kinds \in [Clerk -> SUBSET {"Get", "Put", "Append"}]
    /\ {MaxSeq, MaxTerm, MaxLog, MaxStray, MaxRestarts} \subseteq Nat
    /\ SnapshotsOn \in BOOLEAN /\ Rollback \in BOOLEAN

Server == 0..(NumServers - 1)
Op == {o \in [kind : {"Get", "Put", "Append"}, key : Key, client : Clerk, seq : 1..MaxSeq] :
          o.kind \in Kinds[o.client]}

ASSUME NoneAssumption == None \notin Clerk /\ None \notin Op

VARIABLES
    seq, leader,    \* fields of a Clerk; leader after "ck.leader %= cnt"
    op,             \* the call a clerk is in, or None
    call,           \* the RPC it waits for, and how far its handler is
    stray,          \* requests not yet through, for which no clerk waits
    term,           \* the highest term with a leader
    lead,           \* the term a server believes to lead, or 0
    rlog,           \* the log of a server, the entries in its snapshot included
    committed,      \* the entries that are committed
    lastApplied, snapshotIndex,     \* of Raft; commitIndex is lastApplied or ahead of it
    batch,          \* the indices applyLogEntryDaemon has taken and not sent yet
    incoming,       \* the snapshot InstallSnapshot is at work on, or None
    kv,             \* db, duplicate and snapshotIndex of a KVServer
    daemon,         \* where applyDaemon is
    disk,           \* the Persister: Raft's snapshotIndex and the snapshot
    shipped,        \* the last snapshot sent to other servers, or None
    restarts,
    since,          \* history: how much was committed when a clerk's call began
    result,         \* history: what the last Get of a clerk returned
    replay          \* history: what the first n committed commands make of a new server

clerkVars == <<seq, leader, op, since, result>>
electVars == <<term, lead, rlog, committed, replay>>
raftVars == <<lastApplied, snapshotIndex, batch, incoming>>
vars == <<clerkVars, call, stray, electVars, raftVars, kv, daemon, disk, shipped, restarts>>

\* GetState, Start, NewSnapShot and the daemons of Raft wait for rf.mu, which
\* InstallSnapshot keeps until it has saved; the handlers wait for kv.mu, which
\* applyDaemon keeps until NewSnapShot has returned.
RaftFree(s) == incoming[s] = None
ServiceFree(s) == daemon[s].at # "compact"

\* Log t holds all of log s: what RequestVote's comparison of logs is for.
IsPrefix(s, t) == Len(s) <= Len(t) /\ \A i \in 1..Len(s) : s[i] = t[i]
-----------------------------------------------------------------------------
(* The state machine: what applyDaemon does with a command                 *)

\* The value a command leaves under its key.  A value is the sequence of the writes
\* that made it; the zero value of a missing key is the empty one.
Written(o, value) ==
    CASE o.kind = "Get" -> value
      [] o.kind = "Put" -> <<<<o.client, o.seq>>>>
      [] o.kind = "Append" -> Append(value, <<o.client, o.seq>>)

\* Variant of Fresh: the last command counts as new again.
FreshOrLast(k, o) == k.duplicate[o.client].seq <= o.seq

\* The command is new to the table of duplicates.
Fresh(k, o) == k.duplicate[o.client].seq < o.seq

Applied(k, o) ==
    IF ~ Fresh(k, o) THEN k
    ELSE [k EXCEPT !.db[o.key] = Written(o, @),
                   !.duplicate[o.client] =
                       [seq |-> o.seq, value |-> IF o.kind = "Get" THEN k.db[o.key] ELSE <<>>]]

-----------------------------------------------------------------------------
(* The clerk                                                               *)

\* A call's index and term count while its handler waits, its value in the reply.
NoCall == [stage |-> "none", server |-> 0, index |-> 0, term |-> 0, value |-> <<>>]
Sent(s) == [NoCall EXCEPT !.stage = "sent", !.server = s]
Reply(s, v) == [Sent(s) EXCEPT !.stage = "ok", !.value = v]
Failed(s) == [Sent(s) EXCEPT !.stage = "failed"]

\* Get, Put or Append is called; the first RPC goes to the last known leader.
Begin(c, o) ==
    /\ op[c] = None /\ o.client = c /\ o.seq = seq[c]
    /\ op' = [op EXCEPT ![c] = o]
    /\ call' = [call EXCEPT ![c] = Sent(leader[c])]
    /\ since' = [since EXCEPT ![c] = Len(committed)]
    /\ UNCHANGED <<seq, leader, result, stray, electVars, raftVars, kv, daemon, disk,
                   shipped, restarts>>

\* Variant of Following: leader++ without the remainder.
FollowingUnbounded(s) == s + 1

\* leader++, and leader %= cnt in the next round.
Following(s) == (s + 1) % NumServers

\* The loop goes on with the next server.
NextServer(c) ==
    /\ leader' = [leader EXCEPT ![c] = Following(@)]
    /\ call' = [call EXCEPT ![c] = Sent(leader'[c])]
    /\ UNCHANGED <<seq, op, since, result, electVars, raftVars, kv, daemon, disk,
                   shipped, restarts>>

\* 200 ms have passed.  The RPC goes on without its clerk; behind Start its handler
\* has nothing left to do but to answer.
TimeOut(c) ==
    /\ op[c] # None
    /\ stray' = stray \cup (IF call[c].stage \in {"sent", "checked"}
                            THEN {[op |-> op[c], server |-> call[c].server]} ELSE {})
    /\ Cardinality(stray') <= MaxStray
    /\ NextServer(c)

\* The request or the reply is lost, the server has died, or the reply says WrongLeader.
CallFails(c) ==
    /\ call[c].stage \in {"sent", "ok", "failed"}
    /\ NextServer(c)
    /\ UNCHANGED stray

\* A reply without WrongLeader ends the call.
Return(c) ==
    /\ call[c].stage = "ok"
    /\ seq' = [seq EXCEPT ![c] = @ + 1]
    /\ op' = [op EXCEPT ![c] = None]
    /\ call' = [call EXCEPT ![c] = NoCall]
    /\ result' = [result EXCEPT ![c] = IF op[c].kind = "Get" THEN call[c].value ELSE @]
    /\ since' = [since EXCEPT ![c] = 0]
    /\ UNCHANGED <<leader, stray, electVars, raftVars, kv, daemon, disk, shipped, restarts>>
-----------------------------------------------------------------------------
(* Raft, as the service sees it                                            *)

\* s wins the next election.  Its log is what it has received of some log, all that
\* is committed included.
Elect(s) ==
    /\ RaftFree(s) /\ term < MaxTerm
    /\ \E l \in Server, n \in Len(committed)..MaxLog :
           /\ n <= Len(rlog[l]) /\ IsPrefix(committed, rlog[l])
           /\ rlog' = [rlog EXCEPT ![s] = SubSeq(rlog[l], 1, n)]
    /\ term' = term + 1
    /\ lead' = [lead EXCEPT ![s] = term + 1]
    /\ UNCHANGED <<clerkVars, call, stray, committed, replay, raftVars, kv, daemon, disk, shipped,
                   restarts>>

\* s hears of another leader, or gets no answers.
StepDown(s) ==
    /\ RaftFree(s) /\ lead[s] # 0
    /\ lead' = [lead EXCEPT ![s] = 0]
    /\ UNCHANGED <<clerkVars, call, stray, term, rlog, committed, replay, raftVars, kv, daemon, disk,
                   shipped, restarts>>

\* The leader of the highest term finds its next entry on a majority.
Commit(s) ==
    /\ RaftFree(s) /\ lead[s] = term
    /\ Len(committed) < Len(rlog[s])
    /\ LET e == rlog[s][Len(committed) + 1]
       IN /\ committed' = Append(committed, e)
          /\ replay' = Append(replay, Applied(replay[Len(replay)], e.op))
    /\ UNCHANGED <<clerkVars, call, stray, term, lead, rlog, raftVars, kv, daemon, disk, shipped,
                   restarts>>

\* commitIndex of s catches up, and applyLogEntryDaemon copies the new part of the log
\* for one round.  A server whose log differs has heard of it from the leader, and
\* follows.  A commitIndex ahead of lastApplied is visible to nobody else.
TakeBatch(s) ==
    /\ RaftFree(s) /\ batch[s] = {}
    /\ snapshotIndex[s] <= lastApplied[s] + 1
    /\ lastApplied[s] < Len(committed)
    /\ batch' = [batch EXCEPT ![s] = (lastApplied[s] + 1)..Len(committed)]
    /\ lastApplied' = [lastApplied EXCEPT ![s] = Len(committed)]
    /\ IF IsPrefix(committed, rlog[s])
       THEN UNCHANGED <<lead, rlog>>
       ELSE /\ lead' = [lead EXCEPT ![s] = 0]
            /\ rlog' = [rlog EXCEPT ![s] = committed]
    /\ UNCHANGED <<clerkVars, call, stray, term, committed, replay, snapshotIndex, incoming, kv, daemon,
                   disk, shipped, restarts>>

\* A leader sends the snapshot of its Persister under the index Raft knows for it.  One
\* snapshot is in flight; it may arrive any time, or twice, until another is sent.
SendSnapshot(s) ==
    /\ RaftFree(s) /\ lead[s] # 0 /\ snapshotIndex[s] > 0
    /\ shipped' = [index |-> snapshotIndex[s], data |-> disk[s].snapshot]
    /\ UNCHANGED <<clerkVars, call, stray, electVars, raftVars, kv, daemon, disk, restarts>>

\* InstallSnapshot, in three steps under rf.mu: it finds the snapshot newer than its
\* own; applyDaemon takes it from applyCh; it is saved, with the log behind it.
InstallSnapshot(s) ==
    /\ RaftFree(s) /\ shipped # None /\ shipped.index > snapshotIndex[s]
    /\ Rollback \/ shipped.index >= lastApplied[s]
    /\ incoming' = [incoming EXCEPT ![s] = [index |-> shipped.index, data |-> shipped.data,
                                            sent |-> FALSE]]
    /\ UNCHANGED <<clerkVars, call, stray, electVars, lastApplied, snapshotIndex,
                   batch, kv, daemon, disk, shipped, restarts>>

HandOver(s) ==
    /\ ~ RaftFree(s) /\ ~ incoming[s].sent /\ daemon[s].at = "receive"
    /\ incoming' = [incoming EXCEPT ![s].sent = TRUE]
    /\ daemon' = [daemon EXCEPT ![s] = [at |-> "install", index |-> incoming[s].index,
                                        data |-> incoming[s].data]]
    /\ UNCHANGED <<clerkVars, call, stray, electVars, lastApplied, snapshotIndex,
                   batch, kv, disk, shipped, restarts>>

SaveInstalled(s) ==
    /\ ~ RaftFree(s) /\ incoming[s].sent
    /\ LET i == incoming[s].index
       IN /\ snapshotIndex' = [snapshotIndex EXCEPT ![s] = i]
          /\ lastApplied' = [lastApplied EXCEPT ![s] = i]
          /\ rlog' = [rlog EXCEPT ![s] = SubSeq(committed, 1, i) \o SubSeq(@, i + 1, Len(@))]
          /\ disk' = [disk EXCEPT ![s] = [snapshotIndex |-> i, snapshot |-> incoming[s].data]]
    /\ incoming' = [incoming EXCEPT ![s] = None]
    /\ UNCHANGED <<clerkVars, call, stray, term, lead, committed, replay, batch, kv, daemon, shipped,
                   restarts>>
-----------------------------------------------------------------------------
(* The RPC handlers Get and PutAppend                                      *)

Duplicate(s, o) == o.seq <= kv[s].duplicate[o.client].seq

\* Start's effect: a leader appends the command to its log.
Start(s, o) ==
    IF lead[s] = 0 THEN UNCHANGED rlog
    ELSE /\ Len(rlog[s]) < MaxLog
         /\ rlog' = [rlog EXCEPT ![s] = Append(@, [term |-> lead[s], op |-> o])]

\* The new channel replaces the one registered for the index; who waits for that one
\* waits forever.  Without a leader, Start returns the index -1, which nobody notifies.
Registered(c, s) ==
    [d \in Clerk |->
        IF d = c THEN IF lead[s] = 0 THEN [Sent(s) EXCEPT !.stage = "hung"]
                      ELSE [call[c] EXCEPT !.stage = "waiting", !.index = Len(rlog[s]) + 1,
                                           !.term = lead[s]]
        ELSE IF /\ lead[s] # 0 /\ call[d].stage = "waiting" /\ call[d].server = s
                /\ call[d].index = Len(rlog[s]) + 1
             THEN [Sent(s) EXCEPT !.stage = "hung"]
             ELSE call[d]]

HandlerRest == <<clerkVars, term, lead, committed, replay, raftVars, kv, daemon, disk, shipped,
                 restarts>>

\* The first GetState.
CheckLeader(c) ==
    /\ call[c].stage = "sent" /\ RaftFree(call[c].server)
    /\ call' = [call EXCEPT ![c] = IF lead[@.server] = 0 THEN Failed(@.server)
                                   ELSE [@ EXCEPT !.stage = "checked"]]
    /\ UNCHANGED <<HandlerRest, stray, rlog>>

\* Under kv.mu: an answer from the table of duplicates ...
AnswerDuplicate(c) ==
    LET s == call[c].server
    IN /\ call[c].stage = "checked" /\ ServiceFree(s)
       /\ Duplicate(s, op[c])
       /\ call' = [call EXCEPT ![c] = Reply(s, kv[s].duplicate[c].value)]
       /\ UNCHANGED <<HandlerRest, stray, rlog>>

\* ... or Start and a channel to wait on.
Submit(c) ==
    LET s == call[c].server
    IN /\ call[c].stage = "checked" /\ ServiceFree(s) /\ RaftFree(s)
       /\ ~ Duplicate(s, op[c])
       /\ Start(s, op[c])
       /\ call' = Registered(c, s)
       /\ UNCHANGED <<HandlerRest, stray>>

\* Whether the server has led since Start.
StillLeader(c) == lead[call[c].server] = call[c].term

\* The second GetState.
Confirm(c) ==
    /\ call[c].stage = "notified" /\ RaftFree(call[c].server)
    /\ call' = [call EXCEPT ![c] =
                   IF ~ StillLeader(c) THEN Failed(@.server)
                   ELSE IF op[c].kind # "Get" THEN Reply(@.server, <<>>)
                   ELSE [Sent(@.server) EXCEPT !.stage = "confirmed"]]
    /\ UNCHANGED <<HandlerRest, stray, rlog>>

ReadDb(c) ==
    LET s == call[c].server
    IN /\ call[c].stage = "confirmed" /\ ServiceFree(s)
       /\ call' = [call EXCEPT ![c] = Reply(s, kv[s].db[op[c].key])]
       /\ UNCHANGED <<HandlerRest, stray, rlog>>

\* A request nobody waits for goes through the same checks; what it leaves behind is the
\* command in the log, and its channel in place of another one.
StraySubmit(r) ==
    /\ ServiceFree(r.server) /\ RaftFree(r.server)
    /\ lead[r.server] # 0 /\ ~ Duplicate(r.server, r.op)
    /\ Start(r.server, r.op)
    /\ call' = Registered(None, r.server)
    /\ stray' = stray \ {r}
    /\ UNCHANGED HandlerRest

\* Or it is lost, or refused, or found to be a duplicate.
StrayEnds(r) ==
    /\ stray' = stray \ {r}
    /\ UNCHANGED <<HandlerRest, call, rlog>>
-----------------------------------------------------------------------------
(* applyDaemon                                                             *)

\* The handler that waits for index i at s is woken.
Notified(s, i) ==
    [c \in Clerk |-> IF call[c].stage = "waiting" /\ call[c].server = s /\ call[c].index = i
                     THEN [call[c] EXCEPT !.stage = "notified", !.index = 0] ELSE call[c]]

\* applyDaemon waits for a message.
Idle == [at |-> "receive", index |-> 0, data |-> None]

\* Variant of Generated: snapshotIndex is not moved.
GeneratedSameIndex(k, i) == k

\* What encoding db, snapshotIndex and duplicate with index i gives.
Generated(k, i) == [k EXCEPT !.index = i]

ApplyRest == <<clerkVars, stray, electVars, lastApplied, snapshotIndex, incoming,
               shipped, restarts>>

\* The saved Raft state is about to exceed maxraftstate; sizes are not modelled.
NeedSnapshot == SnapshotsOn

\* A command message is received.  Below the snapshot it is ignored; otherwise it is
\* applied, and where needed a snapshot is saved before NewSnapShot is called.
Receive(s) ==
    \E i \in batch[s] :
        LET k == Applied(kv[s], committed[i].op)
        IN /\ daemon[s].at = "receive" /\ \A j \in batch[s] : i <= j
           /\ batch' = [batch EXCEPT ![s] = @ \ {i}]
           /\ \/ /\ i <= kv[s].index
                 /\ UNCHANGED <<call, kv, daemon, disk>>
              \/ /\ i > kv[s].index
                 /\ kv' = [kv EXCEPT ![s] = k]
                 /\ call' = Notified(s, i)
                 /\ UNCHANGED <<daemon, disk>>
              \/ /\ NeedSnapshot /\ i > kv[s].index
                 /\ kv' = [kv EXCEPT ![s] = Generated(k, i)]
                 /\ disk' = [disk EXCEPT ![s].snapshot = Generated(k, i)]
                 /\ daemon' = [daemon EXCEPT ![s] = [Idle EXCEPT !.at = "compact", !.index = i]]
                 /\ UNCHANGED call
           /\ UNCHANGED ApplyRest

\* NewSnapShot, and the rest of applyDaemon's round.
Compact(s) ==
    LET i == daemon[s].index
    IN /\ daemon[s].at = "compact" /\ RaftFree(s)
       /\ IF lastApplied[s] < i \/ i <= snapshotIndex[s]
          THEN UNCHANGED <<snapshotIndex, disk>>
          ELSE /\ snapshotIndex' = [snapshotIndex EXCEPT ![s] = i]
               /\ disk' = [disk EXCEPT ![s] = [snapshotIndex |-> i, snapshot |-> kv[s]]]
       /\ call' = Notified(s, i)
       /\ daemon' = [daemon EXCEPT ![s] = Idle]
       /\ UNCHANGED <<clerkVars, stray, electVars, lastApplied, batch, incoming, kv,
                      shipped, restarts>>

\* Variant of ReadSnapshot: the table of duplicates is not decoded.
ReadSnapshotDb(data) == [data EXCEPT !.duplicate = [c \in Clerk |-> [seq |-> 0, value |-> <<>>]]]

\* What readSnapshot leaves of a snapshot: db, snapshotIndex and duplicate.
ReadSnapshot(data) == data

\* A snapshot message: it is read, and written again under the index of the message.
LoadSnapshot(s) ==
    LET k == Generated(ReadSnapshot(daemon[s].data), daemon[s].index)
    IN /\ daemon[s].at = "install"
       /\ kv' = [kv EXCEPT ![s] = k]
       /\ disk' = [disk EXCEPT ![s].snapshot = k]
       /\ daemon' = [daemon EXCEPT ![s] = Idle]
       /\ UNCHANGED <<call, ApplyRest, batch>>

\* The server is killed and StartKVServer called on its Persister.
Restart(s) ==
    /\ restarts < MaxRestarts
    /\ restarts' = restarts + 1
    /\ lead' = [lead EXCEPT ![s] = 0]
    /\ snapshotIndex' = [snapshotIndex EXCEPT ![s] = disk[s].snapshotIndex]
    /\ lastApplied' = [lastApplied EXCEPT ![s] = disk[s].snapshotIndex]
    /\ batch' = [batch EXCEPT ![s] = {}]
    /\ incoming' = [incoming EXCEPT ![s] = None]
    /\ kv' = [kv EXCEPT ![s] = ReadSnapshot(disk[s].snapshot)]
    /\ daemon' = [daemon EXCEPT ![s] = Idle]
    /\ call' = [c \in Clerk |->
                   IF call[c].server = s /\ call[c].stage \notin {"none", "sent", "ok"}
                   THEN Failed(s) ELSE call[c]]
    /\ UNCHANGED <<clerkVars, stray, term, rlog, committed, replay, disk, shipped>>
-----------------------------------------------------------------------------
NewKV == [db |-> [k \in Key |-> <<>>],
          duplicate |-> [c \in Clerk |-> [seq |-> 0, value |-> <<>>]], index |-> 0]

\* Everything but the term and the leaders, before the first call.  A clerk starts with
\* the first of its servers, and every clerk has them in an order of its own.
Booted ==
    /\ seq = [c \in Clerk |-> 1] /\ leader \in [Clerk -> Server]
    /\ op = [c \in Clerk |-> None] /\ call = [c \in Clerk |-> NoCall] /\ stray = {}
    /\ rlog = [s \in Server |-> <<>>] /\ committed = <<>>
    /\ lastApplied = [s \in Server |-> 0]
    /\ snapshotIndex = [s \in Server |-> 0]
    /\ batch = [s \in Server |-> {}] /\ incoming = [s \in Server |-> None]
    /\ kv = [s \in Server |-> NewKV] /\ daemon = [s \in Server |-> Idle]
    /\ disk = [s \in Server |-> [snapshotIndex |-> 0, snapshot |-> NewKV]]
    /\ shipped = None /\ restarts = 0
    /\ since = [c \in Clerk |-> 0] /\ result = [c \in Clerk |-> <<>>]
    /\ replay = <<NewKV>>

Init == Booted /\ term = 0 /\ lead = [s \in Server |-> 0]

Next ==
    \/ \E c \in Clerk :
          \/ \E o \in Op : Begin(c, o)
          \/ TimeOut(c) \/ CallFails(c) \/ Return(c)
          \/ CheckLeader(c) \/ AnswerDuplicate(c) \/ Submit(c) \/ Confirm(c) \/ ReadDb(c)
    \/ \E r \in stray : StraySubmit(r) \/ StrayEnds(r)
    \/ \E s \in Server :
          \/ Elect(s) \/ StepDown(s) \/ Commit(s) \/ TakeBatch(s)
          \/ SendSnapshot(s) \/ InstallSnapshot(s)
          \/ HandOver(s) \/ SaveInstalled(s)
          \/ Receive(s) \/ Compact(s) \/ LoadSnapshot(s) \/ Restart(s)

Spec == Init /\ [][Next]_vars
-----------------------------------------------------------------------------
(* Properties                                                              *)

Value == Seq(Clerk \X (1..MaxSeq))
KV == [db : [Key -> Value], duplicate : [Clerk -> [seq : 0..MaxSeq, value : Value]],
       index : 0..MaxLog]
Stage == {"none", "sent", "checked", "waiting", "hung", "notified", "confirmed", "ok",
          "failed"}

\* The types of the variables of the clerks, the handlers, Raft and the service.
TypeOK ==
    /\ seq \in [Clerk -> 1..(MaxSeq + 1)] /\ leader \in [Clerk -> Server]
    /\ op \in [Clerk -> Op \cup {None}]
    /\ call \in [Clerk -> [stage : Stage, server : Server, index : 0..MaxLog, term : 0..MaxTerm,
                           value : Value]]
    /\ stray \subseteq [op : Op, server : Server]
    /\ term \in 0..MaxTerm /\ lead \in [Server -> 0..MaxTerm]
    /\ rlog \in [Server -> Seq([term : 1..MaxTerm, op : Op])]
    /\ committed \in Seq([term : 1..MaxTerm, op : Op])
    /\ {lastApplied, snapshotIndex} \subseteq [Server -> 0..MaxLog]
    /\ batch \in [Server -> SUBSET (1..MaxLog)]
    /\ incoming \in [Server -> [index : 1..MaxLog, data : KV, sent : BOOLEAN] \cup {None}]
    /\ kv \in [Server -> KV]
    /\ daemon \in [Server -> [at : {"receive", "install", "compact"}, index : 0..MaxLog,
                              data : KV \cup {None}]]
    /\ disk \in [Server -> [snapshotIndex : 0..MaxLog, snapshot : KV]]
    /\ shipped \in [index : 1..MaxLog, data : KV] \cup {None}
    /\ restarts \in 0..MaxRestarts
    /\ since \in [Clerk -> 0..MaxLog] /\ result \in [Clerk -> Value]

\* replay[n + 1] is the state after the first n committed commands, each applied once.
Replay(n) == replay[n + 1]

\* k is what some first n of the committed commands leave, not less than its index.
IsReplica(k) ==
    \E n \in k.index..Len(committed) :
        LET r == Replay(n) IN k.db = r.db /\ k.duplicate = r.duplicate

\* Every server, in memory, on its Persister and in the snapshots it sends, holds what a
\* prefix of the committed commands leaves: applyDaemon applies them in order, each once,
\* whatever is resent to it after a restart or a snapshot.
ReplicaPrefix ==
    /\ \A s \in Server : IsReplica(kv[s]) /\ IsReplica(disk[s].snapshot)
    /\ shipped # None => IsReplica([shipped.data EXCEPT !.index = shipped.index])

\* After a restart nothing is missing: what Raft will not send again is in the snapshot.
SnapshotCoversLog ==
    \A s \in Server : disk[s].snapshotIndex <= disk[s].snapshot.index

\* The promise of the service, on the committed sequence.
Store == INSTANCE KVStore WITH
    store <- Replay(Len(committed)).db,
    pending <- op,
    done <- [c \in Clerk |-> /\ op[c] # None /\ op[c].kind # "Get"
                             /\ \E i \in DOMAIN committed : committed[i].op = op[c]],
    seen <- [c \in Clerk |-> IF op[c] = None THEN {}
                             ELSE {Replay(n).db[op[c].key] : n \in since[c]..Len(committed)}]

\* The service is linearizable: every Put and Append takes effect exactly once between
\* its call and its return, however often the clerk retries, and a Get returns a value of
\* that time.
Linearizable == Store!Spec
============================================================================
