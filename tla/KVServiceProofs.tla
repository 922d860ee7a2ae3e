--------------------------- MODULE KVServiceProofs ---------------------------
(***************************************************************************)
(* The key/value service, for any number of clerks and servers and every   *)
(* bound: its replicas hold prefixes of the committed commands, and the    *)
(* committed commands are those of the clerks.                             *)
(***************************************************************************)
EXTENDS KVService, SequenceTheorems, TLAPS

Call == [stage : Stage, server : Server, index : 0..MaxLog, term : 0..MaxTerm, value : Value]
LogEntry == [term : 1..MaxTerm, op : Op]
Snapshot == [index : 1..MaxLog, data : KV]

\* The bounds are natural numbers, and there is a first server.
LEMMA Bounds ==
    /\ MaxSeq \in Nat /\ MaxTerm \in Nat /\ MaxLog \in Nat /\ MaxRestarts \in Nat
    /\ 0 \in Server /\ Server \subseteq Nat
    /\ \A s \in Server : Following(s) \in Server
  <1>1. NumServers \in Nat /\ NumServers # 0
    BY ServiceAssumption
  <1>2. \A s \in Server : (s + 1) % NumServers \in 0..(NumServers - 1)
    BY <1>1 DEF Server
  <1> QED BY <1>1, <1>2, ServiceAssumption DEF Server, Following

\* r is a call at server s that has come to stage g and does not wait for an index.
AtStage(r, g, s) == r \in Call /\ r.stage = g /\ r.server = s /\ r.term = 0

\* The calls the clerks and the handlers make.
LEMMA CallTypes ==
    ASSUME NEW s \in Server
    PROVE  /\ <<>> \in Value
           /\ AtStage(NoCall, "none", 0) /\ AtStage(Sent(s), "sent", s)
           /\ \A v \in Value : AtStage(Reply(s, v), "ok", s) /\ Reply(s, v).value = v
           /\ AtStage(Failed(s), "failed", s)
           /\ AtStage([Sent(s) EXCEPT !.stage = "hung"], "hung", s)
           /\ AtStage([Sent(s) EXCEPT !.stage = "confirmed"], "confirmed", s)
  <1>1. <<>> \in Value
    BY EmptySeq DEF Value
  <1>2. AtStage(NoCall, "none", 0)
    BY <1>1, Bounds DEF NoCall, Call, Stage, AtStage
  <1>3. ASSUME NEW r, NEW h, AtStage(r, h, s), NEW g \in Stage
        PROVE  AtStage([r EXCEPT !.stage = g], g, s)
    BY <1>3 DEF Call, AtStage
  <1> HIDE DEF NoCall
  <1>4. AtStage(Sent(s), "sent", s)
    BY ZenonT(60), <1>2 DEF Sent, Call, Stage, AtStage
  <1>5. ASSUME NEW v \in Value
        PROVE  AtStage(Reply(s, v), "ok", s) /\ Reply(s, v).value = v
    BY ZenonT(60), <1>4 DEF Reply, Call, Stage, AtStage
  <1>6. "failed" \in Stage /\ "hung" \in Stage /\ "confirmed" \in Stage
    BY DEF Stage
  <1> QED BY Zenon, <1>1, <1>2, <1>3, <1>4, <1>5, <1>6 DEF Failed

\* The fields of the data of a server.
LEMMA KVFields ==
    ASSUME NEW k \in KV
    PROVE  /\ k.index \in Nat /\ k.index <= MaxLog
           /\ \A c \in Clerk : k.duplicate[c].seq \in Nat
  <1>1. k.duplicate \in [Clerk -> [seq : 0..MaxSeq, value : Value]] /\ k.index \in 0..MaxLog
    BY DEF KV
  <1> QED BY <1>1, Bounds

\* What a command does to the data of a server.
LEMMA AppliedFields ==
    ASSUME NEW k \in KV, NEW o \in Op
    PROVE  /\ o.client \in Clerk /\ o.key \in Key /\ o.seq \in 1..MaxSeq
           /\ Applied(k, o) \in KV /\ Applied(k, o).index = k.index
           /\ k.duplicate[o.client].seq >= o.seq => Applied(k, o) = k
           /\ k.duplicate[o.client].seq < o.seq =>
                 /\ Applied(k, o).db = [k.db EXCEPT ![o.key] = Written(o, @)]
                 /\ Applied(k, o).duplicate =
                       [k.duplicate EXCEPT ![o.client] =
                           [seq |-> o.seq, value |-> IF o.kind = "Get" THEN k.db[o.key] ELSE <<>>]]
  <1>1. /\ o.client \in Clerk /\ o.key \in Key /\ o.seq \in 1..MaxSeq /\ o.seq \in Nat
        /\ o.kind \in {"Get", "Put", "Append"}
    BY DEF Op
  <1>2. /\ k.db \in [Key -> Value] /\ k.index \in 0..MaxLog
        /\ k.duplicate \in [Clerk -> [seq : 0..MaxSeq, value : Value]]
        /\ k.duplicate[o.client].seq \in Nat /\ k.db[o.key] \in Value
    BY <1>1, Bounds DEF KV
  <1>3. Written(o, k.db[o.key]) \in Value
    <2>1. <<o.client, o.seq>> \in Clerk \X (1..MaxSeq)
      BY <1>1
    <2>2. <<<<o.client, o.seq>>>> \in Value
      BY <2>1 DEF Value
    <2>3. Append(k.db[o.key], <<o.client, o.seq>>) \in Value
      BY <1>2, <2>1, AppendProperties DEF Value
    <2> QED BY Zenon, <1>1, <1>2, <2>2, <2>3 DEF Written
  <1>4. [seq |-> o.seq, value |-> IF o.kind = "Get" THEN k.db[o.key] ELSE <<>>]
            \in [seq : 0..MaxSeq, value : Value]
    BY SMTT(60), <1>1, <1>2, EmptySeq DEF Value
  <1>5. CASE k.duplicate[o.client].seq < o.seq
    <2> DEFINE d == [k.db EXCEPT ![o.key] = Written(o, @)]
               e == [k.duplicate EXCEPT ![o.client] =
                       [seq |-> o.seq, value |-> IF o.kind = "Get" THEN k.db[o.key] ELSE <<>>]]
    <2>1. Applied(k, o) = [k EXCEPT !.db = d, !.duplicate = e]
      BY <1>5 DEF Applied, Fresh
    <2>2. d \in [Key -> Value]
      BY Zenon, <1>1, <1>2, <1>3
    <2>3. e \in [Clerk -> [seq : 0..MaxSeq, value : Value]]
      BY Zenon, <1>1, <1>2, <1>4
    <2> HIDE DEF d, e
    <2>4. /\ Applied(k, o) \in KV /\ Applied(k, o).index = k.index
          /\ Applied(k, o).db = d /\ Applied(k, o).duplicate = e
      BY ZenonT(60), <1>2, <2>1, <2>2, <2>3 DEF KV
    <2>5. ~ (k.duplicate[o.client].seq >= o.seq)
      BY <1>1, <1>2, <1>5
    <2> QED BY Zenon, <1>1, <2>4, <2>5 DEF d, e
  <1>6. CASE ~ (k.duplicate[o.client].seq < o.seq)
    <2>1. Applied(k, o) = k
      BY <1>6 DEF Applied, Fresh
    <2> QED BY Zenon, <1>1, <1>6, <2>1
  <1> QED BY SMTT(60), <1>5, <1>6
-----------------------------------------------------------------------------
(* Types and bounds                                                        *)

\* A clerk is in a call as long as it waits for an RPC, under its present number.
CallInv ==
    \A c \in Clerk : /\ op[c] = None <=> call[c].stage = "none"
                     /\ op[c] # None => op[c].client = c /\ op[c].seq = seq[c]

\* Index i lies in the log of s and in the committed part.
Within(s, i) == i <= Len(committed) /\ i <= Len(rlog[s])

ServerBounds(s) ==
    /\ Len(rlog[s]) <= MaxLog
    /\ Within(s, lastApplied[s]) /\ Within(s, disk[s].snapshotIndex)
    /\ snapshotIndex[s] = disk[s].snapshotIndex
    /\ batch[s] \subseteq 1..Len(committed)
    /\ incoming[s] # None => incoming[s].index <= Len(committed)
    /\ daemon[s].at = "install" => daemon[s].data \in KV

\* Logs keep to their bound, and no index of Raft runs ahead of the log.
LogBounds ==
    /\ Len(committed) <= MaxLog
    /\ shipped # None => shipped.index <= Len(committed)
    /\ \A s \in Server : ServerBounds(s)

BaseInv == TypeOK /\ CallInv /\ LogBounds

\* What the service and Raft hold, apart from the log of a leader.
serverVars == <<term, lead, committed, replay, raftVars, kv, daemon, disk, shipped, restarts>>

\* Steps of the clerks, and of the handlers before and after Start.
LEMMA ClerkTypes ==
    ASSUME BaseInv, NEW c \in Clerk,
           \/ \E o \in Op : Begin(c, o)
           \/ TimeOut(c) \/ CallFails(c) \/ Return(c)
    PROVE  BaseInv' /\ UNCHANGED <<serverVars, rlog>>
  <1> USE DEF electVars, raftVars, clerkVars, serverVars
  <1>1. /\ seq \in [Clerk -> 1..(MaxSeq + 1)] /\ leader \in [Clerk -> Server]
        /\ op \in [Clerk -> Op \cup {None}] /\ call \in [Clerk -> Call]
        /\ stray \subseteq [op : Op, server : Server]
        /\ since \in [Clerk -> 0..MaxLog] /\ result \in [Clerk -> Value]
        /\ committed \in Seq(LogEntry) /\ Len(committed) \in 0..MaxLog
    <2>1. /\ committed \in Seq(LogEntry) /\ Len(committed) <= MaxLog
      BY Zenon DEF BaseInv, TypeOK, LogBounds, ServerBounds, LogEntry
    <2>2. Len(committed) \in 0..MaxLog
      BY <2>1, LenProperties, Bounds
    <2> QED BY Zenon, <2>1, <2>2 DEF BaseInv, TypeOK, Call
  <1>2. UNCHANGED <<serverVars, rlog>>
    BY Zenon DEF Begin, TimeOut, CallFails, NextServer, Return
  <1>3. LogBounds'
    BY Zenon, <1>2 DEF BaseInv, LogBounds, ServerBounds, Within
  <1>4. ASSUME /\ seq' \in [Clerk -> 1..(MaxSeq + 1)] /\ leader' \in [Clerk -> Server]
               /\ op' \in [Clerk -> Op \cup {None}] /\ call' \in [Clerk -> Call]
               /\ stray' \subseteq [op : Op, server : Server]
               /\ since' \in [Clerk -> 0..MaxLog] /\ result' \in [Clerk -> Value]
        PROVE  TypeOK'
    BY Zenon, <1>2, <1>4 DEF BaseInv, TypeOK, Call
  <1>5. /\ AtStage(NoCall, "none", 0)
        /\ \A s \in Server : AtStage(Sent(s), "sent", s)
    BY Zenon, CallTypes, Bounds
  <1>6. ASSUME NEW o \in Op, Begin(c, o)
        PROVE  TypeOK' /\ CallInv'
    <2>1. leader[c] \in Server /\ Sent(leader[c]) \in Call /\ Sent(leader[c]).stage # "none"
      BY Zenon, <1>1, <1>5 DEF AtStage
    <2>2. TypeOK'
      BY Zenon, <1>1, <1>4, <1>6, <2>1 DEF Begin
    <2>3. CallInv'
      BY ZenonT(60), <1>1, <1>6, <2>1, NoneAssumption DEF Begin, CallInv, BaseInv
    <2> QED BY <2>2, <2>3
  <1>7. ASSUME NextServer(c), op[c] # None, stray' \subseteq [op : Op, server : Server]
        PROVE  TypeOK' /\ CallInv'
    <2>1. leader' \in [Clerk -> Server]
      BY Zenon, <1>1, <1>7, Bounds DEF NextServer
    <2>2. Sent(leader'[c]) \in Call /\ Sent(leader'[c]).stage # "none"
      BY Zenon, <2>1, <1>5 DEF AtStage
    <2>3. TypeOK'
      BY Zenon, <1>1, <1>4, <1>7, <2>1, <2>2 DEF NextServer
    <2>4. CallInv'
      BY ZenonT(60), <1>1, <1>7, <2>2 DEF NextServer, CallInv, BaseInv
    <2> QED BY <2>3, <2>4
  <1>8. CASE TimeOut(c)
    <2>1. op[c] \in Op /\ op[c] # None /\ call[c].server \in Server
      BY Zenon, <1>1, <1>8 DEF TimeOut, Call
    <2>2. stray' \subseteq [op : Op, server : Server]
      <3>1. [op |-> op[c], server |-> call[c].server] \in [op : Op, server : Server]
        BY Zenon, <2>1
      <3> QED BY Zenon, <1>1, <1>8, <3>1 DEF TimeOut
    <2> QED BY Zenon, <1>2, <1>3, <1>7, <1>8, <2>1, <2>2 DEF TimeOut, BaseInv
  <1>9. CASE CallFails(c)
    <2>1. op[c] # None
      BY Zenon, <1>9 DEF CallFails, CallInv, BaseInv
    <2> QED BY Zenon, <1>1, <1>2, <1>3, <1>7, <1>9, <2>1 DEF CallFails, BaseInv
  <1>10. CASE Return(c)
    <2>1. op[c] \in Op /\ op[c] # None /\ op[c].seq = seq[c] /\ call[c].value \in Value
      <3>1. call[c] \in Call /\ call[c].stage # "none"
        BY Zenon, <1>1, <1>10 DEF Return
      <3>2. call[c].value \in Value
        BY Zenon, <3>1 DEF Call
      <3>3. op[c] # None /\ op[c].seq = seq[c]
        BY Zenon, <3>1 DEF CallInv, BaseInv
      <3> QED BY Zenon, <1>1, <3>2, <3>3
    <2>2. seq[c] + 1 \in 1..(MaxSeq + 1)
      <3>1. op[c].seq \in 1..MaxSeq
        BY SMTT(60), <2>1 DEF Op
      <3> QED BY <2>1, <3>1, Bounds
    <2>3. seq' \in [Clerk -> 1..(MaxSeq + 1)]
      BY Zenon, <1>1, <1>10, <2>2 DEF Return
    <2>4. since' \in [Clerk -> 0..MaxLog]
      <3>1. 0 \in 0..MaxLog
        BY Bounds
      <3> QED BY Zenon, <1>1, <1>10, <3>1 DEF Return
    <2>5. /\ op' \in [Clerk -> Op \cup {None}] /\ call' \in [Clerk -> Call]
          /\ result' \in [Clerk -> Value]
      BY Zenon, <1>1, <1>5, <1>10, <2>1 DEF Return, AtStage
    <2>6. TypeOK'
      BY Zenon, <1>1, <1>4, <1>10, <2>3, <2>4, <2>5 DEF Return
    <2>7. CallInv'
      <3>1. op'[c] = None /\ call'[c].stage = "none"
        BY Zenon, <1>1, <1>5, <1>10 DEF Return, AtStage
      <3>2. \A d \in Clerk \ {c} : op'[d] = op[d] /\ call'[d] = call[d] /\ seq'[d] = seq[d]
        BY Zenon, <1>1, <1>10 DEF Return
      <3> QED BY ZenonT(60), <3>1, <3>2 DEF CallInv, BaseInv
    <2> QED BY Zenon, <1>2, <1>3, <2>6, <2>7 DEF BaseInv
  <1> QED BY Zenon, <1>2, <1>3, <1>6, <1>8, <1>9, <1>10 DEF BaseInv

\* A call that goes on within a handler.
CallGoesOn(c) ==
    /\ call[c].stage # "none" /\ call' = [call EXCEPT ![c] = call'[c]]
    /\ call'[c] \in Call /\ call'[c].stage # "none"

\* Steps of the handlers, apart from Start.
LEMMA HandlerTypes ==
    ASSUME BaseInv, NEW c \in Clerk,
           CheckLeader(c) \/ AnswerDuplicate(c) \/ Confirm(c) \/ ReadDb(c)
    PROVE  BaseInv' /\ CallGoesOn(c) /\ UNCHANGED <<clerkVars, serverVars, rlog, stray>>
  <1> USE DEF raftVars, clerkVars, serverVars, HandlerRest
  <1> DEFINE s == call[c].server
  <1>1. /\ call \in [Clerk -> Call] /\ call[c] \in Call /\ s \in Server
        /\ kv \in [Server -> KV] /\ kv[s] \in KV
    <2>1. call \in [Clerk -> Call] /\ call[c] \in Call
      BY Zenon DEF BaseInv, TypeOK, Call
    <2>2. s \in Server
      BY Zenon, <2>1 DEF Call
    <2> QED BY Zenon, <2>1, <2>2 DEF BaseInv, TypeOK
  <1>2. call[c].stage # "none" /\ op[c] # None /\ op[c] \in Op
    <2>1. call[c].stage # "none"
      BY Zenon DEF CheckLeader, AnswerDuplicate, Confirm, ReadDb
    <2>2. op[c] # None
      BY Zenon, <2>1 DEF BaseInv, CallInv
    <2> QED BY Zenon, <2>1, <2>2 DEF BaseInv, TypeOK
  <1>3. UNCHANGED <<clerkVars, serverVars, rlog, stray>>
    BY Zenon DEF CheckLeader, AnswerDuplicate, Confirm, ReadDb
  <1>4. kv[s].duplicate[c].value \in Value /\ kv[s].db[op[c].key] \in Value
    <2>1. op[c].key \in Key
      BY SMTT(60), <1>2 DEF Op
    <2> QED BY SMTT(60), <1>1, <2>1 DEF KV
  <1>5. ASSUME NEW x \in Call, x.stage # "none", call' = [call EXCEPT ![c] = x]
        PROVE  CallGoesOn(c)
    BY Zenon, <1>1, <1>2, <1>5 DEF CallGoesOn
  <1>6. ASSUME NEW g \in Stage
        PROVE  [call[c] EXCEPT !.stage = g] \in Call /\ [call[c] EXCEPT !.stage = g].stage = g
    BY <1>1 DEF Call
  <1>7. /\ \A v \in Value : Reply(s, v) \in Call /\ Reply(s, v).stage = "ok"
        /\ Failed(s) \in Call /\ Failed(s).stage = "failed"
        /\ [Sent(s) EXCEPT !.stage = "confirmed"] \in Call
        /\ [Sent(s) EXCEPT !.stage = "confirmed"].stage = "confirmed"
        /\ <<>> \in Value
    <2> HIDE DEF s
    <2> QED BY ZenonT(60), <1>1, CallTypes DEF AtStage
  <1>8. CallGoesOn(c)
    <2>1. CASE CheckLeader(c)
      <3>1. "checked" \in Stage
        BY DEF Stage
      <3>2. CASE lead[s] = 0
        BY Zenon, <1>5, <1>7, <2>1, <3>2 DEF CheckLeader
      <3>3. CASE lead[s] # 0
        BY Zenon, <1>5, <1>6, <2>1, <3>1, <3>3 DEF CheckLeader
      <3> QED BY SMTT(60), <3>2, <3>3
    <2>2. CASE AnswerDuplicate(c)
      BY Zenon, <1>4, <1>5, <1>7, <2>2 DEF AnswerDuplicate
    <2>3. CASE Confirm(c)
      <3>1. CASE ~ StillLeader(c)
        BY Zenon, <1>5, <1>7, <2>3, <3>1 DEF Confirm
      <3>2. CASE StillLeader(c) /\ op[c].kind # "Get"
        BY Zenon, <1>5, <1>7, <2>3, <3>2 DEF Confirm
      <3>3. CASE StillLeader(c) /\ op[c].kind = "Get"
        BY Zenon, <1>5, <1>7, <2>3, <3>3 DEF Confirm
      <3> QED BY <3>1, <3>2, <3>3
    <2>4. CASE ReadDb(c)
      BY Zenon, <1>4, <1>5, <1>7, <2>4 DEF ReadDb
    <2> QED BY Zenon, <2>1, <2>2, <2>3, <2>4
  <1>9. call' \in [Clerk -> Call]
    BY Zenon, <1>1, <1>8 DEF CallGoesOn
  <1>10. TypeOK' /\ LogBounds'
    BY Zenon, <1>3, <1>9 DEF BaseInv, TypeOK, Call, LogBounds, ServerBounds, Within
  <1>11. CallInv'
    BY ZenonT(60), <1>1, <1>2, <1>3, <1>8 DEF CallGoesOn, BaseInv, CallInv
  <1> QED BY Zenon, <1>3, <1>8, <1>10, <1>11 DEF BaseInv

\* Longer logs keep the indices of Raft within them.
LEMMA LongerLogs ==
    ASSUME TypeOK, LogBounds, rlog' \in [Server -> Seq(LogEntry)],
           \A t \in Server : Len(rlog'[t]) <= MaxLog /\ Len(rlog'[t]) >= Len(rlog[t]),
           UNCHANGED <<committed, shipped, lastApplied, disk, snapshotIndex, batch, incoming,
                       daemon>>
    PROVE  LogBounds'
  <1>1. /\ rlog \in [Server -> Seq(LogEntry)] /\ lastApplied \in [Server -> 0..MaxLog]
        /\ disk \in [Server -> [snapshotIndex : 0..MaxLog, snapshot : KV]]
    BY Zenon DEF TypeOK, LogEntry
  <1>2. ASSUME NEW t \in Server
        PROVE  Within(t, lastApplied[t])' /\ Within(t, disk[t].snapshotIndex)'
    <2>1. Len(rlog[t]) \in Nat /\ Len(rlog'[t]) \in Nat
      BY <1>1, LenProperties
    <2>2. lastApplied[t] \in Nat /\ disk[t].snapshotIndex \in Nat
      BY <1>1
    <2>3. Len(rlog[t]) <= Len(rlog'[t])
      BY <2>1
    <2>4. /\ lastApplied[t] <= Len(committed) /\ disk[t].snapshotIndex <= Len(committed)
          /\ lastApplied[t] <= Len(rlog[t]) /\ disk[t].snapshotIndex <= Len(rlog[t])
      BY Zenon DEF LogBounds, ServerBounds, Within
    <2>5. lastApplied[t] <= Len(rlog'[t]) /\ disk[t].snapshotIndex <= Len(rlog'[t])
      BY SMTT(60), <2>1, <2>2, <2>3, <2>4
    <2> QED BY Zenon, <2>4, <2>5 DEF Within
  <1> QED BY Zenon, <1>2 DEF LogBounds, ServerBounds

\* Start, and the channels it leaves.
LEMMA StartTypes ==
    ASSUME BaseInv, NEW s \in Server, NEW o \in Op, NEW c, Start(s, o),
           c = None \/ (c \in Clerk /\ call[c].stage # "none" /\ call[c].server = s),
           call' = Registered(c, s), stray' \subseteq stray,
           UNCHANGED HandlerRest
    PROVE  BaseInv'
  <1> USE DEF raftVars, clerkVars, serverVars, HandlerRest
  <1>1. /\ call \in [Clerk -> Call] /\ rlog \in [Server -> Seq(LogEntry)]
        /\ lead[s] \in 0..MaxTerm /\ Len(rlog[s]) <= MaxLog /\ rlog[s] \in Seq(LogEntry)
    BY Zenon DEF BaseInv, TypeOK, Call, LogEntry, LogBounds, ServerBounds
  <1>2. Len(rlog[s]) \in Nat
    BY SMTT(60), <1>1, LenProperties
  <1>3. call' \in [Clerk -> Call]
    <2>1. [Sent(s) EXCEPT !.stage = "hung"] \in Call
      BY Zenon, CallTypes DEF AtStage
    <2>2. lead[s] # 0 => Len(rlog[s]) + 1 \in 0..MaxLog
      BY SMTT(60), <1>2, Bounds DEF Start
    <2>3. ASSUME c \in Clerk, lead[s] # 0
          PROVE  [call[c] EXCEPT !.stage = "waiting", !.index = Len(rlog[s]) + 1,
                                 !.term = lead[s]] \in Call
      <3> DEFINE i == Len(rlog[s]) + 1
      <3>1. call[c] \in Call /\ i \in 0..MaxLog
        BY Zenon, <1>1, <2>2, <2>3
      <3>2. "waiting" \in Stage
        BY DEF Stage
      <3> HIDE DEF i
      <3>3. [call[c] EXCEPT !.stage = "waiting", !.index = i, !.term = lead[s]] \in Call
        BY ZenonT(60), <1>1, <3>1, <3>2 DEF Call
      <3> QED BY Zenon, <3>3 DEF i
    <2>4. \A d \in Clerk : Registered(c, s)[d] \in Call
      BY Zenon, <1>1, <2>1, <2>3 DEF Registered
    <2>5. Registered(c, s) = [d \in Clerk |-> Registered(c, s)[d]]
      BY Zenon DEF Registered
    <2> QED BY Zenon, <2>4, <2>5
  <1>4. CallInv'
    <2>1. [Sent(s) EXCEPT !.stage = "hung"].stage = "hung"
      BY Zenon, CallTypes DEF AtStage
    <2>2. ASSUME c \in Clerk
          PROVE  [call[c] EXCEPT !.stage = "waiting", !.index = Len(rlog[s]) + 1,
                                 !.term = lead[s]].stage = "waiting"
      <3>1. call[c] \in Call
        BY Zenon, <1>1, <2>2
      <3> QED BY <3>1 DEF Call
    <2>3. \A d \in Clerk : call'[d].stage = "none" <=> call[d].stage = "none"
      BY Zenon, <2>1, <2>2, NoneAssumption DEF Registered
    <2> QED BY Zenon, <2>3 DEF BaseInv, CallInv
  <1>5. /\ rlog' \in [Server -> Seq(LogEntry)]
        /\ \A t \in Server : Len(rlog'[t]) <= MaxLog /\ Len(rlog'[t]) >= Len(rlog[t])
    <2>1. CASE lead[s] = 0
      <3>1. \A t \in Server : Len(rlog[t]) \in Nat
        BY SMTT(60), <1>1, LenProperties
      <3>2. UNCHANGED rlog /\ \A t \in Server : Len(rlog[t]) <= MaxLog
        BY Zenon, <2>1 DEF Start, BaseInv, LogBounds, ServerBounds
      <3> QED BY SMTT(60), <1>1, <3>1, <3>2
    <2>2. CASE lead[s] # 0
      <3> DEFINE e == [term |-> lead[s], op |-> o]
      <3>1. e \in LogEntry
        BY SMTT(60), <1>1, <2>2, Bounds DEF LogEntry
      <3>2. Append(rlog[s], e) \in Seq(LogEntry) /\ Len(Append(rlog[s], e)) = Len(rlog[s]) + 1
        BY SMTT(60), <1>1, <3>1, AppendProperties
      <3>3. rlog' = [rlog EXCEPT ![s] = Append(rlog[s], e)] /\ Len(rlog[s]) < MaxLog
        BY Zenon, <2>2 DEF Start
      <3> HIDE DEF e
      <3>4. rlog'[s] = Append(rlog[s], e) /\ \A t \in Server \ {s} : rlog'[t] = rlog[t]
        BY Zenon, <1>1, <3>3
      <3>5. \A t \in Server : Len(rlog[t]) \in Nat /\ Len(rlog[t]) <= MaxLog
        BY Zenon, <1>1, LenProperties DEF BaseInv, LogBounds, ServerBounds
      <3>6. Len(rlog'[s]) <= MaxLog /\ Len(rlog'[s]) >= Len(rlog[s])
        BY SMTT(60), <1>2, <3>2, <3>3, <3>4, Bounds
      <3>7. \A t \in Server \ {s} : Len(rlog'[t]) <= MaxLog /\ Len(rlog'[t]) >= Len(rlog[t])
        BY SMTT(60), <3>4, <3>5
      <3>8. rlog' \in [Server -> Seq(LogEntry)]
        BY Zenon, <1>1, <3>2, <3>3
      <3> QED BY Zenon, <3>6, <3>7, <3>8
    <2> QED BY SMTT(60), <2>1, <2>2
  <1>6. TypeOK'
    BY Zenon, <1>3, <1>5 DEF BaseInv, TypeOK, Call, LogEntry
  <1>7. LogBounds'
    BY Zenon, <1>5, LongerLogs DEF BaseInv
  <1> QED BY Zenon, <1>4, <1>6, <1>7 DEF BaseInv

\* The first n entries of a log.
LEMMA FirstEntries ==
    ASSUME NEW l \in Seq(LogEntry), NEW n \in 0..Len(l)
    PROVE  /\ SubSeq(l, 1, n) \in Seq(LogEntry) /\ Len(SubSeq(l, 1, n)) = n
           /\ \A i \in 1..n : SubSeq(l, 1, n)[i] = l[i]
  <1>1. Len(l) \in Nat /\ \A i \in 1..n : l[i] \in LogEntry
    BY LenProperties, ElementOfSeq
  <1>2. \A i \in 1..n : SubSeq(l, 1, n)[i] = l[1 + i - 1] /\ 1 + i - 1 = i
    BY <1>1, SubSeqProperties
  <1> QED BY SMTT(60), <1>1, <1>2, SubSeqProperties

\* m has the first i entries of p, and behind them those of l.
Spliced(m, p, l, i) ==
    /\ m \in Seq(LogEntry) /\ Len(m) = (IF i <= Len(l) THEN Len(l) ELSE i)
    /\ \A j \in 1..i : m[j] = p[j]
    /\ \A j \in (i + 1)..Len(l) : m[j] = l[j]

\* The log SaveInstalled leaves: the snapshot's entries, and behind them its own.
LEMMA SplicedEntries ==
    ASSUME NEW p \in Seq(LogEntry), NEW l \in Seq(LogEntry), NEW i \in 0..Len(p), NEW m,
           m = SubSeq(p, 1, i) \o SubSeq(l, i + 1, Len(l))
    PROVE  Spliced(m, p, l, i)
  <1> DEFINE a == SubSeq(p, 1, i)
             b == SubSeq(l, i + 1, Len(l))
  <1>1. Len(l) \in Nat /\ Len(p) \in Nat /\ i \in Nat /\ i <= Len(p)
    BY LenProperties
  <1>2. a \in Seq(LogEntry) /\ Len(a) = i /\ \A j \in 1..i : a[j] = p[j]
    BY Zenon, FirstEntries
  <1>3. /\ b \in Seq(LogEntry) /\ Len(b) = (IF i + 1 <= Len(l) THEN Len(l) - i ELSE 0)
        /\ \A j \in 1..(Len(l) - i) : b[j] = l[i + j]
    <2>1. \A j \in (i + 1)..Len(l) : l[j] \in LogEntry
      BY <1>1, ElementOfSeq
    <2>2. /\ b \in Seq(LogEntry)
          /\ Len(b) = IF i + 1 <= Len(l) THEN Len(l) - (i + 1) + 1 ELSE 0
          /\ \A j \in 1..(Len(l) - (i + 1) + 1) : b[j] = l[(i + 1) + j - 1]
      BY SMTT(60), <1>1, <2>1, SubSeqProperties
    <2>3. Len(l) - (i + 1) + 1 = Len(l) - i
      BY <1>1
    <2>4. ASSUME NEW j \in 1..(Len(l) - i)
          PROVE  b[j] = l[i + j]
      <3>1. j \in 1..(Len(l) - (i + 1) + 1) /\ (i + 1) + j - 1 = i + j
        BY SMTT(60), <1>1
      <3> HIDE DEF b
      <3>2. b[j] = l[(i + 1) + j - 1]
        BY Zenon, <2>2, <3>1
      <3> QED BY Zenon, <3>1, <3>2
    <2> QED BY SMTT(60), <2>2, <2>3, <2>4
  <1> HIDE DEF a, b
  <1>4. m = a \o b
    BY Zenon DEF a, b
  <1>5. /\ m \in Seq(LogEntry) /\ Len(m) = Len(a) + Len(b)
        /\ \A j \in 1..(Len(a) + Len(b)) : m[j] = IF j <= Len(a) THEN a[j] ELSE b[j - Len(a)]
    <2>1. /\ a \o b \in Seq(LogEntry) /\ Len(a \o b) = Len(a) + Len(b)
          /\ \A j \in 1..(Len(a) + Len(b)) :
                (a \o b)[j] = IF j <= Len(a) THEN a[j] ELSE b[j - Len(a)]
      BY ZenonT(60), <1>2, <1>3, ConcatProperties
    <2> QED BY Zenon, <1>4, <2>1
  <1>6. Len(m) = IF i <= Len(l) THEN Len(l) ELSE i
    <2>1. Len(m) = i + Len(b) /\ Len(b) = IF i + 1 <= Len(l) THEN Len(l) - i ELSE 0
      BY Zenon, <1>2, <1>3, <1>5
    <2>2. CASE i + 1 <= Len(l)
      BY <1>1, <2>1, <2>2
    <2>3. CASE ~ (i + 1 <= Len(l))
      BY <1>1, <2>1, <2>3
    <2> QED BY Zenon, <2>2, <2>3
  <1>7. ASSUME NEW j \in 1..i
        PROVE  m[j] = p[j]
    <2>1. j \in 1..(Len(a) + Len(b)) /\ j <= Len(a)
      BY SMTT(60), <1>1, <1>2, <1>3
    <2> QED BY Zenon, <1>2, <1>5, <2>1
  <1>8. ASSUME NEW j \in (i + 1)..Len(l)
        PROVE  m[j] = l[j]
    <2>1. j \in 1..(Len(a) + Len(b)) /\ ~ (j <= Len(a)) /\ j - i \in 1..(Len(l) - i) /\ i + (j - i) = j
      BY SMTT(60), <1>1, <1>2, <1>3
    <2>2. m[j] = b[j - i]
      BY ZenonT(60), <1>2, <1>5, <2>1
    <2>3. b[j - i] = l[i + (j - i)]
      BY Zenon, <1>3, <2>1
    <2> QED BY ZenonT(60), <2>1, <2>2, <2>3
  <1> QED BY Zenon, <1>5, <1>6, <1>7, <1>8 DEF Spliced

\* What the invariant says of the logs and of one server.
LEMMA BaseFacts ==
    ASSUME BaseInv
    PROVE  /\ committed \in Seq(LogEntry) /\ Len(committed) \in Nat /\ Len(committed) <= MaxLog
           /\ \A i \in 1..Len(committed) : committed[i] \in LogEntry /\ committed[i].op \in Op
           /\ rlog \in [Server -> Seq(LogEntry)]
           /\ \A s \in Server : /\ rlog[s] \in Seq(LogEntry) /\ Len(rlog[s]) \in Nat
                                /\ lastApplied[s] \in Nat /\ snapshotIndex[s] \in Nat
                                /\ lead[s] \in 0..MaxTerm /\ kv[s] \in KV
                                /\ batch[s] \in SUBSET (1..MaxLog)
           /\ lead \in [Server -> 0..MaxTerm] /\ batch \in [Server -> SUBSET (1..MaxLog)]
           /\ lastApplied \in [Server -> 0..MaxLog] /\ snapshotIndex \in [Server -> 0..MaxLog]
           /\ incoming \in [Server -> [index : 1..MaxLog, data : KV, sent : BOOLEAN] \cup {None}]
           /\ kv \in [Server -> KV] /\ call \in [Clerk -> Call] /\ term \in 0..MaxTerm
           /\ disk \in [Server -> [snapshotIndex : 0..MaxLog, snapshot : KV]]
           /\ daemon \in [Server -> [at : {"receive", "install", "compact"}, index : 0..MaxLog,
                                     data : KV \cup {None}]]
           /\ shipped \in Snapshot \cup {None}
  <1>1. /\ rlog \in [Server -> Seq(LogEntry)] /\ committed \in Seq(LogEntry)
        /\ lead \in [Server -> 0..MaxTerm] /\ batch \in [Server -> SUBSET (1..MaxLog)]
        /\ lastApplied \in [Server -> 0..MaxLog] /\ snapshotIndex \in [Server -> 0..MaxLog]
        /\ incoming \in [Server -> [index : 1..MaxLog, data : KV, sent : BOOLEAN] \cup {None}]
        /\ kv \in [Server -> KV] /\ call \in [Clerk -> Call] /\ term \in 0..MaxTerm
        /\ disk \in [Server -> [snapshotIndex : 0..MaxLog, snapshot : KV]]
        /\ daemon \in [Server -> [at : {"receive", "install", "compact"}, index : 0..MaxLog,
                                  data : KV \cup {None}]]
        /\ shipped \in Snapshot \cup {None}
        /\ Len(committed) <= MaxLog
    BY Zenon DEF BaseInv, TypeOK, LogBounds, LogEntry, Snapshot, Call
  <1>2. ASSUME NEW i \in 1..Len(committed)
        PROVE  committed[i] \in LogEntry /\ committed[i].op \in Op
    <2>1. committed[i] \in LogEntry
      BY SMTT(60), <1>1, ElementOfSeq
    <2> QED BY SMTT(60), <2>1 DEF LogEntry
  <1>3. Len(committed) \in Nat /\ \A s \in Server : Len(rlog[s]) \in Nat
    BY SMTT(60), <1>1, LenProperties
  <1>4. \A s \in Server : lastApplied[s] \in Nat /\ snapshotIndex[s] \in Nat
    BY SMTT(60), <1>1
  <1>5. \A s \in Server : /\ rlog[s] \in Seq(LogEntry) /\ lead[s] \in 0..MaxTerm
                          /\ batch[s] \in SUBSET (1..MaxLog) /\ kv[s] \in KV
    BY Zenon, <1>1
  <1> QED BY Zenon, <1>1, <1>2, <1>3, <1>4, <1>5

\* A step that moves only server s keeps the bounds of the others.
LEMMA OtherServers ==
    ASSUME BaseInv, NEW s \in Server, UNCHANGED <<committed, shipped>>, ServerBounds(s)',
           \A t \in Server \ {s} : /\ rlog'[t] = rlog[t] /\ lastApplied'[t] = lastApplied[t]
                                   /\ snapshotIndex'[t] = snapshotIndex[t] /\ batch'[t] = batch[t]
                                   /\ incoming'[t] = incoming[t] /\ daemon'[t] = daemon[t]
                                   /\ disk'[t].snapshotIndex = disk[t].snapshotIndex
    PROVE  LogBounds'
  BY ZenonT(60) DEF BaseInv, LogBounds, ServerBounds, Within

\* Elections, commits and the batches of applyLogEntryDaemon.
LEMMA ElectTypes ==
    ASSUME BaseInv, NEW s \in Server, Elect(s) \/ StepDown(s) \/ Commit(s) \/ TakeBatch(s)
    PROVE  BaseInv'
  <1> USE DEF electVars, raftVars, clerkVars
  <1>1. CallInv'
    BY ZenonT(60) DEF Elect, StepDown, Commit, TakeBatch, BaseInv, CallInv
  <1>2. /\ Len(rlog[s]) <= MaxLog /\ ServerBounds(s)
    BY Zenon DEF BaseInv, LogBounds, ServerBounds
  <1>3. CASE Elect(s)
    <2>1. PICK l \in Server, n \in Len(committed)..MaxLog :
              /\ n <= Len(rlog[l]) /\ rlog' = [rlog EXCEPT ![s] = SubSeq(rlog[l], 1, n)]
      BY Zenon, <1>3 DEF Elect
    <2> DEFINE q == SubSeq(rlog[l], 1, n)
    <2>2. n \in 0..Len(rlog[l]) /\ n <= MaxLog /\ Len(committed) <= n
      BY SMTT(60), <2>1, BaseFacts
    <2>3. q \in Seq(LogEntry) /\ Len(q) = n
      BY Zenon, <2>2, FirstEntries, BaseFacts
    <2> HIDE DEF q
    <2>4. /\ rlog' \in [Server -> Seq(LogEntry)] /\ rlog'[s] = q
          /\ \A t \in Server \ {s} : rlog'[t] = rlog[t]
      BY Zenon, <2>1, <2>3, BaseFacts DEF q
    <2>5. term + 1 \in 0..MaxTerm
      <3>1. term < MaxTerm /\ term \in 0..MaxTerm
        BY Zenon, <1>3, BaseFacts DEF Elect
      <3> QED BY SMTT(60), <3>1, Bounds
    <2>6. lead' \in [Server -> 0..MaxTerm]
      BY Zenon, <1>3, <2>5, BaseFacts DEF Elect
    <2>7. TypeOK'
      BY Zenon, <1>3, <2>4, <2>5, <2>6 DEF Elect, BaseInv, TypeOK, LogEntry
    <2>8. lastApplied[s] <= n /\ disk[s].snapshotIndex <= n
      <3>1. /\ lastApplied[s] <= Len(committed) /\ disk[s].snapshotIndex <= Len(committed)
            /\ disk[s].snapshotIndex = snapshotIndex[s]
        BY Zenon, <1>2 DEF ServerBounds, Within
      <3>2. lastApplied[s] \in Nat /\ snapshotIndex[s] \in Nat /\ Len(committed) \in Nat
        BY Zenon, BaseFacts
      <3> QED BY SMTT(60), <2>2, <3>1, <3>2
    <2>9. ServerBounds(s)'
      BY Zenon, <1>2, <1>3, <2>2, <2>3, <2>4, <2>8 DEF Elect, ServerBounds, Within
    <2>10. LogBounds'
      BY Zenon, <1>3, <2>4, <2>9, OtherServers DEF Elect
    <2> QED BY Zenon, <1>1, <2>7, <2>10 DEF BaseInv
  <1>4. CASE StepDown(s)
    <2>1. 0 \in 0..MaxTerm
      BY SMTT(60), Bounds
    <2>2. lead' \in [Server -> 0..MaxTerm]
      BY Zenon, <1>4, <2>1, BaseFacts DEF StepDown
    <2>3. TypeOK'
      BY Zenon, <1>4, <2>2 DEF StepDown, BaseInv, TypeOK
    <2>4. LogBounds'
      BY ZenonT(60), <1>4 DEF StepDown, BaseInv, LogBounds, ServerBounds, Within
    <2> QED BY Zenon, <1>1, <2>3, <2>4 DEF BaseInv
  <1>5. CASE Commit(s)
    <2> DEFINE e == rlog[s][Len(committed) + 1]
    <2>1. Len(committed) < Len(rlog[s]) /\ Len(committed) + 1 \in 1..Len(rlog[s])
      BY SMTT(60), <1>5, BaseFacts DEF Commit
    <2>2. e \in LogEntry
      BY SMTT(60), <2>1, BaseFacts, ElementOfSeq
    <2>3. committed' = Append(committed, e)
      BY Zenon, <1>5 DEF Commit
    <2> HIDE DEF e
    <2>4. committed' \in Seq(LogEntry) /\ Len(committed') = Len(committed) + 1
      BY SMTT(60), <2>2, <2>3, BaseFacts, AppendProperties
    <2>5. TypeOK'
      BY Zenon, <1>5, <2>4 DEF Commit, BaseInv, TypeOK, LogEntry
    <2>6. Len(committed') <= MaxLog
      BY SMTT(60), <1>2, <2>1, <2>4, BaseFacts, Bounds
    <2>7. \A i \in Nat : i <= Len(committed) => i <= Len(committed')
      BY SMTT(60), <2>4, BaseFacts
    <2>8. shipped # None => shipped.index <= Len(committed')
      <3>1. shipped # None => shipped.index \in Nat /\ shipped.index <= Len(committed)
        BY SMTT(60), BaseFacts DEF Snapshot, BaseInv, LogBounds
      <3> QED BY Zenon, <2>7, <3>1
    <2>9. ASSUME NEW t \in Server
          PROVE  ServerBounds(t)'
      <3>1. ServerBounds(t)
        BY Zenon DEF BaseInv, LogBounds
      <3>2. /\ incoming[t] # None => incoming[t].index \in Nat
            /\ lastApplied[t] \in Nat /\ disk[t].snapshotIndex \in Nat
        BY SMTT(60), BaseFacts
      <3>3. batch[t] \subseteq 1..Len(committed')
        BY SMTT(60), <2>4, <3>1, BaseFacts DEF ServerBounds
      <3> QED BY Zenon, <1>5, <2>7, <3>1, <3>2, <3>3 DEF Commit, ServerBounds, Within
    <2>10. LogBounds'
      BY Zenon, <1>5, <2>6, <2>8, <2>9 DEF Commit, LogBounds
    <2> QED BY Zenon, <1>1, <2>5, <2>10 DEF BaseInv
  <1>6. CASE TakeBatch(s)
    <2>1. Len(committed) \in 0..MaxLog /\ (lastApplied[s] + 1)..Len(committed) \in SUBSET (1..MaxLog)
      <3>1. /\ lastApplied[s] \in Nat /\ MaxLog \in Nat
            /\ Len(committed) \in Nat /\ Len(committed) <= MaxLog
        BY Zenon, BaseFacts, Bounds
      <3> QED BY SMTT(60), <3>1
    <2>2. /\ batch' \in [Server -> SUBSET (1..MaxLog)] /\ lastApplied' \in [Server -> 0..MaxLog]
          /\ batch'[s] = (lastApplied[s] + 1)..Len(committed) /\ lastApplied'[s] = Len(committed)
          /\ \A t \in Server \ {s} : batch'[t] = batch[t] /\ lastApplied'[t] = lastApplied[t]
      BY ZenonT(60), <1>6, <2>1, BaseFacts DEF TakeBatch
    <2>3. /\ rlog' \in [Server -> Seq(LogEntry)] /\ lead' \in [Server -> 0..MaxTerm]
          /\ Len(committed) <= Len(rlog'[s]) /\ Len(rlog'[s]) <= MaxLog
          /\ \A t \in Server \ {s} : rlog'[t] = rlog[t]
      <3>1. CASE IsPrefix(committed, rlog[s])
        BY Zenon, <1>2, <1>6, <3>1, BaseFacts DEF TakeBatch, IsPrefix
      <3>2. CASE ~ IsPrefix(committed, rlog[s])
        <4>1. 0 \in 0..MaxTerm /\ Len(committed) <= Len(committed)
          BY SMTT(60), Bounds, BaseFacts
        <4> QED BY ZenonT(60), <1>6, <3>2, <4>1, BaseFacts DEF TakeBatch
      <3> QED BY SMTT(60), <3>1, <3>2
    <2>4. TypeOK'
      BY ZenonT(60), <1>6, <2>2, <2>3 DEF TakeBatch, BaseInv, TypeOK, LogEntry
    <2>5. ServerBounds(s)'
      <3>1. Len(committed) <= Len(committed) /\ batch'[s] \subseteq 1..Len(committed)
        BY SMTT(60), <2>2, BaseFacts
      <3>2. Len(rlog'[s]) \in Nat /\ disk[s].snapshotIndex \in Nat
        BY SMTT(60), <2>3, BaseFacts, LenProperties
      <3>3. disk[s].snapshotIndex <= Len(rlog'[s])
        BY SMTT(60), <1>2, <2>3, <3>2, BaseFacts DEF ServerBounds, Within
      <3> QED BY ZenonT(60), <1>2, <1>6, <2>2, <2>3, <3>1, <3>3 DEF TakeBatch, ServerBounds, Within
    <2>6. LogBounds'
      BY Zenon, <1>6, <2>2, <2>3, <2>5, OtherServers DEF TakeBatch
    <2> QED BY Zenon, <1>1, <2>4, <2>6 DEF BaseInv
  <1> QED BY SMTT(60), <1>3, <1>4, <1>5, <1>6

\* Snapshots on their way from one server to another.
LEMMA InstallTypes ==
    ASSUME BaseInv, NEW s \in Server,
           SendSnapshot(s) \/ InstallSnapshot(s) \/ HandOver(s) \/ SaveInstalled(s)
    PROVE  BaseInv'
  <1> USE DEF electVars, raftVars, clerkVars
  <1>1. CallInv'
    BY ZenonT(60) DEF SendSnapshot, InstallSnapshot, HandOver, SaveInstalled, BaseInv, CallInv
  <1>2. ServerBounds(s) /\ (shipped # None => shipped.index <= Len(committed))
    BY Zenon DEF BaseInv, LogBounds
  <1>3. CASE SendSnapshot(s)
    <2>1. /\ snapshotIndex[s] \in 1..MaxLog /\ disk[s].snapshot \in KV
          /\ snapshotIndex[s] <= Len(committed)
      <3>1. snapshotIndex[s] > 0 /\ snapshotIndex[s] \in 0..MaxLog
        BY Zenon, <1>3, BaseFacts DEF SendSnapshot
      <3>2. snapshotIndex[s] <= Len(committed)
        BY Zenon, <1>2 DEF ServerBounds, Within
      <3>3. disk[s].snapshot \in KV
        BY Zenon, BaseFacts
      <3> QED BY SMTT(60), <3>1, <3>2, <3>3, Bounds
    <2>2. shipped' \in Snapshot /\ shipped'.index = snapshotIndex[s]
      BY Zenon, <1>3, <2>1 DEF SendSnapshot, Snapshot
    <2>3. TypeOK'
      BY ZenonT(60), <1>3, <2>2 DEF SendSnapshot, BaseInv, TypeOK, Snapshot
    <2>4. LogBounds'
      BY ZenonT(60), <1>3, <2>1, <2>2 DEF SendSnapshot, BaseInv, LogBounds, ServerBounds, Within
    <2> QED BY Zenon, <1>1, <2>3, <2>4 DEF BaseInv
  <1>4. CASE InstallSnapshot(s)
    <2> DEFINE x == [index |-> shipped.index, data |-> shipped.data, sent |-> FALSE]
    <2>1. shipped.index \in 1..MaxLog /\ shipped.data \in KV
      BY ZenonT(60), <1>4, BaseFacts DEF InstallSnapshot, Snapshot
    <2>2. x \in [index : 1..MaxLog, data : KV, sent : BOOLEAN] /\ x.index = shipped.index
      BY Zenon, <2>1
    <2>3. incoming' = [incoming EXCEPT ![s] = x]
      BY Zenon, <1>4 DEF InstallSnapshot
    <2> HIDE DEF x
    <2>4. /\ incoming' \in [Server -> [index : 1..MaxLog, data : KV, sent : BOOLEAN] \cup {None}]
          /\ incoming'[s] = x /\ \A t \in Server \ {s} : incoming'[t] = incoming[t]
      BY ZenonT(60), <2>2, <2>3, BaseFacts
    <2>5. TypeOK'
      BY Zenon, <1>4, <2>4 DEF InstallSnapshot, BaseInv, TypeOK
    <2>6. ServerBounds(s)'
      BY Zenon, <1>2, <1>4, <2>2, <2>4 DEF InstallSnapshot, ServerBounds, Within
    <2>7. LogBounds'
      BY Zenon, <1>4, <2>4, <2>6, OtherServers DEF InstallSnapshot
    <2> QED BY Zenon, <1>1, <2>5, <2>7 DEF BaseInv
  <1>5. ASSUME incoming[s] # None
        PROVE  /\ incoming[s] \in [index : 1..MaxLog, data : KV, sent : BOOLEAN]
               /\ incoming[s].index \in 1..MaxLog /\ incoming[s].data \in KV
               /\ incoming[s].index \in 0..Len(committed) /\ incoming[s].index \in 0..MaxLog
    <2>1. incoming[s] \in [index : 1..MaxLog, data : KV, sent : BOOLEAN]
      BY Zenon, <1>5, BaseFacts
    <2>2. incoming[s].index \in 1..MaxLog /\ incoming[s].data \in KV
      BY Zenon, <2>1
    <2>3. incoming[s].index <= Len(committed)
      BY Zenon, <1>2, <1>5 DEF ServerBounds
    <2> QED BY SMTT(60), <2>1, <2>2, <2>3, BaseFacts, Bounds
  <1>6. CASE HandOver(s)
    <2> DEFINE x == [incoming[s] EXCEPT !.sent = TRUE]
               y == [at |-> "install", index |-> incoming[s].index, data |-> incoming[s].data]
    <2>1. incoming[s] # None
      BY Zenon, <1>6 DEF HandOver, RaftFree
    <2>2. /\ x \in [index : 1..MaxLog, data : KV, sent : BOOLEAN] /\ x.index = incoming[s].index
      BY ZenonT(60), <1>5, <2>1
    <2>3. /\ y \in [at : {"receive", "install", "compact"}, index : 0..MaxLog,
                    data : KV \cup {None}]
          /\ y.data \in KV
      BY SMTT(60), <1>5, <2>1, Bounds
    <2>4. incoming' = [incoming EXCEPT ![s] = x] /\ daemon' = [daemon EXCEPT ![s] = y]
      BY Zenon, <1>6 DEF HandOver
    <2> HIDE DEF x, y
    <2>5. /\ incoming' \in [Server -> [index : 1..MaxLog, data : KV, sent : BOOLEAN] \cup {None}]
          /\ incoming'[s] = x /\ \A t \in Server \ {s} : incoming'[t] = incoming[t]
          /\ daemon'[s] = y /\ \A t \in Server \ {s} : daemon'[t] = daemon[t]
      BY ZenonT(60), <2>2, <2>4, BaseFacts
    <2>6. daemon' \in [Server -> [at : {"receive", "install", "compact"}, index : 0..MaxLog,
                                  data : KV \cup {None}]]
      BY Zenon, <2>3, <2>4, BaseFacts
    <2>7. TypeOK'
      BY Zenon, <1>6, <2>5, <2>6 DEF HandOver, BaseInv, TypeOK
    <2>8. ServerBounds(s)'
      BY Zenon, <1>2, <1>6, <2>1, <2>2, <2>3, <2>5 DEF HandOver, ServerBounds, Within
    <2>9. LogBounds'
      BY Zenon, <1>6, <2>5, <2>8, OtherServers DEF HandOver
    <2> QED BY Zenon, <1>1, <2>7, <2>9 DEF BaseInv
  <1>7. CASE SaveInstalled(s)
    <2> DEFINE i == incoming[s].index
               q == SubSeq(committed, 1, i) \o SubSeq(rlog[s], i + 1, Len(rlog[s]))
               d == [snapshotIndex |-> i, snapshot |-> incoming[s].data]
    <2>1. incoming[s] # None
      BY Zenon, <1>7 DEF SaveInstalled, RaftFree
    <2>2. i \in 1..MaxLog /\ i \in 0..Len(committed) /\ i \in 0..MaxLog /\ incoming[s].data \in KV
      BY Zenon, <1>5, <2>1
    <2>3. q \in Seq(LogEntry) /\ Len(q) = (IF i <= Len(rlog[s]) THEN Len(rlog[s]) ELSE i)
      <3>1. committed \in Seq(LogEntry) /\ rlog[s] \in Seq(LogEntry)
        BY Zenon, BaseFacts
      <3> HIDE DEF i, q
      <3>2. q = SubSeq(committed, 1, i) \o SubSeq(rlog[s], i + 1, Len(rlog[s]))
        BY Zenon DEF q
      <3>3. Spliced(q, committed, rlog[s], i)
        BY Zenon, <2>2, <3>1, <3>2, SplicedEntries
      <3> QED BY Zenon, <3>3 DEF Spliced
    <2>4. d \in [snapshotIndex : 0..MaxLog, snapshot : KV] /\ d.snapshotIndex = i
      BY Zenon, <2>2
    <2>5. /\ snapshotIndex' = [snapshotIndex EXCEPT ![s] = i]
          /\ lastApplied' = [lastApplied EXCEPT ![s] = i]
          /\ rlog' = [rlog EXCEPT ![s] = q] /\ disk' = [disk EXCEPT ![s] = d]
          /\ incoming' = [incoming EXCEPT ![s] = None]
      BY Zenon, <1>7 DEF SaveInstalled
    <2> HIDE DEF i, q, d
    <2>6. /\ snapshotIndex' \in [Server -> 0..MaxLog] /\ lastApplied' \in [Server -> 0..MaxLog]
          /\ rlog' \in [Server -> Seq(LogEntry)]
          /\ incoming' \in [Server -> [index : 1..MaxLog, data : KV, sent : BOOLEAN] \cup {None}]
          /\ disk' \in [Server -> [snapshotIndex : 0..MaxLog, snapshot : KV]]
      BY Zenon, <2>2, <2>3, <2>4, <2>5, BaseFacts
    <2>7. /\ snapshotIndex'[s] = i /\ lastApplied'[s] = i /\ rlog'[s] = q /\ disk'[s] = d
          /\ incoming'[s] = None
          /\ \A t \in Server \ {s} : /\ snapshotIndex'[t] = snapshotIndex[t]
                                     /\ lastApplied'[t] = lastApplied[t] /\ rlog'[t] = rlog[t]
                                     /\ disk'[t] = disk[t] /\ incoming'[t] = incoming[t]
      BY ZenonT(60), <2>5, BaseFacts
    <2>8. TypeOK'
      BY ZenonT(60), <1>7, <2>6 DEF SaveInstalled, BaseInv, TypeOK, LogEntry
    <2>9. i <= Len(committed) /\ i <= Len(q) /\ Len(q) <= MaxLog
      <3>1. Len(rlog[s]) <= MaxLog /\ Len(rlog[s]) \in Nat
        BY Zenon, <1>2, BaseFacts DEF ServerBounds
      <3> QED BY SMTT(60), <2>2, <2>3, <3>1, BaseFacts, Bounds
    <2>10. ServerBounds(s)'
      BY ZenonT(60), <1>2, <1>7, <2>4, <2>7, <2>9 DEF SaveInstalled, ServerBounds, Within
    <2>11. LogBounds'
      BY ZenonT(60), <1>7, <2>7, <2>10, OtherServers DEF SaveInstalled
    <2> QED BY Zenon, <1>1, <2>8, <2>11 DEF BaseInv
  <1> QED BY SMTT(60), <1>3, <1>4, <1>6, <1>7

\* Waking the handler that waits for an index.
LEMMA NotifiedCalls ==
    ASSUME BaseInv, NEW s \in Server, NEW i
    PROVE  /\ Notified(s, i) \in [Clerk -> Call]
           /\ \A c \in Clerk :
                 /\ Notified(s, i)[c].stage = "none" <=> call[c].stage = "none"
                 /\ \/ Notified(s, i)[c] = call[c]
                    \/ /\ call[c].stage = "waiting" /\ call[c].server = s /\ call[c].index = i
                       /\ Notified(s, i)[c].stage = "notified" /\ Notified(s, i)[c].server = s
                       /\ Notified(s, i)[c].term = call[c].term
  <1>1. ASSUME NEW c \in Clerk, NEW x, x = [call[c] EXCEPT !.stage = "notified", !.index = 0]
        PROVE  /\ x \in Call /\ x.stage = "notified" /\ x.server = call[c].server
               /\ x.term = call[c].term
    <2>1. call[c] \in Call /\ 0 \in 0..MaxLog /\ "notified" \in Stage
      BY SMTT(60), BaseFacts, Bounds DEF Stage
    <2> QED BY ZenonT(60), <1>1, <2>1 DEF Call
  <1>2. ASSUME NEW c \in Clerk
        PROVE  /\ Notified(s, i)[c] \in Call
               /\ Notified(s, i)[c].stage = "none" <=> call[c].stage = "none"
               /\ \/ Notified(s, i)[c] = call[c]
                  \/ /\ call[c].stage = "waiting" /\ call[c].server = s /\ call[c].index = i
                     /\ Notified(s, i)[c].stage = "notified" /\ Notified(s, i)[c].server = s
                     /\ Notified(s, i)[c].term = call[c].term
    <2>1. CASE call[c].stage = "waiting" /\ call[c].server = s /\ call[c].index = i
      <3>1. Notified(s, i)[c] = [call[c] EXCEPT !.stage = "notified", !.index = 0]
        BY Zenon, <2>1 DEF Notified
      <3> QED BY ZenonT(60), <1>1, <2>1, <3>1
    <2>2. CASE ~ (call[c].stage = "waiting" /\ call[c].server = s /\ call[c].index = i)
      <3>1. Notified(s, i)[c] = call[c]
        BY Zenon, <2>2 DEF Notified
      <3> QED BY Zenon, <3>1, BaseFacts
    <2> QED BY ZenonT(60), <2>1, <2>2
  <1>3. Notified(s, i) = [c \in Clerk |-> Notified(s, i)[c]]
    BY Zenon DEF Notified
  <1>4. Notified(s, i) \in [Clerk -> Call]
    BY Zenon, <1>2, <1>3
  <1> QED BY Zenon, <1>2, <1>4

\* The places of applyDaemon.
DaemonType == [at : {"receive", "install", "compact"}, index : 0..MaxLog, data : KV \cup {None}]

\* What applyDaemon's places and generateSnapshot's records hold.
LEMMA DaemonPlaces ==
    /\ Idle \in DaemonType /\ Idle.at = "receive"
    /\ \A i \in 0..MaxLog : LET d == [Idle EXCEPT !.at = "compact", !.index = i]
                            IN d \in DaemonType /\ d.at = "compact" /\ d.index = i
    /\ \A k \in KV, i \in 0..MaxLog : LET g == Generated(k, i)
                                      IN /\ g \in KV /\ g.index = i /\ g.db = k.db
                                         /\ g.duplicate = k.duplicate
  <1>1. Idle \in DaemonType /\ Idle.at = "receive"
    BY SMTT(60), Bounds DEF Idle, DaemonType
  <1>2. \A i \in 0..MaxLog : LET d == [Idle EXCEPT !.at = "compact", !.index = i]
                             IN d \in DaemonType /\ d.at = "compact" /\ d.index = i
    BY ZenonT(60), Bounds DEF Idle, DaemonType
  <1>3. \A k \in KV, i \in 0..MaxLog : LET g == Generated(k, i)
                                       IN /\ g \in KV /\ g.index = i /\ g.db = k.db
                                          /\ g.duplicate = k.duplicate
    BY SMTT(60) DEF Generated, KV
  <1> QED BY Zenon, <1>1, <1>2, <1>3

\* Steps of applyDaemon, and restarts.
LEMMA DaemonTypes ==
    ASSUME BaseInv, NEW s \in Server, Receive(s) \/ Compact(s) \/ LoadSnapshot(s) \/ Restart(s)
    PROVE  BaseInv'
  <1> USE DEF electVars, raftVars, clerkVars, ApplyRest
  <1>1. ServerBounds(s)
    BY Zenon DEF BaseInv, LogBounds
  <1>2. daemon \in [Server -> DaemonType]
    BY Zenon, BaseFacts DEF DaemonType
  <1>3. ASSUME NEW i, call' = Notified(s, i) \/ UNCHANGED call, UNCHANGED <<op, seq>>
        PROVE  call' \in [Clerk -> Call] /\ CallInv'
    <2>1. /\ call' \in [Clerk -> Call]
          /\ \A c \in Clerk : call'[c].stage = "none" <=> call[c].stage = "none"
      <3>1. CASE call' = Notified(s, i)
        BY ZenonT(60), <3>1, NotifiedCalls
      <3>2. CASE UNCHANGED call
        BY Zenon, <3>2, BaseFacts
      <3> QED BY Zenon, <1>3, <3>1, <3>2
    <2> QED BY Zenon, <1>3, <2>1 DEF BaseInv, CallInv
  <1>4. CASE Receive(s)
    <2>1. PICK i \in batch[s] :
              LET k == Applied(kv[s], committed[i].op)
              IN /\ daemon[s].at = "receive"
                 /\ batch' = [batch EXCEPT ![s] = @ \ {i}]
                 /\ \/ UNCHANGED <<call, kv, daemon, disk>>
                    \/ /\ kv' = [kv EXCEPT ![s] = k] /\ call' = Notified(s, i)
                       /\ UNCHANGED <<daemon, disk>>
                    \/ /\ kv' = [kv EXCEPT ![s] = Generated(k, i)]
                       /\ disk' = [disk EXCEPT ![s].snapshot = Generated(k, i)]
                       /\ daemon' = [daemon EXCEPT ![s] = [Idle EXCEPT !.at = "compact", !.index = i]]
                       /\ UNCHANGED call
                 /\ UNCHANGED ApplyRest
      BY ZenonT(60), <1>4 DEF Receive
    <2> DEFINE k == Applied(kv[s], committed[i].op)
               g == Generated(k, i)
               p == [Idle EXCEPT !.at = "compact", !.index = i]
               e == [disk[s] EXCEPT !.snapshot = g]
    <2>2. i \in 0..MaxLog /\ i \in 1..Len(committed)
      <3>1. i \in 1..MaxLog /\ i \in 1..Len(committed)
        BY Zenon, <1>1, BaseFacts DEF ServerBounds
      <3> QED BY SMTT(60), <3>1, Bounds
    <2>3. k \in KV
      BY Zenon, <2>2, BaseFacts, AppliedFields
    <2> HIDE DEF k
    <2>4. g \in KV /\ p \in DaemonType /\ p.at = "compact"
      BY Zenon, <2>2, <2>3, DaemonPlaces
    <2> HIDE DEF g, p
    <2>5. e \in [snapshotIndex : 0..MaxLog, snapshot : KV] /\ e.snapshotIndex = disk[s].snapshotIndex
      <3>1. disk[s] \in [snapshotIndex : 0..MaxLog, snapshot : KV]
        BY Zenon, BaseFacts
      <3> QED BY SMTT(60), <2>4, <3>1
    <2> HIDE DEF e
    <2>6. /\ batch' = [batch EXCEPT ![s] = @ \ {i}]
          /\ \/ UNCHANGED <<call, kv, daemon, disk>>
             \/ /\ kv' = [kv EXCEPT ![s] = k] /\ call' = Notified(s, i)
                /\ UNCHANGED <<daemon, disk>>
             \/ /\ kv' = [kv EXCEPT ![s] = g] /\ disk' = [disk EXCEPT ![s] = e]
                /\ daemon' = [daemon EXCEPT ![s] = p] /\ UNCHANGED call
      BY Zenon, <2>1 DEF k, g, p, e
    <2>7. batch[s] \ {i} \in SUBSET (1..MaxLog)
      BY Zenon, BaseFacts
    <2>8. /\ kv' \in [Server -> KV] /\ batch' \in [Server -> SUBSET (1..MaxLog)]
          /\ disk' \in [Server -> [snapshotIndex : 0..MaxLog, snapshot : KV]]
          /\ daemon' \in [Server -> DaemonType]
      <3>1. batch' \in [Server -> SUBSET (1..MaxLog)]
        BY Zenon, <2>6, <2>7, BaseFacts
      <3>2. kv' \in [Server -> KV]
        BY ZenonT(60), <2>3, <2>4, <2>6, BaseFacts
      <3>3. disk' \in [Server -> [snapshotIndex : 0..MaxLog, snapshot : KV]]
        BY ZenonT(60), <2>5, <2>6, BaseFacts
      <3>4. daemon' \in [Server -> DaemonType]
        BY Zenon, <1>2, <2>4, <2>6
      <3> QED BY Zenon, <3>1, <3>2, <3>3, <3>4
    <2>9. /\ batch'[s] \subseteq batch[s] /\ disk'[s].snapshotIndex = disk[s].snapshotIndex
          /\ daemon'[s] = daemon[s] \/ daemon'[s].at = "compact"
          /\ \A t \in Server \ {s} : /\ batch'[t] = batch[t] /\ disk'[t] = disk[t]
                                     /\ daemon'[t] = daemon[t]
      BY ZenonT(60), <1>2, <2>4, <2>5, <2>6, BaseFacts
    <2>10. call' \in [Clerk -> Call] /\ CallInv'
      BY Zenon, <1>3, <2>1
    <2>11. TypeOK'
      BY ZenonT(60), <2>1, <2>8, <2>10 DEF BaseInv, TypeOK, Call, DaemonType
    <2>12. ServerBounds(s)'
      BY ZenonT(60), <1>1, <2>1, <2>9 DEF ServerBounds, Within
    <2>13. LogBounds'
      BY ZenonT(60), <2>1, <2>9, <2>12, OtherServers
    <2> QED BY Zenon, <2>10, <2>11, <2>13 DEF BaseInv
  <1>5. CASE Compact(s)
    <2> DEFINE i == daemon[s].index
               e == [snapshotIndex |-> i, snapshot |-> kv[s]]
    <2>1. i \in 0..MaxLog
      BY ZenonT(60), <1>2 DEF DaemonType
    <2>2. e \in [snapshotIndex : 0..MaxLog, snapshot : KV] /\ e.snapshotIndex = i
      BY ZenonT(60), <2>1, BaseFacts
    <2> HIDE DEF e
    <2>3. \/ UNCHANGED <<snapshotIndex, disk>>
          \/ /\ ~ (lastApplied[s] < i)
             /\ snapshotIndex' = [snapshotIndex EXCEPT ![s] = i] /\ disk' = [disk EXCEPT ![s] = e]
      BY Zenon, <1>5 DEF Compact, e
    <2>4. /\ snapshotIndex' \in [Server -> 0..MaxLog]
          /\ disk' \in [Server -> [snapshotIndex : 0..MaxLog, snapshot : KV]]
      <3>1. snapshotIndex' \in [Server -> 0..MaxLog]
        BY ZenonT(60), <2>1, <2>3, BaseFacts
      <3>2. disk' \in [Server -> [snapshotIndex : 0..MaxLog, snapshot : KV]]
        BY ZenonT(60), <2>2, <2>3, BaseFacts
      <3> QED BY Zenon, <3>1, <3>2
    <2>5. /\ daemon' \in [Server -> DaemonType] /\ daemon'[s] = Idle
          /\ \A t \in Server \ {s} : daemon'[t] = daemon[t]
      BY Zenon, <1>2, <1>5, DaemonPlaces DEF Compact
    <2>6. call' \in [Clerk -> Call] /\ CallInv'
      BY Zenon, <1>3, <1>5 DEF Compact
    <2>7. TypeOK'
      <3>1. UNCHANGED <<clerkVars, stray, electVars, lastApplied, batch, incoming, kv, shipped,
                        restarts>>
        BY Zenon, <1>5 DEF Compact
      <3> QED BY Zenon, <2>4, <2>5, <2>6, <3>1 DEF BaseInv, TypeOK, Call, DaemonType
    <2>8. /\ snapshotIndex'[s] = disk'[s].snapshotIndex
          /\ Within(s, disk'[s].snapshotIndex)
          /\ \A t \in Server \ {s} : snapshotIndex'[t] = snapshotIndex[t] /\ disk'[t] = disk[t]
      <3>1. CASE UNCHANGED <<snapshotIndex, disk>>
        BY Zenon, <1>1, <3>1 DEF ServerBounds
      <3>2. CASE ~ (lastApplied[s] < i) /\ snapshotIndex' = [snapshotIndex EXCEPT ![s] = i]
                 /\ disk' = [disk EXCEPT ![s] = e]
        <4>1. lastApplied[s] \in Nat /\ Len(committed) \in Nat /\ Len(rlog[s]) \in Nat
          BY Zenon, BaseFacts
        <4>2. lastApplied[s] <= Len(committed) /\ lastApplied[s] <= Len(rlog[s])
          BY Zenon, <1>1 DEF ServerBounds, Within
        <4> HIDE DEF i
        <4>3. i <= Len(committed) /\ i <= Len(rlog[s])
          BY <2>1, <3>2, <4>1, <4>2
        <4>4. /\ disk'[s] = e /\ snapshotIndex'[s] = i
              /\ \A t \in Server \ {s} : snapshotIndex'[t] = snapshotIndex[t] /\ disk'[t] = disk[t]
          BY Zenon, <3>2, BaseFacts
        <4> QED BY Zenon, <2>2, <4>3, <4>4 DEF Within
      <3> QED BY Zenon, <2>3, <3>1, <3>2
    <2>9. ServerBounds(s)'
      BY Zenon, <1>1, <1>5, <2>5, <2>8, DaemonPlaces DEF Compact, ServerBounds, Within
    <2>10. LogBounds'
      BY Zenon, <1>5, <2>5, <2>8, <2>9, OtherServers DEF Compact
    <2> QED BY Zenon, <2>6, <2>7, <2>10 DEF BaseInv
  <1>6. CASE LoadSnapshot(s)
    <2> DEFINE g == Generated(daemon[s].data, daemon[s].index)
               e == [disk[s] EXCEPT !.snapshot = g]
    <2>1. daemon[s].data \in KV /\ daemon[s].index \in 0..MaxLog
      BY Zenon, <1>1, <1>2, <1>6 DEF LoadSnapshot, ServerBounds, DaemonType
    <2>2. g \in KV
      BY Zenon, <2>1, DaemonPlaces
    <2> HIDE DEF g
    <2>3. e \in [snapshotIndex : 0..MaxLog, snapshot : KV] /\ e.snapshotIndex = disk[s].snapshotIndex
      <3>1. disk[s] \in [snapshotIndex : 0..MaxLog, snapshot : KV]
        BY Zenon, BaseFacts
      <3> QED BY <2>2, <3>1
    <2> HIDE DEF e
    <2>4. /\ kv' = [kv EXCEPT ![s] = g] /\ disk' = [disk EXCEPT ![s] = e]
          /\ daemon' = [daemon EXCEPT ![s] = Idle]
      BY Zenon, <1>6 DEF LoadSnapshot, ReadSnapshot, g, e
    <2>5. /\ kv' \in [Server -> KV] /\ daemon' \in [Server -> DaemonType]
          /\ disk' \in [Server -> [snapshotIndex : 0..MaxLog, snapshot : KV]]
      BY Zenon, <1>2, <2>2, <2>3, <2>4, BaseFacts, DaemonPlaces
    <2>6. /\ daemon'[s] = Idle /\ disk'[s] = e
          /\ \A t \in Server \ {s} : daemon'[t] = daemon[t] /\ disk'[t] = disk[t]
      BY Zenon, <1>2, <2>4, BaseFacts
    <2>7. TypeOK'
      BY Zenon, <1>6, <2>5 DEF LoadSnapshot, BaseInv, TypeOK, DaemonType
    <2>8. CallInv'
      BY Zenon, <1>6 DEF LoadSnapshot, BaseInv, CallInv
    <2>9. ServerBounds(s)'
      BY Zenon, <1>1, <1>6, <2>3, <2>6, DaemonPlaces DEF LoadSnapshot, ServerBounds, Within
    <2>10. LogBounds'
      BY Zenon, <1>6, <2>6, <2>9, OtherServers DEF LoadSnapshot
    <2> QED BY Zenon, <2>7, <2>8, <2>10 DEF BaseInv
  <1>7. CASE Restart(s)
    <2>1. /\ disk[s].snapshot \in KV /\ disk[s].snapshotIndex \in 0..MaxLog
          /\ {} \in SUBSET (1..MaxLog)
      BY Zenon, BaseFacts
    <2>2. 0 \in 0..MaxTerm /\ restarts' \in 0..MaxRestarts
      <3>1. restarts \in 0..MaxRestarts /\ restarts < MaxRestarts /\ restarts' = restarts + 1
        BY Zenon, <1>7 DEF Restart, BaseInv, TypeOK
      <3> QED BY <3>1, Bounds
    <2>3. /\ lead' \in [Server -> 0..MaxTerm] /\ batch' \in [Server -> SUBSET (1..MaxLog)]
          /\ snapshotIndex' \in [Server -> 0..MaxLog] /\ lastApplied' \in [Server -> 0..MaxLog]
      BY Zenon, <1>7, <2>1, <2>2, BaseFacts DEF Restart
    <2>4. /\ incoming' \in [Server -> [index : 1..MaxLog, data : KV, sent : BOOLEAN] \cup {None}]
          /\ kv' \in [Server -> KV] /\ daemon' \in [Server -> DaemonType]
      BY Zenon, <1>2, <1>7, <2>1, BaseFacts, DaemonPlaces DEF Restart, ReadSnapshot
    <2>5. /\ snapshotIndex'[s] = disk[s].snapshotIndex /\ lastApplied'[s] = disk[s].snapshotIndex
          /\ batch'[s] = {} /\ incoming'[s] = None /\ daemon'[s] = Idle
          /\ \A t \in Server \ {s} : /\ snapshotIndex'[t] = snapshotIndex[t]
                                     /\ lastApplied'[t] = lastApplied[t] /\ batch'[t] = batch[t]
                                     /\ incoming'[t] = incoming[t] /\ daemon'[t] = daemon[t]
      BY ZenonT(60), <1>2, <1>7, BaseFacts DEF Restart
    <2>6. /\ call' \in [Clerk -> Call]
          /\ \A c \in Clerk : call'[c].stage = "none" <=> call[c].stage = "none"
      <3>1. Failed(s) \in Call /\ Failed(s).stage = "failed"
        BY Zenon, CallTypes DEF AtStage
      <3>2. call' = [c \in Clerk |->
                       IF call[c].server = s /\ call[c].stage \notin {"none", "sent", "ok"}
                       THEN Failed(s) ELSE call[c]]
        BY Zenon, <1>7 DEF Restart
      <3> QED BY Zenon, <3>1, <3>2, BaseFacts
    <2>7. CallInv'
      BY Zenon, <1>7, <2>6 DEF Restart, BaseInv, CallInv
    <2>8. TypeOK'
      BY ZenonT(60), <1>7, <2>2, <2>3, <2>4, <2>6 DEF Restart, BaseInv, TypeOK, Call, DaemonType
    <2>9. ServerBounds(s)'
      BY Zenon, <1>1, <1>7, <2>5, DaemonPlaces DEF Restart, ServerBounds, Within
    <2>10. LogBounds'
      BY Zenon, <1>7, <2>5, <2>9, OtherServers DEF Restart
    <2> QED BY Zenon, <2>7, <2>8, <2>10 DEF BaseInv
  <1> QED BY SMTT(60), <1>4, <1>5, <1>6, <1>7

\* The steps of a new server begin with empty logs.
LEMMA InitBase == Init => BaseInv
  <1> SUFFICES ASSUME Init PROVE BaseInv
    OBVIOUS
  <1> USE DEF Init, Booted
  <1>1. /\ 0 \in 0..MaxLog /\ 0 \in 0..MaxTerm /\ 0 \in 0..MaxRestarts /\ 0 \in 0..MaxSeq
        /\ 1 \in 1..(MaxSeq + 1) /\ <<>> \in Value /\ 0 <= MaxLog /\ 0 <= 0
        /\ <<>> \in Seq(LogEntry) /\ Len(<<>>) = 0
    BY SMTT(60), Bounds, EmptySeq DEF Value
  <1>2. NewKV \in KV
    BY SMTT(60), <1>1 DEF NewKV, KV
  <1>3. /\ seq \in [Clerk -> 1..(MaxSeq + 1)] /\ op \in [Clerk -> Op \cup {None}]
        /\ since \in [Clerk -> 0..MaxLog] /\ result \in [Clerk -> Value]
        /\ rlog \in [Server -> Seq(LogEntry)] /\ committed \in Seq(LogEntry)
        /\ lastApplied \in [Server -> 0..MaxLog] /\ snapshotIndex \in [Server -> 0..MaxLog]
        /\ lead \in [Server -> 0..MaxTerm] /\ stray \subseteq [op : Op, server : Server]
        /\ incoming \in [Server -> [index : 1..MaxLog, data : KV, sent : BOOLEAN] \cup {None}]
        /\ batch \in [Server -> SUBSET (1..MaxLog)] /\ leader \in [Clerk -> Server]
    BY Zenon, <1>1
  <1>4. call \in [Clerk -> Call] /\ NoCall.stage = "none"
    BY Zenon, CallTypes, Bounds DEF AtStage
  <1>5. /\ kv \in [Server -> KV] /\ daemon \in [Server -> DaemonType]
        /\ disk \in [Server -> [snapshotIndex : 0..MaxLog, snapshot : KV]]
    BY Zenon, <1>1, <1>2, DaemonPlaces
  <1>6. TypeOK
    BY Zenon, <1>1, <1>3, <1>4, <1>5 DEF TypeOK, Call, DaemonType, LogEntry
  <1>7. CallInv
    BY Zenon, <1>4 DEF CallInv
  <1>8. LogBounds
    BY ZenonT(60), <1>1, DaemonPlaces DEF LogBounds, ServerBounds, Within
  <1> QED BY Zenon, <1>6, <1>7, <1>8 DEF BaseInv

\* Every step keeps the types and the bounds.
LEMMA BaseStep == BaseInv /\ [Next]_vars => BaseInv'
  <1> SUFFICES ASSUME BaseInv, [Next]_vars PROVE BaseInv'
    OBVIOUS
  <1>1. ASSUME NEW c \in Clerk, Submit(c)
        PROVE  BaseInv'
    <2>1. /\ call[c].server \in Server /\ call[c].stage # "none"
      BY Zenon, <1>1, BaseFacts DEF Call, Submit
    <2>2. op[c] \in Op
      <3>1. op[c] # None
        BY Zenon, <2>1 DEF BaseInv, CallInv
      <3> QED BY Zenon, <3>1 DEF BaseInv, TypeOK
    <2>3. stray' \subseteq stray
      BY Zenon, <1>1 DEF Submit
    <2> QED BY Zenon, <1>1, <2>1, <2>2, <2>3, StartTypes DEF Submit
  <1>2. ASSUME NEW r \in stray, StraySubmit(r)
        PROVE  BaseInv'
    <2>1. r.server \in Server /\ r.op \in Op
      BY Zenon DEF BaseInv, TypeOK
    <2> QED BY Zenon, <1>2, <2>1, StartTypes DEF StraySubmit
  <1>3. ASSUME NEW r \in stray, StrayEnds(r)
        PROVE  BaseInv'
    BY Zenon, <1>3 DEF StrayEnds, BaseInv, TypeOK, CallInv, LogBounds, ServerBounds, Within,
                       HandlerRest, clerkVars, raftVars
  <1>4. CASE UNCHANGED vars
    BY Zenon, <1>4 DEF BaseInv, TypeOK, CallInv, LogBounds, ServerBounds, Within, vars, clerkVars,
                       electVars, raftVars
  <1> QED BY Zenon, <1>1, <1>2, <1>3, <1>4, ClerkTypes, HandlerTypes, ElectTypes, InstallTypes,
             DaemonTypes DEF Next

\* The variables of the clerks, the handlers, Raft and the service keep their types.
THEOREM TypesOfService == Spec => []TypeOK
  <1>1. Init => BaseInv
    BY InitBase
  <1>2. BaseInv /\ [Next]_vars => BaseInv'
    BY BaseStep
  <1>3. BaseInv => TypeOK
    BY Zenon DEF BaseInv
  <1> QED BY <1>1, <1>2, <1>3, PTL DEF Spec
-----------------------------------------------------------------------------
(* The replicas                                                            *)

\* The history: replay[n + 1] is what the first n committed commands make of a new server.
ReplayInv ==
    /\ replay \in Seq(KV) /\ Len(replay) = Len(committed) + 1 /\ replay[1] = NewKV
    /\ \A n \in 1..Len(committed) : replay[n + 1] = Applied(replay[n], committed[n].op)

\* The table of duplicates covers every command before it.
DupCovers ==
    \A n \in 0..Len(committed) : \A i \in 1..n :
        committed[i].op.seq <= replay[n + 1].duplicate[committed[i].op.client].seq

\* k holds what the first n commands of history r leave.
Holds(k, n, r) == k.db = r[n + 1].db /\ k.duplicate = r[n + 1].duplicate

\* With last the index applied last, and the indices b on their way, what is still to come
\* begins at n + 1 or before, and has no gap.
ReachedBy(n, last, b) ==
    \/ n >= last
    \/ (\A j \in b : j = last \/ j + 1 \in b) /\ (\E j \in b : j <= n + 1)

\* k holds what some first commands leave of a history r of len commands, not fewer than
\* its index.
ReplicaOf(k, len, r) == \E n \in k.index..len : Holds(k, n, r)

\* The data of a snapshot under index i.
IsSnapshot(data, i, len, r) == data \in KV /\ i <= data.index /\ ReplicaOf(data, len, r)

DiskInv(s) == snapshotIndex[s] <= disk[s].snapshot.index /\ ReplicaOf(disk[s].snapshot, Len(committed), replay)

\* InstallSnapshot holds a snapshot that is news to Raft; once handed over, it is where
\* applyDaemon is, or behind it.
IncomingInv(s) ==
    incoming[s] # None =>
        /\ IsSnapshot(incoming[s].data, incoming[s].index, Len(committed), replay)
        /\ incoming[s].index > snapshotIndex[s] /\ incoming[s].index >= lastApplied[s]
        /\ incoming[s].sent =>
              /\ daemon[s].at = "install" => daemon[s].index = incoming[s].index
              /\ daemon[s].at # "install" => kv[s].index >= incoming[s].index
              /\ daemon[s].at = "compact" => kv[s].index > incoming[s].index

\* applyDaemon has applied all that Raft will not send again, and gets the rest in order.
DaemonInv(s) ==
    /\ batch[s] \subseteq 1..lastApplied[s] /\ ReplicaOf(kv[s], Len(committed), replay)
    /\ daemon[s].at = "install" =>
          /\ IsSnapshot(daemon[s].data, daemon[s].index, Len(committed), replay)
          /\ snapshotIndex[s] <= daemon[s].index
          /\ ReachedBy(daemon[s].index, lastApplied[s], batch[s])
    /\ daemon[s].at # "install" =>
          /\ snapshotIndex[s] <= kv[s].index
          /\ \E n \in kv[s].index..Len(committed) :
                Holds(kv[s], n, replay) /\ ReachedBy(n, lastApplied[s], batch[s])
    /\ daemon[s].at = "compact" =>
          /\ daemon[s].index = kv[s].index /\ daemon[s].index <= lastApplied[s]
          /\ daemon[s].index > snapshotIndex[s]

ServerInv(s) == DiskInv(s) /\ IncomingInv(s) /\ DaemonInv(s)

ReplicaInv ==
    /\ BaseInv /\ ReplayInv /\ DupCovers
    /\ \A s \in Server : ServerInv(s)
    /\ shipped # None => IsSnapshot(shipped.data, shipped.index, Len(committed), replay)

\* A step only adds to the history.
Grows ==
    /\ Len(committed) <= Len(committed')
    /\ \A i \in 1..Len(committed) : committed'[i] = committed[i]
    /\ \A n \in 0..Len(committed) : replay'[n + 1] = replay[n + 1]

\* The states in the history.
LEMMA ReplayFacts ==
    ASSUME BaseInv, ReplayInv
    PROVE  /\ \A n \in 0..Len(committed) : replay[n + 1] \in KV
           /\ \A n \in 1..Len(committed) : replay[n + 1] = Applied(replay[n], committed[n].op)
  <1>1. ASSUME NEW n \in 0..Len(committed)
        PROVE  replay[n + 1] \in KV
    <2>1. n + 1 \in 1..Len(replay)
      BY SMTT(60), BaseFacts DEF ReplayInv
    <2> QED BY <2>1, ElementOfSeq DEF ReplayInv
  <1> QED BY Zenon, <1>1 DEF ReplayInv

\* Who holds what the first n commands leave, and applies the next one or one of them
\* again, holds what the first n commands and this one leave.
LEMMA Advance ==
    ASSUME BaseInv, ReplayInv, DupCovers, NEW k \in KV, NEW n \in 0..Len(committed),
           NEW i \in 1..Len(committed), Holds(k, n, replay), i <= n + 1
    PROVE  LET a == Applied(k, committed[i].op)
           IN /\ a \in KV /\ a.index = k.index
              /\ \E m \in 0..Len(committed) : m >= n /\ m >= i /\ Holds(a, m, replay)
  <1> DEFINE o == committed[i].op
             a == Applied(k, o)
             r == replay[n + 1]
  <1>1. o \in Op /\ r \in KV
    BY Zenon, BaseFacts, ReplayFacts
  <1>2. k.db = r.db /\ k.duplicate = r.duplicate
    BY Zenon DEF Holds
  <1>3. a \in KV /\ a.index = k.index
    BY Zenon, <1>1, AppliedFields
  <1>4. o.seq \in Nat /\ k.duplicate[o.client].seq \in Nat
    <2>1. o.client \in Clerk /\ o.seq \in 1..MaxSeq
      BY Zenon, <1>1, AppliedFields
    <2> HIDE DEF o
    <2> QED BY SMTT(60), <2>1, Bounds DEF KV
  <1>5. CASE i <= n
    <2>1. i \in 1..n
      BY <1>5
    <2>2. o.seq <= r.duplicate[o.client].seq
      BY Zenon, <2>1 DEF DupCovers
    <2> HIDE DEF o, r
    <2>3. k.duplicate[o.client].seq >= o.seq
      BY <1>2, <1>4, <2>2
    <2>4. a = k
      BY Zenon, <1>1, <2>3, AppliedFields DEF o
    <2>5. n >= n /\ n >= i
      BY <1>5
    <2> QED BY Zenon, <1>3, <2>4, <2>5 DEF o
  <1>6. CASE ~ (i <= n)
    <2>1. i = n + 1 /\ i \in 0..Len(committed) /\ i >= n /\ i >= i
      BY SMTT(60), <1>6, BaseFacts
    <2>2. replay[i + 1] = Applied(r, o)
      BY Zenon, <2>1, ReplayFacts
    <2> HIDE DEF o, r
    <2>3. a.db = Applied(r, o).db /\ a.duplicate = Applied(r, o).duplicate
      <3>1. CASE k.duplicate[o.client].seq < o.seq
        <4> DEFINE Entry(x) == [seq |-> o.seq, value |-> IF o.kind = "Get" THEN x.db[o.key]
                                                          ELSE <<>>]
        <4>1. /\ a.db = [k.db EXCEPT ![o.key] = Written(o, @)]
              /\ a.duplicate = [k.duplicate EXCEPT ![o.client] = Entry(k)]
          BY Zenon, <1>1, <3>1, AppliedFields
        <4>2. r.duplicate[o.client].seq < o.seq
          BY Zenon, <1>2, <3>1
        <4>3. /\ Applied(r, o).db = [r.db EXCEPT ![o.key] = Written(o, @)]
              /\ Applied(r, o).duplicate = [r.duplicate EXCEPT ![o.client] = Entry(r)]
          BY Zenon, <1>1, <4>2, AppliedFields
        <4> HIDE DEF a
        <4> QED BY Zenon, <1>2, <4>1, <4>3
      <3>2. CASE k.duplicate[o.client].seq >= o.seq
        BY Zenon, <1>1, <1>2, <3>2, AppliedFields
      <3> QED BY SMTT(60), <1>4, <3>1, <3>2
    <2>4. Holds(a, i, replay)
      BY Zenon, <2>2, <2>3 DEF Holds
    <2> QED BY Zenon, <1>3, <2>1, <2>4 DEF o
  <1> QED BY <1>5, <1>6

\* What stays where it is, keeps its part of the history.
LEMMA ReplicaGrows ==
    ASSUME BaseInv, BaseInv', Grows, NEW k, NEW lo \in Nat, NEW n \in lo..Len(committed),
           Holds(k, n, replay)
    PROVE  n \in lo..Len(committed') /\ Holds(k, n, replay')
  <1>1. n \in 0..Len(committed) /\ n \in lo..Len(committed')
    <2>1. Len(committed) \in Nat /\ Len(committed') \in Int /\ Len(committed) <= Len(committed')
      BY BaseFacts DEF Grows
    <2> QED BY <2>1
  <1> QED BY Zenon, <1>1 DEF Grows, Holds

\* A snapshot of the committed commands stays one when more are committed.
LEMMA SnapshotGrows ==
    ASSUME BaseInv, BaseInv', Grows, NEW k \in KV, ReplicaOf(k, Len(committed), replay)
    PROVE  ReplicaOf(k, Len(committed'), replay')
  <1>1. PICK n \in k.index..Len(committed) : Holds(k, n, replay)
    BY Zenon DEF ReplicaOf
  <1>2. k.index \in Nat
    BY Bounds DEF KV
  <1>3. n \in k.index..Len(committed') /\ Holds(k, n, replay')
    BY Zenon, <1>1, <1>2, ReplicaGrows
  <1> QED BY Zenon, <1>3 DEF ReplicaOf

\* A server that does not move keeps its invariant.
LEMMA KeepsServer ==
    ASSUME BaseInv, BaseInv', Grows, NEW t \in Server, ServerInv(t),
           /\ lastApplied'[t] = lastApplied[t] /\ snapshotIndex'[t] = snapshotIndex[t]
           /\ batch'[t] = batch[t] /\ incoming'[t] = incoming[t] /\ kv'[t] = kv[t]
           /\ daemon'[t] = daemon[t] /\ disk'[t] = disk[t]
    PROVE  ServerInv(t)'
  <1>1. ASSUME NEW k, k \in KV, ReplicaOf(k, Len(committed), replay)
        PROVE  ReplicaOf(k, Len(committed'), replay')
    BY Zenon, <1>1, SnapshotGrows
  <1>2. kv[t] \in KV /\ disk[t].snapshot \in KV /\ kv[t].index \in Nat
    <2>1. kv[t] \in KV /\ disk[t].snapshot \in KV
      BY Zenon, BaseFacts
    <2> QED BY SMTT(60), <2>1, Bounds DEF KV
  <1>3. DiskInv(t)'
    BY Zenon, <1>1, <1>2 DEF ServerInv, DiskInv
  <1>4. IncomingInv(t)'
    BY Zenon, <1>1, <1>2 DEF ServerInv, IncomingInv, IsSnapshot
  <1>5. ASSUME daemon[t].at # "install"
        PROVE  \E n \in kv[t].index..Len(committed') :
                  Holds(kv[t], n, replay') /\ ReachedBy(n, lastApplied[t], batch[t])
    <2>1. PICK n \in kv[t].index..Len(committed) :
                  Holds(kv[t], n, replay) /\ ReachedBy(n, lastApplied[t], batch[t])
      BY Zenon, <1>5 DEF ServerInv, DaemonInv
    <2>2. n \in kv[t].index..Len(committed') /\ Holds(kv[t], n, replay')
      BY Zenon, <1>2, <2>1, ReplicaGrows
    <2> QED BY Zenon, <2>1, <2>2
  <1>6. DaemonInv(t)'
    BY Zenon, <1>1, <1>2, <1>5 DEF ServerInv, DaemonInv, IsSnapshot
  <1> QED BY Zenon, <1>3, <1>4, <1>6 DEF ServerInv

\* Unless an entry is committed, the history stands.
HistoryStands == UNCHANGED <<committed, replay>>

\* A history that stands still grows, by nothing.
LEMMA StandsGrows ==
    ASSUME BaseInv, HistoryStands
    PROVE  Grows
  <1>1. Len(committed) <= Len(committed)
    BY SMTT(60), BaseFacts
  <1> QED BY Zenon, <1>1 DEF HistoryStands, Grows

\* Steps that move at most one server, under a history that stands.
LEMMA OtherReplicas ==
    ASSUME ReplicaInv, BaseInv', HistoryStands, NEW s \in Server, ServerInv(s)',
           \A t \in Server \ {s} : /\ lastApplied'[t] = lastApplied[t] /\ disk'[t] = disk[t]
                                   /\ snapshotIndex'[t] = snapshotIndex[t]
                                   /\ batch'[t] = batch[t] /\ incoming'[t] = incoming[t]
                                   /\ kv'[t] = kv[t] /\ daemon'[t] = daemon[t],
           UNCHANGED shipped
    PROVE  ReplicaInv'
  <1>1. BaseInv /\ Grows
    BY Zenon, StandsGrows DEF ReplicaInv
  <1>2. \A t \in Server : ServerInv(t)'
    BY Zenon, <1>1, KeepsServer DEF ReplicaInv
  <1>3. ReplayInv' /\ DupCovers'
    BY Zenon DEF ReplicaInv, ReplayInv, DupCovers, HistoryStands
  <1>4. (shipped # None => IsSnapshot(shipped.data, shipped.index, Len(committed), replay))'
    BY Zenon DEF ReplicaInv, HistoryStands, IsSnapshot
  <1> QED BY Zenon, <1>2, <1>3, <1>4 DEF ReplicaInv

\* A step that leaves the service and Raft alone.
LEMMA QuietReplicas ==
    ASSUME ReplicaInv, BaseInv',
           UNCHANGED <<committed, replay, raftVars, kv, daemon, disk, shipped>>
    PROVE  ReplicaInv'
  <1> USE DEF raftVars
  <1>1. \A t \in Server : ServerInv(t)'
    BY ZenonT(60) DEF ReplicaInv, ServerInv, DiskInv, IncomingInv, DaemonInv, IsSnapshot
  <1>2. ReplayInv' /\ DupCovers'
    BY Zenon DEF ReplicaInv, ReplayInv, DupCovers
  <1>3. (shipped # None => IsSnapshot(shipped.data, shipped.index, Len(committed), replay))'
    BY Zenon DEF ReplicaInv, IsSnapshot
  <1> QED BY Zenon, <1>1, <1>2, <1>3 DEF ReplicaInv

\* A command leaves no number in the table of duplicates behind, and its own at least.
LEMMA DupMonotone ==
    ASSUME NEW k \in KV, NEW o \in Op
    PROVE  LET a == Applied(k, o)
           IN /\ o.seq <= a.duplicate[o.client].seq
              /\ \A c \in Clerk : k.duplicate[c].seq <= a.duplicate[c].seq
  <1> DEFINE a == Applied(k, o)
  <1>1. o.client \in Clerk /\ o.seq \in Nat
    <2>1. o.client \in Clerk /\ o.seq \in 1..MaxSeq
      BY Zenon, AppliedFields
    <2> QED BY <2>1, Bounds
  <1>2. /\ k.duplicate \in [Clerk -> [seq : 0..MaxSeq, value : Value]]
        /\ \A c \in Clerk : k.duplicate[c].seq \in Nat
    <2>1. k.duplicate \in [Clerk -> [seq : 0..MaxSeq, value : Value]]
      BY DEF KV
    <2> QED BY <2>1, Bounds
  <1>3. CASE k.duplicate[o.client].seq >= o.seq
    <2>1. a = k
      BY Zenon, <1>3, AppliedFields
    <2>2. /\ o.seq <= k.duplicate[o.client].seq
          /\ \A c \in Clerk : k.duplicate[c].seq <= k.duplicate[c].seq
      BY <1>1, <1>2, <1>3
    <2> QED BY Zenon, <2>1, <2>2
  <1>4. CASE k.duplicate[o.client].seq < o.seq
    <2> DEFINE e == [seq |-> o.seq, value |-> IF o.kind = "Get" THEN k.db[o.key] ELSE <<>>]
    <2>1. a.duplicate = [k.duplicate EXCEPT ![o.client] = e]
      BY Zenon, <1>4, AppliedFields
    <2>2. e.seq = o.seq
      BY Zenon
    <2> HIDE DEF a, e
    <2>3. /\ a.duplicate[o.client].seq = o.seq
          /\ \A c \in Clerk \ {o.client} : a.duplicate[c].seq = k.duplicate[c].seq
      BY Zenon, <1>1, <1>2, <2>1, <2>2
    <2>4. o.seq <= o.seq /\ k.duplicate[o.client].seq <= o.seq
          /\ \A c \in Clerk : k.duplicate[c].seq <= k.duplicate[c].seq
      BY <1>1, <1>2, <1>4
    <2>5. /\ o.seq <= a.duplicate[o.client].seq
          /\ \A c \in Clerk : k.duplicate[c].seq <= a.duplicate[c].seq
      BY Zenon, <2>3, <2>4
    <2> QED BY Zenon, <2>5 DEF a
  <1> QED BY SMTT(60), <1>1, <1>2, <1>3, <1>4

\* What Commit appends: entry e, and the state r made into Applied(r, e.op).
LEMMA CommitFacts ==
    ASSUME BaseInv, ReplayInv, NEW s \in Server, Commit(s)
    PROVE  LET N == Len(committed)
               e == rlog[s][N + 1]
               r == replay[N + 1]
           IN /\ e \in LogEntry /\ e.op \in Op /\ r \in KV /\ Applied(r, e.op) \in KV
              /\ N \in Nat /\ Len(committed') = N + 1 /\ committed'[N + 1] = e
              /\ replay' \in Seq(KV) /\ Len(replay') = N + 2
              /\ replay'[(N + 1) + 1] = Applied(r, e.op)
              /\ Grows
  <1> DEFINE N == Len(committed)
             e == rlog[s][N + 1]
             r == replay[N + 1]
             a == Applied(r, e.op)
  <1>1. N \in Nat /\ N + 1 \in 1..Len(rlog[s]) /\ N \in 0..N
    BY SMTT(60), BaseFacts DEF Commit
  <1>2. e \in LogEntry
    BY SMTT(60), <1>1, BaseFacts, ElementOfSeq
  <1>3. e.op \in Op
    BY <1>2 DEF LogEntry
  <1>4. r \in KV
    BY Zenon, <1>1, ReplayFacts
  <1>5. a \in KV
    BY Zenon, <1>3, <1>4, AppliedFields
  <1>6. Len(replay) = N + 1 /\ replay \in Seq(KV) /\ replay[Len(replay)] = r
    BY Zenon DEF ReplayInv
  <1>7. committed' = Append(committed, e) /\ replay' = Append(replay, a)
    BY Zenon, <1>6 DEF Commit
  <1> HIDE DEF e, a
  <1>8. /\ Len(committed') = N + 1 /\ committed'[N + 1] = e
        /\ \A i \in 1..N : committed'[i] = committed[i]
    BY SMTT(60), <1>2, <1>7, BaseFacts, AppendProperties
  <1>9. /\ replay' \in Seq(KV) /\ Len(replay') = Len(replay) + 1 /\ replay'[Len(replay) + 1] = a
        /\ \A i \in 1..Len(replay) : replay'[i] = replay[i]
    BY SMTT(60), <1>5, <1>6, <1>7, AppendProperties
  <1>10. /\ Len(replay) + 1 = N + 2 /\ Len(replay) + 1 = (N + 1) + 1
         /\ \A n \in 0..N : n + 1 \in 1..Len(replay)
         /\ N <= N + 1
    BY <1>1, <1>6
  <1>11. Grows
    BY Zenon, <1>8, <1>9, <1>10 DEF Grows
  <1>12. Len(replay') = N + 2 /\ replay'[(N + 1) + 1] = a
    BY Zenon, <1>9, <1>10
  <1> QED BY Zenon, <1>1, <1>2, <1>3, <1>4, <1>5, <1>8, <1>9, <1>11, <1>12 DEF e, a

\* Commit extends the history, and no server moves.
LEMMA CommitReplicas ==
    ASSUME ReplicaInv, BaseInv', NEW s \in Server, Commit(s)
    PROVE  ReplicaInv'
  <1> DEFINE N == Len(committed)
             o == rlog[s][N + 1].op
             r == replay[N + 1]
  <1>1. BaseInv /\ ReplayInv /\ DupCovers
    BY Zenon DEF ReplicaInv
  <1>2. /\ N \in Nat /\ o \in Op /\ r \in KV /\ Len(committed') = N + 1
        /\ committed'[N + 1].op = o /\ replay'[(N + 1) + 1] = Applied(r, o) /\ Grows
        /\ Len(replay') = N + 2 /\ replay' \in Seq(KV)
    BY Zenon, <1>1, CommitFacts
  <1> HIDE DEF o
  <1>3. /\ \A i \in 1..N : committed'[i] = committed[i]
        /\ \A n \in 0..N : replay'[n + 1] = replay[n + 1]
    BY Zenon, <1>2 DEF Grows
  <1>4. ReplayInv'
    <2>1. Len(replay') = Len(committed') + 1 /\ 0 \in 0..N /\ 0 + 1 = 1
      BY <1>2
    <2>2. replay'[1] = NewKV
      <3>1. replay'[0 + 1] = replay[0 + 1]
        BY Zenon, <1>3, <2>1
      <3> QED BY <1>1, <3>1 DEF ReplayInv
    <2>3. ASSUME NEW n \in 1..(N + 1)
          PROVE  replay'[n + 1] = Applied(replay'[n], committed'[n].op)
      <3>1. CASE n = N + 1
        <4>1. N \in 0..N
          BY <1>2
        <4>2. replay'[N + 1] = r
          BY Zenon, <1>3, <4>1
        <4> QED BY Zenon, <1>2, <3>1, <4>2
      <3>2. CASE n # N + 1
        <4>1. n \in 1..N /\ n \in 0..N /\ n - 1 \in 0..N /\ (n - 1) + 1 = n
          BY <1>2, <3>2
        <4>2. replay'[n + 1] = replay[n + 1] /\ replay'[(n - 1) + 1] = replay[(n - 1) + 1]
          BY Zenon, <1>3, <4>1
        <4>3. replay[n + 1] = Applied(replay[n], committed[n].op)
          BY Zenon, <1>1, <4>1 DEF ReplayInv
        <4> QED BY Zenon, <1>3, <4>1, <4>2, <4>3
      <3> QED BY <3>1, <3>2
    <2> QED BY Zenon, <1>2, <2>1, <2>2, <2>3 DEF ReplayInv
  <1>5. DupCovers'
    <2>1. ASSUME NEW n \in 0..(N + 1), NEW i \in 1..n
          PROVE  committed'[i].op.seq <= replay'[n + 1].duplicate[committed'[i].op.client].seq
      <3>1. CASE n \in 0..N
        <4>1. i \in 1..N
          BY <1>2, <3>1
        <4>2. committed[i].op.seq <= replay[n + 1].duplicate[committed[i].op.client].seq
          BY Zenon, <1>1, <3>1 DEF DupCovers
        <4> QED BY Zenon, <1>3, <3>1, <4>1, <4>2
      <3>2. CASE n = N + 1 /\ i = N + 1
        BY Zenon, <1>2, <3>2, DupMonotone
      <3>3. CASE n = N + 1 /\ i # N + 1
        <4>1. i \in 1..N /\ N \in 0..N
          BY <1>2, <3>3
        <4> DEFINE u == committed[i].op
                   a == Applied(r, o)
        <4>2. u.seq <= r.duplicate[u.client].seq
          BY Zenon, <1>1, <4>1 DEF DupCovers
        <4>3. u \in Op /\ a \in KV
          BY Zenon, <1>1, <1>2, <4>1, BaseFacts, AppliedFields
        <4> HIDE DEF u, a
        <4>4. u.client \in Clerk /\ u.seq \in 1..MaxSeq
          BY Zenon, <4>3, AppliedFields, <1>2
        <4>5. r.duplicate[u.client].seq <= a.duplicate[u.client].seq
          BY Zenon, <1>2, <4>4, DupMonotone DEF a
        <4>6. u.seq \in Nat /\ r.duplicate[u.client].seq \in Nat /\ a.duplicate[u.client].seq \in Nat
          <5>1. u.seq \in Nat
            BY <4>4, Bounds
          <5> QED BY Zenon, <1>2, <4>3, <4>4, <5>1, KVFields
        <4>7. u.seq <= a.duplicate[u.client].seq
          BY SMTT(60), <4>2, <4>5, <4>6
        <4> QED BY Zenon, <1>2, <1>3, <3>3, <4>1, <4>7 DEF u, a
      <3> QED BY SMTT(60), <1>2, <3>1, <3>2, <3>3
    <2> QED BY Zenon, <1>2, <2>1 DEF DupCovers
  <1>6. \A t \in Server : ServerInv(t)'
    BY Zenon, <1>1, <1>2, KeepsServer DEF ReplicaInv, Commit, raftVars
  <1>7. (shipped # None => IsSnapshot(shipped.data, shipped.index, Len(committed), replay))'
    BY Zenon, <1>1, <1>2, SnapshotGrows DEF ReplicaInv, Commit, IsSnapshot
  <1> QED BY Zenon, <1>4, <1>5, <1>6, <1>7 DEF ReplicaInv

\* A new batch begins behind the last one.
LEMMA ReachedTaken ==
    ASSUME NEW n \in Nat, NEW last \in Nat, NEW len \in Nat, ReachedBy(n, last, {})
    PROVE  ReachedBy(n, len, (last + 1)..len)
  <1>1. n >= last
    BY DEF ReachedBy
  <1>2. CASE n >= len
    BY <1>2 DEF ReachedBy
  <1>3. CASE ~ (n >= len)
    <2>1. last + 1 \in (last + 1)..len /\ last + 1 <= n + 1
      BY <1>1, <1>3
    <2>2. \A j \in (last + 1)..len : j = len \/ j + 1 \in (last + 1)..len
      OBVIOUS
    <2> QED BY Zenon, <2>1, <2>2 DEF ReachedBy
  <1> QED BY <1>2, <1>3

\* The first index of a batch is not too far, and behind it the next is the first one.
LEMMA ReachedNext ==
    ASSUME NEW n \in Nat, NEW last \in Nat, NEW b, b \subseteq 1..last, ReachedBy(n, last, b),
           NEW i \in b, \A j \in b : i <= j
    PROVE  /\ i <= n + 1 /\ i <= last
           /\ \A m \in Nat : m >= n /\ m >= i => ReachedBy(m, last, b \ {i})
  <1>1. i \in Nat /\ i <= last
    OBVIOUS
  <1>2. i <= n + 1
    <2>1. CASE n >= last
      BY <1>1, <2>1
    <2>2. CASE \E j \in b : j <= n + 1
      BY <1>1, <2>2
    <2> QED BY <2>1, <2>2 DEF ReachedBy
  <1>3. ASSUME NEW m \in Nat, m >= n, m >= i
        PROVE  ReachedBy(m, last, b \ {i})
    <2>1. CASE m >= last
      BY Zenon, <2>1 DEF ReachedBy
    <2>2. CASE ~ (m >= last)
      <3>1. \A j \in b : j = last \/ j + 1 \in b
        BY <1>3, <2>2 DEF ReachedBy
      <3>2. i + 1 \in b \ {i} /\ i + 1 <= m + 1
        BY <1>1, <1>3, <2>2, <3>1
      <3>3. \A j \in b \ {i} : j = last \/ j + 1 \in b \ {i}
        BY <1>1, <3>1
      <3> QED BY Zenon, <3>2, <3>3 DEF ReachedBy
    <2> QED BY <2>1, <2>2
  <1> QED BY <1>1, <1>2, <1>3

\* What reaches n commands reaches more of them.
LEMMA ReachedMore ==
    ASSUME NEW n \in Nat, NEW m \in Nat, m >= n, NEW last \in Nat, NEW b, b \subseteq 1..last,
           ReachedBy(n, last, b)
    PROVE  ReachedBy(m, last, b)
  <1>1. CASE n >= last
    <2>1. m >= last
      BY <1>1
    <2> QED BY Zenon, <2>1 DEF ReachedBy
  <1>2. CASE (\A j \in b : j = last \/ j + 1 \in b) /\ (\E j \in b : j <= n + 1)
    <2>1. \E j \in b : j <= m + 1
      BY <1>2
    <2> QED BY Zenon, <1>2, <2>1 DEF ReachedBy
  <1> QED BY Zenon, <1>1, <1>2 DEF ReachedBy

\* commitIndex catches up, and a batch is taken.
LEMMA TakeBatchReplicas ==
    ASSUME ReplicaInv, BaseInv', NEW s \in Server, TakeBatch(s)
    PROVE  ReplicaInv'
  <1> USE DEF clerkVars
  <1> DEFINE N == Len(committed)
             last == lastApplied[s]
  <1>1. BaseInv /\ ServerInv(s)
    BY Zenon DEF ReplicaInv
  <1>2. /\ N \in Nat /\ last \in Nat /\ kv[s] \in KV /\ last < N
        /\ batch[s] = {} /\ incoming[s] = None
    BY Zenon, <1>1, BaseFacts DEF TakeBatch, RaftFree
  <1>3. /\ batch'[s] = (last + 1)..N /\ lastApplied'[s] = N
        /\ \A t \in Server \ {s} : batch'[t] = batch[t] /\ lastApplied'[t] = lastApplied[t]
    BY Zenon, <1>1, BaseFacts DEF TakeBatch
  <1>4. /\ UNCHANGED <<snapshotIndex, incoming, kv, daemon, disk, shipped>>
        /\ HistoryStands
    BY Zenon DEF TakeBatch, HistoryStands
  <1>5. DiskInv(s)' /\ IncomingInv(s)'
    BY Zenon, <1>1, <1>2, <1>4 DEF ServerInv, DiskInv, IncomingInv, HistoryStands
  <1>6. ASSUME NEW n \in Nat, ReachedBy(n, last, batch[s])
        PROVE  ReachedBy(n, N, batch'[s])
    BY Zenon, <1>2, <1>3, <1>6, ReachedTaken
  <1>7. daemon[s].at = "install" => daemon[s].index \in Nat
    <2>1. daemon[s].index \in 0..MaxLog
      BY Zenon, <1>1, BaseFacts
    <2> QED BY <2>1, Bounds
  <1>8. ASSUME daemon[s].at # "install"
        PROVE  \E n \in kv[s].index..N : Holds(kv[s], n, replay) /\ ReachedBy(n, N, batch'[s])
    <2>1. PICK n \in kv[s].index..N : Holds(kv[s], n, replay) /\ ReachedBy(n, last, batch[s])
      BY Zenon, <1>1, <1>8 DEF ServerInv, DaemonInv
    <2>2. n \in Nat
      <3>1. kv[s].index \in Nat
        BY Zenon, <1>2, KVFields
      <3> QED BY SMTT(60), <1>2, <2>1, <3>1
    <2> QED BY Zenon, <1>6, <2>1, <2>2
  <1>9. batch'[s] \subseteq 1..N
    BY SMTT(60), <1>2, <1>3
  <1>10. daemon[s].at = "compact" => daemon[s].index <= N
    <2>1. ASSUME daemon[s].at = "compact"
          PROVE  daemon[s].index <= N
      <3>1. daemon[s].index <= last /\ daemon[s].index = kv[s].index
        BY Zenon, <1>1, <2>1 DEF ServerInv, DaemonInv
      <3>2. kv[s].index \in Nat
        BY Zenon, <1>2, KVFields
      <3> QED BY SMTT(60), <1>2, <3>1, <3>2
    <2> QED BY <2>1
  <1>11. DaemonInv(s)'
    BY Zenon, <1>1, <1>3, <1>4, <1>6, <1>7, <1>8, <1>9, <1>10 DEF ServerInv, DaemonInv, HistoryStands
  <1> QED BY Zenon, <1>3, <1>4, <1>5, <1>11, OtherReplicas DEF ServerInv

\* The numbers of a server.
LEMMA ServerNumbers ==
    ASSUME BaseInv, NEW s \in Server
    PROVE  /\ kv[s] \in KV /\ kv[s].index \in Nat /\ daemon[s].index \in Nat
           /\ lastApplied[s] \in Nat /\ snapshotIndex[s] \in Nat /\ Len(committed) \in Nat
           /\ disk[s].snapshot \in KV /\ disk[s].snapshot.index \in Nat
           /\ disk[s].snapshotIndex = snapshotIndex[s]
           /\ incoming[s] # None => incoming[s].index \in Nat /\ incoming[s].data \in KV
  <1>1. daemon[s].index \in 0..MaxLog /\ kv[s] \in KV /\ disk[s].snapshot \in KV
    BY Zenon, BaseFacts
  <1>2. daemon[s].index \in Nat
    BY <1>1, Bounds
  <1>3. ASSUME incoming[s] # None
        PROVE  incoming[s].index \in Nat /\ incoming[s].data \in KV
    <2>1. incoming[s].index \in 1..MaxLog /\ incoming[s].data \in KV
      BY Zenon, <1>3, BaseFacts
    <2> QED BY <2>1, Bounds
  <1>4. disk[s].snapshotIndex = snapshotIndex[s]
    BY Zenon DEF BaseInv, LogBounds, ServerBounds
  <1> QED BY Zenon, <1>1, <1>2, <1>3, <1>4, KVFields, BaseFacts

\* A snapshot is sent, and InstallSnapshot begins.
LEMMA ShipReplicas ==
    ASSUME ReplicaInv, BaseInv', ~ Rollback, NEW s \in Server,
           SendSnapshot(s) \/ InstallSnapshot(s)
    PROVE  ReplicaInv'
  <1> USE DEF clerkVars, electVars, raftVars
  <1>1. BaseInv /\ ServerInv(s)
    BY Zenon DEF ReplicaInv
  <1>2. CASE SendSnapshot(s)
    <2>1. UNCHANGED <<committed, replay, raftVars, kv, daemon, disk>>
      BY Zenon, <1>2 DEF SendSnapshot
    <2>2. \A t \in Server : ServerInv(t)'
      BY ZenonT(60), <2>1 DEF ReplicaInv, ServerInv, DiskInv, IncomingInv, DaemonInv, IsSnapshot
    <2>3. ReplayInv' /\ DupCovers'
      BY Zenon, <2>1 DEF ReplicaInv, ReplayInv, DupCovers
    <2>4. IsSnapshot(disk[s].snapshot, snapshotIndex[s], Len(committed), replay)
      BY Zenon, <1>1, ServerNumbers DEF ServerInv, DiskInv, IsSnapshot
    <2>5. shipped'.index = snapshotIndex[s] /\ shipped'.data = disk[s].snapshot
      BY Zenon, <1>2 DEF SendSnapshot
    <2> QED BY Zenon, <2>1, <2>2, <2>3, <2>4, <2>5 DEF ReplicaInv, IsSnapshot
  <1>3. CASE InstallSnapshot(s)
    <2> DEFINE x == [index |-> shipped.index, data |-> shipped.data, sent |-> FALSE]
    <2>1. /\ UNCHANGED <<lastApplied, snapshotIndex, batch, kv, daemon, disk, shipped>>
          /\ HistoryStands
      BY Zenon, <1>3 DEF InstallSnapshot, HistoryStands
    <2>2. x.index = shipped.index /\ x.data = shipped.data /\ ~ x.sent
      BY Zenon
    <2> HIDE DEF x
    <2>3. incoming'[s] = x /\ \A t \in Server \ {s} : incoming'[t] = incoming[t]
      BY Zenon, <1>1, <1>3, BaseFacts DEF InstallSnapshot, x
    <2>4. /\ IsSnapshot(shipped.data, shipped.index, Len(committed), replay)
          /\ shipped.index > snapshotIndex[s] /\ shipped.index >= lastApplied[s]
      BY Zenon, <1>3 DEF InstallSnapshot, ReplicaInv
    <2>5. IncomingInv(s)'
      BY Zenon, <2>1, <2>2, <2>3, <2>4 DEF IncomingInv, HistoryStands
    <2>6. DiskInv(s)' /\ DaemonInv(s)'
      BY Zenon, <1>1, <2>1 DEF ServerInv, DiskInv, DaemonInv, HistoryStands
    <2> QED BY Zenon, <2>1, <2>3, <2>5, <2>6, OtherReplicas DEF ServerInv
  <1> QED BY <1>2, <1>3

\* applyDaemon takes the snapshot, and InstallSnapshot saves it.
LEMMA InstallReplicas ==
    ASSUME ReplicaInv, BaseInv', NEW s \in Server, HandOver(s) \/ SaveInstalled(s)
    PROVE  ReplicaInv'
  <1> USE DEF clerkVars, electVars, raftVars
  <1> DEFINE i == incoming[s].index
  <1>1. BaseInv /\ ServerInv(s) /\ incoming[s] # None
    BY Zenon DEF ReplicaInv, HandOver, SaveInstalled, RaftFree
  <1>2. /\ IsSnapshot(incoming[s].data, i, Len(committed), replay)
        /\ i > snapshotIndex[s] /\ i >= lastApplied[s]
    BY Zenon, <1>1 DEF ServerInv, IncomingInv
  <1>3. /\ i \in Nat /\ lastApplied[s] \in Nat /\ snapshotIndex[s] \in Nat
        /\ kv[s].index \in Nat /\ daemon[s].index \in Nat /\ Len(committed) \in Nat
    BY Zenon, <1>1, ServerNumbers
  <1>4. CASE HandOver(s)
    <2> DEFINE x == [incoming[s] EXCEPT !.sent = TRUE]
               y == [at |-> "install", index |-> i, data |-> incoming[s].data]
    <2>1. /\ UNCHANGED <<lastApplied, snapshotIndex, batch, kv, disk, shipped>>
          /\ HistoryStands
      BY Zenon, <1>4 DEF HandOver, HistoryStands
    <2>2. y.at = "install" /\ y.index = i /\ y.data = incoming[s].data
      BY Zenon
    <2>3. x.index = i /\ x.data = incoming[s].data
      <3>1. incoming[s] \in [index : 1..MaxLog, data : KV, sent : BOOLEAN]
        BY Zenon, <1>1, BaseFacts
      <3> QED BY <3>1
    <2> HIDE DEF x, y
    <2>4. /\ incoming'[s] = x /\ daemon'[s] = y
          /\ \A t \in Server \ {s} : incoming'[t] = incoming[t] /\ daemon'[t] = daemon[t]
      BY Zenon, <1>1, <1>4, BaseFacts DEF HandOver, x, y
    <2>5. IncomingInv(s)'
      BY Zenon, <1>2, <2>1, <2>2, <2>3, <2>4 DEF IncomingInv, HistoryStands
    <2>6. snapshotIndex[s] <= i /\ ReachedBy(i, lastApplied[s], batch[s])
      BY SMTT(60), <1>2, <1>3 DEF ReachedBy
    <2>7. DaemonInv(s)'
      BY Zenon, <1>1, <1>2, <2>1, <2>2, <2>4, <2>6 DEF ServerInv, DaemonInv, HistoryStands
    <2>8. DiskInv(s)'
      BY Zenon, <1>1, <2>1 DEF ServerInv, DiskInv, HistoryStands
    <2> QED BY Zenon, <2>1, <2>4, <2>5, <2>7, <2>8, OtherReplicas DEF ServerInv
  <1>5. CASE SaveInstalled(s)
    <2> DEFINE d == [snapshotIndex |-> i, snapshot |-> incoming[s].data]
    <2>1. UNCHANGED <<batch, kv, daemon, shipped>> /\ HistoryStands /\ incoming[s].sent
      BY Zenon, <1>5 DEF SaveInstalled, HistoryStands
    <2>2. d.snapshot = incoming[s].data
      BY Zenon
    <2> HIDE DEF d
    <2>3. /\ snapshotIndex'[s] = i /\ lastApplied'[s] = i /\ disk'[s] = d /\ incoming'[s] = None
          /\ \A t \in Server \ {s} : /\ snapshotIndex'[t] = snapshotIndex[t]
                                     /\ lastApplied'[t] = lastApplied[t] /\ disk'[t] = disk[t]
                                     /\ incoming'[t] = incoming[t]
      BY ZenonT(60), <1>1, <1>5, BaseFacts DEF SaveInstalled, d
    <2>4. DiskInv(s)' /\ IncomingInv(s)'
      BY Zenon, <1>2, <2>1, <2>2, <2>3 DEF DiskInv, IncomingInv, IsSnapshot, HistoryStands
    <2>5. batch[s] \subseteq 1..i
      <3>1. batch[s] \subseteq 1..lastApplied[s]
        BY Zenon, <1>1 DEF ServerInv, DaemonInv
      <3> QED BY SMTT(60), <1>2, <1>3, <3>1
    <2>6. daemon[s].at # "compact"
      <3>1. SUFFICES ASSUME daemon[s].at = "compact" PROVE FALSE
        OBVIOUS
      <3>2. /\ kv[s].index > i /\ daemon[s].index = kv[s].index
            /\ daemon[s].index <= lastApplied[s]
        BY Zenon, <1>1, <2>1, <3>1 DEF ServerInv, IncomingInv, DaemonInv
      <3> QED BY SMTT(60), <1>2, <1>3, <3>2
    <2>7. CASE daemon[s].at = "install"
      <3>1. daemon[s].index = i
        BY Zenon, <1>1, <2>1, <2>7 DEF ServerInv, IncomingInv
      <3>2. i <= daemon[s].index /\ ReachedBy(daemon[s].index, i, batch[s])
        BY SMTT(60), <1>3, <3>1 DEF ReachedBy
      <3>3. DaemonInv(s)'
        BY Zenon, <1>1, <2>1, <2>3, <2>5, <2>6, <2>7, <3>2 DEF ServerInv, DaemonInv, HistoryStands
      <3> QED BY Zenon, <2>1, <2>3, <2>4, <3>3, OtherReplicas DEF ServerInv
    <2>8. CASE daemon[s].at # "install"
      <3>1. kv[s].index >= i
        BY Zenon, <1>1, <2>1, <2>8 DEF ServerInv, IncomingInv
      <3>2. PICK n \in kv[s].index..Len(committed) : Holds(kv[s], n, replay)
        BY Zenon, <1>1, <2>8 DEF ServerInv, DaemonInv
      <3>3. i <= kv[s].index /\ ReachedBy(n, i, batch[s])
        BY SMTT(60), <1>3, <3>1, <3>2 DEF ReachedBy
      <3>4. DaemonInv(s)'
        BY Zenon, <1>1, <2>1, <2>3, <2>5, <2>6, <2>8, <3>2, <3>3 DEF ServerInv, DaemonInv, HistoryStands
      <3> QED BY Zenon, <2>1, <2>3, <2>4, <3>4, OtherReplicas DEF ServerInv
    <2> QED BY <2>7, <2>8
  <1> QED BY <1>4, <1>5

\* A command message.
LEMMA ReceiveReplicas ==
    ASSUME ReplicaInv, BaseInv', NEW s \in Server, Receive(s)
    PROVE  ReplicaInv'
  <1> USE DEF clerkVars, electVars, ApplyRest
  <1>1. BaseInv /\ ReplayInv /\ DupCovers /\ ServerInv(s)
    BY Zenon DEF ReplicaInv
  <1>2. /\ UNCHANGED <<lastApplied, snapshotIndex, incoming, shipped>> /\ HistoryStands
        /\ daemon[s].at = "receive"
    BY Zenon DEF Receive, HistoryStands
  <1>3. PICK i \in batch[s] :
            LET k == Applied(kv[s], committed[i].op)
            IN /\ \A j \in batch[s] : i <= j
               /\ batch' = [batch EXCEPT ![s] = @ \ {i}]
               /\ \/ /\ i <= kv[s].index
                     /\ UNCHANGED <<kv, daemon, disk>>
                  \/ /\ i > kv[s].index
                     /\ kv' = [kv EXCEPT ![s] = k]
                     /\ UNCHANGED <<daemon, disk>>
                  \/ /\ i > kv[s].index
                     /\ kv' = [kv EXCEPT ![s] = Generated(k, i)]
                     /\ disk' = [disk EXCEPT ![s].snapshot = Generated(k, i)]
                     /\ daemon' = [daemon EXCEPT ![s] = [Idle EXCEPT !.at = "compact", !.index = i]]
    BY Zenon DEF Receive
  <1> DEFINE N == Len(committed)
             last == lastApplied[s]
             k == Applied(kv[s], committed[i].op)
             g == Generated(k, i)
             p == [Idle EXCEPT !.at = "compact", !.index = i]
             e == [disk[s] EXCEPT !.snapshot = g]
  <1>4. /\ N \in Nat /\ last \in Nat /\ kv[s] \in KV /\ kv[s].index \in Nat
        /\ snapshotIndex[s] \in Nat
    BY Zenon, <1>1, ServerNumbers
  <1>5. PICK n \in kv[s].index..N : Holds(kv[s], n, replay) /\ ReachedBy(n, last, batch[s])
    BY Zenon, <1>1, <1>2 DEF ServerInv, DaemonInv
  <1>6. /\ batch[s] \subseteq 1..last /\ snapshotIndex[s] <= kv[s].index
    BY Zenon, <1>1, <1>2 DEF ServerInv, DaemonInv
  <1>7. n \in Nat /\ n \in 0..N /\ kv[s].index <= n
    BY SMTT(60), <1>4, <1>5
  <1>8. /\ i <= n + 1 /\ i <= last
        /\ \A m \in Nat : m >= n /\ m >= i => ReachedBy(m, last, batch[s] \ {i})
    BY Zenon, <1>3, <1>4, <1>5, <1>6, <1>7, ReachedNext
  <1>9. i \in 1..N /\ i \in Nat /\ i \in 0..MaxLog
    <2>1. i \in 1..N /\ i \in 1..MaxLog
      BY Zenon, <1>1, BaseFacts DEF BaseInv, LogBounds, ServerBounds
    <2> QED BY SMTT(60), <1>4, <2>1, Bounds
  <1>10. /\ k \in KV /\ k.index = kv[s].index
         /\ \E m \in 0..N : m >= n /\ m >= i /\ Holds(k, m, replay)
    BY Zenon, <1>1, <1>4, <1>5, <1>7, <1>8, <1>9, Advance
  <1> HIDE DEF k
  <1>11. PICK m \in 0..N : m >= n /\ m >= i /\ Holds(k, m, replay)
    BY Zenon, <1>10
  <1>12. g \in KV /\ g.index = i /\ g.db = k.db /\ g.duplicate = k.duplicate
    BY Zenon, <1>9, <1>10, DaemonPlaces
  <1>13. p.at = "compact" /\ p.index = i
    BY Zenon, <1>9, DaemonPlaces
  <1> HIDE DEF g, p
  <1>14. e.snapshot = g
    <2>1. disk[s] \in [snapshotIndex : 0..MaxLog, snapshot : KV]
      BY Zenon, <1>1, BaseFacts
    <2> QED BY <2>1
  <1> HIDE DEF e
  <1>15. /\ batch'[s] = batch[s] \ {i} /\ batch'[s] \subseteq 1..last
         /\ \A t \in Server \ {s} : batch'[t] = batch[t]
    BY Zenon, <1>1, <1>3, <1>6, BaseFacts
  <1>16. m \in Nat /\ ReachedBy(m, last, batch'[s]) /\ m \in kv[s].index..N /\ m \in i..N
    <2>1. m \in Nat /\ m \in kv[s].index..N /\ m \in i..N
      BY SMTT(60), <1>4, <1>7, <1>9, <1>11
    <2> QED BY Zenon, <1>8, <1>11, <1>15, <2>1
  <1>17. /\ daemon'[s].at # "install"
         /\ snapshotIndex[s] <= kv'[s].index /\ kv[s].index <= kv'[s].index
         /\ \E q \in kv'[s].index..N : Holds(kv'[s], q, replay) /\ ReachedBy(q, last, batch'[s])
         /\ daemon'[s].at = "compact" => /\ kv'[s].index > kv[s].index
                                         /\ daemon'[s].index = kv'[s].index
                                         /\ daemon'[s].index <= last
                                         /\ daemon'[s].index > snapshotIndex[s]
         /\ \/ disk'[s] = disk[s]
            \/ disk'[s].snapshot = kv'[s]
         /\ \A t \in Server \ {s} : kv'[t] = kv[t] /\ daemon'[t] = daemon[t] /\ disk'[t] = disk[t]
    <2>1. CASE i <= kv[s].index /\ UNCHANGED <<kv, daemon, disk>>
      <3>1. n >= n /\ n >= i /\ kv[s].index <= kv[s].index
        BY SMTT(60), <1>4, <1>7, <1>9, <2>1
      <3>2. ReachedBy(n, last, batch'[s])
        BY Zenon, <1>7, <1>8, <1>15, <3>1
      <3> QED BY Zenon, <1>2, <1>5, <1>6, <2>1, <3>1, <3>2
    <2>2. CASE /\ i > kv[s].index /\ kv' = [kv EXCEPT ![s] = k]
               /\ UNCHANGED <<daemon, disk>>
      <3>1. kv'[s] = k /\ \A t \in Server \ {s} : kv'[t] = kv[t]
        BY Zenon, <1>1, <2>2, BaseFacts
      <3>2. kv[s].index <= kv[s].index
        BY SMTT(60), <1>4
      <3> QED BY Zenon, <1>2, <1>6, <1>10, <1>11, <1>16, <2>2, <3>1, <3>2
    <2>3. CASE /\ i > kv[s].index /\ kv' = [kv EXCEPT ![s] = g]
               /\ disk' = [disk EXCEPT ![s] = e] /\ daemon' = [daemon EXCEPT ![s] = p]
      <3>1. /\ kv'[s] = g /\ disk'[s] = e /\ daemon'[s] = p
            /\ \A t \in Server \ {s} : kv'[t] = kv[t] /\ daemon'[t] = daemon[t] /\ disk'[t] = disk[t]
        BY ZenonT(60), <1>1, <2>3, BaseFacts
      <3>2. /\ snapshotIndex[s] <= i /\ kv[s].index <= i /\ i > snapshotIndex[s]
        BY SMTT(60), <1>4, <1>6, <1>9, <2>3
      <3>3. Holds(g, m, replay)
        BY Zenon, <1>11, <1>12 DEF Holds
      <3> QED BY Zenon, <1>8, <1>12, <1>13, <1>14, <1>16, <2>3, <3>1, <3>2, <3>3
    <2> QED BY Zenon, <1>3, <2>1, <2>2, <2>3 DEF k, g, p, e
  <1>18. ReplicaOf(kv'[s], N, replay)
    BY Zenon, <1>17 DEF ReplicaOf
  <1>19. DaemonInv(s)'
    BY Zenon, <1>2, <1>15, <1>17, <1>18 DEF DaemonInv, HistoryStands
  <1>20. DiskInv(s)'
    BY Zenon, <1>1, <1>2, <1>17, <1>18 DEF ServerInv, DiskInv, HistoryStands
  <1>21. IncomingInv(s)'
    <2>1. ASSUME incoming[s] # None, incoming[s].sent
          PROVE  /\ kv'[s].index >= incoming[s].index
                 /\ daemon'[s].at = "compact" => kv'[s].index > incoming[s].index
      <3>1. kv[s].index >= incoming[s].index /\ incoming[s].index \in Nat
        BY Zenon, <1>1, <1>2, <2>1, ServerNumbers DEF ServerInv, IncomingInv
      <3>2. kv'[s].index \in Nat
        <4>1. kv'[s] \in KV
          BY Zenon DEF BaseInv, TypeOK
        <4> QED BY Zenon, <4>1, KVFields
      <3> QED BY SMTT(60), <1>4, <1>17, <3>1, <3>2
    <2> QED BY Zenon, <1>1, <1>2, <1>17, <2>1 DEF ServerInv, IncomingInv, HistoryStands
  <1> QED BY Zenon, <1>2, <1>15, <1>17, <1>19, <1>20, <1>21, OtherReplicas DEF ServerInv

\* NewSnapShot, a snapshot message, and a restart.
LEMMA DaemonReplicas ==
    ASSUME ReplicaInv, BaseInv', NEW s \in Server, Compact(s) \/ LoadSnapshot(s) \/ Restart(s)
    PROVE  ReplicaInv'
  <1> USE DEF clerkVars, electVars, ApplyRest
  <1>1. BaseInv /\ ServerInv(s)
    BY Zenon DEF ReplicaInv
  <1>2. /\ kv[s] \in KV /\ kv[s].index \in Nat /\ daemon[s].index \in Nat
        /\ lastApplied[s] \in Nat /\ snapshotIndex[s] \in Nat /\ Len(committed) \in Nat
        /\ disk[s].snapshot \in KV /\ disk[s].snapshot.index \in Nat
        /\ disk[s].snapshotIndex = snapshotIndex[s]
        /\ incoming[s] # None => incoming[s].index \in Nat
        /\ Idle.at = "receive"
    BY Zenon, <1>1, ServerNumbers, DaemonPlaces
  <1>3. CASE Compact(s)
    <2> DEFINE i == daemon[s].index
               d == [snapshotIndex |-> i, snapshot |-> kv[s]]
    <2>1. /\ daemon[s].at = "compact" /\ HistoryStands /\ incoming[s] = None
          /\ UNCHANGED <<lastApplied, batch, incoming, kv, shipped>>
          /\ daemon' = [daemon EXCEPT ![s] = Idle]
      BY Zenon, <1>3 DEF Compact, HistoryStands, RaftFree
    <2>2. i = kv[s].index /\ i <= lastApplied[s] /\ i > snapshotIndex[s]
      BY Zenon, <1>1, <2>1 DEF ServerInv, DaemonInv
    <2>3. ~ (lastApplied[s] < i \/ i <= snapshotIndex[s])
      <3>1. lastApplied[s] \in Nat /\ snapshotIndex[s] \in Nat /\ i \in Nat
        BY Zenon, <1>2
      <3> HIDE DEF i
      <3> QED BY SMTT(60), <2>2, <3>1
    <2>4. snapshotIndex' = [snapshotIndex EXCEPT ![s] = i] /\ disk' = [disk EXCEPT ![s] = d]
      BY Zenon, <1>3, <2>3 DEF Compact
    <2>5. d.snapshot = kv[s]
      BY Zenon
    <2> HIDE DEF d
    <2>6. /\ snapshotIndex'[s] = i /\ disk'[s] = d /\ daemon'[s] = Idle
          /\ \A t \in Server \ {s} : /\ snapshotIndex'[t] = snapshotIndex[t]
                                     /\ disk'[t] = disk[t] /\ daemon'[t] = daemon[t]
      BY Zenon, <1>1, <2>1, <2>4, BaseFacts
    <2>7. kv[s].index <= kv[s].index
      BY SMTT(60), <1>2
    <2>8. DiskInv(s)' /\ IncomingInv(s)' /\ DaemonInv(s)'
      BY Zenon, <1>1, <1>2, <2>1, <2>2, <2>5, <2>6, <2>7
         DEF ServerInv, DiskInv, IncomingInv, DaemonInv, HistoryStands
    <2> QED BY ZenonT(60), <2>1, <2>6, <2>8, OtherReplicas DEF ServerInv
  <1>4. CASE LoadSnapshot(s)
    <2> DEFINE i == daemon[s].index
               x == daemon[s].data
               g == Generated(x, i)
               e == [disk[s] EXCEPT !.snapshot = g]
    <2>1. /\ daemon[s].at = "install" /\ HistoryStands
          /\ UNCHANGED <<lastApplied, snapshotIndex, batch, incoming, shipped>>
      BY Zenon, <1>4 DEF LoadSnapshot, HistoryStands
    <2>2. /\ IsSnapshot(x, i, Len(committed), replay) /\ snapshotIndex[s] <= i
          /\ ReachedBy(i, lastApplied[s], batch[s]) /\ batch[s] \subseteq 1..lastApplied[s]
      BY Zenon, <1>1, <2>1 DEF ServerInv, DaemonInv
    <2>3. PICK n \in x.index..Len(committed) : Holds(x, n, replay)
      BY Zenon, <2>2 DEF IsSnapshot, ReplicaOf
    <2>4. x \in KV /\ i \in 0..MaxLog /\ i <= x.index /\ x.index \in Nat
      <3>1. x \in KV /\ i \in 0..MaxLog /\ i <= x.index
        BY Zenon, <1>1, <2>2, BaseFacts DEF IsSnapshot
      <3> QED BY Zenon, <3>1, KVFields
    <2>5. n \in i..Len(committed) /\ n \in Nat /\ n >= i
      BY SMTT(60), <1>2, <2>3, <2>4
    <2>6. g \in KV /\ g.index = i /\ g.db = x.db /\ g.duplicate = x.duplicate
      BY Zenon, <2>4, DaemonPlaces
    <2>7. ReachedBy(n, lastApplied[s], batch[s])
      BY Zenon, <1>2, <2>2, <2>5, ReachedMore
    <2> HIDE DEF g
    <2>8. e.snapshot = g
      <3>1. disk[s] \in [snapshotIndex : 0..MaxLog, snapshot : KV]
        BY Zenon, <1>1, BaseFacts
      <3> QED BY <3>1
    <2> HIDE DEF e
    <2>9. /\ kv' = [kv EXCEPT ![s] = g] /\ disk' = [disk EXCEPT ![s] = e]
          /\ daemon' = [daemon EXCEPT ![s] = Idle]
      BY Zenon, <1>4 DEF LoadSnapshot, ReadSnapshot, g, e
    <2>10. /\ kv'[s] = g /\ disk'[s] = e /\ daemon'[s] = Idle
           /\ \A t \in Server \ {s} : /\ kv'[t] = kv[t] /\ disk'[t] = disk[t]
                                      /\ daemon'[t] = daemon[t]
      BY Zenon, <1>1, <2>9, BaseFacts
    <2>11. Holds(g, n, replay)
      BY Zenon, <2>3, <2>6 DEF Holds
    <2>12. ReplicaOf(g, Len(committed), replay)
      BY Zenon, <2>5, <2>6, <2>11 DEF ReplicaOf
    <2>13. DiskInv(s)'
      BY Zenon, <2>1, <2>2, <2>6, <2>8, <2>10, <2>12 DEF DiskInv, HistoryStands
    <2>14. DaemonInv(s)'
      BY Zenon, <1>2, <2>1, <2>2, <2>5, <2>6, <2>7, <2>10, <2>11, <2>12 DEF DaemonInv, HistoryStands
    <2>15. IncomingInv(s)'
      <3>1. incoming[s] # None /\ incoming[s].sent => i = incoming[s].index
        BY Zenon, <1>1, <2>1 DEF ServerInv, IncomingInv
      <3>2. incoming[s] # None /\ incoming[s].sent => i >= incoming[s].index
        BY SMTT(60), <1>2, <3>1
      <3> QED BY Zenon, <1>1, <1>2, <2>1, <2>6, <2>10, <3>2 DEF ServerInv, IncomingInv, HistoryStands
    <2> QED BY Zenon, <2>1, <2>10, <2>13, <2>14, <2>15, OtherReplicas DEF ServerInv
  <1>5. CASE Restart(s)
    <2> DEFINE x == disk[s].snapshot
               i == snapshotIndex[s]
    <2>1. UNCHANGED <<disk, shipped>> /\ HistoryStands
      BY Zenon, <1>5 DEF Restart, HistoryStands
    <2>2. /\ snapshotIndex'[s] = i /\ lastApplied'[s] = i /\ batch'[s] = {}
          /\ incoming'[s] = None /\ kv'[s] = x /\ daemon'[s] = Idle
          /\ \A t \in Server \ {s} : /\ snapshotIndex'[t] = snapshotIndex[t]
                                     /\ lastApplied'[t] = lastApplied[t] /\ batch'[t] = batch[t]
                                     /\ incoming'[t] = incoming[t] /\ kv'[t] = kv[t]
                                     /\ daemon'[t] = daemon[t]
      BY ZenonT(60), <1>1, <1>2, <1>5, BaseFacts DEF Restart, ReadSnapshot
    <2>3. i <= x.index /\ ReplicaOf(x, Len(committed), replay)
      BY Zenon, <1>1 DEF ServerInv, DiskInv
    <2>4. PICK n \in x.index..Len(committed) : Holds(x, n, replay)
      BY Zenon, <2>3 DEF ReplicaOf
    <2>5. ReachedBy(n, i, {})
      BY SMTT(60), <1>2, <2>3, <2>4 DEF ReachedBy
    <2>6. DiskInv(s)' /\ IncomingInv(s)' /\ DaemonInv(s)'
      BY Zenon, <1>2, <2>1, <2>2, <2>3, <2>4, <2>5
         DEF DiskInv, IncomingInv, DaemonInv, HistoryStands
    <2> QED BY Zenon, <2>1, <2>2, <2>6, OtherReplicas DEF ServerInv
  <1> QED BY <1>3, <1>4, <1>5

\* A new server has applied nothing, and holds nothing.
LEMMA InitReplicas == Init => ReplicaInv
  <1> SUFFICES ASSUME Init PROVE ReplicaInv
    OBVIOUS
  <1> USE DEF Init, Booted
  <1>1. BaseInv
    BY SMTT(60), InitBase
  <1>2. /\ committed = <<>> /\ replay = <<NewKV>> /\ Len(committed) = 0
    BY SMTT(60), EmptySeq
  <1>3. NewKV \in KV /\ NewKV.index = 0
    <2>1. 0 \in Server
      BY Zenon, Bounds
    <2>2. kv[0] = NewKV /\ kv[0] \in KV
      BY Zenon, <1>1, <2>1, BaseFacts
    <2> QED BY SMTT(60), <2>2 DEF NewKV
  <1> HIDE DEF Init, Booted
  <1>4. ReplayInv
    BY <1>2, <1>3 DEF ReplayInv
  <1>5. DupCovers
    <2>1. \A n \in 0..0 : \A i \in 1..n : FALSE
      OBVIOUS
    <2> QED BY Zenon, <1>2, <2>1 DEF DupCovers
  <1>6. Holds(NewKV, 0, replay) /\ 0 \in 0..0 /\ 0 <= 0 /\ ReachedBy(0, 0, {})
    BY SMTT(60), <1>2 DEF Holds, ReachedBy
  <1>7. ReplicaOf(NewKV, Len(committed), replay)
    BY Zenon, <1>2, <1>3, <1>6 DEF ReplicaOf
  <1>8. ASSUME NEW s \in Server
        PROVE  ServerInv(s)
    <2>1. /\ kv[s] = NewKV /\ daemon[s] = Idle /\ incoming[s] = None /\ batch[s] = {}
          /\ lastApplied[s] = 0 /\ snapshotIndex[s] = 0
          /\ disk[s] = [snapshotIndex |-> 0, snapshot |-> NewKV] /\ Idle.at = "receive"
      BY Zenon, DaemonPlaces DEF Init, Booted
    <2>2. disk[s].snapshot = NewKV
      BY SMTT(60), <2>1
    <2> QED BY Zenon, <1>2, <1>3, <1>6, <1>7, <2>1, <2>2 DEF ServerInv, DiskInv, IncomingInv, DaemonInv
  <1>9. shipped = None
    BY Zenon DEF Init, Booted
  <1> QED BY Zenon, <1>1, <1>4, <1>5, <1>8, <1>9 DEF ReplicaInv

\* Every step keeps the replicas, unless a snapshot may reach a server that is ahead of it.
LEMMA ReplicaStep ==
    ASSUME ~ Rollback, ReplicaInv, [Next]_vars
    PROVE  ReplicaInv'
  <1>1. BaseInv'
    BY BaseStep DEF ReplicaInv
  <1>2. BaseInv
    BY Zenon DEF ReplicaInv
  <1>3. ASSUME NEW s \in Server, Elect(s) \/ StepDown(s)
        PROVE  UNCHANGED <<committed, replay, raftVars, kv, daemon, disk, shipped>>
    BY Zenon, <1>3 DEF Elect, StepDown
  <1>4. ASSUME NEW c \in Clerk, Submit(c)
        PROVE  UNCHANGED <<committed, replay, raftVars, kv, daemon, disk, shipped>>
    BY Zenon, <1>4 DEF Submit, HandlerRest
  <1>5. ASSUME NEW r \in stray, StraySubmit(r) \/ StrayEnds(r)
        PROVE  UNCHANGED <<committed, replay, raftVars, kv, daemon, disk, shipped>>
    BY Zenon, <1>5 DEF StraySubmit, StrayEnds, HandlerRest
  <1>6. ASSUME NEW c \in Clerk,
               \/ \E o \in Op : Begin(c, o)
               \/ TimeOut(c) \/ CallFails(c) \/ Return(c)
               \/ CheckLeader(c) \/ AnswerDuplicate(c) \/ Confirm(c) \/ ReadDb(c)
        PROVE  UNCHANGED <<committed, replay, raftVars, kv, daemon, disk, shipped>>
    BY Zenon, <1>2, <1>6, ClerkTypes, HandlerTypes DEF serverVars
  <1>7. CASE UNCHANGED vars
    BY Zenon, <1>1, <1>7, QuietReplicas DEF vars, electVars
  <1>8. CASE UNCHANGED <<committed, replay, raftVars, kv, daemon, disk, shipped>>
    BY Zenon, <1>1, <1>8, QuietReplicas
  <1> QED BY Zenon, <1>1, <1>3, <1>4, <1>5, <1>6, <1>7, <1>8, CommitReplicas, TakeBatchReplicas,
             ShipReplicas, InstallReplicas, ReceiveReplicas, DaemonReplicas DEF Next

\* The invariant implies what ReplicaPrefix says.
LEMMA PrefixOfReplicas == ReplicaInv => ReplicaPrefix
  <1> SUFFICES ASSUME ReplicaInv PROVE ReplicaPrefix
    OBVIOUS
  <1>1. ASSUME NEW k, ReplicaOf(k, Len(committed), replay)
        PROVE  IsReplica(k)
    BY Zenon, <1>1 DEF ReplicaOf, Holds, IsReplica, Replay
  <1>2. \A s \in Server : IsReplica(kv[s]) /\ IsReplica(disk[s].snapshot)
    BY Zenon, <1>1 DEF ReplicaInv, ServerInv, DiskInv, DaemonInv
  <1>3. ASSUME shipped # None
        PROVE  IsReplica([shipped.data EXCEPT !.index = shipped.index])
    <2> DEFINE k == shipped.data
               g == [k EXCEPT !.index = shipped.index]
    <2>1. k \in KV /\ shipped.index <= k.index /\ ReplicaOf(k, Len(committed), replay)
      BY Zenon, <1>3 DEF ReplicaInv, IsSnapshot
    <2>2. PICK n \in k.index..Len(committed) : Holds(k, n, replay)
      BY Zenon, <2>1 DEF ReplicaOf
    <2>3. shipped.index \in 1..MaxLog /\ k.index \in Nat /\ Len(committed) \in Nat
      <3>1. shipped \in Snapshot /\ Len(committed) \in Nat
        BY ZenonT(60), <1>3, BaseFacts DEF ReplicaInv
      <3>2. shipped.index \in 1..MaxLog
        BY Zenon, <3>1 DEF Snapshot
      <3> QED BY Zenon, <2>1, <3>1, <3>2, KVFields
    <2>4. g.index = shipped.index /\ g.db = k.db /\ g.duplicate = k.duplicate
      BY <2>1 DEF KV
    <2>5. n \in shipped.index..Len(committed)
      BY SMTT(60), <2>1, <2>2, <2>3
    <2> HIDE DEF g
    <2>6. ReplicaOf(g, Len(committed), replay)
      BY Zenon, <2>2, <2>4, <2>5 DEF ReplicaOf, Holds
    <2> QED BY Zenon, <1>1, <2>6 DEF g
  <1> QED BY Zenon, <1>2, <1>3 DEF ReplicaPrefix

\* applyDaemon applies the committed commands in order, each once, whatever is resent to it
\* after a restart or a snapshot: in memory, on its Persister and in the snapshots it sends
\* every server holds what a prefix of them leaves.
THEOREM ReplicasArePrefixes == ~ Rollback => (Spec => []ReplicaPrefix)
  <1> SUFFICES ASSUME ~ Rollback PROVE Spec => []ReplicaPrefix
    OBVIOUS
  <1>1. Init => ReplicaInv
    BY InitReplicas
  <1>2. ReplicaInv /\ [Next]_vars => ReplicaInv'
    BY ReplicaStep
  <1>3. ReplicaInv => ReplicaPrefix
    BY PrefixOfReplicas
  <1> QED BY <1>1, <1>2, <1>3, PTL DEF Spec

\* What Raft will not send again after a restart is in the snapshot of the Persister:
\* SaveStateAndSnapshot never leaves an index without the data that covers it.
THEOREM SnapshotsCoverLogs == ~ Rollback => (Spec => []SnapshotCoversLog)
  <1> SUFFICES ASSUME ~ Rollback PROVE Spec => []SnapshotCoversLog
    OBVIOUS
  <1>1. Init => ReplicaInv
    BY InitReplicas
  <1>2. ReplicaInv /\ [Next]_vars => ReplicaInv'
    BY ReplicaStep
  <1>3. ReplicaInv => SnapshotCoversLog
    BY Zenon DEF ReplicaInv, ServerInv, DiskInv, SnapshotCoversLog, BaseInv, LogBounds, ServerBounds
  <1> QED BY <1>1, <1>2, <1>3, PTL DEF Spec
-----------------------------------------------------------------------------
(* What linearizability rests on                                           *)

\* Where the entry d for clerk c in a table of duplicates comes from.
IsSource(i, c, d) ==
    LET o == committed[i].op
    IN o.client = c /\ o.seq = d.seq /\ (o.kind = "Get" => d.value = replay[i].db[o.key])

\* Every entry of the table of duplicates comes from a committed command.
DupSource ==
    \A n \in 0..Len(committed), c \in Clerk :
        replay[n + 1].duplicate[c].seq > 0 =>
            \E i \in 1..n : IsSource(i, c, replay[n + 1].duplicate[c])

\* The command o is in a log, or in a request on its way.
Mentions(o) ==
    \/ \E r \in stray : r.op = o
    \/ \E s \in Server : \E i \in 1..Len(rlog[s]) : rlog[s][i].op = o
    \/ \E i \in 1..Len(committed) : committed[i].op = o

\* The command of a call that has returned, or of the present one.
Known(o) == o.seq < seq[o.client] \/ op[o.client] = o

OpsKnown == \A o \in Op : Mentions(o) => Known(o)

\* A command is committed during its call, not before.
SinceInv ==
    \A c \in Clerk : op[c] # None => /\ since[c] <= Len(committed)
                                     /\ \A i \in 1..since[c] : committed[i].op # op[c]

\* The commands of the calls that have returned are in the table of duplicates.
SeqInv == \A c \in Clerk : seq[c] <= replay[Len(committed) + 1].duplicate[c].seq + 1

\* No term is ahead of the last election.
TermInv ==
    /\ \A s \in Server : lead[s] <= term
    /\ \A c \in Clerk : /\ call[c].term <= term
                        /\ call[c].stage \in {"waiting", "notified"} => call[c].term > 0

\* Command o is in the log of s at index i, and was applied there if anything was.
Intact(s, i, o) ==
    /\ i \in 1..Len(rlog[s]) /\ rlog[s][i].op = o
    /\ i <= lastApplied[s] => committed[i].op = o

\* It is, or a snapshot has taken the place of index i, which nobody will be woken for.
Stands(s, i, o) == i <= snapshotIndex[s] \/ Intact(s, i, o)

\* Server s has applied the committed command o, and will not fall back behind it.
AppliedAt(s, o) ==
    \E j \in 1..lastApplied[s] :
        /\ committed[j].op = o
        /\ daemon[s].at = "install" => j <= daemon[s].index
        /\ \E n \in j..Len(committed) : Holds(kv[s], n, replay)

Performed(o) == \E i \in 1..Len(committed) : committed[i].op = o

\* Value v has been under the key of o since the first n commands.
SeenSince(n, o, v) == \E m \in n..Len(committed) : v = replay[m + 1].db[o.key]

\* What the handler of c's call may rely on, and what its answer rests on.
AnswerOk(c) ==
    LET s == call[c].server
    IN /\ call[c].stage = "waiting" /\ StillLeader(c) => Stands(s, call[c].index, op[c])
       /\ call[c].stage = "notified" /\ StillLeader(c) => AppliedAt(s, op[c])
       /\ call[c].stage = "confirmed" => op[c].kind = "Get" /\ AppliedAt(s, op[c])
       /\ call[c].stage = "ok" =>
             /\ Performed(op[c])
             /\ op[c].kind = "Get" => SeenSince(since[c], op[c], call[c].value)

LinInv ==
    /\ ReplicaInv /\ DupSource /\ OpsKnown /\ SinceInv /\ SeqInv /\ TermInv
    /\ \A c \in Clerk : AnswerOk(c)
-----------------------------------------------------------------------------
(* The history                                                             *)

\* Every step but Commit leaves the history, and Commit adds to it.
LEMMA HistoryStep ==
    ASSUME ReplicaInv, [Next]_vars
    PROVE  /\ Grows
           /\ HistoryStands \/ \E s \in Server : Commit(s)
  <1>1. BaseInv /\ ReplayInv
    BY Zenon DEF ReplicaInv
  <1>2. HistoryStands \/ \E s \in Server : Commit(s)
    <2> USE DEF HistoryStands, electVars, HandlerRest, ApplyRest
    <2>1. ASSUME NEW c \in Clerk,
                 \/ \E o \in Op : Begin(c, o)
                 \/ TimeOut(c) \/ CallFails(c) \/ Return(c)
                 \/ CheckLeader(c) \/ AnswerDuplicate(c) \/ Submit(c) \/ Confirm(c) \/ ReadDb(c)
          PROVE  HistoryStands
      BY Zenon, <2>1 DEF Begin, TimeOut, CallFails, NextServer, Return, CheckLeader,
                         AnswerDuplicate, Submit, Confirm, ReadDb
    <2>2. ASSUME NEW r \in stray, StraySubmit(r) \/ StrayEnds(r)
          PROVE  HistoryStands
      BY Zenon, <2>2 DEF StraySubmit, StrayEnds
    <2>3. ASSUME NEW s \in Server,
                 \/ Elect(s) \/ StepDown(s) \/ TakeBatch(s) \/ SendSnapshot(s)
                 \/ InstallSnapshot(s) \/ HandOver(s) \/ SaveInstalled(s) \/ Restart(s)
          PROVE  HistoryStands
      BY Zenon, <2>3 DEF Elect, StepDown, TakeBatch, SendSnapshot, InstallSnapshot, HandOver,
                         SaveInstalled, Restart
    <2>4. ASSUME NEW s \in Server, Receive(s) \/ Compact(s) \/ LoadSnapshot(s)
          PROVE  HistoryStands
      BY Zenon, <2>4 DEF Receive, Compact, LoadSnapshot
    <2>5. CASE UNCHANGED vars
      BY Zenon, <2>5 DEF vars
    <2> QED BY Zenon, <2>1, <2>2, <2>3, <2>4, <2>5 DEF Next
  <1>3. Grows
    BY Zenon, <1>1, <1>2, StandsGrows, CommitFacts
  <1> QED BY Zenon, <1>2, <1>3

\* The table of duplicates after one more command.
LEMMA DupSourceStep ==
    ASSUME ReplicaInv, DupSource, [Next]_vars
    PROVE  DupSource'
  <1>1. CASE HistoryStands
    BY ZenonT(60), <1>1 DEF HistoryStands, DupSource, IsSource
  <1>2. ASSUME NEW s \in Server, Commit(s)
        PROVE  DupSource'
    <2> DEFINE N == Len(committed)
               o == rlog[s][N + 1].op
               r == replay[N + 1]
    <2>1. /\ N \in Nat /\ o \in Op /\ r \in KV /\ Len(committed') = N + 1
          /\ committed'[N + 1].op = o /\ replay'[(N + 1) + 1] = Applied(r, o) /\ Grows
      BY Zenon, <1>2, CommitFacts DEF ReplicaInv
    <2> HIDE DEF o
    <2>2. /\ \A i \in 1..N : committed'[i] = committed[i] /\ replay'[i] = replay[i]
          /\ \A n \in 0..N : replay'[n + 1] = replay[n + 1]
      <3>1. \A i \in 1..N : i - 1 \in 0..N /\ (i - 1) + 1 = i
        BY <2>1
      <3>2. \A n \in 0..N : replay'[n + 1] = replay[n + 1]
        BY Zenon, <2>1 DEF Grows
      <3>3. \A i \in 1..N : replay'[(i - 1) + 1] = replay[(i - 1) + 1]
        BY Zenon, <3>1, <3>2
      <3> QED BY <2>1, <3>1, <3>2, <3>3 DEF Grows
    <2>3. ASSUME NEW i \in 1..N, NEW c, NEW d, IsSource(i, c, d)
          PROVE  /\ committed'[i].op.client = c /\ committed'[i].op.seq = d.seq
                 /\ committed'[i].op.kind = "Get" => d.value = replay'[i].db[committed'[i].op.key]
      BY Zenon, <2>2, <2>3 DEF IsSource
    <2>4. ASSUME NEW n \in 0..N, NEW c \in Clerk, replay'[n + 1].duplicate[c].seq > 0
          PROVE  \E i \in 1..n : IsSource(i, c, replay[n + 1].duplicate[c])'
      <3>1. PICK i \in 1..n : IsSource(i, c, replay[n + 1].duplicate[c])
        BY Zenon, <2>2, <2>4 DEF DupSource
      <3>2. i \in 1..N
        BY SMTT(60), <2>1
      <3> QED BY ZenonT(60), <2>2, <2>3, <3>1, <3>2 DEF IsSource
    <2>5. ASSUME NEW n, n = N + 1, NEW c \in Clerk, replay'[n + 1].duplicate[c].seq > 0
          PROVE  \E i \in 1..n : IsSource(i, c, replay[n + 1].duplicate[c])'
      <3> DEFINE a == Applied(r, o)
      <3>1. replay'[n + 1] = a /\ a.duplicate[c].seq > 0
        BY Zenon, <2>1, <2>5
      <3>2. /\ r.duplicate \in [Clerk -> [seq : 0..MaxSeq, value : Value]] /\ o.seq \in 1..MaxSeq
            /\ o.client \in Clerk /\ r.duplicate[o.client].seq \in Nat
        <4>1. r.duplicate \in [Clerk -> [seq : 0..MaxSeq, value : Value]]
          BY SMTT(60), <2>1 DEF KV
        <4> QED BY Zenon, <2>1, <4>1, AppliedFields, KVFields
      <3>3. N \in 0..N /\ n \in 1..n
        BY SMTT(60), <2>1, <2>5
      <3>4. ASSUME a.duplicate[c] = r.duplicate[c]
            PROVE  \E i \in 1..n : IsSource(i, c, replay[n + 1].duplicate[c])'
        <4>1. PICK i \in 1..N : IsSource(i, c, r.duplicate[c])
          BY Zenon, <3>1, <3>3, <3>4 DEF DupSource
        <4>2. i \in 1..n
          BY SMTT(60), <2>1, <2>5
        <4>3. replay'[n + 1].duplicate[c] = r.duplicate[c]
          BY Zenon, <3>1, <3>4
        <4> DEFINE d == r.duplicate[c]
        <4>4. /\ committed'[i].op.client = c /\ committed'[i].op.seq = d.seq
              /\ committed'[i].op.kind = "Get" => d.value = replay'[i].db[committed'[i].op.key]
          BY Zenon, <2>2, <4>1 DEF IsSource
        <4> HIDE DEF d
        <4>5. IsSource(i, c, replay[n + 1].duplicate[c])'
          BY Zenon, <4>3, <4>4 DEF IsSource, d
        <4> QED BY Zenon, <4>2, <4>5
      <3>5. CASE r.duplicate[o.client].seq >= o.seq
        BY ZenonT(60), <2>1, <3>4, <3>5, AppliedFields
      <3>6. CASE r.duplicate[o.client].seq < o.seq
        <4> DEFINE e == [seq |-> o.seq, value |-> IF o.kind = "Get" THEN r.db[o.key] ELSE <<>>]
        <4>1. a.duplicate = [r.duplicate EXCEPT ![o.client] = e]
          BY ZenonT(60), <2>1, <3>6, AppliedFields
        <4>2. e.seq = o.seq /\ (o.kind = "Get" => e.value = r.db[o.key])
          BY Zenon
        <4> HIDE DEF e
        <4>3. CASE c # o.client
          <5>1. a.duplicate[c] = r.duplicate[c]
            BY Zenon, <3>2, <4>1, <4>3
          <5> QED BY Zenon, <3>4, <5>1
        <4>4. CASE c = o.client
          <5>1. a.duplicate[c] = e
            BY Zenon, <3>2, <4>1, <4>4
          <5>2. replay'[n] = r
            BY Zenon, <2>2, <2>5, <3>3
          <5>3. committed'[n].op = o
            BY Zenon, <2>1, <2>5
          <5> QED BY ZenonT(60), <3>1, <3>3, <4>2, <4>4, <5>1, <5>2, <5>3 DEF IsSource
        <4> QED BY SMTT(60), <4>3, <4>4
      <3> QED BY SMTT(60), <3>2, <3>5, <3>6
    <2>6. \A n \in 0..(N + 1) : n \in 0..N \/ n = N + 1
      BY SMTT(60), <2>1
    <2> QED BY Zenon, <2>1, <2>4, <2>5, <2>6 DEF DupSource
  <1> QED BY Zenon, <1>1, <1>2, HistoryStep
-----------------------------------------------------------------------------
(* The commands in logs and requests                                       *)

\* The clerks whose calls begin and end.
ClerkMoves == \E c \in Clerk : (\E o \in Op : Begin(c, o)) \/ Return(c)

\* The logs after a step hold commands from the logs and requests before it, or one that a
\* clerk is calling for.
LEMMA MentionStep ==
    ASSUME BaseInv, BaseInv', [Next]_vars, NEW o \in Op, Mentions(o)'
    PROVE  Mentions(o) \/ op[o.client] = o
  <1> USE DEF electVars, raftVars, clerkVars, HandlerRest, ApplyRest
  <1>1. CASE UNCHANGED <<rlog, committed>> /\ stray' \subseteq stray
    BY Zenon, <1>1 DEF Mentions
  <1>2. ASSUME NEW s \in Server, NEW q, rlog' = [rlog EXCEPT ![s] = q], UNCHANGED committed,
               stray' \subseteq stray,
               \A i \in 1..Len(q) : q[i].op = o => Mentions(o) \/ op[o.client] = o
        PROVE  Mentions(o) \/ op[o.client] = o
    <2>1. rlog'[s] = q /\ \A t \in Server \ {s} : rlog'[t] = rlog[t]
      BY Zenon, <1>2, BaseFacts
    <2>2. CASE \E r \in stray' : r.op = o
      BY Zenon, <1>2, <2>2 DEF Mentions
    <2>3. CASE \E t \in Server : \E i \in 1..Len(rlog'[t]) : rlog'[t][i].op = o
      <3>1. PICK t \in Server : \E i \in 1..Len(rlog'[t]) : rlog'[t][i].op = o
        BY Zenon, <2>3
      <3>2. CASE t = s
        BY ZenonT(60), <1>2, <2>1, <3>1, <3>2
      <3>3. CASE t # s
        BY ZenonT(60), <2>1, <3>1, <3>3 DEF Mentions
      <3> QED BY SMTT(60), <3>2, <3>3
    <2>4. CASE \E i \in 1..Len(committed') : committed'[i].op = o
      BY Zenon, <1>2, <2>4 DEF Mentions
    <2> QED BY Zenon, <2>2, <2>3, <2>4 DEF Mentions
  <1>3. ASSUME NEW s \in Server, NEW i \in 1..Len(rlog[s])
        PROVE  Mentions(rlog[s][i].op)
    BY Zenon DEF Mentions
  <1>4. ASSUME NEW s \in Server, NEW u \in Op, Start(s, u), UNCHANGED committed,
               stray' \subseteq stray, u = o => Mentions(o) \/ op[o.client] = o
        PROVE  Mentions(o) \/ op[o.client] = o
    <2>1. CASE lead[s] = 0
      BY Zenon, <1>1, <1>4, <2>1 DEF Start
    <2>2. CASE lead[s] # 0
      <3> DEFINE e == [term |-> lead[s], op |-> u]
                 q == Append(rlog[s], e)
      <3>1. rlog' = [rlog EXCEPT ![s] = q]
        BY Zenon, <1>4, <2>2 DEF Start
      <3>2. e \in LogEntry /\ e.op = u
        <4>1. lead[s] \in 1..MaxTerm
          BY SMTT(60), <2>2, BaseFacts, Bounds
        <4> QED BY Zenon, <4>1 DEF LogEntry
      <3> HIDE DEF e
      <3>3. /\ Len(rlog[s]) \in Nat /\ Len(q) = Len(rlog[s]) + 1 /\ q[Len(rlog[s]) + 1] = e
            /\ \A i \in 1..Len(rlog[s]) : q[i] = rlog[s][i]
        BY SMTT(60), <3>2, BaseFacts, AppendProperties
      <3> HIDE DEF q
      <3>4. \A i \in 1..Len(q) : i \in 1..Len(rlog[s]) \/ i = Len(rlog[s]) + 1
        BY SMTT(60), <3>3
      <3>5. ASSUME NEW i \in 1..Len(q), q[i].op = o
            PROVE  Mentions(o) \/ op[o.client] = o
        <4>1. CASE i \in 1..Len(rlog[s])
          BY Zenon, <1>3, <3>3, <3>5, <4>1
        <4>2. CASE i = Len(rlog[s]) + 1
          BY Zenon, <1>4, <3>2, <3>3, <3>5, <4>2
        <4> QED BY Zenon, <3>4, <4>1, <4>2
      <3> QED BY Zenon, <1>2, <1>4, <3>1, <3>5
    <2> QED BY SMTT(60), <2>1, <2>2
  <1>5. ASSUME NEW c \in Clerk, Submit(c)
        PROVE  Mentions(o) \/ op[o.client] = o
    <2>1. /\ call[c].server \in Server /\ call[c].stage # "none"
      BY Zenon, <1>5, BaseFacts DEF Call, Submit
    <2>2. op[c] \in Op /\ op[c].client = c
      <3>1. op[c] # None /\ op[c].client = c
        BY Zenon, <2>1 DEF BaseInv, CallInv
      <3> QED BY Zenon, <3>1 DEF BaseInv, TypeOK
    <2>3. UNCHANGED committed /\ stray' \subseteq stray /\ Start(call[c].server, op[c])
      BY Zenon, <1>5 DEF Submit
    <2>4. op[c] = o => op[o.client] = o
      BY Zenon, <2>2
    <2> QED BY Zenon, <1>4, <2>1, <2>2, <2>3, <2>4
  <1>6. ASSUME NEW r \in stray, StraySubmit(r)
        PROVE  Mentions(o) \/ op[o.client] = o
    <2>1. r.server \in Server /\ r.op \in Op
      BY Zenon DEF BaseInv, TypeOK
    <2>2. r.op = o => Mentions(o)
      BY Zenon DEF Mentions
    <2>3. UNCHANGED committed /\ stray' \subseteq stray /\ Start(r.server, r.op)
      BY Zenon, <1>6 DEF StraySubmit
    <2> QED BY Zenon, <1>4, <2>1, <2>2, <2>3
  <1>7. ASSUME NEW c \in Clerk, TimeOut(c)
        PROVE  Mentions(o) \/ op[o.client] = o
    <2>1. op[c] # None /\ op[c].client = c
      BY Zenon, <1>7 DEF TimeOut, BaseInv, CallInv
    <2>2. UNCHANGED <<rlog, committed>>
      BY Zenon, <1>7 DEF TimeOut, NextServer
    <2>3. ASSUME NEW r \in stray'
          PROVE  r \in stray \/ r.op = op[c]
      <3>1. r \in stray \/ r = [op |-> op[c], server |-> call[c].server]
        BY Zenon, <1>7 DEF TimeOut
      <3> QED BY SMTT(60), <3>1
    <2> QED BY Zenon, <2>1, <2>2, <2>3 DEF Mentions
  <1>8. ASSUME NEW s \in Server, Elect(s)
        PROVE  Mentions(o) \/ op[o.client] = o
    <2>1. PICK l \in Server, n \in Len(committed)..MaxLog :
              /\ n <= Len(rlog[l]) /\ rlog' = [rlog EXCEPT ![s] = SubSeq(rlog[l], 1, n)]
      BY Zenon, <1>8 DEF Elect
    <2> DEFINE q == SubSeq(rlog[l], 1, n)
    <2>2. n \in 0..Len(rlog[l]) /\ Len(rlog[l]) \in Nat
      BY SMTT(60), <2>1, BaseFacts
    <2>3. Len(q) = n /\ \A i \in 1..n : q[i] = rlog[l][i]
      BY ZenonT(60), <2>2, FirstEntries, BaseFacts
    <2> HIDE DEF q
    <2>4. \A i \in 1..n : i \in 1..Len(rlog[l])
      BY SMTT(60), <2>2
    <2>5. \A i \in 1..Len(q) : q[i].op = o => Mentions(o)
      BY Zenon, <1>3, <2>3, <2>4
    <2>6. UNCHANGED committed /\ stray' \subseteq stray
      BY Zenon, <1>8 DEF Elect
    <2> QED BY Zenon, <1>2, <2>1, <2>5, <2>6 DEF q
  <1>9. ASSUME NEW s \in Server, TakeBatch(s)
        PROVE  Mentions(o) \/ op[o.client] = o
    <2>1. UNCHANGED committed /\ stray' \subseteq stray
      BY Zenon, <1>9 DEF TakeBatch
    <2>2. \A i \in 1..Len(committed) : committed[i].op = o => Mentions(o)
      BY Zenon DEF Mentions
    <2>3. UNCHANGED rlog \/ rlog' = [rlog EXCEPT ![s] = committed]
      BY Zenon, <1>9 DEF TakeBatch
    <2> QED BY Zenon, <1>1, <1>2, <2>1, <2>2, <2>3
  <1>10. ASSUME NEW s \in Server, SaveInstalled(s)
         PROVE  Mentions(o) \/ op[o.client] = o
    <2> DEFINE i == incoming[s].index
               q == SubSeq(committed, 1, i) \o SubSeq(rlog[s], i + 1, Len(rlog[s]))
    <2>1. UNCHANGED committed /\ stray' \subseteq stray /\ rlog' = [rlog EXCEPT ![s] = q]
      BY Zenon, <1>10 DEF SaveInstalled
    <2>2. i \in 0..Len(committed) /\ Len(rlog[s]) \in Nat /\ Len(committed) \in Nat
      <3>1. i \in Nat /\ i <= Len(committed) /\ Len(rlog[s]) \in Nat /\ Len(committed) \in Nat
        BY ZenonT(60), <1>10, ServerNumbers, BaseFacts
           DEF SaveInstalled, RaftFree, BaseInv, LogBounds, ServerBounds
      <3> QED BY SMTT(60), <3>1
    <2>3. committed \in Seq(LogEntry) /\ rlog[s] \in Seq(LogEntry)
      BY ZenonT(60), BaseFacts
    <2> HIDE DEF i, q
    <2>4. q = SubSeq(committed, 1, i) \o SubSeq(rlog[s], i + 1, Len(rlog[s]))
      BY Zenon DEF q
    <2>5. Spliced(q, committed, rlog[s], i)
      BY Zenon, <2>2, <2>3, <2>4, SplicedEntries
    <2>6. /\ Len(q) = (IF i <= Len(rlog[s]) THEN Len(rlog[s]) ELSE i)
          /\ \A j \in 1..i : q[j] = committed[j]
          /\ \A j \in (i + 1)..Len(rlog[s]) : q[j] = rlog[s][j]
      BY Zenon, <2>5 DEF Spliced
    <2>7. ASSUME NEW j \in 1..Len(q), q[j].op = o
          PROVE  Mentions(o)
      <3>1. CASE j \in 1..i
        <4>1. j \in 1..Len(committed)
          BY SMTT(60), <2>2, <3>1
        <4> QED BY ZenonT(60), <2>6, <2>7, <3>1, <4>1 DEF Mentions
      <3>2. CASE ~ (j \in 1..i)
        <4>1. j \in (i + 1)..Len(rlog[s]) /\ j \in 1..Len(rlog[s])
          BY SMTT(60), <2>2, <2>6, <3>2
        <4> QED BY ZenonT(60), <1>3, <2>6, <2>7, <4>1
      <3> QED BY SMTT(60), <3>1, <3>2
    <2> QED BY Zenon, <1>2, <2>1, <2>7
  <1>11. ASSUME NEW s \in Server, Commit(s)
         PROVE  Mentions(o)
    <2> DEFINE N == Len(committed)
               e == rlog[s][N + 1]
    <2>1. UNCHANGED <<rlog, stray>> /\ committed' = Append(committed, e)
      BY Zenon, <1>11 DEF Commit
    <2>2. N \in Nat /\ N + 1 \in 1..Len(rlog[s])
      BY SMTT(60), <1>11, BaseFacts DEF Commit
    <2>3. e \in LogEntry
      BY SMTT(60), <2>2, BaseFacts, ElementOfSeq
    <2>4. Mentions(e.op)
      BY Zenon, <1>3, <2>2
    <2> HIDE DEF e
    <2>5. /\ Len(committed') = N + 1 /\ committed'[N + 1] = e
          /\ \A j \in 1..N : committed'[j] = committed[j]
      BY SMTT(60), <2>1, <2>3, BaseFacts, AppendProperties
    <2>6. \A j \in 1..(N + 1) : j \in 1..N \/ j = N + 1
      BY SMTT(60), <2>2
    <2>7. ASSUME NEW j \in 1..Len(committed'), committed'[j].op = o
          PROVE  Mentions(o)
      <3>1. CASE j \in 1..N
        BY Zenon, <2>5, <2>7, <3>1 DEF Mentions
      <3>2. CASE j = N + 1
        BY Zenon, <2>4, <2>5, <2>7, <3>2
      <3> QED BY Zenon, <2>5, <2>6, <3>1, <3>2
    <2> QED BY Zenon, <2>1, <2>7 DEF Mentions
  <1>12. ASSUME NEW c \in Clerk,
                \/ \E u \in Op : Begin(c, u)
                \/ CallFails(c) \/ Return(c)
                \/ CheckLeader(c) \/ AnswerDuplicate(c) \/ Confirm(c) \/ ReadDb(c)
         PROVE  UNCHANGED <<rlog, committed>> /\ stray' \subseteq stray
    BY ZenonT(60), <1>12 DEF Begin, CallFails, NextServer, Return, CheckLeader, AnswerDuplicate,
                        Confirm, ReadDb
  <1>13. ASSUME NEW r \in stray, StrayEnds(r)
         PROVE  UNCHANGED <<rlog, committed>> /\ stray' \subseteq stray
    BY Zenon, <1>13 DEF StrayEnds
  <1>14. ASSUME NEW s \in Server,
                \/ StepDown(s) \/ SendSnapshot(s) \/ InstallSnapshot(s) \/ HandOver(s)
                \/ Receive(s) \/ Compact(s) \/ LoadSnapshot(s) \/ Restart(s)
         PROVE  UNCHANGED <<rlog, committed>> /\ stray' \subseteq stray
    <2>1. CASE StepDown(s) \/ SendSnapshot(s) \/ InstallSnapshot(s) \/ HandOver(s) \/ Restart(s)
      BY Zenon, <2>1 DEF StepDown, SendSnapshot, InstallSnapshot, HandOver, Restart
    <2>2. CASE Receive(s) \/ Compact(s) \/ LoadSnapshot(s)
      BY ZenonT(60), <2>2 DEF Receive, Compact, LoadSnapshot
    <2> QED BY Zenon, <1>14, <2>1, <2>2
  <1>15. CASE UNCHANGED vars
    BY Zenon, <1>1, <1>15 DEF vars
  <1> QED BY ZenonT(60), <1>1, <1>5, <1>6, <1>7, <1>8, <1>9, <1>10, <1>11, <1>12, <1>13, <1>14, <1>15
          DEF Next

\* Only Begin and Return change the number and the call of a clerk.
LEMMA ClerkStands ==
    ASSUME [Next]_vars, ~ ClerkMoves
    PROVE  UNCHANGED <<seq, op, since, result>>
  <1> USE DEF clerkVars, HandlerRest, ApplyRest
  <1>1. ASSUME NEW c \in Clerk,
               \/ TimeOut(c) \/ CallFails(c)
               \/ CheckLeader(c) \/ AnswerDuplicate(c) \/ Submit(c) \/ Confirm(c) \/ ReadDb(c)
        PROVE  UNCHANGED <<seq, op, since, result>>
    BY Zenon, <1>1 DEF TimeOut, CallFails, NextServer, CheckLeader, AnswerDuplicate, Submit,
                       Confirm, ReadDb
  <1>2. ASSUME NEW r \in stray, StraySubmit(r) \/ StrayEnds(r)
        PROVE  UNCHANGED <<seq, op, since, result>>
    BY Zenon, <1>2 DEF StraySubmit, StrayEnds
  <1>3. ASSUME NEW s \in Server,
               \/ Elect(s) \/ StepDown(s) \/ Commit(s) \/ TakeBatch(s)
               \/ SendSnapshot(s) \/ InstallSnapshot(s) \/ HandOver(s) \/ SaveInstalled(s)
        PROVE  UNCHANGED <<seq, op, since, result>>
    BY ZenonT(60), <1>3 DEF Elect, StepDown, Commit, TakeBatch, SendSnapshot, InstallSnapshot,
                       HandOver, SaveInstalled
  <1>4. ASSUME NEW s \in Server, Receive(s) \/ Compact(s) \/ LoadSnapshot(s) \/ Restart(s)
        PROVE  UNCHANGED <<seq, op, since, result>>
    BY Zenon, <1>4 DEF Receive, Compact, LoadSnapshot, Restart
  <1>5. CASE UNCHANGED vars
    BY Zenon, <1>5 DEF vars
  <1> QED BY Zenon, <1>1, <1>2, <1>3, <1>4, <1>5 DEF Next, ClerkMoves

\* The call of one clerk begins or ends.
LEMMA ClerkMoveFacts ==
    ASSUME BaseInv, NEW c \in Clerk, (\E o \in Op : Begin(c, o)) \/ Return(c)
    PROVE  /\ \A d \in Clerk \ {c} : op'[d] = op[d] /\ seq'[d] = seq[d] /\ since'[d] = since[d]
                                     /\ call'[d] = call[d]
           /\ seq[c] \in Nat
           /\ UNCHANGED <<serverVars, rlog>>
           /\ \/ /\ op[c] = None /\ seq'[c] = seq[c] /\ since'[c] = Len(committed)
                 /\ op'[c] \in Op /\ op'[c].client = c /\ op'[c].seq = seq[c]
                 /\ call'[c].stage = "sent" /\ call'[c].term = 0
              \/ /\ op[c] \in Op /\ op[c].client = c /\ op[c].seq = seq[c]
                 /\ seq'[c] = seq[c] + 1 /\ op'[c] = None /\ call[c].stage = "ok"
                 /\ call'[c].stage = "none" /\ call'[c].term = 0
  <1>1. /\ seq \in [Clerk -> 1..(MaxSeq + 1)] /\ op \in [Clerk -> Op \cup {None}]
        /\ call \in [Clerk -> Call] /\ since \in [Clerk -> 0..MaxLog]
        /\ leader \in [Clerk -> Server]
    BY ZenonT(60) DEF BaseInv, TypeOK, Call
  <1>2. seq[c] \in Nat
    <2>1. seq[c] \in 1..(MaxSeq + 1)
      BY Zenon, <1>1
    <2> QED BY SMTT(60), <2>1, Bounds
  <1>3. UNCHANGED <<serverVars, rlog>>
    BY Zenon, ClerkTypes
  <1>4. CASE \E o \in Op : Begin(c, o)
    <2>1. PICK o \in Op : Begin(c, o)
      BY Zenon, <1>4
    <2>2. AtStage(Sent(leader[c]), "sent", leader[c])
      BY ZenonT(60), <1>1, CallTypes
    <2> QED BY ZenonT(60), <1>1, <1>2, <1>3, <2>1, <2>2 DEF Begin, AtStage
  <1>5. CASE Return(c)
    <2>1. call[c].stage = "ok" /\ op[c] # None /\ op[c].client = c /\ op[c].seq = seq[c]
      BY ZenonT(60), <1>5 DEF Return, BaseInv, CallInv
    <2>2. op[c] \in Op
      BY ZenonT(60), <1>1, <2>1
    <2>3. AtStage(NoCall, "none", 0)
      BY ZenonT(60), Bounds, CallTypes
    <2> QED BY ZenonT(60), <1>1, <1>2, <1>3, <1>5, <2>1, <2>2, <2>3 DEF Return, AtStage
  <1> QED BY Zenon, <1>4, <1>5

\* The other clerks stand still meanwhile.
LEMMA OtherClerks ==
    ASSUME BaseInv, NEW c \in Clerk, (\E o \in Op : Begin(c, o)) \/ Return(c)
    PROVE  \A d \in Clerk \ {c} : /\ op'[d] = op[d] /\ seq'[d] = seq[d]
                                  /\ since'[d] = since[d] /\ call'[d] = call[d]
  <1>1. /\ DOMAIN seq = Clerk /\ DOMAIN op = Clerk /\ DOMAIN call = Clerk
        /\ DOMAIN since = Clerk
    BY Zenon DEF BaseInv, TypeOK
  <1>2. CASE \E o \in Op : Begin(c, o)
    BY Zenon, <1>1, <1>2 DEF Begin
  <1>3. CASE Return(c)
    BY Zenon, <1>1, <1>3 DEF Return
  <1> QED BY Zenon, <1>2, <1>3

\* All that logs and requests hold is called for, or was.
LEMMA KnownStep ==
    ASSUME BaseInv, BaseInv', OpsKnown, [Next]_vars
    PROVE  OpsKnown'
  <1> SUFFICES ASSUME NEW o \in Op, Mentions(o)'
               PROVE  o.seq < seq'[o.client] \/ op'[o.client] = o
    BY ZenonT(60) DEF OpsKnown, Known
  <1>1. o.client \in Clerk /\ o.seq \in Nat /\ o # None
    <2>1. o.client \in Clerk /\ o.seq \in 1..MaxSeq
      BY SMTT(60) DEF Op
    <2> QED BY SMTT(60), <2>1, Bounds, NoneAssumption
  <1>2. CASE ~ ClerkMoves
    <2>1. UNCHANGED <<seq, op>>
      BY Zenon, <1>2, ClerkStands
    <2>2. Mentions(o) \/ op[o.client] = o
      BY Zenon, MentionStep
    <2> QED BY Zenon, <2>1, <2>2 DEF OpsKnown, Known
  <1>3. ASSUME NEW c \in Clerk, (\E u \in Op : Begin(c, u)) \/ Return(c)
        PROVE  o.seq < seq'[o.client] \/ op'[o.client] = o
    <2>1. Mentions(o) \/ op[o.client] = o
      BY ZenonT(60), MentionStep
    <2>2. o.seq < seq[o.client] \/ op[o.client] = o
      BY Zenon, <2>1 DEF OpsKnown, Known
    <2>3. CASE o.client # c
      <3>1. o.client \in Clerk \ {c}
        BY ZenonT(60), <1>1, <2>3
      <3>2. op'[o.client] = op[o.client] /\ seq'[o.client] = seq[o.client]
        <4>1. \A d \in Clerk \ {c} : op'[d] = op[d] /\ seq'[d] = seq[d]
          BY Zenon, <1>3, OtherClerks
        <4> QED BY ZenonT(60), <3>1, <4>1
      <3> QED BY ZenonT(60), <2>2, <3>2
    <2>4. CASE o.client = c /\ op[c] = None
      <3>1. seq'[c] = seq[c]
        BY ZenonT(60), <1>3, <2>4, NoneAssumption, ClerkMoveFacts
      <3> QED BY ZenonT(60), <1>1, <2>2, <2>4, <3>1
    <2>5. CASE o.client = c /\ op[c] # None
      <3>1. op[c].seq = seq[c] /\ seq'[c] = seq[c] + 1 /\ seq[c] \in Nat
        BY ZenonT(60), <1>3, <2>5, ClerkMoveFacts
      <3>2. o.seq < seq[c] \/ o.seq = seq[c]
        BY ZenonT(60), <2>2, <2>5, <3>1
      <3>3. o.seq < seq'[c]
        BY SMTT(60), <1>1, <3>1, <3>2
      <3> QED BY Zenon, <2>5, <3>3
    <2> QED BY SMTT(60), <2>3, <2>4, <2>5
  <1> QED BY ZenonT(60), <1>2, <1>3 DEF ClerkMoves

\* The numbers of a clerk.
LEMMA ClerkNumbers ==
    ASSUME BaseInv, NEW c \in Clerk
    PROVE  /\ since[c] \in Nat /\ seq[c] \in Nat
           /\ call[c] \in Call /\ call[c].server \in Server /\ call[c].index \in Nat
           /\ call[c].term \in 0..MaxTerm /\ call[c].term \in Nat
           /\ op[c] # None => op[c] \in Op /\ op[c].client = c /\ op[c].seq = seq[c]
           /\ call[c].stage # "none" => op[c] # None
  <1>1. since[c] \in 0..MaxLog /\ seq[c] \in 1..(MaxSeq + 1) /\ call[c] \in Call
    BY ZenonT(60), BaseFacts DEF BaseInv, TypeOK
  <1>2. call[c].server \in Server /\ call[c].index \in 0..MaxLog /\ call[c].term \in 0..MaxTerm
    BY Zenon, <1>1 DEF Call
  <1>3. since[c] \in Nat /\ seq[c] \in Nat /\ call[c].index \in Nat /\ call[c].term \in Nat
    BY SMTT(60), <1>1, <1>2, Bounds
  <1>4. op[c] # None => op[c] \in Op
    BY ZenonT(60) DEF BaseInv, TypeOK
  <1> QED BY ZenonT(60), <1>1, <1>2, <1>3, <1>4 DEF BaseInv, CallInv

\* Begin notes how much was committed before the call.
LEMMA SinceStep ==
    ASSUME ReplicaInv, BaseInv', OpsKnown, SinceInv, [Next]_vars
    PROVE  SinceInv'
  <1>1. BaseInv /\ Grows
    BY ZenonT(60), HistoryStep DEF ReplicaInv
  <1>2. Len(committed) \in Nat /\ Len(committed') \in Int /\ Len(committed) <= Len(committed')
    BY SMTT(60), <1>1, BaseFacts DEF Grows
  <1> SUFFICES ASSUME NEW d \in Clerk, op'[d] # None
               PROVE  /\ since'[d] <= Len(committed')
                      /\ \A i \in 1..since'[d] : committed'[i].op # op'[d]
    BY ZenonT(60) DEF SinceInv
  <1>3. ASSUME op'[d] = op[d], since'[d] = since[d]
        PROVE  /\ since'[d] <= Len(committed')
               /\ \A i \in 1..since'[d] : committed'[i].op # op'[d]
    <2>1. since[d] <= Len(committed) /\ \A i \in 1..since[d] : committed[i].op # op[d]
      BY Zenon, <1>3 DEF SinceInv
    <2>2. since[d] \in Nat
      BY ZenonT(60), <1>1, ClerkNumbers
    <2>3. since[d] <= Len(committed') /\ \A i \in 1..since[d] : i \in 1..Len(committed)
      BY SMTT(60), <1>2, <2>1, <2>2
    <2>4. \A i \in 1..since[d] : committed'[i] = committed[i]
      BY ZenonT(60), <1>1, <2>3 DEF Grows
    <2> QED BY ZenonT(60), <1>3, <2>1, <2>3, <2>4
  <1>4. CASE ~ ClerkMoves
    BY ZenonT(60), <1>3, <1>4, ClerkStands
  <1>5. ASSUME NEW c \in Clerk, (\E u \in Op : Begin(c, u)) \/ Return(c)
        PROVE  /\ since'[d] <= Len(committed')
               /\ \A i \in 1..since'[d] : committed'[i].op # op'[d]
    <2>1. CASE d # c
      <3>1. d \in Clerk \ {c}
        BY Zenon, <2>1
      <3>2. op'[d] = op[d] /\ since'[d] = since[d]
        <4>1. \A e \in Clerk \ {c} : op'[e] = op[e] /\ since'[e] = since[e]
          BY Zenon, <1>1, <1>5, OtherClerks
        <4> QED BY ZenonT(60), <3>1, <4>1
      <3> QED BY Zenon, <1>3, <3>2
    <2>2. CASE d = c
      <3>1. /\ op[c] = None /\ since'[c] = Len(committed) /\ op'[c] \in Op
            /\ op'[c].client = c /\ op'[c].seq = seq[c] /\ seq[c] \in Nat
            /\ UNCHANGED committed
        BY ZenonT(60), <1>1, <1>5, <2>2, ClerkMoveFacts DEF serverVars
      <3>2. ASSUME NEW i \in 1..Len(committed), committed[i].op = op'[c]
            PROVE  FALSE
        <4>1. Known(op'[c])
          BY ZenonT(60), <3>1, <3>2 DEF OpsKnown, Mentions
        <4>2. seq[c] < seq[c]
          BY ZenonT(60), <3>1, <4>1, NoneAssumption DEF Known
        <4> QED BY SMTT(60), <3>1, <4>2
      <3>3. Len(committed) <= Len(committed)
        BY SMTT(60), <1>2
      <3> QED BY ZenonT(60), <2>2, <3>1, <3>2, <3>3
    <2> QED BY SMTT(60), <2>1, <2>2
  <1> QED BY ZenonT(60), <1>4, <1>5 DEF ClerkMoves

\* The table of duplicates is never more than the present call behind its clerk.
LEMMA SeqStep ==
    ASSUME ReplicaInv, BaseInv', SeqInv, \A c \in Clerk : AnswerOk(c), [Next]_vars
    PROVE  SeqInv'
  <1>1. BaseInv /\ ReplayInv
    BY ZenonT(60) DEF ReplicaInv
  <1> DEFINE N == Len(committed)
             r == replay[N + 1]
  <1>2. N \in Nat /\ N \in 0..N /\ r \in KV
    <2>1. N \in Nat /\ N \in 0..N
      BY SMTT(60), <1>1, BaseFacts
    <2> QED BY ZenonT(60), <1>1, <2>1, ReplayFacts
  <1>3. ASSUME HistoryStands, UNCHANGED seq
        PROVE  SeqInv'
    BY ZenonT(60), <1>3 DEF SeqInv, HistoryStands
  <1>4. ASSUME NEW s \in Server, Commit(s)
        PROVE  SeqInv'
    <2> DEFINE o == rlog[s][N + 1].op
               a == Applied(r, o)
    <2>1. /\ o \in Op /\ Len(committed') = N + 1 /\ replay'[(N + 1) + 1] = a /\ a \in KV
      BY ZenonT(60), <1>1, <1>4, CommitFacts
    <2>2. UNCHANGED seq
      BY ZenonT(60), <1>4 DEF Commit, clerkVars
    <2> HIDE DEF r, o
    <2>3. ASSUME NEW d \in Clerk
          PROVE  seq[d] <= a.duplicate[d].seq + 1
      <3>1. r.duplicate[d].seq <= a.duplicate[d].seq
        BY ZenonT(60), <1>2, <2>1, DupMonotone
      <3>2. seq[d] \in Nat /\ r.duplicate[d].seq \in Nat /\ a.duplicate[d].seq \in Nat
        BY ZenonT(60), <1>1, <1>2, <2>1, ClerkNumbers, KVFields
      <3>3. seq[d] <= r.duplicate[d].seq + 1
        BY ZenonT(60) DEF SeqInv, r
      <3> HIDE DEF a
      <3> QED BY SMTT(60), <3>1, <3>2, <3>3
    <2> QED BY ZenonT(60), <2>1, <2>2, <2>3 DEF SeqInv
  <1>5. ASSUME NEW c \in Clerk, (\E u \in Op : Begin(c, u)) \/ Return(c)
        PROVE  SeqInv'
    <2>1. /\ \A d \in Clerk \ {c} : seq'[d] = seq[d]
          /\ UNCHANGED <<committed, replay>> /\ seq[c] \in Nat
          /\ \/ seq'[c] = seq[c]
             \/ /\ op[c].client = c /\ op[c].seq = seq[c]
                /\ seq'[c] = seq[c] + 1 /\ call[c].stage = "ok"
      BY ZenonT(60), <1>1, <1>5, ClerkMoveFacts DEF serverVars
    <2>2. ASSUME op[c].client = c, op[c].seq = seq[c], call[c].stage = "ok",
                 seq'[c] = seq[c] + 1
          PROVE  seq'[c] <= r.duplicate[c].seq + 1
      <3>1. PICK i \in 1..N : committed[i].op = op[c]
        BY ZenonT(60), <2>2 DEF AnswerOk, Performed
      <3>2. seq[c] <= r.duplicate[c].seq
        BY ZenonT(60), <1>2, <2>2, <3>1 DEF DupCovers, ReplicaInv
      <3>3. r.duplicate[c].seq \in Nat
        BY ZenonT(60), <1>2, KVFields
      <3> HIDE DEF r
      <3> QED BY SMTT(60), <2>1, <2>2, <3>2, <3>3
    <2> QED BY ZenonT(60), <2>1, <2>2 DEF SeqInv
  <1>6. CASE HistoryStands /\ ~ ClerkMoves
    BY Zenon, <1>3, <1>6, ClerkStands
  <1> QED BY ZenonT(60), <1>4, <1>5, <1>6, HistoryStep DEF ClerkMoves
=============================================================================
