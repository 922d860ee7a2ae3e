--------------------------- MODULE KVLinearProofs ---------------------------
(***************************************************************************)
(* The key/value service implements the store of module KVStore: every     *)
(* reply rests on a command that was committed during the call, and the    *)
(* committed commands, each applied once, are the steps of the store.      *)
(***************************************************************************)
EXTENDS KVServiceProofs

(* What a handler relies on                                                *)

\* What server t has applied for a call, it keeps.
KeepsApplied(t) == \A o \in Op : AppliedAt(t, o) => AppliedAt(t, o)'

\* As long as t leads in one term, it keeps what it has put into its log.
KeepsLog(t) ==
    \A i \in Nat, o \in Op :
        lead[t] # 0 /\ lead'[t] = lead[t] /\ Stands(t, i, o) => Stands(t, i, o)'

\* No term is led twice.
KeepsTerm(t) == lead'[t] = lead[t] \/ lead'[t] = 0 \/ lead'[t] > term

Keeps(t) == KeepsApplied(t) /\ KeepsLog(t) /\ KeepsTerm(t)

\* A server that stays where it is, or goes on, has still applied what it had.
LEMMA AppliedStays ==
    ASSUME BaseInv, BaseInv', Grows, NEW t \in Server, lastApplied[t] <= lastApplied'[t],
           kv'[t] = kv[t], daemon'[t].at = "install" => daemon'[t] = daemon[t]
    PROVE  KeepsApplied(t)
  <1> SUFFICES ASSUME NEW o \in Op, AppliedAt(t, o) PROVE AppliedAt(t, o)'
    BY ZenonT(60) DEF KeepsApplied
  <1>1. PICK j \in 1..lastApplied[t] :
            /\ committed[j].op = o
            /\ daemon[t].at = "install" => j <= daemon[t].index
            /\ \E n \in j..Len(committed) : Holds(kv[t], n, replay)
    BY ZenonT(60) DEF AppliedAt
  <1>2. PICK n \in j..Len(committed) : Holds(kv[t], n, replay)
    BY Zenon, <1>1
  <1>3. j \in Nat /\ j \in 1..Len(committed) /\ j \in 1..lastApplied'[t]
    <2>1. lastApplied[t] \in Nat /\ Len(committed) \in Nat /\ lastApplied[t] <= Len(committed)
      BY ZenonT(60), BaseFacts DEF BaseInv, LogBounds, ServerBounds, Within
    <2>2. lastApplied'[t] \in 0..MaxLog
      BY ZenonT(60) DEF BaseInv, TypeOK
    <2> QED BY SMTT(60), <2>1, <2>2, Bounds
  <1>4. n \in j..Len(committed') /\ Holds(kv[t], n, replay')
    BY Zenon, <1>2, <1>3, ReplicaGrows
  <1>5. committed'[j] = committed[j]
    BY ZenonT(60), <1>3 DEF Grows
  <1> QED BY ZenonT(60), <1>1, <1>3, <1>4, <1>5 DEF AppliedAt

\* An entry stands while the entries of the log stay, and nothing is applied anew.
LEMMA LogStays ==
    ASSUME BaseInv, BaseInv', Grows, NEW t \in Server, lastApplied'[t] = lastApplied[t],
           snapshotIndex[t] <= snapshotIndex'[t],
           \A i \in 1..Len(rlog[t]) : i \in 1..Len(rlog'[t]) /\ rlog'[t][i] = rlog[t][i]
    PROVE  KeepsLog(t)
  <1> SUFFICES ASSUME NEW i \in Nat, NEW o \in Op, Stands(t, i, o) PROVE Stands(t, i, o)'
    BY ZenonT(60) DEF KeepsLog
  <1>1. CASE i <= snapshotIndex[t]
    <2>1. snapshotIndex[t] \in 0..MaxLog /\ snapshotIndex'[t] \in 0..MaxLog
      BY ZenonT(60) DEF BaseInv, TypeOK
    <2>2. i <= snapshotIndex'[t]
      BY SMTT(60), <1>1, <2>1, Bounds
    <2> QED BY ZenonT(60), <2>2 DEF Stands
  <1>2. CASE Intact(t, i, o)
    <2>1. /\ i \in 1..Len(rlog[t]) /\ rlog[t][i].op = o
          /\ i <= lastApplied[t] => committed[i].op = o
      BY Zenon, <1>2 DEF Intact
    <2>2. i <= lastApplied[t] => i \in 1..Len(committed)
      <3>1. lastApplied[t] \in Nat /\ Len(committed) \in Nat /\ lastApplied[t] <= Len(committed)
        BY Zenon, BaseFacts DEF BaseInv, LogBounds, ServerBounds, Within
      <3> QED BY SMTT(60), <2>1, <3>1
    <2> QED BY Zenon, <2>1, <2>2 DEF Stands, Intact, Grows
  <1> QED BY ZenonT(60), <1>1, <1>2 DEF Stands

\* Servers that do not move.
LEMMA KeepsStill ==
    ASSUME BaseInv, BaseInv', Grows, NEW t \in Server,
           /\ lead'[t] = lead[t] /\ rlog'[t] = rlog[t] /\ lastApplied'[t] = lastApplied[t]
           /\ snapshotIndex'[t] = snapshotIndex[t] /\ kv'[t] = kv[t] /\ daemon'[t] = daemon[t]
    PROVE  Keeps(t)
  <1>1. lastApplied[t] <= lastApplied[t] /\ snapshotIndex[t] <= snapshotIndex[t]
    BY SMTT(60), BaseFacts
  <1> QED BY Zenon, <1>1, AppliedStays, LogStays DEF Keeps, KeepsTerm

\* Elections.
LEMMA KeepsElect ==
    ASSUME ReplicaInv, BaseInv', TermInv, NEW s \in Server, Elect(s) \/ StepDown(s),
           NEW t \in Server
    PROVE  Keeps(t)
  <1> USE DEF raftVars
  <1>1. BaseInv /\ Grows
    <2>1. BaseInv
      BY Zenon DEF ReplicaInv
    <2>2. HistoryStands
      BY Zenon DEF Elect, StepDown, HistoryStands
    <2> QED BY Zenon, <2>1, <2>2, StandsGrows
  <1>2. UNCHANGED <<lastApplied, snapshotIndex, kv, daemon>>
    BY Zenon DEF Elect, StepDown
  <1>3. KeepsApplied(t)
    <2>1. lastApplied[t] <= lastApplied[t]
      BY SMTT(60), <1>1, BaseFacts
    <2> QED BY Zenon, <1>1, <1>2, <2>1, AppliedStays
  <1>4. /\ lead \in [Server -> 0..MaxTerm] /\ rlog \in [Server -> Seq(LogEntry)]
        /\ term \in Nat /\ lead[t] \in Nat /\ lead[t] <= term
    <2>1. /\ lead \in [Server -> 0..MaxTerm] /\ rlog \in [Server -> Seq(LogEntry)]
          /\ term \in 0..MaxTerm /\ lead[t] <= term
      BY Zenon, <1>1, BaseFacts DEF TermInv
    <2> QED BY SMTT(60), <2>1, Bounds
  <1>5. CASE t # s
    <2>1. lead'[t] = lead[t] /\ rlog'[t] = rlog[t]
      BY Zenon, <1>4, <1>5 DEF Elect, StepDown
    <2> QED BY Zenon, <1>1, <1>2, <2>1, KeepsStill
  <1>6. CASE t = s /\ StepDown(s)
    <2>1. lead'[t] = 0
      BY Zenon, <1>4, <1>6 DEF StepDown
    <2> QED BY Zenon, <1>3, <2>1 DEF Keeps, KeepsTerm, KeepsLog
  <1>7. CASE t = s /\ Elect(s)
    <2>1. lead'[t] = term + 1
      BY Zenon, <1>4, <1>7 DEF Elect
    <2>2. lead'[t] > term /\ lead'[t] # lead[t]
      BY <1>4, <2>1
    <2> QED BY Zenon, <1>3, <2>2 DEF Keeps, KeepsTerm, KeepsLog
  <1> QED BY Zenon, <1>5, <1>6, <1>7

\* What Start appends, on a leader.
LEMMA StartFacts ==
    ASSUME BaseInv, NEW s \in Server, NEW o \in Op, Start(s, o)
    PROVE  /\ \A t \in Server \ {s} : rlog'[t] = rlog[t]
           /\ lead[s] = 0 => rlog' = rlog
           /\ lead[s] # 0 => /\ Len(rlog'[s]) = Len(rlog[s]) + 1
                             /\ rlog'[s][Len(rlog[s]) + 1].op = o
           /\ \A i \in 1..Len(rlog[s]) : i \in 1..Len(rlog'[s]) /\ rlog'[s][i] = rlog[s][i]
  <1>1. CASE lead[s] = 0
    BY Zenon, <1>1 DEF Start
  <1>2. CASE lead[s] # 0
    <2> DEFINE e == [term |-> lead[s], op |-> o]
               q == Append(rlog[s], e)
    <2>1. rlog' = [rlog EXCEPT ![s] = q]
      BY Zenon, <1>2 DEF Start
    <2>2. e \in LogEntry /\ e.op = o
      <3>1. lead[s] \in 1..MaxTerm
        <4>1. lead[s] \in 0..MaxTerm
          BY Zenon, BaseFacts
        <4> QED BY <1>2, <4>1, Bounds
      <3> QED BY Zenon, <3>1 DEF LogEntry
    <2> HIDE DEF e
    <2>3. /\ Len(rlog[s]) \in Nat /\ Len(q) = Len(rlog[s]) + 1 /\ q[Len(rlog[s]) + 1] = e
          /\ \A i \in 1..Len(rlog[s]) : q[i] = rlog[s][i]
      BY SMTT(60), <2>2, BaseFacts, AppendProperties
    <2> HIDE DEF q
    <2>4. \A i \in 1..Len(rlog[s]) : i \in 1..Len(q)
      BY <2>3
    <2>5. rlog'[s] = q /\ \A t \in Server \ {s} : rlog'[t] = rlog[t]
      BY Zenon, <2>1, BaseFacts
    <2> QED BY Zenon, <1>2, <2>2, <2>3, <2>4, <2>5
  <1> QED BY SMTT(60), <1>1, <1>2

\* Start.
LEMMA KeepsStart ==
    ASSUME BaseInv, BaseInv', NEW s \in Server, NEW o \in Op, Start(s, o),
           UNCHANGED HandlerRest, NEW t \in Server
    PROVE  Keeps(t)
  <1>1. UNCHANGED <<lead, committed, replay, lastApplied, snapshotIndex, kv, daemon>>
    BY Zenon DEF HandlerRest, raftVars
  <1>2. Grows
    BY Zenon, <1>1, StandsGrows DEF HistoryStands
  <1>3. lastApplied[t] <= lastApplied[t] /\ snapshotIndex[t] <= snapshotIndex[t]
    BY SMTT(60), BaseFacts
  <1>4. CASE t # s
    BY Zenon, <1>1, <1>2, <1>4, StartFacts, KeepsStill
  <1>5. CASE t = s
    BY Zenon, <1>1, <1>2, <1>3, <1>5, StartFacts, AppliedStays, LogStays DEF Keeps, KeepsTerm
  <1> QED BY <1>4, <1>5

\* commitIndex catches up: a leader whose log differs follows.
LEMMA KeepsTakeBatch ==
    ASSUME BaseInv, BaseInv', NEW s \in Server, TakeBatch(s), NEW t \in Server
    PROVE  Keeps(t)
  <1> DEFINE N == Len(committed)
  <1>1. UNCHANGED <<committed, replay, snapshotIndex, kv, daemon>>
    BY Zenon DEF TakeBatch
  <1>2. Grows
    BY Zenon, <1>1, StandsGrows DEF HistoryStands
  <1>3. /\ lastApplied'[s] = N /\ \A u \in Server \ {s} : lastApplied'[u] = lastApplied[u]
        /\ \A u \in Server \ {s} : lead'[u] = lead[u] /\ rlog'[u] = rlog[u]
        /\ lastApplied[s] < N
    BY Zenon, BaseFacts DEF TakeBatch
  <1>4. CASE t # s
    BY Zenon, <1>1, <1>2, <1>3, <1>4, KeepsStill
  <1>5. CASE t = s
    <2>1. lastApplied[s] <= lastApplied'[s]
      BY SMTT(60), <1>3, BaseFacts
    <2>2. KeepsApplied(s)
      BY Zenon, <1>1, <1>2, <2>1, AppliedStays
    <2>3. CASE ~ IsPrefix(committed, rlog[s])
      <3>1. lead'[s] = 0
        BY Zenon, <2>3, BaseFacts DEF TakeBatch
      <3> QED BY Zenon, <1>5, <2>2, <3>1 DEF Keeps, KeepsTerm, KeepsLog
    <2>4. CASE IsPrefix(committed, rlog[s])
      <3>1. UNCHANGED <<lead, rlog>>
        BY Zenon, <2>4 DEF TakeBatch
      <3>2. \A i \in 1..N : committed[i] = rlog[s][i]
        BY Zenon, <2>4 DEF IsPrefix
      <3>3. ASSUME NEW i \in Nat, NEW o \in Op, Stands(s, i, o)
            PROVE  Stands(s, i, o)'
        <4>1. CASE i <= snapshotIndex[s]
          BY Zenon, <1>1, <4>1 DEF Stands
        <4>2. CASE Intact(s, i, o)
          <5>1. i \in 1..Len(rlog[s]) /\ rlog[s][i].op = o
            BY Zenon, <4>2 DEF Intact
          <5>2. i <= N => i \in 1..N
            BY SMTT(60), <5>1, BaseFacts
          <5> QED BY Zenon, <1>1, <1>3, <3>1, <3>2, <5>1, <5>2 DEF Stands, Intact
        <4> QED BY Zenon, <3>3, <4>1, <4>2 DEF Stands
      <3> QED BY Zenon, <1>5, <2>2, <3>1, <3>3 DEF Keeps, KeepsTerm, KeepsLog
    <2> QED BY <2>3, <2>4
  <1> QED BY <1>4, <1>5

\* InstallSnapshot: what is installed is not behind what was applied.
LEMMA KeepsInstall ==
    ASSUME ReplicaInv, BaseInv', NEW s \in Server, HandOver(s) \/ SaveInstalled(s),
           NEW t \in Server
    PROVE  Keeps(t)
  <1> USE DEF clerkVars, electVars
  <1> DEFINE x == incoming[s].index
  <1>1. BaseInv /\ ServerInv(s) /\ HistoryStands
    BY Zenon DEF ReplicaInv, HandOver, SaveInstalled, HistoryStands
  <1>2. Grows /\ UNCHANGED <<committed, replay, lead, kv>>
    BY Zenon, <1>1, StandsGrows DEF HandOver, SaveInstalled
  <1>3. /\ x \in Nat /\ lastApplied[s] \in Nat /\ snapshotIndex[s] \in Nat
        /\ x > snapshotIndex[s] /\ x >= lastApplied[s] /\ x <= Len(committed)
        /\ Len(committed) \in Nat
    <2>1. incoming[s] # None
      BY Zenon DEF HandOver, SaveInstalled, RaftFree
    <2> QED BY Zenon, <1>1, <2>1, ServerNumbers
            DEF ServerInv, IncomingInv, BaseInv, LogBounds, ServerBounds
  <1>4. CASE HandOver(s)
    <2> DEFINE d == [at |-> "install", index |-> x, data |-> incoming[s].data]
    <2>1. UNCHANGED <<rlog, lastApplied, snapshotIndex>>
      BY Zenon, <1>4 DEF HandOver
    <2>2. daemon' = [daemon EXCEPT ![s] = d] /\ daemon[s].at = "receive"
      BY Zenon, <1>4 DEF HandOver
    <2>3. d.index = x
      BY Zenon
    <2> HIDE DEF d
    <2>4. daemon'[s] = d /\ \A u \in Server \ {s} : daemon'[u] = daemon[u]
      BY Zenon, <1>1, <2>2, BaseFacts
    <2>5. CASE t # s
      BY Zenon, <1>1, <1>2, <2>1, <2>4, <2>5, KeepsStill
    <2>6. CASE t = s
      <3>1. ASSUME NEW o \in Op, AppliedAt(s, o)
            PROVE  AppliedAt(s, o)'
        <4>1. PICK j \in 1..lastApplied[s] :
                  /\ committed[j].op = o
                  /\ \E n \in j..Len(committed) : Holds(kv[s], n, replay)
          BY Zenon, <3>1 DEF AppliedAt
        <4>2. j <= x
          BY <1>3
        <4> QED BY Zenon, <1>2, <2>1, <2>3, <2>4, <4>1, <4>2 DEF AppliedAt
      <3>2. snapshotIndex[s] <= snapshotIndex[s]
        BY <1>3
      <3>3. KeepsLog(s)
        BY Zenon, <1>1, <1>2, <2>1, <3>2, LogStays
      <3> QED BY Zenon, <1>2, <2>6, <3>1, <3>3 DEF Keeps, KeepsApplied, KeepsTerm
    <2> QED BY <2>5, <2>6
  <1>5. CASE SaveInstalled(s)
    <2> DEFINE q == SubSeq(committed, 1, x) \o SubSeq(rlog[s], x + 1, Len(rlog[s]))
    <2>1. /\ snapshotIndex' = [snapshotIndex EXCEPT ![s] = x]
          /\ lastApplied' = [lastApplied EXCEPT ![s] = x]
          /\ rlog' = [rlog EXCEPT ![s] = q] /\ UNCHANGED daemon
      BY Zenon, <1>5 DEF SaveInstalled
    <2>2. x \in 0..Len(committed)
      BY <1>3
    <2>3. Spliced(q, committed, rlog[s], x)
      BY Zenon, <1>1, <2>2, SplicedEntries, BaseFacts
    <2> HIDE DEF q
    <2>4. /\ snapshotIndex'[s] = x /\ lastApplied'[s] = x /\ rlog'[s] = q
          /\ \A u \in Server \ {s} : /\ snapshotIndex'[u] = snapshotIndex[u]
                                     /\ lastApplied'[u] = lastApplied[u] /\ rlog'[u] = rlog[u]
      BY Zenon, <1>1, <2>1, BaseFacts
    <2>5. CASE t # s
      BY Zenon, <1>1, <1>2, <2>1, <2>4, <2>5, KeepsStill
    <2>6. CASE t = s
      <3>1. lastApplied[s] <= lastApplied'[s]
        BY <1>3, <2>4
      <3>2. KeepsApplied(s)
        BY Zenon, <1>1, <1>2, <2>1, <3>1, AppliedStays
      <3>3. ASSUME NEW i \in Nat, NEW o \in Op, Stands(s, i, o)
            PROVE  Stands(s, i, o)'
        <4>1. CASE i <= x
          BY Zenon, <2>4, <4>1 DEF Stands
        <4>2. CASE ~ (i <= x)
          <5>1. ~ (i <= snapshotIndex[s])
            BY SMTT(60), <1>3, <4>2
          <5>2. i \in 1..Len(rlog[s]) /\ rlog[s][i].op = o
            BY Zenon, <3>3, <5>1 DEF Stands, Intact
          <5>3. /\ Len(rlog[s]) \in Nat /\ i \in (x + 1)..Len(rlog[s])
                /\ x <= Len(rlog[s])
            BY SMTT(60), <1>1, <1>3, <4>2, <5>2, BaseFacts
          <5>4. Len(q) = Len(rlog[s]) /\ q[i] = rlog[s][i]
            BY Zenon, <2>3, <5>3 DEF Spliced
          <5> QED BY Zenon, <2>4, <4>2, <5>2, <5>4 DEF Stands, Intact
        <4> QED BY <4>1, <4>2
      <3> QED BY Zenon, <1>2, <2>6, <3>2, <3>3 DEF Keeps, KeepsTerm, KeepsLog
    <2> QED BY <2>5, <2>6
  <1> QED BY <1>4, <1>5

\* The data of a server after the next command covers what the data before it covered.
LEMMA AdvanceCovers ==
    ASSUME BaseInv, ReplayInv, DupCovers, NEW k \in KV, NEW i \in 1..Len(committed),
           NEW n \in 0..Len(committed), Holds(k, n, replay), i <= n + 1,
           NEW j \in Nat, \E n1 \in j..Len(committed) : Holds(k, n1, replay)
    PROVE  /\ \E m \in i..Len(committed) : Holds(Applied(k, committed[i].op), m, replay)
           /\ \E m \in j..Len(committed) : Holds(Applied(k, committed[i].op), m, replay)
  <1> DEFINE a == Applied(k, committed[i].op)
  <1>1. Len(committed) \in Nat
    BY Zenon, BaseFacts
  <1>2. PICK m \in 0..Len(committed) : m >= n /\ m >= i /\ Holds(a, m, replay)
    BY Zenon, Advance
  <1>3. m \in i..Len(committed)
    BY <1>1, <1>2
  <1>4. PICK n1 \in j..Len(committed) : Holds(k, n1, replay)
    OBVIOUS
  <1>5. n1 \in 0..Len(committed)
    BY <1>1
  <1>6. CASE i <= n1 + 1
    <2>1. PICK m1 \in 0..Len(committed) : m1 >= n1 /\ m1 >= i /\ Holds(a, m1, replay)
      BY Zenon, <1>4, <1>5, <1>6, Advance
    <2> HIDE DEF a
    <2>2. m1 \in j..Len(committed)
      BY <1>1, <2>1
    <2> QED BY Zenon, <1>2, <1>3, <2>1, <2>2 DEF a
  <1>7. CASE ~ (i <= n1 + 1)
    <2> HIDE DEF a
    <2>1. m \in j..Len(committed)
      BY <1>1, <1>2, <1>7
    <2> QED BY Zenon, <1>2, <1>3, <2>1 DEF a
  <1> QED BY SMTT(60), <1>6, <1>7

\* The command message i that applyDaemon takes next, and what it makes of the data.
LEMMA ReceiveFacts ==
    ASSUME ReplicaInv, NEW s \in Server, Receive(s)
    PROVE  /\ daemon[s].at = "receive"
           /\ UNCHANGED <<lead, rlog, committed, replay, lastApplied, snapshotIndex, op, since>>
           /\ \E i \in 1..lastApplied[s] :
                 /\ i \in 1..Len(committed)
                 /\ \/ i <= kv[s].index /\ UNCHANGED <<call, kv, daemon>>
                    \/ /\ i > kv[s].index
                       /\ kv'[s].db = Applied(kv[s], committed[i].op).db
                       /\ kv'[s].duplicate = Applied(kv[s], committed[i].op).duplicate
                       /\ daemon'[s].at # "install"
                       /\ call' = call \/ call' = Notified(s, i)
                       /\ \A t \in Server \ {s} : kv'[t] = kv[t] /\ daemon'[t] = daemon[t]
                       /\ \E n \in 0..Len(committed) : Holds(kv[s], n, replay) /\ i <= n + 1
  <1> USE DEF clerkVars, electVars, ApplyRest
  <1>1. BaseInv /\ ReplayInv /\ DupCovers /\ ServerInv(s)
    BY Zenon DEF ReplicaInv
  <1>2. /\ UNCHANGED <<lead, rlog, committed, replay, lastApplied, snapshotIndex, op, since>>
        /\ daemon[s].at = "receive"
    BY Zenon DEF Receive
  <1>3. PICK i \in batch[s] :
            LET k == Applied(kv[s], committed[i].op)
            IN /\ \A j \in batch[s] : i <= j
               /\ \/ /\ i <= kv[s].index
                     /\ UNCHANGED <<call, kv, daemon>>
                  \/ /\ i > kv[s].index
                     /\ kv' = [kv EXCEPT ![s] = k]
                     /\ call' = Notified(s, i)
                     /\ UNCHANGED daemon
                  \/ /\ i > kv[s].index
                     /\ kv' = [kv EXCEPT ![s] = Generated(k, i)]
                     /\ daemon' = [daemon EXCEPT ![s] = [Idle EXCEPT !.at = "compact", !.index = i]]
                     /\ UNCHANGED call
    BY Zenon DEF Receive
  <1> DEFINE N == Len(committed)
             last == lastApplied[s]
             k == Applied(kv[s], committed[i].op)
             g == Generated(k, i)
             p == [Idle EXCEPT !.at = "compact", !.index = i]
  <1>4. /\ N \in Nat /\ last \in Nat /\ kv[s] \in KV /\ kv[s].index \in Nat
    BY Zenon, <1>1, ServerNumbers
  <1>5. PICK n \in kv[s].index..N : Holds(kv[s], n, replay) /\ ReachedBy(n, last, batch[s])
    BY Zenon, <1>1, <1>2 DEF ServerInv, DaemonInv
  <1>6. batch[s] \subseteq 1..last
    BY Zenon, <1>1, <1>2 DEF ServerInv, DaemonInv
  <1>7. n \in Nat /\ n \in 0..N
    BY SMTT(60), <1>4, <1>5
  <1>8. i <= n + 1 /\ i \in 1..last
    BY Zenon, <1>3, <1>4, <1>5, <1>6, <1>7, ReachedNext
  <1>9. i \in 1..N /\ i \in 0..MaxLog
    <2>1. i \in 1..N /\ i \in 1..MaxLog
      BY Zenon, <1>1, BaseFacts DEF BaseInv, LogBounds, ServerBounds
    <2> QED BY SMTT(60), <1>4, <2>1, Bounds
  <1>10. k \in KV
    BY Zenon, <1>1, <1>4, <1>9, BaseFacts, AppliedFields
  <1> HIDE DEF k
  <1>11. g.db = k.db /\ g.duplicate = k.duplicate /\ p.at = "compact"
    BY Zenon, <1>9, <1>10, DaemonPlaces
  <1> HIDE DEF g, p
  <1>12. CASE i <= kv[s].index /\ UNCHANGED <<call, kv, daemon>>
    BY Zenon, <1>2, <1>8, <1>9, <1>12
  <1>13. CASE /\ i > kv[s].index /\ kv' = [kv EXCEPT ![s] = k] /\ call' = Notified(s, i)
              /\ UNCHANGED daemon
    <2>1. kv'[s] = k /\ \A t \in Server \ {s} : kv'[t] = kv[t]
      BY Zenon, <1>1, <1>13, BaseFacts
    <2> QED BY Zenon, <1>2, <1>5, <1>7, <1>8, <1>9, <1>13, <2>1 DEF k
  <1>14. CASE /\ i > kv[s].index /\ kv' = [kv EXCEPT ![s] = g] /\ UNCHANGED call
              /\ daemon' = [daemon EXCEPT ![s] = p]
    <2>1. /\ kv'[s] = g /\ \A t \in Server \ {s} : kv'[t] = kv[t] /\ daemon'[t] = daemon[t]
          /\ daemon'[s].at = "compact"
      BY Zenon, <1>1, <1>11, <1>14, BaseFacts
    <2>2. kv'[s].db = k.db /\ kv'[s].duplicate = k.duplicate
      BY Zenon, <1>11, <2>1
    <2> QED BY Zenon, <1>2, <1>5, <1>7, <1>8, <1>9, <1>14, <2>1, <2>2 DEF k
  <1> QED BY Zenon, <1>3, <1>12, <1>13, <1>14 DEF k, g, p

\* applyDaemon goes on.
LEMMA KeepsReceive ==
    ASSUME ReplicaInv, BaseInv', NEW s \in Server, Receive(s), NEW t \in Server
    PROVE  Keeps(t)
  <1>1. BaseInv /\ ReplayInv /\ DupCovers
    BY Zenon DEF ReplicaInv
  <1>2. /\ daemon[s].at = "receive"
        /\ UNCHANGED <<lead, rlog, committed, replay, lastApplied, snapshotIndex>>
    BY Zenon, ReceiveFacts
  <1>3. Grows
    BY Zenon, <1>1, <1>2, StandsGrows DEF HistoryStands
  <1>4. PICK i \in 1..Len(committed) :
            \/ UNCHANGED <<kv, daemon>>
            \/ /\ kv'[s].db = Applied(kv[s], committed[i].op).db
               /\ kv'[s].duplicate = Applied(kv[s], committed[i].op).duplicate
               /\ daemon'[s].at # "install"
               /\ \A u \in Server \ {s} : kv'[u] = kv[u] /\ daemon'[u] = daemon[u]
               /\ \E n \in 0..Len(committed) : Holds(kv[s], n, replay) /\ i <= n + 1
    BY Zenon, ReceiveFacts
  <1> DEFINE k == Applied(kv[s], committed[i].op)
  <1>5. CASE UNCHANGED <<kv, daemon>>
    BY Zenon, <1>1, <1>2, <1>3, <1>5, KeepsStill
  <1>6. CASE /\ kv'[s].db = k.db /\ kv'[s].duplicate = k.duplicate /\ daemon'[s].at # "install"
             /\ \A u \in Server \ {s} : kv'[u] = kv[u] /\ daemon'[u] = daemon[u]
             /\ \E n \in 0..Len(committed) : Holds(kv[s], n, replay) /\ i <= n + 1
    <2>1. CASE t # s
      BY Zenon, <1>1, <1>2, <1>3, <1>6, <2>1, KeepsStill
    <2>2. CASE t = s
      <3>1. ASSUME NEW o \in Op, AppliedAt(s, o)
            PROVE  AppliedAt(s, o)'
        <4>1. PICK j \in 1..lastApplied[s] :
                  /\ committed[j].op = o
                  /\ \E n \in j..Len(committed) : Holds(kv[s], n, replay)
          BY Zenon, <3>1 DEF AppliedAt
        <4>2. j \in Nat /\ kv[s] \in KV
          BY SMTT(60), <1>1, BaseFacts
        <4>3. PICK n \in 0..Len(committed) : Holds(kv[s], n, replay) /\ i <= n + 1
          BY Zenon, <1>6
        <4>4. PICK m \in j..Len(committed) : Holds(k, m, replay)
          BY Zenon, <1>1, <4>1, <4>2, <4>3, AdvanceCovers
        <4>5. Holds(kv'[s], m, replay)
          BY Zenon, <1>6, <4>4 DEF Holds
        <4> QED BY Zenon, <1>2, <1>6, <4>1, <4>5 DEF AppliedAt
      <3>2. snapshotIndex[s] <= snapshotIndex[s]
        BY SMTT(60), <1>1, BaseFacts
      <3>3. KeepsLog(s)
        BY Zenon, <1>1, <1>2, <1>3, <3>2, LogStays
      <3> QED BY Zenon, <1>2, <2>2, <3>1, <3>3 DEF Keeps, KeepsApplied, KeepsTerm
    <2> QED BY <2>1, <2>2
  <1> QED BY Zenon, <1>4, <1>5, <1>6

\* NewSnapShot, and a snapshot message.
LEMMA KeepsSnapshot ==
    ASSUME ReplicaInv, BaseInv', NEW s \in Server, Compact(s) \/ LoadSnapshot(s),
           NEW t \in Server
    PROVE  Keeps(t)
  <1> USE DEF clerkVars, electVars, ApplyRest
  <1>1. BaseInv /\ ServerInv(s) /\ HistoryStands
    BY Zenon DEF ReplicaInv, Compact, LoadSnapshot, HistoryStands
  <1>2. Grows /\ UNCHANGED <<committed, replay, lead, rlog, lastApplied>>
    BY Zenon, <1>1, StandsGrows DEF Compact, LoadSnapshot
  <1>3. /\ lastApplied[s] \in Nat /\ snapshotIndex[s] \in Nat /\ daemon[s].index \in Nat
        /\ Len(committed) \in Nat /\ Idle.at = "receive"
    BY Zenon, <1>1, ServerNumbers, DaemonPlaces
  <1>4. daemon'[s] = Idle /\ \A u \in Server \ {s} : daemon'[u] = daemon[u]
    BY ZenonT(60), <1>1, BaseFacts DEF Compact, LoadSnapshot
  <1>5. lastApplied[s] <= lastApplied[s] /\ snapshotIndex[s] <= snapshotIndex[s]
    BY <1>3
  <1>6. CASE Compact(s)
    <2>1. UNCHANGED kv
      BY Zenon, <1>6 DEF Compact
    <2>2. /\ snapshotIndex[s] <= snapshotIndex'[s]
          /\ \A u \in Server \ {s} : snapshotIndex'[u] = snapshotIndex[u]
      <3>1. CASE UNCHANGED snapshotIndex
        BY Zenon, <1>5, <3>1
      <3>2. CASE /\ snapshotIndex' = [snapshotIndex EXCEPT ![s] = daemon[s].index]
                 /\ ~ (daemon[s].index <= snapshotIndex[s])
        <4>1. /\ snapshotIndex'[s] = daemon[s].index
              /\ \A u \in Server \ {s} : snapshotIndex'[u] = snapshotIndex[u]
          BY Zenon, <1>1, <3>2, BaseFacts
        <4>2. snapshotIndex[s] <= daemon[s].index
          BY SMTT(60), <1>3, <3>2
        <4> QED BY Zenon, <4>1, <4>2
      <3> QED BY Zenon, <1>6, <3>1, <3>2 DEF Compact
    <2>3. CASE t # s
      BY Zenon, <1>1, <1>2, <1>4, <2>1, <2>2, <2>3, KeepsStill
    <2>4. CASE t = s
      <3>1. KeepsApplied(s)
        BY Zenon, <1>1, <1>2, <1>3, <1>4, <1>5, <2>1, AppliedStays
      <3>2. KeepsLog(s)
        BY Zenon, <1>1, <1>2, <2>2, LogStays
      <3> QED BY Zenon, <1>2, <2>4, <3>1, <3>2 DEF Keeps, KeepsTerm
    <2> QED BY <2>3, <2>4
  <1>7. CASE LoadSnapshot(s)
    <2> DEFINE x == daemon[s].index
               y == daemon[s].data
               k == Generated(y, x)
    <2>1. UNCHANGED snapshotIndex /\ daemon[s].at = "install"
      BY Zenon, <1>7 DEF LoadSnapshot
    <2>2. kv'[s] = k /\ \A u \in Server \ {s} : kv'[u] = kv[u]
      BY Zenon, <1>1, <1>7, BaseFacts DEF LoadSnapshot, ReadSnapshot
    <2>3. IsSnapshot(y, x, Len(committed), replay)
      BY Zenon, <1>1, <2>1 DEF ServerInv, DaemonInv
    <2>4. PICK n \in y.index..Len(committed) : Holds(y, n, replay)
      BY Zenon, <2>3 DEF IsSnapshot, ReplicaOf
    <2>5. y \in KV /\ x <= y.index /\ y.index \in Nat
      BY Zenon, <2>3, KVFields DEF IsSnapshot
    <2>6. k.db = y.db /\ k.duplicate = y.duplicate
      <3>1. x \in 0..MaxLog
        BY Zenon, <1>1, BaseFacts
      <3> QED BY Zenon, <2>5, <3>1, DaemonPlaces
    <2> HIDE DEF k
    <2>7. Holds(k, n, replay)
      BY Zenon, <2>4, <2>6 DEF Holds
    <2>8. CASE t # s
      BY Zenon, <1>1, <1>2, <1>4, <2>1, <2>2, <2>8, KeepsStill
    <2>9. CASE t = s
      <3>1. ASSUME NEW o \in Op, AppliedAt(s, o)
            PROVE  AppliedAt(s, o)'
        <4>1. PICK j \in 1..lastApplied[s] : committed[j].op = o /\ j <= x
          BY Zenon, <2>1, <3>1 DEF AppliedAt
        <4>2. n \in j..Len(committed)
          BY SMTT(60), <1>3, <2>4, <2>5, <4>1
        <4>3. daemon'[s].at # "install"
          BY Zenon, <1>3, <1>4
        <4> QED BY Zenon, <1>2, <2>2, <2>7, <4>1, <4>2, <4>3 DEF AppliedAt
      <3>2. KeepsLog(s)
        BY Zenon, <1>1, <1>2, <1>5, <2>1, LogStays
      <3> QED BY Zenon, <1>2, <2>9, <3>1, <3>2 DEF Keeps, KeepsApplied, KeepsTerm
    <2> QED BY SMTT(60), <2>8, <2>9
  <1> QED BY <1>6, <1>7

\* Every server but one that is killed.
LEMMA KeepsStep ==
    ASSUME ReplicaInv, BaseInv', TermInv, [Next]_vars, NEW t \in Server, ~ Restart(t)
    PROVE  Keeps(t)
  <1> USE DEF clerkVars, electVars, raftVars, serverVars
  <1>1. BaseInv /\ Grows
    BY Zenon, HistoryStep DEF ReplicaInv
  <1>2. ASSUME UNCHANGED <<lead, rlog, lastApplied, snapshotIndex, kv, daemon>>
        PROVE  Keeps(t)
    BY Zenon, <1>1, <1>2, KeepsStill
  <1>3. ASSUME NEW c \in Clerk,
               \/ \E o \in Op : Begin(c, o)
               \/ TimeOut(c) \/ CallFails(c) \/ Return(c)
               \/ CheckLeader(c) \/ AnswerDuplicate(c) \/ Confirm(c) \/ ReadDb(c)
        PROVE  Keeps(t)
    BY Zenon, <1>1, <1>2, <1>3, ClerkTypes, HandlerTypes
  <1>4. ASSUME NEW c \in Clerk, Submit(c)
        PROVE  Keeps(t)
    <2>1. call[c].server \in Server /\ op[c] \in Op
      BY Zenon, <1>1, <1>4, ClerkNumbers DEF Submit
    <2>2. Start(call[c].server, op[c]) /\ UNCHANGED HandlerRest
      BY Zenon, <1>4 DEF Submit
    <2> QED BY Zenon, <1>1, <2>1, <2>2, KeepsStart
  <1>5. ASSUME NEW r \in stray, StraySubmit(r)
        PROVE  Keeps(t)
    <2>1. r.server \in Server /\ r.op \in Op
      BY Zenon, <1>1 DEF BaseInv, TypeOK
    <2>2. Start(r.server, r.op) /\ UNCHANGED HandlerRest
      BY Zenon, <1>5 DEF StraySubmit
    <2> QED BY Zenon, <1>1, <2>1, <2>2, KeepsStart
  <1>6. ASSUME NEW r \in stray, StrayEnds(r)
        PROVE  Keeps(t)
    BY Zenon, <1>2, <1>6 DEF StrayEnds, HandlerRest
  <1>7. ASSUME NEW s \in Server, Commit(s) \/ SendSnapshot(s) \/ InstallSnapshot(s)
        PROVE  Keeps(t)
    BY Zenon, <1>2, <1>7 DEF Commit, SendSnapshot, InstallSnapshot
  <1>8. ASSUME NEW s \in Server, Restart(s)
        PROVE  Keeps(t)
    <2>1. t # s
      BY Zenon, <1>8
    <2>2. /\ lead'[t] = lead[t] /\ rlog'[t] = rlog[t] /\ lastApplied'[t] = lastApplied[t]
          /\ snapshotIndex'[t] = snapshotIndex[t] /\ kv'[t] = kv[t] /\ daemon'[t] = daemon[t]
      BY Zenon, <1>1, <1>8, <2>1, BaseFacts DEF Restart
    <2> QED BY Zenon, <1>1, <2>2, KeepsStill
  <1>9. CASE UNCHANGED vars
    BY Zenon, <1>2, <1>9 DEF vars
  <1> QED BY Zenon, <1>1, <1>3, <1>4, <1>5, <1>6, <1>7, <1>8, <1>9, KeepsElect, KeepsTakeBatch,
             KeepsInstall, KeepsReceive, KeepsSnapshot DEF Next
-----------------------------------------------------------------------------
(* How a call goes on                                                      *)

\* Nothing depends on the call of d any longer, or yet.
Settled(d) ==
    /\ call'[d].stage \in {"none", "sent", "checked", "hung", "failed"}
    /\ call'[d].term \in {0, call[d].term}

\* Its command has been appended to the log of the leader.
Placed(d) ==
    LET s == call[d].server
    IN /\ Submit(d) /\ lead[s] # 0
       /\ call'[d].stage = "waiting" /\ call'[d].server = s
       /\ call'[d].index = Len(rlog[s]) + 1 /\ call'[d].term = lead[s]

\* applyDaemon has woken its handler.
Woken(d) ==
    LET s == call[d].server
    IN /\ call[d].stage = "waiting" /\ call'[d].stage = "notified"
       /\ call'[d].server = s /\ call'[d].term = call[d].term
       /\ Receive(s) \/ Compact(s)

\* It is answered, or a Get is about to read the data.
Answered(d) ==
    /\ AnswerDuplicate(d) \/ (Confirm(d) /\ StillLeader(d)) \/ ReadDb(d)
    /\ call'[d].stage \in {"ok", "confirmed"} /\ call'[d].term = 0

Moves(d) ==
    \/ Settled(d)
    \/ /\ op'[d] = op[d] /\ since'[d] = since[d]
       /\ \/ call'[d] = call[d] \/ Placed(d) \/ Woken(d) \/ Answered(d)

\* Clerks that go on.
LEMMA ClerkCalls ==
    ASSUME BaseInv, BaseInv', NEW c \in Clerk,
           (\E o \in Op : Begin(c, o)) \/ TimeOut(c) \/ CallFails(c) \/ Return(c),
           NEW d \in Clerk
    PROVE  Moves(d)
  <1>1. CASE (\E o \in Op : Begin(c, o)) \/ Return(c)
    <2>1. CASE d # c
      <3>1. \A e \in Clerk \ {c} : op'[e] = op[e] /\ since'[e] = since[e] /\ call'[e] = call[e]
        BY Zenon, <1>1, OtherClerks
      <3> QED BY Zenon, <2>1, <3>1 DEF Moves
    <2>2. CASE d = c
      BY Zenon, <1>1, <2>2, ClerkMoveFacts DEF Moves, Settled
    <2> QED BY SMTT(60), <2>1, <2>2
  <1>2. CASE TimeOut(c) \/ CallFails(c)
    <2>1. /\ call' = [call EXCEPT ![c] = Sent(leader'[c])] /\ UNCHANGED <<op, since>>
          /\ leader'[c] \in Server
      BY ZenonT(60), <1>2 DEF TimeOut, CallFails, NextServer, BaseInv, TypeOK
    <2>2. Sent(leader'[c]).stage = "sent" /\ Sent(leader'[c]).term = 0
      BY Zenon, <2>1, CallTypes DEF AtStage
    <2> QED BY Zenon, <2>1, <2>2, BaseFacts DEF Moves, Settled
  <1> QED BY Zenon, <1>1, <1>2

\* Handlers, apart from Start.
LEMMA HandlerCalls ==
    ASSUME BaseInv, BaseInv', NEW c \in Clerk,
           CheckLeader(c) \/ AnswerDuplicate(c) \/ Confirm(c) \/ ReadDb(c), NEW d \in Clerk
    PROVE  Moves(d)
  <1> DEFINE s == call[c].server
  <1>1. /\ call' = [call EXCEPT ![c] = call'[c]] /\ UNCHANGED <<op, since>>
        /\ s \in Server /\ call[c] \in Call
    BY Zenon, HandlerTypes, ClerkNumbers DEF CallGoesOn, clerkVars
  <1>2. CASE d # c
    <2>1. PICK x : call' = [call EXCEPT ![c] = x]
      BY Zenon, <1>1
    <2>2. call'[d] = call[d]
      BY Zenon, <1>2, <2>1, BaseFacts
    <2> QED BY Zenon, <1>1, <2>2 DEF Moves
  <1>3. CASE d = c
    <2>1. /\ \A v \in Value : Reply(s, v).stage = "ok" /\ Reply(s, v).term = 0
          /\ Failed(s).stage = "failed" /\ Failed(s).term = 0
          /\ [Sent(s) EXCEPT !.stage = "confirmed"].stage = "confirmed"
          /\ [Sent(s) EXCEPT !.stage = "confirmed"].term = 0
          /\ <<>> \in Value
      <3>1. /\ \A v \in Value : AtStage(Reply(s, v), "ok", s)
            /\ AtStage(Failed(s), "failed", s)
            /\ AtStage([Sent(s) EXCEPT !.stage = "confirmed"], "confirmed", s)
            /\ <<>> \in Value
        BY Zenon, <1>1, CallTypes
      <3> QED BY Zenon, <3>1 DEF AtStage
    <2>2. CASE CheckLeader(c)
      <3>1. /\ [call[c] EXCEPT !.stage = "checked"].stage = "checked"
            /\ [call[c] EXCEPT !.stage = "checked"].term = call[c].term
        BY <1>1 DEF Call
      <3>2. call'[c] = Failed(s) \/ call'[c] = [call[c] EXCEPT !.stage = "checked"]
        BY Zenon, <2>2, BaseFacts DEF CheckLeader
      <3> QED BY Zenon, <1>3, <2>1, <3>1, <3>2 DEF Moves, Settled
    <2>3. CASE Confirm(c)
      <3>1. CASE ~ StillLeader(c)
        <4>1. call'[c] = Failed(s)
          BY Zenon, <2>3, <3>1, BaseFacts DEF Confirm
        <4> QED BY Zenon, <1>3, <2>1, <4>1 DEF Moves, Settled
      <3>2. CASE StillLeader(c)
        <4>1. call'[c] = Reply(s, <<>>) \/ call'[c] = [Sent(s) EXCEPT !.stage = "confirmed"]
          BY ZenonT(60), <2>3, <3>2, BaseFacts DEF Confirm
        <4> QED BY ZenonT(60), <1>1, <1>3, <2>1, <2>3, <3>2, <4>1 DEF Moves, Answered
      <3> QED BY SMTT(60), <3>1, <3>2
    <2>4. CASE AnswerDuplicate(c) \/ ReadDb(c)
      <3>1. PICK v \in Value : call'[c] = Reply(s, v)
        <4>1. op[c] \in Op /\ kv[s] \in KV
          BY Zenon, <1>1, <2>4, ClerkNumbers, BaseFacts DEF AnswerDuplicate, ReadDb
        <4>2. op[c].key \in Key
          BY Zenon, <4>1, AppliedFields
        <4>3. kv[s].duplicate[c].value \in Value /\ kv[s].db[op[c].key] \in Value
          BY SMTT(60), <4>1, <4>2 DEF KV
        <4> QED BY ZenonT(60), <2>4, <4>3, BaseFacts DEF AnswerDuplicate, ReadDb
      <3> QED BY ZenonT(60), <1>1, <1>3, <2>1, <2>4, <3>1 DEF Moves, Answered
    <2> QED BY Zenon, <2>2, <2>3, <2>4
  <1> QED BY SMTT(60), <1>2, <1>3

\* Start registers a channel, maybe in place of another one.
LEMMA StartCalls ==
    ASSUME BaseInv, NEW c, NEW s \in Server, call' = Registered(c, s), UNCHANGED <<op, since>>,
           c = None \/ (c \in Clerk /\ Submit(c) /\ s = call[c].server), NEW d \in Clerk
    PROVE  Moves(d)
  <1>1. /\ [Sent(s) EXCEPT !.stage = "hung"].stage = "hung"
        /\ [Sent(s) EXCEPT !.stage = "hung"].term = 0
    BY ZenonT(60), CallTypes DEF AtStage
  <1>2. CASE call'[d] = [Sent(s) EXCEPT !.stage = "hung"]
    BY ZenonT(60), <1>1, <1>2 DEF Moves, Settled
  <1>3. CASE call'[d] = call[d]
    BY Zenon, <1>3 DEF Moves
  <1>4. CASE d # c
    BY Zenon, <1>2, <1>3, <1>4 DEF Registered
  <1>5. CASE d = c /\ lead[s] = 0
    BY Zenon, <1>2, <1>5 DEF Registered
  <1>6. CASE d = c /\ lead[s] # 0
    <2> DEFINE x == [call[c] EXCEPT !.stage = "waiting", !.index = Len(rlog[s]) + 1,
                                    !.term = lead[s]]
    <2>1. call'[d] = x
      BY Zenon, <1>6 DEF Registered
    <2>2. Submit(d) /\ s = call[d].server /\ call[d] \in Call
      BY Zenon, <1>6, NoneAssumption, BaseFacts
    <2>3. /\ x.stage = "waiting" /\ x.index = Len(rlog[s]) + 1 /\ x.term = lead[s]
          /\ x.server = s
      BY SMTT(60), <1>6, <2>2 DEF Call
    <2> QED BY ZenonT(60), <1>6, <2>1, <2>2, <2>3 DEF Moves, Placed
  <1> QED BY SMTT(60), <1>4, <1>5, <1>6

\* Every step.
LEMMA CallStep ==
    ASSUME ReplicaInv, BaseInv', [Next]_vars, NEW d \in Clerk
    PROVE  Moves(d)
  <1> USE DEF clerkVars, electVars, raftVars
  <1>1. BaseInv
    BY ZenonT(60) DEF ReplicaInv
  <1>2. ASSUME UNCHANGED <<call, op, since>>
        PROVE  Moves(d)
    BY Zenon, <1>2 DEF Moves
  <1>3. ASSUME NEW c \in Clerk, Submit(c)
        PROVE  Moves(d)
    <2>1. /\ call[c].server \in Server /\ call' = Registered(c, call[c].server)
          /\ UNCHANGED <<op, since>>
      BY Zenon, <1>1, <1>3, ClerkNumbers DEF Submit, HandlerRest
    <2> QED BY Zenon, <1>1, <1>3, <2>1, StartCalls
  <1>4. ASSUME NEW r \in stray, StraySubmit(r)
        PROVE  Moves(d)
    <2>1. r.server \in Server /\ call' = Registered(None, r.server) /\ UNCHANGED <<op, since>>
      BY ZenonT(60), <1>1, <1>4 DEF BaseInv, TypeOK, StraySubmit, HandlerRest
    <2> QED BY ZenonT(60), <1>1, <2>1, StartCalls
  <1>5. ASSUME NEW r \in stray, StrayEnds(r)
        PROVE  Moves(d)
    BY Zenon, <1>2, <1>5 DEF StrayEnds, HandlerRest
  <1>6. ASSUME NEW s \in Server,
               \/ Elect(s) \/ StepDown(s) \/ Commit(s) \/ TakeBatch(s) \/ SendSnapshot(s)
               \/ InstallSnapshot(s) \/ HandOver(s) \/ SaveInstalled(s)
        PROVE  Moves(d)
    BY ZenonT(60), <1>2, <1>6 DEF Elect, StepDown, Commit, TakeBatch, SendSnapshot,
                             InstallSnapshot, HandOver, SaveInstalled
  <1>7. ASSUME NEW s \in Server, LoadSnapshot(s)
        PROVE  Moves(d)
    BY Zenon, <1>2, <1>7 DEF LoadSnapshot, ApplyRest
  <1>8. ASSUME NEW s \in Server, Receive(s) \/ Compact(s)
        PROVE  Moves(d)
    <2>1. UNCHANGED <<op, since>> /\ (call' = call \/ \E i \in Nat : call' = Notified(s, i))
      <3>1. CASE Compact(s)
        BY Zenon, <1>1, <3>1, ServerNumbers DEF Compact
      <3>2. CASE Receive(s)
        <4>1. \A i \in 1..lastApplied[s] : i \in Nat
          OBVIOUS
        <4> QED BY Zenon, <3>2, <4>1, ReceiveFacts
      <3> QED BY Zenon, <1>8, <3>1, <3>2
    <2>2. CASE call' = call
      BY Zenon, <1>2, <2>1, <2>2
    <2>3. ASSUME NEW i \in Nat, call' = Notified(s, i)
          PROVE  Moves(d)
      <3> DEFINE x == Notified(s, i)[d]
      <3>1. \/ x = call[d]
            \/ /\ call[d].stage = "waiting" /\ call[d].server = s
               /\ x.stage = "notified" /\ x.server = s /\ x.term = call[d].term
        <4>1. \A c \in Clerk :
                  /\ Notified(s, i)[c].stage = "none" <=> call[c].stage = "none"
                  /\ \/ Notified(s, i)[c] = call[c]
                     \/ /\ call[c].stage = "waiting" /\ call[c].server = s /\ call[c].index = i
                        /\ Notified(s, i)[c].stage = "notified" /\ Notified(s, i)[c].server = s
                        /\ Notified(s, i)[c].term = call[c].term
          BY Zenon, <1>1, NotifiedCalls
        <4> QED BY Zenon, <4>1
      <3>2. call'[d] = x
        BY Zenon, <2>3
      <3> HIDE DEF x
      <3> QED BY Zenon, <1>8, <2>1, <3>1, <3>2 DEF Moves, Woken
    <2> QED BY Zenon, <2>1, <2>2, <2>3
  <1>9. ASSUME NEW s \in Server, Restart(s)
        PROVE  Moves(d)
    <2>1. UNCHANGED <<op, since>> /\ (call'[d] = call[d] \/ call'[d] = Failed(s))
      BY Zenon, <1>9 DEF Restart
    <2>2. Failed(s).stage = "failed" /\ Failed(s).term = 0
      BY Zenon, CallTypes DEF AtStage
    <2> QED BY Zenon, <2>1, <2>2 DEF Moves, Settled
  <1>10. CASE UNCHANGED vars
    BY Zenon, <1>2, <1>10 DEF vars
  <1> QED BY Zenon, <1>1, <1>3, <1>4, <1>5, <1>6, <1>7, <1>8, <1>9, <1>10, ClerkCalls,
             HandlerCalls DEF Next

\* A term is led after its election, by one server.
LEMMA TermStep ==
    ASSUME ReplicaInv, BaseInv', TermInv, [Next]_vars
    PROVE  TermInv'
  <1> USE DEF clerkVars, electVars, raftVars, serverVars
  <1>1. BaseInv
    BY Zenon DEF ReplicaInv
  <1>2. term \in Nat /\ \A t \in Server : lead[t] \in Nat /\ lead[t] <= term
    <2>1. term \in 0..MaxTerm /\ \A t \in Server : lead[t] \in 0..MaxTerm
      BY Zenon, <1>1, BaseFacts
    <2>2. \A t \in Server : lead[t] <= term
      BY Zenon DEF TermInv
    <2> QED BY <2>1, <2>2, Bounds
  <1>3. ASSUME NEW s \in Server, Elect(s)
        PROVE  term' = term + 1 /\ \A t \in Server : lead'[t] = lead[t] \/ lead'[t] = term + 1
    BY Zenon, <1>1, <1>3, BaseFacts DEF Elect
  <1>4. ASSUME NEW s \in Server, StepDown(s) \/ TakeBatch(s) \/ Restart(s)
        PROVE  term' = term /\ \A t \in Server : lead'[t] = lead[t] \/ lead'[t] = 0
    BY ZenonT(60), <1>1, <1>4, BaseFacts DEF StepDown, TakeBatch, Restart
  <1>5. ASSUME NEW s \in Server, \/ Commit(s) \/ SendSnapshot(s) \/ InstallSnapshot(s)
                                 \/ HandOver(s) \/ SaveInstalled(s)
        PROVE  UNCHANGED <<term, lead>>
    BY Zenon, <1>5 DEF Commit, SendSnapshot, InstallSnapshot, HandOver, SaveInstalled
  <1>6. ASSUME NEW s \in Server, Receive(s) \/ Compact(s) \/ LoadSnapshot(s)
        PROVE  UNCHANGED <<term, lead>>
    BY Zenon, <1>6 DEF Receive, Compact, LoadSnapshot, ApplyRest
  <1>7. ASSUME NEW c \in Clerk,
               \/ \E o \in Op : Begin(c, o)
               \/ TimeOut(c) \/ CallFails(c) \/ Return(c)
               \/ CheckLeader(c) \/ AnswerDuplicate(c) \/ Confirm(c) \/ ReadDb(c)
        PROVE  UNCHANGED <<term, lead>>
    BY Zenon, <1>1, <1>7, ClerkTypes, HandlerTypes
  <1>8. ASSUME NEW c \in Clerk, Submit(c)
        PROVE  UNCHANGED <<term, lead>>
    BY Zenon, <1>8 DEF Submit, HandlerRest
  <1>9. ASSUME NEW r \in stray, StraySubmit(r) \/ StrayEnds(r)
        PROVE  UNCHANGED <<term, lead>>
    BY Zenon, <1>9 DEF StraySubmit, StrayEnds, HandlerRest
  <1>10. ASSUME UNCHANGED vars
         PROVE  UNCHANGED <<term, lead>>
    BY Zenon, <1>10 DEF vars
  <1>11. \/ UNCHANGED <<term, lead>>
         \/ term' = term /\ \A t \in Server : lead'[t] = lead[t] \/ lead'[t] = 0
         \/ term' = term + 1 /\ \A t \in Server : lead'[t] = lead[t] \/ lead'[t] = term + 1
    BY Zenon, <1>3, <1>4, <1>5, <1>6, <1>7, <1>8, <1>9, <1>10 DEF Next
  <1>12. term' \in Nat /\ term <= term' /\ \A t \in Server : lead'[t] <= term'
    BY <1>2, <1>11
  <1>13. ASSUME NEW d \in Clerk
         PROVE  /\ call'[d].term <= term'
                /\ call'[d].stage \in {"waiting", "notified"} => call'[d].term > 0
    <2>1. /\ call[d].term \in Nat /\ call[d].term <= term /\ call[d].server \in Server
          /\ call[d].stage \in {"waiting", "notified"} => call[d].term > 0
      BY Zenon, <1>1, ClerkNumbers DEF TermInv
    <2>2. call[d].term <= term' /\ 0 <= term'
      BY SMTT(60), <1>2, <1>12, <2>1
    <2>3. CASE Settled(d)
      BY Zenon, <2>2, <2>3 DEF Settled
    <2>4. CASE call'[d] = call[d] \/ Woken(d)
      BY Zenon, <2>1, <2>2, <2>4 DEF Woken
    <2>5. CASE Placed(d)
      <3>1. lead[call[d].server] <= term' /\ lead[call[d].server] \in Nat
        BY SMTT(60), <1>2, <1>12, <2>1
      <3>2. lead[call[d].server] # 0 => lead[call[d].server] > 0
        BY SMTT(60), <3>1
      <3> QED BY Zenon, <2>5, <3>1, <3>2 DEF Placed
    <2>6. CASE Answered(d)
      BY Zenon, <2>2, <2>6 DEF Answered
    <2> QED BY Zenon, <1>1, <2>3, <2>4, <2>5, <2>6, CallStep DEF Moves
  <1> QED BY Zenon, <1>12, <1>13 DEF TermInv

\* What was performed and seen stays so.
LEMMA SeenGrows ==
    ASSUME BaseInv, BaseInv', Grows, NEW o
    PROVE  /\ Performed(o) => \E i \in 1..Len(committed') : committed'[i].op = o
           /\ \A n \in Nat : \A v : SeenSince(n, o, v) =>
                 \E m \in n..Len(committed') : v = replay'[m + 1].db[o.key]
  <1>1. Len(committed) \in Nat /\ Len(committed') \in Int /\ Len(committed) <= Len(committed')
    BY SMTT(60), BaseFacts DEF Grows
  <1>2. \A i \in 1..Len(committed) : i \in 1..Len(committed')
    BY <1>1
  <1>3. Performed(o) => \E i \in 1..Len(committed') : committed'[i].op = o
    BY Zenon, <1>2 DEF Performed, Grows
  <1>4. ASSUME NEW n \in Nat, NEW v, SeenSince(n, o, v)
        PROVE  \E m \in n..Len(committed') : v = replay'[m + 1].db[o.key]
    <2>1. PICK m \in n..Len(committed) : v = replay[m + 1].db[o.key]
      BY Zenon, <1>4 DEF SeenSince
    <2>2. m \in 0..Len(committed) /\ m \in n..Len(committed')
      BY SMTT(60), <1>1
    <2>3. replay'[m + 1] = replay[m + 1]
      BY Zenon, <2>2 DEF Grows
    <2> QED BY Zenon, <2>1, <2>2, <2>3
  <1> QED BY Zenon, <1>3, <1>4

\* A call that does not move.
LEMMA AnswerKept ==
    ASSUME ReplicaInv, BaseInv', TermInv, [Next]_vars, NEW d \in Clerk, AnswerOk(d),
           call'[d] = call[d], op'[d] = op[d], since'[d] = since[d]
    PROVE  AnswerOk(d)'
  <1> DEFINE s == call[d].server
             g == call[d].stage
  <1>1. BaseInv /\ Grows
    BY Zenon, HistoryStep DEF ReplicaInv
  <1>2. /\ s \in Server /\ since[d] \in Nat /\ call[d].index \in Nat /\ call[d].term \in Nat
        /\ g # "none" => op[d] \in Op
    BY Zenon, <1>1, ClerkNumbers
  <1>3. ASSUME g \in {"waiting", "notified", "confirmed"}
        PROVE  Keeps(s)
    <2>1. ASSUME Restart(s)
          PROVE  FALSE
      <3>1. call'[d] = Failed(s)
        BY Zenon, <1>3, <2>1 DEF Restart
      <3>2. Failed(s).stage = "failed"
        BY Zenon, <1>2, CallTypes DEF AtStage
      <3> QED BY Zenon, <1>3, <3>1, <3>2
    <2> QED BY Zenon, <1>2, <2>1, KeepsStep
  <1>4. ASSUME g \in {"waiting", "notified"}, lead'[s] = call[d].term
        PROVE  lead'[s] = lead[s] /\ StillLeader(d) /\ lead[s] # 0
    <2>1. call[d].term > 0 /\ call[d].term <= term
      BY Zenon, <1>4 DEF TermInv
    <2>2. lead'[s] = lead[s] \/ lead'[s] = 0 \/ lead'[s] > term
      BY Zenon, <1>3, <1>4 DEF Keeps, KeepsTerm
    <2>3. term \in Nat
      <3>1. term \in 0..MaxTerm
        BY Zenon, <1>1, BaseFacts
      <3> QED BY SMTT(60), <3>1, Bounds
    <2>4. lead'[s] = lead[s] /\ lead[s] = call[d].term /\ lead[s] # 0
      BY SMTT(60), <1>2, <1>4, <2>1, <2>2, <2>3
    <2> QED BY Zenon, <2>4 DEF StillLeader
  <1>5. ASSUME g = "waiting", lead'[s] = call[d].term
        PROVE  Stands(s, call[d].index, op[d])'
    <2>1. Stands(s, call[d].index, op[d])
      BY Zenon, <1>4, <1>5 DEF AnswerOk
    <2>2. op[d] \in Op
      BY Zenon, <1>2, <1>5
    <2>3. \A i \in Nat, o \in Op : Stands(s, i, o) => (i <= snapshotIndex[s] \/ Intact(s, i, o))'
      BY Zenon, <1>3, <1>4, <1>5 DEF Keeps, KeepsLog, Stands
    <2>4. (call[d].index <= snapshotIndex[s] \/ Intact(s, call[d].index, op[d]))'
      BY Zenon, <1>2, <2>1, <2>2, <2>3 DEF Intact
    <2> QED BY Zenon, <2>4 DEF Stands
  <1>6. ASSUME AppliedAt(s, op[d]), g \in {"notified", "confirmed"}
        PROVE  AppliedAt(s, op[d])'
    <2>1. op[d] \in Op
      BY Zenon, <1>2, <1>6
    <2>2. \A o \in Op : AppliedAt(s, o) => AppliedAt(s, o)'
      BY Zenon, <1>3, <1>6 DEF Keeps, KeepsApplied
    <2> QED BY Zenon, <1>6, <2>1, <2>2 DEF AppliedAt
  <1>7. ASSUME g = "ok"
        PROVE  /\ Performed(op[d])'
               /\ op[d].kind = "Get" => SeenSince(since[d], op[d], call[d].value)'
    <2> DEFINE o == op[d]
               v == call[d].value
    <2>1. Performed(o) /\ (o.kind = "Get" => SeenSince(since[d], o, v))
      BY Zenon, <1>7 DEF AnswerOk
    <2>2. /\ Performed(o) => \E i \in 1..Len(committed') : committed'[i].op = o
          /\ SeenSince(since[d], o, v) =>
                 \E m \in since[d]..Len(committed') : v = replay'[m + 1].db[o.key]
      <3>1. ASSUME NEW u
            PROVE  /\ Performed(u) => \E i \in 1..Len(committed') : committed'[i].op = u
                   /\ \A n \in Nat : \A w : SeenSince(n, u, w) =>
                         \E m \in n..Len(committed') : w = replay'[m + 1].db[u.key]
        BY Zenon, <1>1, SeenGrows
      <3>2. Performed(o) => \E i \in 1..Len(committed') : committed'[i].op = o
        BY Zenon, <3>1
      <3>3. SeenSince(since[d], o, v) =>
                \E m \in since[d]..Len(committed') : v = replay'[m + 1].db[o.key]
        <4>1. \A n \in Nat : \A w : SeenSince(n, o, w) =>
                  \E m \in n..Len(committed') : w = replay'[m + 1].db[o.key]
          BY Zenon, <3>1
        <4>2. since[d] \in Nat
          BY Zenon, <1>2
        <4> QED BY Zenon, <4>1, <4>2
      <3> QED BY SMTT(60), <3>2, <3>3
    <2> QED BY Zenon, <2>1, <2>2 DEF Performed, SeenSince
  <1>8. call'[d].stage = g /\ call'[d].server = s
    BY Zenon
  <1> QED BY Zenon, <1>4, <1>5, <1>6, <1>7, <1>8 DEF AnswerOk, StillLeader

\* Start puts the command behind everything that was applied.
LEMMA AnswerPlaced ==
    ASSUME BaseInv, NEW d \in Clerk, Placed(d), op'[d] = op[d]
    PROVE  AnswerOk(d)'
  <1> DEFINE s == call[d].server
             i == Len(rlog[s]) + 1
             o == op[d]
  <1>1. s \in Server /\ o \in Op /\ lead[s] # 0
    BY Zenon, ClerkNumbers DEF Placed, Submit
  <1>2. Start(s, o) /\ UNCHANGED <<committed, lastApplied>>
    BY Zenon DEF Placed, Submit, HandlerRest, raftVars
  <1>3. Len(rlog'[s]) = i /\ rlog'[s][i].op = o
    BY Zenon, <1>1, <1>2, StartFacts
  <1>4. i \in 1..Len(rlog'[s]) /\ ~ (i <= lastApplied'[s])
    <2>1. Len(rlog[s]) \in Nat /\ lastApplied[s] \in Nat /\ lastApplied[s] <= Len(rlog[s])
      BY Zenon, <1>1, BaseFacts DEF BaseInv, LogBounds, ServerBounds, Within
    <2>2. lastApplied'[s] = lastApplied[s]
      BY Zenon, <1>2
    <2> HIDE DEF s
    <2> QED BY SMTT(60), <1>3, <2>1, <2>2
  <1>5. call'[d].stage = "waiting" /\ call'[d].server = s /\ call'[d].index = i
    BY Zenon DEF Placed
  <1> HIDE DEF s, i, o
  <1>6. op'[d] = o
    BY Zenon DEF o
  <1>7. /\ call'[d].index \in 1..Len(rlog'[call'[d].server])
        /\ rlog'[call'[d].server][call'[d].index].op = op'[d]
        /\ ~ (call'[d].index <= lastApplied'[call'[d].server])
    BY Zenon, <1>3, <1>4, <1>5, <1>6
  <1>8. Stands(call[d].server, call[d].index, op[d])'
    BY Zenon, <1>7 DEF Stands, Intact
  <1> QED BY Zenon, <1>5, <1>8 DEF AnswerOk

\* applyDaemon wakes the handler that waits for the index it has applied: unless the server
\* has lost its term, the command there is the handler's own.
LEMMA AnswerWoken ==
    ASSUME ReplicaInv, NEW d \in Clerk, AnswerOk(d), Woken(d), op'[d] = op[d]
    PROVE  AnswerOk(d)'
  <1> USE DEF clerkVars, electVars, ApplyRest
  <1> DEFINE s == call[d].server
             i == call[d].index
             o == op[d]
             N == Len(committed)
  <1>1. BaseInv /\ ReplayInv /\ DupCovers
    BY Zenon DEF ReplicaInv
  <1>2. s \in Server /\ i \in Nat /\ o \in Op
    BY Zenon, <1>1, ClerkNumbers DEF Woken
  <1>3. /\ ServerInv(s) /\ kv[s] \in KV /\ kv[s].index \in Nat /\ snapshotIndex[s] \in Nat
        /\ lastApplied[s] \in Nat /\ N \in Nat
    BY Zenon, <1>1, <1>2, ServerNumbers DEF ReplicaInv
  <1>4. /\ call[d].stage = "waiting" /\ call'[d].stage = "notified"
        /\ call'[d].server = s /\ call'[d].term = call[d].term
    BY Zenon DEF Woken
  <1>5. UNCHANGED <<lead, committed, replay, lastApplied>>
    <2>1. CASE Receive(s)
      BY Zenon, <1>2, <2>1, ReceiveFacts
    <2>2. CASE Compact(s)
      BY Zenon, <2>2 DEF Compact
    <2> QED BY Zenon, <2>1, <2>2 DEF Woken
  <1>6. ASSUME StillLeader(d), i > snapshotIndex[s], i <= lastApplied[s]
        PROVE  committed[i].op = o /\ i \in 1..lastApplied[s]
    <2>1. ~ (i <= snapshotIndex[s])
      BY SMTT(60), <1>2, <1>3, <1>6
    <2>2. Intact(s, i, o)
      BY Zenon, <1>4, <1>6, <2>1 DEF AnswerOk, Stands
    <2>3. i \in 1..Len(rlog[s]) /\ committed[i].op = o
      BY Zenon, <1>6, <2>2 DEF Intact
    <2> QED BY SMTT(60), <1>3, <1>6, <2>3
  <1>7. ASSUME NEW e \in Nat, call' = Notified(s, e)
        PROVE  e = i
    <2>1. call'[d] # call[d]
      BY Zenon, <1>4
    <2>2. Notified(s, e)[d] = call[d] \/ call[d].index = e
      BY Zenon DEF Notified
    <2> QED BY Zenon, <1>7, <2>1, <2>2
  <1>8. ASSUME StillLeader(d)
        PROVE  /\ committed[i].op = o /\ i \in 1..lastApplied[s] /\ daemon'[s].at # "install"
               /\ \E n \in i..N : Holds(kv'[s], n, replay)
    <2>1. CASE Receive(s)
      <3>1. PICK e \in 1..lastApplied[s] :
                 /\ e \in 1..N
                 /\ \/ UNCHANGED call
                    \/ /\ e > kv[s].index
                       /\ kv'[s].db = Applied(kv[s], committed[e].op).db
                       /\ kv'[s].duplicate = Applied(kv[s], committed[e].op).duplicate
                       /\ daemon'[s].at # "install"
                       /\ call' = call \/ call' = Notified(s, e)
                       /\ \E n \in 0..N : Holds(kv[s], n, replay) /\ e <= n + 1
        BY Zenon, <1>2, <2>1, ReceiveFacts
      <3>2. call' # call
        BY Zenon, <1>4
      <3>3. e \in Nat /\ e <= lastApplied[s]
        BY SMTT(60), <1>3
      <3>4. e = i /\ e > kv[s].index /\ daemon'[s].at # "install"
        BY Zenon, <1>7, <3>1, <3>2, <3>3
      <3>5. snapshotIndex[s] <= kv[s].index
        <4>1. daemon[s].at = "receive"
          BY Zenon, <1>2, <2>1, ReceiveFacts
        <4> QED BY Zenon, <1>3, <4>1 DEF ServerInv, DaemonInv
      <3>6. e > snapshotIndex[s]
        BY SMTT(60), <1>3, <3>3, <3>4, <3>5
      <3>7. committed[i].op = o /\ i \in 1..lastApplied[s]
        BY Zenon, <1>6, <1>8, <3>3, <3>4, <3>6
      <3>8. PICK n \in 0..N : Holds(kv[s], n, replay) /\ e <= n + 1
        BY Zenon, <3>1, <3>2
      <3>9. 0 \in Nat /\ n \in 0..N
        BY SMTT(60)
      <3>10. PICK m \in e..N : Holds(Applied(kv[s], committed[e].op), m, replay)
        BY Zenon, <1>1, <1>3, <3>1, <3>8, <3>9, AdvanceCovers
      <3>11. Holds(kv'[s], m, replay)
        BY Zenon, <3>1, <3>2, <3>10 DEF Holds
      <3> QED BY Zenon, <3>4, <3>7, <3>10, <3>11
    <2>2. CASE Compact(s)
      <3>1. /\ daemon[s].at = "compact" /\ call' = Notified(s, daemon[s].index)
            /\ daemon'[s] = Idle /\ UNCHANGED kv
        BY Zenon, <1>1, <1>2, <2>2, BaseFacts DEF Compact
      <3>2. daemon[s].index \in Nat
        BY Zenon, <1>1, <1>2, ServerNumbers
      <3>3. i = daemon[s].index
        BY Zenon, <1>7, <3>1, <3>2
      <3>4. i = kv[s].index /\ i <= lastApplied[s] /\ i > snapshotIndex[s]
        BY Zenon, <1>3, <3>1, <3>3 DEF ServerInv, DaemonInv
      <3>5. \E n \in kv[s].index..N : Holds(kv[s], n, replay)
        BY Zenon, <1>3 DEF ServerInv, DaemonInv, ReplicaOf
      <3>6. daemon'[s].at # "install"
        BY Zenon, <3>1, DaemonPlaces
      <3>7. committed[i].op = o /\ i \in 1..lastApplied[s]
        BY Zenon, <1>6, <1>8, <3>4
      <3> QED BY Zenon, <3>1, <3>4, <3>5, <3>6, <3>7
    <2> QED BY Zenon, <2>1, <2>2 DEF Woken
  <1>9. StillLeader(d)' => StillLeader(d)
    BY Zenon, <1>4, <1>5 DEF StillLeader
  <1>10. StillLeader(d) => AppliedAt(s, o)'
    BY Zenon, <1>4, <1>5, <1>8 DEF AppliedAt
  <1> QED BY Zenon, <1>4, <1>9, <1>10 DEF AnswerOk, AppliedAt

\* A committed command of a call came after the call began.
LEMMA CommittedSince ==
    ASSUME ReplicaInv, SinceInv, NEW d \in Clerk, op[d] # None,
           NEW i \in 1..Len(committed), committed[i].op = op[d]
    PROVE  since[d] \in Nat /\ i \in Nat /\ since[d] < i
  <1>1. since[d] \in Nat
    BY Zenon, ClerkNumbers DEF ReplicaInv
  <1>2. i \notin 1..since[d]
    BY Zenon DEF SinceInv
  <1> QED BY SMTT(60), <1>1, <1>2

\* What an answer from the table of duplicates rests on: the command of this very call.
LEMMA DuplicateAnswer ==
    ASSUME ReplicaInv, DupSource, OpsKnown, SinceInv, NEW d \in Clerk, AnswerDuplicate(d)
    PROVE  /\ Performed(op[d])
           /\ op[d].kind = "Get" =>
                 SeenSince(since[d], op[d], kv[call[d].server].duplicate[d].value)
  <1> DEFINE s == call[d].server
             o == op[d]
             N == Len(committed)
             e == kv[s].duplicate[d]
  <1>1. BaseInv
    BY Zenon DEF ReplicaInv
  <1>2. /\ s \in Server /\ o \in Op /\ o # None /\ o.client = d /\ o.seq = seq[d]
        /\ seq[d] \in Nat
    <2>1. call[d].stage # "none"
      BY Zenon DEF AnswerDuplicate
    <2> QED BY Zenon, <1>1, <2>1, ClerkNumbers
  <1>3. ReplicaOf(kv[s], N, replay) /\ kv[s] \in KV /\ kv[s].index \in Nat /\ N \in Nat
    BY Zenon, <1>1, <1>2, ServerNumbers DEF ReplicaInv, ServerInv, DaemonInv
  <1>4. PICK n \in kv[s].index..N : Holds(kv[s], n, replay)
    BY Zenon, <1>3 DEF ReplicaOf
  <1>5. n \in 0..N /\ n \in Nat
    BY SMTT(60), <1>3
  <1>6. replay[n + 1].duplicate[d] = e
    BY Zenon, <1>4 DEF Holds
  <1>7. o.seq <= e.seq /\ e.seq \in Nat /\ o.seq \in 1..MaxSeq
    <2>1. Duplicate(s, o)
      BY Zenon DEF AnswerDuplicate
    <2> QED BY Zenon, <1>2, <1>3, <2>1, KVFields, AppliedFields DEF Duplicate
  <1> HIDE DEF s, e
  <1>8. e.seq > 0 /\ ~ (e.seq < seq[d])
    BY SMTT(60), <1>2, <1>7, Bounds
  <1>9. PICK i \in 1..n : IsSource(i, d, e)
    BY Zenon, <1>5, <1>6, <1>8 DEF DupSource
  <1> DEFINE u == committed[i].op
  <1>10. i \in 1..N /\ i - 1 \in Nat /\ (i - 1) + 1 = i /\ i - 1 <= N /\ i \in Nat
    BY SMTT(60), <1>3, <1>5
  <1>11. /\ u \in Op /\ u.client = d /\ u.seq = e.seq
         /\ u.kind = "Get" => e.value = replay[i].db[u.key]
    BY Zenon, <1>1, <1>9, <1>10, BaseFacts DEF IsSource
  <1>12. u = o
    <2>1. Known(u)
      BY Zenon, <1>10, <1>11 DEF OpsKnown, Mentions
    <2> QED BY Zenon, <1>8, <1>11, <2>1 DEF Known
  <1>13. Performed(o)
    BY Zenon, <1>10, <1>12 DEF Performed
  <1>14. since[d] \in Nat /\ since[d] < i
    BY Zenon, <1>2, <1>10, <1>12, CommittedSince
  <1>15. i - 1 \in since[d]..N
    BY SMTT(60), <1>3, <1>10, <1>14
  <1>16. o.kind = "Get" => e.value = replay[(i - 1) + 1].db[o.key]
    BY Zenon, <1>10, <1>11, <1>12
  <1>17. o.kind = "Get" => SeenSince(since[d], o, e.value)
    BY Zenon, <1>15, <1>16 DEF SeenSince
  <1> QED BY Zenon, <1>13, <1>17 DEF s, e

\* Answers.
LEMMA AnswerGiven ==
    ASSUME ReplicaInv, DupSource, OpsKnown, SinceInv, NEW d \in Clerk, AnswerOk(d), Answered(d)
    PROVE  AnswerOk(d)'
  <1> DEFINE s == call[d].server
             o == op[d]
             N == Len(committed)
  <1>1. BaseInv
    BY Zenon DEF ReplicaInv
  <1>2. UNCHANGED <<op, since, committed, replay, lastApplied, daemon, kv>>
    BY Zenon, <1>1, HandlerTypes DEF Answered, clerkVars, serverVars, raftVars
  <1>3. s \in Server /\ o \in Op /\ o # None /\ call \in [Clerk -> Call]
    <2>1. call[d].stage # "none"
      BY Zenon DEF Answered, AnswerDuplicate, Confirm, ReadDb
    <2> QED BY Zenon, <1>1, <2>1, ClerkNumbers, BaseFacts
  <1>4. lastApplied[s] \in Nat /\ N \in Nat /\ lastApplied[s] <= N
    BY Zenon, <1>1, <1>3, BaseFacts DEF BaseInv, LogBounds, ServerBounds, Within
  <1>5. ASSUME NEW v \in Value, call'[d] = Reply(s, v), Performed(o),
               o.kind = "Get" => SeenSince(since[d], o, v)
        PROVE  AnswerOk(d)'
    <2>1. call'[d].stage = "ok" /\ call'[d].value = v
      <3>1. AtStage(Reply(s, v), "ok", s) /\ Reply(s, v).value = v
        BY Zenon, <1>3, CallTypes
      <3> QED BY Zenon, <1>5, <3>1 DEF AtStage
    <2>2. /\ \E i \in 1..Len(committed') : committed'[i].op = op'[d]
          /\ op'[d].kind = "Get" => \E m \in since'[d]..Len(committed') :
                                        call'[d].value = replay'[m + 1].db[op'[d].key]
      BY Zenon, <1>2, <1>5, <2>1 DEF Performed, SeenSince
    <2> QED BY Zenon, <2>1, <2>2 DEF AnswerOk, Performed, SeenSince
  <1>6. ASSUME NEW j \in 1..lastApplied[s], committed[j].op = o
        PROVE  Performed(o) /\ since[d] \in Nat /\ j \in Nat /\ since[d] < j
    <2>1. j \in 1..N
      BY <1>4
    <2> QED BY Zenon, <1>3, <1>6, <2>1, CommittedSince DEF Performed
  <1>7. CASE AnswerDuplicate(d)
    <2> DEFINE v == kv[s].duplicate[d].value
    <2>1. call'[d] = Reply(s, v)
      BY Zenon, <1>3, <1>7 DEF AnswerDuplicate
    <2>2. v \in Value
      <3>1. kv[s] \in KV
        BY Zenon, <1>1, <1>3, BaseFacts
      <3> QED BY SMTT(60), <3>1 DEF KV
    <2> QED BY Zenon, <1>5, <1>7, <2>1, <2>2, DuplicateAnswer
  <1>8. CASE Confirm(d) /\ StillLeader(d)
    <2>1. AppliedAt(s, o)
      BY Zenon, <1>8 DEF Confirm, AnswerOk
    <2>2. CASE o.kind # "Get"
      <3>1. call'[d] = Reply(s, <<>>) /\ <<>> \in Value
        BY Zenon, <1>3, <1>8, <2>2, CallTypes DEF Confirm
      <3>2. Performed(o)
        BY Zenon, <1>6, <2>1 DEF AppliedAt
      <3> QED BY Zenon, <1>5, <2>2, <3>1, <3>2
    <2>3. CASE o.kind = "Get"
      <3> DEFINE x == [Sent(s) EXCEPT !.stage = "confirmed"]
      <3>1. call'[d] = x
        BY Zenon, <1>3, <1>8, <2>3 DEF Confirm
      <3>2. AtStage(x, "confirmed", s)
        BY Zenon, <1>3, CallTypes
      <3> HIDE DEF x
      <3>3. call'[d].stage = "confirmed" /\ call'[d].server = s
        BY Zenon, <3>1, <3>2 DEF AtStage
      <3>4. op'[d].kind = "Get" /\ AppliedAt(call[d].server, op[d])'
        BY Zenon, <1>2, <2>1, <2>3, <3>3 DEF AppliedAt
      <3> QED BY Zenon, <3>3, <3>4 DEF AnswerOk
    <2> QED BY SMTT(60), <2>2, <2>3
  <1>9. CASE ReadDb(d)
    <2> DEFINE v == kv[s].db[o.key]
    <2>1. call'[d] = Reply(s, v) /\ AppliedAt(s, o)
      BY Zenon, <1>3, <1>9 DEF ReadDb, AnswerOk
    <2>2. v \in Value
      <3>1. kv[s] \in KV /\ o.key \in Key
        BY Zenon, <1>1, <1>3, BaseFacts, AppliedFields
      <3> HIDE DEF o
      <3> QED BY SMTT(60), <3>1 DEF KV
    <2>3. PICK j \in 1..lastApplied[s] :
              committed[j].op = o /\ \E n \in j..N : Holds(kv[s], n, replay)
      BY Zenon, <2>1 DEF AppliedAt
    <2>4. PICK n \in j..N : Holds(kv[s], n, replay)
      BY Zenon, <2>3
    <2>5. Performed(o) /\ since[d] \in Nat /\ j \in Nat /\ since[d] < j
      BY Zenon, <1>6, <2>3
    <2>6. n \in since[d]..N
      BY SMTT(60), <1>4, <2>5
    <2>7. v = replay[n + 1].db[o.key]
      BY Zenon, <2>4 DEF Holds
    <2>8. SeenSince(since[d], o, v)
      BY Zenon, <2>6, <2>7 DEF SeenSince
    <2> QED BY Zenon, <1>5, <2>1, <2>2, <2>5, <2>8
  <1> QED BY Zenon, <1>7, <1>8, <1>9 DEF Answered

\* The invariant holds of every reachable state, unless a snapshot may reach a server that
\* is ahead of it.
LEMMA LinStep ==
    ASSUME ~ Rollback, LinInv, [Next]_vars
    PROVE  LinInv'
  <1>1. /\ ReplicaInv /\ DupSource /\ OpsKnown /\ SinceInv /\ SeqInv /\ TermInv
        /\ \A c \in Clerk : AnswerOk(c)
    BY Zenon DEF LinInv
  <1>2. ReplicaInv'
    BY SMTT(60), <1>1, ReplicaStep
  <1>3. BaseInv /\ BaseInv'
    BY Zenon, <1>1, <1>2 DEF ReplicaInv
  <1>4. DupSource' /\ OpsKnown' /\ SinceInv'
    BY <1>1, <1>3, DupSourceStep, KnownStep, SinceStep
  <1>5. SeqInv' /\ TermInv'
    BY <1>1, <1>3, SeqStep, TermStep
  <1>6. ASSUME NEW d \in Clerk
        PROVE  AnswerOk(d)'
    <2>1. Moves(d)
      BY <1>1, <1>3, CallStep
    <2>2. CASE Settled(d)
      BY Zenon, <2>2 DEF Settled, AnswerOk
    <2>3. CASE op'[d] = op[d] /\ since'[d] = since[d] /\ call'[d] = call[d]
      BY Zenon, <1>1, <1>3, <2>3, AnswerKept
    <2>4. CASE Placed(d) /\ op'[d] = op[d]
      BY Zenon, <1>3, <2>4, AnswerPlaced
    <2>5. CASE Woken(d) /\ op'[d] = op[d]
      BY Zenon, <1>1, <2>5, AnswerWoken
    <2>6. CASE Answered(d)
      BY Zenon, <1>1, <2>6, AnswerGiven
    <2> QED BY Zenon, <2>1, <2>2, <2>3, <2>4, <2>5, <2>6 DEF Moves
  <1> QED BY Zenon, <1>2, <1>4, <1>5, <1>6 DEF LinInv

\* It holds at the start: nothing is called, logged or committed.
LEMMA InitLin == Init => LinInv
  <1> SUFFICES ASSUME Init PROVE LinInv
    OBVIOUS
  <1> USE DEF Init, Booted
  <1>1. ReplicaInv
    BY SMTT(60), InitReplicas
  <1>2. Len(committed) = 0 /\ \A s \in Server : Len(rlog[s]) = 0
    BY SMTT(60), EmptySeq
  <1>3. \A i \in 1..0 : FALSE
    BY SMTT(60)
  <1>4. \A c \in Clerk : op[c] = None /\ call[c] = NoCall /\ seq[c] = 1
    BY Zenon
  <1>5. NoCall.stage = "none" /\ NoCall.term = 0
    BY Zenon, CallTypes, Bounds DEF AtStage
  <1>6. DupSource
    <2>1. \A c \in Clerk : ~ (NewKV.duplicate[c].seq > 0)
      BY SMTT(60) DEF NewKV
    <2>2. replay[1] = NewKV /\ \A n \in 0..0 : n + 1 = 1
      <3>1. replay[1] = NewKV
        BY Zenon, <1>1 DEF ReplicaInv, ReplayInv
      <3> QED BY SMTT(60), <3>1
    <2> QED BY ZenonT(60), <1>2, <2>1, <2>2 DEF DupSource
  <1>7. OpsKnown
    BY Zenon, <1>2, <1>3 DEF OpsKnown, Mentions
  <1>8. SinceInv
    BY Zenon, <1>4 DEF SinceInv
  <1>9. SeqInv
    <2>1. \A c \in Clerk : 1 <= NewKV.duplicate[c].seq + 1
      BY SMTT(60) DEF NewKV
    <2>2. replay[0 + 1] = NewKV
      <3>1. replay[1] = NewKV
        BY Zenon, <1>1 DEF ReplicaInv, ReplayInv
      <3> QED BY SMTT(60), <3>1
    <2> QED BY Zenon, <1>2, <1>4, <2>1, <2>2 DEF SeqInv
  <1>10. TermInv
    <2>1. 0 <= 0
      BY SMTT(60)
    <2> QED BY Zenon, <1>4, <1>5, <2>1 DEF TermInv
  <1>11. \A c \in Clerk : AnswerOk(c)
    BY Zenon, <1>4, <1>5 DEF AnswerOk
  <1> QED BY Zenon, <1>1, <1>6, <1>7, <1>8, <1>9, <1>10, <1>11 DEF LinInv
-----------------------------------------------------------------------------
(* The store                                                               *)

\* The variables of the store, as Store maps them.
StoreNow == Replay(Len(committed)).db
DoneNow ==
    [c \in Clerk |-> /\ op[c] # None /\ op[c].kind # "Get"
                     /\ \E i \in DOMAIN committed : committed[i].op = op[c]]
SeenNow ==
    [c \in Clerk |-> IF op[c] = None THEN {}
                     ELSE {Replay(n).db[op[c].key] : n \in since[c]..Len(committed)}]

\* The entries of DoneNow and SeenNow for a call o made after k commands.
DoneOf(o, cs) == o # None /\ o.kind # "Get" /\ \E i \in DOMAIN cs : cs[i].op = o
SeenOf(o, k, rs, n) == IF o = None THEN {} ELSE {rs[m + 1].db[o.key] : m \in k..n}

\* DoneNow and SeenNow, entry by entry, before and after a step.
LEMMA StoreEntries ==
    ASSUME NEW c \in Clerk
    PROVE  /\ DoneNow[c] = DoneOf(op[c], committed)
           /\ DoneNow'[c] = DoneOf(op'[c], committed')
           /\ SeenNow[c] = SeenOf(op[c], since[c], replay, Len(committed))
           /\ SeenNow'[c] = SeenOf(op'[c], since'[c], replay', Len(committed'))
  <1>1. DoneNow[c] = DoneOf(op[c], committed)
    BY Zenon DEF DoneNow, DoneOf
  <1>2. DoneNow'[c] = DoneOf(op'[c], committed')
    BY Zenon DEF DoneNow, DoneOf
  <1>3. SeenNow[c] = SeenOf(op[c], since[c], replay, Len(committed))
    BY Zenon DEF SeenNow, SeenOf, Replay
  <1>4. SeenNow'[c] = SeenOf(op'[c], since'[c], replay', Len(committed'))
    BY Zenon DEF SeenNow, SeenOf, Replay
  <1> QED BY SMTT(60), <1>1, <1>2, <1>3, <1>4

\* The entry of a clerk whose call stands, when nothing is committed.
LEMMA EntryStands ==
    ASSUME NEW c \in Clerk, op'[c] = op[c], since'[c] = since[c],
           committed' = committed, replay' = replay
    PROVE  DoneNow'[c] = DoneNow[c] /\ SeenNow'[c] = SeenNow[c]
  <1>1. DoneOf(op'[c], committed') = DoneOf(op[c], committed)
    BY Zenon
  <1>2. SeenOf(op'[c], since'[c], replay', Len(committed'))
            = SeenOf(op[c], since[c], replay, Len(committed))
    BY Zenon
  <1> QED BY Zenon, <1>1, <1>2, StoreEntries

\* Steps that leave the history and the calls of the clerks.
LEMMA StoreStutters ==
    ASSUME HistoryStands, UNCHANGED <<op, since, result>>
    PROVE  UNCHANGED Store!vars
  BY ZenonT(60) DEF Store!vars, HistoryStands, Replay

\* A write that has been committed is done, and no other.
LEMMA DoneFacts ==
    ASSUME BaseInv, NEW c \in Clerk
    PROVE  DoneNow[c] <=> op[c] # None /\ op[c].kind # "Get" /\ Performed(op[c])
  <1>1. DOMAIN committed = 1..Len(committed)
    BY SMTT(60), BaseFacts, LenProperties
  <1> QED BY Zenon, <1>1 DEF DoneNow, Performed

\* A call begins: its command is not committed yet.
LEMMA BeginStore ==
    ASSUME LinInv, LinInv', NEW c \in Clerk, NEW o \in Op, Begin(c, o)
    PROVE  Store!Call(c, o)
  <1> USE DEF electVars
  <1>1. BaseInv /\ BaseInv' /\ OpsKnown
    BY Zenon DEF LinInv, ReplicaInv
  <1>2. /\ UNCHANGED <<committed, replay, result>> /\ op[c] = None
        /\ o.client = c /\ o.seq = seq[c] /\ op' = [op EXCEPT ![c] = o]
        /\ since' = [since EXCEPT ![c] = Len(committed)]
    BY Zenon DEF Begin
  <1>3. /\ op \in [Clerk -> Op \cup {None}] /\ since \in [Clerk -> 0..MaxLog]
        /\ seq[c] \in Nat /\ Len(committed) \in Nat
    BY Zenon, <1>1, ClerkNumbers, BaseFacts DEF BaseInv, TypeOK
  <1>4. /\ op'[c] = o /\ since'[c] = Len(committed)
        /\ \A d \in Clerk \ {c} : op'[d] = op[d] /\ since'[d] = since[d]
    BY Zenon, <1>2, <1>3
  <1>5. ~ \E i \in DOMAIN committed : committed[i].op = o
    <2>1. DOMAIN committed = 1..Len(committed)
      BY SMTT(60), <1>1, BaseFacts, LenProperties
    <2>2. ASSUME NEW i \in 1..Len(committed), committed[i].op = o
          PROVE  FALSE
      <3>1. Known(o)
        BY Zenon, <1>1, <2>2 DEF OpsKnown, Mentions
      <3>2. seq[c] < seq[c]
        BY Zenon, <1>2, <3>1, NoneAssumption DEF Known
      <3> QED BY SMTT(60), <1>3, <3>2
    <2> QED BY Zenon, <2>1, <2>2
  <1>6. DoneNow' = [DoneNow EXCEPT ![c] = FALSE]
    <2>1. DoneNow'[c] = FALSE
      BY Zenon, <1>2, <1>4, <1>5 DEF DoneNow
    <2>2. \A d \in Clerk \ {c} : DoneNow'[d] = DoneNow[d]
      BY Zenon, <1>2, <1>4, EntryStands
    <2>3. DoneNow = [d \in Clerk |-> DoneNow[d]] /\ DoneNow' = [d \in Clerk |-> DoneNow'[d]]
      BY Zenon DEF DoneNow
    <2> QED BY Zenon, <2>1, <2>2, <2>3
  <1>7. SeenNow' = [SeenNow EXCEPT ![c] = {StoreNow[o.key]}]
    <2>1. o # None
      BY Zenon, NoneAssumption
    <2>2. SeenNow'[c] = {StoreNow[o.key]}
      <3>1. \A n : n \in Len(committed)..Len(committed) <=> n = Len(committed)
        BY SMTT(60), <1>3
      <3>2. SeenNow'[c] = {Replay(n).db[o.key] : n \in Len(committed)..Len(committed)}
        <4>1. SeenNow'[c] = SeenOf(o, Len(committed), replay, Len(committed))
          <5>1. committed' = committed /\ replay' = replay
            BY Zenon, <1>2
          <5> QED BY Zenon, <1>4, <5>1, StoreEntries
        <4> QED BY Zenon, <2>1, <4>1 DEF SeenOf, Replay
      <3> QED BY ZenonT(60), <3>1, <3>2 DEF StoreNow
    <2>3. \A d \in Clerk \ {c} : SeenNow'[d] = SeenNow[d]
      BY Zenon, <1>2, <1>4, EntryStands
    <2>4. SeenNow = [d \in Clerk |-> SeenNow[d]] /\ SeenNow' = [d \in Clerk |-> SeenNow'[d]]
      BY Zenon DEF SeenNow
    <2> QED BY Zenon, <2>2, <2>3, <2>4
  <1>8. UNCHANGED StoreNow
    BY Zenon, <1>2 DEF StoreNow, Replay
  <1> QED BY Zenon, <1>2, <1>6, <1>7, <1>8 DEF Store!Call, StoreNow, DoneNow, SeenNow

\* A call returns: a write has taken effect, and a read its value from the time of the call.
LEMMA ReturnStore ==
    ASSUME LinInv, LinInv', NEW c \in Clerk, Return(c)
    PROVE  Store!Return(c)
  <1> USE DEF electVars
  <1>1. BaseInv /\ AnswerOk(c)
    BY Zenon DEF LinInv, ReplicaInv
  <1>2. /\ UNCHANGED <<committed, replay>> /\ call[c].stage = "ok"
        /\ op' = [op EXCEPT ![c] = None] /\ since' = [since EXCEPT ![c] = 0]
        /\ result' = [result EXCEPT ![c] = IF op[c].kind = "Get" THEN call[c].value ELSE @]
    BY Zenon DEF Return
  <1>3. /\ op \in [Clerk -> Op \cup {None}] /\ since \in [Clerk -> 0..MaxLog]
        /\ op[c] # None /\ result \in [Clerk -> Value]
    BY Zenon, <1>1, <1>2, ClerkNumbers DEF BaseInv, TypeOK
  <1>4. op'[c] = None /\ \A d \in Clerk \ {c} : op'[d] = op[d] /\ since'[d] = since[d]
    BY Zenon, <1>2, <1>3
  <1>5. DoneNow' = [DoneNow EXCEPT ![c] = FALSE]
    <2>1. DoneNow'[c] = FALSE
      BY Zenon, <1>4 DEF DoneNow
    <2>2. \A d \in Clerk \ {c} : DoneNow'[d] = DoneNow[d]
      BY Zenon, <1>2, <1>4, EntryStands
    <2>3. DoneNow = [d \in Clerk |-> DoneNow[d]] /\ DoneNow' = [d \in Clerk |-> DoneNow'[d]]
      BY Zenon DEF DoneNow
    <2> QED BY Zenon, <2>1, <2>2, <2>3
  <1>6. SeenNow' = [SeenNow EXCEPT ![c] = {}]
    <2>1. SeenNow'[c] = {}
      BY Zenon, <1>4, StoreEntries DEF SeenOf
    <2>3. \A d \in Clerk \ {c} : SeenNow'[d] = SeenNow[d]
      BY Zenon, <1>2, <1>4, EntryStands
    <2>2. SeenNow = [d \in Clerk |-> SeenNow[d]] /\ SeenNow' = [d \in Clerk |-> SeenNow'[d]]
      BY Zenon DEF SeenNow
    <2> QED BY Zenon, <2>1, <2>3, <2>2
  <1>7. UNCHANGED StoreNow
    BY Zenon, <1>2 DEF StoreNow, Replay
  <1>8. IF op[c].kind = "Get" THEN \E v \in SeenNow[c] : result' = [result EXCEPT ![c] = v]
                              ELSE DoneNow[c] /\ UNCHANGED result
    <2>1. CASE op[c].kind = "Get"
      <3>1. SeenSince(since[c], op[c], call[c].value)
        BY Zenon, <1>1, <1>2, <2>1 DEF AnswerOk
      <3>2. call[c].value \in SeenNow[c]
        BY Zenon, <1>3, <3>1 DEF SeenNow, SeenSince, Replay
      <3> QED BY Zenon, <1>2, <2>1, <3>2
    <2>2. CASE op[c].kind # "Get"
      <3>1. DoneNow[c]
        BY Zenon, <1>1, <1>2, <1>3, <2>2, DoneFacts DEF AnswerOk
      <3>2. UNCHANGED result
        BY Zenon, <1>2, <1>3, <2>2
      <3> QED BY Zenon, <2>2, <3>1, <3>2
    <2> QED BY SMTT(60), <2>1, <2>2
  <1> QED BY Zenon, <1>2, <1>3, <1>5, <1>6, <1>7, <1>8 DEF Store!Return, StoreNow, DoneNow, SeenNow

\* After one more command a clerk in a call has seen the value it leaves.
LEMMA CommitSeen ==
    ASSUME LinInv, NEW s \in Server, Commit(s), NEW d \in Clerk, op[d] # None
    PROVE  /\ SeenNow'[d] = SeenNow[d] \cup {StoreNow'[op[d].key]}
           /\ StoreNow[op[d].key] \in SeenNow[d]
  <1> DEFINE N == Len(committed)
             k == op[d].key
             b == since[d]
  <1>1. BaseInv /\ ReplayInv /\ SinceInv
    BY Zenon DEF LinInv, ReplicaInv
  <1>2. N \in Nat /\ Len(committed') = N + 1 /\ \A n \in 0..N : replay'[n + 1] = replay[n + 1]
    BY Zenon, <1>1, CommitFacts DEF Grows
  <1>3. op' = op /\ since' = since
    BY Zenon DEF Commit, clerkVars
  <1>4. b \in Nat /\ b <= N
    BY Zenon, <1>1, ClerkNumbers DEF SinceInv
  <1>5. SeenNow[d] = {replay[m + 1].db[k] : m \in b..N}
    BY Zenon, StoreEntries DEF SeenOf
  <1>6. SeenNow'[d] = {replay'[m + 1].db[k] : m \in b..(N + 1)}
    <2>1. SeenNow'[d] = SeenOf(op'[d], since'[d], replay', Len(committed'))
      BY Zenon, StoreEntries
    <2>2. SeenNow'[d] = SeenOf(op[d], b, replay', N + 1)
      BY Zenon, <1>2, <1>3, <2>1
    <2> QED BY Zenon, <2>2 DEF SeenOf
  <1>7. StoreNow = replay[N + 1].db /\ StoreNow' = replay'[(N + 1) + 1].db
    BY Zenon, <1>2 DEF StoreNow, Replay
  <1>8. /\ N \in b..N /\ N + 1 \in b..(N + 1)
        /\ \A m \in b..N : m \in b..(N + 1) /\ m \in 0..N
        /\ \A m \in b..(N + 1) : m \in b..N \/ m = N + 1
    BY SMTT(60), <1>2, <1>4
  <1>9. \A m \in b..N : replay'[m + 1].db[k] = replay[m + 1].db[k]
    BY Zenon, <1>2, <1>8
  <1> HIDE DEF N, k, b
  <1>10. ASSUME NEW v \in SeenNow'[d]
         PROVE  v \in SeenNow[d] \cup {StoreNow'[k]}
    <2>1. PICK m \in b..(N + 1) : v = replay'[m + 1].db[k]
      BY Zenon, <1>6, <1>10
    <2>2. CASE m \in b..N
      BY Zenon, <1>5, <1>9, <2>1, <2>2
    <2>3. CASE m = N + 1
      BY Zenon, <1>7, <2>1, <2>3
    <2> QED BY Zenon, <1>8, <2>2, <2>3
  <1>11. ASSUME NEW v \in SeenNow[d]
         PROVE  v \in SeenNow'[d]
    <2>1. PICK m \in b..N : v = replay[m + 1].db[k]
      BY Zenon, <1>5, <1>11
    <2> QED BY Zenon, <1>6, <1>8, <1>9, <2>1
  <1>12. StoreNow'[k] \in SeenNow'[d]
    BY Zenon, <1>6, <1>7, <1>8
  <1>13. StoreNow[k] \in SeenNow[d]
    BY Zenon, <1>5, <1>7, <1>8
  <1> QED BY Zenon, <1>10, <1>11, <1>12, <1>13 DEF k

\* After one more command o the write of a clerk is done if it was, or if it is o.
LEMMA CommitDone ==
    ASSUME LinInv, NEW s \in Server, Commit(s), NEW d \in Clerk
    PROVE  LET o == rlog[s][Len(committed) + 1].op
           IN DoneNow'[d] <=> DoneNow[d] \/ (op[d] = o /\ o.kind # "Get")
  <1> DEFINE N == Len(committed)
             o == rlog[s][N + 1].op
  <1>1. BaseInv /\ ReplayInv
    BY Zenon DEF LinInv, ReplicaInv
  <1>2. /\ N \in Nat /\ Len(committed') = N + 1 /\ committed'[N + 1].op = o /\ o \in Op
        /\ \A i \in 1..N : committed'[i] = committed[i]
    BY Zenon, <1>1, CommitFacts DEF Grows
  <1>3. op' = op
    BY Zenon DEF Commit, clerkVars
  <1>4. committed \in Seq(LogEntry) /\ committed' \in Seq(LogEntry)
    <2>1. committed' = Append(committed, rlog[s][N + 1]) /\ rlog[s][N + 1] \in LogEntry
      BY Zenon, <1>1, CommitFacts DEF Commit
    <2> QED BY SMTT(60), <1>1, <2>1, BaseFacts, AppendProperties
  <1>5. DOMAIN committed = 1..N /\ DOMAIN committed' = 1..(N + 1)
    BY SMTT(60), <1>2, <1>4, LenProperties
  <1>6. /\ \A i \in 1..(N + 1) : i \in 1..N \/ i = N + 1
        /\ N + 1 \in 1..(N + 1) /\ \A i \in 1..N : i \in 1..(N + 1)
    BY SMTT(60), <1>2
  <1> HIDE DEF N, o
  <1>7. (\E i \in DOMAIN committed' : committed'[i].op = op[d])
            <=> (\E i \in DOMAIN committed : committed[i].op = op[d]) \/ o = op[d]
    BY Zenon, <1>2, <1>5, <1>6
  <1>8. /\ DoneNow[d] = DoneOf(op[d], committed)
        /\ DoneNow'[d] = DoneOf(op'[d], committed')
    BY Zenon, StoreEntries
  <1>9. DoneNow'[d] = DoneOf(op[d], committed')
    BY Zenon, <1>3, <1>8
  <1>10. o # None
    BY Zenon, <1>2, NoneAssumption
  <1> QED BY Zenon, <1>7, <1>8, <1>9, <1>10 DEF DoneOf, o, N

\* A command comes into effect when it is committed for the first time: its clerk is still
\* calling for it then.  Committed again, or a read, it changes nothing.
LEMMA CommitStore ==
    ASSUME LinInv, NEW s \in Server, Commit(s)
    PROVE  (\E c \in Clerk : Store!Perform(c)) \/ UNCHANGED Store!vars
  <1> DEFINE N == Len(committed)
             o == rlog[s][N + 1].op
             r == replay[N + 1]
  <1>1. BaseInv /\ ReplayInv /\ DupCovers /\ DupSource /\ OpsKnown /\ SeqInv
    BY Zenon DEF LinInv, ReplicaInv
  <1>2. /\ N \in Nat /\ o \in Op /\ r \in KV /\ Len(committed') = N + 1
        /\ replay'[(N + 1) + 1] = Applied(r, o)
    BY Zenon, <1>1, CommitFacts
  <1>3. op' = op /\ since' = since /\ result' = result
    BY Zenon DEF Commit, clerkVars
  <1>4. StoreNow = r.db /\ StoreNow' = Applied(r, o).db
    BY Zenon, <1>2 DEF StoreNow, Replay
  <1>5. Known(o)
    <2>1. N < Len(rlog[s]) /\ Len(rlog[s]) \in Nat
      BY Zenon, <1>1, BaseFacts DEF Commit
    <2>2. N + 1 \in 1..Len(rlog[s])
      BY SMTT(60), <1>2, <2>1
    <2> QED BY Zenon, <1>1, <1>2, <2>2 DEF OpsKnown, Mentions
  <1>6. PICK c \in Clerk : c = o.client
    BY Zenon, <1>2, AppliedFields
  <1>7. /\ c = o.client /\ o.key \in Key /\ o.seq \in Nat /\ r.duplicate[c].seq \in Nat
        /\ seq[c] \in Nat /\ seq[c] <= r.duplicate[c].seq + 1 /\ o.seq > 0
    <2>1. o.key \in Key /\ o.seq \in 1..MaxSeq
      BY Zenon, <1>2, AppliedFields
    <2>2. o.seq \in Nat /\ o.seq > 0
      BY SMTT(60), <2>1, Bounds
    <2> QED BY ZenonT(60), <1>1, <1>2, <1>6, <2>1, <2>2, KVFields, ClerkNumbers DEF SeqInv
  <1>8. r.db \in [Key -> Value]
    BY SMTT(60), <1>2 DEF KV
  <1>9. \A d \in Clerk : op[d] # None => op[d] \in Op /\ op[d].client = d /\ op[d].seq = seq[d]
    BY Zenon, <1>1, ClerkNumbers
  <1>10. \A d \in Clerk : DoneNow'[d] <=> DoneNow[d] \/ (op[d] = o /\ o.kind # "Get")
    BY Zenon, CommitDone
  <1>11. \A d \in Clerk : op[d] # None =>
            /\ SeenNow'[d] = SeenNow[d] \cup {StoreNow'[op[d].key]}
            /\ StoreNow[op[d].key] \in SeenNow[d]
    BY Zenon, CommitSeen
  <1>12. \A d \in Clerk : op[d] = None => SeenNow[d] = {} /\ SeenNow'[d] = {}
    BY Zenon, <1>3, StoreEntries DEF SeenOf
  <1>13. /\ SeenNow = [d \in Clerk |-> SeenNow[d]] /\ SeenNow' = [d \in Clerk |-> SeenNow'[d]]
         /\ DoneNow = [d \in Clerk |-> DoneNow[d]] /\ DoneNow' = [d \in Clerk |-> DoneNow'[d]]
         /\ \A d \in Clerk : DoneNow[d] \in BOOLEAN /\ DoneNow'[d] \in BOOLEAN
    BY Zenon DEF SeenNow, DoneNow
  <1> HIDE DEF N, o, r
  <1>14. ASSUME UNCHANGED StoreNow, UNCHANGED DoneNow
         PROVE  UNCHANGED Store!vars
    <2>1. ASSUME NEW d \in Clerk
          PROVE  SeenNow'[d] = SeenNow[d]
      <3>1. CASE op[d] = None
        BY Zenon, <1>12, <3>1
      <3>2. CASE op[d] # None
        <4>1. StoreNow' = StoreNow
          BY Zenon, <1>14
        <4>2. SeenNow'[d] = SeenNow[d] \cup {StoreNow[op[d].key]}
          BY Zenon, <1>11, <3>2, <4>1
        <4>3. StoreNow[op[d].key] \in SeenNow[d]
          BY Zenon, <1>11, <3>2
        <4> QED BY Zenon, <4>2, <4>3
      <3> QED BY Zenon, <3>1, <3>2
    <2>2. UNCHANGED SeenNow
      BY Zenon, <1>13, <2>1
    <2> QED BY Zenon, <1>3, <1>14, <2>2 DEF Store!vars, StoreNow, DoneNow, SeenNow
  <1>15. CASE r.duplicate[c].seq >= o.seq
    <2>1. UNCHANGED StoreNow
      BY Zenon, <1>2, <1>4, <1>7, <1>15, AppliedFields
    <2>2. ASSUME NEW d \in Clerk, op[d] = o, o.kind # "Get"
          PROVE  DoneNow[d]
      <3>1. o # None /\ d = c /\ o.seq = seq[c]
        BY ZenonT(60), <1>2, <1>7, <1>9, <2>2, NoneAssumption
      <3>2. r.duplicate[c].seq > 0 /\ ~ (r.duplicate[c].seq < seq[c])
        BY SMTT(60), <1>7, <1>15, <3>1
      <3>3. N \in 0..N
        BY SMTT(60), <1>2
      <3>4. PICK i \in 1..N : IsSource(i, c, r.duplicate[c])
        BY Zenon, <1>1, <1>7, <3>2, <3>3 DEF DupSource, r, N
      <3> DEFINE u == committed[i].op
      <3>5. u.client = c /\ u.seq = r.duplicate[c].seq
        BY Zenon, <3>4 DEF IsSource
      <3>6. u \in Op /\ Mentions(u)
        BY Zenon, <1>1, BaseFacts DEF Mentions, N
      <3>7. Known(u)
        BY Zenon, <1>1, <3>6 DEF OpsKnown
      <3>8. u.seq < seq[c] \/ op[c] = u
        BY Zenon, <3>5, <3>7 DEF Known
      <3>9. op[c] = u
        BY Zenon, <3>2, <3>5, <3>8
      <3>10. Performed(op[d])
        BY Zenon, <3>1, <3>9 DEF Performed, N
      <3> QED BY Zenon, <1>1, <2>2, <3>1, <3>10, DoneFacts
    <2>3. \A d \in Clerk : DoneNow'[d] <=> DoneNow[d]
      BY Zenon, <1>10, <2>2
    <2>4. \A d \in Clerk : DoneNow'[d] = DoneNow[d]
      BY Zenon, <1>13, <2>3
    <2>5. UNCHANGED DoneNow
      BY Zenon, <1>13, <2>4
    <2> QED BY Zenon, <1>14, <2>1, <2>5
  <1>16. CASE r.duplicate[c].seq < o.seq /\ o.kind = "Get"
    <2>1. UNCHANGED StoreNow
      <3>1. StoreNow' = [r.db EXCEPT ![o.key] = Written(o, @)]
        BY Zenon, <1>2, <1>4, <1>7, <1>16, AppliedFields
      <3>2. Written(o, r.db[o.key]) = r.db[o.key]
        BY <1>16 DEF Written
      <3> QED BY Zenon, <1>4, <1>8, <3>1, <3>2
    <2>2. UNCHANGED DoneNow
      BY ZenonT(60), <1>10, <1>13, <1>16
    <2> QED BY Zenon, <1>14, <2>1, <2>2
  <1>17. CASE r.duplicate[c].seq < o.seq /\ o.kind # "Get"
    <2>1. op[c] = o
      <3>1. ~ (o.seq < seq[c])
        BY SMTT(60), <1>7, <1>17
      <3> QED BY Zenon, <1>5, <1>7, <3>1 DEF Known
    <2>2. ~ DoneNow[c]
      <3>1. SUFFICES ASSUME NEW i \in 1..N, committed[i].op = o
                     PROVE  FALSE
        BY Zenon, <1>1, <1>7, <2>1, DoneFacts DEF Performed, N
      <3>2. N \in 0..N
        BY SMTT(60), <1>2
      <3>3. o.seq <= r.duplicate[c].seq
        BY Zenon, <1>1, <1>7, <3>1, <3>2 DEF DupCovers, r, N
      <3> QED BY SMTT(60), <1>7, <1>17, <3>3
    <2>3. StoreNow' = [StoreNow EXCEPT ![op[c].key] = Store!Written(op[c], @)]
      <3>1. StoreNow' = [StoreNow EXCEPT ![o.key] = Written(o, @)]
        BY Zenon, <1>2, <1>4, <1>7, <1>17, AppliedFields
      <3>2. Written(o, StoreNow[o.key]) = Store!Written(o, StoreNow[o.key])
        BY Zenon DEF Written, Store!Written
      <3> QED BY Zenon, <2>1, <3>1, <3>2
    <2>4. \A d \in Clerk \ {c} : op[d] # o
      BY Zenon, <1>2, <1>7, <1>9, NoneAssumption
    <2>5. DoneNow' = [DoneNow EXCEPT ![c] = TRUE]
      <3>1. DoneNow'[c] = TRUE
        BY Zenon, <1>7, <1>10, <1>13, <1>17, <2>1
      <3>2. \A d \in Clerk \ {c} : DoneNow'[d] = DoneNow[d]
        BY Zenon, <1>10, <1>13, <2>4
      <3> QED BY Zenon, <1>13, <3>1, <3>2
    <2>6. SeenNow' = [d \in Clerk |-> IF op[d] = None THEN {}
                                      ELSE SeenNow[d] \cup {StoreNow'[op[d].key]}]
      <3>1. \A d \in Clerk : SeenNow'[d] = IF op[d] = None THEN {}
                                           ELSE SeenNow[d] \cup {StoreNow'[op[d].key]}
        BY Zenon, <1>11, <1>12
      <3> QED BY Zenon, <1>13, <3>1
    <2>7. op[c] # None /\ op[c].kind # "Get"
      BY Zenon, <1>2, <1>17, <2>1, NoneAssumption
    <2>8. Store!Perform(c)
      BY Zenon, <1>3, <2>2, <2>3, <2>5, <2>6, <2>7 DEF Store!Perform, StoreNow, DoneNow, SeenNow
    <2> QED BY Zenon, <1>7, <2>8
  <1>18. r.duplicate[c].seq >= o.seq \/ r.duplicate[c].seq < o.seq
    BY SMTT(60), <1>7
  <1> QED BY Zenon, <1>15, <1>16, <1>17, <1>18

\* Every step of the service is a step of the store, or none.
LEMMA StoreStep ==
    ASSUME LinInv, LinInv', [Next]_vars
    PROVE  [Store!Next]_(Store!vars)
  <1>1. CASE ClerkMoves
    BY Zenon, <1>1, BeginStore, ReturnStore DEF ClerkMoves, Store!Next
  <1>2. ASSUME ~ ClerkMoves
        PROVE  [Store!Next]_(Store!vars)
    <2>1. UNCHANGED <<op, since, result>>
      BY Zenon, <1>2, ClerkStands
    <2>2. HistoryStands \/ \E s \in Server : Commit(s)
      BY Zenon, HistoryStep DEF LinInv
    <2>3. CASE HistoryStands
      BY Zenon, <2>1, <2>3, StoreStutters
    <2>4. ASSUME NEW s \in Server, Commit(s)
          PROVE  [Store!Next]_(Store!vars)
      BY Zenon, <2>4, CommitStore DEF Store!Next
    <2> QED BY Zenon, <2>2, <2>3, <2>4
  <1> QED BY Zenon, <1>1, <1>2

\* A new service is an empty store.
LEMMA InitStore ==
    ASSUME Init
    PROVE  Store!Init
  <1>1. /\ op = [c \in Clerk |-> None] /\ result = [c \in Clerk |-> <<>>]
        /\ committed = <<>> /\ replay = <<NewKV>>
    BY Zenon DEF Init, Booted
  <1>2. Len(committed) = 0 /\ replay[Len(committed) + 1] = NewKV
    BY <1>1
  <1>3. StoreNow = [k \in Key |-> <<>>]
    <2>1. NewKV.db = [k \in Key |-> <<>>]
      BY SMTT(60) DEF NewKV
    <2> QED BY Zenon, <1>2, <2>1 DEF StoreNow, Replay
  <1>4. DoneNow = [c \in Clerk |-> FALSE]
    BY Zenon, <1>1 DEF DoneNow
  <1>5. SeenNow = [c \in Clerk |-> {}]
    BY Zenon, <1>1 DEF SeenNow
  <1> QED BY Zenon, <1>1, <1>3, <1>4, <1>5 DEF Store!Init, StoreNow, DoneNow, SeenNow

\* The key/value service is linearizable (KVServer.go, Clerk in client.go): when Raft keeps
\* what is committed, it implements the store of module KVStore.  Every Put and Append takes
\* effect once, when its command is committed for the first time, during its call; every Get
\* returns a value its key has had during the call.
THEOREM ServiceIsLinearizable == ~ Rollback => (Spec => Linearizable)
  <1> SUFFICES ASSUME ~ Rollback
               PROVE  Spec => Linearizable
    OBVIOUS
  <1>1. Init => LinInv /\ Store!Init
    BY InitLin, InitStore
  <1>2. LinInv /\ [Next]_vars => LinInv'
    BY LinStep
  <1>3. LinInv /\ LinInv' /\ [Next]_vars => [Store!Next]_(Store!vars)
    BY StoreStep
  <1> QED BY <1>1, <1>2, <1>3, PTL DEF Spec, Linearizable, Store!Spec
=============================================================================
