---------------------------- MODULE RaftLogProofs ----------------------------
(***************************************************************************)
(* The logs of Raft, for every number of peers, every bound and any        *)
(* lateness of calls, as long as the elections go well: an index and a     *)
(* term determine the entry, and without snapshots all entries before it.  *)
(***************************************************************************)
EXTENDS RaftProofs, WellFoundedInduction

USE DEF MinOf, MaxOf

\* Entry e stands at index k, behind an entry of term p, in a log or in a call of
\* AppendEntries.
InLog(i, k, e, p) == Holds(i, k) /\ e = At(i, k) /\ p = At(i, k - 1).term
InCall(m, k, e, p) ==
    /\ m.type = "AE"
    /\ k \in (m.prevLogIndex + 1)..(m.prevLogIndex + Len(m.entries))
    /\ e = m.entries[k - m.prevLogIndex]
    /\ p = IF k = m.prevLogIndex + 1 THEN m.prevLogTerm
                                     ELSE m.entries[k - m.prevLogIndex - 1].term
Stands(k, e, p) ==
    (\E i \in Server : InLog(i, k, e, p)) \/ (\E m \in net : InCall(m, k, e, p))

\* A leader has won its term, and nobody else has.
TermsWon ==
    /\ \A i \in Server : state[i] = "Leader" => <<currentTerm[i], i>> \in elected
    /\ \A v, w \in elected : v[1] = w[1] => v = w

\* The term of an entry was won.  As long as its leader leads, the leader's log
\* reaches as far as any entry of the term.
EntriesOwned ==
    \A k \in Nat : \A e \in Entry : \A p \in Term : Stands(k, e, p) =>
        /\ \E w \in elected : w[1] = e.term
        /\ \A i \in Server :
               state[i] = "Leader" /\ currentTerm[i] = e.term => k <= LastIndex(i)

\* The index and the term determine the entry, and without snapshots also the term
\* of the entry before it.
EntriesUnique ==
    \A k \in Nat : \A e, f \in Entry : \A p, q \in Term :
        Stands(k, e, p) /\ Stands(k, f, q) /\ e.term = f.term
            => e = f /\ (~ SnapshotsOn => p = q)

EntryInv == RegularElections => TermsWon /\ EntriesOwned /\ EntriesUnique

\* Without snapshots no log starts above index 0, and no snapshot is sent.
Unsnapped ==
    ~ SnapshotsOn => /\ \A i \in Server : snapshotIndex[i] = 0
                     /\ \A m \in net : m.type = "IS" => m.lastIncludedIndex = 0
-----------------------------------------------------------------------------

\* A step that brings no entry to a new index and leaves every entry its
\* predecessor, unless it moves a snapshot.
NoNewEntry ==
    \A k \in Nat : \A e \in Entry : \A p \in Term :
        Stands(k, e, p)' => \E q \in Term : Stands(k, e, q) /\ (~ SnapshotsOn => q = p)

\* A step that makes no leader and cuts no leader's log.
LeadersStay ==
    \A i \in Server : state'[i] = "Leader" =>
        /\ state[i] = "Leader" /\ currentTerm'[i] = currentTerm[i]
        /\ LastIndex(i)' >= LastIndex(i)

\* A set of natural numbers that is not empty has a least element.
LEMMA LeastNatural ==
    ASSUME NEW T, T \subseteq Nat, T # {}
    PROVE  \E x \in T : \A y \in T : x <= y
  <1> DEFINE R == {ss \in Nat \X Nat : ss[1] < ss[2]}
  <1>1. IsWellFoundedOn(R, Nat)
    BY NatLessThanWellFounded, Zenon DEF OpToRel
  <1>2. PICK x \in T : \A y \in T : ~ (<<y, x>> \in R)
    <2> HIDE DEF R
    <2> QED BY ZenonT(60), <1>1, WFMin
  <1>3. \A y \in T : ~ (y < x)
    BY ZenonT(60), <1>2
  <1> QED BY <1>3

\* Such steps keep the entry invariant.
LEMMA KeepsEntries ==
    ASSUME IndexInv, IndexInv', EntryInv, NoNewEntry, LeadersStay,
           elected' = elected, anomaly => anomaly'
    PROVE  EntryInv'
  <1> SUFFICES ASSUME RegularElections' PROVE TermsWon' /\ EntriesOwned' /\ EntriesUnique'
    BY DEF EntryInv
  <1>1. TermsWon /\ EntriesOwned /\ EntriesUnique
    BY Zenon DEF EntryInv, RegularElections
  <1>2. TermsWon'
    BY <1>1 DEF TermsWon, LeadersStay
  <1>3. EntriesOwned'
    <2> SUFFICES ASSUME NEW k \in Nat, NEW e \in Entry, NEW p \in Term, Stands(k, e, p)'
                 PROVE  /\ \E w \in elected : w[1] = e.term
                        /\ \A i \in Server :
                              state'[i] = "Leader" /\ currentTerm'[i] = e.term
                                  => k <= LastIndex(i)'
      BY SMTT(60) DEF EntriesOwned
    <2>1. PICK q \in Term : Stands(k, e, q)
      BY Zenon DEF NoNewEntry
    <2>2. \A i \in Server : LastIndex(i) \in Nat
      BY SMTT(60), LogTypes DEF IndexInv
    <2>3. \A i \in Server : LastIndex(i)' \in Int
      BY SMTT(60) DEF IndexInv, TypeOK, LastIndex
    <2> QED BY SMTT(60), <1>1, <2>1, <2>2, <2>3 DEF EntriesOwned, LeadersStay
  <1>4. EntriesUnique'
    BY SMTT(60), <1>1 DEF EntriesUnique, NoNewEntry
  <1> QED BY <1>2, <1>3, <1>4

\* m and o carry the same entries.
SameAppend(m, o) ==
    /\ o.type = "AE" /\ o.prevLogIndex = m.prevLogIndex /\ o.prevLogTerm = m.prevLogTerm
    /\ o.entries = m.entries

\* A step that leaves the logs alone and sends no new entries.
LEMMA SameLogs ==
    ASSUME logs' = logs, snapshotIndex' = snapshotIndex,
           \A m \in net' : m.type = "AE" => \E o \in net : SameAppend(m, o)
    PROVE  NoNewEntry /\ \A i \in Server : LastIndex(i)' = LastIndex(i)
  <1>1. \A i \in Server : LastIndex(i)' = LastIndex(i)
    BY DEF LastIndex
  <1>2. ASSUME NEW k \in Nat, NEW e \in Entry, NEW p \in Term, Stands(k, e, p)'
        PROVE  Stands(k, e, p)
    <2>1. ASSUME NEW i \in Server, InLog(i, k, e, p)'
          PROVE  InLog(i, k, e, p)
      BY Zenon, <1>1, <2>1 DEF InLog, Holds, At
    <2>2. ASSUME NEW m \in net', InCall(m, k, e, p)
          PROVE  \E o \in net : InCall(o, k, e, p)
      BY ZenonT(60), <2>2 DEF InCall, SameAppend
    <2> QED BY Zenon, <1>2, <2>1, <2>2 DEF Stands, InCall
  <1> QED BY Zenon, <1>1, <1>2 DEF NoNewEntry

\* What is left of a sequence of entries from a position on.
LEMMA SuffixOf ==
    ASSUME NEW s \in Seq(Entry), NEW from \in Nat, from >= 1
    PROVE  /\ SubSeq(s, from, Len(s)) \in Seq(Entry)
           /\ Len(SubSeq(s, from, Len(s))) = IF from <= Len(s) THEN Len(s) - from + 1 ELSE 0
           /\ \A l \in 1..Len(SubSeq(s, from, Len(s))) :
                  SubSeq(s, from, Len(s))[l] = s[from + l - 1]
  <1> DEFINE t == SubSeq(s, from, Len(s))
  <1>1. Len(s) \in Nat
    BY SMTT(60), LenProperties
  <1>2. \A l \in from..Len(s) : s[l] \in Entry
    <2>1. \A l \in from..Len(s) : l \in 1..Len(s)
      BY SMTT(60), <1>1
    <2> QED BY Zenon, <2>1, ElementOfSeq
  <1>3. /\ t \in Seq(Entry)
        /\ Len(t) = IF from <= Len(s) THEN Len(s) - from + 1 ELSE 0
        /\ \A l \in 1..(Len(s) - from + 1) : t[l] = s[from + l - 1]
    BY SMTT(60), <1>1, <1>2, SubSeqProperties
  <1> HIDE DEF t
  <1>4. \A l \in 1..Len(t) : t[l] = s[from + l - 1]
    BY SMTT(60), <1>1, <1>3
  <1> QED BY Zenon, <1>3, <1>4 DEF t

\* t is what is left from index x on of the log s that starts at index b.
Leaves(t, s, b, x) ==
    \A k \in Nat : k >= x /\ k <= x - 1 + Len(t) =>
        k <= b + Len(s) - 1 /\ t[k - (x - 1)] = s[k - b + 1]

\* The same by index.
LEMMA LogSuffix ==
    ASSUME NEW s \in Seq(Entry), NEW b \in Nat, NEW x \in Nat, x >= b + 1,
           NEW t, t = SubSeq(s, x - b + 1, Len(s))
    PROVE  Leaves(t, s, b, x)
  <1> DEFINE from == x - b + 1
  <1>1. from \in Nat /\ from >= 1 /\ Len(s) \in Nat
    BY SMTT(60), LenProperties
  <1>2. /\ Len(t) = IF from <= Len(s) THEN Len(s) - from + 1 ELSE 0
        /\ \A l \in 1..Len(t) : t[l] = s[from + l - 1]
    BY Zenon, <1>1, SuffixOf
  <1>3. ASSUME NEW k \in Nat, k >= x, k <= x - 1 + Len(t)
        PROVE  k <= b + Len(s) - 1 /\ t[k - (x - 1)] = s[k - b + 1]
    <2>1. k <= x - 1 + (IF from <= Len(s) THEN Len(s) - from + 1 ELSE 0)
      BY Zenon, <1>2, <1>3
    <2>2. k <= b + Len(s) - 1
      BY SMTT(60), <1>1, <1>3, <2>1
    <2>3. k - (x - 1) \in 1..Len(t)
      BY SMTT(60), <1>1, <1>2, <1>3
    <2>4. t[k - (x - 1)] = s[from + (k - (x - 1)) - 1]
      BY Zenon, <1>2, <2>3
    <2>5. from + (k - (x - 1)) - 1 = k - b + 1
      BY SMTT(60)
    <2> QED BY Zenon, <2>2, <2>4, <2>5
  <1> QED BY Zenon, <1>3 DEF Leaves

\* The entries of a leader's call are entries of its log.
LEMMA CallFromLog ==
    ASSUME TypeOK, NEW i \in Server, NEW n \in Server, nextIndex[i][n] - 1 >= snapshotIndex[i],
           NEW k \in Nat, NEW e, NEW p
    PROVE  InCall(AppendCall(i, n), k, e, p) => InLog(i, k, e, p)
  <1> DEFINE x == nextIndex[i][n]
             b == snapshotIndex[i]
             prev == MinOf(x - 1, LastIndex(i))
             tail == SubSeq(logs[i], x - b + 1, Len(logs[i]))
             m == AppendCall(i, n)
  <1>0. SUFFICES ASSUME InCall(m, k, e, p) PROVE InLog(i, k, e, p)
    BY SMTT(60)
  <1>1. /\ x \in Nat /\ b \in Nat /\ x >= b + 1
        /\ Len(logs[i]) \in Nat /\ LastIndex(i) \in Nat
        /\ LastIndex(i) = b + Len(logs[i]) - 1
        /\ logs[i] \in Seq(Entry)
    <2>1. /\ x \in Nat /\ b \in Nat /\ Len(logs[i]) \in Nat /\ LastIndex(i) \in Nat
          /\ logs[i] \in Seq(Entry) /\ LastIndex(i) = b + Len(logs[i]) - 1
      BY ZenonT(60), LogTypes DEF TypeOK, LastIndex
    <2>2. x - 1 >= b
      BY SMTT(60)
    <2> QED BY SMTT(60), <2>1, <2>2
  <1>2. /\ m.prevLogIndex = prev /\ m.prevLogTerm = At(i, prev).term /\ m.entries = tail
        /\ InCall(m, k, e, p)
    BY Zenon, <1>0 DEF AppendCall
  <1>3. prev \in Nat /\ prev <= x - 1 /\ (x - 1 <= LastIndex(i) => prev = x - 1)
    BY SMTT(60), <1>1
  <1>4. Len(tail) \in Nat /\ (Len(tail) # 0 => x - 1 <= LastIndex(i))
    <2>1. x - b + 1 \in Nat /\ x - b + 1 >= 1
      BY SMTT(60), <1>1
    <2>2. Len(tail) = IF x - b + 1 <= Len(logs[i]) THEN Len(logs[i]) - (x - b + 1) + 1 ELSE 0
      BY Zenon, <1>1, <2>1, SuffixOf
    <2> HIDE DEF tail
    <2> QED BY SMTT(60), <1>1, <2>2
  <1>5. ASSUME NEW l \in Nat, l >= x, l <= x - 1 + Len(tail)
        PROVE  l <= LastIndex(i) /\ tail[l - (x - 1)] = At(i, l)
    <2>1. l <= b + Len(logs[i]) - 1 /\ tail[l - (x - 1)] = logs[i][l - b + 1]
      <3>1. tail = SubSeq(logs[i], x - b + 1, Len(logs[i]))
        BY SMTT(60)
      <3> HIDE DEF tail, x, b
      <3>2. Leaves(tail, logs[i], b, x)
        BY Zenon, <1>1, <3>1, LogSuffix
      <3> QED BY Zenon, <1>5, <3>2 DEF Leaves
    <2> QED BY Zenon, <1>1, <2>1 DEF At
  <1> HIDE DEF tail, prev, m
  <1>6. /\ k \in (prev + 1)..(prev + Len(tail)) /\ e = tail[k - prev]
        /\ p = IF k = prev + 1 THEN At(i, prev).term ELSE tail[k - prev - 1].term
    BY Zenon, <1>2 DEF InCall
  <1>7. prev = x - 1
    <2>1. k >= prev + 1 /\ k <= prev + Len(tail)
      BY SMTT(60), <1>3, <1>4, <1>6
    <2> QED BY SMTT(60), <1>3, <1>4, <2>1
  <1> HIDE DEF x, b
  <1>8. k >= x /\ k <= x - 1 + Len(tail) /\ e = tail[k - (x - 1)]
    BY SMTT(60), <1>1, <1>4, <1>6, <1>7
  <1>9. k > b /\ k <= LastIndex(i) /\ e = At(i, k)
    BY SMTT(60), <1>1, <1>5, <1>8
  <1>10. p = At(i, k - 1).term
    <2>1. CASE k = x
      <3>1. k = prev + 1 /\ k - 1 = prev
        BY SMTT(60), <1>1, <1>7, <2>1
      <3> QED BY Zenon, <1>6, <3>1
    <2>2. CASE k # x
      <3>1. /\ k # prev + 1 /\ k - prev - 1 = (k - 1) - (x - 1)
            /\ k - 1 \in Nat /\ k - 1 >= x /\ k - 1 <= x - 1 + Len(tail)
        BY SMTT(60), <1>1, <1>4, <1>7, <1>8, <2>2
      <3> QED BY Zenon, <1>5, <1>6, <3>1
    <2> QED BY SMTT(60), <2>1, <2>2
  <1> QED BY Zenon, <1>9, <1>10 DEF InLog, Holds, b

\* new is the log s that starts at index b, cut behind index v and continued with t.
Joins(new, s, t, b, v) ==
    /\ Len(new) = v - b + 1 + Len(t)
    /\ \A k \in Nat : k >= b /\ k <= v => new[k - b + 1] = s[k - b + 1]
    /\ \A k \in Nat : k > v /\ k <= v + Len(t) => new[k - b + 1] = t[k - v]

\* The log AppendEntries builds is such a log.
LEMMA LogJoin ==
    ASSUME NEW s \in Seq(Entry), NEW t \in Seq(Entry), NEW b \in Nat, NEW v \in Nat,
           v >= b, v <= b + Len(s) - 1, NEW new, new = SubSeq(s, 1, v - b + 1) \o t
    PROVE  Joins(new, s, t, b, v)
  <1> DEFINE u == v - b + 1
             pre == SubSeq(s, 1, u)
  <1>1. Len(s) \in Nat /\ Len(t) \in Nat /\ u \in 1..Len(s)
    BY SMTT(60), LenProperties
  <1>2. \A l \in 1..u : s[l] \in Entry
    <2>1. \A l \in 1..u : l \in 1..Len(s)
      BY SMTT(60), <1>1
    <2> QED BY Zenon, <2>1, ElementOfSeq
  <1>3. /\ pre \in Seq(Entry) /\ Len(pre) = u
        /\ \A l \in 1..u : pre[l] = s[l]
    <2>1. /\ pre \in Seq(Entry) /\ Len(pre) = IF 1 <= u THEN u - 1 + 1 ELSE 0
          /\ \A l \in 1..(u - 1 + 1) : pre[l] = s[1 + l - 1]
      BY SMTT(60), <1>1, <1>2, SubSeqProperties
    <2> HIDE DEF pre
    <2> QED BY SMTT(60), <1>1, <2>1
  <1>4. /\ Len(pre \o t) = Len(pre) + Len(t)
        /\ \A l \in 1..(Len(pre) + Len(t)) :
               (pre \o t)[l] = IF l <= Len(pre) THEN pre[l] ELSE t[l - Len(pre)]
    BY ZenonT(60), <1>3, ConcatProperties
  <1>5. new = pre \o t
    BY SMTT(60)
  <1> HIDE DEF pre
  <1>6. /\ Len(new) = u + Len(t)
        /\ \A l \in 1..(u + Len(t)) : new[l] = IF l <= u THEN pre[l] ELSE t[l - u]
    BY ZenonT(60), <1>3, <1>4, <1>5
  <1>7. ASSUME NEW k \in Nat, k >= b, k <= v
        PROVE  new[k - b + 1] = s[k - b + 1]
    <2>1. k - b + 1 \in 1..(u + Len(t)) /\ k - b + 1 <= u /\ k - b + 1 \in 1..u
      BY SMTT(60), <1>1, <1>7
    <2> QED BY Zenon, <1>3, <1>6, <2>1
  <1>8. ASSUME NEW k \in Nat, k > v, k <= v + Len(t)
        PROVE  new[k - b + 1] = t[k - v]
    <2>1. k - b + 1 \in 1..(u + Len(t)) /\ ~ (k - b + 1 <= u) /\ k - b + 1 - u = k - v
      BY SMTT(60), <1>1, <1>8
    <2>2. new[k - b + 1] = t[k - b + 1 - u]
      BY SMTT(60), <1>6, <2>1
    <2> QED BY SMTT(60), <2>1, <2>2
  <1> QED BY Zenon, <1>6, <1>7, <1>8 DEF Joins

\* The entries AppendEntries leaves in a log were there or came with the call.
LEMMA MatchedLog ==
    ASSUME TypeOK, NEW m \in net, AppendMatch(m), NEW k \in Nat, NEW e, NEW p
    PROVE  InLog(m.dst, k, e, p)' => InLog(m.dst, k, e, p) \/ InCall(m, k, e, p)
  <1> DEFINE i == m.dst
             b == snapshotIndex[i]
             v == m.prevLogIndex
             new == NewLog(i, m)
  <1>0. SUFFICES ASSUME InLog(i, k, e, p)' PROVE InLog(i, k, e, p) \/ InCall(m, k, e, p)
    BY SMTT(60)
  <1>1. m \in AERequest /\ i \in Server /\ m.type = "AE"
    BY Zenon, AcceptLeaderType DEF AppendMatch, AcceptLeader
  <1>2. /\ logs[i] \in Seq(Entry) /\ m.entries \in Seq(Entry) /\ b \in Nat /\ v \in Nat
        /\ Len(logs[i]) \in Nat /\ Len(m.entries) \in Nat
        /\ LastIndex(i) = b + Len(logs[i]) - 1
    BY ZenonT(60), <1>1, LogTypes, LenProperties DEF TypeOK, AERequest, LastIndex
  <1>3. /\ v >= b /\ v <= LastIndex(i) /\ At(i, v).term = m.prevLogTerm
        /\ logs'[i] = new /\ snapshotIndex'[i] = b
    BY ZenonT(60), <1>1 DEF AppendMatch, PrevMatches, TypeOK
  <1>4. new = SubSeq(logs[i], 1, v - b + 1) \o m.entries
    BY SMTT(60) DEF NewLog
  <1>5. /\ k > snapshotIndex'[i] /\ k <= snapshotIndex'[i] + Len(logs'[i]) - 1
        /\ e = logs'[i][k - snapshotIndex'[i] + 1]
        /\ p = logs'[i][k - 1 - snapshotIndex'[i] + 1].term
    BY Zenon, <1>0 DEF InLog, Holds, LastIndex, At
  <1> HIDE DEF new
  <1>6. /\ Len(new) = v - b + 1 + Len(m.entries)
        /\ \A l \in Nat : l >= b /\ l <= v => new[l - b + 1] = logs[i][l - b + 1]
        /\ \A l \in Nat : l > v /\ l <= v + Len(m.entries) =>
               new[l - b + 1] = m.entries[l - v]
    <2>1. /\ logs[i] \in Seq(Entry) /\ m.entries \in Seq(Entry) /\ b \in Nat /\ v \in Nat
          /\ v >= b /\ v <= b + Len(logs[i]) - 1
      BY Zenon, <1>2, <1>3
    <2>2. Joins(new, logs[i], m.entries, b, v)
      BY Zenon, <1>4, <2>1, LogJoin
    <2> QED BY Zenon, <2>2 DEF Joins
  <1>7. k > b /\ k <= b + Len(new) - 1
    BY ZenonT(60), <1>3, <1>5
  <1>10. e = new[k - b + 1] /\ p = new[k - 1 - b + 1].term
    BY ZenonT(60), <1>3, <1>5
  <1>8. CASE k <= v
    <2>1. k - 1 \in Nat /\ k - 1 >= b /\ k - 1 <= v /\ k >= b /\ k <= LastIndex(i)
      BY SMTT(60), <1>2, <1>3, <1>7, <1>8, LogTypes
    <2>2. e = At(i, k) /\ p = At(i, k - 1).term
      BY ZenonT(60), <1>6, <1>10, <1>8, <2>1 DEF At
    <2>3. Holds(i, k)
      BY ZenonT(60), <1>7, <2>1 DEF Holds
    <2> QED BY ZenonT(60), <2>2, <2>3 DEF InLog
  <1>9. CASE k > v
    <2>1. k <= v + Len(m.entries)
      <3>1. k <= b + (v - b + 1 + Len(m.entries)) - 1
        BY ZenonT(60), <1>6, <1>7
      <3> QED BY SMTT(60), <1>2, <3>1
    <2>2. e = m.entries[k - v]
      BY Zenon, <1>6, <1>10, <1>9, <2>1
    <2>3. p = IF k = v + 1 THEN m.prevLogTerm ELSE m.entries[k - v - 1].term
      <3>1. CASE k = v + 1
        <4>1. k - 1 = v /\ k - 1 \in Nat /\ k - 1 >= b /\ k - 1 <= v
          BY SMTT(60), <1>2, <1>3, <3>1
        <4> QED BY ZenonT(60), <1>3, <1>6, <1>10, <3>1, <4>1 DEF At
      <3>2. CASE k # v + 1
        <4>1. /\ k - 1 \in Nat /\ k - 1 > v /\ k - 1 <= v + Len(m.entries)
              /\ k - 1 - v = k - v - 1
          BY SMTT(60), <1>2, <1>9, <2>1, <3>2
        <4> QED BY ZenonT(60), <1>6, <1>10, <3>2, <4>1
      <3> QED BY ZenonT(60), <3>1, <3>2
    <2>4. k \in (v + 1)..(v + Len(m.entries))
      BY SMTT(60), <1>2, <1>9, <2>1
    <2> QED BY ZenonT(60), <1>1, <2>2, <2>3, <2>4 DEF InCall
  <1> QED BY SMTT(60), <1>2, <1>8, <1>9
-----------------------------------------------------------------------------

\* A step that sends no new entries.
OldAppends == \A m \in net' : m.type = "AE" => \E o \in net : SameAppend(m, o)

\* A step that sends no snapshot but a peer's own.
OldSnapshots ==
    \A m \in net' : m.type = "IS" =>
        \/ \E o \in net : o.type = "IS" /\ o.lastIncludedIndex = m.lastIncludedIndex
        \/ \E i \in Server : m.lastIncludedIndex = snapshotIndex[i]

OldCalls == OldAppends /\ OldSnapshots

\* A step that leaves the history of elections alone, or reports an anomaly.
SameElections == elected' = elected /\ (anomaly => anomaly')

\* A step that makes no leader and leaves the leaders' terms alone.
NoNewLeader ==
    \A i \in Server : state'[i] = "Leader" =>
        state[i] = "Leader" /\ currentTerm'[i] = currentTerm[i]

\* A step that does not touch the logs at all.
QuietLogs ==
    /\ logs' = logs /\ snapshotIndex' = snapshotIndex
    /\ SameElections /\ NoNewLeader /\ OldCalls

\* Calls that are answered, lost or made for votes are no new entries.
LEMMA OtherCalls ==
    ASSUME NEW S, net' \subseteq net \cup S, \A r \in S : r.type \notin {"AE", "IS"}
    PROVE  OldCalls
  BY Zenon DEF OldCalls, OldAppends, OldSnapshots, SameAppend

\* Neither is a reply.
LEMMA OtherAnswer ==
    ASSUME NEW m, NEW reply, Answer(m, reply), reply.type \notin {"AE", "IS"}
    PROVE  OldCalls
  <1>1. net' \subseteq net \cup {reply}
    BY Zenon DEF Answer
  <1>2. \A r \in {reply} : r.type \notin {"AE", "IS"}
    BY Zenon
  <1> QED BY Zenon, <1>1, <1>2, OtherCalls

\* Neither is the end of a call.
LEMMA FewerCalls ==
    ASSUME net' \subseteq net
    PROVE  OldCalls
  BY Zenon DEF OldCalls, OldAppends, OldSnapshots, SameAppend

\* Neither the calls of an election, nor a refused call or the answer to one, nor
\* the apply loop touches a log.
LEMMA QuietCalls ==
    ASSUME TypeOK, NEW m \in net,
           \/ RequestVote(m) \/ StepDownOnVote(m) \/ CountVote(m) \/ IgnoreVote(m)
           \/ AppendStale(m) \/ AppendPast(m) \/ AppendMismatch(m)
           \/ AppendAccepted(m) \/ AppendPanic(m) \/ StepDownOnAppend(m)
           \/ BackOff(m) \/ IgnoreReply(m)
           \/ InstallIgnored(m) \/ StepDownOnSnapshot(m) \/ SnapshotAccepted(m) \/ Drop(m)
    PROVE  QuietLogs
  <1>1. /\ state \in [Server -> {"Follower", "Candidate", "Leader"}]
        /\ currentTerm \in [Server -> Term] /\ m.src \in Server /\ m.dst \in Server
    BY ZenonT(60), CallTypes DEF TypeOK
  <1> USE DEF electionVars, logVars, leaderVars, voteVars
  <1>2. CASE RequestVote(m)
    <2>1. OldCalls
      BY ZenonT(60), <1>2, OtherAnswer DEF RequestVote
    <2>2. NoNewLeader
      <3>1. /\ state' = [state EXCEPT ![m.dst] =
                  IF m.term > currentTerm[m.dst] \/ (VoteFree(m.dst, m) /\ UpToDate(m.dst, m))
                  THEN "Follower" ELSE @]
            /\ currentTerm' = [currentTerm EXCEPT ![m.dst] = MaxOf(@, m.term)]
        BY ZenonT(60), <1>2 DEF RequestVote
      <3>2. ~ (m.term > currentTerm[m.dst]) => MaxOf(currentTerm[m.dst], m.term) = currentTerm[m.dst]
        <4>1. m.term \in Nat /\ currentTerm[m.dst] \in Nat
          BY ZenonT(60), <1>1, CallTypes, TermType DEF TypeOK
        <4> QED BY SMTT(60), <4>1
      <3> QED BY ZenonT(60), <1>1, <3>1, <3>2 DEF NoNewLeader
    <2> QED BY ZenonT(60), <1>2, <2>1, <2>2 DEF RequestVote, QuietLogs, SameElections
  <1>3. CASE StepDownOnVote(m) \/ CountVote(m) \/ IgnoreVote(m) \/ IgnoreReply(m) \/ Drop(m)
    <2>1. OldCalls
      <3>1. net' \subseteq net
        BY ZenonT(60), <1>3 DEF StepDownOnVote, CountVote, IgnoreVote, IgnoreReply, Drop
      <3> QED BY ZenonT(60), <3>1, FewerCalls
    <2>2. NoNewLeader
      BY ZenonT(60), <1>1, <1>3
         DEF StepDownOnVote, CountVote, IgnoreVote, IgnoreReply, Drop, NoNewLeader
    <2>3. logs' = logs /\ snapshotIndex' = snapshotIndex /\ SameElections
      <3>1. CASE StepDownOnVote(m)
        BY ZenonT(60), <3>1 DEF StepDownOnVote, SameElections
      <3>2. CASE CountVote(m)
        BY ZenonT(60), <3>2 DEF CountVote, SameElections
      <3>3. CASE Drop(m)
        BY ZenonT(60), <3>3 DEF Drop, SameElections
      <3> QED BY ZenonT(60), <1>3, <3>1, <3>2, <3>3 DEF IgnoreVote, IgnoreReply
    <2> QED BY ZenonT(60), <2>1, <2>2, <2>3 DEF QuietLogs
  <1>4. CASE AppendStale(m)
    <2>1. OldCalls
      BY ZenonT(60), <1>4, OtherAnswer DEF AppendStale, AppendReply
    <2> QED BY ZenonT(60), <1>4, <2>1 DEF AppendStale, QuietLogs, SameElections, NoNewLeader
  <1>5. CASE AppendPast(m) \/ AppendMismatch(m)
    <2>1. OldCalls
      BY ZenonT(60), <1>5, OtherAnswer DEF AppendPast, AppendMismatch, AppendReply
    <2>2. AcceptLeader(m.dst, m)
      BY ZenonT(60), <1>5 DEF AppendPast, AppendMismatch
    <2>3. NoNewLeader
      BY ZenonT(60), <1>1, <2>2 DEF AcceptLeader, NoNewLeader
    <2>4. UNCHANGED voteVars /\ UNCHANGED logVars
      BY ZenonT(60), <1>5 DEF AppendPast, AppendMismatch
    <2> QED BY ZenonT(60), <2>1, <2>3, <2>4 DEF QuietLogs, SameElections
  <1>6. CASE AppendAccepted(m) \/ AppendPanic(m) \/ StepDownOnAppend(m)
             \/ StepDownOnSnapshot(m) \/ SnapshotAccepted(m)
    <2>1. OldCalls
      <3>1. net' \subseteq net
        BY ZenonT(60), <1>6 DEF AppendAccepted, AppendPanic, StepDownOnAppend,
                           StepDownOnSnapshot, SnapshotAccepted
      <3> QED BY Zenon, <3>1, FewerCalls
    <2>2. NoNewLeader
      BY ZenonT(60), <1>1, <1>6 DEF AppendAccepted, AppendPanic, StepDownOnAppend,
                               StepDownOnSnapshot, SnapshotAccepted, NoNewLeader
    <2>3. logs' = logs /\ snapshotIndex' = snapshotIndex /\ SameElections
      <3>1. UNCHANGED voteVars /\ UNCHANGED logVars
        BY ZenonT(60), <1>6 DEF AppendAccepted, AppendPanic, StepDownOnAppend,
                           StepDownOnSnapshot, SnapshotAccepted
      <3> QED BY ZenonT(60), <3>1 DEF SameElections
    <2> QED BY Zenon, <2>1, <2>2, <2>3 DEF QuietLogs
  <1>7. CASE BackOff(m)
    <2>1. net' \subseteq net \cup {SnapshotCall(m.src, m.dst)}
      BY ZenonT(60), <1>7 DEF BackOff
    <2>2. OldCalls
      <3>1. /\ SnapshotCall(m.src, m.dst).type = "IS"
            /\ SnapshotCall(m.src, m.dst).lastIncludedIndex = snapshotIndex[m.src]
        BY ZenonT(60) DEF SnapshotCall
      <3> QED BY ZenonT(60), <1>1, <2>1, <3>1 DEF OldCalls, OldAppends, OldSnapshots, SameAppend
    <2> QED BY ZenonT(60), <1>7, <2>2 DEF BackOff, QuietLogs, SameElections, NoNewLeader
  <1>8. CASE InstallIgnored(m)
    <2>1. OldCalls
      BY ZenonT(60), <1>8, OtherAnswer DEF InstallIgnored, SnapshotReply
    <2> QED BY ZenonT(60), <1>8, <2>1 DEF InstallIgnored, QuietLogs, SameElections, NoNewLeader
  <1> QED BY Zenon, <1>2, <1>3, <1>4, <1>5, <1>6, <1>7, <1>8

\* Neither does the start of an election, the apply loop or a restart, which loads
\* the log it had.
LEMMA QuietLocal ==
    ASSUME IndexInv, NEW i \in Server, CanvassVotes(i) \/ TakeBatch(i) \/ Restart(i)
    PROVE  QuietLogs
  <1>1. /\ state \in [Server -> {"Follower", "Candidate", "Leader"}]
        /\ currentTerm \in [Server -> Term] /\ logs \in [Server -> Seq(Entry) \ {<<>>}]
        /\ snapshotIndex \in [Server -> Nat] /\ net \subseteq Message
    BY ZenonT(60) DEF IndexInv, TypeOK
  <1> USE DEF electionVars, logVars, leaderVars, voteVars
  <1>2. CASE CanvassVotes(i)
    <2> DEFINE calls == [type : {"RV"}, src : {i}, dst : Server \ {i}, live : {TRUE},
                         term : {currentTerm[i] + 1},
                         lastLogIndex : {LastIndex(i)}, lastLogTerm : {LastTerm(i)}]
    <2>1. net' = net \cup calls
      BY ZenonT(60), <1>2 DEF CanvassVotes
    <2>2. \A r \in calls : r.type \notin {"AE", "IS"}
      BY SMTT(60)
    <2>3. OldCalls
      <3> HIDE DEF calls
      <3> QED BY ZenonT(60), <2>1, <2>2, OtherCalls
    <2> QED BY ZenonT(60), <1>1, <1>2, <2>3 DEF CanvassVotes, QuietLogs, SameElections, NoNewLeader
  <1>3. CASE TakeBatch(i)
    <2>1. net' \subseteq net
      BY ZenonT(60), <1>3 DEF TakeBatch
    <2> QED BY ZenonT(60), <1>3, <2>1, FewerCalls DEF TakeBatch, QuietLogs, SameElections, NoNewLeader
  <1>4. CASE Restart(i)
    <2>1. logs' = logs /\ snapshotIndex' = snapshotIndex
      BY ZenonT(60), <1>1, <1>4 DEF Restart, IndexInv, LogDurable
    <2>2. OldCalls
      <3>1. ASSUME NEW m \in net'
            PROVE  \E o \in net : m = o \/ m = [o EXCEPT !.live = FALSE]
        BY ZenonT(60), <1>4, <3>1 DEF Restart
      <3>2. ASSUME NEW o \in net, NEW m, m = [o EXCEPT !.live = FALSE]
            PROVE  /\ m.type = o.type
                   /\ m.type = "AE" => SameAppend(m, o)
                   /\ m.type = "IS" => m.lastIncludedIndex = o.lastIncludedIndex
        <4>1. o \in Message
          BY SMTT(60), <1>1
        <4> QED BY SMTT(60), <3>2, <4>1 DEF Message, RVRequest, RVReply, AERequest, AEReply, ISRequest,
                                  ISReply, SameAppend
      <3> QED BY ZenonT(60), <3>1, <3>2 DEF OldCalls, OldAppends, OldSnapshots, SameAppend
    <2> QED BY ZenonT(60), <1>1, <1>4, <2>1, <2>2 DEF Restart, QuietLogs, SameElections, NoNewLeader
  <1> QED BY ZenonT(60), <1>2, <1>3, <1>4

\* Steps that leave the logs alone keep the entry invariant.
LEMMA QuietEntries ==
    ASSUME IndexInv, IndexInv', EntryInv, QuietLogs
    PROVE  EntryInv'
  <1>1. NoNewEntry /\ \A i \in Server : LastIndex(i)' = LastIndex(i)
    BY Zenon, SameLogs DEF QuietLogs, OldCalls, OldAppends
  <1>2. LeadersStay
    <2>1. \A i \in Server : LastIndex(i) >= LastIndex(i)
      BY SMTT(60), LogTypes DEF IndexInv
    <2> QED BY ZenonT(60), <1>1, <2>1 DEF LeadersStay, QuietLogs, NoNewLeader
  <1> QED BY ZenonT(60), <1>1, <1>2, KeepsEntries DEF QuietLogs, SameElections

\* A log that a step does not touch.
LEMMA OtherLog ==
    ASSUME NEW j \in Server, logs'[j] = logs[j], snapshotIndex'[j] = snapshotIndex[j],
           NEW k, NEW e, NEW p
    PROVE  /\ LastIndex(j)' = LastIndex(j)
           /\ InLog(j, k, e, p)' => InLog(j, k, e, p)
  <1>1. LastIndex(j)' = LastIndex(j)
    BY ZenonT(60) DEF LastIndex
  <1> QED BY ZenonT(60), <1>1 DEF InLog, Holds, At

\* Calls that were in flight already.
LEMMA OldEntries ==
    ASSUME OldAppends, NEW m \in net', NEW k, NEW e, NEW p, InCall(m, k, e, p)
    PROVE  Stands(k, e, p)
  BY ZenonT(60) DEF OldAppends, SameAppend, InCall, Stands

\* A heartbeat sends entries of the leader's log.
LEMMA HeartbeatEntries ==
    ASSUME IndexInv, IndexInv', EntryInv, NEW i \in Server, NEW n \in Server, ConsistencyCheck(i, n)
    PROVE  EntryInv'
  <1> USE DEF electionVars, logVars, voteVars
  <1>1. /\ logs' = logs /\ snapshotIndex' = snapshotIndex /\ state' = state
        /\ currentTerm' = currentTerm /\ elected' = elected /\ anomaly' = anomaly
    BY ZenonT(60) DEF ConsistencyCheck
  <1>2. \A j \in Server : LastIndex(j)' = LastIndex(j)
    BY ZenonT(60), <1>1 DEF LastIndex
  <1>3. LeadersStay
    <2>1. \A j \in Server : LastIndex(j) >= LastIndex(j)
      BY SMTT(60), LogTypes DEF IndexInv
    <2> QED BY ZenonT(60), <1>1, <1>2, <2>1 DEF LeadersStay
  <1>4. ASSUME NEW k \in Nat, NEW e, NEW p, Stands(k, e, p)'
        PROVE  Stands(k, e, p)
    <2>1. ASSUME NEW j \in Server, InLog(j, k, e, p)'
          PROVE  Stands(k, e, p)
      BY ZenonT(60), <1>1, <2>1, OtherLog DEF Stands
    <2>2. ASSUME NEW m \in net', InCall(m, k, e, p)
          PROVE  Stands(k, e, p)
      <3>1. CASE m \in net
        BY ZenonT(60), <2>2, <3>1 DEF Stands
      <3>2. CASE m = AppendCall(i, n) /\ nextIndex[i][n] - 1 >= snapshotIndex[i]
        BY ZenonT(60), <2>2, <3>2, CallFromLog DEF IndexInv, Stands
      <3>3. CASE m = SnapshotCall(i, n)
        BY ZenonT(60), <2>2, <3>3 DEF SnapshotCall, InCall
      <3>4. nextIndex[i][n] - 1 < snapshotIndex[i] \/ nextIndex[i][n] - 1 >= snapshotIndex[i]
        <4>1. nextIndex[i][n] \in Nat /\ snapshotIndex[i] \in Nat
          BY ZenonT(60) DEF IndexInv, TypeOK
        <4> QED BY SMTT(60), <4>1
      <3> QED BY ZenonT(60), <3>1, <3>2, <3>3, <3>4 DEF ConsistencyCheck
    <2> QED BY ZenonT(60), <1>4, <2>1, <2>2 DEF Stands, InCall
  <1>5. NoNewEntry
    BY Zenon, <1>4 DEF NoNewEntry
  <1> QED BY ZenonT(60), <1>1, <1>3, <1>5, KeepsEntries

\* AppendEntries stores entries of the call, and only in the log of a peer that does
\* not lead.
LEMMA AppendEntriesKept ==
    ASSUME IndexInv, IndexInv', EntryInv, NEW m \in net, AppendMatch(m)
    PROVE  EntryInv'
  <1> DEFINE i == m.dst
  <1> USE DEF voteVars
  <1>1. /\ i \in Server /\ AcceptLeader(i, m) /\ snapshotIndex' = snapshotIndex
        /\ logs' = [logs EXCEPT ![i] = NewLog(i, m)]
        /\ elected' = elected /\ anomaly' = anomaly
    BY Zenon, AcceptLeaderType DEF AppendMatch, IndexInv
  <1>2. \A j \in Server : j # i => logs'[j] = logs[j]
    BY ZenonT(60), <1>1 DEF IndexInv, TypeOK
  <1>3. OldCalls
    BY Zenon, OtherAnswer DEF AppendMatch, AppendReply
  <1>4. LeadersStay
    <2>1. ASSUME NEW j \in Server, state'[j] = "Leader"
          PROVE  j # i /\ state[j] = "Leader" /\ currentTerm'[j] = currentTerm[j]
      BY Zenon, <1>1, <2>1 DEF AcceptLeader, IndexInv, TypeOK
    <2>2. \A j \in Server : j # i => LastIndex(j)' = LastIndex(j)
      BY Zenon, <1>1, <1>2 DEF LastIndex
    <2>3. \A j \in Server : LastIndex(j) >= LastIndex(j)
      BY LogTypes DEF IndexInv
    <2> QED BY Zenon, <2>1, <2>2, <2>3 DEF LeadersStay
  <1>5. ASSUME NEW k \in Nat, NEW e, NEW p, Stands(k, e, p)'
        PROVE  Stands(k, e, p)
    <2>1. ASSUME NEW j \in Server, InLog(j, k, e, p)'
          PROVE  Stands(k, e, p)
      <3>1. CASE j = i
        BY Zenon, <2>1, <3>1, MatchedLog DEF IndexInv, Stands
      <3>2. CASE j # i
        BY Zenon, <1>1, <1>2, <2>1, <3>2, OtherLog DEF Stands
      <3> QED BY Zenon, <3>1, <3>2
    <2>2. ASSUME NEW r \in net', InCall(r, k, e, p)
          PROVE  Stands(k, e, p)
      BY Zenon, <1>3, <2>2, OldEntries DEF OldCalls
    <2> QED BY Zenon, <1>5, <2>1, <2>2 DEF Stands, InCall
  <1>6. NoNewEntry
    BY Zenon, <1>5 DEF NoNewEntry
  <1> QED BY Zenon, <1>1, <1>4, <1>6, KeepsEntries

\* What is left of the log of i when it is l and starts at s.
KeepsTail(i, l, s) ==
    /\ s >= snapshotIndex[i]
    /\ \A k \in Nat : k > s /\ k <= s + Len(l) - 1 =>
           k <= LastIndex(i) /\ l[k - s + 1] = At(i, k)

\* A snapshot drops entries and moves none.  The entry before the first one that is
\* left is replaced by the placeholder.
LEMMA ShiftedEntries ==
    ASSUME IndexInv, IndexInv', EntryInv, SnapshotsOn, NEW i \in Server, NEW l, NEW s \in Nat,
           KeepsTail(i, l, s), s + Len(l) - 1 >= LastIndex(i),
           logs' = [logs EXCEPT ![i] = l], snapshotIndex' = [snapshotIndex EXCEPT ![i] = s],
           state' = state, currentTerm' = currentTerm, OldCalls, SameElections
    PROVE  EntryInv'
  <1>1. /\ logs'[i] = l /\ snapshotIndex'[i] = s
        /\ \A j \in Server : j # i => logs'[j] = logs[j] /\ snapshotIndex'[j] = snapshotIndex[j]
    BY ZenonT(60) DEF IndexInv, TypeOK
  <1>2. LeadersStay
    <2>1. LastIndex(i)' >= LastIndex(i)
      BY Zenon, <1>1 DEF LastIndex
    <2>2. \A j \in Server : j # i => LastIndex(j)' = LastIndex(j)
      BY Zenon, <1>1 DEF LastIndex
    <2>3. \A j \in Server : LastIndex(j) >= LastIndex(j)
      BY LogTypes DEF IndexInv
    <2> QED BY Zenon, <2>1, <2>2, <2>3 DEF LeadersStay
  <1>3. ASSUME NEW k \in Nat, NEW e, NEW p, InLog(i, k, e, p)'
        PROVE  \E q \in Term : InLog(i, k, e, q)
    <2>1. k > s /\ k <= s + Len(l) - 1 /\ e = l[k - s + 1]
      BY Zenon, <1>1, <1>3 DEF InLog, Holds, LastIndex, At
    <2>2. k <= LastIndex(i) /\ e = At(i, k)
      BY Zenon, <2>1 DEF KeepsTail
    <2>3. k > snapshotIndex[i] /\ k - 1 \in snapshotIndex[i]..LastIndex(i)
      <3>1. /\ snapshotIndex[i] \in Nat /\ s >= snapshotIndex[i] /\ LastIndex(i) \in Nat
        BY Zenon, LogTypes DEF IndexInv, TypeOK, KeepsTail
      <3> QED BY SMTT(60), <2>1, <2>2, <3>1
    <2>4. At(i, k - 1).term \in Term
      BY Zenon, <2>3, LogTypes DEF IndexInv
    <2> QED BY Zenon, <2>2, <2>3, <2>4 DEF InLog, Holds
  <1>4. ASSUME NEW k \in Nat, NEW e, NEW p \in Term, Stands(k, e, p)'
        PROVE  \E q \in Term : Stands(k, e, q)
    <2>1. ASSUME NEW j \in Server, InLog(j, k, e, p)'
          PROVE  \E q \in Term : Stands(k, e, q)
      <3>1. CASE j = i
        BY Zenon, <1>3, <2>1, <3>1 DEF Stands
      <3>2. CASE j # i
        BY Zenon, <1>1, <2>1, <3>2, OtherLog DEF Stands
      <3> QED BY Zenon, <3>1, <3>2
    <2>2. ASSUME NEW r \in net', InCall(r, k, e, p)
          PROVE  Stands(k, e, p)
      BY Zenon, <2>2, OldEntries DEF OldCalls
    <2> QED BY Zenon, <1>4, <2>1, <2>2 DEF Stands, InCall
  <1>5. NoNewEntry
    BY Zenon, <1>4 DEF NoNewEntry
  <1> QED BY Zenon, <1>2, <1>5, KeepsEntries DEF SameElections

\* InstallSnapshot keeps what is behind the snapshot.
LEMMA InstalledTail ==
    ASSUME TypeOK, NEW m \in net, InstallSnapshot(m)
    PROVE  KeepsTail(m.dst, LogAfterSnapshot(m.dst, m), m.lastIncludedIndex)
  <1> DEFINE i == m.dst
             s == m.lastIncludedIndex
             b == snapshotIndex[i]
             new == LogAfterSnapshot(i, m)
  <1>1. m \in ISRequest /\ i \in Server
    BY Zenon, SnapshotLog
  <1>2. /\ s \in Nat /\ m.lastIncludedTerm \in Term /\ b \in Nat /\ logs[i] \in Seq(Entry)
        /\ Len(logs[i]) \in Nat /\ LastIndex(i) = b + Len(logs[i]) - 1 /\ s > b
    BY Zenon, <1>1, LogTypes DEF ISRequest, TypeOK, LastIndex, InstallSnapshot
  <1>3. PICK x \in Nat : x = s + 1 /\ x >= b + 1 /\ s - b + 2 = x - b + 1
    BY SMTT(60), <1>2
  <1> DEFINE first == <<[term |-> m.lastIncludedTerm, cmd |-> None]>>
             tail == SubSeq(logs[i], x - b + 1, Len(logs[i]))
  <1>4. new = first \o tail
    BY Zenon, <1>3 DEF LogAfterSnapshot
  <1>5. first \in Seq(Entry) /\ Len(first) = 1
    BY SMTT(60), <1>2 DEF Entry
  <1>6. tail \in Seq(Entry) /\ Len(tail) \in Nat
    <2>1. x - b + 1 \in Nat /\ x - b + 1 >= 1
      BY SMTT(60), <1>2, <1>3
    <2> QED BY Zenon, <1>2, <2>1, SuffixOf, LenProperties
  <1>7. Leaves(tail, logs[i], b, x)
    <2>1. tail = SubSeq(logs[i], x - b + 1, Len(logs[i]))
      OBVIOUS
    <2> HIDE DEF tail
    <2> QED BY Zenon, <1>2, <1>3, <2>1, LogSuffix
  <1> HIDE DEF new, first, tail
  <1>8. /\ Len(new) = 1 + Len(tail)
        /\ \A l \in 1..(1 + Len(tail)) : new[l] = IF l <= 1 THEN first[l] ELSE tail[l - 1]
    <2>1. /\ Len(first \o tail) = Len(first) + Len(tail)
          /\ \A l \in 1..(Len(first) + Len(tail)) :
                 (first \o tail)[l] = IF l <= Len(first) THEN first[l] ELSE tail[l - Len(first)]
      BY Zenon, <1>5, <1>6, ConcatProperties
    <2> QED BY Zenon, <1>4, <1>5, <2>1
  <1>9. ASSUME NEW k \in Nat, k > s, k <= s + Len(new) - 1
        PROVE  k <= LastIndex(i) /\ new[k - s + 1] = At(i, k)
    <2>1. k <= s + (1 + Len(tail)) - 1
      BY Zenon, <1>8, <1>9
    <2>0. s \in Nat /\ Len(tail) \in Nat /\ x = s + 1 /\ k > s
      BY Zenon, <1>2, <1>3, <1>6, <1>9
    <2>2. ASSUME NEW l \in Nat, l = k - s + 1
          PROVE  new[l] = tail[k - (x - 1)]
      <3>1. l \in 1..(1 + Len(tail)) /\ ~ (l <= 1) /\ l - 1 = k - (x - 1)
        BY SMTT(60), <2>0, <2>1, <2>2
      <3> QED BY Zenon, <1>8, <3>1
    <2>3. k >= x /\ k <= x - 1 + Len(tail) /\ k - s + 1 \in Nat
      BY SMTT(60), <2>0, <2>1
    <2>4. k <= b + Len(logs[i]) - 1 /\ tail[k - (x - 1)] = logs[i][k - b + 1]
      BY Zenon, <1>7, <2>3 DEF Leaves
    <2> QED BY Zenon, <1>2, <2>2, <2>3, <2>4 DEF At
  <1>10. s >= b
    BY <1>2
  <1> QED BY Zenon, <1>9, <1>10 DEF KeepsTail, new

\* NewSnapShot keeps what is behind the snapshot.
LEMMA TrimmedTail ==
    ASSUME TypeOK, NEW i \in Server, NEW s \in Nat, s > snapshotIndex[i], s <= LastIndex(i)
    PROVE  KeepsTail(i, SubSeq(logs[i], s - snapshotIndex[i] + 1, Len(logs[i])), s)
  <1> DEFINE b == snapshotIndex[i]
             tail == SubSeq(logs[i], s - b + 1, Len(logs[i]))
  <1>1. /\ b \in Nat /\ logs[i] \in Seq(Entry)
        /\ Len(logs[i]) \in Nat /\ LastIndex(i) = b + Len(logs[i]) - 1
    BY Zenon, LogTypes DEF TypeOK, LastIndex
  <1>2. tail \in Seq(Entry) /\ Len(tail) \in Nat
    <2>1. s - b + 1 \in Nat /\ s - b + 1 >= 1
      BY SMTT(60), <1>1
    <2> QED BY Zenon, <1>1, <2>1, SuffixOf, LenProperties
  <1>3. tail = SubSeq(logs[i], s - b + 1, Len(logs[i]))
    OBVIOUS
  <1> HIDE DEF tail
  <1>4. ASSUME NEW k \in Nat, k > s, k <= s + Len(tail) - 1
        PROVE  k <= LastIndex(i) /\ tail[k - s + 1] = At(i, k)
    <2>1. s >= b + 1 /\ k >= s /\ k <= s - 1 + Len(tail) /\ k - (s - 1) = k - s + 1
      BY <1>1, <1>2, <1>4
    <2>2. k <= b + Len(logs[i]) - 1 /\ tail[k - (s - 1)] = logs[i][k - b + 1]
      <3>1. Leaves(tail, logs[i], b, s)
        BY Zenon, <1>1, <1>3, <2>1, LogSuffix
      <3> QED BY Zenon, <2>1, <3>1 DEF Leaves
    <2> QED BY Zenon, <1>1, <2>1, <2>2 DEF At
  <1>5. s >= b
    BY <1>1
  <1> QED BY Zenon, <1>4, <1>5 DEF KeepsTail, tail

\* Both snapshot steps keep the entry invariant.
LEMMA InstallEntries ==
    ASSUME IndexInv, IndexInv', EntryInv, Unsnapped, NEW m \in net, InstallSnapshot(m)
    PROVE  EntryInv' /\ SnapshotsOn
  <1> USE DEF electionVars, voteVars
  <1>1. /\ m.dst \in Server /\ m \in ISRequest
        /\ m.lastIncludedIndex + Len(LogAfterSnapshot(m.dst, m)) - 1 >= LastIndex(m.dst)
    BY Zenon, SnapshotLog DEF IndexInv
  <1>2. m.lastIncludedIndex \in Nat /\ m.type = "IS"
    BY Zenon, <1>1 DEF ISRequest
  <1>3. SnapshotsOn
    <2>1. m.lastIncludedIndex > snapshotIndex[m.dst]
      BY Zenon DEF InstallSnapshot
    <2>2. SnapshotsOn \/ (snapshotIndex[m.dst] = 0 /\ m.lastIncludedIndex = 0)
      BY Zenon, <1>1, <1>2 DEF Unsnapped
    <2> QED BY <2>1, <2>2
  <1>4. KeepsTail(m.dst, LogAfterSnapshot(m.dst, m), m.lastIncludedIndex)
    BY Zenon, InstalledTail DEF IndexInv
  <1>5. OldCalls
    BY Zenon, OtherAnswer DEF InstallSnapshot, SnapshotReply
  <1>6. /\ logs' = [logs EXCEPT ![m.dst] = LogAfterSnapshot(m.dst, m)]
        /\ snapshotIndex' = [snapshotIndex EXCEPT ![m.dst] = m.lastIncludedIndex]
        /\ state' = state /\ currentTerm' = currentTerm /\ SameElections
    BY Zenon DEF InstallSnapshot, SameElections
  <1> QED BY Zenon, <1>1, <1>2, <1>3, <1>4, <1>5, <1>6, ShiftedEntries

\* NewSnapShot keeps the entries behind the snapshot.
LEMMA SnapshotEntries ==
    ASSUME IndexInv, IndexInv', EntryInv, NEW i \in Server, NEW s \in Nat, NewSnapShot(i, s)
    PROVE  EntryInv' /\ SnapshotsOn
  <1> USE DEF electionVars, logVars, voteVars
  <1> DEFINE tail == SubSeq(logs[i], s - snapshotIndex[i] + 1, Len(logs[i]))
  <1>1. SnapshotsOn /\ s > snapshotIndex[i] /\ net' = net /\ SameElections
    BY Zenon DEF NewSnapShot, SameElections
  <1>2. OldCalls
    BY Zenon, <1>1, FewerCalls
  <1>3. CASE s <= LastIndex(i)
    <2>1. /\ logs' = [logs EXCEPT ![i] = tail]
          /\ snapshotIndex' = [snapshotIndex EXCEPT ![i] = s]
          /\ state' = state /\ currentTerm' = currentTerm
      BY Zenon, <1>3 DEF NewSnapShot
    <2>2. KeepsTail(i, tail, s)
      BY Zenon, <1>1, <1>3, TrimmedTail DEF IndexInv
    <2>3. s + Len(tail) - 1 >= LastIndex(i)
      <3>1. s + Len(tail) - 1 = LastIndex(i) /\ LastIndex(i) \in Nat
        BY Zenon, <1>1, <1>3, TrimmedLog, LogTypes DEF IndexInv
      <3>2. LastIndex(i) >= LastIndex(i)
        BY <3>1
      <3> QED BY Zenon, <3>1, <3>2
    <2> HIDE DEF tail
    <2> QED BY Zenon, <1>1, <1>2, <2>1, <2>2, <2>3, ShiftedEntries
  <1>4. CASE ~ (s <= LastIndex(i))
    <2>1. QuietLogs
      BY Zenon, <1>1, <1>2, <1>4 DEF NewSnapShot, QuietLogs, NoNewLeader
    <2> QED BY Zenon, <1>1, <2>1, QuietEntries
  <1> QED BY Zenon, <1>3, <1>4
-----------------------------------------------------------------------------

\* The entries after Start: the new one at the end of the leader's log.
LEMMA StartedLog ==
    ASSUME TypeOK, NEW i \in Server, NEW c \in Command, Start(i, c),
           NEW k \in Nat, NEW e, NEW p
    PROVE  /\ LastIndex(i)' = LastIndex(i) + 1
           /\ InLog(i, k, e, p)' =>
                 \/ InLog(i, k, e, p)
                 \/ /\ k = LastIndex(i) + 1 /\ e = [term |-> currentTerm[i], cmd |-> c]
                    /\ p = LastTerm(i)
  <1> DEFINE new == [term |-> currentTerm[i], cmd |-> c]
             b == snapshotIndex[i]
             l == Append(logs[i], new)
  <1>1. /\ b \in Nat /\ logs[i] \in Seq(Entry) /\ Len(logs[i]) \in Nat /\ Len(logs[i]) >= 1
        /\ LastIndex(i) = b + Len(logs[i]) - 1 /\ LastIndex(i) \in Nat
    BY Zenon, LogTypes DEF TypeOK, LastIndex
  <1>2. /\ logs'[i] = l /\ snapshotIndex'[i] = b
    BY Zenon DEF Start, AppendCommand, TypeOK
  <1>3. /\ Len(l) = Len(logs[i]) + 1 /\ l[Len(logs[i]) + 1] = new
        /\ \A n \in 1..Len(logs[i]) : l[n] = logs[i][n]
    <2>1. new \in Entry
      BY SMTT(60) DEF TypeOK, Entry
    <2> HIDE DEF new
    <2> QED BY SMTT(60), <1>1, <2>1, AppendProperties
  <1>4. LastIndex(i)' = LastIndex(i) + 1
    <2>1. LastIndex(i)' = b + (Len(logs[i]) + 1) - 1
      BY Zenon, <1>2, <1>3 DEF LastIndex
    <2> QED BY SMTT(60), <1>1, <2>1
  <1> HIDE DEF l, new
  <1>5. ASSUME InLog(i, k, e, p)'
        PROVE  InLog(i, k, e, p) \/ (k = LastIndex(i) + 1 /\ e = new /\ p = LastTerm(i))
    <2>1. k > b /\ k <= LastIndex(i) + 1 /\ e = l[k - b + 1] /\ p = l[k - 1 - b + 1].term
      BY Zenon, <1>2, <1>4, <1>5 DEF InLog, Holds, At
    <2>2. k - 1 - b + 1 \in 1..Len(logs[i])
      BY SMTT(60), <1>1, <2>1
    <2>3. p = At(i, k - 1).term
      BY Zenon, <1>3, <2>1, <2>2 DEF At
    <2>4. CASE k <= LastIndex(i)
      <3>1. k - b + 1 \in 1..Len(logs[i])
        BY SMTT(60), <1>1, <2>1, <2>4
      <3> QED BY Zenon, <1>3, <2>1, <2>3, <2>4, <3>1 DEF InLog, Holds, At
    <2>5. CASE k = LastIndex(i) + 1
      <3>1. k - b + 1 = Len(logs[i]) + 1 /\ k - 1 - b + 1 = Len(logs[i])
        BY SMTT(60), <1>1, <2>5
      <3> QED BY Zenon, <1>3, <2>1, <2>3, <2>5, <3>1 DEF LastTerm, At
    <2> QED BY SMTT(60), <1>1, <2>1, <2>4, <2>5
  <1> QED BY Zenon, <1>4, <1>5 DEF new

\* Start: the leader of a term is the only peer that makes entries of the term, and
\* it makes each at a new index.
LEMMA StartEntries ==
    ASSUME IndexInv, IndexInv', EntryInv, NEW i \in Server, NEW c \in Command, Start(i, c)
    PROVE  EntryInv'
  <1> USE DEF electionVars, voteVars
  <1> DEFINE new == [term |-> currentTerm[i], cmd |-> c]
             n == LastIndex(i) + 1
             New(k, e, p) == k = n /\ e = new /\ p = LastTerm(i)
  <1> SUFFICES ASSUME RegularElections' PROVE TermsWon' /\ EntriesOwned' /\ EntriesUnique'
    BY DEF EntryInv
  <1>1. /\ state[i] = "Leader" /\ state' = state /\ currentTerm' = currentTerm
        /\ elected' = elected /\ anomaly' = anomaly /\ net' = net
        /\ snapshotIndex' = snapshotIndex /\ \A j \in Server : j # i => logs'[j] = logs[j]
    BY ZenonT(60) DEF Start, AppendCommand, IndexInv, TypeOK
  <1>2. TermsWon /\ EntriesOwned /\ EntriesUnique
    BY Zenon, <1>1 DEF EntryInv, RegularElections
  <1>3. /\ TypeOK /\ n \in Nat /\ LastIndex(i)' = n /\ LastIndex(i) \in Nat
        /\ \A j \in Server : j # i => LastIndex(j)' = LastIndex(j)
    <2>1. LastIndex(i)' = n
      BY Zenon, StartedLog DEF IndexInv
    <2>2. \A j \in Server : j # i => LastIndex(j)' = LastIndex(j)
      BY Zenon, <1>1 DEF LastIndex
    <2>3. TypeOK /\ LastIndex(i) \in Nat
      BY Zenon, LogTypes DEF IndexInv
    <2>4. n \in Nat
      BY <2>3
    <2> QED BY Zenon, <2>1, <2>2, <2>3, <2>4
  <1>4. ASSUME NEW k \in Nat, NEW e, NEW p, Stands(k, e, p)'
        PROVE  Stands(k, e, p) \/ New(k, e, p)
    <2>1. ASSUME NEW j \in Server, InLog(j, k, e, p)'
          PROVE  Stands(k, e, p) \/ New(k, e, p)
      <3>1. CASE j = i
        BY Zenon, <1>3, <2>1, <3>1, StartedLog DEF Stands
      <3>2. CASE j # i
        BY Zenon, <1>1, <2>1, <3>2, OtherLog DEF Stands
      <3> QED BY Zenon, <3>1, <3>2
    <2>2. ASSUME NEW m \in net', InCall(m, k, e, p)
          PROVE  Stands(k, e, p)
      BY Zenon, <1>1, <2>2 DEF Stands
    <2> QED BY Zenon, <1>4, <2>1, <2>2 DEF Stands, InCall
  <1>5. TermsWon'
    BY Zenon, <1>1, <1>2 DEF TermsWon
  <1>6. new.term = currentTerm[i] /\ <<currentTerm[i], i>> \in elected
    BY Zenon, <1>1, <1>2 DEF TermsWon
  <1>7. \A j \in Server : state[j] = "Leader" /\ currentTerm[j] = currentTerm[i] => j = i
    <2>1. ASSUME NEW j \in Server, state[j] = "Leader", currentTerm[j] = currentTerm[i]
          PROVE  j = i
      <3>1. <<currentTerm[j], j>> \in elected /\ <<currentTerm[i], i>> \in elected
        BY Zenon, <1>2, <1>6, <2>1 DEF TermsWon
      <3>2. \A v, w \in elected : v[1] = w[1] => v = w
        BY Zenon, <1>2 DEF TermsWon
      <3> QED BY <2>1, <3>1, <3>2
    <2> QED BY Zenon, <2>1
  <1> HIDE DEF new
  <1>8. ASSUME NEW k \in Nat, NEW e \in Entry, NEW p \in Term, Stands(k, e, p), e.term = currentTerm[i]
        PROVE  k # n
    <2>1. k <= LastIndex(i)
      BY Zenon, <1>1, <1>2, <1>8 DEF EntriesOwned
    <2> QED BY <1>3, <2>1
  <1>9. EntriesOwned'
    <2>1. ASSUME NEW k \in Nat, NEW e \in Entry, NEW p \in Term, Stands(k, e, p)'
          PROVE  /\ \E w \in elected : w[1] = e.term
                 /\ \A j \in Server :
                       state[j] = "Leader" /\ currentTerm[j] = e.term => k <= LastIndex(j)'
      <3>1. CASE Stands(k, e, p)
        <4>1. /\ \E w \in elected : w[1] = e.term
              /\ \A j \in Server :
                       state[j] = "Leader" /\ currentTerm[j] = e.term => k <= LastIndex(j)
          BY Zenon, <1>2, <3>1 DEF EntriesOwned
        <4>2. k <= LastIndex(i) => k <= n
          BY <1>3
        <4> QED BY Zenon, <1>3, <4>1, <4>2
      <3>2. CASE New(k, e, p)
        <4>1. e.term = currentTerm[i] /\ \E w \in elected : w[1] = e.term
          BY <1>6, <3>2
        <4>2. k <= n
          BY <1>3, <3>2
        <4> QED BY Zenon, <1>3, <1>7, <4>1, <4>2
      <3>3. Stands(k, e, p) \/ New(k, e, p)
        BY <1>4, <2>1
      <3> QED BY Zenon, <3>1, <3>2, <3>3
    <2> QED BY Zenon, <1>1, <2>1 DEF EntriesOwned
  <1>10. EntriesUnique'
    <2>1. ASSUME NEW k \in Nat, NEW e \in Entry, NEW f \in Entry, NEW p \in Term, NEW q \in Term,
                 Stands(k, e, p)', Stands(k, f, q)', e.term = f.term
          PROVE  e = f /\ (~ SnapshotsOn => p = q)
      <3>1. CASE Stands(k, e, p) /\ Stands(k, f, q)
        BY Zenon, <1>2, <2>1, <3>1 DEF EntriesUnique
      <3>2. CASE New(k, e, p) /\ New(k, f, q)
        BY Zenon, <3>2
      <3>3. CASE Stands(k, e, p) /\ New(k, f, q)
        BY Zenon, <1>6, <1>8, <2>1, <3>3
      <3>4. CASE New(k, e, p) /\ Stands(k, f, q)
        BY Zenon, <1>6, <1>8, <2>1, <3>4
      <3>5. (Stands(k, e, p) \/ New(k, e, p)) /\ (Stands(k, f, q) \/ New(k, f, q))
        BY <1>4, <2>1
      <3> QED BY Zenon, <3>1, <3>2, <3>3, <3>4, <3>5
    <2> QED BY Zenon, <2>1 DEF EntriesUnique
  <1> QED BY Zenon, <1>5, <1>9, <1>10

\* BecomeLeader: no entry has the term of a leader that is just elected.
LEMMA ElectionEntries ==
    ASSUME IndexInv, IndexInv', EntryInv, NEW m \in net, BecomeLeader(m)
    PROVE  EntryInv'
  <1> USE DEF logVars
  <1> DEFINE i == m.src
  <1> SUFFICES ASSUME RegularElections' PROVE TermsWon' /\ EntriesOwned' /\ EntriesUnique'
    BY DEF EntryInv
  <1>1. /\ i \in Server /\ state' = [state EXCEPT ![i] = "Leader"]
        /\ currentTerm' = currentTerm /\ logs' = logs /\ snapshotIndex' = snapshotIndex
        /\ net' = net \ {m} /\ elected' = elected \cup {<<currentTerm[i], i>>}
    BY Zenon, CallTypes DEF BecomeLeader, IndexInv, TypeOK
  <1>2. ~ anomaly /\ \A w \in elected : w[1] # currentTerm[i]
    BY Zenon DEF BecomeLeader, RegularElections
  <1>3. TermsWon /\ EntriesOwned /\ EntriesUnique
    BY Zenon, <1>2 DEF EntryInv, RegularElections
  <1>4. \A j \in Server : j # i => state'[j] = state[j]
    BY Zenon, <1>1 DEF IndexInv, TypeOK
  <1>5. NoNewEntry /\ \A j \in Server : LastIndex(j)' = LastIndex(j)
    <2>1. OldCalls
      BY Zenon, <1>1, FewerCalls
    <2> QED BY Zenon, <1>1, <2>1, SameLogs DEF OldCalls, OldAppends
  <1>6. TermsWon'
    <2>1. \A j \in Server : state'[j] = "Leader" => <<currentTerm[j], j>> \in elected'
      BY Zenon, <1>1, <1>3, <1>4 DEF TermsWon
    <2>2. ASSUME NEW v \in elected', NEW w \in elected', v[1] = w[1]
          PROVE  v = w
      <3>1. \A x, y \in elected : x[1] = y[1] => x = y
        BY Zenon, <1>3 DEF TermsWon
      <3>2. <<currentTerm[i], i>>[1] = currentTerm[i]
        OBVIOUS
      <3> QED BY Zenon, <1>1, <1>2, <2>2, <3>1, <3>2
    <2> QED BY Zenon, <1>1, <2>1, <2>2 DEF TermsWon
  <1>7. EntriesOwned'
    <2>1. ASSUME NEW k \in Nat, NEW e \in Entry, NEW p \in Term, Stands(k, e, p)'
          PROVE  /\ \E w \in elected' : w[1] = e.term
                 /\ \A j \in Server :
                       state'[j] = "Leader" /\ currentTerm[j] = e.term => k <= LastIndex(j)
      <3>1. PICK q \in Term : Stands(k, e, q)
        BY Zenon, <1>5, <2>1 DEF NoNewEntry
      <3>2. /\ \E w \in elected : w[1] = e.term
            /\ \A j \in Server :
                    state[j] = "Leader" /\ currentTerm[j] = e.term => k <= LastIndex(j)
        BY Zenon, <1>3, <3>1 DEF EntriesOwned
      <3> QED BY Zenon, <1>1, <1>2, <1>4, <3>2
    <2> QED BY Zenon, <1>1, <1>5, <2>1 DEF EntriesOwned
  <1>8. EntriesUnique'
    BY <1>3, <1>5 DEF EntriesUnique, NoNewEntry
  <1> QED BY Zenon, <1>6, <1>7, <1>8
-----------------------------------------------------------------------------

\* The invariant that the theorems about the logs rest on.
LogInv == IndexInv /\ EntryInv /\ Unsnapped

\* A step that moves no snapshot and sends none but a peer's own.
LEMMA KeepsUnsnapped ==
    ASSUME Unsnapped, snapshotIndex' = snapshotIndex, OldSnapshots
    PROVE  Unsnapped'
  BY Zenon DEF Unsnapped, OldSnapshots

\* A new cluster has no entries.
LEMMA InitLog == Init => LogInv
  <1> SUFFICES ASSUME Init PROVE LogInv
    OBVIOUS
  <1>1. IndexInv
    BY InitIndex
  <1>2. Unsnapped
    BY Zenon DEF Init, Unsnapped
  <1>3. \A i \in Server : LastIndex(i) = 0 /\ snapshotIndex[i] = 0
    BY SMTT(60) DEF Init, LastIndex
  <1>4. ASSUME NEW k \in Nat, NEW e, NEW p, Stands(k, e, p)
        PROVE  FALSE
    <2>1. net = {}
      BY Zenon DEF Init
    <2>2. PICK i \in Server : InLog(i, k, e, p)
      BY Zenon, <1>4, <2>1 DEF Stands
    <2>3. k > snapshotIndex[i] /\ k <= LastIndex(i)
      BY Zenon, <2>2 DEF InLog, Holds
    <2> QED BY <1>3, <2>3
  <1>5. TermsWon
    BY Zenon DEF Init, TermsWon
  <1>6. EntriesOwned /\ EntriesUnique
    BY Zenon, <1>4 DEF EntriesOwned, EntriesUnique
  <1> QED BY Zenon, <1>1, <1>2, <1>5, <1>6 DEF LogInv, EntryInv

\* Every step keeps the invariant.
LEMMA LogStep ==
    ASSUME LogInv, [Next]_vars
    PROVE  LogInv'
  <1>1. IndexInv /\ EntryInv /\ Unsnapped /\ TypeOK
    BY Zenon DEF LogInv, IndexInv
  <1>2. IndexInv'
    BY Zenon, <1>1, IndexStep
  <1>3. ASSUME QuietLogs
        PROVE  EntryInv' /\ Unsnapped'
    BY Zenon, <1>1, <1>2, <1>3, QuietEntries, KeepsUnsnapped DEF QuietLogs, OldCalls
  <1>4. ASSUME SnapshotsOn
        PROVE  Unsnapped'
    BY Zenon, <1>4 DEF Unsnapped
  <1>5. ASSUME NEW i \in Server, Local(i)
        PROVE  EntryInv' /\ Unsnapped'
    <2>1. CASE CanvassVotes(i) \/ TakeBatch(i) \/ Restart(i)
      BY Zenon, <1>1, <1>3, <2>1, QuietLocal
    <2>2. ASSUME NEW n \in Server, ConsistencyCheck(i, n)
          PROVE  EntryInv' /\ Unsnapped'
      <3>1. EntryInv'
        BY Zenon, <1>1, <1>2, <2>2, HeartbeatEntries
      <3>2. snapshotIndex' = snapshotIndex
        BY Zenon, <2>2 DEF ConsistencyCheck, logVars
      <3>3. OldSnapshots
        <4>1. /\ SnapshotCall(i, n).lastIncludedIndex = snapshotIndex[i]
              /\ AppendCall(i, n).type = "AE"
          BY Zenon DEF SnapshotCall, AppendCall
        <4>2. net' \subseteq net \cup {SnapshotCall(i, n), AppendCall(i, n)}
          BY Zenon, <2>2 DEF ConsistencyCheck
        <4> QED BY SMTT(60), <4>1, <4>2 DEF OldSnapshots
      <3> QED BY Zenon, <1>1, <3>1, <3>2, <3>3, KeepsUnsnapped
    <2>3. ASSUME NEW c \in Command, Start(i, c)
          PROVE  EntryInv' /\ Unsnapped'
      <3>1. EntryInv'
        BY Zenon, <1>1, <1>2, <2>3, StartEntries
      <3>2. snapshotIndex' = snapshotIndex /\ net' = net
        BY Zenon, <2>3 DEF Start, AppendCommand
      <3> QED BY Zenon, <1>1, <3>1, <3>2 DEF Unsnapped
    <2>4. ASSUME NEW k \in 1..MaxIndex, NewSnapShot(i, k)
          PROVE  EntryInv' /\ Unsnapped'
      <3>1. k \in Nat
        BY SMTT(60), BoundAssumption
      <3> QED BY Zenon, <1>1, <1>2, <1>4, <2>4, <3>1, SnapshotEntries
    <2> QED BY Zenon, <1>5, <2>1, <2>2, <2>3, <2>4 DEF Local
  <1>6. ASSUME NEW m \in net, OnCall(m)
        PROVE  EntryInv' /\ Unsnapped'
    <2>1. CASE BecomeLeader(m)
      <3>1. EntryInv'
        BY Zenon, <1>1, <1>2, <2>1, ElectionEntries
      <3>2. snapshotIndex' = snapshotIndex /\ net' = net \ {m}
        BY Zenon, <2>1 DEF BecomeLeader, logVars
      <3> QED BY Zenon, <1>1, <3>1, <3>2 DEF Unsnapped
    <2>2. CASE AppendMatch(m)
      <3>1. EntryInv'
        BY Zenon, <1>1, <1>2, <2>2, AppendEntriesKept
      <3>2. snapshotIndex' = snapshotIndex
        BY Zenon, <2>2 DEF AppendMatch
      <3>3. OldSnapshots
        BY Zenon, <2>2, OtherAnswer DEF AppendMatch, AppendReply, OldCalls
      <3> QED BY Zenon, <1>1, <3>1, <3>2, <3>3, KeepsUnsnapped
    <2>3. CASE InstallSnapshot(m)
      BY Zenon, <1>1, <1>2, <1>4, <2>3, InstallEntries
    <2>4. CASE ~ (BecomeLeader(m) \/ AppendMatch(m) \/ InstallSnapshot(m))
      BY Zenon, <1>1, <1>3, <1>6, <2>4, QuietCalls DEF OnCall
    <2> QED BY Zenon, <2>1, <2>2, <2>3, <2>4
  <1>7. CASE UNCHANGED vars
    <2>1. QuietLogs
      BY ZenonT(60), <1>7, FewerCalls
         DEF vars, electionVars, logVars, voteVars, QuietLogs, SameElections, NoNewLeader
    <2> QED BY Zenon, <1>2, <1>3, <2>1 DEF LogInv
  <1> QED BY Zenon, <1>2, <1>5, <1>6, <1>7 DEF Next, LogInv

\* The invariant about entries holds throughout.
THEOREM LogSafety == Spec => []LogInv
  <1>1. Init => LogInv
    BY SMTT(60), InitLog
  <1>2. LogInv /\ [Next]_vars => LogInv'
    BY SMTT(60), LogStep
  <1> QED BY <1>1, <1>2, PTL DEF Spec

\* An entry of a log stands in it.
LEMMA EntryOfLog ==
    ASSUME TypeOK, NEW i \in Server, NEW k \in Nat, Holds(i, k)
    PROVE  /\ At(i, k) \in Entry /\ At(i, k - 1).term \in Term
           /\ Stands(k, At(i, k), At(i, k - 1).term)
  <1>1. snapshotIndex[i] \in Nat /\ LastIndex(i) \in Nat /\ k > snapshotIndex[i] /\ k <= LastIndex(i)
    BY ZenonT(60), LogTypes DEF TypeOK, Holds
  <1>2. k \in snapshotIndex[i]..LastIndex(i) /\ k - 1 \in snapshotIndex[i]..LastIndex(i)
    BY SMTT(60), <1>1
  <1> QED BY Zenon, <1>2, LogTypes DEF Stands, InLog

\* Entries of two logs with the same index and term are the same.
LEMMA SameEntry ==
    ASSUME TypeOK, EntriesUnique, NEW i \in Server, NEW j \in Server, NEW k \in Nat,
           Holds(i, k), Holds(j, k), At(i, k).term = At(j, k).term
    PROVE  /\ At(i, k) = At(j, k)
           /\ ~ SnapshotsOn => At(i, k - 1).term = At(j, k - 1).term
  <1> DEFINE e == At(i, k)
             p == At(i, k - 1).term
             f == At(j, k)
             q == At(j, k - 1).term
  <1>1. e \in Entry /\ p \in Term /\ Stands(k, e, p)
    BY Zenon, EntryOfLog
  <1>2. f \in Entry /\ q \in Term /\ Stands(k, f, q)
    BY Zenon, EntryOfLog
  <1>3. e.term = f.term
    BY SMTT(60)
  <1> HIDE DEF e, p, f, q
  <1>4. e = f /\ (~ SnapshotsOn => p = q)
    BY Zenon, <1>1, <1>2, <1>3 DEF EntriesUnique
  <1> QED BY Zenon, <1>4 DEF e, p, f, q

\* Start, AppendEntries, InstallSnapshot, NewSnapShot: as long as no term is won
\* twice, entries of the same index and term hold the same command, with crashes,
\* late calls and snapshots.
THEOREM EntriesAgree == Spec => []EntryAgreement
  <1>1. LogInv => EntryAgreement
    <2> SUFFICES ASSUME LogInv, RegularElections, NEW i \in Server, NEW j \in Server,
                        NEW k \in 1..MaxIndex, Holds(i, k), Holds(j, k),
                        At(i, k).term = At(j, k).term
                 PROVE  At(i, k).cmd = At(j, k).cmd
      BY ZenonT(60) DEF EntryAgreement
    <2>1. k \in Nat
      BY SMTT(60), BoundAssumption
    <2>2. TypeOK /\ EntriesUnique
      BY ZenonT(60) DEF LogInv, IndexInv, EntryInv
    <2>3. At(i, k) = At(j, k)
      BY ZenonT(60), <2>1, <2>2, SameEntry
    <2> QED BY ZenonT(60), <2>3
  <1> QED BY <1>1, LogSafety, PTL

\* Without snapshots, logs that agree on an entry agree on the one before it, and so
\* on all entries down to the first.
LEMMA AgreeDown ==
    ASSUME LogInv, RegularElections, ~ SnapshotsOn, NEW i \in Server, NEW j \in Server,
           NEW k \in Nat, Holds(i, k), Holds(j, k), At(i, k).term = At(j, k).term
    PROVE  \A l \in 0..k : At(i, l).term = At(j, l).term
  <1> DEFINE Differ(l) == At(i, l).term # At(j, l).term
             T == {n \in Nat : n <= k /\ Differ(k - n)}
  <1>1. TypeOK /\ EntriesUnique /\ snapshotIndex[i] = 0 /\ snapshotIndex[j] = 0
    BY Zenon DEF LogInv, IndexInv, EntryInv, Unsnapped
  <1>2. LastIndex(i) \in Nat /\ LastIndex(j) \in Nat /\ k <= LastIndex(i) /\ k <= LastIndex(j)
    BY Zenon, <1>1, LogTypes DEF Holds
  <1>3. ASSUME NEW l \in Nat, l >= 1, l <= k, ~ Differ(l)
        PROVE  ~ Differ(l - 1)
    <2>1. l > 0 /\ l <= LastIndex(i) /\ l <= LastIndex(j)
      BY SMTT(60), <1>2, <1>3
    <2>2. Holds(i, l) /\ Holds(j, l)
      BY ZenonT(60), <1>1, <2>1 DEF Holds
    <2> QED BY ZenonT(60), <1>1, <1>3, <2>2, SameEntry
  <1>4. T = {}
    <2> SUFFICES ASSUME T # {} PROVE FALSE
      BY SMTT(60)
    <2>1. PICK n \in T : \A x \in T : n <= x
      <3>1. T \subseteq Nat
        BY SMTT(60)
      <3> HIDE DEF T
      <3> QED BY Zenon, <3>1, LeastNatural
    <2>2. n \in Nat /\ n <= k /\ Differ(k - n)
      BY Zenon, <2>1
    <2>3. n # 0
      <3>1. ~ Differ(k)
        BY SMTT(60)
      <3>2. n = 0 => k - n = k
        BY SMTT(60), <2>2
      <3> QED BY Zenon, <2>2, <3>1, <3>2
    <2>4. /\ n - 1 \in Nat /\ n - 1 <= k /\ ~ (n <= n - 1) /\ k - (n - 1) \in Nat
          /\ k - (n - 1) >= 1 /\ k - (n - 1) <= k /\ k - (n - 1) - 1 = k - n
      BY SMTT(60), <2>2, <2>3
    <2>5. ~ Differ(k - (n - 1))
      BY ZenonT(60), <2>1, <2>4
    <2> QED BY Zenon, <1>3, <2>2, <2>4, <2>5
  <1>5. ASSUME NEW l \in 0..k
        PROVE  ~ Differ(l)
    <2>1. k - l \in Nat /\ k - l <= k /\ k - (k - l) = l
      BY SMTT(60)
    <2> QED BY ZenonT(60), <1>4, <2>1
  <1> QED BY Zenon, <1>5

\* AppendEntries: as long as no term is won twice, and without snapshots, two logs
\* that agree on the term of an entry agree on every entry before it, with crashes,
\* lost and late calls.
THEOREM LogsMatch == ~ SnapshotsOn => (Spec => []LogMatching)
  <1> SUFFICES ASSUME ~ SnapshotsOn PROVE Spec => []LogMatching
    BY SMTT(60)
  <1>1. LogInv => LogMatching
    <2> SUFFICES ASSUME LogInv, RegularElections, NEW i \in Server, NEW j \in Server,
                        NEW k \in 1..MaxIndex, Holds(i, k), Holds(j, k),
                        At(i, k).term = At(j, k).term
                 PROVE  \A l \in MaxOf(snapshotIndex[i], snapshotIndex[j])..k :
                            At(i, l).term = At(j, l).term
      BY ZenonT(60) DEF LogMatching
    <2>1. k \in Nat
      BY SMTT(60), BoundAssumption
    <2>2. snapshotIndex[i] = 0 /\ snapshotIndex[j] = 0
      BY Zenon DEF LogInv, Unsnapped
    <2>3. MaxOf(snapshotIndex[i], snapshotIndex[j]) = 0
      BY SMTT(60), <2>2
    <2> QED BY ZenonT(60), <2>1, <2>3, AgreeDown
  <1> QED BY <1>1, LogSafety, PTL
=============================================================================
