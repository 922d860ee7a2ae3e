--------------------------- MODULE EntryListProofs ---------------------------
(***************************************************************************)
(* What module EntryList does with a list of any length.                   *)
(***************************************************************************)
EXTENDS EntryList, TLAPS

\* The pointers of a list over the nodes 0..n.
Pointers(n) ==
    [next : [0..n -> 0..n \cup {Nil}], prev : [0..n -> 0..n \cup {Nil}]]

\* Node x is in the list: its neighbours point to it.
Linked(l, x) ==
    /\ l.prev[x] # Nil /\ l.next[l.prev[x]] = x
    /\ l.next[x] # Nil => l.prev[l.next[x]] = x
    /\ l.prev[x] # x /\ l.next[x] # x

\* makeLinkedEntries links all entries.
LEMMA AllLinked ==
    ASSUME NEW n \in Nat
    PROVE  MakeList(n) \in Pointers(n) /\ Represents(MakeList(n), 1..n)
BY DEF MakeList, Pointers, Represents, Nil, HeadEntry

\* One node that leaves the list and comes back leaves no trace.
LEMMA RelinkUndoes ==
    ASSUME NEW n \in Nat, NEW l \in Pointers(n), NEW x \in 0..n, Linked(l, x)
    PROVE  Relink(Unlink(l, x), x) = l
<1> USE DEF Pointers, Linked, Nil
<1> DEFINE u == Unlink(l, x)
<1>1. l.prev[x] \in 0..n /\ (l.next[x] # Nil => l.next[x] \in 0..n)
  OBVIOUS
<1>2. u.next = [l.next EXCEPT ![l.prev[x]] = l.next[x]]
  BY DEF Unlink
<1>3. u.prev = IF l.next[x] = Nil THEN l.prev ELSE [l.prev EXCEPT ![l.next[x]] = l.prev[x]]
  BY DEF Unlink
<1>4. u.prev[x] = l.prev[x] /\ u.next[x] = l.next[x]
  BY <1>1, <1>2, <1>3
<1>5. Relink(u, x).next = l.next
  <2>1. Relink(u, x).next = [u.next EXCEPT ![l.prev[x]] = x]
    BY <1>4 DEF Relink
  <2> QED BY <1>1, <1>2, <2>1
<1>6. Relink(u, x).prev = l.prev
  <2>1. CASE l.next[x] = Nil
    BY <1>3, <1>4, <2>1 DEF Relink
  <2>2. CASE l.next[x] # Nil
    <3>1. Relink(u, x).prev = [u.prev EXCEPT ![l.next[x]] = x]
      BY <1>4, <2>2 DEF Relink
    <3> QED BY <1>1, <1>3, <2>2, <3>1
  <2> QED BY <2>1, <2>2
<1>7. Relink(u, x) = [next |-> Relink(u, x).next, prev |-> Relink(u, x).prev]
  BY DEF Relink
<1> QED BY <1>5, <1>6, <1>7

\* In a list of the nodes of S each of them is linked.
LEMMA MembersLinked ==
    ASSUME NEW n \in Nat, NEW l \in Pointers(n), NEW S \in SUBSET (1..n),
           Represents(l, S), NEW x \in S
    PROVE  Linked(l, x)
<1> USE DEF Pointers, Represents, Nil, HeadEntry
<1>1. l.prev[x] \in S \cup {0} /\ l.prev[x] < x /\ \A y \in S : y <= l.prev[x] \/ x <= y
  OBVIOUS
<1>2. l.next[l.prev[x]] = x
  BY SMTT(60), <1>1
<1>3. ASSUME l.next[x] # Nil
      PROVE  l.next[x] \in S /\ x < l.next[x] /\ l.prev[l.next[x]] = x
  <2> DEFINE q == l.next[x]
             p == l.prev[q]
  <2>1. q \in S /\ x < q /\ \A y \in S : y <= x \/ q <= y
    BY <1>3
  <2>2. p \in S \cup {0} /\ p < q /\ \A y \in S : y <= p \/ q <= y
    BY <2>1
  <2>3. x \in Int /\ q \in Int /\ p \in Int /\ (p \in S \/ p = 0) /\ 0 < x
    BY <2>1, <2>2
  <2> HIDE DEF p, q
  <2>4. x <= p /\ p <= x
    BY <2>1, <2>2, <2>3
  <2> QED BY <2>1, <2>3, <2>4 DEF p, q
<1> QED BY <1>1, <1>2, <1>3 DEF Linked

\* Without node x the list holds the others.
LEMMA UnlinkRemoves ==
    ASSUME NEW n \in Nat, NEW l \in Pointers(n), NEW S \in SUBSET (1..n),
           Represents(l, S), NEW x \in S
    PROVE  Unlink(l, x) \in Pointers(n) /\ Represents(Unlink(l, x), S \ {x})
<1> USE DEF Nil, HeadEntry
<1> DEFINE u == Unlink(l, x)
           p == l.prev[x]
           q == l.next[x]
<1>1. Linked(l, x)
  BY MembersLinked
<1>2. p \in S \cup {0} /\ p \in 0..n /\ p < x
  BY DEF Represents, Pointers
<1>3. q # Nil => q \in S /\ q \in 0..n /\ x < q
  BY DEF Represents, Pointers
<1>4. u.next = [l.next EXCEPT ![p] = q]
  BY DEF Unlink
<1>5. u.prev = IF q = Nil THEN l.prev ELSE [l.prev EXCEPT ![q] = p]
  BY DEF Unlink
<1>6. u \in Pointers(n)
  BY <1>2, <1>3 DEF Pointers, Unlink
<1>7. ASSUME NEW z \in (S \ {x}) \cup {0}
      PROVE  IF u.next[z] = Nil THEN \A y \in S \ {x} : y <= z
             ELSE /\ u.next[z] \in S \ {x} /\ z < u.next[z]
                  /\ \A y \in S \ {x} : y <= z \/ u.next[z] <= y
  <2>1. CASE z = p
    BY <1>1, <1>2, <1>3, <1>4, <2>1 DEF Represents, Pointers, Linked
  <2>2. CASE z # p
    <3>1. u.next[z] = l.next[z]
      BY <1>2, <1>4, <2>2 DEF Pointers
    <3>2. l.next[z] # x
      <4>1. l.next[z] = x => l.prev[x] = z
        BY <1>7 DEF Represents, Pointers
      <4> QED BY <2>2, <4>1
    <3> QED BY <3>1, <3>2, <1>7 DEF Represents
  <2> QED BY <2>1, <2>2
<1>8. ASSUME NEW z \in S \ {x}
      PROVE  /\ u.prev[z] \in (S \ {x}) \cup {0} /\ u.prev[z] < z
             /\ \A y \in S \ {x} : y <= u.prev[z] \/ z <= y
  <2>1. CASE q # Nil /\ z = q
    <3>1. u.prev[z] = p
      BY <1>3, <1>5, <2>1 DEF Pointers
    <3>2. \A y \in S : (y <= p \/ x <= y) /\ (y <= x \/ q <= y)
      <4>1. x # 0 /\ x \in S \cup {0} /\ q # Nil
        BY <2>1
      <4>2. \A y \in S : y <= p \/ x <= y
        BY Zenon, <4>1 DEF Represents
      <4>3. \A y \in S : y <= x \/ q <= y
        BY Zenon, <4>1 DEF Represents
      <4> QED BY Zenon, <4>2, <4>3
    <3>3. ASSUME NEW y \in S \ {x}
          PROVE  y <= p \/ z <= y
      <4>1. y \in Int /\ x \in Int /\ y # x
        OBVIOUS
      <4>2. (y <= p \/ x <= y) /\ (y <= x \/ q <= y)
        BY <3>2
      <4> HIDE DEF p, q
      <4> QED BY <2>1, <4>1, <4>2
    <3>4. p \in (S \ {x}) \cup {0} /\ p < z
      <4>1. x \in Int /\ z \in Int /\ p \in Int /\ x < z
        BY <1>2, <1>3, <2>1
      <4> HIDE DEF p, q
      <4> QED BY <1>2, <4>1
    <3> QED BY Zenon, <3>1, <3>3, <3>4
  <2>2. CASE q = Nil \/ z # q
    <3>1. u.prev[z] = l.prev[z]
      BY <1>3, <1>5, <2>2 DEF Pointers
    <3>2. l.prev[z] # x
      <4>1. Linked(l, z)
        BY Zenon, <1>8, MembersLinked
      <4>2. l.prev[z] = x => l.next[x] = z
        BY Zenon, <4>1 DEF Linked
      <4> QED BY <2>2, <4>2
    <3> QED BY <3>1, <3>2, <1>8 DEF Represents
  <2> QED BY <2>1, <2>2
<1> QED BY <1>6, <1>7, <1>8 DEF Represents

\* lift and unlift (linearizability.go:147-165) on a list of any length: after lift the
\* list holds the entries but for the call and its return, in their order, and unlift
\* brings back exactly the list there was.
THEOREM LiftUndone ==
    ASSUME NEW n \in Nat, NEW l \in Pointers(n), NEW S \in SUBSET (1..n),
           Represents(l, S), NEW call \in S, NEW match \in S \ {call}
    PROVE  /\ Represents(Lift(l, call, match), S \ {call, match})
           /\ Unlift(Lift(l, call, match), call, match) = l
<1> DEFINE u == Unlink(l, call)
<1>1. u \in Pointers(n) /\ Represents(u, S \ {call})
  BY UnlinkRemoves
<1>2. Represents(Unlink(u, match), (S \ {call}) \ {match})
  BY <1>1, UnlinkRemoves
<1>3. Relink(Unlink(u, match), match) = u
  BY <1>1, MembersLinked, RelinkUndoes
<1>4. Relink(u, call) = l
  BY MembersLinked, RelinkUndoes
<1>5. (S \ {call}) \ {match} = S \ {call, match}
  OBVIOUS
<1> QED BY <1>2, <1>3, <1>4, <1>5 DEF Lift, Unlift
=============================================================================
