------------------------------ MODULE EntryList ------------------------------
(***************************************************************************)
(* The doubly linked list of a history's entries in                        *)
(* src/linearizability/linearizability.go.  A node is a number; a list is  *)
(* the record of all next and prev pointers.  An entry that is taken out   *)
(* keeps its own pointers, which is how it finds its way back.             *)
(***************************************************************************)
EXTENDS Integers

HeadEntry == 0  \* headEntry
Nil == -1       \* the nil pointer

\* makeLinkedEntries of n entries, and headEntry before them.
MakeList(n) ==
    [next |-> [x \in 0..n |-> IF x < n THEN x + 1 ELSE Nil],
     prev |-> [x \in 0..n |-> IF x > HeadEntry THEN x - 1 ELSE Nil]]

\* Variant of Unlink: the pointers back are left alone.
UnlinkForwards(l, x) == [l EXCEPT !.next[l.prev[x]] = l.next[x]]

\* Half of lift: x.prev.next = x.next; x.next.prev = x.prev.
Unlink(l, x) ==
    [next |-> [l.next EXCEPT ![l.prev[x]] = l.next[x]],
     prev |-> IF l.next[x] = Nil THEN l.prev
              ELSE [l.prev EXCEPT ![l.next[x]] = l.prev[x]]]

\* Half of unlift: x.prev.next = x; x.next.prev = x.
Relink(l, x) ==
    [next |-> [l.next EXCEPT ![l.prev[x]] = x],
     prev |-> IF l.next[x] = Nil THEN l.prev
              ELSE [l.prev EXCEPT ![l.next[x]] = x]]

\* A call and the return that matches it leave the list.
Lift(l, call, match) == Unlink(Unlink(l, call), match)

\* They come back, the last one to leave first.
Unlift(l, call, match) == Relink(Relink(l, match), call)

\* The list holds the nodes of S, in their order, forwards and backwards.
Represents(l, S) ==
    \A x \in S \cup {HeadEntry} :
       /\ IF l.next[x] = Nil THEN \A y \in S : y <= x
          ELSE /\ l.next[x] \in S /\ x < l.next[x]
               /\ \A y \in S : y <= x \/ l.next[x] <= y
       /\ x # HeadEntry => /\ l.prev[x] \in S \cup {HeadEntry} /\ l.prev[x] < x
                          /\ \A y \in S : y <= l.prev[x] \/ x <= y
=============================================================================
