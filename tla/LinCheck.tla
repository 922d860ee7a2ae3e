------------------------------ MODULE LinCheck ------------------------------
(***************************************************************************)
(* The linearizability checker (src/linearizability): CheckOperations and  *)
(* CheckEvents, a goroutine with checkSingle for every partition of the    *)
(* history, and the key/value model of models.go.                          *)
(*                                                                         *)
(* An operation's times are the positions of its call and its return among *)
(* all calls and returns.  The value an operation writes is its own mark,  *)
(* and a value is the sequence of the marks that are concatenated in it.   *)
(***************************************************************************)
EXTENDS EntryList, FiniteSets, SequencesExt

CONSTANTS
    MaxOps,     \* bound: operations of a history
    MaxKeys,    \* bound: keys of a history
    WordBits    \* bits of a word of a bitset, 64 in the code

ASSUME BoundAssumption ==
    MaxOps \in Nat /\ MaxKeys \in Nat \ {0} /\ WordBits \in Nat \ {0}

VARIABLES
    history,    \* []Operation, or the same as []Event
    asEvents,   \* CheckEvents rather than CheckOperations
    timed,      \* timeout > 0
    search,     \* partition -> what the goroutine of checkSingle holds
    kill,       \* the flag shared with the goroutines
    ok, count,  \* the locals of CheckOperationsTimeout
    main        \* where CheckOperationsTimeout stands

given == <<history, asEvents, timed>>
vars == <<given, search, kill, ok, count, main>>
-----------------------------------------------------------------------------
(* Histories                                                               *)

Ops == DOMAIN history

\* A history is cut by key.  An event history is not cut.
Partition ==
    IF asEvents THEN {Ops}
    ELSE {{i \in Ops : history[i].key = history[j].key} : j \in Ops}

\* Variant of Number: events keep the numbers they came with.
NotRenumbered(P, i) == IF asEvents THEN i ELSE Cardinality({j \in P : j < i})

\* The number (id) of an operation in its partition: its place in the slice, or, after
\* renumber, the order in which the numbers turn up among the events.
Number(P, i) ==
    IF asEvents THEN Cardinality({j \in P : history[j].call < history[i].call})
    ELSE Cardinality({j \in P : j < i})

\* The place of time t among the entries of a partition, which are sorted by time.
Rank(P, t) ==
    Cardinality({i \in P : history[i].call <= t}) + Cardinality({i \in P : history[i].ret <= t})

\* makeLinkedEntries: the fields of the nodes other than their links.  Only the node of
\* a call has a match, the node of the return.
Nodes(P) ==
    [x \in 1..2 * Cardinality(P) |->
       LET i == CHOOSE j \in P : x \in {Rank(P, history[j].call), Rank(P, history[j].ret)} IN
       [op |-> i, id |-> Number(P, i),
        match |-> IF x = Rank(P, history[i].call) THEN Rank(P, history[i].ret) ELSE Nil]]

(* Bitsets: a sequence of words, each the set of its bits that are set     *)

NewBitset(bits) ==
    [w \in 1..(bits \div WordBits + (IF bits % WordBits # 0 THEN 1 ELSE 0)) |-> {}]
Set(b, pos) == [b EXCEPT ![pos \div WordBits + 1] = @ \cup {pos % WordBits}]
Clear(b, pos) == [b EXCEPT ![pos \div WordBits + 1] = @ \ {pos % WordBits}]

(* The key/value model                                                     *)

\* Step: whether the operation can have its output, and the new value of the key.
StepOK(state, i) == history[i].kind = "Get" => history[i].out = state
StepState(state, i) ==
    CASE history[i].kind = "Get" -> state
      [] history[i].kind = "Put" -> <<i>>
      [] history[i].kind = "Append" -> Append(state, i)
-----------------------------------------------------------------------------
(* checkSingle                                                             *)

\* Before the loop.
StartSearch(P) ==
    LET list == MakeList(2 * Cardinality(P)) IN
    [pc |-> "search", node |-> Nodes(P), list |-> list, entry |-> list.next[HeadEntry],
     state |-> <<>>, linearized |-> NewBitset(Cardinality(P)), cache |-> {},
     calls |-> <<>>]

Finish(P, verdict) == search' = [search EXCEPT ![P].pc = verdict]

Searching(P) == search[P].pc = "search" /\ search[P].list.next[HeadEntry] # Nil /\ ~ kill
Entry(P) == search[P].node[search[P].entry]

\* Variant of CacheContains: the state is not compared.
CacheContainsBits(P, new) == \E e \in search[P].cache : e.linearized = new.linearized

\* The bitset's hash only picks the bucket in which equal entries are found.
CacheContains(P, new) == new \in search[P].cache

NewCacheEntry(P) ==
    [linearized |-> Set(search[P].linearized, Entry(P).id),
     state |-> StepState(search[P].state, Entry(P).op)]

CanTake(P) ==
    /\ Entry(P).match # Nil
    /\ StepOK(search[P].state, Entry(P).op) /\ ~ CacheContains(P, NewCacheEntry(P))

\* The loop ends: everything is linearized, or the check has been given up.
Accepts(P) ==
    /\ search[P].pc = "search" /\ search[P].list.next[HeadEntry] = Nil
    /\ Finish(P, "true") /\ UNCHANGED <<given, kill, ok, count, main>>
GivesUp(P) ==
    /\ search[P].pc = "search" /\ search[P].list.next[HeadEntry] # Nil /\ kill
    /\ Finish(P, "false") /\ UNCHANGED <<given, kill, ok, count, main>>

\* A call that can be the next one, and has not been tried here, is linearized.
Linearize(P) ==
    /\ Searching(P) /\ CanTake(P)
    /\ LET s == search[P]
           list == Lift(s.list, s.entry, Entry(P).match) IN
       search' = [search EXCEPT ![P] =
          [s EXCEPT !.list = list, !.entry = list.next[HeadEntry],
                    !.state = NewCacheEntry(P).state,
                    !.linearized = NewCacheEntry(P).linearized,
                    !.cache = @ \cup {NewCacheEntry(P)},
                    !.calls = Append(@, [entry |-> s.entry, state |-> s.state])]]
    /\ UNCHANGED <<given, kill, ok, count, main>>

\* Variant of NextEntry: the search stays where it is.
SameEntry(P) == search[P].entry

NextEntry(P) == search[P].list.next[search[P].entry]

\* One that cannot is passed over.
PassOver(P) ==
    /\ Searching(P) /\ Entry(P).match # Nil /\ ~ CanTake(P)
    /\ search' = [search EXCEPT ![P].entry = NextEntry(P)]
    /\ UNCHANGED <<given, kill, ok, count, main>>

\* Variant of Popped: the call stays on the stack.
NotPopped(P, top) ==
    [search[P] EXCEPT !.state = top.state,
        !.linearized = Clear(@, search[P].node[top.entry].id)]

\* The last call is taken back: the locals but for the list and the entry.
Popped(P, top) ==
    [search[P] EXCEPT !.state = top.state, !.calls = Front(@),
        !.linearized = Clear(@, search[P].node[top.entry].id)]

\* At a return whose call is not linearized nothing further can be: the last call is
\* taken back and the search goes on behind it.
Backtrack(P) ==
    /\ Searching(P) /\ Entry(P).match = Nil /\ search[P].calls # <<>>
    /\ LET top == Last(search[P].calls)
           list == Unlift(search[P].list, top.entry, search[P].node[top.entry].match) IN
       search' = [search EXCEPT ![P] =
          [Popped(P, top) EXCEPT !.list = list, !.entry = list.next[top.entry]]]
    /\ UNCHANGED <<given, kill, ok, count, main>>

Exhausted(P) ==
    /\ Searching(P) /\ Entry(P).match = Nil /\ search[P].calls = <<>>
    /\ Finish(P, "false") /\ UNCHANGED <<given, kill, ok, count, main>>
-----------------------------------------------------------------------------
(* CheckOperationsTimeout, CheckEventsTimeout                              *)

\* A result is received over the unbuffered channel.  A goroutine whose result is not
\* received any more stays where it is.
Receive(P) ==
    /\ main = "wait" /\ search[P].pc \in {"true", "false"}
    /\ Finish(P, "sent")
    /\ ok' = (ok /\ search[P].pc = "true")
    /\ IF ok' THEN /\ count' = count + 1 /\ UNCHANGED kill
                   /\ main' = IF count' >= Cardinality(Partition) THEN "returned" ELSE main
       ELSE kill' = TRUE /\ main' = "returned" /\ UNCHANGED count
    /\ UNCHANGED given

Timeout ==
    /\ main = "wait" /\ timed
    /\ main' = "timedOut"
    /\ UNCHANGED <<given, search, kill, ok, count>>
-----------------------------------------------------------------------------
(* What is given to the checker                                            *)

Value(W) == {v \in UNION {[1..k -> W] : k \in 0..Cardinality(W)} : IsInjective(v)}

\* The times of n operations.
Order ==
    [n \in 0..MaxOps |->
       {o \in [1..n -> {t \in (1..2 * n) \X (1..2 * n) : t[1] < t[2]}] :
          \A i, j \in 1..n : i # j => {o[i][1], o[i][2]} \cap {o[j][1], o[j][2]} = {}}]

\* Histories up to the names of keys and, for operations, up to their places in the
\* slice, which are here in the order of their calls.  An event history has one key:
\* KvModel does not say how to cut it, and its Step is that of one key.
Init ==
    /\ asEvents \in BOOLEAN /\ timed \in BOOLEAN
    /\ \E n \in 0..MaxOps : \E order \in Order[n], kind \in [1..n -> {"Get", "Put", "Append"}] :
          /\ asEvents \/ \A i, j \in 1..n : i < j => order[i][1] < order[j][1]
          /\ \E key \in [1..n -> IF asEvents THEN {1} ELSE 1..MaxKeys],
                out \in [{i \in 1..n : kind[i] = "Get"} ->
                            Value({i \in 1..n : kind[i] # "Get"})] :
                /\ \A i \in 1..n : key[i] = 1 \/ \E j \in 1..(i - 1) : key[j] = key[i] - 1
                /\ history = [i \in 1..n |->
                      [kind |-> kind[i], key |-> key[i],
                       out |-> IF kind[i] = "Get" THEN out[i] ELSE <<>>,
                       call |-> order[i][1], ret |-> order[i][2]]]
    /\ search = [P \in Partition |-> StartSearch(P)]
    /\ kill = FALSE /\ ok = TRUE /\ count = 0 /\ main = "wait"

SearchStep(P) ==
    \/ Accepts(P) \/ GivesUp(P) \/ Linearize(P) \/ PassOver(P) \/ Backtrack(P)
    \/ Exhausted(P)

Next ==
    \/ \E P \in Partition : SearchStep(P) \/ Receive(P)
    \/ Timeout

\* The goroutines run, and a timer expires.
Spec ==
    /\ Init /\ [][Next]_vars
    /\ WF_vars(\E P \in Partition : SearchStep(P) \/ Receive(P)) /\ WF_vars(Timeout)
-----------------------------------------------------------------------------
TypeOK ==
    /\ timed \in BOOLEAN /\ asEvents \in BOOLEAN /\ kill \in BOOLEAN /\ ok \in BOOLEAN
    /\ count \in 0..Cardinality(Partition) /\ main \in {"wait", "returned", "timedOut"}
    /\ \A P \in Partition :
          LET s == search[P]  node == 0..2 * Cardinality(P) IN
          /\ s.pc \in {"search", "true", "false", "sent"}
          /\ s.list.next \in [node -> node \cup {Nil}]
          /\ s.list.prev \in [node -> node \cup {Nil}]
          /\ s.entry \in node \ {HeadEntry} \/ s.list.next[HeadEntry] = Nil
          /\ Len(s.calls) <= Cardinality(P)

Live(P) ==
    DOMAIN search[P].node \
       UNION {{c.entry, search[P].node[c.entry].match} : c \in ToSet(search[P].calls)}

\* However calls are lifted and put back, the list holds exactly the entries that are
\* not linearized, in the order of time, forwards and backwards
\* (linearizability.go:147-165): the pointers that lifted entries keep are never stale.
ListSound == \A P \in Partition : Represents(search[P].list, Live(P))

\* The calls on the stack are the beginning of a linearization: no operation is on it
\* before one that had returned when it was called, the saved and the current value are
\* those to which they lead from the initial one, each with the output it had, and the
\* bits that are set are those of the calls (linearizability.go:174-212).
CallsSound ==
    \A P \in Partition :
       LET s == search[P]
           op == [k \in DOMAIN s.calls |-> s.node[s.calls[k].entry].op]
           after(k) == IF k < Len(op) THEN s.calls[k + 1].state ELSE s.state IN
       /\ \A k \in DOMAIN op, i \in P :
             history[i].ret < history[op[k]].call => \E j \in 1..k : op[j] = i
       /\ \A k \in DOMAIN op :
             StepOK(s.calls[k].state, op[k]) /\ after(k) = StepState(s.calls[k].state, op[k])
       /\ (IF op = <<>> THEN s.state ELSE s.calls[1].state) = <<>>
       /\ UNION {{(w - 1) * WordBits + bit : bit \in s.linearized[w]} :
                   w \in DOMAIN s.linearized} = {Number(P, op[k]) : k \in DOMAIN op}
       /\ Cardinality({Number(P, i) : i \in P}) = Cardinality(P)

\* The value of a key before place k of an order of all operations: the last write that
\* is a Put, and what has been appended since.
ValueAt(order, k, key) ==
    LET puts == {j \in 1..(k - 1) : /\ history[order[j]].key = key
                                    /\ history[order[j]].kind = "Put"}
        since == SubSeq(order, IF puts = {} THEN 1 ELSE Max(puts), k - 1) IN
    SelectSeq(since, LAMBDA i : history[i].key = key /\ history[i].kind # "Get")

Linearizable ==
    \E order \in [Ops -> Ops] :
       /\ IsInjective(order)
       /\ \A j, k \in Ops : j < k => ~ (history[order[k]].ret < history[order[j]].call)
       /\ \A k \in Ops : history[order[k]].kind = "Get" =>
             history[order[k]].out = ValueAt(order, k, history[order[k]].key)

\* The answer is right: a history is refused only if no order of its operations that
\* respects time explains it, whatever the partitions and the cache leave out, and it is
\* accepted only if there is one, unless the time ran out ("if this operation times out,
\* then a false positive is possible", linearizability.go:234).
Verdict ==
    /\ main = "returned" => (ok <=> Linearizable)
    /\ main = "timedOut" => ok \/ ~ Linearizable

\* The check answers, and every goroutine it started ends its search, unless there is no
\* partition to wait for and no timeout either (linearizability.go:251-268).
Answers ==
    Partition # {} \/ timed =>
       /\ <>(main # "wait")
       /\ <>(\A P \in Partition : search[P].pc # "search")
=============================================================================
