------------------------------ MODULE KVStore ------------------------------
(***************************************************************************)
(* What the key/value service promises to its clerks (linearizability):    *)
(* one store, on which every Put and Append takes effect exactly once      *)
(* between its begin and its end, and a Get returns a value that its key   *)
(* has had in between.  A read leaves no trace in the store, so this is    *)
(* the same as letting the Get happen at that moment.                      *)
(***************************************************************************)
EXTENDS Sequences

CONSTANTS
    Clerk, Key, None,
    Op      \* calls: records with the fields kind, key, client and seq

VARIABLES
    store,      \* the value of every key
    pending,    \* the call each clerk is in, or None
    done,       \* the write of that call has taken effect
    seen,       \* the values the key of that call has had since its begin
    result      \* what the last Get of each clerk has returned

vars == <<store, pending, done, seen, result>>

\* The value op leaves under its key.  A value is the sequence of the writes that
\* made it, the empty one for a key that is not there.
Written(op, value) ==
    CASE op.kind = "Get" -> value
      [] op.kind = "Put" -> <<<<op.client, op.seq>>>>
      [] op.kind = "Append" -> Append(value, <<op.client, op.seq>>)

Init ==
    /\ store = [k \in Key |-> <<>>]
    /\ pending = [c \in Clerk |-> None]
    /\ done = [c \in Clerk |-> FALSE]
    /\ seen = [c \in Clerk |-> {}]
    /\ result = [c \in Clerk |-> <<>>]

Call(c, op) ==
    /\ pending[c] = None /\ op.client = c
    /\ pending' = [pending EXCEPT ![c] = op]
    /\ done' = [done EXCEPT ![c] = FALSE]
    /\ seen' = [seen EXCEPT ![c] = {store[op.key]}]
    /\ UNCHANGED <<store, result>>

\* The write of c takes effect, once.
Perform(c) ==
    /\ pending[c] # None /\ pending[c].kind # "Get" /\ ~ done[c]
    /\ store' = [store EXCEPT ![pending[c].key] = Written(pending[c], @)]
    /\ done' = [done EXCEPT ![c] = TRUE]
    /\ seen' = [d \in Clerk |-> IF pending[d] = None THEN {}
                                ELSE seen[d] \cup {store'[pending[d].key]}]
    /\ UNCHANGED <<pending, result>>

Return(c) ==
    /\ pending[c] # None
    /\ IF pending[c].kind = "Get" THEN \E v \in seen[c] : result' = [result EXCEPT ![c] = v]
                                  ELSE done[c] /\ UNCHANGED result
    /\ pending' = [pending EXCEPT ![c] = None]
    /\ done' = [done EXCEPT ![c] = FALSE]
    /\ seen' = [seen EXCEPT ![c] = {}]
    /\ UNCHANGED store

Next == \E c \in Clerk : (\E op \in Op : Call(c, op)) \/ Perform(c) \/ Return(c)

Spec == Init /\ [][Next]_vars
============================================================================
