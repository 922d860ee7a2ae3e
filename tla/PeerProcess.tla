----------------------------- MODULE PeerProcess -----------------------------
(***************************************************************************)
(* The goroutines of one server process: a Raft instance (src/raft/raft.go)*)
(* and the KVServer on top of it (src/kvraft/server.go).  They share two   *)
(* locks, rf.mu and kv.mu, the condition variable commitCond, the          *)
(* unbuffered channels resetTimer and applyCh, and shutdownCh.             *)
(*                                                                         *)
(* A critical section that does not wait inside is one step.  What Raft    *)
(* computes there is module Raft; here its outcomes are free choices, and  *)
(* kept are the role, the indices and who waits for whom.                  *)
(***************************************************************************)
EXTENDS Integers

CONSTANTS
    Worker,     \* bound: goroutines at a time for calls, replies, elections,
                \* heartbeats and requests; more are not followed
    NoOne,      \* holder of a free lock
    MaxIndex,   \* bound: the highest log index
    KillOn      \* the harness may call Kill

ASSUME WorkerAssumption ==
    /\ NoOne \notin Worker \cup {"election", "apply", "service", "beat"}
    /\ \A g \in {"election", "apply", "service", "beat"} : g \notin Worker
ASSUME IndexAssumption == MaxIndex \in Nat /\ KillOn \in BOOLEAN

VARIABLES
    pc,             \* where each goroutine stands
    mu, kvmu,       \* holders of rf.mu and kv.mu
    leader,         \* the role is Leader
    timer,          \* electionTimer: running, its value in the channel, or neither
    commitIndex, lastApplied, snapshotIndex,
    next, last,     \* what applyLogEntryDaemon still has to send, 0 when nothing
    msg,            \* index of the message applyDaemon works on, 0 when none
    delivered,      \* history: highest index handed to the service
    signals,        \* goroutines about to call commitCond.Broadcast
    shutdown,       \* shutdownCh is closed
    killing,        \* Kill has closed shutdownCh and not yet broadcast
    closed,         \* applyCh is closed
    fault           \* a goroutine has sent on the closed channel: panic

locks == <<mu, kvmu>>
indices == <<commitIndex, lastApplied, snapshotIndex>>
batch == <<next, last>>
ending == <<shutdown, killing, closed, fault>>
kvVars == <<msg, delivered>>
vars == <<pc, locks, leader, timer, indices, batch, kvVars, signals, ending>>
-----------------------------------------------------------------------------
Daemon == {"election", "apply", "service", "beat"}
Goroutine == Worker \cup Daemon

\* Places where a worker sends on resetTimer with rf.mu held.
Resetting == {"AEReset", "ISReset", "lastReset"}

WorkerPlace == Resetting \cup
    {"idle", "call", "own", "ISSend", "kvLock", "kvStart"}

ElectionPlace == {"select", "drain", "done"}
ApplyPlace == {"test", "enter", "waiting", "woken", "send", "done"}
ServicePlace == {"recv", "command", "compact", "snapshot"}
BeatPlace == {"rest", "reset"}
Place == WorkerPlace \cup ElectionPlace \cup ApplyPlace \cup ServicePlace \cup BeatPlace

Go(g, place) == pc' = [pc EXCEPT ![g] = place]
Index == 0..MaxIndex
-----------------------------------------------------------------------------
(* Calls of other peers and replies to own calls                           *)

\* RequestVote, AppendEntries and InstallSnapshot look at shutdownCh before they
\* wait for rf.mu; what runs when an own call returns does not.
Arrive(w) ==
    /\ ~ fault /\ pc[w] = "idle"
    /\ \/ ~ shutdown /\ Go(w, "call")
       \/ Go(w, "own")
    /\ UNCHANGED <<locks, leader, timer, indices, batch, kvVars, signals, ending>>

\* A critical section that ends without waiting.
Leave(w) ==
    /\ Go(w, "idle")
    /\ UNCHANGED <<locks, timer, batch, kvVars, ending>>

\* One that goes on to send on resetTimer, and keeps rf.mu meanwhile.
Hold(w, place) ==
    /\ Go(w, place) /\ mu' = w
    /\ UNCHANGED <<kvmu, timer, indices, batch, kvVars, signals, ending>>

\* Variant of Commit: nobody is told.
CommitSilently ==
    \/ UNCHANGED <<commitIndex, signals>>
    \/ \E k \in Index : k > commitIndex /\ commitIndex' = k /\ UNCHANGED signals

\* commitIndex may have grown; then go func() { rf.commitCond.Broadcast() }().
Commit ==
    \/ UNCHANGED <<commitIndex, signals>>
    \/ \E k \in Index : k > commitIndex /\ commitIndex' = k /\ signals' = signals + 1

\* RequestVote, AppendEntries, InstallSnapshot with rf.mu: refused, a new term
\* without a vote, the vote, the valid call, the newer snapshot.
Handle(w) ==
    /\ ~ fault /\ mu = NoOne /\ pc[w] = "call"
    /\ \/ Leave(w) /\ UNCHANGED <<leader, indices, signals>>
       \/ Leave(w) /\ leader' = FALSE /\ UNCHANGED <<indices, signals>>
       \/ Hold(w, "lastReset") /\ leader' = FALSE
       \/ Hold(w, "AEReset") /\ leader' = FALSE
       \/ snapshotIndex < MaxIndex /\ Hold(w, "ISReset") /\ UNCHANGED leader

\* What runs on the peer's own behalf, with rf.mu: canvassVotes, which makes it a
\* candidate, consistencyCheckReplyHandler and the reply handlers of canvassVotes and
\* sendSnapshot.  Nothing to do; no longer leader, with and without a reset of the
\* timer; progress of a follower; a majority of votes.
HandleOwn(w) ==
    /\ ~ fault /\ mu = NoOne /\ pc[w] = "own"
    /\ \/ Leave(w) /\ UNCHANGED <<leader, indices, signals>>
       \/ Leave(w) /\ leader' = FALSE /\ UNCHANGED <<indices, signals>>
       \/ Hold(w, "lastReset") /\ leader' = FALSE
       \/ /\ leader /\ Leave(w) /\ Commit
          /\ UNCHANGED <<leader, lastApplied, snapshotIndex>>
       \/ ~ leader /\ Leave(w) /\ leader' = TRUE /\ UNCHANGED <<indices, signals>>

\* heartbeatDaemon of a leader begins a round: GetState, then the send on resetTimer.
\* It sleeps between rounds and ends when the peer is no longer leader; it looks at
\* shutdownCh only after the send, so that a round can begin after Kill.
Beat ==
    /\ ~ fault /\ mu = NoOne /\ leader /\ pc["beat"] = "rest"
    /\ Go("beat", "reset")
    /\ UNCHANGED <<locks, leader, timer, indices, batch, kvVars, signals, ending>>
-----------------------------------------------------------------------------
(* The election timer                                                      *)

TimerFires ==
    /\ ~ fault /\ timer = "running" /\ timer' = "fired"
    /\ UNCHANGED <<pc, locks, leader, indices, batch, kvVars, signals, ending>>

\* electionDaemon receives from resetTimer.  It stops the timer; when that comes too
\* late it has to drain the timer's channel before it starts the timer again.  The
\* sender g runs on to place.
Reset(g, place) ==
    /\ ~ fault /\ pc["election"] = "select"
    /\ pc' = [pc EXCEPT !["election"] = IF timer = "running" THEN "select" ELSE "drain",
                        ![g] = place]
    /\ UNCHANGED <<kvmu, leader, timer, batch, kvVars, ending>>

\* The sends on resetTimer: AppendEntries goes on to its entries and its commitIndex,
\* InstallSnapshot to its indices and its own send, the others to their end.
ResetTimer(w) ==
    \/ /\ pc[w] = "AEReset" /\ Reset(w, "idle") /\ mu' = NoOne
       /\ Commit /\ UNCHANGED <<lastApplied, snapshotIndex>>
    \/ /\ pc[w] = "ISReset" /\ Reset(w, "ISSend")
       /\ \E s \in Index : /\ s > snapshotIndex /\ snapshotIndex' = s
                          /\ commitIndex' = s /\ lastApplied' = s
       /\ UNCHANGED <<mu, signals>>
    \/ /\ pc[w] = "lastReset" /\ Reset(w, "idle") /\ mu' = NoOne
       /\ UNCHANGED <<indices, signals>>

BeatReset ==
    /\ pc["beat"] = "reset" /\ Reset("beat", "rest")
    /\ UNCHANGED <<mu, indices, signals>>

\* <-rf.electionTimer.C after a Stop that came too late.
Drain ==
    /\ ~ fault /\ pc["election"] = "drain" /\ timer = "fired"
    /\ Go("election", "select") /\ timer' = "running"
    /\ UNCHANGED <<locks, leader, indices, batch, kvVars, signals, ending>>

\* Variant of Rearmed: the timer is not started again after an election.
LeftExpired == "expired"

\* What rf.electionTimer.Reset leaves after a timeout.
Rearmed == "running"

\* The timer's value is received: go canvassVotes().
Timeout ==
    /\ ~ fault /\ pc["election"] = "select" /\ timer = "fired" /\ timer' = Rearmed
    /\ \/ \E w \in Worker : pc[w] = "idle" /\ Go(w, "own")
       \/ (\A w \in Worker : pc[w] # "idle") /\ UNCHANGED pc
    /\ UNCHANGED <<locks, leader, indices, batch, kvVars, signals, ending>>

ElectionExit ==
    /\ ~ fault /\ pc["election"] = "select" /\ shutdown
    /\ Go("election", "done")
    /\ UNCHANGED <<locks, leader, timer, indices, batch, kvVars, signals, ending>>
-----------------------------------------------------------------------------
(* applyLogEntryDaemon                                                     *)

\* Variant of KeptToWait: the lock is given up before the list of waiters is entered.
UnlockedToWait == mu' = NoOne

\* commitCond.Wait is entered with rf.mu held.
KeptToWait == mu' = "apply"

\* With rf.mu held: wait, or take everything up to commitIndex.
TakeOrWait ==
    \/ /\ lastApplied = commitIndex
       /\ Go("apply", "enter") /\ KeptToWait
       /\ UNCHANGED <<lastApplied, batch>>
    \/ /\ lastApplied < commitIndex /\ lastApplied' = commitIndex
       /\ next' = lastApplied + 1 /\ last' = commitIndex
       /\ Go("apply", "send") /\ UNCHANGED mu

Test ==
    /\ ~ fault /\ pc["apply"] = "test" /\ mu = NoOne
    /\ TakeOrWait
    /\ UNCHANGED <<kvmu, leader, timer, commitIndex, snapshotIndex, kvVars, signals, ending>>

\* commitCond.Wait enters the list of waiters before it unlocks rf.mu: a Broadcast
\* that comes before this step misses the daemon.
Wait ==
    /\ ~ fault /\ pc["apply"] = "enter"
    /\ Go("apply", "waiting") /\ mu' = NoOne
    /\ UNCHANGED <<kvmu, leader, timer, indices, batch, kvVars, signals, ending>>

\* Broadcast wakes the daemon when it is among the waiters.
Wake == IF pc["apply"] = "waiting" THEN Go("apply", "woken") ELSE UNCHANGED pc

Broadcast ==
    /\ ~ fault /\ signals > 0 /\ signals' = signals - 1 /\ Wake
    /\ UNCHANGED <<locks, leader, timer, indices, batch, kvVars, ending>>

\* Wait returns with rf.mu: leave if the instance is shut down, else test again.
Resume ==
    /\ ~ fault /\ pc["apply"] = "woken" /\ mu = NoOne
    /\ \/ /\ shutdown /\ Go("apply", "done") /\ closed' = TRUE
          /\ UNCHANGED <<mu, lastApplied, batch>>
       \/ ~ shutdown /\ TakeOrWait /\ UNCHANGED closed
    /\ UNCHANGED <<kvmu, leader, timer, commitIndex, snapshotIndex, kvVars, signals,
                   shutdown, killing, fault>>

\* Variant of BatchSent: one message too many.
BatchSentLate == next > last

\* The message about to be sent is the last of the batch.
BatchSent == next = last

\* One ApplyMsg passes from applyLogEntryDaemon to applyDaemon.
Deliver ==
    /\ ~ fault /\ pc["apply"] = "send" /\ pc["service"] = "recv"
    /\ pc' = [pc EXCEPT !["service"] = "command",
                        !["apply"] = IF BatchSent THEN "test" ELSE "send"]
    /\ msg' = next /\ delivered' = IF next > delivered THEN next ELSE delivered
    /\ next' = IF BatchSent THEN 0 ELSE next + 1
    /\ last' = IF BatchSent THEN 0 ELSE last
    /\ UNCHANGED <<locks, leader, timer, indices, signals, ending>>

\* The snapshot of InstallSnapshot passes to applyDaemon, and rf.mu is released
\* after the save; on the closed channel the send panics.
DeliverSnapshot(w) ==
    /\ ~ fault /\ pc[w] = "ISSend"
    /\ \/ /\ ~ closed /\ pc["service"] = "recv"
          /\ pc' = [pc EXCEPT !["service"] = "snapshot", ![w] = "idle"]
          /\ mu' = NoOne /\ msg' = snapshotIndex
          /\ delivered' = IF snapshotIndex > delivered THEN snapshotIndex ELSE delivered
          /\ UNCHANGED fault
       \/ closed /\ fault' = TRUE /\ UNCHANGED <<pc, mu, msg, delivered>>
    /\ UNCHANGED <<kvmu, leader, timer, indices, batch, signals, shutdown,
                   killing, closed>>
-----------------------------------------------------------------------------
(* The KVServer                                                            *)

\* applyDaemon on an index that its own snapshot already holds, or on no command: it
\* goes on without the lock.
SkipCommand ==
    /\ ~ fault /\ pc["service"] = "command"
    /\ Go("service", "recv") /\ msg' = 0
    /\ UNCHANGED <<locks, leader, timer, indices, batch, delivered, signals, ending>>

\* applyDaemon on a command, under kv.mu; it may have to make a snapshot.
ApplyCommand ==
    /\ ~ fault /\ pc["service"] = "command" /\ kvmu = NoOne
    /\ \/ Go("service", "recv") /\ msg' = 0 /\ UNCHANGED kvmu
       \/ Go("service", "compact") /\ kvmu' = "service" /\ UNCHANGED msg
    /\ UNCHANGED <<mu, leader, timer, indices, batch, delivered, signals, ending>>

\* NewSnapShot takes rf.mu while applyDaemon holds kv.mu.
Compact ==
    /\ ~ fault /\ pc["service"] = "compact" /\ mu = NoOne
    /\ snapshotIndex' = IF snapshotIndex < msg /\ msg <= commitIndex
                        THEN msg ELSE snapshotIndex
    /\ Go("service", "recv") /\ msg' = 0 /\ kvmu' = NoOne
    /\ UNCHANGED <<mu, leader, timer, commitIndex, lastApplied, batch, delivered,
                   signals, ending>>

ApplySnapshot ==
    /\ ~ fault /\ pc["service"] = "snapshot" /\ kvmu = NoOne
    /\ Go("service", "recv") /\ msg' = 0
    /\ UNCHANGED <<locks, leader, timer, indices, batch, delivered, signals, ending>>

\* Get and PutAppend arrive at a leader (GetState).
Request(w) ==
    /\ ~ fault /\ pc[w] = "idle" /\ mu = NoOne /\ leader /\ Go(w, "kvLock")
    /\ UNCHANGED <<locks, leader, timer, indices, batch, kvVars, signals, ending>>

\* They look up the duplicate table under kv.mu and call Start with kv.mu held; a
\* killed instance makes Start return at once.  From then on the request holds no
\* lock and is module KVService's.
Serve(w) ==
    /\ ~ fault
    /\ \/ pc[w] = "kvLock" /\ kvmu = NoOne /\ Go(w, "idle") /\ UNCHANGED kvmu
       \/ /\ pc[w] = "kvLock" /\ kvmu = NoOne /\ ~ shutdown
          /\ Go(w, "kvStart") /\ kvmu' = w
       \/ pc[w] = "kvStart" /\ mu = NoOne /\ Go(w, "idle") /\ kvmu' = NoOne
    /\ UNCHANGED <<mu, leader, timer, indices, batch, kvVars, signals, ending>>
-----------------------------------------------------------------------------
(* Kill closes shutdownCh, then broadcasts; neither takes rf.mu.           *)

Kill ==
    /\ ~ fault /\ KillOn /\ ~ shutdown /\ shutdown' = TRUE /\ killing' = TRUE
    /\ UNCHANGED <<pc, locks, leader, timer, indices, batch, kvVars, signals,
                   closed, fault>>

KillBroadcast ==
    /\ ~ fault /\ killing /\ killing' = FALSE /\ Wake
    /\ UNCHANGED <<locks, leader, timer, indices, batch, kvVars, signals, shutdown,
                   closed, fault>>
-----------------------------------------------------------------------------
Init ==
    /\ pc = [g \in Goroutine |->
                CASE g = "election" -> "select" [] g = "apply" -> "test"
                  [] g = "service" -> "recv" [] g = "beat" -> "rest" [] OTHER -> "idle"]
    /\ mu = NoOne /\ kvmu = NoOne
    /\ leader = FALSE /\ timer = "running"
    /\ commitIndex = 0 /\ lastApplied = 0 /\ snapshotIndex = 0
    /\ next = 0 /\ last = 0 /\ msg = 0 /\ delivered = 0 /\ signals = 0
    /\ shutdown = FALSE /\ killing = FALSE /\ closed = FALSE /\ fault = FALSE

Next ==
    \/ \E w \in Worker :
          \/ Arrive(w) \/ Handle(w) \/ HandleOwn(w) \/ ResetTimer(w)
          \/ DeliverSnapshot(w) \/ Request(w) \/ Serve(w)
    \/ Beat \/ BeatReset \/ TimerFires \/ Drain \/ Timeout \/ ElectionExit
    \/ Test \/ Wait \/ Broadcast \/ Resume \/ Deliver
    \/ SkipCommand \/ ApplyCommand \/ Compact \/ ApplySnapshot
    \/ Kill \/ KillBroadcast

\* Each goroutine's own steps.  It stands at one place at a time.
WorkerStep(w) ==
    \/ Handle(w) \/ HandleOwn(w) \/ ResetTimer(w) \/ DeliverSnapshot(w) \/ Serve(w)
ApplyStep == Test \/ Wait \/ Resume \/ Deliver
ServiceStep == ApplyCommand \/ Compact \/ ApplySnapshot

\* A goroutine that can run runs.  A lock passes to its waiters in turn, a channel
\* serves its senders in order and select picks among the ready cases at random,
\* hence strong fairness where a goroutine waits for a lock or a channel.
Fairness ==
    /\ \A w \in Worker : SF_vars(WorkerStep(w))
    /\ SF_vars(ApplyStep) /\ SF_vars(ServiceStep)
    /\ SF_vars(ElectionExit) /\ WF_vars(Drain)
    /\ WF_vars(Broadcast) /\ WF_vars(KillBroadcast)

Spec == Init /\ [][Next]_vars /\ Fairness
-----------------------------------------------------------------------------
TypeOK ==
    /\ pc \in [Goroutine -> Place]
    /\ \A w \in Worker : pc[w] \in WorkerPlace
    /\ pc["election"] \in ElectionPlace /\ pc["apply"] \in ApplyPlace
    /\ pc["service"] \in ServicePlace /\ pc["beat"] \in BeatPlace
    /\ mu \in Goroutine \cup {NoOne} /\ kvmu \in Goroutine \cup {NoOne}
    /\ leader \in BOOLEAN
    /\ timer \in {"running", "fired", "expired"}
    /\ commitIndex \in Index /\ lastApplied \in Index /\ snapshotIndex \in Index
    /\ next \in Index /\ last \in Index
    /\ msg \in Index /\ delivered \in Index /\ signals \in Nat
    /\ shutdown \in BOOLEAN /\ killing \in BOOLEAN /\ closed \in BOOLEAN
    /\ fault \in BOOLEAN

\* Places at which a goroutine holds rf.mu across steps, and those at which it holds
\* kv.mu.
HoldsMu == Resetting \cup {"ISSend", "enter"}
HoldsKvMu == {"kvStart", "compact"}

\* The locks exclude: rf.mu is held by the one goroutine that stands inside a critical
\* section which waits (raft.go:285, 412, 536, 549, 571, 715, 906, 940), kv.mu by the
\* one that calls into Raft (server.go:92, 151, 224).
LocksExclude ==
    \A g \in Goroutine : /\ mu = g <=> pc[g] \in HoldsMu
                         /\ kvmu = g <=> pc[g] \in HoldsKvMu

\* electionDaemon drains the timer's channel (raft.go:878) only when the timer's value
\* is there: the receive does not block the daemon that every handler depends on.
DrainReady == pc["election"] = "drain" => timer = "fired"

\* applyLogEntryDaemon never sleeps in commitCond.Wait (raft.go:940) over an entry that
\* is committed and not taken unless a Broadcast is still to come (441, 686), although
\* the Broadcast runs in a goroutine of its own, at any later time and without rf.mu.
NoLostWakeup ==
    pc["apply"] = "waiting" => lastApplied = commitIndex \/ signals > 0

\* The circle of waits: InstallSnapshot sends on applyCh with rf.mu held while
\* applyDaemon, the receiver, waits for rf.mu in NewSnapShot, or for kv.mu that a
\* request holds which waits for rf.mu in Start.
Circle ==
    \E w \in Worker :
       /\ pc[w] = "ISSend"
       /\ \/ pc["service"] = "compact"
          \/ /\ pc["service"] \in {"command", "snapshot"}
             /\ \E v \in Worker : pc[v] = "kvStart"

\* Start returns (raft.go:584-588, "return immediately").
StartReturns == \A w \in Worker : pc[w] = "kvStart" ~> pc[w] # "kvStart"

\* While the instance is not killed, that circle is the only way in which a call of
\* Start (raft.go:605) can wait for rf.mu for ever.
StartWaitsOnlyInCircle == [](~ shutdown /\ ~ Circle) => StartReturns

\* Outside the circle and before Kill every committed index reaches the service over
\* applyCh (raft.go:969, 549, 571), unless a snapshot sets commitIndex back
\* (raft.go:545, 564).
CommitsReachService ==
    [](~ shutdown /\ ~ Circle) =>
       \A k \in 1..MaxIndex : commitIndex >= k ~> (delivered >= k \/ commitIndex < k)

\* electionDaemon ends after Kill whatever the other goroutines wait for
\* (raft.go:873-875).
ElectionDaemonExits == shutdown ~> (pc["election"] = "done" \/ fault)
=============================================================================
