-------------------------- MODULE PeerProcessProofs --------------------------
(***************************************************************************)
(* Proofs about module PeerProcess, for any number of goroutines and any   *)
(* indices.                                                                *)
(***************************************************************************)
EXTENDS PeerProcess, TLAPS

\* The inductive invariant.  LocksExclude is what makes the wait safe: while the
\* daemon stands between its test and the list of waiters it holds rf.mu, so that
\* commitIndex stays.
ProcessInv ==
    /\ TypeOK
    /\ LocksExclude
    /\ pc["election"] = "drain" => timer = "fired"
    /\ timer # "expired"
    /\ NoLostWakeup
    /\ pc["apply"] = "enter" => lastApplied = commitIndex
    /\ pc["apply"] = "send" => next \in 1..last

\* A critical section of Raft that ends at once keeps the invariant: it starts with
\* rf.mu free, so the daemon is not about to wait, and a commitIndex that grows
\* brings a Broadcast with it.
LEMMA LeaveKeeps ==
    ASSUME ProcessInv, NEW w \in Worker, mu = NoOne, pc[w] \in {"call", "own"},
           Leave(w), leader' \in BOOLEAN, Commit,
           lastApplied' = lastApplied, snapshotIndex' = snapshotIndex
    PROVE  ProcessInv'
<1> USE WorkerAssumption, IndexAssumption
      DEF ProcessInv, TypeOK, LocksExclude, NoLostWakeup, Goroutine, Daemon, Place,
          WorkerPlace, ElectionPlace, ApplyPlace, ServicePlace, BeatPlace, Resetting,
          HoldsMu, HoldsKvMu, Index, locks, indices, batch, ending, kvVars
<1>1. TypeOK'
  BY DEF Leave, Go, Commit
<1>2. LocksExclude'
  BY DEF Leave, Go
<1>3. NoLostWakeup'
  BY DEF Leave, Go, Commit
<1>4. /\ pc'["election"] = pc["election"] /\ pc'["apply"] = pc["apply"]
      /\ pc["apply"] # "enter"
  BY DEF Leave, Go
<1> QED BY <1>1, <1>2, <1>3, <1>4 DEF Leave

\* A critical section that goes on to send takes the free rf.mu and keeps it.
LEMMA HoldKeeps ==
    ASSUME ProcessInv, NEW w \in Worker, mu = NoOne, pc[w] \in {"call", "own"},
           NEW place \in Resetting, Hold(w, place), leader' \in BOOLEAN
    PROVE  ProcessInv'
<1> USE WorkerAssumption, IndexAssumption
      DEF ProcessInv, TypeOK, LocksExclude, NoLostWakeup, Goroutine, Daemon, Place,
          WorkerPlace, ElectionPlace, ApplyPlace, ServicePlace, BeatPlace, Resetting,
          HoldsMu, HoldsKvMu, Index, locks, indices, batch, ending, kvVars
<1>1. TypeOK'
  BY DEF Hold, Go
<1>2. LocksExclude'
  BY DEF Hold, Go
<1> QED BY <1>1, <1>2 DEF Hold, Go

\* A send on resetTimer that electionDaemon receives, by the goroutine that holds
\* rf.mu and lets go of it, or goes on to its send on applyCh.
LEMMA ResetKeeps ==
    ASSUME ProcessInv, NEW w \in Worker, ResetTimer(w)
    PROVE  ProcessInv'
<1> USE WorkerAssumption, IndexAssumption
      DEF ProcessInv, TypeOK, LocksExclude, NoLostWakeup, Goroutine, Daemon, Place,
          WorkerPlace, ElectionPlace, ApplyPlace, ServicePlace, BeatPlace, Resetting,
          HoldsMu, HoldsKvMu, Index, locks, indices, batch, ending, kvVars
<1>1. mu = w /\ pc["apply"] # "enter" /\ timer \in {"running", "fired"}
  BY DEF ResetTimer
<1>2. CASE pc[w] = "AEReset"
  <2>1. /\ pc["election"] = "select" /\ Commit /\ mu' = NoOne
        /\ pc' = [pc EXCEPT !["election"] = IF timer = "running" THEN "select" ELSE "drain",
                            ![w] = "idle"]
        /\ UNCHANGED <<lastApplied, snapshotIndex, kvmu, leader, timer, batch, kvVars, ending>>
    BY <1>2 DEF ResetTimer, Reset
  <2>2. TypeOK'
    BY <1>1, <2>1 DEF Commit
  <2>3. LocksExclude'
    BY <1>1, <1>2, <2>1
  <2>4. NoLostWakeup'
    BY <2>1 DEF Commit
  <2> QED BY <1>1, <2>1, <2>2, <2>3, <2>4
<1>3. CASE pc[w] = "ISReset"
  <2>1. /\ pc["election"] = "select"
        /\ pc' = [pc EXCEPT !["election"] = IF timer = "running" THEN "select" ELSE "drain",
                            ![w] = "ISSend"]
        /\ commitIndex' \in Index /\ lastApplied' = commitIndex'
        /\ snapshotIndex' = commitIndex'
        /\ UNCHANGED <<mu, signals, kvmu, leader, timer, batch, kvVars, ending>>
    BY <1>3 DEF ResetTimer, Reset
  <2>2. TypeOK'
    BY <1>1, <2>1
  <2>3. LocksExclude'
    BY <1>1, <1>3, <2>1
  <2> QED BY <1>1, <2>1, <2>2, <2>3
<1>4. CASE pc[w] = "lastReset"
  <2>1. /\ pc["election"] = "select" /\ mu' = NoOne
        /\ pc' = [pc EXCEPT !["election"] = IF timer = "running" THEN "select" ELSE "drain",
                            ![w] = "idle"]
        /\ UNCHANGED <<indices, signals, kvmu, leader, timer, batch, kvVars, ending>>
    BY <1>4 DEF ResetTimer, Reset
  <2>2. TypeOK'
    BY <1>1, <2>1
  <2>3. LocksExclude'
    BY <1>1, <1>4, <2>1
  <2> QED BY <1>1, <2>1, <2>2, <2>3
<1> QED BY <1>2, <1>3, <1>4 DEF ResetTimer

\* applyLogEntryDaemon, with rf.mu, goes to wait or takes a batch.
LEMMA TakeKeeps ==
    ASSUME ProcessInv, pc["apply"] \in {"test", "woken"}, mu = NoOne, TakeOrWait,
           UNCHANGED <<kvmu, leader, timer, commitIndex, snapshotIndex, kvVars, signals,
                       ending>>
    PROVE  ProcessInv'
<1> USE WorkerAssumption, IndexAssumption
      DEF ProcessInv, TypeOK, LocksExclude, NoLostWakeup, Goroutine, Daemon, Place,
          WorkerPlace, ElectionPlace, ApplyPlace, ServicePlace, BeatPlace, Resetting,
          HoldsMu, HoldsKvMu, Index, locks, indices, batch, ending, kvVars
<1>1. CASE lastApplied = commitIndex
  BY <1>1 DEF TakeOrWait, KeptToWait, Go
<1>2. CASE lastApplied < commitIndex
  BY <1>2 DEF TakeOrWait, Go
<1> QED BY <1>1, <1>2 DEF TakeOrWait

\* Every step of the process keeps the invariant.
LEMMA StepKeeps ==
    ASSUME ProcessInv, Next
    PROVE  ProcessInv'
<1> USE WorkerAssumption, IndexAssumption
      DEF ProcessInv, TypeOK, LocksExclude, NoLostWakeup, Goroutine, Daemon, Place,
          WorkerPlace, ElectionPlace, ApplyPlace, ServicePlace, BeatPlace, Resetting,
          HoldsMu, HoldsKvMu, Index, locks, indices, batch, ending, kvVars
<1>1. ASSUME NEW w \in Worker, Arrive(w) PROVE ProcessInv'
  BY <1>1 DEF Arrive, Go
<1>2. ASSUME NEW w \in Worker, Handle(w) PROVE ProcessInv'
  <2>1. mu = NoOne /\ pc[w] \in {"call", "own"}
    BY <1>2 DEF Handle
  <2>2. ASSUME Leave(w), leader' \in BOOLEAN, UNCHANGED <<indices, signals>>
        PROVE  ProcessInv'
    BY SMTT(60), <2>1, <2>2, LeaveKeeps DEF Commit
  <2>3. ASSUME NEW place \in Resetting, Hold(w, place), leader' \in BOOLEAN
        PROVE  ProcessInv'
    BY SMTT(60), <2>1, <2>3, HoldKeeps
  <2> QED BY Zenon, <1>2, <2>2, <2>3 DEF Handle
<1>3. ASSUME NEW w \in Worker, HandleOwn(w) PROVE ProcessInv'
  <2>1. mu = NoOne /\ pc[w] \in {"call", "own"}
    BY <1>3 DEF HandleOwn
  <2>2. ASSUME Leave(w), leader' \in BOOLEAN, Commit,
               UNCHANGED <<lastApplied, snapshotIndex>>
        PROVE  ProcessInv'
    BY <2>1, <2>2, LeaveKeeps
  <2>3. ASSUME Hold(w, "lastReset"), leader' \in BOOLEAN
        PROVE  ProcessInv'
    BY SMTT(60), <2>1, <2>3, HoldKeeps
  <2> QED BY Zenon, <1>3, <2>2, <2>3 DEF HandleOwn, Commit
<1>4. ASSUME NEW w \in Worker, ResetTimer(w) PROVE ProcessInv'
  BY <1>4, ResetKeeps
<1>5. ASSUME NEW w \in Worker, DeliverSnapshot(w) PROVE ProcessInv'
  <2>1. CASE closed
    BY <1>5, <2>1 DEF DeliverSnapshot
  <2>2. CASE ~ closed
    <3>1. /\ pc["service"] = "recv" /\ pc[w] = "ISSend" /\ mu' = NoOne
          /\ pc' = [pc EXCEPT !["service"] = "snapshot", ![w] = "idle"]
          /\ msg' = snapshotIndex /\ delivered' \in {delivered, snapshotIndex}
          /\ UNCHANGED <<kvmu, leader, timer, indices, batch, signals, ending>>
      BY <1>5, <2>2 DEF DeliverSnapshot
    <3>2. TypeOK'
      BY <3>1
    <3>3. LocksExclude'
      BY <3>1
    <3> QED BY SMTT(60), <3>1, <3>2, <3>3
  <2> QED BY <2>1, <2>2
<1>6. ASSUME NEW w \in Worker, Request(w) PROVE ProcessInv'
  BY <1>6 DEF Request, Go
<1>7. ASSUME NEW w \in Worker, Serve(w) PROVE ProcessInv'
  BY <1>7 DEF Serve, Go
<1>8. ASSUME Beat PROVE ProcessInv'
  BY <1>8 DEF Beat, Go
<1>9. ASSUME BeatReset PROVE ProcessInv'
  BY <1>9 DEF BeatReset, Reset, Go
<1>10. ASSUME TimerFires PROVE ProcessInv'
  BY <1>10 DEF TimerFires
<1>11. ASSUME Drain PROVE ProcessInv'
  BY <1>11 DEF Drain, Go
<1>12. ASSUME Timeout PROVE ProcessInv'
  BY <1>12 DEF Timeout, Rearmed, Go
<1>13. ASSUME ElectionExit PROVE ProcessInv'
  BY <1>13 DEF ElectionExit, Go
<1>14. ASSUME Test PROVE ProcessInv'
  BY SMTT(60), <1>14, TakeKeeps DEF Test
<1>15. ASSUME Wait PROVE ProcessInv'
  BY <1>15 DEF Wait, Go
<1>16. ASSUME Broadcast PROVE ProcessInv'
  BY <1>16 DEF Broadcast, Wake, Go
<1>17. ASSUME Resume PROVE ProcessInv'
  <2>1. CASE ~ shutdown
    BY SMTT(60), <1>17, <2>1, TakeKeeps DEF Resume
  <2>2. CASE shutdown
    BY <1>17, <2>2 DEF Resume, Go
  <2> QED BY SMTT(60), <2>1, <2>2
<1>18. ASSUME Deliver PROVE ProcessInv'
  BY <1>18 DEF Deliver, BatchSent
<1>19. ASSUME SkipCommand PROVE ProcessInv'
  BY <1>19 DEF SkipCommand, Go
<1>20. ASSUME ApplyCommand PROVE ProcessInv'
  BY <1>20 DEF ApplyCommand, Go
<1>21. ASSUME Compact PROVE ProcessInv'
  BY <1>21 DEF Compact, Go
<1>22. ASSUME ApplySnapshot PROVE ProcessInv'
  BY <1>22 DEF ApplySnapshot, Go
<1>23. ASSUME Kill PROVE ProcessInv'
  BY <1>23 DEF Kill
<1>24. ASSUME KillBroadcast PROVE ProcessInv'
  <2>1. pc' = pc \/ (pc["apply"] = "waiting" /\ pc' = [pc EXCEPT !["apply"] = "woken"])
    BY <1>24 DEF KillBroadcast, Wake, Go
  <2>2. /\ killing' = FALSE
        /\ UNCHANGED <<locks, leader, timer, indices, batch, kvVars, signals, shutdown,
                       closed, fault>>
    BY <1>24 DEF KillBroadcast
  <2>3. killing' \in BOOLEAN
    BY Zenon, <2>2
  <2>4. pc' \in [Goroutine -> Place] /\ pc'["apply"] \in ApplyPlace
    BY <2>1
  <2>5. TypeOK'
    BY <2>1, <2>2, <2>3, <2>4
  <2>6. LocksExclude'
    BY <2>1, <2>2
  <2> QED BY SMTT(60), <2>1, <2>2, <2>5, <2>6
<1> QED BY Zenon, <1>1, <1>2, <1>3, <1>4, <1>5, <1>6, <1>7, <1>8, <1>9, <1>10,
           <1>11, <1>12, <1>13, <1>14, <1>15, <1>16, <1>17, <1>18,
           <1>19, <1>20, <1>21, <1>22, <1>23, <1>24 DEF Next

\* In every reachable state, with any number of goroutines: the indices and places
\* have their types, rf.mu and kv.mu exclude, electionDaemon never drains an empty
\* timer channel, and applyLogEntryDaemon never sleeps over a committed entry without
\* a Broadcast to come.
THEOREM ProcessSafe == Spec => [](TypeOK /\ LocksExclude /\ DrainReady /\ NoLostWakeup)
<1>1. Init => ProcessInv
  <2> SUFFICES ASSUME Init PROVE ProcessInv
    OBVIOUS
  <2> USE WorkerAssumption, IndexAssumption DEF Goroutine, Daemon
  <2>1. /\ pc["election"] = "select" /\ pc["apply"] = "test"
        /\ pc["service"] = "recv" /\ pc["beat"] = "rest"
    BY DEF Init
  <2>2. \A w \in Worker : pc[w] = "idle"
    BY DEF Init
  <2>3. pc \in [Goroutine -> Place]
    <3>1. DOMAIN pc = Goroutine /\ pc = [g \in Goroutine |-> pc[g]]
      BY Zenon DEF Init
    <3>2. \A g \in Goroutine : pc[g] \in Place
      BY <2>1, <2>2 DEF Place, WorkerPlace, ElectionPlace, ApplyPlace, ServicePlace, BeatPlace
    <3> QED BY Zenon, <3>1, <3>2
  <2>4. /\ leader \in BOOLEAN /\ shutdown \in BOOLEAN /\ killing \in BOOLEAN
        /\ closed \in BOOLEAN /\ fault \in BOOLEAN
    BY Zenon DEF Init
  <2>5. TypeOK
    BY <2>1, <2>2, <2>3, <2>4
       DEF Init, TypeOK, WorkerPlace, ElectionPlace, ApplyPlace, ServicePlace, BeatPlace,
           Index
  <2>6. LocksExclude
    BY <2>1, <2>2 DEF Init, LocksExclude, HoldsMu, HoldsKvMu, Resetting
  <2> QED BY <2>1, <2>5, <2>6 DEF Init, ProcessInv, NoLostWakeup
<1>2. ASSUME ProcessInv, UNCHANGED vars PROVE ProcessInv'
  BY <1>2 DEF ProcessInv, TypeOK, LocksExclude, NoLostWakeup, vars, locks, indices,
              batch, ending, kvVars
<1>3. ProcessInv /\ [Next]_vars => ProcessInv'
  BY <1>2, StepKeeps
<1>4. ProcessInv => TypeOK /\ LocksExclude /\ DrainReady /\ NoLostWakeup
  BY DEF ProcessInv, DrainReady
<1> QED BY <1>1, <1>3, <1>4, PTL DEF Spec

\* The lost wake-up alone, as the run checks it (raft.go:939-949, 441, 686).
THEOREM WakeupNeverLost == Spec => []NoLostWakeup
BY ProcessSafe, PTL

\* The drain of the election timer alone, as the run checks it (raft.go:878): whenever
\* electionDaemon takes from the timer's channel, there is something in it.
THEOREM DrainNeverBlocks == Spec => []DrainReady
BY ProcessSafe, PTL

\* Every goroutine is at a place of its own code, with the indices in range.
THEOREM TypesOfProcess == Spec => []TypeOK
BY ProcessSafe, PTL
=============================================================================
