# Verification of the Raft key/value lab

TLA+ models, TLC configurations and TLAPS proofs for the Go code of this repository: a Raft
library (`raft`), a replicated key/value service on top of it (`kvraft`), the simulated
network both run on (`labrpc`) and the checker that judges the service's histories
(`linearizability`). Every definition is translated from the Go source; `PROJECT.json` maps
each one to its file and lines.

## The system and its modules

| Part | Source | Modules |
|---|---|---|
| Raft peer | `raft/raft.go`, `raft/persister.go` | `Raft`, `MCRaft`, `RaftCatchUp`, `RaftProofs`, `RaftElectionProofs`, `RaftLogProofs` |
| Goroutines of one process | `raft/raft.go`, `kvraft/server.go` | `PeerProcess`, `PeerProcessProofs` |
| Clerk and key/value server | `kvraft/client.go`, `server.go`, `common.go` | `KVService`, `KVStore`, `MCKVService`, `KVServiceProofs`, `KVLinearProofs` |
| Network and crash harness | `labrpc/labrpc.go`, `raft/config.go`, `kvraft/config.go` | `LabRpc`, `LabRpcProofs` |
| Linearizability checker | `linearizability/*.go` | `LinCheck`, `EntryList`, `EntryListProofs` |

A clerk calls `Get` or `PutAppend` on the servers in turn. A server that leads hands the
command to Raft with `Start` and waits. Raft replicates it, `applyLogEntryDaemon` sends it over
`applyCh`, and `applyDaemon` applies it once and wakes the waiting handler. When the Raft state
grows too large, `applyDaemon` saves a snapshot and calls `NewSnapShot`; a follower that is too
far behind gets the snapshot with `InstallSnapshot`. All calls go through `labrpc`, which
delays, drops and reorders them, and the harness crashes and restarts servers.

The same code appears at several levels. `Raft` has one action per critical section of `rf.mu`
and computes exactly what the code computes. `PeerProcess` looks inside one process, at what
happens between critical sections, and leaves the computed values open. `KVService` sees Raft
from above. `LabRpc` looks inside a call and inside a restart, which are single steps elsewhere.

### Raft

The variables carry the names of the fields of `type Raft`. `logs[i][1]` is `Logs[0]`, the
placeholder for the snapshot; the contents of a snapshot belong to the service. `persisted` is
the Persister. `votes` holds the counter of each `canvassVotes` closure as the set of peers
counted.

`net` is the set of calls in flight, a call being a request until its handler has run and a
reply until the code behind `Call` has run. Two identical calls in flight are one. Any call may
be lost. A crash loses the requests to the crashed instance and the replies to it; its own
requests are orphaned, which means they may still be served but nobody reads the answer.

Each RPC handler is split by its outcome: `AppendEntries` is `AppendStale`, `AppendPast`,
`AppendMatch` and `AppendMismatch`; its reply handler is `AppendAccepted`, `AppendPanic`,
`StepDownOnAppend`, `BackOff` and `IgnoreReply`, and so on. `CanvassVotes` is the election
timeout, `ConsistencyCheck` a heartbeat to one peer, `TakeBatch` a round of
`applyLogEntryDaemon`, `Restart` a crash with the restart. A slice expression out of range and
the explicit `panic` set `fault`. A slice beyond the length but within the capacity yields
whatever the array holds, which `TakeBatch` models as a free choice.

`Late` says which halves of a call may outlive the caller's timers. `labrpc` delays a request by
at most 26 ms and does not delay a reply, while heartbeats come every 40 ms and election
timeouts after at least 400 ms: `Late = {}`, which all runs
assume. The switch `longReordering` delays replies
(`Late = {"reply"}`), and another network might delay both.

The history variable `anomaly` marks elections that went wrong, which this code permits (see
Findings). The log properties are stated for behaviours without it (`RegularElections`), and
the runs `conflict`, `recovery` and `apply` do not go on from such a state (`CONSTRAINT`).

### PeerProcess

One Raft instance with its KVServer. `pc` says where each goroutine stands: the workers run RPC
handlers, reply handlers, elections and client requests; `election`, `apply`, `service` and
`beat` are the daemons. `mu` and `kvmu` are the holders of the two locks, `timer` is the
election timer with its channel, `signals` counts the goroutines about to call
`commitCond.Broadcast`. A critical section that does not wait inside is one step; one that sends
on `resetTimer` or `applyCh` with the lock held is several.

Abstractions: of the role only "leader or not" is kept; what a critical section decides is a free
choice among its outcomes; `consistencyCheck` only takes and releases `rf.mu` and is left out;
there is one heartbeat daemon; `SkipCommand` (`server.go:195`) is a choice, with no fairness; a
request is not followed beyond `Start`.

### KVService and KVStore

`KVService` models clerks, handlers, `applyDaemon`, snapshots and restarts. A handler's progress
is the `stage` of its call: the two `GetState`, the critical sections of `kv.mu`, `Start` and the
wait are separate steps, with anything in between. A request whose clerk has timed out goes on as
a `stray`. `InstallSnapshot` has three steps, during which `rf.mu` is held.

Raft is reduced to one sequence of committed entries, which the log of every new leader extends.
That is what Leader Completeness and State Machine Safety say, and it is an assumption here.
Further abstractions:

- the rise of `commitIndex` is part of `TakeBatch`;
- one snapshot is in flight at a time, and may arrive late or twice;
- a stray request passes its checks in one step;
- whether a snapshot is due (`needSnapshot`) is a free choice;
- the clerk's order of servers is cyclic, with any first server;
- a value is the sequence of the writes concatenated in it, and an absent key has the empty value.

`KVStore` is the promise to the clerks: one store, every write takes effect exactly once between
its call and its return, and a `Get` returns a value its key had in that time. `KVService` is
shown to implement it by the refinement mapping `Store`, whose store is the outcome of the
committed sequence.

### LabRpc

One name per server, a succession of instances, each with its own ends, Persister and `labrpc`
server. `Call` and `ProcessReq` are split at every point where the network can change under them.
The harness's crash and restart are split likewise: disconnect, `DeleteServer`, copy of the
Persister, `Make`, `AddServer`, connect. A crashed instance goes on calling and writing. A call
stands for what its handler persists. Losses are free choices.

`connect` is the one of `raft/config.go`, which enables ends between connected servers only.
`connectUnlocked` of `kvraft/config.go` does not look; that harness relies on its tests calling
`ConnectAll` when all servers have been restarted.

### LinCheck and EntryList

`LinCheck` is `CheckOperationsTimeout` and `CheckEventsTimeout`, with one goroutine running
`checkSingle` per partition, the kill flag, the results channel and the timeout. `EntryList` is
the linked list with `lift` and `unlift`. Times are positions in the order of all calls and
returns, values are sequences of write marks, and a bitset is a sequence of words of `WordBits`
bits. The hash of a bitset only picks a bucket, so the cache is a set. `KvModel` gives no
`PartitionEvent`, so an event history has one key.

## What TLC checks

| Run | Question | Properties |
|---|---|---|
| `conflict` | Two leaders with different entries at one index, the first again in power, a fourth election after them | `LogMatching`, `LeaderCompleteness`, `CommitMeetsElection` |
| `recovery` | A crash at any moment of an election, replication, snapshots and applying | `TypeOK`, `NoDoubleGrant`, `BallotSafety`, `LogDurable`, `SnapshotCommitted`, `MatchWithinLog`, `NoFault` |
| `apply` | Two commands compete for an index over two terms, with snapshots | `StateMachineSafety`, `EntryAgreement` |
| `catch_up` | Does back-off reach the common prefix, from every pair of logs? | `EventuallyInSync` |
| `kv_retry` | Retries through changes of leader | `Linearizable` (refinement of `KVStore`) |
| `kv_snapshot` | Snapshots, transfer, a crash between any two steps, a late duplicate | `TypeOK`, `ReplicaPrefix`, `SnapshotCoversLog` |
| `goroutines` | Locks, condition variable, channels and `Kill` in one process | `TypeOK`, `LocksExclude`, `DrainReady`, `NoLostWakeup`, `StartWaitsOnlyInCircle`, `CommitsReachService`, `ElectionDaemonExits` |
| `labrpc` | A call through crashes and restarts | `AckedPersists`, `OldInstanceSilent`, `DetachedStaysOut`, `CallReturns` |
| `lincheck` | Is the checker's answer the definition's? | `TypeOK`, `ListSound`, `CallsSound`, `Verdict`, `Answers` |
| `doc_election_safety`, `doc_apply_order`, `doc_start_returns` | Violations, see Findings | one each |

The comment at each property states it and names the code. For every property of a passing run
`PROJECT.json` names a mutant of the model, a plausible bug such as a forgotten `persist`, which
TLC shows to violate it. `LeaderCompleteness` has two, one for each thing it rests on: the
comparison of logs before a vote (`UpToDate`), and that only entries of the leader's own term are
counted (`UpdatedCommit`).

### Bounds

Every bound is a constant with a comment where it is declared.

- Three peers are the smallest cluster in which a majority differs from everybody.
- `conflict` starts with `p`, the leader of term 1, leading again in term 3, while `q` still believes
  to lead term 2 and holds an entry of its own (`ConflictInit`). The entry of `p` at the same index is
  either of term 1, and nobody else has it, or of term 3 and just committed. The run goes to term 4
  and index 2. Term 4 is the least at which an entry of an old term
  that lies on a majority can be overwritten: `p` replicates its entry of term 1 in term 3, and `q`
  wins term 4 with its entry of term 2.
- `recovery` and `apply` start behind a first election (`LedInit`). Both initial predicates
  describe states that `Init` reaches: every winner gets one vote and its other calls are lost. In
  `ConflictInit` `q` has stood in term 1 and `p` in term 2 as well, and all those calls were lost.
- `apply` has logs of one entry, so that no entries follow a snapshot in it, and a leader that
  installs a snapshot without stepping down (`raft.go:539`) has nothing of its own to go on with. The
  two-entry instance is too large for a run; explored once, with `MaxTerm = 4`, `MaxIndex = 2`, two
  commands, snapshots and an initial state in which the leader holds an entry of its first term, it has
  14.5 million states, in which `StateMachineSafety` and `EntryAgreement` hold.
- `recovery` has two entries and `MaxTerm = 1`. The peer that did not hear of the first election can still stand
  in the same term, which is the case in which a vote might be given twice.
- `catch_up` enumerates all pairs of logs up to length 4 over three terms that elections can
  produce (`SameLeaders`), with all snapshots of common entries in which the follower's is not
  ahead of the leader's (`SnapshotAhead = FALSE`).
- `kv_retry` has two clerks with a call each, one election after the first and no snapshots;
  `kv_snapshot` has one clerk with one command, a second election, a crash and a stray request. With
  one command it sees a command that is missing or applied twice, and not one out of order: that
  half of `ReplicaPrefix` rests on the theorem `ReplicasArePrefixes`.
- `goroutines` has two workers, which suffice for the circle of waits, and one index.
- `labrpc` has one call. Calls do not influence each other there: each has its own variables, and
  the harness ignores them. Two servers with two instances each give every order of events.
- `lincheck` has all histories of up to three operations on up to two keys. `WordBits = 2` lets
  three operations need a second word.

Symmetry is used for peers and commands in the safety runs of `MCRaft`, whose definitions treat
them alike. The views leave out what no later step reads, as `MCRaft` and `MCKVService` explain.
Deadlock is not checked where a bounded run ends by running out of its bounds, or where the
process may stop.

### Fairness

- `catch_up`: `heartbeatDaemon` beats for ever (weak fairness), and of infinitely many calls
  infinitely many are served and answered, since the network loses each with a fixed probability
  (strong fairness).
- `goroutines`: a goroutine that can run runs. Where it waits for a lock or a channel fairness is
  strong: Go's mutex passes to waiters in turn, channels serve senders in order and `select`
  chooses at random. Nothing is assumed of the timer, of
  arriving calls, of `SkipCommand` or of `Kill`.
- `labrpc`: the network's own goroutines run and their timers expire. A handler need not return.
- `lincheck`: some goroutine that can run runs, and the timeout comes.

## What is proved

TLAPS checks these theorems for every value of the constants.

| Theorem | Statement | Inductive invariant |
|---|---|---|
| `RaftProofs!TypeCorrect`, `LogAlwaysDurable`, `SnapshotAlwaysCommitted`, `MatchAlwaysWithinLog` | `Spec => []` of `TypeOK`, `LogDurable`, `SnapshotCommitted`, `MatchWithinLog` | `IndexInv`, their conjunction |
| `RaftElectionProofs!NoVoteTwice`, `OneLeaderPerElection`, `CommitsMeetElections` | `Late = {} => (Spec => []NoDoubleGrant)`, and likewise `BallotSafety`, `CommitMeetsElection` | `ElectionInv` |
| `RaftLogProofs!EntriesAgree` | `Spec => []EntryAgreement` | `LogInv` |
| `RaftLogProofs!LogsMatch` | `~ SnapshotsOn => (Spec => []LogMatching)` | `LogInv` |
| `PeerProcessProofs!ProcessSafe`, `TypesOfProcess`, `DrainNeverBlocks`, `WakeupNeverLost` | `Spec => []` of `LocksExclude`, `TypeOK`, `DrainReady`, `NoLostWakeup` | `ProcessInv` |
| `KVServiceProofs!TypesOfService` | `Spec => []TypeOK` | `BaseInv` |
| `KVServiceProofs!ReplicasArePrefixes`, `SnapshotsCoverLogs` | `~ Rollback => (Spec => []ReplicaPrefix)`, and `SnapshotCoversLog` | `ReplicaInv` |
| `KVLinearProofs!ServiceIsLinearizable` | `~ Rollback => (Spec => Linearizable)`, the refinement of `KVStore` | `LinInv` |
| `LabRpcProofs!AckedAlwaysPersists` | `Spec => []AckedPersists` | `AckInv` |
| `LabRpcProofs!OldAlwaysSilent` | `Spec => []OldInstanceSilent` | `SilenceInv` |
| `LabRpcProofs!DetachedAlwaysOut` | `Spec => []DetachedStaysOut` | `DetachInv` |
| `EntryListProofs!LiftUndone` | `lift` leaves the other entries linked in order, `unlift` restores the list | none, it is about operators |

The assumptions are the `ASSUME`s of the modules: a finite, non-empty set of peers, bounds that
are natural numbers, names that differ.

- **Raft indices.** The four invariants need each other. That a snapshot covers committed entries
  keeps `LastIndex` from falling when the log is trimmed, which keeps `matchIndex` inside the log.
  No restriction on lateness is needed, although replies carry no term. A success past the end
  of the log panics, which ends the behaviour in the model. That this never happens (`NoFault`) is
  checked by `recovery` only: for three peers, one term and calls that end in time. With three peers
  an acknowledged entry is on a majority and stays. With five it may be overwritten, and whether a
  late reply can then find a shorter log is open.
- **Elections.** `NoDoubleGrant` is inductive only with the facts that peer and Persister remember
  a vote of their last term (`GrantsKept`), that a candidate has granted nothing in its own term
  since (`OwnVotes`), and that the vote calls in flight belong to the last election, one per
  peer that is not counted (`CallsOfBallot`). `VotesGranted` and `LeaderQuorum` turn counted votes
  into a quorum, and `QuorumsMeet` shows that two sets of N/2 peers, each with its own candidate,
  meet. For commits, at most N/2 peers are below the index that `updateCommitIndex` settles on
  (`IsTarget`), too few to be all the voters of an election and its candidate (`CommitMeetsVotes`).
  Both also settle even numbers of peers.
- **Raft logs.** `EntriesOwned` says that the term of an entry, in a log or in a call, was won, and
  that a leader's log reaches as far as any entry of its term; `EntriesUnique` that an index and a
  term determine the entry and, without snapshots, the term before it. As a leader adds entries
  only at the end of its log, the new one is unique. Crashes, lost and late calls are covered; for `LogsMatch` an induction goes down
  from the entry on which two logs agree.
- **Service.** `ReplicaInv` says that the data of a server, of a snapshot and of a snapshot on its way
  is what the committed commands up to its index make of an empty server (`ReplayInv`). For the
  refinement, `LinInv` adds that an entry in the table of duplicates comes from a committed command
  with the value it had then (`DupSource`), that a command in a log, a request or the history is
  the clerk's present one or an older one (`OpsKnown`), that the present one was not committed
  before its call (`SinceInv`), that no clerk is more than one call ahead of the history
  (`SeqInv`), that no term is ahead of the last election (`TermInv`), and that
  an answer on its way is right (`AnswerOk`). Every step is then a step of `KVStore` or
  a stutter: a commit of a new command, the begin and the return of a call. `Rollback` is the
  behaviour behind `doc_apply_order`, which breaks the replicas, and is excluded.
- **Goroutines.** While `applyLogEntryDaemon` stands between its test and the list of waiters it
  holds `rf.mu`, so `lastApplied = commitIndex` stays true until it waits.
- **Network.** `AckInv` says that the registered instance is the newest one and that a handler that
  has returned has written to its own instance's Persister; together with the last look at the
  server this places the write in the Persister that is copied. `SilenceInv` says that all ends of
  a superseded instance stay disabled. `DetachInv` says that all enabled ends of servers belong to
  newest instances, which are the ones `disconnect` disables, and that only servers that are up are
  connected, so that a new instance owns no enabled end.

Only model-checked, and why:

- the liveness properties (`EventuallyInSync`, `CommitsReachService`, `StartWaitsOnlyInCircle`,
  `ElectionDaemonExits`, `CallReturns`, `Answers`), because fairness is beyond this prover;
- `LeaderCompleteness`, `StateMachineSafety` and `NoFault`, which rest on what a majority has
  acknowledged and on the calls that may still overwrite it;
- `ListSound`, `CallsSound` and `Verdict` of the checker, where the proof of `Verdict` is an
  induction over histories.

## Findings

Three runs end in a violation of something the repository says of itself.

- `doc_election_safety`. `README.md:92` promises one leader per term. `replyHandler` counts a vote
  without comparing the election's term with `CurrentTerm` (`raft.go:901-916`), and a candidate
  that accepts a heartbeat of a newer term stays a candidate (`397-404`). A vote of its old
  election then makes it a second leader of the newer term.
- `doc_apply_order`. `raft.go:968` says that messages must come from one goroutine or are applied
  out of order. `InstallSnapshot` sends from another one and may set `lastApplied` back (`564-571`):
  a later command is applied on the older state and the skipped one is dropped as a duplicate.
- `doc_start_returns`. `raft.go:584-585` says that `Start` returns immediately. `InstallSnapshot`
  waits on `applyCh` with `rf.mu` held, `applyDaemon` waits for `kv.mu`, and a request holds `kv.mu`
  while `Start` waits for `rf.mu`. `StartWaitsOnlyInCircle` shows that, before `Kill`, this circle
  of waits and the one through `NewSnapShot` are the only ways in which `Start` can hang.

Other points met while modelling. No run reports them; where a constant is named, setting it in the
configuration of `conflict` (without its view) or `catch_up` shows the violation:

- a refusal of an old election sets `CurrentTerm` back (`902-903`; `README.md:37` says terms grow);
- `raft.go:102-104` says "Persisted before responding to RPCs", but the candidate's own vote
  (`227-229`), a refused `AppendEntries` (`415-421`) and a step-down on a snapshot reply
  (`828-829`) are not persisted;
- `InstallSnapshot` replaces or cuts the log of a peer that still leads (`539-547`; Leader
  Append-Only, `README.md:93`) and keeps the tail behind a snapshot without comparing terms
  (`558-560`; Log Matching, `README.md:94`);
- `AppendEntries` truncates whatever the entries are (`433`). With requests reordered beyond a
  heartbeat, `Late = {"request", "reply"}`, `LeaderCompleteness` fails: an acknowledged entry is
  removed again. `labrpc.go:35` permits reordering, although its delays are too short for it;
- a follower whose snapshot is ahead of the leader's never syncs (`415-420`, `749-752`). Setting
  `SnapshotAhead = TRUE` in `CatchUp.cfg` shows it;
- `MakeEnd` never sets `done` (`labrpc.go:321-328`), so that a call that is not taken before
  `Cleanup` waits for ever;
- after `Kill`, a handler that has passed its look at `shutdownCh` can wait on `resetTimer` for ever
  with `rf.mu` held (`412`), and `applyDaemon` spins on the closed `applyCh` (`server.go:183`).

## Not modelled

- `labgob` and `DPrintf`: warnings and debug output, without protocol state.
- Of the harnesses: `one`, `wait`, `nCommitted`, `begin`, `end`, sizes and counters, which drive and
  measure tests. Of `labrpc`: statistics, and method lookup by reflection.
- What a killed instance answers (`raft.go:251-255` and its like): the server is deleted before
  `Kill`, so nobody receives it. Only `cleanup` at the end of a test kills first.
- Byte sizes, and with them when exactly a snapshot is taken.
- The number of handlers and goroutines that wait for ever after a lost leadership.
- Equal timestamps in histories, which an unstable sort orders either way.
- Log Matching with snapshots, since the tail kept behind a snapshot breaks it: that such a tail is
  cut at the right place and later overwritten is not checked.
- Raft and `KVService` are not composed: the product is out of TLC's reach. The reduction of Raft in
  `KVService` is an assumption, supported by `conflict` and `apply` for regular elections.
