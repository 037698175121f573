# Ratatosk in TLA+

Ratatosk is a Redis-compatible in-memory server in Rust. This directory holds TLA+
models of the parts of it whose correctness depends on interleavings, failures or
ordering, and of the command engine itself, the TLC configurations that check them on small instances, and TLAPS proofs
of the properties that matter most. `PROJECT.json` maps every definition to the source
lines it models and lists the runs, the mutants, the hazards and the theorems. Paths
below are relative to `src/crates/` unless they start with `src/` or `docs/`.

Contents: 1 the system, 2 the modules and the code, 3 the runs, 4 fairness, 5 proofs,
6 findings, 7 what is not modelled, 8 the plan, 9 running it.

## 1. The system

### 1.1 Components

| Component | Source | State | Operations |
|---|---|---|---|
| Shared-memory transport | `ratatosk-shm/src/{ring,stream}.rs` | two single-producer byte rings, head and tail indices, parked flags; one control socket for doorbells | `push`, `pop`, `park_for_*`, `should_ring`, `poll_read`, `poll_write`, `poll_doorbell`, close |
| Shared-memory set-up | `ratatosk-shm/src/{segment,layout,handshake,fdpass}.rs` | the mapping and its header | create, map, handshake |
| Append-only file | `ratatosk-server/src/persistence/{mod,aof}.rs`, `ratatosk-persist/src/aof/*` | bounded command queue, worker, buffered writer, BASE and INCR files, manifest, error latch, generation | append, fsync policies, rewrite, enable, disable, recovery |
| Durability capture | `ratatosk-engine/src/command/mod.rs`, `ratatosk-persist/src/aof/recovery.rs` | the frozen clock, effects of the running command | capture, canonical forms, replay |
| RDB snapshots | `ratatosk-server/src/persistence/{mod,rdb}.rs`, `ratatosk-persist/src/rdb/*` | `dump.rdb`, `rdb_bgsave_in_progress`, status of the last save | SAVE, BGSAVE, load |
| Transactions | `ratatosk-engine/src/command/{cmd_transaction,mod}.rs`, `keyspace.rs` | queue and watches of each client, key versions, `watch_refs` | MULTI, EXEC, DISCARD, WATCH, UNWATCH |
| Blocking commands | `ratatosk-server/src/client/execution.rs`, `ratatosk-engine/src/clients.rs`, `command/cmd_list_blocking.rs` | waiters per key, keys per client, one `Notify` per client | probe, register, wait, retry, time out, disconnect |
| Keyspace | `ratatosk-engine/src/{keyspace,expiry,eviction}.rs` | per-database data, deadlines, versions, memory counters | every write command, lazy and active expiry, eviction, FLUSH, SWAPDB |
| Data types | `ratatosk-engine/src/command/cmd_*.rs` | values of keys | some 300 commands |
| Dispatch | `ratatosk-engine/src/command/mod.rs`, `ratatosk-server/src/client/readonly_batch.rs`, `ratatosk-engine/src/direct.rs` | the command table | arity and keys of a command, marks of writes, refusal over `maxmemory`; two more implementations of many commands |
| Sessions and event loop | `ratatosk-server/src/{event_loop,client/*}.rs` | parser, output queue, pipeline; listeners, tasks, shutdown flag | accept, read, execute, write, cron, drain |
| Pub/sub, tracking, MONITOR | `ratatosk-engine/src/{pubsub,notification,tracking,keyspace}.rs` | subscription maps and their inverses, tracking table, one bounded queue per connection, pending MONITOR lines | subscribe, publish, track, invalidate, redirect, monitor |
| Access control | `ratatosk-engine/src/{acl,security,auth_rate_limiter}.rs` | users, selectors, failure counters | AUTH, ACL |
| RESP codec | `ratatosk-resp/src/*` | incremental parser | parse, encode |
| Configuration, statistics, scripting, replication stubs, tools | see `PROJECT.json` | | |

### 1.2 How they interact

A session (`client/session_loop.rs`) is one tokio task. It parses commands and either
runs a batch of pure reads on the *lock-free* path (`client/readonly_batch.rs`: only the
lock of one database, for one read at a time) or takes the *server lock* and runs
`execute_argv` (`command/mod.rs`). Every `Db` has its own mutex inside; commands that run
under the server lock take it for each access and give it back, so lock-free readers come
between two accesses of one command. After a write, and still under the server lock, the
session hands the captured effects to the AOF worker through a bounded queue and waits
for it, wakes blocked clients and sends invalidations. The AOF worker is a task of its
own that never takes the server lock. BGSAVE and SAVE leave the lock while they copy and
write. Cron work (active expiry, the `everysec` flush, auto-rewrite) runs in the event
loop under the server lock. The shared-memory transport replaces the socket below a
session; its peer is another process.

### 1.3 What is hard, and what makes each component correct

| Component | Hard because | Correct when |
|---|---|---|
| Shared-memory transport | two processes, store buffers, sleeping on a doorbell that may be dropped or drained by the other half, index wrap, peer closing at any step | bytes arrive once and in order; no unread byte is overwritten; no side sleeps beside progress; end of file comes last and comes |
| Append-only file | crash at any step, timeouts that race a late write, a full queue, half-written transactions, file switches | what a restart recovers is a prefix of what ran, with every promised write; the lock holder gets an answer |
| Durability capture | a command is logged in another form than it was sent in, and replayed at another time | replay gives the keyspace the server had, and is never refused |
| RDB | two saves at once, copy beside writes, in-place write, kill | an acknowledged snapshot loads |
| Transactions | check-then-run over separate locks, versions kept only while watched, the write marked by guessing from name and reply | no EXEC runs over a changed watched key; registrations neither leak nor vanish |
| Blocking | lock given back between probe, registration and retries; only one waiter is notified | no value lost or duplicated; nobody sleeps beside a value; timeouts end |
| Keyspace and data types | several indexes over one map, keys that are expired and still there, three implementations of one command | indexes agree; an expired key is invisible; an error changes nothing; every write is marked; the implementations agree |
| Sessions, event loop | pipelines, disconnects, shutdown order | replies in order; what an aborted task had written is kept or was never promised |
| Pub/sub, tracking, MONITOR | registration after the read, slow consumers, a redirection that ends, wake-ups without a lock | no stale cached value nobody is told of; no silent gap; registries name only who is there |

The places in the code where this bites, one by one, are the `hazards` of `PROJECT.json`.

## 2. The modules and the code

Each module models whole handlers: an action is what one thread does between two points
where another actor can see or change the state. What that point is differs per
component, and is stated at the head of each module.

**`ShmRing`**: one direction of a stream. A step is one access to shared memory.
`ptail`/`chead` are the indices the owner has computed, `tail`/`head` the ones memory
holds; `DrainTail`/`DrainHead` move one to the other (a store buffer), and the SeqCst
fences of `should_ring` and `park_for_*` wait for that. `PushCopy` and `Publish` are
`RingProducer::push`; `PushRing` is `should_ring_consumer` with `ring_doorbell`;
`ParkForSpace`, `RecheckSpace` and `WriteDoorbell` are the slow path of `poll_write`, and
`Pop` ... `ReadDoorbell` the mirror image in `poll_read`. `WakeProducer`/`WakeConsumer`
are the reactor's wake-ups, which look only at the socket. `OtherHalfDrains*` is the
stream's other direction reading the doorbells of this one. `SpuriousRead`/`SpuriousWrite`
are polls that nothing caused. Indices are numbers modulo `IndexSpace`, for 2^64.

**`AofPipeline`** with **`DurableLog`**: from a client's write to the bytes a restart
reads. `Execute` is the admission test, the run and the hand-over of the captured effects;
`holder` is the task with the server lock and the request it waits for (`Enqueue`,
`EnqueueTimeout`, `ReplyTimeout`, `AppendDone`, ...). `Worker*` are the arms of the
worker's loop together with the buffered writer (`buf` is the `BufWriter`, `os` what the
kernel has, `synced` how much of it survives a crash); `Materialize*` and
`CommitManifestSwitch` are the BASE rewrite in its steps. `Crash` keeps any prefix of the
unsynced frames and may tear the next one. `LoadStartupData` is recovery: it cuts a torn
tail or an unfinished MULTI, and refuses other damage. `StartBgRewriteAof`, `DisableAof`,
`EnableAofFromSnapshot`, `SetAofFsyncPolicy` and `ShutdownAofForExit` are the run-time
changes, and `AbortClientTask` is the end of the shutdown's grace period, which drops the
task that waits for the worker. `DurableLog` is the contract of `docs/operations.md`, section 4: writes are
applied in order, some are promised, and a restart keeps a prefix with all promised ones.
`AofPipeline` implements it with `applied <- mem`, `promised <- safe` (property `Durable`).

**`AofEffects`**: what is in a record. `Handler` and its operators are the commands,
`Capture` is `capture_durability_effects` with each canonical form, `ReplayUnit` and
`ReplayUnits` are `replay_reader` at the recorded clock, as recursive functions so that
proofs can reason about them. A command does not run in one step. `Execute` (one command of
a client) and `Exec` (a queue) freeze the clock, `task` is what the task with the server
lock has still to do, and then each command takes the lock of its database for its handler
(`RunHandler`) and again for the looks of its capture (`CaptureEffects`); the last one adds
the unit to the log. Between these steps the wall clock goes on, `FastRead` is a lock-free
reader, which removes what has expired by the real clock, and `Restart` is a kill. The log
holds every captured unit; how it gets to disk is `AofPipeline`. `Evict`, `SwapDb`, `Eval`
and `ExecReset` (a RESET queued between the commands of a MULTI) go past the capture, and
`ProtectDefaultUser` locks recovery out. `strayed` is a history variable: the keys that one
of these changed since the last start, and those a reader removed, by a deadline behind the
frozen clock, while a command under way was yet to use them (`StraysWithout`; see
section 6).

**`RdbSave`**: SAVE, BGSAVE and a SAVE queued in a MULTI. `BeginCommand`/`WriteDb` is a
command that writes its databases one after another; `SnapshotDb` copies one database
at a time; `CreateDump` truncates, `WriteChunk` writes at the writer's own offset;
`FinishSave` records the result and clears the flag; `LoadStartupData` checks the CRC.

**`Transactions`**: `Execute` is a command outside MULTI; `Multi`, `Queue`,
`QueueRejected`, `CmdWatch`, `CmdUnwatch`, `Discard` and `Disconnect` are what a client
does to its transaction; `ExecBegin`, `CheckVersion`, `CheckDeadline`, `ExecStart`,
`ExecStep` and `ExecEnd` are `cmd_exec`, one step per lock it takes. `RemoveKey` is a
removal by the server (active expiry, eviction), `FastRead` a lock-free reader. `Run` with
`ShouldMark` and `KeyPositions` is `execute_argv` with `maybe_track_write_version`.
`changed`, `stale`, `lapsed` and `raced` are history variables.

**`Blocking`**: `Call` is the probe, `Flag`, `Register` and `CheckDeadline` the way to the
first wait, `Notified`, `Sleep`, `ReadBytes`, `PeerClosed` and `Deadline` the arms of
`wait_for_blocking_ready`, `Retry` the command run again, `Clear`, `Unflag`, `Finish` the
ways out. `Push` and `SwapDb` are other clients. Values are numbered, so each one can
be followed.

**The command engine** is eleven modules of operators and one that composes them.
`Keyspace` is one logical database (`data`, the `expires` index, the purge of expired keys,
the estimate of memory). `StringCommands` (with bitmaps), `ListCommands`, `SetCommands`,
`HashCommands`, `SortedSetCommands`, `StreamCommands` and `KeyCommands` have one operator
per handler of `command/cmd_*.rs`, from a database, a command record and a clock to
`[r, db]`: the reply and the database it leaves. `CommandTable` is `COMMAND_SPECS` with the
key positions read from it, and `Dispatch` what surrounds a handler: the keys whose
version, tracking and wake-up marks it sets (`TouchedKeys`), and whether it may grow memory.
`FastPath` is the second implementation of the reads (`readonly_batch.rs`) and `DirectApi`
the third (`DirectDb`). **`Commands`** puts them together: `Execute` runs one command under
the server lock after admission, `ExpireCycle` and `Evict` are the cron's, `Tick` the clock.
Conventions:

- A command record is a well-formed argument list; an argument that does not parse as a
  number is `NotInt`. Wrong arity and unknown options, which change nothing, are left out.
- Random draws are an argument (`c.seed`), glob patterns the set of names they match
  (`c.pat`). Floats are whole numbers or infinite. Members, fields and list elements are
  numbers; strings are short byte sequences, because bit and integer commands look into them.
- The memory counter of the code drifts when values change in place, so eviction may run in
  any state; which key it takes is open.
- `Commands` runs one *suite* at a time, a pair of a type and a key: its initial states
  choose the suite, so all commands of a type meet all values of that type.

**`Fanout`**: what one session makes the server push to others. `Preloop`, then a wait whose
branches are `PubSubMsg`, `PubSubClosed`, `MonitorWake` and `NetworkRead` (the `select!` of
`wait_for_session_activity`), then the commands of one pipeline (`CmdSubscribe`,
`CmdUnsubscribe`, `CmdPublish`, `CmdTrackingOn`, `CmdTrackingOff`, `CmdCaching`, `CmdRead`,
`CmdWrite`, `CmdMonitor`, `CmdReset`), then `PostCommand`; `Hangup` and `Finish` end a
connection. `FastRead` and `FastPost` are the two steps of a lock-free read: the value
first, the registration under the lock later. `SendToClients` puts a push in the bounded
queue of its connection or drops the sender. Beside the server, `cached` is what the
application behind the connections holds (`none`, `fresh`, `stale`, or `raced` for a
lock-free read that a write overtook), and `due` the messages each subscriber is owed.

**`Subsequences`** is `Only`, the elements of a sequence that are in a set in their order,
written as a recursive function so that proofs can reason about it; `RdbSave`,
`Blocking` and `Fanout` use it.

`MC<Module>` extends a module with the definitions its configurations use.

## 3. The runs

| Run | Configuration | Shows |
|---|---|---|
| `shm_ring` | `ShmRing.cfg` | `Fifo`, `IndexOrder`, `NeverCorrupt`: nothing overwritten, lost, reordered or taken for corruption; `NoLostDataWakeup`, `NoLostSpaceWakeup`: no side asleep beside progress without a bell; `EofAfterData`, `EofReached`; `Delivery`: bytes written are read and blocked writers get through |
| `aof_crash` | `AofPipeline.cfg` | `LogOrdered`, `NoHoleInLog`, `RefusedOnlyWhenNothingPromised`, and `Durable`: the refinement of `DurableLog` |
| `aof_progress` | `AofPipeline_live.cfg` | `RightDb`: each record under its SELECT across file switches; `LockReleased`: the lock holder gets an answer, although some waits have no timeout |
| `effects_replay` | `AofEffects.cfg` | `ReplayMatchesLive`: replay gives back every key that nothing unlogged has changed, and no reader has removed under a command about to use it, since the last start; when there is no such key, no record is refused |
| `rdb_saves` | `RdbSave.cfg` | `AckedSaveOnDisk`, `FlagOwned`, `NeverLoadsMixture` |
| `rdb_kill_during_bgsave` | `RdbSave_kill.cfg` | finding 1 (violation of `RestartKeepsSaved`) |
| `tx_watch` | `Transactions.cfg` | `RefCountsExact`, `NoStaleExec` |
| `tx_expiry_race` | `Transactions_expiry.cfg` | finding 2 (violation of `ExpiryAborts`) |
| `blocking` | `Blocking.cfg` | `RegistryExact`, `NothingLost`, `NoStrandedWaiter`, `TimedAnswered` |
| `commands` | `Commands.cfg` | `WellFormed`: no empty collection, both indexes of sorted sets and the index of deadlines agree, compact encodings only where they fit; `StreamsSound`: entries, last ID and pending lists of streams; `ErrorsChangeNothing`; `ExpiredInvisible`; `MarksWrites`: what a command changes is what it marks for WATCH, tracking and blocked clients; `GrowthIsRefusable`; `PathsAgree`: handler, fast path and `DirectDb` give the same result |
| `fast_path` | `Commands_fastpath.cfg` | finding 3 (violation of `FastPathTransparent`) |
| `fanout` | `Fanout.cfg` | `Coherent`: no overwritten value stays cached unless its owner is told; `NoGap`: messages in order and without a gap; `RegistriesExact`; `MonitorHears`; `LossCloses`: a client that lost a message is disconnected |

`shm_ring`, `aof_crash`, `effects_replay` and `tx_watch` also check `TypeOK`. Every
property of a passing run has a mutant in `PROJECT.json`: the code with a plausible mistake
(an operator `Mut...` of the module), under which TLC finds that property violated.

Deadlock checking is off except in `commands` and `fast_path`, where some command is always
possible: the other models have bounded inputs, and clients may stop sending. What must not
stop is stated as a liveness property instead.

### Bounds

- **ShmRing**: `Cap` 2, `IndexSpace` 4, `Total` 5 bytes, `SockCap` 1. The index space is
  the smallest multiple of `Cap` in which full and empty differ from a corrupt distance,
  five bytes take both indices past their wrap with the ring full and empty on the way,
  and a socket of one byte is full at the second doorbell.
- **AofPipeline** (`aof_crash`): a queue of 1, 2 units of which one is a transaction, 3
  file generations, 2 restarts, 1 I/O fault, all three policies. One entry makes the
  queue full at the next request; two units show order and holes; the third generation is
  a second rewrite; the second restart starts from what the first one repaired, and one of
  the two may be a shutdown that aborts a waiting task.
  (`aof_progress`): 3 units in two databases, no restart, so that SELECT must change
  within a file and across a switch.
- **AofEffects**: one key in two databases, clock 1..3, 21 commands that reach each branch
  of the capture, five queues of two commands for EXEC (they set a deadline and work over
  it, change the type of a key, or leave nothing to log), 3 commands in all, and all
  unlogged operations.
  A wrong record needs a command that sets a state, one that is captured over it, and at
  most one that reveals the difference; a reader's race needs a deadline, a tick of the
  clock and a command frozen before it.
- **RdbSave**: 2 databases, 2 saves of any kind, 2 writing commands, 1 kill, 1 I/O error.
- **Transactions**: 2 clients (symmetric), 2 databases, one key, queues of length 1, 3
  executed or queued commands, clock 0..2. Watch, change, queue, EXEC needs two commands;
  the third allows a change and a change back, or a second client's transaction.
- **Blocking**: 2 clients, 2 keys, 3 values (pushed two at a time or already in the other
  database), 1 SWAPDB, an append that may fail. A notification that goes to the wrong
  client needs exactly two waiters.
- **Commands**: two keys of the suite's type and a third of another type, databases 0 and 1,
  clock 1..2 with a second of 2 ms, `i64` of 5 bits, strings of at most 2 bytes, lists and
  collections of at most 2 elements (`MCBounded`), ranges of `DirectDb` of at most 1 entry
  (`DefaultMaxRange`, for 10,000), so that a set of two exceeds it, `maxmemory` of 220 bytes of the estimate.
  Every invariant but `WellFormed` and `StreamsSound` looks at *each* command of the suite
  in *each* reachable state, so that 5,877 states stand for several hundred thousand
  command executions; two elements and two stream entries reach first, last, empty and
  not empty, and the narrow `i64` reaches every overflow branch.
- **Fanout**: 3 connections, 2 keys of which one has the broadcast prefix, a queue of 1, one
  channel, shard channel and pattern, 4 workloads with at most 3 commands per client. A
  queue of one is full at the second push; a redirection, its target and a writer are three
  connections; the fourth workload shares one queue between invalidations and messages.

## 4. Fairness

- **ShmRing**: weak fairness of the store buffers (a store becomes visible), of each step
  of a `poll_*` call that has begun (a running task goes on), of `PollWrite`/`PollRead` of
  a task that is ready, and of the wake-ups, whose guard is that the *socket* is readable.
  No fairness for closing, for spurious polls or for the other half: they may never
  happen. So `Delivery` rests on the doorbells alone.
- **AofPipeline** (`FairSpec`): weak fairness of `WorkerStep` (the worker task runs and
  disk operations return) and of `HolderProgress` (the task with the lock goes on when its
  answer is there or there is room). None for clients, for the timeouts, for faults:
  `LockReleased` does not depend on a timer, because `CONFIG SET` waits without one.
- **Blocking**: weak fairness of each session's own steps, among them the 500 ms poll of
  `wait_for_blocking_ready` (tokio runs ready tasks, its mutex is fair, timers fire) and of
  `Expire` (a deadline passes). None for pushes, swaps or disconnects.
- **Fanout** (`FairSpec`): weak fairness of what each session does on its own (tokio polls
  ready tasks), and strong fairness of `PubSubClosed`, because `select!` picks at random
  among ready branches: a channel found closed again and again beside busy input is
  served at last. None for commands, input or hang-ups.
- The other modules check safety only.

## 5. Proofs

The theorems hold for every value of the constants that satisfies the named assumptions of
the modules: any number of clients, keys, units, files, saves or bytes, any capacity, any
number of faults and restarts. Each component has a proof module of its own
(`<Module>Proofs`, which extends the component's module), and every `Spec => []P` is
proved from an inductive invariant that TLC had checked first on the component's run.

| Module | Theorem | Property |
|---|---|---|
| `ShmRingProofs` | `TypeCorrect`, `RingSafe`, `NeverReportsCorruption`, `InOrder`, `NoLostWakeups`, `SpaceWakeupKept`, `EofIsLast` | `TypeOK`, `IndexOrder`, `NeverCorrupt`, `Fifo`, `NoLostDataWakeup`, `NoLostSpaceWakeup`, `EofAfterData` |
| `AofPipelineProofs` | `PipelineInvariance`, `TypeCorrect`, `LogIsOrdered`, `RecordsInRightDb`, `NoHole`, `NoPromiseRefused`, `PipelineIsDurable` | `TypeOK`, `LogOrdered`, `RightDb`, `NoHoleInLog`, `RefusedOnlyWhenNothingPromised`, `Durable` |
| `AofEffectsProofs` | `EffectsInvariant`, `TypeCorrect`, `ReplayIsFaithful` | `TypeOK`, `ReplayMatchesLive` |
| `RdbSaveProofs` | `SaveInvariance`, `TypeCorrect`, `FlagIsOwned`, `NoMixtureLoaded`, `AcknowledgedSaveOnDisk` | `FlagOwned`, `NeverLoadsMixture`, `AckedSaveOnDisk` |
| `TransactionsProofs` | `TypeCorrect`, `RegistrationsExact`, `OptimisticLocking` | `TypeOK`, `RefCountsExact`, `NoStaleExec` |
| `BlockingProofs` | `RegistryInvariance`, `RegistryIsExact`, `NothingIsLost`, `TypeCorrect` | `RegistryExact`, `NothingLost` |
| `FanoutProofs` | `RegistriesAreExact`, `MonitorsHear`, `MessagesWithoutGap`, `CachesAreCoherent` | `RegistriesExact`, `MonitorHears`, `NoGap`, `Coherent` |

`SubsequencesProofs` holds lemmas only.

### 5.1 ShmRing

Assumptions: `IndexSpace` is a multiple of `Cap` and more than it, as 2^64 is for the
power-of-two ring sizes of `layout.rs`. The wake-up invariants are not inductive. `IInv`
adds `InFlight` (a private index differs
from the published one only between the store and the fence behind it), `Armed` (a side
that is about to re-check, or asleep, has its flag set), `Ends` (which ends of the socket
are open and what each side knows of it) and `Counted` (the bytes sent are those read and
those between the private indices). The two
delicate steps are the re-check after parking and the flag read after publishing: in
both, the fence makes the private and the published index equal, so one of the two sides
sees the other.

`InOrder` adds the contents of the ring (`Stored`): counted from the consumer's index, the
slots hold the bytes after those already read, in order. That masking an index commutes with its wrap is where
`IndexSpace % Cap = 0` is used.

### 5.2 AofPipeline

The invariant is the conjunction of eleven parts, in the order in which they are needed:

- `Phases`, `Stages`, `Waits`: where server, worker and lock holder are relative to each
  other, and which request the holder's reply belongs to. A reply that comes after its
  timeout finds nobody, which is why a timeout must latch.
- `Rewrites`, `Appends`: at most one rewrite and at most one append are under way, the
  append that of the last write, and behind it nothing the holder waits for.
- `Snapshots`: the copy a rewrite carries has every write but, at most, the last one, and
  has that one exactly if its record is in front of it in the queue.
- `Contents`: the log has a prefix of the writes in memory, all of them while no write is
  under way and the pipeline is not latched.
- `Frames`: the log is `Good` (records whole, transactions closed, numbers rising, each
  record under its SELECT) and, where the worker may still append, `Ready` for the next
  record in the database the worker believes selected.
- `Promises`: what is promised is committed in the synced part of the log or in the BASE.
- `Layout`: which files exist, with which headers, and what the manifest names.

The first part of `AofPipelineProofs` has the lemmas about frames: what `Record` appends, what one more frame, a
torn tail and a cut do to `Good`, `Ready` and the set of committed commands; that replay
applies exactly the committed ones (`AppliedCommitted`); that recovery cuts a file behind
everything committed (`CutFacts`); and that what a crash leaves of a `Good` log is `Good`,
with the earliest of its commands (`RemainsFacts`).

`PipelineIsDurable` is `Spec => Durable`: each step of the pipeline, with
`applied <- mem` and `promised <- safe`, is a step of `DurableLog` or changes neither.
The invariant enters in two places: at `LoadStartupData`, where `Contents` makes what is
recovered a prefix and `Promises` makes it contain the promises, and where a promise is
made, which must concern applied writes only.

### 5.3 AofEffects

Assumptions: there is a database and databases are numbered (`EffectsAssumption`), the
commands are well-formed records, SADD with a member as its arity demands, and the queues
are sequences of them that are not empty (`CommandsAssumption`). Nothing limits which of the
thirteen commands are used, with which options, deadlines, members or stream IDs, nor how
long a queue is.

`ReplayMatchesLive` is not inductive: it speaks of the moments between two commands, with a
password on the default user it says nothing of the records, and it does not bound what is
in the log or under a key. `EffectsInv` adds the types (`Keyspaces`, `LogTypes`,
`ScalarTypes`, `TaskTypes`) and says of *every* moment what recovery would give if the
captures of the running task were already in the log (`Pending`). `Recoverable`: with
nothing strayed, this meets no error; and it is `Alike` to the live keyspace outside of
`strayed` and of the key whose capture is under way (`Open`). Two entries are alike when
they are equal once purged, deadline included: at the present clock for most keys, at the
frozen clock for those that a command of the task is yet to use (`Ahead`), because that is
the clock both the command and its replay will purge by. `Capturable` remembers, between a
handler and its capture, what the handler found (`Handled`): it is what replay will find,
and what the handler left is still there or has been removed by its deadline. The argument:

- `HandlerStores`: every handler maps a stored value to a stored value (one proof per
  handler); no set or stream is left empty.
- `CaptureFaithful`: what `capture_durability_effects` logs for a command, run on the same
  entry at the same clock, has the effect the command had and is not answered with an error;
  when it logs nothing, the command changed nothing. This is where each canonical form is
  justified: a deadline that is past becomes DEL, a generated ID an explicit one, a random
  pop an SREM of what was popped, a SET that was applied the SET of the state it left. The
  delicate case is SET with a condition and GET, whose reply does not say whether it was
  applied: `set_command_was_applied` may take a refused SET for an applied one when the key
  already has that value, and then logs the value and deadline the key has; and it may take
  an applied one, whose deadline was already past, for a refused one, which is then logged
  as it came and does the same at the recorded clock. `CaptureOfLeft` is this for a key that
  both looks of the capture find as the handler left it, `CaptureOfRemoved` for one that a
  reader removed before the first look or between the two: DEL, or the command as it came,
  whose effect has expired by now.
- Handlers purge first, so equal purged entries are enough for equal results: what one
  command logged takes every replay that is alike to the keyspace before it to one that is
  alike to the keyspace after it (`CapturedReplays`). `ReplayUnitOneMore` adds it to the
  captures of the task (`PendingGrows`), and `Admitted` makes these the last unit of the
  log. `ReplayUnitsUnfolds` and `ReplayLogSteps` give the recursive functions: replaying a
  longer log is replaying the shorter one and then its last unit, at the clock recorded
  with it.
- `AlikeLater`: entries that are equal when purged at one clock are so at any later one. So
  neither the clock nor active expiry, which logs nothing, can drive the two apart, and when
  the last command on a key is done, equality at the frozen clock gives equality at the
  present one. `AlikeFrozen`: when a task begins, the two clocks are the same.
- `FastReadKeeps`: a reader that removes a key no command is waiting for removes what has
  expired in the replay too. If a command is waiting for the key, either the frozen clock
  has reached the deadline as well, and that command finds nothing in any case, or the key
  goes to `strayed`. The last case is the race of section 6, and without it the invariant fails.
- A step past the capture may change the live entry in any way, and the key goes to
  `strayed`; later commands on it, which are logged, cannot disturb another key. A start
  makes the two keyspaces equal and empties `strayed`.

### 5.4 RdbSave

`SaveInv` has `Types`, `FlagOwned` with `OneBackground` (at most one background save holds
the flag), `TakenKnown` (a complete copy and every trailer in the file belong to a snapshot
some save took), `Behind` (no copy is ahead of the commands that ran) and, as long as no two
saves have overlapped, `Orderly`: one save runs, the file is complete or a beginning of its
image, and memory is not behind what was acknowledged. `NoMixtureLoaded` rests on the CRC: a
file that loads ends with the trailer of one image and has nothing else in it. This needs
what `Image` is for every number of databases, which is why it is built with `Only` of
`Subsequences`: the elements of a sequence that are in a set, by a recursive function.

### 5.5 Transactions

`IInv` is `TypeOK`, `RefCountsExact` and `VersionsFresh` (no recorded version is larger
than the counter, so a new one differs from every remembered one). Lemmas give, for each
operator on the store (`SetDataStep`, `PurgeStep`, `ClearStep`, `SwapStep`, `RunStep`...),
what it preserves and that each watched slot whose entry it changed got a new version.
`OptimisticLocking` is `AllTracked => (Spec => []NoStaleExec)` and adds three invariants:
`Seen` (a watched slot that changed has another
version than the watch remembers), `QueueTracked` (queues hold only commands whose writes
are marked) and `Guarded` (where an EXEC stands in its check, what it has passed is
unchanged or was removed by a lock-free reader in between). `AllTracked` says that no
client uses LMPOP or SET ... GET: their writes are not always marked (section 6), so the
theorem is false without it.

### 5.6 Blocking

`RegistryInv` is the types, `IndexesAgree` (waiters per key and keys per client are each
other's inverse, no client twice in a queue) and `InLoop` (the flag is set before the
registration and cleared after it, so a registered client is shown as blocked and is in
the retry loop). `NothingIsLost` has its own invariant, `ValuesInv`: every value that was
pushed is in one place of one list, with one client, or in one reply that was refused, and
in no two. Its lemmas say how a pop, a move, a push and a swap divide the elements of the
lists. Assumptions beyond bounds: the arity the code checks
(a key to wait for, and a destination for BLMOVE), finitely many clients, and no value in
the other database that is also in this one.

### 5.7 Fanout

The invariant of the registries is `Types`, `Alive`, `TrackingInv` (watchers name connected
trackers and targets with the tracker's mode, each key's watchers agree with the tracker's
keys, broken redirections are broken), `SubsAgree` (a subscription and its inverse),
`GoneForgotten` (a connection that ended is in no registry) and `MonitorHears`. The
cases of a step are first reduced to five kinds of change to the tracking table
(`TrackingCases`), so that each part is proved for the kinds and not for all commands.

`NoGap` rests on `OwedInOrder`: what is due to a connected subscriber is what its queue
holds, followed by `r`, what was dropped with its sender; while the sender is there `r` is
empty. It is `NoGap` with the dropped part named, which makes the steps short: a publication
that finds no sender adds to `r`, a delivery takes from the front. `QueueCases` reduces a step to four kinds (nothing, control messages, a
publication, a delivery), and `PublishedParts` says that `Published` of two queues joined is
the two parts joined. It needs that a client has finitely many subscriptions, which is part
of the invariant (`QueueTypes`) and not assumed.

`Coherent` is not inductive either: it says nothing of a copy that is still right. The
invariant is `CachesSound`: a `fresh` copy is registered, by its key or by a broadcast that
covers it, or a lock-free read is about to register it; a `stale` one is told or such a
read is under way; a `raced` one is told or watched. The argument: a registration stays
until a write takes it (`RegistrationsKept`), a write that takes it queues the invalidation
for a connection that is there or removes that connection's sender (`WriteTells`, from
`WatcherSound`), and a word once queued stays until the application gets it and drops its
copy (`WordKept`, `ToldStays`). That the connection ends, is reset or changes its mode is
covered by `PathsKept`.

### 5.8 Induction, and what is only model-checked

The library's induction theorems take an operator, which the provers cannot instantiate.
`SubsequencesProofs` goes around that: a set of natural numbers has a least element
(`LeastNat`), so `InductionTo` can take a *set*, which is first-order. That suffices for
a recursive function over the length of a sequence (`Only`, and the replay of a unit and of
a log in `AofEffects`) and for first positions in one.

Only model-checked are: all liveness (`Delivery`, `EofReached`, `LockReleased`,
`NoStrandedWaiter`, `TimedAnswered`, `LossCloses`), which is out of the prover's reach;
the properties of `Commands`, which are about what several hundred operators compute and
would need a proof for each, many of them over folds and digits, where the induction above
does not reach; and the runs that end in a violation.

## 6. Findings

Runs that end in a violation, each against what the repository says of itself:

1. `rdb_kill_during_bgsave`: `dump.rdb` is truncated in place; a kill while a save runs
   loses the previous snapshot.
2. `tx_expiry_race`: EXEC reads version and deadline under two locks; a lock-free GET that
   removes the expired key in between is seen by neither.
3. `fast_path`: the locked handlers of ZREVRANGEBYSCORE and ZREVRANGEBYLEX swap their bounds
   and, called as documented with max before min, answer nothing where the lock-free path
   answers the range.

Observed while modelling, without a run of their own.

Persistence:

- SWAPDB is acknowledged and never logged; a restart loses it and puts later writes in the
  wrong database. With a password on the default user, replay's client is not
  authenticated, and start-up is refused. Evictions, the writes of EVAL and
  those behind a RESET queued in a MULTI, which switches the capture off for the rest of the
  EXEC, are not logged. `AofEffects` has all five as operations. `ReplayMatchesLive` says how
  far the harm goes, and that of the next item: only the keys that were changed unlogged differ,
  and, where recovery still accepts the log, only until the next start. A record about such a key may be refused
  (a SADD over a string the server had evicted), and then the server does not start.
- The frozen clock of a write binds its own thread only, although the comment at
  `ratatosk-engine/src/command/mod.rs:4050` says that all lazy expiry decisions of an
  operation use the clock recovery will use. A lock-free reader with the real clock removes
  a key whose deadline came after the freeze; the handler then starts from nothing, and
  replay, at the frozen clock, from the old value. EXEC, frozen at 1, of a SET of 2 with
  deadline 2 and an INCR: the clock reaches 2 and a reader removes the key between them; the
  client is told 1, and a restart gives back 3. Or a GETEX with PERSIST finds nothing, is
  logged as it came, and in replay makes the key last. Where the old value has another type
  than the command wants, replay gets an error, and outside of a transaction the server then
  does not start. TLC finds these traces when `StraysWithout` is empty;
  `ReplayMatchesLive` counts the keys as strayed.
- A snapshot is copied database by database beside running commands: a dump can hold half
  of a transaction. `NeverLoadsMixture` is about files, not about this.
- SAVE does not set the in-progress flag, so two saves may write the same file;
  `AckedSaveOnDisk` excludes that history, and the CRC then refuses the file.
- SAVE inside MULTI runs when it is queued and not at EXEC.

Transactions and blocking:

- The writes of LMPOP, ZMPOP, XREADGROUP, XCLAIM and XAUTOCLAIM are not marked (their rows
  name no key), nor is SET ... GET of a missing key, whose nil is taken for a write that did
  not happen: WATCH, client tracking and blocked clients miss them. `MarksWrites` lists them
  as `Unmarked`. A last key of -2 in the table is read as -1. HDEL of an expired field is
  not marked, which no reader can tell.
- A lock-free MGET can see half of an EXEC. UNWATCH inside MULTI acts at once.
- BLMPOP and SWAPDB wake nobody, a notification to a client that leaves is not passed on,
  and a retry registers at the back of the queue: what keeps `NoStrandedWaiter` is the
  500 ms poll alone, and service is not first come, first served (compare
  `docs/architecture.md:1419`).

Commands (each is in the model as the code has it):

- XSETID can lower the last ID (compare the comment at `ratatosk-engine/src/keyspace.rs:50`);
  XREADGROUP with `>` after SETID back to an earlier ID leaves an entry in the list of its
  previous consumer too; XACK and XREADGROUP apply what comes before the argument they
  refuse; XAUTOCLAIM with COUNT 0 claims one.
- A stop before the first rank is raised to 0 in ZREMRANGEBYRANK and in `DirectDb`, where it
  should select nothing. HINCRBYFLOAT and ZINCRBY accept an infinite increment. BITFIELD
  INCRBY with SAT wraps before it saturates at 64 bits.
- A hash whose fields have all expired still exists; HSETEX counts an expired field as
  present; GT on a field without a deadline matches.
- SCAN with TYPE stream matches nothing; SDIFF stops at an empty result and does not look at
  the types of the keys behind it.
- `DirectDb` does not know the integer encoding (`get`, `getset`, `append`, `strlen`), nor
  deadlines of fields; `expire`, `ttl` and `persist` do not purge; `append` and `getset`
  replace a value of another type. `DirectApplies` leaves these out of `PathsAgree`. Ranges
  of ranks give the first 10,000 entries (`DEFAULT_MAX_RANGE`), which `PathsAgree` states.

Pushes:

- A lock-free read registers its key after it took the value; a write in between leaves the
  copy stale until the next write of that key (`raced` in `Fanout`). FLUSHDB, FLUSHALL,
  SWAPDB, expiry and eviction invalidate nobody.
- RESET removes the notifier of a session for good, so a MONITOR behind it is not woken by
  new lines, only by other activity.
- When the queue of a redirection's target overflows, the invalidation is lost and its
  registration gone with it; at the end of that connection nothing names the tracker any
  more, and it gets no `tracking-redir-broken` (compare `docs/architecture.md:1523`). The
  application learns of it from the connection that ends.
- A message published before UNSUBSCRIBE may arrive after its acknowledgement, and a session
  that blocks in BLPOP does not look at its queue until it returns.

## 7. What is not modelled, and why

`PROJECT.json` lists every component with its status. In short: rate limiters, access
control, the RESP parser and the publication of finished AOF rewrites are planned
(section 8). System calls around mmap and descriptor passing, the byte format of RDB,
configuration parsing, statistics, the Lua interpreter, stubs of replication and cluster,
floating-point geo and HyperLogLog code, DUMP and RESTORE, accepting connections and the
benchmark are left out: pure I/O, external, or without state a property could be about.

Within modelled components: an AOF record is a unit and a value a small number; migration
of old single-file logs is left out; clocks do not step back; an fsync that succeeds covers
what an earlier one failed to write; ACLs never refuse a command; blocking commands of
sorted sets and streams use the same loop as those of lists and are represented by them;
keyspace notifications publish through PUBLISH's function and are not messages of their
own; the batches of pipelined reads and `BatchBuilder` of `DirectDb` run their commands one
by one; in `Commands` only one client runs, with database 0 selected.

## 8. Plan

Done: `ShmRing`, `DurableLog`, `AofPipeline`, `AofEffects`, `RdbSave`, `Transactions`,
`Blocking`, the command engine (`Keyspace` to `Commands`), `Fanout`; the safety proofs of
`ShmRing`, `AofPipeline` with its refinement, `AofEffects`, `RdbSave`, `Transactions`,
`Blocking` and `Fanout`.

Left to model, in this order:

1. **AofLifecycle**: generations, publication of finished rewrites and the in-progress flag
   (`persistence/mod.rs:413`, `432`).
2. **RateLimiter** (`auth_rate_limiter.rs:74`), **RespParser** (a stream cut at any byte
   gives the same frames), ACL rules.

Theorems: the operators of the command engine that most properties of `Commands` rest on
(`Keyspace`). `RefusedOnlyWhenNothingPromised` and
`LogOrdered` are the part of `AofLifecycle` that will carry over. Abstract specifications
still worth stating: at-least-once delivery for consumer groups.

## 9. Running it

    tlc -workers 2 -config ShmRing.cfg MCShmRing
    tlapm ShmRingProofs.tla

and likewise for the other configurations (no run takes more than a few minutes on two
cores) and the other proof modules: `TransactionsProofs`, `FanoutProofs`,
`SubsequencesProofs`, `RdbSaveProofs`, `BlockingProofs`, `AofEffectsProofs` and
`AofPipelineProofs`. The last is the longest, some minutes from nothing; `tlapm` remembers
what it has proved.
