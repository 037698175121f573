---------------------------- MODULE Transactions ----------------------------
(***************************************************************************)
(* MULTI, EXEC, DISCARD, WATCH and UNWATCH: cmd_transaction.rs, the        *)
(* queueing in command/mod.rs and the key versions of keyspace.rs.         *)
(*                                                                         *)
(* Commands run one at a time under the server lock (meta).  Three things  *)
(* happen beside them: an EXEC gives the lock of a database back between   *)
(* its reads and its nested commands, readers of the lock-free fast path   *)
(* (readonly_batch.rs) take only the lock of a database and remove expired *)
(* keys, and a closing connection drops its watches.                       *)
(*                                                                         *)
(* A key of a database is a slot.  Every written value is fresh (the       *)
(* number of the command), so that a write is always a change.             *)
(***************************************************************************)
EXTENDS Integers, Sequences, FiniteSets

CONSTANTS
    Clients, Dbs, Keys,
    Commands,            \* the commands clients send: records of CommandSet
    Queued,              \* ... and the ones they queue in a MULTI
    MaxTxQueueSize,      \* MAX_TX_QUEUE_SIZE
    MaxOps,              \* bound: commands executed or queued
    MaxClock             \* bound: milliseconds

Slots == Dbs \X Keys
NoOne == "noone"

Ops == {"SET", "SETGET", "SETNX", "DEL", "LPUSH", "LMPOP", "EXPIRE", "FLUSHDB", "SWAPDB"}

\* "SETGET" is SET key value GET.  `to` is the other database of SWAPDB, val
\* the value, which a client chooses when it sends the command.
CommandSet == [op : Ops, s : Slots, to : Dbs, val : Nat]

ASSUME FiniteAssumption == IsFiniteSet(Clients) /\ IsFiniteSet(Slots)
ASSUME NoOneAssumption == NoOne \notin Clients
ASSUME CommandAssumption == Commands \cup Queued \subseteq CommandSet
ASSUME BoundAssumption == MaxTxQueueSize \in Nat /\ MaxOps \in Nat /\ MaxClock \in Nat

VARIABLES
    data,         \* the databases: slot -> entry
    clock,        \* now_ms
    versions,     \* key_versions; 0 where there is no entry
    refs,         \* watch_refs; 0 where there is no entry
    watchedKeys,  \* watched_keys: the number of entries of watch_refs
    nextVersion,  \* next_key_version
    meta,         \* the client whose EXEC holds the server lock, or NoOne
    watched,      \* client -> slot -> version at WATCH, NotWatched if none
    tx,           \* client -> TransactionState
    exec,         \* client -> how far its EXEC has got
    ops,          \* commands sent so far
    changed,      \* history: client -> watched slots whose entry changed
    stale,        \* history: client -> slots changed when its EXEC began
    lapsed,       \* history: client -> slots expired when its EXEC began
    raced         \* history: client -> slots a fast read removed during its check

store == <<data, versions, nextVersion>>
watch == <<refs, watchedKeys, watched>>
hist  == <<stale, lapsed, raced>>
vars  == <<data, clock, versions, refs, watchedKeys, nextVersion, meta, watched, tx, exec, ops,
           changed, stale, lapsed, raced>>

None       == [type |-> "none", val |-> 0, at |-> 0]
NotWatched == -1

Normal  == [multi |-> FALSE, queue |-> <<>>, error |-> FALSE]
NoExec  == [pc |-> "idle", now |-> 0, left |-> {}, half |-> {}]

Watches(c, s) == watched[c][s] # NotWatched

-----------------------------------------------------------------------------
(* Key versions: DbShard, DataState and ServerState.  An operator takes and  *)
(* gives the part of the state that a command changes step by step.          *)

Store == [data |-> data, versions |-> versions, next |-> nextVersion]

Expired(e, now) == e.at # 0 /\ e.at <= now

\* The databases hold d; no version changes.
SetData(st, d) == [data |-> d, versions |-> st.versions, next |-> st.next]

\* DbShard::record_modification, for each of the keys in S.  One number serves
\* all of them: versions of different keys are never compared.
RecordModifications(st, S) ==
    LET hit == {s \in S : refs[s] # 0}
    IN  [data     |-> st.data,
         versions |-> [s \in Slots |-> IF s \in hit THEN st.next ELSE st.versions[s]],
         next     |-> IF hit = {} THEN st.next ELSE st.next + 1]

TouchKeyVersion(st, s) == IF watchedKeys = 0 THEN st ELSE RecordModifications(st, {s})

RecordWatchedExisting(st, d) ==
    RecordModifications(st, {s \in Slots : s[1] = d /\ st.data[s] # None})

PurgeExpired(st, S, now) ==
    LET gone == {s \in S : Expired(st.data[s], now)}
        left == [s \in Slots |-> IF s \in gone THEN None ELSE st.data[s]]
    IN  RecordModifications(SetData(st, left), gone)

ClearDb(st, d) ==
    SetData(RecordWatchedExisting(st, d), [s \in Slots |-> IF s[1] = d THEN None ELSE st.data[s]])

SwapDbs(st, a, b) ==
    LET before  == RecordWatchedExisting(RecordWatchedExisting(st, a), b)
        Other(s) == <<IF s[1] = a THEN b ELSE IF s[1] = b THEN a ELSE s[1], s[2]>>
        swapped == SetData(before, [s \in Slots |-> st.data[Other(s)]])
    IN  RecordWatchedExisting(RecordWatchedExisting(swapped, a), b)

-----------------------------------------------------------------------------
(* The handlers on one key, whose entry was purged: the entry and the reply. *)
(* LMPOP has a COUNT that empties the list.                                  *)

Str(c)       == [type |-> "string", val |-> c.val, at |-> 0]
List(c, e)   == [type |-> "list", val |-> c.val, at |-> e.at]
Res(e, r)    == [entry |-> e, reply |-> r]

Handler(c, e, now) ==
    CASE c.op = "SET"    -> Res(Str(c), "ok")
      [] c.op = "SETGET" -> IF e.type = "list" THEN Res(e, "error")
                            ELSE Res(Str(c), IF e = None THEN "nil" ELSE "bulk")
      [] c.op = "SETNX"  -> IF e = None THEN Res(Str(c), "one") ELSE Res(e, "zero")
      [] c.op = "DEL"    -> Res(None, IF e = None THEN "zero" ELSE "one")
      [] c.op = "LPUSH"  -> IF e.type = "string" THEN Res(e, "error") ELSE Res(List(c, e), "one")
      [] c.op = "LMPOP"  -> IF e.type = "string" THEN Res(e, "error")
                            ELSE Res(None, IF e = None THEN "nil" ELSE "bulk")
      [] c.op = "EXPIRE" -> IF e = None THEN Res(e, "zero")
                            ELSE Res([e EXCEPT !.at = now + 1], "one")

\* maybe_track_write_version: which commands count as writes to their keys ...
ShouldMark(op, reply) ==
    /\ reply # "error"
    /\ op \in {"SET", "SETGET", "LMPOP"} => reply # "nil"
    /\ op \in {"SETNX", "DEL", "EXPIRE"} => reply # "zero"

\* ... and which keys those are: the table of commands says that LMPOP has none.
KeyPositions(c) == IF c.op = "LMPOP" THEN {} ELSE {c.s}

\* execute: the handler under the lock of the database, then the versions.
Run(st, c, now) ==
    CASE c.op = "FLUSHDB" -> ClearDb(st, c.s[1])
      [] c.op = "SWAPDB"  -> IF c.s[1] = c.to THEN st ELSE SwapDbs(st, c.s[1], c.to)
      [] OTHER ->
           LET purged == PurgeExpired(st, {c.s}, now)
               r      == Handler(c, purged.data[c.s], now)
               done   == SetData(purged, [purged.data EXCEPT ![c.s] = r.entry])
           IN  IF ShouldMark(c.op, r.reply) /\ c.s \in KeyPositions(c)
               THEN TouchKeyVersion(done, c.s)
               ELSE done

\* The changed store, and the watchers whose entries it changed.
Put(st) ==
    /\ data' = st.data /\ versions' = st.versions /\ nextVersion' = st.next
    /\ changed' = [c \in Clients |->
                     changed[c] \cup {s \in Slots : Watches(c, s) /\ st.data[s] # data[s]}]

-----------------------------------------------------------------------------
Init ==
    /\ data = [s \in Slots |-> None] /\ clock = 1
    /\ versions = [s \in Slots |-> 0] /\ refs = [s \in Slots |-> 0]
    /\ watchedKeys = 0 /\ nextVersion = 1
    /\ meta = NoOne
    /\ watched = [c \in Clients |-> [s \in Slots |-> NotWatched]]
    /\ tx = [c \in Clients |-> Normal] /\ exec = [c \in Clients |-> NoExec]
    /\ ops = 0
    /\ changed = [c \in Clients |-> {}] /\ stale = [c \in Clients |-> {}]
    /\ lapsed = [c \in Clients |-> {}] /\ raced = [c \in Clients |-> {}]

\* The server lock is free; a client's command waits for it.
MetaFree == meta = NoOne

Execute(c, cmd) ==
    /\ MetaFree /\ ~tx[c].multi /\ ops < MaxOps
    /\ ops' = ops + 1
    /\ Put(Run(Store, [cmd EXCEPT !.val = ops + 1], clock))
    /\ UNCHANGED <<clock, watch, meta, tx, exec, hist>>

Multi(c) ==
    /\ MetaFree /\ ~tx[c].multi
    /\ tx' = [tx EXCEPT ![c] = [Normal EXCEPT !.multi = TRUE]]
    /\ UNCHANGED <<store, clock, watch, meta, exec, ops, changed, hist>>

\* Mutant: one command too many.
MutQueueFull(q) == Len(q) > MaxTxQueueSize

QueueFull(q) == Len(q) >= MaxTxQueueSize

\* Everything but EXEC, DISCARD, MULTI, WATCH and UNWATCH is queued.
Queue(c, cmd) ==
    /\ MetaFree /\ tx[c].multi /\ ops < MaxOps
    /\ ops' = ops + 1
    /\ tx' = [tx EXCEPT ![c] =
                IF QueueFull(tx[c].queue) THEN [tx[c] EXCEPT !.error = TRUE]
                ELSE [tx[c] EXCEPT !.queue = Append(tx[c].queue, [cmd EXCEPT !.val = ops + 1])]]
    /\ UNCHANGED <<store, clock, watch, meta, exec, changed, hist>>

\* validate_queued_command (unknown, arity, ACL) or the memory limit.
QueueRejected(c) ==
    /\ MetaFree /\ tx[c].multi /\ ~tx[c].error
    /\ tx' = [tx EXCEPT ![c].error = TRUE]
    /\ UNCHANGED <<store, clock, watch, meta, exec, ops, changed, hist>>

\* The keys of one database are purged, then registered; a key that is already
\* watched keeps its version.
CmdWatch(c, S) ==
    /\ MetaFree /\ ~tx[c].multi
    /\ LET purged == PurgeExpired(Store, S, clock)
           fresh  == {s \in S : ~Watches(c, s)}
       IN  /\ Put(purged)
           /\ watched' = [watched EXCEPT ![c] =
                            [s \in Slots |-> IF s \in fresh THEN purged.versions[s] ELSE @[s]]]
           /\ refs' = [s \in Slots |-> IF s \in fresh THEN refs[s] + 1 ELSE refs[s]]
           /\ watchedKeys' = watchedKeys + Cardinality({s \in fresh : refs[s] = 0})
    /\ UNCHANGED <<clock, meta, tx, exec, ops, hist>>

\* Mutant: the first client to leave takes the version of the key with it.
MutForgotten(c, s) == Watches(c, s)

\* unwatch_key: the version goes with the last registration.
Forgotten(c, s) == Watches(c, s) /\ refs[s] = 1

\* Mutant: the watches are cleared without telling the database.
MutDropped(c) == {}

Dropped(c) == {s \in Slots : Watches(c, s)}

ReleaseWatches(c) ==
    /\ refs' = [s \in Slots |-> IF s \in Dropped(c) THEN refs[s] - 1 ELSE refs[s]]
    /\ versions' = [s \in Slots |-> IF Forgotten(c, s) THEN 0 ELSE versions[s]]
    /\ watchedKeys' = watchedKeys - Cardinality({s \in Dropped(c) : refs[s] = 1})
    /\ watched' = [watched EXCEPT ![c] = [s \in Slots |-> NotWatched]]
    /\ changed' = [changed EXCEPT ![c] = {}]
    /\ UNCHANGED <<data, nextVersion>>

\* UNWATCH is not queued in a MULTI: it takes effect at once.
CmdUnwatch(c) ==
    /\ MetaFree /\ Dropped(c) # {}
    /\ ReleaseWatches(c)
    /\ UNCHANGED <<clock, meta, tx, exec, ops, hist>>

\* DISCARD, or an EXEC after an error while queueing.
Discard(c) ==
    /\ MetaFree /\ tx[c].multi
    /\ tx' = [tx EXCEPT ![c] = Normal]
    /\ ReleaseWatches(c)
    /\ UNCHANGED <<clock, meta, exec, ops, hist>>

\* The connection closes; this takes no server lock.  RESET does the same.
Disconnect(c) ==
    /\ exec[c].pc = "idle" /\ (Dropped(c) # {} \/ tx[c].multi)
    /\ tx' = [tx EXCEPT ![c] = Normal]
    /\ ReleaseWatches(c)
    /\ UNCHANGED <<clock, meta, exec, ops, hist>>

-----------------------------------------------------------------------------
(* EXEC holds the server lock from here to its end.  It reads the version    *)
(* and then the deadline of each watched key under locks of its own.         *)

ExecBegin(c) ==
    /\ MetaFree /\ tx[c].multi /\ ~tx[c].error
    /\ meta' = c
    /\ exec' = [exec EXCEPT ![c] = [pc |-> "check", now |-> clock, left |-> Dropped(c), half |-> {}]]
    /\ stale' = [stale EXCEPT ![c] = changed[c]]
    /\ lapsed' = [lapsed EXCEPT ![c] = {s \in Slots : Watches(c, s) /\ Expired(data[s], clock)}]
    /\ raced' = [raced EXCEPT ![c] = {}]
    /\ UNCHANGED <<store, clock, watch, tx, ops, changed>>

Leave(c) ==
    /\ meta' = NoOne /\ exec' = [exec EXCEPT ![c] = NoExec] /\ tx' = [tx EXCEPT ![c] = Normal]
    /\ stale' = [stale EXCEPT ![c] = {}] /\ lapsed' = [lapsed EXCEPT ![c] = {}]
    /\ raced' = [raced EXCEPT ![c] = {}]

\* The transaction is given up and answered with null.
Abort(c) == Leave(c) /\ ReleaseWatches(c) /\ UNCHANGED <<clock, ops>>

CheckVersion(c, s) ==
    /\ exec[c].pc = "check" /\ exec[c].half = {} /\ s \in exec[c].left
    /\ IF versions[s] # watched[c][s]
       THEN Abort(c)
       ELSE /\ exec' = [exec EXCEPT ![c].half = {s}]
            /\ UNCHANGED <<store, clock, watch, meta, tx, ops, changed, hist>>

CheckDeadline(c, s) ==
    /\ exec[c].pc = "check" /\ s \in exec[c].half
    /\ IF Expired(data[s], exec[c].now)
       THEN Abort(c)
       ELSE /\ exec' = [exec EXCEPT ![c].left = @ \ {s}, ![c].half = {}]
            /\ UNCHANGED <<store, clock, watch, meta, tx, ops, changed, hist>>

\* No watched key is dirty: the watches go, and the queue is run, unless
\* memory is over its limit.
ExecStart(c) ==
    /\ exec[c].pc = "check" /\ exec[c].left = {}
    /\ ReleaseWatches(c)
    /\ \/ exec' = [exec EXCEPT ![c].pc = "run"] /\ UNCHANGED <<meta, tx, hist>>
       \/ Leave(c)
    /\ UNCHANGED <<clock, ops>>

\* With durability capture on, the clock stands still for the whole EXEC
\* (with_command_time); without it, it does not.
ExecStep(c) ==
    /\ exec[c].pc = "run" /\ tx[c].queue # <<>>
    /\ \E now \in {exec[c].now, clock} : Put(Run(Store, Head(tx[c].queue), now))
    /\ tx' = [tx EXCEPT ![c].queue = Tail(@)]
    /\ UNCHANGED <<clock, watch, meta, exec, ops, hist>>

ExecEnd(c) ==
    /\ exec[c].pc = "run" /\ tx[c].queue = <<>>
    /\ Leave(c)
    /\ UNCHANGED <<store, clock, watch, ops, changed>>

-----------------------------------------------------------------------------
(* Beside the clients.                                                       *)

Tick ==
    /\ clock < MaxClock /\ clock' = clock + 1
    /\ UNCHANGED <<store, watch, meta, tx, exec, ops, changed, hist>>

\* active_expire_cycle and perform_eviction remove a key under the server lock.
RemoveKey(s) ==
    /\ meta = NoOne /\ data[s] # None
    /\ Put(TouchKeyVersion(SetData(Store, [data EXCEPT ![s] = None]), s))
    /\ UNCHANGED <<clock, watch, meta, tx, exec, ops, hist>>

\* A GET, MGET, TYPE, ... of the lock-free fast path: only the database is
\* locked, and an expired key is removed.
FastRead(s) ==
    /\ Expired(data[s], clock)
    /\ Put(PurgeExpired(Store, {s}, clock))
    /\ raced' = [c \in Clients |-> IF exec[c].pc = "check" /\ Watches(c, s) THEN raced[c] \cup {s} ELSE raced[c]]
    /\ UNCHANGED <<clock, watch, meta, tx, exec, ops, stale, lapsed>>

ClientStep(c) ==
    \/ \E cmd \in Commands : Execute(c, cmd)
    \/ \E cmd \in Queued : Queue(c, cmd)
    \/ Multi(c) \/ QueueRejected(c) \/ Discard(c)
    \/ \E d \in Dbs, K \in SUBSET Keys \ {{}} : CmdWatch(c, {d} \X K)
    \/ CmdUnwatch(c) \/ Disconnect(c)

ExecProgress(c) ==
    \/ \E s \in Slots : CheckVersion(c, s) \/ CheckDeadline(c, s)
    \/ ExecStart(c) \/ ExecStep(c) \/ ExecEnd(c)

Next ==
    \/ \E c \in Clients : ClientStep(c) \/ ExecBegin(c) \/ ExecProgress(c)
    \/ \E s \in Slots : RemoveKey(s) \/ FastRead(s)
    \/ Tick

Spec == Init /\ [][Next]_vars

-----------------------------------------------------------------------------
Entries    == [type : {"none", "string", "list"}, val : Nat, at : Nat]
TxStates   == [multi : BOOLEAN, queue : Seq(CommandSet), error : BOOLEAN]
ExecStates == [pc : {"idle", "check", "run"}, now : Nat, left : SUBSET Slots, half : SUBSET Slots]

\* Every variable keeps its type, and a queue its limit.
TypeOK ==
    /\ data \in [Slots -> Entries] /\ clock \in Nat
    /\ versions \in [Slots -> Nat] /\ refs \in [Slots -> Nat]
    /\ watchedKeys \in Nat /\ nextVersion \in Nat \ {0}
    /\ meta \in Clients \cup {NoOne}
    /\ watched \in [Clients -> [Slots -> Nat \cup {NotWatched}]]
    /\ tx \in [Clients -> TxStates]
    /\ \A c \in Clients : Len(tx[c].queue) <= MaxTxQueueSize
    /\ exec \in [Clients -> ExecStates]
    /\ ops \in Nat
    /\ changed \in [Clients -> SUBSET Slots] /\ stale \in [Clients -> SUBSET Slots]
    /\ lapsed \in [Clients -> SUBSET Slots] /\ raced \in [Clients -> SUBSET Slots]

\* The registrations of the databases are exactly those of the clients, on
\* every path that ends a WATCH: none leaks when a connection closes, none is
\* dropped twice, versions are kept only for watched keys, and watched_keys,
\* which lets writes skip all this, is not zero while a key is watched.
RefCountsExact ==
    /\ \A s \in Slots : /\ refs[s] = Cardinality({c \in Clients : Watches(c, s)})
                        /\ versions[s] # 0 => refs[s] # 0
    /\ watchedKeys = Cardinality({s \in Slots : refs[s] # 0})

\* Optimistic locking: when the queue of an EXEC is run, no entry that the
\* client watches has changed between WATCH and EXEC (written by any command,
\* by another client's EXEC or its own commands, flushed, swapped, expired and
\* removed, evicted), and none has passed its deadline, save one that a
\* lock-free reader removed between the two reads of the check.
NoStaleExec ==
    \A c \in Clients : exec[c].pc = "run" => stale[c] = {} /\ lapsed[c] \subseteq raced[c]

\* The promise without that exception (CHANGELOG.md, readonly_batch.rs).
ExpiryAborts == \A c \in Clients : exec[c].pc = "run" => lapsed[c] = {}
=============================================================================
