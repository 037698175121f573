----------------------------- MODULE AofEffects -----------------------------
(***************************************************************************)
(* What a command leaves in the append-only file, and what replaying the    *)
(* file gives back.                                                         *)
(*                                                                          *)
(* The same dispatcher runs a command for a client and for recovery.  For a *)
(* client (crates/ratatosk-engine/src/command/mod.rs, execute_argv) the     *)
(* clock is frozen, the command runs, and capture_durability_effects turns  *)
(* it into the command that recovery will run: the caller's own arguments,  *)
(* or a canonical form that no longer depends on the clock, on a generated  *)
(* stream ID or on a random choice.  Recovery                               *)
(* (crates/ratatosk-persist/src/aof/recovery.rs, replay_reader) runs each   *)
(* unit under the clock that was recorded with it and refuses to start when *)
(* one of them answers with an error.                                       *)
(*                                                                          *)
(* Commands run one at a time under the server lock, but each handler and    *)
(* each look of the capture takes the lock of the database for itself.  In   *)
(* between the wall clock goes on and the lock-free readers of              *)
(* crates/ratatosk-server/src/client/readonly_batch.rs, whose clock is not  *)
(* frozen, remove keys that have expired meanwhile.                         *)
(*                                                                          *)
(* How the captured units reach the disk, and what a crash leaves of them,  *)
(* is module AofPipeline; here every captured unit is in the log.           *)
(***************************************************************************)
EXTENDS Integers, Sequences, FiniteSets

CONSTANTS
    Dbs,        \* the databases, 0 .. n - 1
    Keys,       \* key names
    Commands,   \* the commands clients send, records as built by Cmd
    Queues,     \* the queues of commands that clients send between MULTI and EXEC
    Unlogged,   \* which operations outside the command capture may happen:
                \* a subset of {"swapdb", "evict", "eval", "reset", "password"}
    MaxUnits,   \* bound on the commands and transactions of a behaviour
    MaxClock    \* bound on the wall clock

ASSUME EffectsAssumption ==
    /\ Dbs # {} /\ Dbs \subseteq Nat
    /\ MaxUnits \in Nat /\ MaxClock \in Nat \ {0}
    /\ Unlogged \subseteq {"swapdb", "evict", "eval", "reset", "password"}

VARIABLES
    live,       \* live[db][key]: the keyspace of the running server
    log,        \* the units in the AOF, oldest first
    clock,      \* the wall clock
    units,      \* commands run so far (the bound MaxUnits)
    protected,  \* the default ACL user has a password
    task,       \* what the task with the server lock is doing, or Idle
    strayed     \* history: the keys, with their databases, that something the
                \* capture never saw has changed since the last start

vars == <<live, log, clock, units, protected, task, strayed>>

-----------------------------------------------------------------------------
(* Stored values.  at is the expiry deadline, 0 when there is none.  A set   *)
(* keeps its members in mem; a stream keeps the IDs of its entries in mem    *)
(* and its last generated ID in val.                                         *)

None == [type |-> "none", val |-> 0, mem |-> {}, at |-> 0]
String(v, at) == [type |-> "string", val |-> v, mem |-> {}, at |-> at]
Empty == [d \in Dbs |-> [k \in Keys |-> None]]

\* purge_expired_key: a deadline that has been reached means the key is gone.
Expired(e, now) == e.at # 0 /\ e.at <= now
Purge(e, now) == IF Expired(e, now) THEN None ELSE e

\* StreamId, ordered by (ms, seq); SeqBase bounds the sequence numbers.
SeqBase == 8
NextStreamId(last, now) ==
    IF now > last \div SeqBase THEN now * SeqBase ELSE last + 1

-----------------------------------------------------------------------------
(* Commands and replies.  exp says how the command names a deadline: not at  *)
(* all, KEEPTTL, relative (EX/PX/EXPIRE), absolute (EXAT/PXAT/EXPIREAT) or   *)
(* PERSIST.                                                                   *)

Cmd(op, db, k) ==
    [op |-> op, db |-> db, key |-> k, val |-> 0, mem |-> {},
     cond |-> "none", get |-> FALSE, exp |-> "none", ms |-> 0]

Ops == {"SET", "SETEX", "GETEX", "EXPIRE", "PERSIST", "SETNX", "INCR", "DEL",
        "GETDEL", "SADD", "SREM", "SPOP", "XADD"}

CommandSet ==
    [op : Ops, db : Dbs, key : Keys, val : Nat, mem : SUBSET Nat,
     cond : {"none", "NX", "XX", "GT", "LT"}, get : BOOLEAN,
     exp : {"none", "keepttl", "relative", "absolute", "persist"}, ms : Nat]

\* SADD's arity asks for at least one member.
ASSUME CommandsAssumption ==
    /\ Commands \subseteq CommandSet
    /\ \A c \in Commands : c.op = "SADD" => c.mem # {}
    /\ \A q \in Queues : q \in Seq(Commands) /\ q # <<>>

Reply(kind) == [kind |-> kind, val |-> 0, mem |-> {}]
Integer(n) == [kind |-> "int", val |-> n, mem |-> {}]
Bulk(v) == [kind |-> "bulk", val |-> v, mem |-> {}]
Members(m) == [kind |-> "members", val |-> 0, mem |-> m]

Result(e, r) == [entry |-> e, reply |-> r]

\* to_expire_target_ms and the expiry options of SET and GETEX
Target(c, e, now) ==
    CASE c.exp = "relative" -> now + c.ms
      [] c.exp = "absolute" -> c.ms
      [] c.exp = "keepttl" -> e.at
      [] OTHER -> 0

\* A deadline that is not in the future deletes instead of storing.
StoreUnlessPast(e, now) == Purge(e, now)

(***************************************************************************)
(* Each handler below gets the entry after purge_expired_key.               *)
(***************************************************************************)

Set(c, e, now) ==
    LET exists == e.type # "none"
        isString == e.type = "string"
        old == IF exists THEN Bulk(e.val) ELSE Reply("nil")
        shouldSet == (c.cond = "NX" => ~exists) /\ (c.cond = "XX" => exists)
    IN  IF ~shouldSet
        THEN Result(e, IF ~c.get THEN Reply("nil")
                       ELSE IF exists /\ ~isString THEN Reply("err") ELSE old)
        ELSE IF c.get /\ exists /\ ~isString THEN Result(e, Reply("err"))
        ELSE Result(StoreUnlessPast(String(c.val, Target(c, e, now)), now),
                    IF c.get THEN old ELSE Reply("ok"))

SetEx(c, e, now) ==
    Result(StoreUnlessPast(String(c.val, Target(c, e, now)), now), Reply("ok"))

GetEx(c, e, now) ==
    CASE e.type = "none" -> Result(e, Reply("nil"))
      [] e.type \notin {"none", "string"} -> Result(e, Reply("err"))
      [] e.type = "string" /\ c.exp = "none" -> Result(e, Bulk(e.val))
      [] e.type = "string" /\ c.exp = "persist" ->
            Result([e EXCEPT !.at = 0], Bulk(e.val))
      [] OTHER -> Result(StoreUnlessPast([e EXCEPT !.at = Target(c, e, now)], now),
                         Bulk(e.val))

ExpireConditionMatches(cond, at, target) ==
    CASE cond = "NX" -> at = 0
      [] cond = "XX" -> at # 0
      [] cond = "GT" -> at # 0 /\ target > at
      [] cond = "LT" -> at = 0 \/ target < at
      [] OTHER -> TRUE

Expire(c, e, now) ==
    LET target == Target(c, e, now)
    IN  IF e.type = "none" \/ ~ExpireConditionMatches(c.cond, e.at, target)
        THEN Result(e, Integer(0))
        ELSE Result(IF target <= now THEN None ELSE [e EXCEPT !.at = target],
                    Integer(1))

Persist(c, e) ==
    Result([e EXCEPT !.at = 0], Integer(IF e.at # 0 THEN 1 ELSE 0))

SetNx(c, e) ==
    IF e.type # "none" THEN Result(e, Integer(0))
    ELSE Result(String(c.val, 0), Integer(1))

\* INCR stands for the commands that change a value in place and keep its TTL.
Incr(c, e) ==
    IF e.type \notin {"none", "string"} THEN Result(e, Reply("err"))
    ELSE Result(String(e.val + 1, e.at), Integer(e.val + 1))

Del(c, e) == Result(None, Integer(IF e.type = "none" THEN 0 ELSE 1))

GetDel(c, e) ==
    CASE e.type = "none" -> Result(e, Reply("nil"))
      [] e.type = "string" -> Result(None, Bulk(e.val))
      [] OTHER -> Result(e, Reply("err"))

SAdd(c, e) ==
    IF e.type \notin {"none", "set"} THEN Result(e, Reply("err"))
    ELSE Result([type |-> "set", val |-> 0, mem |-> e.mem \cup c.mem, at |-> e.at],
                Integer(Cardinality(c.mem \ e.mem)))

MutWithoutMembers(e, m) == [e EXCEPT !.mem = @ \ m]

\* What a command that removes members leaves: an empty set is no key at all.
WithoutMembers(e, m) ==
    IF e.mem \subseteq m THEN None ELSE [e EXCEPT !.mem = @ \ m]

SRem(c, e) ==
    IF e.type \notin {"none", "set"} THEN Result(e, Reply("err"))
    ELSE Result(WithoutMembers(e, c.mem), Integer(Cardinality(c.mem \cap e.mem)))

\* SPOP picks by the microsecond clock and the hash order: c.mem stands for
\* the outcome of that choice, cut to what the set holds.
SPop(c, e) ==
    CASE e.type = "none" -> Result(e, Members({}))
      [] e.type = "set" -> Result(WithoutMembers(e, c.mem), Members(c.mem \cap e.mem))
      [] OTHER -> Result(e, Reply("err"))

\* XADD with an explicit ID (c.val) or with * (c.val = 0)
XAdd(c, e, now) ==
    LET id == IF c.val = 0 THEN NextStreamId(e.val, now) ELSE c.val
    IN  IF e.type \notin {"none", "stream"} \/ id <= e.val THEN Result(e, Reply("err"))
        ELSE Result([type |-> "stream", val |-> id, mem |-> e.mem \cup {id}, at |-> e.at],
                    Bulk(id))

\* The dispatch of execute_argv_inner: lazy expiry first, in every handler.
Handler(c, e, now) ==
    CASE c.op = "SET" -> Set(c, e, now)
      [] c.op = "SETEX" -> SetEx(c, e, now)
      [] c.op = "GETEX" -> GetEx(c, e, now)
      [] c.op = "EXPIRE" -> Expire(c, e, now)
      [] c.op = "PERSIST" -> Persist(c, e)
      [] c.op = "SETNX" -> SetNx(c, e)
      [] c.op = "INCR" -> Incr(c, e)
      [] c.op = "DEL" -> Del(c, e)
      [] c.op = "GETDEL" -> GetDel(c, e)
      [] c.op = "SADD" -> SAdd(c, e)
      [] c.op = "SREM" -> SRem(c, e)
      [] c.op = "SPOP" -> SPop(c, e)
      [] c.op = "XADD" -> XAdd(c, e, now)

Run(c, data, now) == Handler(c, Purge(data[c.db][c.key], now), now)
Write(data, c, e) == [data EXCEPT ![c.db][c.key] = e]

-----------------------------------------------------------------------------
(* capture_durability_effects: the commands one command leaves in the log.   *)

CanonicalStringState(c, after) ==
    IF after.type = "none" THEN <<Cmd("DEL", c.db, c.key)>>
    ELSE IF after.type # "string" THEN <<>>
    ELSE <<[Cmd("SET", c.db, c.key) EXCEPT !.val = after.val, !.ms = after.at,
                !.exp = IF after.at = 0 THEN "none" ELSE "absolute"]>>

CanonicalExpiryState(c, after) ==
    IF after.type = "none" THEN <<Cmd("DEL", c.db, c.key)>>
    ELSE IF after.at = 0 THEN <<>>
    ELSE <<[Cmd("EXPIRE", c.db, c.key) EXCEPT !.exp = "absolute", !.ms = after.at]>>

CanonicalXAdd(c, reply) == <<[c EXCEPT !.val = reply.val]>>

SpopDurabilityEffects(c, after, reply) ==
    IF reply.mem = {} THEN <<>>
    ELSE IF after.type = "none" THEN <<Cmd("DEL", c.db, c.key)>>
    ELSE <<[Cmd("SREM", c.db, c.key) EXCEPT !.mem = reply.mem]>>

SetCommandWasApplied(c, seen, reply) ==
    \/ c.cond = "none"
    \/ reply.kind = "ok"
    \/ seen.type = "string" /\ seen.val = c.val

RawCommandChangedState(c, reply) ==
    c.op \in {"DEL", "SETNX", "PERSIST"} => reply # Integer(0)

\* seen is what set_command_was_applied finds under the key, after what the
\* canonical forms find there a moment later.
Capture(c, seen, after, reply) ==
    IF reply.kind = "err" THEN <<>>
    ELSE CASE c.op = "SET" /\ SetCommandWasApplied(c, seen, reply) ->
                CanonicalStringState(c, after)
           [] c.op = "SETEX" -> CanonicalStringState(c, after)
           [] c.op = "GETEX" /\ c.exp # "none" /\ reply.kind = "bulk" ->
                CanonicalStringState(c, after)
           [] c.op = "EXPIRE" /\ reply = Integer(1) -> CanonicalExpiryState(c, after)
           [] c.op = "XADD" -> CanonicalXAdd(c, reply)
           [] c.op = "SPOP" -> SpopDurabilityEffects(c, after, reply)
           [] OTHER -> IF RawCommandChangedState(c, reply) THEN <<c>> ELSE <<>>

-----------------------------------------------------------------------------
(* Recovery: every unit at its recorded time, an error refuses the start.    *)

\* An error inside EXEC's array of replies is none.
ReplayCommand(state, c, unit) ==
    LET r == Run(c, state.data, unit.time)
    IN  [data |-> Write(state.data, c, r.entry),
         ok |-> state.ok /\ (unit.tx \/ r.reply.kind # "err")]

\* What the first i commands of a unit make of a state
ReplayCommands(state, unit) ==
    LET run[i \in 0 .. Len(unit.cmds)] ==
            IF i = 0 THEN state ELSE ReplayCommand(run[i - 1], unit.cmds[i], unit)
    IN  run

MutReplayUnit(state, unit) ==
    ReplayCommands(state, [unit EXCEPT !.time = clock])[Len(unit.cmds)]

ReplayUnit(state, unit) == ReplayCommands(state, unit)[Len(unit.cmds)]

\* What the first i units of a log make of the empty keyspace
ReplayUnits(l) ==
    LET run[i \in 0 .. Len(l)] ==
            IF i = 0 THEN [data |-> Empty, ok |-> TRUE] ELSE ReplayUnit(run[i - 1], l[i])
    IN  run

Replayed == ReplayUnits(log)[Len(log)]

\* The replaying client is not authenticated, so a default user with a password
\* makes every record an error.
Recovers == Replayed.ok /\ (protected => log = <<>>)

-----------------------------------------------------------------------------
(* What the task with the server lock is doing.  It freezes the clock (time),  *)
(* then runs the commands of todo one by one: stage "run" is in front of the   *)
(* handler of the first of them, stage "capture" behind it, with its reply.    *)
(* cmds is what has been captured.  tx says that todo is the queue of an EXEC,  *)
(* logged that the capture is on, and reset that a RESET is queued behind the   *)
(* first command.                                                              *)

Idle ==
    [stage |-> "idle", time |-> 0, todo |-> <<>>, cmds |-> <<>>, tx |-> FALSE,
     logged |-> FALSE, reset |-> FALSE, reply |-> Reply("nil")]

Init ==
    /\ live = Empty
    /\ log = <<>>
    /\ clock = 1
    /\ units = 0
    /\ protected = FALSE
    /\ task = Idle
    /\ strayed = {}

\* The bound leaves room for n more commands.
Room(n) == units + n <= MaxUnits

Slot(c) == <<c.db, c.key>>

\* The keys of the commands whose handlers are still to come
Ahead ==
    LET first == IF task.stage = "run" THEN 1 ELSE 2
    IN  {Slot(task.todo[i]) : i \in first .. Len(task.todo)}

\* A key that is removed by its deadline strays when the deadline is behind the
\* frozen clock and a command under way has yet to use the key: that command
\* finds nothing, and replay, at the frozen clock, will find the old value.
StraysWithout(d, k) ==
    IF <<d, k>> \in Ahead /\ live[d][k].at > task.time THEN {<<d, k>>} ELSE {}

\* DurabilityEffects::single and ::transaction
Admit(cmds) ==
    log' = IF cmds = <<>> THEN log
           ELSE Append(log, [time |-> task.time, tx |-> task.tx, cmds |-> cmds])

\* execute_argv: the clock of the commands that follow is the present one.
Begin(todo, tx, logged, reset) ==
    /\ task = Idle
    /\ Room(Len(todo))
    /\ units' = units + Len(todo)
    /\ task' = [stage |-> "run", time |-> clock, todo |-> todo, cmds |-> <<>>, tx |-> tx,
                logged |-> logged, reset |-> reset, reply |-> Reply("nil")]
    /\ UNCHANGED <<live, log, clock, protected, strayed>>

\* One command of a client
Execute(c) == Begin(<<c>>, FALSE, TRUE, FALSE)

\* cmd_exec: one clock for the whole queue, and the effects of the nested
\* commands become one unit.
Exec(q) == Begin(q, TRUE, TRUE, FALSE)

\* The handler of the next command, under the lock of its database.  What is not
\* captured strays.
RunHandler ==
    /\ task.stage = "run"
    /\ LET c == Head(task.todo)
           r == Run(c, live, task.time)
       IN  /\ live' = Write(live, c, r.entry)
           /\ task' = [task EXCEPT !.stage = "capture", !.reply = r.reply]
           /\ strayed' = IF task.logged THEN strayed ELSE strayed \cup {Slot(c)}
    /\ UNCHANGED <<log, clock, units, protected>>

\* The end of a command: capture_durability_effects looks at the key once or
\* twice, each time under the lock of the database, and between the two a reader
\* may remove the key.  The last command of the task admits what was captured.
\* A RESET behind the command turns the capture off and signs the client off, so
\* that the rest is refused when the default user has a password.
CaptureEffects ==
    /\ task.stage = "capture"
    /\ LET c == Head(task.todo)
           seen == live[c.db][c.key]
           rest == IF task.reset /\ protected THEN <<>> ELSE Tail(task.todo)
       IN  \E after \in {seen, Purge(seen, clock)} :
             LET cmds == IF task.logged
                         THEN task.cmds \o Capture(c, seen, after, task.reply)
                         ELSE task.cmds
             IN  /\ live' = Write(live, c, after)
                 /\ strayed' = IF after = seen THEN strayed
                               ELSE strayed \cup StraysWithout(c.db, c.key)
                 /\ IF rest = <<>>
                    THEN Admit(cmds) /\ task' = Idle
                    ELSE /\ log' = log
                         /\ task' = [task EXCEPT !.stage = "run", !.todo = rest, !.cmds = cmds,
                                                 !.logged = @ /\ ~task.reset, !.reset = FALSE]
    /\ UNCHANGED <<clock, units, protected>>

Tick ==
    /\ clock < MaxClock
    /\ clock' = clock + 1
    /\ UNCHANGED <<live, log, units, protected, task, strayed>>

\* A lock-free read finds a key past its deadline, at any moment, and removes it
\* (purge_expired_key_in_shard).
FastRead(d, k) ==
    /\ Expired(live[d][k], clock)
    /\ live' = [live EXCEPT ![d][k] = None]
    /\ strayed' = strayed \cup StraysWithout(d, k)
    /\ UNCHANGED <<log, clock, units, protected, task>>

\* active_expire_cycle drops sampled keys whose deadline has passed and logs
\* nothing: replay sees the same deadline.  The cron has the server lock.
ActiveExpire(d, k) ==
    /\ task = Idle
    /\ Expired(live[d][k], clock)
    /\ live' = [live EXCEPT ![d][k] = None]
    /\ UNCHANGED <<log, clock, units, protected, task, strayed>>

\* kill and start: the keyspace is what recovery makes of the log.
Restart ==
    /\ Recovers
    /\ live' = Replayed.data
    /\ task' = Idle
    /\ strayed' = {}
    /\ UNCHANGED <<log, clock, units, protected>>

-----------------------------------------------------------------------------
(* Operations that change what a client sees or what recovery may do without *)
(* passing through the capture.                                              *)

\* perform_eviction, called by the server cron
Evict(d, k) ==
    /\ "evict" \in Unlogged
    /\ task = Idle
    /\ live[d][k] # None
    /\ live' = [live EXCEPT ![d][k] = None]
    /\ strayed' = strayed \cup {<<d, k>>}
    /\ UNCHANGED <<log, clock, units, protected, task>>

\* cmd_swapdb: the command's flags are admin and noscript, not write.
SwapDb(a, b) ==
    /\ "swapdb" \in Unlogged
    /\ task = Idle
    /\ a # b
    /\ Room(1)
    /\ units' = units + 1
    /\ live' = [live EXCEPT ![a] = live[b], ![b] = live[a]]
    /\ strayed' = strayed \cup ({a, b} \X Keys)
    /\ UNCHANGED <<log, clock, protected, task>>

\* EVAL: the nested command's effects are overwritten by those of EVAL itself,
\* which is not a write command.
Eval(c) == "eval" \in Unlogged /\ Begin(<<c>>, FALSE, FALSE, FALSE)

\* cmd_exec with a RESET queued behind the first command: reset_for_connection
\* turns the capture off, selects database 0 and signs the client off.
ExecReset(q) ==
    /\ "reset" \in Unlogged
    /\ \A i \in 2 .. Len(q) : q[i].db = 0
    /\ Begin(q, TRUE, TRUE, TRUE)

\* ACL SETUSER default with a password; the ACL file is loaded before replay.
ProtectDefaultUser ==
    /\ "password" \in Unlogged
    /\ task = Idle
    /\ ~protected
    /\ protected' = TRUE
    /\ UNCHANGED <<live, log, clock, units, task, strayed>>

Next ==
    \/ \E c \in Commands : Execute(c)
    \/ \E q \in Queues : Exec(q)
    \/ RunHandler
    \/ CaptureEffects
    \/ Tick
    \/ \E d \in Dbs, k \in Keys : FastRead(d, k)
    \/ \E d \in Dbs, k \in Keys : ActiveExpire(d, k)
    \/ Restart
    \/ \E d \in Dbs, k \in Keys : Evict(d, k)
    \/ \E a, b \in Dbs : SwapDb(a, b)
    \/ \E c \in Commands : Eval(c)
    \/ \E q \in Queues : ExecReset(q)
    \/ ProtectDefaultUser

Spec == Init /\ [][Next]_vars

-----------------------------------------------------------------------------
(* Stored values have their types, and no handler leaves an empty set or     *)
(* stream behind (Redis removes the key with its last member).  The frozen   *)
(* clock is never ahead of the wall clock.                                   *)
TypeOK ==
    /\ \A d \in Dbs, k \in Keys :
          LET e == live[d][k]
          IN  /\ e.val \in Nat /\ e.at \in Nat /\ \A m \in e.mem : m \in Nat
              /\ \/ e = None
                 \/ e.type = "string" /\ e.mem = {}
                 \/ e.type \in {"set", "stream"} /\ e.mem # {}
    /\ clock \in 1..MaxClock /\ units \in 0..MaxUnits
    /\ protected \in BOOLEAN /\ strayed \subseteq Dbs \X Keys
    /\ task.stage \in {"idle", "run", "capture"} /\ task.time \in 0..clock
    /\ task.stage = "idle" <=> task.todo = <<>>
    /\ \A i \in 1..Len(log) : log[i].cmds # <<>> /\ log[i].time \in 1..clock

\* What a client can see of a database at the present clock
Visible(data, d, k) == Purge(data[d][k], clock)

(* Replaying the log at any later time gives the keyspace the server had,    *)
(* values, members, stream IDs and deadlines included, whatever mixture of   *)
(* relative deadlines, failed conditions, generated IDs, random pops, lazy   *)
(* and active expiry, transactions and readers beside them produced it; and  *)
(* no record of it is refused.  What bypassed the capture, and a reader that *)
(* removed a key under a command about to use it, harm only the keys they    *)
(* changed, as long as the server can start at all, and only up to the next  *)
(* start.                                                                    *)
ReplayMatchesLive ==
    task = Idle =>
      /\ strayed = {} /\ ~protected => Recovers
      /\ \A d \in Dbs, k \in Keys :
            <<d, k>> \notin strayed => Visible(Replayed.data, d, k) = Visible(live, d, k)

=============================================================================
