------------------------------ MODULE Commands ------------------------------
(***************************************************************************)
(* The engine as its clients see it: logical databases, the commands of    *)
(* the handler modules executed one at a time under the server lock, the   *)
(* clock, and the background cycle that removes expired keys.              *)
(*                                                                         *)
(* A run explores one suite of commands per initial state, so that every   *)
(* type is exercised with all of its commands without multiplying the      *)
(* types' states.                                                          *)
(***************************************************************************)
EXTENDS StringCommands, ListCommands, SetCommands, HashCommands, SortedSetCommands, StreamCommands,
        KeyCommands, FastPath, DirectApi, Dispatch

CONSTANTS Dbs,         \* indexes of the logical databases; 0 is selected
          Suites,      \* names of the command suites
          CommandsOf,  \* the commands of each suite
          StartOf,     \* the databases each suite may start from
          MaxNow,      \* bound on the clock
          MaxMemory,   \* maxmemory, in bytes of the estimate
          PolicyOf,    \* maxmemory-policy of each suite: noeviction, volatile or allkeys
          Bounded(_)   \* bound on the databases explored

VARIABLES suite, dbs, now
vars == <<suite, dbs, now>>

ASSUME CommandsAssumption ==
    /\ 0 \in Dbs
    /\ MaxNow \in Nat \ {0}
    /\ MaxMemory \in Nat \ {0}
    /\ \A s \in Suites : PolicyOf[s] \in {"noeviction", "volatile", "allkeys"}

-----------------------------------------------------------------------------
\* The dispatch of a command to its handler: the client has database 0 selected.
OneDb(db, c, t) ==
    CASE c.op \in StringOps -> StringCommand(db, c, t)
      [] c.op \in ListOps -> ListCommand(db, c, t)
      [] c.op \in SetOps -> SetCommand(db, c, t)
      [] c.op \in HashOps -> HashCommand(db, c, t)
      [] c.op \in ZsetOps -> SortedSetCommand(db, c, t)
      [] c.op \in StreamOps -> StreamCommand(db, c, t)
      [] c.op \in KeyOps -> KeyCommand(db, c, t)

ServerOps == {"MOVE", "COPY", "SWAPDB", "FLUSHDB", "FLUSHALL"}

\* What a handler did to the selected database.
InSelected(ds, out) == RetAll([ds EXCEPT ![0] = out.db], out.r)

Exec(ds, c, t) ==
    IF c.op \in ServerOps
    THEN CASE c.op = "MOVE" -> MoveKey(ds, 0, c, t)
           [] c.op = "COPY" -> CopyKey(ds, 0, c, t)
           [] c.op = "SWAPDB" -> Swapdb(ds, c)
           [] c.op = "FLUSHDB" -> Flushdb(ds, 0)
           [] c.op = "FLUSHALL" -> Flushall(ds)
    ELSE InSelected(ds, OneDb(ds[0], c, t))

Init ==
    /\ suite \in Suites
    /\ dbs \in StartOf[suite]
    /\ now = 1

\* Admission: over the limit, with nothing that may be evicted.
ShouldRejectForMaxmemory(c) ==
    /\ PolicyOf[suite] = "noeviction"
    /\ CommandMayGrowMemory(c)
    /\ EstimateUsedMemory(dbs) > MaxMemory

Execute(c) ==
    /\ ~ShouldRejectForMaxmemory(c)
    /\ dbs' = Exec(dbs, c, now).dbs
    /\ Bounded(dbs')
    /\ UNCHANGED <<suite, now>>

\* The background cycle samples the index of deadlines of one database and
\* removes the keys it finds expired, in any number.
ExpireCycle(i) ==
    /\ \E ks \in SUBSET {k \in DOMAIN dbs[i].expires : dbs[i].expires[k] <= now} :
          dbs' = [dbs EXCEPT ![i] = PurgeAll(@, SetToSeq(ks), now)]
    /\ UNCHANGED <<suite, now>>

\* Eviction removes the best of the keys it sampled, of all of them or of those
\* with a deadline; which one that is depends on draws and on access times.  The
\* counter that calls for it drifts when values are changed in place, so that
\* it may run in any state.
Evict(i) ==
    /\ \E k \in CASE PolicyOf[suite] = "noeviction" -> {}
                  [] PolicyOf[suite] = "volatile" -> DOMAIN dbs[i].expires
                  [] OTHER -> DOMAIN dbs[i].data :
          dbs' = [dbs EXCEPT ![i] = RemoveKey(@, k)]
    /\ UNCHANGED <<suite, now>>

Tick ==
    /\ now < MaxNow
    /\ now' = now + 1
    /\ UNCHANGED <<suite, dbs>>

Next ==
    \/ \E c \in CommandsOf[suite] : Execute(c)
    \/ \E i \in Dbs : ExpireCycle(i)
    \/ \E i \in Dbs : Evict(i)
    \/ Tick

Spec == Init /\ [][Next]_vars

-----------------------------------------------------------------------------
(* Properties. *)

Nonempty(e) ==
    CASE e.t = "string" -> TRUE
      [] e.t = "list" -> e.list # <<>>
      [] e.t = "set" -> e.set # {}
      [] e.t = "hash" -> DOMAIN e.hash # {}
      [] e.t = "zset" -> DOMAIN e.zset.byMember # {}
      [] OTHER -> TRUE

IndexesAgree(e) ==
    e.t = "zset" => e.zset.byScore = {<<e.zset.byMember[m], m>> : m \in DOMAIN e.zset.byMember}

\* What the binary search of XDELEX, the loader of snapshots (is_valid_for) and
\* the removal of a consumer rely on.
StreamSound(e) ==
    e.t = "stream" =>
      LET st == e.stream
          n == Len(st.entries)
      IN /\ \A i \in 1..(n - 1) : IdLess(st.entries[i].id, st.entries[i + 1].id)
         /\ n > 0 => IdAtMost(st.entries[n].id, st.meta.last)
         /\ st.meta.added >= n
         /\ IdAtMost(st.meta.maxdel, st.meta.last)
         /\ \A g \in DOMAIN st.groups : \A id \in DOMAIN st.groups[g].pending :
               LET m == st.groups[g].pending[id].consumer
               IN m \in DOMAIN st.groups[g].consumers /\ id \in st.groups[g].consumers[m].pending

EncodingFits(e) ==
    /\ e.t = "string" => (e.enc = "int") = (e.string = FormatInt(ParseI64(e.string)))
    /\ (e.t = "set" /\ e.enc = "intset") =>
          Cardinality(e.set) <= IntSetMax /\ \A m \in e.set : IsIntMember(m)

(* Whatever sequence of commands ran: no key holds an empty collection, the *)
(* two indexes of every sorted set describe the same set, a compact         *)
(* encoding is used only for what it can hold, and the index of deadlines   *)
(* that active expiry walks lists exactly the keys that have one.           *)
WellFormed ==
    \A i \in Dbs :
      /\ \A k \in DOMAIN dbs[i].data : /\ Nonempty(dbs[i].data[k])
                                       /\ IndexesAgree(dbs[i].data[k])
                                       /\ EncodingFits(dbs[i].data[k])
      /\ DOMAIN dbs[i].expires = {k \in DOMAIN dbs[i].data : dbs[i].data[k].at > 0}
      /\ \A k \in DOMAIN dbs[i].expires : dbs[i].expires[k] = dbs[i].data[k].at

(* Whatever sequence of XADD, XSETID, deletions, claims and group commands   *)
(* ran: the entries ascend and none is above the last ID, which new ones are *)
(* made from, and every pending entry of a group is in the list of the       *)
(* consumer it names, so that the entry goes when the consumer does.         *)
StreamsSound == \A i \in Dbs : \A k \in DOMAIN dbs[i].data : StreamSound(dbs[i].data[k])

\* The databases as clients may see them: without the keys that have expired.
Live(ds) == [i \in DOMAIN ds |-> PurgeExpiredKeys(ds[i], now)]

\* XACK and XREADGROUP go through their IDs and streams one at a time, and the
\* first they refuse is answered after those before it were applied.
OneByOne == {"XACK", "XREADGROUP"}

Harmless(out) == IsErr(out.r) => Live(out.dbs) = Live(dbs)

(* A command that answers with an error has changed nothing a client could  *)
(* see: handlers that touch several keys or fields check before they write. *)
ErrorsChangeNothing ==
    \A c \in CommandsOf[suite] : c.op \notin OneByOne => Harmless(Exec(dbs, c, now))

SameOutcome(out, ref) == out.r = ref.r /\ Live(out.dbs) = Live(ref.dbs)

(* A key whose deadline has passed is invisible from that instant on,       *)
(* whether or not the background cycle has reached it: every command gives  *)
(* the reply and leaves the keys it would have with the key already gone.   *)
ExpiredInvisible ==
    Live(dbs) # dbs =>
      \A c \in CommandsOf[suite] : SameOutcome(Exec(dbs, c, now), Exec(Live(dbs), c, now))

\* What reads of a key find: expired fields of a hash are not there.
Seen(e) ==
    IF e.t # "hash" THEN e
    ELSE LET alive == AliveFields(e.hash, now)
         IN IF alive = {} THEN Nil ELSE [e EXCEPT !.hash = Restrict(@, alive)]
Entry(ds, i, k) == IF Has(ds[i], k) THEN Seen(ds[i].data[k]) ELSE Nil
Changed(before, after) ==
    {<<i, k>> \in Dbs \X (UNION {DOMAIN ds[i].data : ds \in {before, after}, i \in Dbs}) :
        Entry(before, i, k) # Entry(after, i, k)}

\* Emptying and swapping databases advance the versions themselves.
WholeDatabases == {"SWAPDB", "FLUSHDB", "FLUSHALL"}
\* Writes that are not marked: their rows name no key, or the reply is taken for
\* that of a command that wrote nothing, as the nil of SET with GET.
Unmarked(c, r) ==
    \/ c.op \in {"LMPOP", "ZMPOP", "XREADGROUP", "XCLAIM", "XAUTOCLAIM"}
    \/ c.op = "SET" /\ c.get /\ r = Nil

Marked(c, out) ==
    \/ IsErr(out.r) \/ Unmarked(c, out.r)
    \/ Changed(Live(dbs), Live(out.dbs)) \subseteq TouchedKeys(c, out.r, dbs)

(* Every key a command changed is among those whose version it advances,     *)
(* whose cached readers it invalidates and whose blocked clients it wakes:   *)
(* the reply and the table never hide a write, and a command the table does  *)
(* not call a write changes nothing.                                         *)
MarksWrites ==
    \A c \in CommandsOf[suite] : c.op \notin WholeDatabases => Marked(c, Exec(dbs, c, now))

(* A command that makes the databases larger is one that is refused while    *)
(* memory is over the limit.                                                 *)
GrowthIsRefusable ==
    \A c \in CommandsOf[suite] : ~CommandMayGrowMemory(c) =>
       EstimateUsedMemory(Live(Exec(dbs, c, now).dbs)) <= EstimateUsedMemory(Live(dbs))

\* The reversed ranges whose locked handlers swap their bounds.
SwappedBounds == {"ZREVRANGEBYSCORE", "ZREVRANGEBYLEX"}

\* What the methods of DirectDb do not know: the integer encoding of strings,
\* deadlines of fields, keys past their deadline, infinite scores, and a stop
\* before the first rank.
DirectApplies(c) ==
    LET db == dbs[0]
        e == db.data[c.k]
        present == "k" \in DOMAIN c /\ Has(db, c.k)
    IN /\ present /\ e.t = "string" => e.enc = "raw"
       /\ present /\ e.t = "hash" => \A f \in DOMAIN e.hash : e.hash[f].at = 0
       /\ present /\ c.op \in {"EXPIRE", "TTL", "PERSIST"} => ~ExpiredAt(e, now)
       /\ c.op = "EXPIRE" => c.x.n > now
       /\ c.op = "ZADD" => ~IsInfinite(c.pairs[1][1])
       /\ present /\ c.op = "ZRANGE" /\ e.t = "zset" => c.b.n >= -ZLen(e.zset)
       /\ c.op = "SET" /\ c.x.kind = "pxat" => c.x.n > now

\* Methods have no reply for a key without a deadline, and keep the encoding.
SameReply(direct, reply) == direct = reply \/ (direct = Nil /\ reply \in {Num(-1), Num(-2)})
Unencoded(db) == [k \in DOMAIN db.data |-> IF db.data[k].t = "string" THEN [db.data[k] EXCEPT !.enc = "raw"]
                                           ELSE db.data[k]]

\* What a method may answer of a reply: of a range, its first entries.
Capped(c, r) ==
    IF c.op = "ZRANGE" THEN Arr(SubSeq(r.arr, 1, Min({Len(r.arr), DefaultMaxRange}))) ELSE r

DirectAgrees(c, out, ref) ==
    IsErr(ref.r) \/ (SameReply(out.r, Capped(c, ref.r)) /\ Unencoded(out.db) = Unencoded(ref.db))
PathAgrees(c, ref) ==
    /\ IsLockFreeFastCommandName(c.op) /\ c.op \notin SwappedBounds =>
          TryExecuteLockFreeFastCommand(dbs[0], c, now) = ref
    /\ HasMethod(c) /\ DirectApplies(c) => DirectAgrees(c, Method(dbs[0], c, now), ref)

(* The engine has up to three implementations of a command: the handler, the *)
(* lock-free fast path of the server and the method of DirectDb.  They give  *)
(* the same reply and leave the same keys in every state, where the command  *)
(* is not one of those listed above and the handler gives no error; of a     *)
(* range of ranks, a method gives the first DefaultMaxRange entries.         *)
PathsAgree ==
    \A c \in CommandsOf[suite] : c.op \notin ServerOps => PathAgrees(c, OneDb(dbs[0], c, now))

(* The fast path answers every reading command as its handler does, the      *)
(* reversed ranges too: a client must not see which of them ran.             *)
FastPathTransparent ==
    \A c \in CommandsOf[suite] : IsLockFreeFastCommandName(c.op) =>
       TryExecuteLockFreeFastCommand(dbs[0], c, now) = OneDb(dbs[0], c, now)

=============================================================================
