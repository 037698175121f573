------------------------------ MODULE Dispatch ------------------------------
(***************************************************************************)
(* What happens around a handler (command/mod.rs: execute_argv_inner and   *)
(* the side effects behind it): the name a request has in the table of     *)
(* commands, the keys its version, tracking and wake-up marks fall on, and *)
(* whether it must be refused while memory is over the limit               *)
(* (eviction.rs).                                                          *)
(***************************************************************************)
EXTENDS CommandTable, Keyspace

-----------------------------------------------------------------------------
(* Requests.  The name comes from the handler and the flags that tell its   *)
(* variants apart.                                                          *)

NameOf(c) ==
    CASE c.op = "PUSH" -> IF c.left THEN "LPUSH" ELSE "RPUSH"
      [] c.op = "PUSHX" -> IF c.left THEN "LPUSHX" ELSE "RPUSHX"
      [] c.op = "POP" -> IF c.left THEN "LPOP" ELSE "RPOP"
      [] c.op = "BPOP" -> IF c.left THEN "BLPOP" ELSE "BRPOP"
      [] c.op = "ZPOP" -> IF c.min THEN "ZPOPMIN" ELSE "ZPOPMAX"
      [] c.op = "BZPOP" -> IF c.min THEN "BZPOPMIN" ELSE "BZPOPMAX"
      [] c.op = "ZSETOP" -> CASE c.how = "union" -> "ZUNION" [] c.how = "inter" -> "ZINTER" [] OTHER -> "ZDIFF"
      [] c.op = "ZSETOPSTORE" -> CASE c.how = "union" -> "ZUNIONSTORE" [] c.how = "inter" -> "ZINTERSTORE"
                                   [] OTHER -> "ZDIFFSTORE"
      [] c.op = "XRANGE" -> IF c.rev THEN "XREVRANGE" ELSE "XRANGE"
      [] c.op = "SETEX" -> IF c.x.kind = "ex" THEN "SETEX" ELSE "PSETEX"
      [] c.op = "EXPIRE" -> CASE c.x.kind = "ex" -> "EXPIRE" [] c.x.kind = "px" -> "PEXPIRE"
                              [] c.x.kind = "exat" -> "EXPIREAT" [] OTHER -> "PEXPIREAT"
      [] c.op = "HEXPIRE" -> CASE c.x.kind = "ex" -> "HEXPIRE" [] c.x.kind = "px" -> "HPEXPIRE"
                               [] c.x.kind = "exat" -> "HEXPIREAT" [] OTHER -> "HPEXPIREAT"
      [] c.op = "HTTL" -> CASE c.mode = "ttl" -> "HTTL" [] c.mode = "pttl" -> "HPTTL"
                            [] c.mode = "expiretime" -> "HEXPIRETIME" [] OTHER -> "HPEXPIRETIME"
      [] c.op = "TTL" -> IF c.ms THEN "PTTL" ELSE "TTL"
      [] c.op = "EXPIRETIME" -> IF c.ms THEN "PEXPIRETIME" ELSE "EXPIRETIME"
      [] c.op = "RENAME" -> IF c.nx THEN "RENAMENX" ELSE "RENAME"
      [] OTHER -> c.op

Zeros(n) == [i \in 1..n |-> 0]
Interleaved(kvs) == [i \in 1..(2 * Len(kvs)) |-> IF i % 2 = 1 THEN kvs[(i + 1) \div 2][1] ELSE 0]

\* The arguments as the client sends them: keys at their places, 0 elsewhere.
ArgsOf(c) ==
    CASE c.op \in {"MGET", "DEL", "EXISTS", "LCS", "SDIFF", "SINTER", "SUNION"} -> c.ks
      [] c.op \in {"SDIFFSTORE", "SINTERSTORE", "SUNIONSTORE"} -> <<c.dst>> \o c.ks
      [] c.op \in {"BPOP", "BZPOP"} -> c.ks \o <<0>>
      [] c.op \in {"LMPOP", "ZMPOP", "ZSETOP", "SINTERCARD", "ZINTERCARD"} -> <<0>> \o c.ks \o <<0>>
      [] c.op = "ZSETOPSTORE" -> <<c.dst, 0>> \o c.ks \o <<0>>
      [] c.op = "BITOP" -> <<0, c.dst>> \o c.ks
      [] c.op \in {"MSET", "MSETNX"} -> Interleaved(c.kvs)
      [] c.op = "MSETEX" -> <<0>> \o Interleaved(c.kvs)
      [] c.op = "XREAD" -> <<0>> \o c.ks \o Zeros(Len(c.ks))
      [] c.op = "XREADGROUP" -> Zeros(4) \o c.ks \o Zeros(Len(c.ks))
      [] c.op \in {"XGROUP", "XINFO", "OBJECT"} -> <<0, c.k, 0>>
      [] c.op = "ZRANGESTORE" -> <<c.dst, c.k, 0, 0>>
      [] c.op \in {"LMOVE", "SMOVE", "RENAME", "COPY"} -> <<c.k, c.dst, 0>>
      [] c.op = "GETEX" /\ c.x.kind = "none" -> <<c.k>>
      [] c.op \in {"SCAN", "RANDOMKEY", "KEYS", "SWAPDB", "FLUSHDB", "FLUSHALL", "DBSIZE"} -> <<0>>
      [] OTHER -> <<c.k, 0>>

KeyArgs(c) ==
    LET args == ArgsOf(c)
    IN {args[p] : p \in CommandKeyPositions(CommandSpecs[NameOf(c)], Len(args) + 1)}

-----------------------------------------------------------------------------
(* maybe_track_write_version *)

IsNil(r) == r \in {Nil, NilArr}
IsEmptyArray(r) == r \in {Arr(<<>>), Bag({})}

CountedWrites == {"SETNX", "MSETNX", "MSETEX", "RENAMENX", "MOVE", "COPY", "EXPIRE", "PEXPIRE", "EXPIREAT",
    "PEXPIREAT", "PERSIST", "DEL", "DELEX", "UNLINK", "HDEL", "SADD", "SREM", "LPUSHX", "RPUSHX", "LREM",
    "SMOVE", "XDEL", "XTRIM", "ZREM", "ZREMRANGEBYRANK", "ZREMRANGEBYSCORE", "ZREMRANGEBYLEX"}

Pops == {"LPOP", "RPOP", "BLPOP", "BRPOP", "SPOP", "ZPOPMIN", "ZPOPMAX", "BZPOPMIN", "BZPOPMAX"}

\* Whether the reply tells that something was written.
ShouldMark(c, r) ==
    LET name == NameOf(c)
    IN CASE name = "SET" -> r # Nil
         [] name = "GETEX" -> Len(ArgsOf(c)) > 1
         [] name \in {"LMOVE", "LMPOP"} -> ~IsNil(r)
         [] name = "SORT" -> c.dst # 0
         [] name \in CountedWrites -> r # Num(0)
         [] name \in Pops -> ~IsNil(r) /\ ~IsEmptyArray(r)
         [] name \in {"XACKDEL", "XDELEX"} -> \E i \in DOMAIN r.arr : r.arr[i] # -1
         [] name \in {"XCLAIM", "XAUTOCLAIM"} -> FALSE
         [] OTHER -> TRUE

\* The pairs of database and key whose version a command advances, whose readers
\* it invalidates and whose waiters it wakes; the client is in database 0.
TouchedKeys(c, r, ds) ==
    CASE ~IsWriteCommandName(NameOf(c)) \/ IsErr(r) \/ ~ShouldMark(c, r) -> {}
      [] c.op = "SORT" -> {<<0, c.dst>>}
      [] c.op = "COPY" -> {<<IF c.db \in DOMAIN ds THEN c.db ELSE 0, c.dst>>}
      [] c.op = "MOVE" -> {<<i, c.k>> : i \in {0} \cup ({c.db} \cap DOMAIN ds)}
      [] c.op = "MSETEX" -> {<<0, c.kvs[i][1]>> : i \in DOMAIN c.kvs}
      [] OTHER -> {<<0, k>> : k \in KeyArgs(c)}

-----------------------------------------------------------------------------
(* Memory.  Keys, members, fields and names are one byte long.              *)

\* ENTRY_OVERHEAD, the key and the value's own record.
EntryOverhead == 65

GroupMemory(group) ==
    257 + Cardinality(DOMAIN group.consumers) * 97
        + FoldSet(LAMBDA m, acc : acc + 16 * Cardinality(group.consumers[m].pending), 0, DOMAIN group.consumers)
        + 81 * Cardinality(DOMAIN group.pending)

EstimateObjectMemory(e) ==
    EntryOverhead +
    CASE e.t = "string" -> IF e.enc = "int" THEN 8 ELSE Len(e.string)
      [] e.t = "list" -> 25 * Len(e.list)
      [] e.t = "hash" -> FoldSet(LAMBDA f, acc : acc + 65 + Len(e.hash[f].v), 0, DOMAIN e.hash)
      [] e.t = "set" -> Cardinality(e.set) * IF e.enc = "intset" THEN 8 ELSE 49
      [] e.t = "zset" -> 129 * Cardinality(DOMAIN e.zset.byMember)
      [] e.t = "stream" -> 82 * Len(e.stream.entries)
            + FoldSet(LAMBDA g, acc : acc + GroupMemory(e.stream.groups[g]), 0, DOMAIN e.stream.groups)

EstimateShardMemory(db) ==
    FoldSet(LAMBDA k, acc : acc + EstimateObjectMemory(db.data[k]), 0, DOMAIN db.data)
EstimateUsedMemory(ds) == FoldSet(LAMBDA i, acc : acc + EstimateShardMemory(ds[i]), 0, DOMAIN ds)

MutCommandMayGrowMemory(c) == HasFlag(NameOf(c), "denyoom")

\* The commands that are refused while memory is over the limit and nothing may
\* be evicted.
CommandMayGrowMemory(c) ==
    LET name == NameOf(c)
    IN \/ HasFlag(name, "denyoom")
       \/ name = "XGROUP" /\ c.sub \in {"CREATE", "CREATECONSUMER"}
       \/ name \in {"XREADGROUP", "XCLAIM", "XAUTOCLAIM", "XCFGSET", "MOVE", "RENAME", "RENAMENX", "SMOVE",
                    "LMOVE"}

=============================================================================
