------------------------------ MODULE FastPath ------------------------------
(***************************************************************************)
(* The second implementation of the reading commands                       *)
(* (ratatosk-server/src/client/readonly_batch.rs): a client of the default *)
(* user outside a transaction is answered from the shard itself, under its *)
(* write lock and not the server's, by code that repeats the handlers.     *)
(*                                                                         *)
(* One operator per arm of try_execute_lock_free_fast_command.  PING, ECHO *)
(* and TIME read no key and are left out.                                  *)
(***************************************************************************)
EXTENDS StringCommands, ListCommands, SetCommands, HashCommands, SortedSetCommands, KeyCommands

-----------------------------------------------------------------------------
(* Helpers of the fast path. *)

MutPurgeInShard(db, k, now) ==
    IF Has(db, k) /\ db.data[k].at > 0 /\ db.data[k].at < now THEN RemoveKey(db, k) ELSE db

\* purge_expired_key_in_shard with tracked_remove_from_shard.
PurgeInShard(db, k, now) ==
    IF Has(db, k) /\ db.data[k].at > 0 /\ db.data[k].at <= now
    THEN [data |-> Drop(db.data, k), expires |-> Drop(db.expires, k)]
    ELSE db

PurgeAllInShard(db, now) ==
    FoldSet(LAMBDA k, d : PurgeInShard(d, k, now), db, DOMAIN db.data)

\* Purge the key, then read its value if it has the right type.
Look(db0, k, now, ty, missing, F(_)) ==
    LET db == PurgeInShard(db0, k, now)
    IN Ret(db, CASE ~Has(db, k) -> missing
                 [] Has(db, k) /\ db.data[k].t # ty -> WrongType
                 [] OTHER -> F(db.data[k][ty]))

FreshField(h, f, now) == f \in DOMAIN h /\ ~(h[f].at > 0 /\ h[f].at <= now)

MemberInLexRange(m, lo, hi) ==
    /\ lo.kind # "pos" /\ (lo.kind = "incl" => m >= lo.n) /\ (lo.kind = "excl" => m > lo.n)
    /\ hi.kind # "neg" /\ (hi.kind = "incl" => m <= hi.n) /\ (hi.kind = "excl" => m < hi.n)

-----------------------------------------------------------------------------
(* Keys and strings. *)

FastDbsize(db0, c, now) ==
    LET db == PurgeAllInShard(db0, now) IN Ret(db, Num(Cardinality(DOMAIN db.data)))

FastType(db0, c, now) ==
    LET db == PurgeInShard(db0, c.k, now)
    IN Ret(db, Bulk(IF Has(db, c.k) THEN db.data[c.k].t ELSE "none"))

FastExists(db0, c, now) ==
    LET db == FoldLeft(LAMBDA d, k : PurgeInShard(d, k, now), db0, c.ks)
    IN Ret(db, Num(Len(SelectSeq(c.ks, LAMBDA k : Has(db, k)))))

\* TTL, PTTL, EXPIRETIME and PEXPIRETIME.
FastTtl(db0, c, now) ==
    LET db == PurgeInShard(db0, c.k, now)
        at == db.data[c.k].at
        unit == IF c.ms THEN 1 ELSE Sec
    IN Ret(db, CASE ~Has(db, c.k) -> Num(-2)
                 [] Has(db, c.k) /\ at = 0 -> Num(-1)
                 [] OTHER -> Num((IF c.op = "TTL" THEN at - now ELSE at) \div unit))

FastGet(db, c, now) == Look(db, c.k, now, "string", Nil, LAMBDA s : Bulk(s))

FastMget(db0, c, now) ==
    LET db == FoldLeft(LAMBDA d, k : PurgeInShard(d, k, now), db0, c.ks)
        One(k) == IF Has(db, k) /\ db.data[k].t = "string" THEN Bulk(db.data[k].string) ELSE Nil
    IN Ret(db, Arr([i \in DOMAIN c.ks |-> One(c.ks[i])]))

FastStrlen(db, c, now) == Look(db, c.k, now, "string", Num(0), LAMBDA s : Num(Len(s)))

FastGetrange(db, c, now) ==
    IF ~IsInt(c.start) \/ ~IsInt(c.end) THEN Ret(db, NotAnInteger)
    ELSE Look(db, c.k, now, "string", Bulk(<<>>), LAMBDA s :
           LET range == NormalizeStringRange(Len(s), c.start, c.end)
           IN Bulk(IF range = NoRange THEN <<>> ELSE SubSeq(s, range[1] + 1, range[2] + 1)))

FastGetbit(db, c, now) ==
    IF ~IsInt(c.n) \/ c.n < 0 THEN Ret(db, BitOffsetError)
    ELSE Look(db, c.k, now, "string", Num(0), LAMBDA s : Num(GetBit(s, c.n)))

\* The whole value, or the bytes or bits of a range of it.
FastBitcount(db, c, now) ==
    Look(db, c.k, now, "string", Num(0), LAMBDA s :
      LET unit == IF c.unit = "bit" THEN 8 * Len(s) ELSE Len(s)
          range == IF c.unit = "all" THEN <<0, Len(s) - 1>> ELSE NormalizeStringRange(unit, c.start, c.end)
          bits == IF c.unit = "bit" THEN range[1]..range[2] ELSE (8 * range[1])..(8 * range[2] + 7)
      IN IF s = <<>> THEN Num(0)
         ELSE IF c.unit # "all" /\ (~IsInt(c.start) \/ ~IsInt(c.end)) THEN NotAnInteger
         ELSE IF range = NoRange THEN Num(0)
         ELSE Num(Cardinality({p \in bits : GetBit(s, p) = 1})))

-----------------------------------------------------------------------------
(* Hashes, sets and lists. *)

FastHget(db, c, now) ==
    Look(db, c.k, now, "hash", Nil, LAMBDA h : IF FreshField(h, c.f, now) THEN Bulk(h[c.f].v) ELSE Nil)

FastHmget(db, c, now) ==
    Look(db, c.k, now, "hash", Arr([i \in DOMAIN c.fs |-> Nil]), LAMBDA h :
      Arr([i \in DOMAIN c.fs |-> IF FreshField(h, c.fs[i], now) THEN Bulk(h[c.fs[i]].v) ELSE Nil]))

FreshFields(h, now) == {f \in DOMAIN h : FreshField(h, f, now)}

FastHgetall(db, c, now) ==
    Look(db, c.k, now, "hash", Bag({}), LAMBDA h : Bag({<<f, h[f].v>> : f \in FreshFields(h, now)}))

FastHkeys(db, c, now) == Look(db, c.k, now, "hash", Bag({}), LAMBDA h : Bag(FreshFields(h, now)))

FastHvals(db, c, now) ==
    Look(db, c.k, now, "hash", Arr(<<>>), LAMBDA h :
      LET fs == Members(FreshFields(h, now)) IN Arr([i \in DOMAIN fs |-> Bulk(h[fs[i]].v)]))

FastHexists(db, c, now) ==
    Look(db, c.k, now, "hash", Num(0), LAMBDA h : Num(IF FreshField(h, c.f, now) THEN 1 ELSE 0))

FastHlen(db, c, now) ==
    Look(db, c.k, now, "hash", Num(0), LAMBDA h : Num(Cardinality(FreshFields(h, now))))

FastHstrlen(db, c, now) ==
    Look(db, c.k, now, "hash", Num(0), LAMBDA h : Num(IF FreshField(h, c.f, now) THEN Len(h[c.f].v) ELSE 0))

FastSismember(db, c, now) ==
    Look(db, c.k, now, "set", Num(0), LAMBDA S : Num(IF c.m \in S THEN 1 ELSE 0))

FastSmismember(db, c, now) ==
    Look(db, c.k, now, "set", Arr([i \in DOMAIN c.vs |-> Num(0)]), LAMBDA S :
      Arr([i \in DOMAIN c.vs |-> Num(IF c.vs[i] \in S THEN 1 ELSE 0)]))

FastScard(db, c, now) == Look(db, c.k, now, "set", Num(0), LAMBDA S : Num(Cardinality(S)))

FastLlen(db, c, now) == Look(db, c.k, now, "list", Num(0), LAMBDA l : Num(Len(l)))

FastLindex(db, c, now) ==
    IF ~IsInt(c.n) THEN Ret(db, NotAnInteger)
    ELSE Look(db, c.k, now, "list", Nil, LAMBDA l :
           LET index == IF c.n < 0 THEN Saturate(Len(l) + c.n) ELSE c.n
           IN IF index < 0 \/ index >= Len(l) THEN Nil ELSE Elem(l[index + 1]))

FastLrange(db, c, now) ==
    IF ~IsInt(c.start) \/ ~IsInt(c.end) THEN Ret(db, NotAnInteger)
    ELSE Look(db, c.k, now, "list", Arr(<<>>), LAMBDA l :
           LET range == NormalizeRange(Len(l), c.start, c.end)
           IN IF range = NoRange THEN Arr(<<>>) ELSE Elems(SubSeq(l, range[1] + 1, range[2] + 1)))

-----------------------------------------------------------------------------
(* Sorted sets. *)

FastZscore(db, c, now) ==
    Look(db, c.k, now, "zset", Nil, LAMBDA z :
      IF c.m \in DOMAIN z.byMember THEN Bulk(FormatF64(z.byMember[c.m])) ELSE Nil)

FastZcard(db, c, now) ==
    Look(db, c.k, now, "zset", Num(0), LAMBDA z : Num(Cardinality(DOMAIN z.byMember)))

FastZmscore(db, c, now) ==
    Look(db, c.k, now, "zset", Arr([i \in DOMAIN c.vs |-> Nil]), LAMBDA z :
      Arr([i \in DOMAIN c.vs |->
             IF c.vs[i] \in DOMAIN z.byMember THEN Bulk(FormatF64(z.byMember[c.vs[i]])) ELSE Nil]))

FastZcount(db, c, now) ==
    IF Unparsed(c.a, "score") \/ Unparsed(c.b, "score") THEN Ret(db, BadBound("score"))
    ELSE Look(db, c.k, now, "zset", Num(0), LAMBDA z : Num(Len(RangeByScore(z, c.a, c.b))))

FastZlexcount(db, c, now) ==
    IF Unparsed(c.a, "lex") \/ Unparsed(c.b, "lex") THEN Ret(db, BadBound("lex"))
    ELSE Look(db, c.k, now, "zset", Num(0), LAMBDA z :
           Num(Cardinality({e \in z.byScore : MemberInLexRange(e[2], c.a, c.b)})))

\* Entries of a set in order, or backwards; a reversed range by score or by
\* member has its upper bound first.
CollectLockFreeZrangeEntries(z, first, second, mode, rev) ==
    LET ordered == IF rev THEN Reverse(SortedEntries(z)) ELSE SortedEntries(z)
        lo == IF rev THEN second ELSE first
        hi == IF rev THEN first ELSE second
        range == NormalizeRange(Cardinality(DOMAIN z.byMember), first.n, second.n)
    IN CASE mode = "rank" -> IF range = NoRange THEN <<>> ELSE SubSeq(ordered, range[1] + 1, range[2] + 1)
         [] mode = "score" -> SelectSeq(ordered, LAMBDA e : Above(lo, e[1]) /\ Below(hi, e[1]))
         [] OTHER -> SelectSeq(ordered, LAMBDA e : MemberInLexRange(e[2], lo, hi))

\* A negative count is no limit; an offset past the end leaves nothing.
ApplyLockFreeZrangeLimit(selected, limit) ==
    IF limit = <<>> THEN selected
    ELSE IF limit[1] >= Len(selected) THEN <<>>
    ELSE LET rest == SubSeq(selected, limit[1] + 1, Len(selected))
         IN IF limit[2] >= 0 /\ limit[2] < Len(rest) THEN SubSeq(rest, 1, limit[2]) ELSE rest

\* The options are parsed before the key is read, the bounds after.
LockFreeZrangeResponse(db, c, now, first, second, mode, rev, limit) ==
    IF limit # <<>> /\ (~IsInt(limit[1]) \/ ~IsInt(limit[2])) THEN Ret(db, NotAnInteger)
    ELSE Look(db, c.k, now, "zset", Arr(<<>>), LAMBDA z :
           IF Unparsed(first, mode) \/ Unparsed(second, mode) THEN BadBound(mode)
           ELSE IF limit # <<>> /\ limit[1] < 0 THEN NotAnInteger
           ELSE EntriesToResp(ApplyLockFreeZrangeLimit(
                  CollectLockFreeZrangeEntries(z, first, second, mode, rev), limit), c.withscores))

FastZrange(db, c, now) == LockFreeZrangeResponse(db, c, now, c.a, c.b, c.mode, c.rev, c.limit)
FastZrangebyscore(db, c, now) == LockFreeZrangeResponse(db, c, now, c.a, c.b, "score", FALSE, c.limit)
FastZrevrangebyscore(db, c, now) == LockFreeZrangeResponse(db, c, now, c.a, c.b, "score", TRUE, c.limit)
FastZrangebylex(db, c, now) == LockFreeZrangeResponse(db, c, now, c.a, c.b, "lex", FALSE, c.limit)
FastZrevrangebylex(db, c, now) == LockFreeZrangeResponse(db, c, now, c.a, c.b, "lex", TRUE, c.limit)
FastZrevrange(db, c, now) == LockFreeZrangeResponse(db, c, now, c.a, c.b, "rank", TRUE, <<>>)

FastZrank(db, c, now) ==
    Look(db, c.k, now, "zset", Nil, LAMBDA z :
      IF c.m \in DOMAIN z.byMember THEN Num(Rank(z, c.m)) ELSE Nil)

FastZrevrank(db, c, now) ==
    Look(db, c.k, now, "zset", Nil, LAMBDA z :
      IF c.m \in DOMAIN z.byMember
      THEN Num(Cardinality({e \in z.byScore : EntryBefore(<<z.byMember[c.m], c.m>>, e)})) ELSE Nil)

-----------------------------------------------------------------------------
IsLockFreeFastCommandName(op) ==
    op \in {"DBSIZE", "TYPE", "EXISTS", "GET", "MGET", "STRLEN", "BITCOUNT", "GETRANGE", "GETBIT",
            "HGET", "HMGET", "HGETALL", "HKEYS", "HVALS", "HEXISTS", "HLEN", "HSTRLEN",
            "SISMEMBER", "SMISMEMBER", "SCARD", "ZSCORE", "ZCARD", "ZMSCORE", "ZCOUNT", "ZLEXCOUNT",
            "ZRANGE", "ZRANGEBYSCORE", "ZREVRANGEBYSCORE", "ZRANGEBYLEX", "ZREVRANGEBYLEX", "ZREVRANGE",
            "ZRANK", "ZREVRANK", "LLEN", "LINDEX", "LRANGE", "TTL", "EXPIRETIME"}

TryExecuteLockFreeFastCommand(db, c, now) ==
    CASE c.op = "DBSIZE" -> FastDbsize(db, c, now)       [] c.op = "TYPE" -> FastType(db, c, now)
      [] c.op = "EXISTS" -> FastExists(db, c, now)       [] c.op = "GET" -> FastGet(db, c, now)
      [] c.op \in {"TTL", "EXPIRETIME"} -> FastTtl(db, c, now)
      [] c.op = "MGET" -> FastMget(db, c, now)           [] c.op = "STRLEN" -> FastStrlen(db, c, now)
      [] c.op = "BITCOUNT" -> FastBitcount(db, c, now)   [] c.op = "GETBIT" -> FastGetbit(db, c, now)
      [] c.op = "GETRANGE" -> FastGetrange(db, c, now)   [] c.op = "HGET" -> FastHget(db, c, now)
      [] c.op = "HMGET" -> FastHmget(db, c, now)         [] c.op = "HGETALL" -> FastHgetall(db, c, now)
      [] c.op = "HKEYS" -> FastHkeys(db, c, now)         [] c.op = "HVALS" -> FastHvals(db, c, now)
      [] c.op = "HEXISTS" -> FastHexists(db, c, now)     [] c.op = "HLEN" -> FastHlen(db, c, now)
      [] c.op = "HSTRLEN" -> FastHstrlen(db, c, now)     [] c.op = "SISMEMBER" -> FastSismember(db, c, now)
      [] c.op = "SMISMEMBER" -> FastSmismember(db, c, now) [] c.op = "SCARD" -> FastScard(db, c, now)
      [] c.op = "ZSCORE" -> FastZscore(db, c, now)       [] c.op = "ZCARD" -> FastZcard(db, c, now)
      [] c.op = "ZMSCORE" -> FastZmscore(db, c, now)     [] c.op = "ZCOUNT" -> FastZcount(db, c, now)
      [] c.op = "ZLEXCOUNT" -> FastZlexcount(db, c, now) [] c.op = "ZRANGE" -> FastZrange(db, c, now)
      [] c.op = "ZRANGEBYSCORE" -> FastZrangebyscore(db, c, now)
      [] c.op = "ZREVRANGEBYSCORE" -> FastZrevrangebyscore(db, c, now)
      [] c.op = "ZRANGEBYLEX" -> FastZrangebylex(db, c, now)
      [] c.op = "ZREVRANGEBYLEX" -> FastZrevrangebylex(db, c, now)
      [] c.op = "ZREVRANGE" -> FastZrevrange(db, c, now)
      [] c.op = "ZRANK" -> FastZrank(db, c, now)         [] c.op = "ZREVRANK" -> FastZrevrank(db, c, now)
      [] c.op = "LLEN" -> FastLlen(db, c, now)           [] c.op = "LINDEX" -> FastLindex(db, c, now)
      [] c.op = "LRANGE" -> FastLrange(db, c, now)

=============================================================================
