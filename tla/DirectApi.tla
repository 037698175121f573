----------------------------- MODULE DirectApi ------------------------------
(***************************************************************************)
(* The third implementation of the commands (ratatosk-engine/src/direct.rs):*)
(* DirectDb, for programs that embed the engine and call it without the    *)
(* protocol.  One operator per method, on the record of the command it     *)
(* stands for; methods answer a value of another type as a missing key, and *)
(* have no errors.                                                         *)
(***************************************************************************)
EXTENDS StringCommands, SetCommands, HashCommands, SortedSetCommands, KeyCommands

CONSTANT DefaultMaxRange   \* DEFAULT_MAX_RANGE, entries in the answer of a range

ASSUME DirectAssumption == DefaultMaxRange \in Nat

-----------------------------------------------------------------------------
(* The two ways to purge agree: the reading one looks before it locks. *)
PurgeIfExpired(db, k, now) == PurgeExpiredKey(db, k, now)

\* A method that reads a value of type ty, or answers none.
DirectRead(db0, k, now, ty, none, F(_)) ==
    LET db == PurgeIfExpired(db0, k, now)
    IN Ret(db, IF TypeIs(db, k, ty) THEN F(db.data[k][ty]) ELSE none)

-----------------------------------------------------------------------------
(* Sorted sets. *)

\* One member; infinite scores and NaN add nothing.
ZaddOptsInner(db0, c, now) ==
    LET db == PurgeIfExpired(db0, c.k, now)
        score == c.pairs[1][1]
        m == c.pairs[1][2]
        Into(z) ==
            LET old == z.byMember[m]
                refused == IF ZHas(z, m)
                           THEN c.nx \/ (c.gt /\ score <= old) \/ (c.lt /\ score >= old) \/ score = old
                           ELSE c.xx
            IN IF refused THEN Ret(db, Num(0))
               ELSE Ret(Update(db, c.k, "zset", ZInsert(z, m, score)),
                        Num(IF ~ZHas(z, m) \/ c.ch THEN 1 ELSE 0))
    IN IF IsInfinite(score) \/ ~IsInt(score) THEN Ret(db0, Num(0))
       ELSE IF Has(db, c.k) THEN WithValue(db, c.k, "zset", Num(0), Into)
       ELSE IF c.xx THEN Ret(db, Num(0))
       ELSE Ret(InsertKey(db, c.k, ZsetValue(ZInsert(EmptyZset, m, score), 0)), Num(1))

ZremInner(db0, c, now) ==
    LET db == PurgeIfExpired(db0, c.k, now)
        z == db.data[c.k].zset
    IN IF ~TypeIs(db, c.k, "zset") \/ ~ZHas(z, c.vs[1]) THEN Ret(db, Num(0))
       ELSE Ret(StoreZset(db, c.k, ZRemove(z, c.vs[1])), Num(1))

\* Bounds are plain numbers: both are part of the range.
ZremrangebyscoreInner(db0, c, now) ==
    LET db == PurgeIfExpired(db0, c.k, now)
        doomed == RangeByScore(db.data[c.k].zset, c.a, c.b)
    IN IF ~TypeIs(db, c.k, "zset") THEN Ret(db, Num(0))
       ELSE Ret(StoreZset(db, c.k, ZRemoveAll(db.data[c.k].zset, doomed)), Num(Len(doomed)))

\* Its own reading of ranks: a stop that stays negative is the first rank, and
\* no more than DefaultMaxRange entries are taken.
DirectRanks(z, c, ordered) ==
    LET range == RankRange(ZLen(z), c.a.n, c.b.n)
        taken == Min({range[2] - range[1] + 1, DefaultMaxRange})
    IN EntriesToResp(IF range = NoRange THEN <<>>
                     ELSE SubSeq(ordered, range[1] + 1, range[1] + taken), c.withscores)

DirectZrange(db, c, now) ==
    DirectRead(db, c.k, now, "zset", Arr(<<>>), LAMBDA z : DirectRanks(z, c, SortedEntries(z)))
DirectZrevrange(db, c, now) ==
    DirectRead(db, c.k, now, "zset", Arr(<<>>), LAMBDA z : DirectRanks(z, c, Reverse(SortedEntries(z))))

DirectZscore(db, c, now) == DirectRead(db, c.k, now, "zset", Nil, LAMBDA z : ScoreReply(z, c.m))
DirectZcard(db, c, now) == DirectRead(db, c.k, now, "zset", Num(0), LAMBDA z : Num(ZLen(z)))

\* The sum is not allowed to be NaN; a missing key takes any increment.
DirectZincrby(db0, c, now) ==
    LET db == PurgeIfExpired(db0, c.k, now)
        z == IF TypeIs(db, c.k, "zset") THEN db.data[c.k].zset ELSE EmptyZset
        sum == AddScores(IF ZHas(z, c.m) THEN z.byMember[c.m] ELSE 0, c.n)
    IN IF ~IsInt(c.n) THEN Ret(db0, Nil)
       ELSE IF (Has(db, c.k) /\ ~TypeIs(db, c.k, "zset")) \/ ~IsInt(sum) THEN Ret(db, Nil)
       ELSE Ret(IF Has(db, c.k) THEN Update(db, c.k, "zset", ZInsert(z, c.m, sum))
                ELSE InsertKey(db, c.k, ZsetValue(ZInsert(z, c.m, sum), 0)), Bulk(FormatF64(sum)))

-----------------------------------------------------------------------------
(* Hashes.  Deadlines of fields are not looked at, and are kept by a write. *)

DirectHset(db0, c, now) ==
    LET db == PurgeIfExpired(db0, c.k, now)
        old == IF TypeIs(db, c.k, "hash") THEN db.data[c.k].hash ELSE <<>>
        SetField(h, fv) == Put(h, fv[1], [v |-> fv[2], at |-> IF fv[1] \in DOMAIN h THEN h[fv[1]].at ELSE 0])
        new == FoldLeft(SetField, old, c.fvs)
        added == Num(Cardinality(DOMAIN new) - Cardinality(DOMAIN old))
    IN IF Has(db, c.k) /\ ~TypeIs(db, c.k, "hash") THEN Ret(db, Num(0))
       ELSE Ret(IF Has(db, c.k) THEN Update(db, c.k, "hash", new)
                ELSE InsertKey(db, c.k, HashValue(new, 0)), added)

DirectHdel(db0, c, now) ==
    LET db == PurgeIfExpired(db0, c.k, now)
        h == db.data[c.k].hash
        rest == Drop(h, c.fs[1])
    IN IF ~TypeIs(db, c.k, "hash") \/ c.fs[1] \notin DOMAIN h THEN Ret(db, Num(0))
       ELSE Ret(IF DOMAIN rest = {} THEN RemoveKey(db, c.k) ELSE Update(db, c.k, "hash", rest), Num(1))

StoredField(h, f) == IF f \in DOMAIN h THEN Bulk(h[f].v) ELSE Nil
DirectHget(db, c, now) == DirectRead(db, c.k, now, "hash", Nil, LAMBDA h : StoredField(h, c.f))
DirectHmget(db, c, now) ==
    DirectRead(db, c.k, now, "hash", Arr([i \in DOMAIN c.fs |-> Nil]),
               LAMBDA h : Arr([i \in DOMAIN c.fs |-> StoredField(h, c.fs[i])]))
DirectHgetall(db, c, now) ==
    DirectRead(db, c.k, now, "hash", Bag({}), LAMBDA h : Bag({<<f, h[f].v>> : f \in DOMAIN h}))
DirectHexists(db, c, now) ==
    DirectRead(db, c.k, now, "hash", Num(0), LAMBDA h : Num(IF c.f \in DOMAIN h THEN 1 ELSE 0))
DirectHlen(db, c, now) ==
    DirectRead(db, c.k, now, "hash", Num(0), LAMBDA h : Num(Cardinality(DOMAIN h)))

-----------------------------------------------------------------------------
(* Sets. *)

SaddInner(db0, c, now) ==
    LET db == PurgeIfExpired(db0, c.k, now)
        new == ToSet(c.vs)
        e == db.data[c.k]
    IN IF ~Has(db, c.k) THEN Ret(InsertKey(db, c.k, SetValue(new, 0)), Num(Cardinality(new)))
       ELSE IF e.t # "set" THEN Ret(db, Num(0))
       ELSE Ret(InPlace(db, c.k, FoldLeft(SetInsertMember, e, c.vs)), Num(Cardinality(new \ e.set)))

SremInner(db0, c, now) ==
    LET db == PurgeIfExpired(db0, c.k, now)
        e == SetRemoveMember(db.data[c.k], c.vs[1])
    IN IF ~TypeIs(db, c.k, "set") \/ c.vs[1] \notin db.data[c.k].set THEN Ret(db, Num(0))
       ELSE Ret(IF e.set = {} THEN RemoveKey(db, c.k) ELSE InPlace(db, c.k, e), Num(1))

DirectSismember(db, c, now) ==
    DirectRead(db, c.k, now, "set", Num(0), LAMBDA S : Num(IF c.m \in S THEN 1 ELSE 0))
DirectSmembers(db, c, now) == DirectRead(db, c.k, now, "set", Bag({}), LAMBDA S : Bag(S))
DirectScard(db, c, now) == DirectRead(db, c.k, now, "set", Num(0), LAMBDA S : Num(Cardinality(S)))

-----------------------------------------------------------------------------
(* Strings.  as_string knows the raw encoding only: a string stored as an   *)
(* integer is no string to these methods.                                   *)

AsString(db, k) == TypeIs(db, k, "string") /\ db.data[k].enc = "raw"

\* set and set_with_expire.
SetInner(db0, c, now) ==
    Ret(InsertKey(PurgeIfExpired(db0, c.k, now), c.k,
                  StringValue(c.v, IF c.x = NoExpiry THEN 0 ELSE c.x.n)), Ok)

DirectGet(db0, c, now) ==
    LET db == PurgeIfExpired(db0, c.k, now)
    IN Ret(db, IF AsString(db, c.k) THEN Bulk(db.data[c.k].string) ELSE Nil)

DirectGetset(db0, c, now) ==
    LET db == PurgeIfExpired(db0, c.k, now)
    IN Ret(InsertKey(db, c.k, StringValue(c.v, 0)),
           IF AsString(db, c.k) THEN Bulk(db.data[c.k].string) ELSE Nil)

DirectSetnx(db0, c, now) ==
    LET db == PurgeIfExpired(db0, c.k, now)
    IN IF Has(db, c.k) THEN Ret(db, Num(0))
       ELSE Ret(InsertKey(db, c.k, StringValue(c.v, 0)), Num(1))

\* Appends in the raw encoding, or replaces what is no string.
DirectAppend(db0, c, now) ==
    LET db == PurgeIfExpired(db0, c.k, now)
        longer == db.data[c.k].string \o c.v
    IN IF AsString(db, c.k) THEN Ret(InPlace(db, c.k, [db.data[c.k] EXCEPT !.string = longer]), Num(Len(longer)))
       ELSE Ret(InsertKey(db, c.k, StringValue(c.v, 0)), Num(Len(c.v)))

DirectStrlen(db0, c, now) ==
    LET db == PurgeIfExpired(db0, c.k, now)
    IN Ret(db, Num(IF AsString(db, c.k) THEN Len(db.data[c.k].string) ELSE 0))

-----------------------------------------------------------------------------
(* Keys.  The methods on deadlines do not purge. *)

DirectDel(db0, c, now) ==
    LET Step(acc, k) == LET d == PurgeIfExpired(acc.db, k, now)
                        IN [db |-> RemoveKey(d, k), n |-> acc.n + IF Has(d, k) THEN 1 ELSE 0]
        out == FoldLeft(Step, [db |-> db0, n |-> 0], c.ks)
    IN Ret(out.db, Num(out.n))

DirectExists(db0, c, now) ==
    LET db == PurgeIfExpired(db0, c.ks[1], now) IN Ret(db, Num(IF Has(db, c.ks[1]) THEN 1 ELSE 0))

DirectTypeOf(db0, c, now) ==
    LET db == PurgeIfExpired(db0, c.k, now)
    IN Ret(db, Bulk(IF Has(db, c.k) THEN db.data[c.k].t ELSE "none"))

DirectExpire(db, c) == Ret(SetKeyExpiry(db, c.k, c.x.n), Num(IF Has(db, c.k) THEN 1 ELSE 0))

\* Nothing for a missing key and for one without a deadline.
DirectTtl(db, c, now) ==
    LET left == Max({0, db.data[c.k].at - now})
    IN Ret(db, IF Deadline(db, c.k) = 0 THEN Nil ELSE Num(IF c.ms THEN left ELSE left \div Sec))

DirectPersist(db, c) ==
    IF Deadline(db, c.k) = 0 THEN Ret(db, Num(0)) ELSE Ret(SetKeyExpiry(db, c.k, 0), Num(1))

DirectRename(db0, c, now) ==
    LET db == PurgeIfExpired(db0, c.k, now)
    IN IF Has(db, c.k) THEN Ret(RenameKey(db, c.k, c.dst), Ok) ELSE Ret(db, Num(0))

-----------------------------------------------------------------------------
\* A method for the command, if there is one that takes these arguments.
HasMethod(c) ==
    \/ c.op = "ZADD" /\ Len(c.pairs) = 1
    \/ c.op \in {"ZREM", "SREM"} /\ Len(c.vs) = 1
    \/ c.op = "ZRANGE" /\ c.mode = "rank"
    \/ c.op = "ZREMRANGEBYSCORE" /\ c.a.kind = "incl" /\ c.b.kind = "incl"
    \/ c.op = "HDEL" /\ Len(c.fs) = 1
    \/ c.op = "SET" /\ c.x.kind \in {"none", "pxat"} /\ ~c.nx /\ ~c.xx /\ ~c.get
    \/ c.op = "EXISTS" /\ Len(c.ks) = 1
    \/ c.op = "EXPIRE" /\ c.x.kind = "pxat" /\ c.cond = "none"
    \/ c.op = "RENAME" /\ ~c.nx
    \/ c.op \in {"ZSCORE", "ZCARD", "ZINCRBY", "HSET", "HGET", "HMGET", "HGETALL", "HEXISTS", "HLEN",
                 "SADD", "SISMEMBER", "SMEMBERS", "SCARD", "GET", "GETSET", "SETNX", "APPEND", "STRLEN",
                 "DEL", "TYPE", "TTL", "PERSIST"}

Method(db, c, now) ==
    CASE c.op = "ZADD" -> ZaddOptsInner(db, c, now)   [] c.op = "ZREM" -> ZremInner(db, c, now)
      [] c.op = "ZREMRANGEBYSCORE" -> ZremrangebyscoreInner(db, c, now)
      [] c.op = "ZRANGE" -> IF c.rev THEN DirectZrevrange(db, c, now) ELSE DirectZrange(db, c, now)
      [] c.op = "ZSCORE" -> DirectZscore(db, c, now)  [] c.op = "ZCARD" -> DirectZcard(db, c, now)
      [] c.op = "ZINCRBY" -> DirectZincrby(db, c, now) [] c.op = "HSET" -> DirectHset(db, c, now)
      [] c.op = "HGET" -> DirectHget(db, c, now)      [] c.op = "HMGET" -> DirectHmget(db, c, now)
      [] c.op = "HGETALL" -> DirectHgetall(db, c, now) [] c.op = "HDEL" -> DirectHdel(db, c, now)
      [] c.op = "HEXISTS" -> DirectHexists(db, c, now) [] c.op = "HLEN" -> DirectHlen(db, c, now)
      [] c.op = "SADD" -> SaddInner(db, c, now)       [] c.op = "SREM" -> SremInner(db, c, now)
      [] c.op = "SISMEMBER" -> DirectSismember(db, c, now)
      [] c.op = "SMEMBERS" -> DirectSmembers(db, c, now) [] c.op = "SCARD" -> DirectScard(db, c, now)
      [] c.op = "SET" -> SetInner(db, c, now)         [] c.op = "GET" -> DirectGet(db, c, now)
      [] c.op = "GETSET" -> DirectGetset(db, c, now)  [] c.op = "SETNX" -> DirectSetnx(db, c, now)
      [] c.op = "APPEND" -> DirectAppend(db, c, now)  [] c.op = "STRLEN" -> DirectStrlen(db, c, now)
      [] c.op = "DEL" -> DirectDel(db, c, now)        [] c.op = "EXISTS" -> DirectExists(db, c, now)
      [] c.op = "TYPE" -> DirectTypeOf(db, c, now)    [] c.op = "EXPIRE" -> DirectExpire(db, c)
      [] c.op = "TTL" -> DirectTtl(db, c, now)        [] c.op = "PERSIST" -> DirectPersist(db, c)
      [] c.op = "RENAME" -> DirectRename(db, c, now)

=============================================================================
