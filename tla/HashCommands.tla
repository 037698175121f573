---------------------------- MODULE HashCommands ----------------------------
(***************************************************************************)
(* The handlers of the hash commands (cmd_hash.rs, cmd_hash_read.rs,       *)
(* cmd_hash_ttl.rs, cmd_hash_field_ops.rs).  A hash maps fields to [v, at],*)
(* at being the field's own deadline, 0 for none.  Nothing but the next    *)
(* write removes a field whose deadline has passed: every reader filters.  *)
(***************************************************************************)
EXTENDS Keyspace

LOCAL InvalidExpire == Err("invalid expire time")
\* MAX_HASH_RANDOM_REPEAT_COUNT
HashRepeatMax == 100000

Field(v, at) == [v |-> v, at |-> at]
FieldAlive(e, now) == e.at = 0 \/ e.at > now
Alive(h, f, now) == f \in DOMAIN h /\ FieldAlive(h[f], now)
AliveFields(h, now) == {f \in DOMAIN h : FieldAlive(h[f], now)}

\* Write pairs one after the other; a pair counts as an addition if IsNew says
\* so of the hash it finds.
WriteFields(h0, fvs, at, IsNew(_, _)) ==
    FoldLeft(LAMBDA acc, fv :
               [h |-> Put(acc.h, fv[1], Field(fv[2], at)),
                n |-> acc.n + (IF IsNew(acc.h, fv[1]) THEN 1 ELSE 0)],
             [h |-> h0, n |-> 0], fvs)

\* The common shape of the writers: a missing key is created with the fields.
WriteHash(db, c, at, IsNew(_, _), Reply(_)) ==
    LET fresh == WriteFields(<<>>, c.fvs, at, LAMBDA h, f : f \notin DOMAIN h)
    IN IF ~Has(db, c.k)
       THEN Ret(InsertKey(db, c.k, HashValue(fresh.h, 0)), Reply(fresh.n))
       ELSE WithValue(db, c.k, "hash", Nil, LAMBDA h :
              LET out == WriteFields(h, c.fvs, at, IsNew)
              IN Ret(Update(db, c.k, "hash", out.h), Reply(out.n)))

\* A field that is not there, or no longer alive, counts as new.
Hset(db0, c, now) ==
    WriteHash(PurgeExpiredKey(db0, c.k, now), c, 0,
              LAMBDA h, f : ~Alive(h, f, now), LAMBDA n : Num(n))

Hmset(db0, c, now) ==
    WriteHash(PurgeExpiredKey(db0, c.k, now), c, 0, LAMBDA h, f : TRUE, LAMBDA n : Ok)

Hsetnx(db0, c, now) ==
    LET db == PurgeExpiredKey(db0, c.k, now)
    IN IF TypeIs(db, c.k, "hash") /\ Alive(db.data[c.k].hash, c.fvs[1][1], now)
       THEN Ret(db, Num(0))
       ELSE WriteHash(db, c, 0, LAMBDA h, f : TRUE, LAMBDA n : Num(1))

\* The result has no deadline, whatever the field had.
Hincrby(db0, c, now) ==
    LET db == PurgeExpiredKey(db0, c.k, now)
        h == PayloadOr(db, c.k, "hash", <<>>)
        current == IF Alive(h, c.f, now) THEN ParseI64(h[c.f].v) ELSE 0
        next == current + c.n
    IN IF ~IsInt(c.n) THEN Ret(db0, NotAnInteger)
       ELSE IF Has(db, c.k) /\ db.data[c.k].t # "hash" THEN Ret(db, WrongType)
       ELSE IF ~IsInt(current) THEN Ret(db, Err("hash value is not an integer"))
       ELSE IF ~InI64(next) THEN Ret(db, Err("would overflow"))
       ELSE WriteHash(db, [c EXCEPT !.fvs = <<<<c.f, FormatInt(next)>>>>], 0,
                      LAMBDA g, f : TRUE, LAMBDA n : Num(next))

\* A key that is missing takes the increment unchecked, an infinite one too.
Hincrbyfloat(db0, c, now) ==
    LET db == PurgeExpiredKey(db0, c.k, now)
        h == PayloadOr(db, c.k, "hash", <<>>)
        current == IF Alive(h, c.f, now) THEN ParseF64(h[c.f].v) ELSE 0
        finite == Infinite \notin {current, c.n}
        text == FormatF64(IF finite THEN current + c.n ELSE Infinite)
    IN IF ~IsInt(c.n) THEN Ret(db0, Err("not a valid float"))
       ELSE IF Has(db, c.k) /\ db.data[c.k].t # "hash" THEN Ret(db, WrongType)
       ELSE IF ~IsInt(current) THEN Ret(db, Err("hash value is not a float"))
       ELSE IF Has(db, c.k) /\ ~finite THEN Ret(db, Err("NaN or Infinity"))
       ELSE WriteHash(db, [c EXCEPT !.fvs = <<<<c.f, text>>>>], 0,
                      LAMBDA g, f : TRUE, LAMBDA n : Bulk(text))

\* The key goes when no field that is alive is left.
Hdel(db0, c, now) ==
    LET db == PurgeExpiredKey(db0, c.k, now)
        doomed == ToSet(c.fs)
    IN WithValue(db, c.k, "hash", Num(0), LAMBDA h :
         LET rest == Restrict(h, DOMAIN h \ doomed)
         IN Ret(IF AliveFields(rest, now) = {} THEN RemoveKey(db, c.k)
                ELSE Update(db, c.k, "hash", rest),
                Num(Cardinality(AliveFields(h, now) \cap doomed))))

-----------------------------------------------------------------------------
(* cmd_hash_read.rs *)

FieldReply(h, f, now) == IF Alive(h, f, now) THEN Bulk(h[f].v) ELSE Nil

Hget(db0, c, now) ==
    LET db == PurgeExpiredKey(db0, c.k, now)
    IN ReadValue(db, c.k, "hash", Nil, LAMBDA h : FieldReply(h, c.f, now))

Hmget(db0, c, now) ==
    LET db == PurgeExpiredKey(db0, c.k, now)
    IN ReadValue(db, c.k, "hash", Arr([i \in DOMAIN c.fs |-> Nil]),
                 LAMBDA h : Arr([i \in DOMAIN c.fs |-> FieldReply(h, c.fs[i], now)]))

Hgetall(db0, c, now) ==
    LET db == PurgeExpiredKey(db0, c.k, now)
    IN ReadValue(db, c.k, "hash", Bag({}),
                 LAMBDA h : Bag({<<f, h[f].v>> : f \in AliveFields(h, now)}))

Hkeys(db0, c, now) ==
    LET db == PurgeExpiredKey(db0, c.k, now)
    IN ReadValue(db, c.k, "hash", Bag({}), LAMBDA h : Bag(AliveFields(h, now)))

\* The map's order is not fixed: the values come in the order of their fields.
Hvals(db0, c, now) ==
    LET db == PurgeExpiredKey(db0, c.k, now)
        Values(h) == [i \in 1..Cardinality(AliveFields(h, now)) |->
                         Bulk(h[Members(AliveFields(h, now))[i]].v)]
    IN ReadValue(db, c.k, "hash", Arr(<<>>), LAMBDA h : Arr(Values(h)))

Hstrlen(db0, c, now) ==
    LET db == PurgeExpiredKey(db0, c.k, now)
    IN ReadValue(db, c.k, "hash", Num(0),
                 LAMBDA h : Num(IF Alive(h, c.f, now) THEN Len(h[c.f].v) ELSE 0))

\* A negative count repeats fields; c.seed is where the clock starts.
Hrandfield(db0, c, now) ==
    LET db == PurgeExpiredKey(db0, c.k, now)
        none == IF c.hasCount THEN Arr(<<>>) ELSE Nil
        Round(fs, n) == [i \in 1..n |-> fs[((c.seed + i - 1) % Len(fs)) + 1]]
        Pick(h, fs) ==
            IF fs = <<>> THEN none
            ELSE IF ~c.hasCount THEN Elem(Round(fs, 1)[1])
            ELSE IF -c.count > HashRepeatMax THEN Err("count is out of range")
            ELSE LET picked == Round(fs, IF c.count >= 0 THEN Min({c.count, Len(fs)}) ELSE -c.count)
                 IN Arr([i \in DOMAIN picked |->
                            IF c.withvalues THEN <<picked[i], h[picked[i]].v>> ELSE picked[i]])
    IN IF c.hasCount /\ ~IsInt(c.count) THEN Ret(db0, NotAnInteger)
       ELSE ReadValue(db, c.k, "hash", none, LAMBDA h : Pick(h, Members(AliveFields(h, now))))

Hexists(db0, c, now) ==
    LET db == PurgeExpiredKey(db0, c.k, now)
    IN ReadValue(db, c.k, "hash", Num(0), LAMBDA h : Num(IF Alive(h, c.f, now) THEN 1 ELSE 0))

Hlen(db0, c, now) ==
    LET db == PurgeExpiredKey(db0, c.k, now)
    IN ReadValue(db, c.k, "hash", Num(0), LAMBDA h : Num(Cardinality(AliveFields(h, now))))

Hscan(db0, c, now) ==
    LET db == PurgeExpiredKey(db0, c.k, now)
    IN IF ScanRefused(c) THEN Ret(db0, Err("invalid cursor or count"))
       ELSE ReadValue(db, c.k, "hash", [cursor |-> 0, scanned |-> <<>>], LAMBDA h :
              ScanReply(ScanFrom(Members(AliveFields(h, now)), c.cursor, c.count,
                                 LAMBDA f : f \in c.pat)))

-----------------------------------------------------------------------------
(* cmd_hash_ttl.rs *)

\* to_absolute_ms, checked: 0 stands for a refusal.
ToAbsoluteMs(x, now) == CommandExpireAtMs(x, now)

\* Every field in turn, on the hash the fields before it left.
EachField(h0, fs, Step(_, _)) ==
    FoldLeft(LAMBDA acc, f : LET out == Step(acc.h, f)
                             IN [h |-> out.h, rs |-> Append(acc.rs, out.r)],
             [h |-> h0, rs |-> <<>>], fs)

\* A field without a deadline satisfies GT and LT alike.
SetFieldExpiry(h, f, at, cond, now) ==
    LET cur == h[f].at
        matches == CASE cond = "none" -> TRUE
                     [] cond = "nx" -> cur = 0
                     [] cond = "xx" -> cur # 0
                     [] cond = "gt" -> cur = 0 \/ at > cur
                     [] cond = "lt" -> cur = 0 \/ at < cur
    IN IF ~Alive(h, f, now) THEN [h |-> h, r |-> Num(-2)]
       ELSE IF matches THEN [h |-> [h EXCEPT ![f].at = at], r |-> Num(1)]
       ELSE [h |-> h, r |-> Num(0)]

\* HEXPIRE, HPEXPIRE, HEXPIREAT, HPEXPIREAT.  The deadline is computed after
\* the key is found; an absolute one may lie in the past.
HexpireCommon(db0, c, now) ==
    LET db == PurgeExpiredKey(db0, c.k, now)
        at == ToAbsoluteMs(c.x, now)
    IN IF ~IsInt(c.x.n) THEN Ret(db0, NotAnInteger)
       ELSE IF c.x.n <= 0 THEN Ret(db0, InvalidExpire)
       ELSE WithValue(db, c.k, "hash", Arr([i \in DOMAIN c.fs |-> Num(-2)]), LAMBDA h :
              LET out == EachField(h, c.fs, LAMBDA g, f : SetFieldExpiry(g, f, at, c.cond, now))
              IN IF at = 0 THEN Ret(db, InvalidExpire)
                 ELSE Ret(Update(db, c.k, "hash", out.h), Arr(out.rs)))

\* HTTL rounds up, HEXPIRETIME down.
FieldTtlValue(e, mode, now) ==
    IF ~FieldAlive(e, now) THEN -2
    ELSE IF e.at = 0 THEN -1
    ELSE CASE mode = "ttl" -> (e.at - now + Sec - 1) \div Sec
           [] mode = "pttl" -> e.at - now
           [] mode = "expiretime" -> e.at \div Sec
           [] mode = "pexpiretime" -> e.at

HttlCommon(db0, c, now) ==
    LET db == PurgeExpiredKey(db0, c.k, now)
        Value(h, f) == IF f \in DOMAIN h THEN FieldTtlValue(h[f], c.mode, now) ELSE -2
    IN ReadValue(db, c.k, "hash", Arr([i \in DOMAIN c.fs |-> Num(-2)]),
                 LAMBDA h : Arr([i \in DOMAIN c.fs |-> Num(Value(h, c.fs[i]))]))

Hpersist(db0, c, now) ==
    LET db == PurgeExpiredKey(db0, c.k, now)
        Step(h, f) ==
            IF ~Alive(h, f, now) THEN [h |-> h, r |-> Num(-2)]
            ELSE IF h[f].at = 0 THEN [h |-> h, r |-> Num(-1)]
            ELSE [h |-> [h EXCEPT ![f].at = 0], r |-> Num(1)]
    IN WithValue(db, c.k, "hash", Arr([i \in DOMAIN c.fs |-> Num(-2)]), LAMBDA h :
         LET out == EachField(h, c.fs, Step)
         IN Ret(Update(db, c.k, "hash", out.h), Arr(out.rs)))

-----------------------------------------------------------------------------
(* cmd_hash_field_ops.rs *)

\* The key goes when no field at all is left, an expired one keeps it.
Hgetdel(db0, c, now) ==
    LET db == PurgeExpiredKey(db0, c.k, now)
        Step(h, f) == [h |-> Drop(h, f), r |-> FieldReply(h, f, now)]
    IN WithValue(db, c.k, "hash", Arr([i \in DOMAIN c.fs |-> Nil]), LAMBDA h :
         LET out == EachField(h, c.fs, Step)
         IN Ret(IF DOMAIN out.h = {} THEN RemoveKey(db, c.k)
                ELSE Update(db, c.k, "hash", out.h), Arr(out.rs)))

Hgetex(db0, c, now) ==
    LET db == PurgeExpiredKey(db0, c.k, now)
        at == ToAbsoluteMs(c.x, now)
        timed == c.x.kind \notin {"none", "persist"}
        Step(h, f) ==
            [h |-> IF ~Alive(h, f, now) \/ c.x.kind = "none" THEN h
                   ELSE [h EXCEPT ![f].at = IF timed THEN at ELSE 0],
             r |-> FieldReply(h, f, now)]
    IN IF timed /\ ~IsInt(c.x.n) THEN Ret(db0, NotAnInteger)
       ELSE IF timed /\ c.x.n <= 0 THEN Ret(db0, InvalidExpire)
       ELSE WithValue(db, c.k, "hash", Arr([i \in DOMAIN c.fs |-> Nil]), LAMBDA h :
              LET out == EachField(h, c.fs, Step)
              IN IF timed /\ at = 0 THEN Ret(db, InvalidExpire)
                 ELSE Ret(Update(db, c.k, "hash", out.h), Arr(out.rs)))

\* The seconds saturate, the sum is checked.  A field counts as new only if it
\* is not in the map at all, alive or not.
Hsetex(db0, c, now) ==
    LET db == PurgeExpiredKey(db0, c.k, now)
        at == now + Saturate(c.n * Sec)
    IN IF ~IsInt(c.n) THEN Ret(db0, NotAnInteger)
       ELSE IF c.n <= 0 \/ ~InI64(at) THEN Ret(db0, InvalidExpire)
       ELSE WriteHash(db, c, at, LAMBDA h, f : f \notin DOMAIN h, LAMBDA n : Num(n))

-----------------------------------------------------------------------------
HashOps == {"HSET", "HMSET", "HSETNX", "HINCRBY", "HINCRBYFLOAT", "HDEL", "HGET", "HMGET",
            "HGETALL", "HKEYS", "HVALS", "HSTRLEN", "HRANDFIELD", "HEXISTS", "HLEN", "HSCAN",
            "HEXPIRE", "HTTL", "HPERSIST", "HGETDEL", "HGETEX", "HSETEX"}

HashCommand(db, c, now) ==
    CASE c.op = "HSET" -> Hset(db, c, now)
      [] c.op = "HMSET" -> Hmset(db, c, now)
      [] c.op = "HSETNX" -> Hsetnx(db, c, now)
      [] c.op = "HINCRBY" -> Hincrby(db, c, now)
      [] c.op = "HINCRBYFLOAT" -> Hincrbyfloat(db, c, now)
      [] c.op = "HDEL" -> Hdel(db, c, now)
      [] c.op = "HGET" -> Hget(db, c, now)
      [] c.op = "HMGET" -> Hmget(db, c, now)
      [] c.op = "HGETALL" -> Hgetall(db, c, now)
      [] c.op = "HKEYS" -> Hkeys(db, c, now)
      [] c.op = "HVALS" -> Hvals(db, c, now)
      [] c.op = "HSTRLEN" -> Hstrlen(db, c, now)
      [] c.op = "HRANDFIELD" -> Hrandfield(db, c, now)
      [] c.op = "HEXISTS" -> Hexists(db, c, now)
      [] c.op = "HLEN" -> Hlen(db, c, now)
      [] c.op = "HSCAN" -> Hscan(db, c, now)
      [] c.op = "HEXPIRE" -> HexpireCommon(db, c, now)
      [] c.op = "HTTL" -> HttlCommon(db, c, now)
      [] c.op = "HPERSIST" -> Hpersist(db, c, now)
      [] c.op = "HGETDEL" -> Hgetdel(db, c, now)
      [] c.op = "HGETEX" -> Hgetex(db, c, now)
      [] c.op = "HSETEX" -> Hsetex(db, c, now)

=============================================================================
