---------------------------- MODULE SetCommands -----------------------------
(***************************************************************************)
(* The handlers of the set commands (cmd_set.rs, cmd_set_algebra.rs).      *)
(*                                                                         *)
(* Where the code draws by the clock (now_us), the draw is an argument of  *)
(* the command, c.seed; members are walked in their order.                 *)
(***************************************************************************)
EXTENDS Keyspace

\* n members from position start on, round and round.
Window(s, start, n) == [i \in 1..n |-> s[((start + i - 1) % Len(s)) + 1]]

\* The smallest position of a key with the property, 0 if there is none.
FirstKey(ks, P(_)) ==
    LET is == {i \in DOMAIN ks : P(ks[i])} IN IF is = {} THEN 0 ELSE Min(is)

\* A set edited in place; an empty one takes its key with it.
StoreSet(db, k, e) == IF e.set = {} THEN RemoveKey(db, k) ELSE InPlace(db, k, e)

-----------------------------------------------------------------------------
(* cmd_set.rs *)

Sadd(db0, c, now) ==
    LET db == PurgeExpiredKey(db0, c.k, now)
    IN IF ~Has(db, c.k)
       THEN Ret(InsertKey(db, c.k, SetValue(ToSet(c.vs), 0)), Num(Cardinality(ToSet(c.vs))))
       ELSE WithValue(db, c.k, "set", Num(0), LAMBDA S :
              Ret(InPlace(db, c.k, FoldLeft(SetInsertMember, db.data[c.k], c.vs)),
                  Num(Cardinality(ToSet(c.vs) \ S))))

Srem(db0, c, now) ==
    LET db == PurgeExpiredKey(db0, c.k, now)
    IN WithValue(db, c.k, "set", Num(0), LAMBDA S :
         Ret(StoreSet(db, c.k, FoldLeft(SetRemoveMember, db.data[c.k], c.vs)),
             Num(Cardinality(ToSet(c.vs) \cap S))))

IsMember(S, m) == Num(IF m \in S THEN 1 ELSE 0)

Sismember(db0, c, now) ==
    LET db == PurgeExpiredKey(db0, c.k, now)
    IN ReadValue(db, c.k, "set", Num(0), LAMBDA S : IsMember(S, c.m))

Smismember(db0, c, now) ==
    LET db == PurgeExpiredKey(db0, c.k, now)
    IN ReadValue(db, c.k, "set", Arr([i \in DOMAIN c.vs |-> Num(0)]),
                 LAMBDA S : Arr([i \in DOMAIN c.vs |-> IsMember(S, c.vs[i])]))

Smembers(db0, c, now) ==
    LET db == PurgeExpiredKey(db0, c.k, now)
    IN ReadValue(db, c.k, "set", Bag({}), LAMBDA S : Bag(S))

Scard(db0, c, now) ==
    LET db == PurgeExpiredKey(db0, c.k, now)
    IN ReadValue(db, c.k, "set", Num(0), LAMBDA S : Num(Cardinality(S)))

\* c.count < 0: no count.  A count of zero is answered before the key is read.
Spop(db0, c, now) ==
    LET db == PurgeExpiredKey(db0, c.k, now)
        many == c.count >= 0
        Popped(S) == IF many THEN Window(Members(S), c.seed, Min({c.count, Cardinality(S)}))
                     ELSE Window(Members(S), c.seed, 1)
    IN IF ~IsInt(c.count) THEN Ret(db0, NotAnInteger)
       ELSE IF c.count = Negative THEN Ret(db0, Err("must be positive"))
       ELSE IF c.count = 0 THEN Ret(db0, Bag({}))
       ELSE WithValue(db, c.k, "set", IF many THEN Bag({}) ELSE Nil, LAMBDA S :
              Ret(StoreSet(db, c.k, FoldLeft(SetRemoveMember, db.data[c.k], Popped(S))),
                  IF many THEN Bag(ToSet(Popped(S))) ELSE Elem(Popped(S)[1])))

\* MAX_SET_RANDOM_REPEAT_COUNT
SetRepeatMax == 100000

\* A negative count repeats members; c.hasCount tells it from none.
Srandmember(db0, c, now) ==
    LET db == PurgeExpiredKey(db0, c.k, now)
    IN IF c.hasCount /\ ~IsInt(c.count) THEN Ret(db0, NotAnInteger)
       ELSE ReadValue(db, c.k, "set", IF c.hasCount THEN Arr(<<>>) ELSE Nil, LAMBDA S :
              IF ~c.hasCount THEN Elem(Window(Members(S), c.seed, 1)[1])
              ELSE IF -c.count > SetRepeatMax THEN Err("count is out of range")
              ELSE Elems(Window(Members(S), c.seed,
                     IF c.count >= 0 THEN Min({c.count, Cardinality(S)}) ELSE -c.count)))

Sscan(db0, c, now) ==
    LET db == PurgeExpiredKey(db0, c.k, now)
    IN IF ScanRefused(c) THEN Ret(db0, Err("invalid cursor or count"))
       ELSE ReadValue(db, c.k, "set", [cursor |-> 0, scanned |-> <<>>], LAMBDA S :
              ScanReply(ScanFrom(Members(S), c.cursor, c.count, LAMBDA m : m \in c.pat)))

\* The destination is checked before the source is touched; the destination
\* receives the member before anybody can look.
Smove(db0, c, now) ==
    LET db == PurgeAll(db0, <<c.k, c.dst>>, now)
        Move(S) ==
            LET without == StoreSet(db, c.k, SetRemoveMember(db.data[c.k], c.m))
            IN IF c.k = c.dst THEN Ret(db, IsMember(S, c.m))
               ELSE IF c.m \notin S THEN Ret(db, Num(0))
               ELSE Ret(IF Has(without, c.dst)
                        THEN InPlace(without, c.dst, SetInsertMember(without.data[c.dst], c.m))
                        ELSE InsertKey(without, c.dst, SetValue({c.m}, 0)), Num(1))
    IN IF c.k # c.dst /\ Has(db, c.dst) /\ db.data[c.dst].t # "set" THEN Ret(db, WrongType)
       ELSE WithValue(db, c.k, "set", Num(0), Move)

-----------------------------------------------------------------------------
(* cmd_set_algebra.rs.  The algebra's loops return [db, S, wrong].           *)

SetAt(db, k) == PayloadOr(db, k, "set", {})
NotASet(db, k) == Has(db, k) /\ db.data[k].t # "set"

\* SDIFF and SDIFFSTORE: sources are purged as they are reached, and the loop
\* ends early once nothing is left, whatever the types of the rest.
DiffOf(db0, ks, now) ==
    LET first == PurgeExpiredKey(db0, ks[1], now)
        Step(acc, k) ==
            LET db == PurgeExpiredKey(acc.db, k, now)
            IN IF acc.done THEN acc
               ELSE IF NotASet(db, k) THEN [acc EXCEPT !.db = db, !.done = TRUE, !.wrong = TRUE]
               ELSE LET S == acc.S \ SetAt(db, k)
                    IN [db |-> db, S |-> S, wrong |-> FALSE, done |-> Has(db, k) /\ S = {}]
    IN FoldLeft(Step, [db |-> first, S |-> SetAt(first, ks[1]), wrong |-> NotASet(first, ks[1]),
                       done |-> NotASet(first, ks[1])], Tail(ks))

\* SINTER, SINTERCARD, SINTERSTORE: everything is purged first; a missing key
\* empties the result before the types of the keys behind it are looked at.
InterOf(db0, ks, now) ==
    LET db == PurgeAll(db0, ks, now)
        missing == FirstKey(ks, LAMBDA k : ~Has(db, k))
        wrong == FirstKey(ks, LAMBDA k : NotASet(db, k))
    IN [db |-> db, wrong |-> wrong # 0 /\ (missing = 0 \/ wrong < missing),
        S |-> IF missing # 0 THEN {}
              ELSE {m \in SetAt(db, ks[1]) : \A i \in DOMAIN ks : m \in SetAt(db, ks[i])}]

UnionOf(db0, ks, now) ==
    LET Step(acc, k) ==
            LET db == PurgeExpiredKey(acc.db, k, now)
            IN IF acc.wrong THEN acc
               ELSE [db |-> db, wrong |-> NotASet(db, k), S |-> acc.S \cup SetAt(db, k)]
    IN FoldLeft(Step, [db |-> db0, S |-> {}, wrong |-> FALSE], ks)

SetReply(res) == Ret(res.db, IF res.wrong THEN WrongType ELSE Bag(res.S))

\* An absent first key ends SDIFF before the others are read.
Sdiff(db0, c, now) ==
    LET first == PurgeExpiredKey(db0, c.ks[1], now)
    IN IF ~Has(first, c.ks[1]) THEN Ret(first, Bag({})) ELSE SetReply(DiffOf(db0, c.ks, now))

Sinter(db, c, now) == SetReply(InterOf(db, c.ks, now))
Sunion(db, c, now) == SetReply(UnionOf(db, c.ks, now))

Sintercard(db, c, now) ==
    LET res == InterOf(db, c.ks, now)
        card == Cardinality(res.S)
    IN IF ~IsInt(c.limit) THEN Ret(db, NotAnInteger)
       ELSE IF c.limit < 0 THEN Ret(db, Err("LIMIT can't be negative"))
       ELSE Ret(res.db, IF res.wrong THEN WrongType
                        ELSE Num(IF c.limit > 0 THEN Min({c.limit, card}) ELSE card))

\* The result replaces the destination, or removes it when it is empty.
StoreSetResult(res, dst) ==
    IF res.wrong THEN Ret(res.db, WrongType)
    ELSE Ret(IF res.S = {} THEN RemoveKey(res.db, dst)
             ELSE InsertKey(res.db, dst, SetValue(res.S, 0)), Num(Cardinality(res.S)))

Sdiffstore(db, c, now) ==
    StoreSetResult(DiffOf(PurgeExpiredKey(db, c.dst, now), c.ks, now), c.dst)
Sinterstore(db, c, now) ==
    StoreSetResult(InterOf(PurgeExpiredKey(db, c.dst, now), c.ks, now), c.dst)
Sunionstore(db, c, now) ==
    StoreSetResult(UnionOf(PurgeExpiredKey(db, c.dst, now), c.ks, now), c.dst)

-----------------------------------------------------------------------------
SetOps == {"SADD", "SREM", "SISMEMBER", "SMISMEMBER", "SMEMBERS", "SCARD", "SPOP", "SRANDMEMBER",
           "SSCAN", "SMOVE", "SDIFF", "SINTER", "SUNION", "SINTERCARD", "SDIFFSTORE",
           "SINTERSTORE", "SUNIONSTORE"}

SetCommand(db, c, now) ==
    CASE c.op = "SADD" -> Sadd(db, c, now)
      [] c.op = "SREM" -> Srem(db, c, now)
      [] c.op = "SISMEMBER" -> Sismember(db, c, now)
      [] c.op = "SMISMEMBER" -> Smismember(db, c, now)
      [] c.op = "SMEMBERS" -> Smembers(db, c, now)
      [] c.op = "SCARD" -> Scard(db, c, now)
      [] c.op = "SPOP" -> Spop(db, c, now)
      [] c.op = "SRANDMEMBER" -> Srandmember(db, c, now)
      [] c.op = "SSCAN" -> Sscan(db, c, now)
      [] c.op = "SMOVE" -> Smove(db, c, now)
      [] c.op = "SDIFF" -> Sdiff(db, c, now)
      [] c.op = "SINTER" -> Sinter(db, c, now)
      [] c.op = "SUNION" -> Sunion(db, c, now)
      [] c.op = "SINTERCARD" -> Sintercard(db, c, now)
      [] c.op = "SDIFFSTORE" -> Sdiffstore(db, c, now)
      [] c.op = "SINTERSTORE" -> Sinterstore(db, c, now)
      [] c.op = "SUNIONSTORE" -> Sunionstore(db, c, now)

=============================================================================
