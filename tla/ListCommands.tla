---------------------------- MODULE ListCommands ----------------------------
(***************************************************************************)
(* The handlers of the list commands (cmd_list.rs, cmd_list_pop.rs and the *)
(* non-blocking attempts of cmd_list_blocking.rs; what happens when such   *)
(* an attempt has to wait is in module Blocking).                          *)
(***************************************************************************)
EXTENDS Keyspace


\* Push the values one by one at an end.
PushAll(l, vs, left) == IF left THEN Reverse(vs) \o l ELSE l \o vs

\* Pop up to n elements from an end: what leaves, in order, and what stays.
Taken(l, n, left) ==
    LET m == Min({n, Len(l)})
    IN IF left THEN SubSeq(l, 1, m) ELSE Reverse(SubSeq(l, Len(l) - m + 1, Len(l)))
Kept(l, n, left) ==
    LET m == Min({n, Len(l)})
    IN IF left THEN SubSeq(l, m + 1, Len(l)) ELSE SubSeq(l, 1, Len(l) - m)

MutStoreList(db, k, l) == Update(db, k, "list", l)

\* A list edited in place; an empty one takes its key with it.
StoreList(db, k, l) == IF l = <<>> THEN RemoveKey(db, k) ELSE Update(db, k, "list", l)

-----------------------------------------------------------------------------
(* cmd_list.rs *)

\* LPUSHX, RPUSHX.
Pushx(db0, c, now) ==
    LET db == PurgeExpiredKey(db0, c.k, now)
    IN WithValue(db, c.k, "list", Num(0), LAMBDA l :
         Ret(Update(db, c.k, "list", PushAll(l, c.vs, c.left)), Num(Len(l) + Len(c.vs))))

\* LPUSH, RPUSH.
Push(db0, c, now) ==
    LET db == PurgeExpiredKey(db0, c.k, now)
    IN IF ~Has(db, c.k)
       THEN Ret(InsertKey(db, c.k, ListValue(PushAll(<<>>, c.vs, c.left), 0)), Num(Len(c.vs)))
       ELSE Pushx(db, c, now)

Lrange(db0, c, now) ==
    LET db == PurgeExpiredKey(db0, c.k, now)
    IN IF ~IsInt(c.start) \/ ~IsInt(c.end) THEN Ret(db0, NotAnInteger)
       ELSE ReadValue(db, c.k, "list", Arr(<<>>),
              LAMBDA l : Elems(Slice(l, NormalizeRange(Len(l), c.start, c.end))))

Llen(db0, c, now) ==
    LET db == PurgeExpiredKey(db0, c.k, now)
    IN ReadValue(db, c.k, "list", Num(0), LAMBDA l : Num(Len(l)))

\* The first n occurrences for n > 0, the last -n for n < 0, all for 0.
Lrem(db0, c, now) ==
    LET db == PurgeExpiredKey(db0, c.k, now)
        Doomed(l) ==
            LET hits == {i \in DOMAIN l : l[i] = c.m}
                ahead(i) == Cardinality({j \in hits : j < i})
                behind(i) == Cardinality({j \in hits : j > i})
            IN {i \in hits : \/ c.n = 0
                             \/ c.n > 0 /\ ahead(i) < c.n
                             \/ c.n < 0 /\ behind(i) < -c.n}
        Rest(l) == FoldLeft(LAMBDA acc, i : IF i \in Doomed(l) THEN acc ELSE Append(acc, l[i]),
                            <<>>, [i \in DOMAIN l |-> i])
    IN IF ~IsInt(c.n) THEN Ret(db0, NotAnInteger)
       ELSE WithValue(db, c.k, "list", Num(0), LAMBDA l :
              Ret(StoreList(db, c.k, Rest(l)), Num(Cardinality(Doomed(l)))))

\* c.rank # 0; c.count < 0: no COUNT; c.maxlen < 0: no MAXLEN.  A negative rank
\* walks the first MAXLEN elements backwards.
Lpos(db0, c, now) ==
    LET db == PurgeExpiredKey(db0, c.k, now)
        many == c.count >= 0
        Positions(l) ==
            LET limit == IF c.maxlen < 0 THEN Len(l) ELSE Min({c.maxlen, Len(l)})
                hits == SelectSeq([i \in 1..limit |-> i], LAMBDA i : l[i] = c.m)
                inOrder == IF c.rank > 0 THEN hits ELSE Reverse(hits)
                from == IF c.rank > 0 THEN c.rank ELSE Saturate(-c.rank)
                rest == SubSeq(inOrder, from, Len(inOrder))
            IN SubSeq(rest, 1, Min({Len(rest), IF many THEN c.count ELSE 1}))
    IN IF ~IsInt(c.rank) THEN Ret(db0, NotAnInteger)
       ELSE IF c.count = Negative \/ c.maxlen = Negative THEN Ret(db0, Err("can't be negative"))
       ELSE IF c.rank = 0 THEN Ret(db0, Err("RANK can't be zero"))
       ELSE ReadValue(db, c.k, "list", IF many THEN Arr(<<>>) ELSE Nil, LAMBDA l :
              LET ps == Positions(l)
              IN IF many THEN Arr([i \in DOMAIN ps |-> Num(ps[i] - 1)])
                 ELSE IF ps = <<>> THEN Nil ELSE Num(ps[1] - 1))

\* The 0-based position an index names, out of range if it is not in the list.
ListIndex(l, n) == FromEnd(Len(l), n)
InList(l, i) == i >= 0 /\ i < Len(l)

Lset(db0, c, now) ==
    LET db == PurgeExpiredKey(db0, c.k, now)
    IN IF ~IsInt(c.n) THEN Ret(db0, NotAnInteger)
       ELSE WithValue(db, c.k, "list", Err("no such key"), LAMBDA l :
              IF ~InList(l, ListIndex(l, c.n)) THEN Ret(db, Err("index out of range"))
              ELSE Ret(Update(db, c.k, "list", [l EXCEPT ![ListIndex(l, c.n) + 1] = c.m]), Ok))

Lindex(db0, c, now) ==
    LET db == PurgeExpiredKey(db0, c.k, now)
    IN IF ~IsInt(c.n) THEN Ret(db0, NotAnInteger)
       ELSE ReadValue(db, c.k, "list", Nil, LAMBDA l :
              IF InList(l, ListIndex(l, c.n)) THEN Elem(l[ListIndex(l, c.n) + 1]) ELSE Nil)

Linsert(db0, c, now) ==
    LET db == PurgeExpiredKey(db0, c.k, now)
    IN WithValue(db, c.k, "list", Num(0), LAMBDA l :
         LET hits == {i \in DOMAIN l : l[i] = c.pivot}
             at == IF c.before THEN Min(hits) ELSE Min(hits) + 1
         IN IF hits = {} THEN Ret(db, Num(-1))
            ELSE Ret(Update(db, c.k, "list", InsertAt(l, at, c.m)), Num(Len(l) + 1)))

\* A range that selects nothing removes the key.
Ltrim(db0, c, now) ==
    LET db == PurgeExpiredKey(db0, c.k, now)
    IN IF ~IsInt(c.start) \/ ~IsInt(c.end) THEN Ret(db0, NotAnInteger)
       ELSE WithValue(db, c.k, "list", Ok, LAMBDA l :
              Ret(StoreList(db, c.k, Slice(l, NormalizeRange(Len(l), c.start, c.end))), Ok))

-----------------------------------------------------------------------------
(* cmd_list_pop.rs and cmd_list_blocking.rs *)

\* LPOP, RPOP.
Pop(db0, c, now) ==
    LET db == PurgeExpiredKey(db0, c.k, now)
        many == c.count >= 0
        n == IF many THEN c.count ELSE 1
    IN IF ~IsInt(c.count) THEN Ret(db0, NotAnInteger)
       ELSE IF c.count = Negative THEN Ret(db0, Err("must be positive"))
       ELSE WithValue(db, c.k, "list", IF many THEN NilArr ELSE Nil, LAMBDA l :
              IF c.count = 0 THEN Ret(db, Arr(<<>>))
              ELSE Ret(StoreList(db, c.k, Kept(l, n, c.left)),
                       IF many THEN Elems(Taken(l, n, c.left)) ELSE Elem(Taken(l, 1, c.left)[1])))

\* BLPOP and BRPOP's attempt: the keys up to the one it pops from are purged.
TryBpopOnce(db0, c, now) ==
    LET i == FirstPresent(db0, c.ks, now)
        db == PurgeAll(db0, IF i = 0 THEN c.ks ELSE SubSeq(c.ks, 1, i), now)
    IN IF i = 0 THEN Ret(db, NilArr)
       ELSE WithValue(db, c.ks[i], "list", NilArr, LAMBDA l :
              Ret(StoreList(db, c.ks[i], Kept(l, 1, c.left)),
                  Arr(<<KeyReply(c.ks[i]), Elem(Taken(l, 1, c.left)[1])>>)))

MutLmove(db0, c, now) ==
    LET db == PurgeAll(db0, <<c.k, c.dst>>, now)
        Move(l) ==
            LET v == Taken(l, 1, c.left)
                without == StoreList(db, c.k, Kept(l, 1, c.left))
            IN IF Has(without, c.dst) /\ without.data[c.dst].t # "list" THEN Ret(without, WrongType)
               ELSE Ret(IF Has(without, c.dst)
                        THEN Update(without, c.dst, "list", PushAll(without.data[c.dst].list, v, c.toLeft))
                        ELSE InsertKey(without, c.dst, ListValue(v, 0)), Elem(v[1]))
    IN WithValue(db, c.k, "list", Nil, Move)

\* The destination is checked before the source is touched.
Lmove(db0, c, now) ==
    LET src == c.k
        dst == c.dst
        db == PurgeAll(db0, <<src, dst>>, now)
        Move(l) ==
            LET v == Taken(l, 1, c.left)
                without == StoreList(db, src, Kept(l, 1, c.left))
            IN IF src = dst
               THEN Ret(Update(db, src, "list", PushAll(Kept(l, 1, c.left), v, c.toLeft)), Elem(v[1]))
               ELSE IF Has(db, dst) /\ db.data[dst].t # "list" THEN Ret(db, WrongType)
               ELSE Ret(IF Has(without, dst)
                        THEN Update(without, dst, "list",
                                    PushAll(without.data[dst].list, v, c.toLeft))
                        ELSE InsertKey(without, dst, ListValue(v, 0)), Elem(v[1]))
    IN WithValue(db, src, "list", Nil, Move)

\* LMPOP and BLMPOP's attempt.
TryLmpopOnce(db0, c, now) ==
    LET i == FirstPresent(db0, c.ks, now)
        db == PurgeAll(db0, IF i = 0 THEN c.ks ELSE SubSeq(c.ks, 1, i), now)
    IN IF i = 0 THEN Ret(db, NilArr)
       ELSE WithValue(db, c.ks[i], "list", NilArr, LAMBDA l :
              Ret(StoreList(db, c.ks[i], Kept(l, c.count, c.left)),
                  Arr(<<KeyReply(c.ks[i]), Elems(Taken(l, c.count, c.left))>>)))

Lmpop(db0, c, now) ==
    IF ~IsInt(c.count) THEN Ret(db0, NotAnInteger)
    ELSE IF c.count <= 0 THEN Ret(db0, Err("count should be greater than 0"))
    ELSE TryLmpopOnce(db0, c, now)

-----------------------------------------------------------------------------
ListOps == {"PUSHX", "PUSH", "LRANGE", "LLEN", "LREM", "LPOS", "LSET", "LINDEX", "LINSERT",
            "LTRIM", "POP", "BPOP", "LMOVE", "LMPOP"}

ListCommand(db, c, now) ==
    CASE c.op = "PUSHX" -> Pushx(db, c, now)
      [] c.op = "PUSH" -> Push(db, c, now)
      [] c.op = "LRANGE" -> Lrange(db, c, now)
      [] c.op = "LLEN" -> Llen(db, c, now)
      [] c.op = "LREM" -> Lrem(db, c, now)
      [] c.op = "LPOS" -> Lpos(db, c, now)
      [] c.op = "LSET" -> Lset(db, c, now)
      [] c.op = "LINDEX" -> Lindex(db, c, now)
      [] c.op = "LINSERT" -> Linsert(db, c, now)
      [] c.op = "LTRIM" -> Ltrim(db, c, now)
      [] c.op = "POP" -> Pop(db, c, now)
      [] c.op = "BPOP" -> TryBpopOnce(db, c, now)
      [] c.op = "LMOVE" -> Lmove(db, c, now)
      [] c.op = "LMPOP" -> Lmpop(db, c, now)

=============================================================================
