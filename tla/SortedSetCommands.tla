------------------------- MODULE SortedSetCommands --------------------------
(***************************************************************************)
(* Sorted sets: the two indexes of SortedSet (keyspace.rs) and the         *)
(* handlers of cmd_sorted_set.rs, cmd_sorted_set_ranges.rs,                *)
(* cmd_sorted_set_pop.rs, cmd_sorted_set_setops.rs and                     *)
(* cmd_sorted_set_sampling.rs.                                             *)
(*                                                                         *)
(* A sorted set is [byScore, byMember]: the ordered index of               *)
(* <<score, member>> and the map from members to scores.  Scores are whole *)
(* numbers and the two infinities.                                         *)
(***************************************************************************)
EXTENDS Keyspace

LOCAL NotAFloat == Err("not a valid float")
MaxZsetNumkeys == 10000
ZsetRepeatMax == 100000

-----------------------------------------------------------------------------
(* The structure. *)

EmptyZset == [byScore |-> {}, byMember |-> <<>>]

MutZInsert(z, m, score) ==
    [byScore |-> z.byScore \cup {<<score, m>>}, byMember |-> Put(z.byMember, m, score)]

\* SortedSet::insert: the old place in the ordered index is given up first.
ZInsert(z, m, score) ==
    [byScore |-> (IF m \in DOMAIN z.byMember THEN z.byScore \ {<<z.byMember[m], m>>} ELSE z.byScore)
                   \cup {<<score, m>>},
     byMember |-> Put(z.byMember, m, score)]

ZRemove(z, m) ==
    IF m \notin DOMAIN z.byMember THEN z
    ELSE [byScore |-> z.byScore \ {<<z.byMember[m], m>>}, byMember |-> Drop(z.byMember, m)]

ZHas(z, m) == m \in DOMAIN z.byMember
ZLen(z) == Cardinality(DOMAIN z.byMember)

EntryBefore(a, b) == a[1] < b[1] \/ (a[1] = b[1] /\ a[2] < b[2])

\* The entries in ascending order.
SortedEntries(z) == SetToSortSeq(z.byScore, EntryBefore)

\* SortedSet::rank: how many entries lie before the member's own.
Rank(z, m) == Cardinality({e \in z.byScore : EntryBefore(e, <<z.byMember[m], m>>)})

ZRemoveAll(z0, entries) == FoldLeft(LAMBDA z, e : ZRemove(z, e[2]), z0, entries)
ZBuild(entries) == FoldLeft(LAMBDA z, e : ZInsert(z, e[2], e[1]), EmptyZset, entries)

\* A sorted set edited in place; an empty one takes its key with it.
StoreZset(db, k, z) == IF ZLen(z) = 0 THEN RemoveKey(db, k) ELSE Update(db, k, "zset", z)

\* The result of a STORE form replaces the destination or, empty, removes it.
StoreEntries(db, dst, entries) ==
    Ret(IF entries = <<>> THEN RemoveKey(db, dst)
        ELSE InsertKey(db, dst, ZsetValue(ZBuild(entries), 0)), Num(Len(entries)))

EntriesToResp(entries, withScores) ==
    Arr([i \in DOMAIN entries |-> IF withScores THEN entries[i] ELSE Elem(entries[i][2])])

\* Sums of scores; NotInt is NaN.
IsInfinite(n) == n \in {Infinite, -Infinite}
AddScores(a, b) ==
    IF IsInfinite(a) /\ IsInfinite(b) THEN IF a = b THEN a ELSE NotInt
    ELSE IF IsInfinite(a) THEN a ELSE IF IsInfinite(b) THEN b ELSE a + b

-----------------------------------------------------------------------------
(* cmd_sorted_set.rs *)

\* One pair of ZADD on [z, added, changed].
ZaddPair(acc, c, score, m) ==
    LET old == acc.z.byMember[m]
    IN IF ~ZHas(acc.z, m)
       THEN IF c.xx THEN acc
            ELSE [z |-> ZInsert(acc.z, m, score), added |-> acc.added + 1, changed |-> acc.changed + 1]
       ELSE IF c.nx \/ (c.gt /\ score <= old) \/ (c.lt /\ score >= old) \/ score = old THEN acc
       ELSE [acc EXCEPT !.z = ZInsert(@, m, score), !.changed = @ + 1]

\* c.pairs: <<score, member>>.  A key that is missing is created without a look
\* at GT, LT and CH.
Zadd(db0, c, now) ==
    LET db == PurgeExpiredKey(db0, c.k, now)
        fresh == ZBuild(c.pairs)
    IN IF c.nx /\ (c.xx \/ c.gt \/ c.lt) THEN Ret(db0, Err("options are not compatible"))
       ELSE IF \E i \in DOMAIN c.pairs : ~IsInt(c.pairs[i][1]) THEN Ret(db0, NotAFloat)
       ELSE IF ~Has(db, c.k)
            THEN IF c.xx THEN Ret(db, Num(0))
                 ELSE Ret(InsertKey(db, c.k, ZsetValue(fresh, 0)), Num(ZLen(fresh)))
       ELSE WithValue(db, c.k, "zset", Num(0), LAMBDA z :
              LET out == FoldLeft(LAMBDA acc, p : ZaddPair(acc, c, p[1], p[2]),
                                  [z |-> z, added |-> 0, changed |-> 0], c.pairs)
              IN Ret(Update(db, c.k, "zset", out.z), Num(IF c.ch THEN out.changed ELSE out.added)))

Zrem(db0, c, now) ==
    LET db == PurgeExpiredKey(db0, c.k, now)
    IN WithValue(db, c.k, "zset", Num(0), LAMBDA z :
         Ret(StoreZset(db, c.k, FoldLeft(ZRemove, z, c.vs)),
             Num(Cardinality(ToSet(c.vs) \cap DOMAIN z.byMember))))

ScoreReply(z, m) == IF ZHas(z, m) THEN Bulk(FormatF64(z.byMember[m])) ELSE Nil

Zscore(db0, c, now) ==
    LET db == PurgeExpiredKey(db0, c.k, now)
    IN ReadValue(db, c.k, "zset", Nil, LAMBDA z : ScoreReply(z, c.m))

Zmscore(db0, c, now) ==
    LET db == PurgeExpiredKey(db0, c.k, now)
    IN ReadValue(db, c.k, "zset", Arr([i \in DOMAIN c.vs |-> Nil]),
                 LAMBDA z : Arr([i \in DOMAIN c.vs |-> ScoreReply(z, c.vs[i])]))

Zcard(db0, c, now) ==
    LET db == PurgeExpiredKey(db0, c.k, now)
    IN ReadValue(db, c.k, "zset", Num(0), LAMBDA z : Num(ZLen(z)))

Zincrby(db0, c, now) ==
    LET db == PurgeExpiredKey(db0, c.k, now)
        Next(z) == AddScores(IF ZHas(z, c.m) THEN z.byMember[c.m] ELSE 0, c.n)
    IN IF ~IsInt(c.n) THEN Ret(db0, NotAFloat)
       ELSE IF ~Has(db, c.k)
            THEN Ret(InsertKey(db, c.k, ZsetValue(ZInsert(EmptyZset, c.m, c.n), 0)), Bulk(FormatF64(c.n)))
       ELSE WithValue(db, c.k, "zset", Nil, LAMBDA z :
              IF ~IsInt(Next(z)) THEN Ret(db, Err("resulting score is not a number"))
              ELSE Ret(Update(db, c.k, "zset", ZInsert(z, c.m, Next(z))), Bulk(FormatF64(Next(z)))))

-----------------------------------------------------------------------------
(* cmd_sorted_set_ranges.rs.  A bound is [kind, n]: incl or excl with the    *)
(* value n, neg and pos for "-" and "+" of a lexical range, bad for what     *)
(* does not parse in its mode.                                               *)

\* score_in_range, and member_in_lex_range with its two open ends.
Above(b, n) == CASE b.kind = "incl" -> n >= b.n [] b.kind = "excl" -> n > b.n
                 [] b.kind = "neg" -> TRUE [] b.kind = "pos" -> FALSE
Below(b, n) == CASE b.kind = "incl" -> n <= b.n [] b.kind = "excl" -> n < b.n
                 [] b.kind = "neg" -> FALSE [] b.kind = "pos" -> TRUE
Between(lo, hi, n) == Above(lo, n) /\ Below(hi, n)

\* SortedSet::range_by_score
RangeByScore(z, lo, hi) == SelectSeq(SortedEntries(z), LAMBDA e : Between(lo, hi, e[1]))
RangeByLex(z, lo, hi) == SelectSeq(SortedEntries(z), LAMBDA e : Between(lo, hi, e[2]))

BadBound(mode) ==
    IF mode = "rank" THEN NotAnInteger
    ELSE IF mode = "score" THEN Err("min or max is not a float")
    ELSE Err("min or max is not a valid string range item")
Unparsed(b, mode) == b.kind = "bad" \/ (mode # "lex" /\ b.kind \in {"neg", "pos"})

\* LIMIT offset count: a negative count is none; no limit is <<>>.
Limited(s, limit) ==
    IF limit = <<>> THEN s
    ELSE LET rest == SubSeq(s, limit[1] + 1, Len(s))
         IN IF limit[2] < 0 THEN rest ELSE SubSeq(rest, 1, Min({limit[2], Len(rest)}))

\* In a reversed range by score or by member the first bound is the upper one.
\* The result is [sel] or [err].
ZrangeCollect(z, first, second, mode, rev, limit) ==
    LET ascending == SortedEntries(z)
        lo == IF rev THEN second ELSE first
        hi == IF rev THEN first ELSE second
        Turn(s) == IF rev THEN Reverse(s) ELSE s
        selected == CASE mode = "rank" ->
                           Slice(Turn(ascending), NormalizeRange(ZLen(z), first.n, second.n))
                      [] mode = "score" -> Turn(RangeByScore(z, lo, hi))
                      [] mode = "lex" -> Turn(RangeByLex(z, lo, hi))
    IN IF Unparsed(first, mode) \/ Unparsed(second, mode) THEN [err |-> BadBound(mode)]
       ELSE IF limit # <<>> /\ limit[1] < 0 THEN [err |-> NotAnInteger]
       ELSE [sel |-> Limited(selected, limit)]

\* The handlers below parse their options, then do this.
RangeReply(db0, c, now, first, second, mode, rev, limit) ==
    LET db == PurgeExpiredKey(db0, c.k, now)
    IN IF limit # <<>> /\ (~IsInt(limit[1]) \/ ~IsInt(limit[2])) THEN Ret(db0, NotAnInteger)
       ELSE ReadValue(db, c.k, "zset", Arr(<<>>), LAMBDA z :
              LET out == ZrangeCollect(z, first, second, mode, rev, limit)
              IN IF "err" \in DOMAIN out THEN out.err ELSE EntriesToResp(out.sel, c.withscores))

\* c.a and c.b are the bounds in the order they are written in the command.
Zrange(db, c, now) == RangeReply(db, c, now, c.a, c.b, c.mode, c.rev, c.limit)
Zrangebyscore(db, c, now) == RangeReply(db, c, now, c.a, c.b, "score", FALSE, c.limit)
Zrangebylex(db, c, now) == RangeReply(db, c, now, c.a, c.b, "lex", FALSE, c.limit)
Zrevrange(db, c, now) == RangeReply(db, c, now, c.a, c.b, "rank", TRUE, <<>>)

\* The two reversed forms name their arguments max and min and pass them to the
\* collector as min and max, which takes the first of them for the upper bound.
Zrevrangebyscore(db, c, now) == RangeReply(db, c, now, c.b, c.a, "score", TRUE, c.limit)
Zrevrangebylex(db, c, now) == RangeReply(db, c, now, c.b, c.a, "lex", TRUE, c.limit)

Zrangestore(db0, c, now) ==
    LET db == PurgeExpiredKey(db0, c.k, now)
    IN IF c.limit # <<>> /\ (~IsInt(c.limit[1]) \/ ~IsInt(c.limit[2])) THEN Ret(db0, NotAnInteger)
       ELSE IF ~Has(db, c.k) THEN Ret(RemoveKey(db, c.dst), Num(0))
       ELSE WithValue(db, c.k, "zset", Num(0), LAMBDA z :
              LET out == ZrangeCollect(z, c.a, c.b, c.mode, c.rev, c.limit)
              IN IF "err" \in DOMAIN out THEN Ret(db, out.err) ELSE StoreEntries(db, c.dst, out.sel))

Zcount(db0, c, now) ==
    LET db == PurgeExpiredKey(db0, c.k, now)
    IN IF Unparsed(c.a, "score") \/ Unparsed(c.b, "score") THEN Ret(db0, BadBound("score"))
       ELSE ReadValue(db, c.k, "zset", Num(0), LAMBDA z : Num(Len(RangeByScore(z, c.a, c.b))))

Zlexcount(db0, c, now) ==
    LET db == PurgeExpiredKey(db0, c.k, now)
    IN IF Unparsed(c.a, "lex") \/ Unparsed(c.b, "lex") THEN Ret(db0, BadBound("lex"))
       ELSE ReadValue(db, c.k, "zset", Num(0), LAMBDA z : Num(Len(RangeByLex(z, c.a, c.b))))

Zrank(db0, c, now) ==
    LET db == PurgeExpiredKey(db0, c.k, now)
    IN ReadValue(db, c.k, "zset", Nil, LAMBDA z : IF ZHas(z, c.m) THEN Num(Rank(z, c.m)) ELSE Nil)

Zrevrank(db0, c, now) ==
    LET db == PurgeExpiredKey(db0, c.k, now)
    IN ReadValue(db, c.k, "zset", Nil,
                 LAMBDA z : IF ZHas(z, c.m) THEN Num(ZLen(z) - 1 - Rank(z, c.m)) ELSE Nil)

\* Remove the entries Select picks.
RemoveRange(db, k, Select(_)) ==
    WithValue(db, k, "zset", Num(0), LAMBDA z :
      Ret(StoreZset(db, k, ZRemoveAll(z, Select(z))), Num(Len(Select(z)))))

\* Its own reading of the two indexes: a negative end that stays negative is
\* raised to the first rank, where the reading commands select nothing.
RankRange(len, start, stop) ==
    LET from == IF start < 0 THEN AtLeast0(start + len) ELSE start
        to == IF stop < 0 THEN AtLeast0(stop + len) ELSE Min({stop, len - 1})
    IN IF from > to \/ from >= len THEN NoRange ELSE <<from, Min({to, len - 1})>>

Zremrangebyrank(db0, c, now) ==
    IF ~IsInt(c.start) \/ ~IsInt(c.end) THEN Ret(db0, NotAnInteger)
    ELSE RemoveRange(PurgeExpiredKey(db0, c.k, now), c.k,
                     LAMBDA z : Slice(SortedEntries(z), RankRange(ZLen(z), c.start, c.end)))

Zremrangebyscore(db0, c, now) ==
    IF Unparsed(c.a, "score") \/ Unparsed(c.b, "score") THEN Ret(db0, BadBound("score"))
    ELSE RemoveRange(PurgeExpiredKey(db0, c.k, now), c.k, LAMBDA z : RangeByScore(z, c.a, c.b))

Zremrangebylex(db0, c, now) ==
    IF Unparsed(c.a, "lex") \/ Unparsed(c.b, "lex") THEN Ret(db0, BadBound("lex"))
    ELSE RemoveRange(PurgeExpiredKey(db0, c.k, now), c.k, LAMBDA z : RangeByLex(z, c.a, c.b))

-----------------------------------------------------------------------------
(* cmd_sorted_set_pop.rs *)

\* The first n entries from the low end or, for ~min, from the high end.
PopEntries(z, n, min) ==
    LET entries == IF min THEN SortedEntries(z) ELSE Reverse(SortedEntries(z))
    IN SubSeq(entries, 1, Min({n, Len(entries)}))

\* ZPOPMIN, ZPOPMAX; c.count < 0 stands for none.
ZpopImpl(db0, c, now) ==
    LET db == PurgeExpiredKey(db0, c.k, now)
        n == IF c.count < 0 THEN 1 ELSE c.count
    IN IF ~IsInt(c.count) THEN Ret(db0, NotAnInteger)
       ELSE IF c.count = Negative THEN Ret(db0, Err("must be positive"))
       ELSE IF n = 0 THEN Ret(db0, Arr(<<>>))
       ELSE WithValue(db, c.k, "zset", Arr(<<>>), LAMBDA z :
              Ret(StoreZset(db, c.k, ZRemoveAll(z, PopEntries(z, n, c.min))),
                  EntriesToResp(PopEntries(z, n, c.min), TRUE)))

\* Pop from the first of the keys that is there: ZMPOP, and the attempts of
\* BZMPOP, BZPOPMIN and BZPOPMAX.
PopFirstKey(db0, c, now, n) ==
    LET i == FirstPresent(db0, c.ks, now)
        db == PurgeAll(db0, IF i = 0 THEN c.ks ELSE SubSeq(c.ks, 1, i), now)
    IN IF i = 0 THEN Ret(db, NilArr)
       ELSE WithValue(db, c.ks[i], "zset", NilArr, LAMBDA z :
              Ret(StoreZset(db, c.ks[i], ZRemoveAll(z, PopEntries(z, n, c.min))),
                  Arr(<<KeyReply(c.ks[i]), PopEntries(z, n, c.min)>>)))

TryZmpopOnce(db, c, now) == PopFirstKey(db, c, now, c.count)
TryBzpopOnce(db, c, now) == PopFirstKey(db, c, now, 1)

Zmpop(db, c, now) ==
    IF ~IsInt(c.count) THEN Ret(db, NotAnInteger)
    ELSE IF Len(c.ks) > MaxZsetNumkeys THEN Ret(db, Err("numkeys is out of range"))
    ELSE IF c.count <= 0 THEN Ret(db, Err("count should be greater than 0"))
    ELSE TryZmpopOnce(db, c, now)

-----------------------------------------------------------------------------
(* cmd_sorted_set_setops.rs *)

\* Products of scores and weights; 0 * inf and inf - inf count as 0.
WeightedScore(score, weight) ==
    IF ~IsInfinite(score) /\ ~IsInfinite(weight) THEN score * weight
    ELSE IF score = 0 \/ weight = 0 THEN 0
    ELSE IF (score > 0) <=> (weight > 0) THEN Infinite ELSE -Infinite

AggregateScore(agg, a, b) ==
    CASE agg = "sum" -> (IF IsInt(AddScores(a, b)) THEN AddScores(a, b) ELSE 0)
      [] agg = "min" -> Min({a, b})
      [] agg = "max" -> Max({a, b})

\* ensure_zset_inputs: every input that is there must be a sorted set or a set.
NotAZsetInput(db, k) == Has(db, k) /\ db.data[k].t \notin {"zset", "set"}
InputsRefused(db, ks) == \E i \in DOMAIN ks : NotAZsetInput(db, ks[i])

\* read_zset_or_empty: scores by member; the members of a plain set score 1.
ScoresAt(db, k) ==
    IF TypeIs(db, k, "zset") THEN db.data[k].zset.byMember
    ELSE [m \in PayloadOr(db, k, "set", {}) |-> 1]

\* The entries of a map from members to scores, in order.
EntriesOf(f) == SetToSortSeq({<<f[m], m>> : m \in DOMAIN f}, EntryBefore)

\* Fold the inputs' weighted scores from left to right.
ComputeUnion(db, c) ==
    FoldLeft(LAMBDA acc, i :
               LET s == ScoresAt(db, c.ks[i])
               IN [m \in DOMAIN acc \cup DOMAIN s |->
                     IF m \notin DOMAIN s THEN acc[m]
                     ELSE LET w == WeightedScore(s[m], c.weights[i])
                          IN IF m \in DOMAIN acc THEN AggregateScore(c.agg, acc[m], w) ELSE w],
             <<>>, [i \in DOMAIN c.ks |-> i])

ComputeInter(db, c) ==
    LET Weighted(i) == LET s == ScoresAt(db, c.ks[i])
                       IN [m \in DOMAIN s |-> WeightedScore(s[m], c.weights[i])]
    IN FoldLeft(LAMBDA acc, i :
                  [m \in DOMAIN acc \cap DOMAIN Weighted(i) |->
                     AggregateScore(c.agg, acc[m], Weighted(i)[m])],
                Weighted(1), [i \in 1..(Len(c.ks) - 1) |-> i + 1])

ComputeDiff(db, c) ==
    LET first == ScoresAt(db, c.ks[1])
        others == UNION {DOMAIN ScoresAt(db, c.ks[i]) : i \in 2..Len(c.ks)}
    IN Restrict(first, DOMAIN first \ others)

\* c.how names the operation.
Computed(db, c) ==
    EntriesOf(CASE c.how = "union" -> ComputeUnion(db, c)
                [] c.how = "inter" -> ComputeInter(db, c)
                [] c.how = "diff" -> ComputeDiff(db, c))

NumkeysRefused(c) == Len(c.ks) > MaxZsetNumkeys

\* ZUNION, ZINTER, ZDIFF.
Zsetop(db0, c, now) ==
    LET db == PurgeAll(db0, c.ks, now)
    IN IF NumkeysRefused(c) THEN Ret(db0, Err("numkeys is out of range"))
       ELSE IF \E i \in DOMAIN c.weights : ~IsInt(c.weights[i]) THEN Ret(db0, NotAFloat)
       ELSE IF InputsRefused(db, c.ks) THEN Ret(db, WrongType)
       ELSE Ret(db, EntriesToResp(Computed(db, c), c.withscores))

\* ZUNIONSTORE, ZINTERSTORE, ZDIFFSTORE: the destination is not purged, it is
\* replaced or removed.
ZsetopStore(db0, c, now) ==
    LET db == PurgeAll(db0, c.ks, now)
    IN IF NumkeysRefused(c) THEN Ret(db0, Err("numkeys is out of range"))
       ELSE IF \E i \in DOMAIN c.weights : ~IsInt(c.weights[i]) THEN Ret(db0, NotAFloat)
       ELSE IF InputsRefused(db, c.ks) THEN Ret(db, WrongType)
       ELSE StoreEntries(db, c.dst, Computed(db, c))

\* Counts the members of all inputs, up to the limit if there is one.
Zintercard(db0, c, now) ==
    LET db == PurgeAll(db0, c.ks, now)
        card == Cardinality({m \in DOMAIN ScoresAt(db, c.ks[1]) :
                               \A i \in DOMAIN c.ks : m \in DOMAIN ScoresAt(db, c.ks[i])})
    IN IF NumkeysRefused(c) THEN Ret(db0, Err("numkeys is out of range"))
       ELSE IF ~IsInt(c.n) THEN Ret(db0, NotAnInteger)
       ELSE IF c.n < 0 THEN Ret(db0, Err("LIMIT can't be negative"))
       ELSE IF InputsRefused(db, c.ks) THEN Ret(db, WrongType)
       ELSE Ret(db, Num(IF c.n > 0 THEN Min({c.n, card}) ELSE card))

-----------------------------------------------------------------------------
(* cmd_sorted_set_sampling.rs *)

Zrandmember(db0, c, now) ==
    LET db == PurgeExpiredKey(db0, c.k, now)
        Round(s, n) == [i \in 1..n |-> s[((c.seed + i - 1) % Len(s)) + 1]]
        Pick(s) ==
            IF ~c.hasCount THEN Elem(Round(s, 1)[1][2])
            ELSE IF -c.count > ZsetRepeatMax THEN Err("count is out of range")
            ELSE EntriesToResp(Round(s, IF c.count >= 0 THEN Min({c.count, Len(s)}) ELSE -c.count),
                               c.withscores)
    IN IF c.hasCount /\ ~IsInt(c.count) THEN Ret(db0, NotAnInteger)
       ELSE ReadValue(db, c.k, "zset", IF c.hasCount THEN Arr(<<>>) ELSE Nil,
                      LAMBDA z : Pick(SortedEntries(z)))

\* By member, whatever the scores.
Zscan(db0, c, now) ==
    LET db == PurgeExpiredKey(db0, c.k, now)
    IN IF ScanRefused(c) THEN Ret(db0, Err("invalid cursor or count"))
       ELSE ReadValue(db, c.k, "zset", [cursor |-> 0, scanned |-> <<>>], LAMBDA z :
              ScanReply(ScanFrom(Members(DOMAIN z.byMember), c.cursor, c.count,
                                 LAMBDA m : m \in c.pat)))

-----------------------------------------------------------------------------
ZsetOps == {"ZADD", "ZREM", "ZSCORE", "ZMSCORE", "ZCARD", "ZINCRBY", "ZRANGE", "ZRANGEBYSCORE",
            "ZRANGEBYLEX", "ZREVRANGE", "ZREVRANGEBYSCORE", "ZREVRANGEBYLEX", "ZRANGESTORE",
            "ZCOUNT", "ZLEXCOUNT", "ZRANK", "ZREVRANK", "ZREMRANGEBYRANK", "ZREMRANGEBYSCORE",
            "ZREMRANGEBYLEX", "ZPOP", "ZMPOP", "BZPOP", "ZSETOP", "ZSETOPSTORE", "ZINTERCARD",
            "ZRANDMEMBER", "ZSCAN"}

SortedSetCommand(db, c, now) ==
    CASE c.op = "ZADD" -> Zadd(db, c, now)
      [] c.op = "ZREM" -> Zrem(db, c, now)
      [] c.op = "ZSCORE" -> Zscore(db, c, now)
      [] c.op = "ZMSCORE" -> Zmscore(db, c, now)
      [] c.op = "ZCARD" -> Zcard(db, c, now)
      [] c.op = "ZINCRBY" -> Zincrby(db, c, now)
      [] c.op = "ZRANGE" -> Zrange(db, c, now)
      [] c.op = "ZRANGEBYSCORE" -> Zrangebyscore(db, c, now)
      [] c.op = "ZRANGEBYLEX" -> Zrangebylex(db, c, now)
      [] c.op = "ZREVRANGE" -> Zrevrange(db, c, now)
      [] c.op = "ZREVRANGEBYSCORE" -> Zrevrangebyscore(db, c, now)
      [] c.op = "ZREVRANGEBYLEX" -> Zrevrangebylex(db, c, now)
      [] c.op = "ZRANGESTORE" -> Zrangestore(db, c, now)
      [] c.op = "ZCOUNT" -> Zcount(db, c, now)
      [] c.op = "ZLEXCOUNT" -> Zlexcount(db, c, now)
      [] c.op = "ZRANK" -> Zrank(db, c, now)
      [] c.op = "ZREVRANK" -> Zrevrank(db, c, now)
      [] c.op = "ZREMRANGEBYRANK" -> Zremrangebyrank(db, c, now)
      [] c.op = "ZREMRANGEBYSCORE" -> Zremrangebyscore(db, c, now)
      [] c.op = "ZREMRANGEBYLEX" -> Zremrangebylex(db, c, now)
      [] c.op = "ZPOP" -> ZpopImpl(db, c, now)
      [] c.op = "ZMPOP" -> Zmpop(db, c, now)
      [] c.op = "BZPOP" -> TryBzpopOnce(db, c, now)
      [] c.op = "ZSETOP" -> Zsetop(db, c, now)
      [] c.op = "ZSETOPSTORE" -> ZsetopStore(db, c, now)
      [] c.op = "ZINTERCARD" -> Zintercard(db, c, now)
      [] c.op = "ZRANDMEMBER" -> Zrandmember(db, c, now)
      [] c.op = "ZSCAN" -> Zscan(db, c, now)

=============================================================================
