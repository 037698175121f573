----------------------------- MODULE MCCommands -----------------------------
(* Suites of commands for TLC: two keys of the suite's type and key 3, which *)
(* holds a value of another type.                                            *)
EXTENDS Commands

CONSTANT MaxLen   \* bound on the length of strings, lists and collections

K == {1, 2}
K3 == {1, 2, 3}
Nums == {-9, -1, 0, 1, NotInt}
Ex(kind, n) == [kind |-> kind, n |-> n]
Times == {NoExpiry, Ex("px", 1), Ex("ex", 1), Ex("pxat", 1), Ex("pxat", 2), Ex("ex", 15), Ex("px", NotInt), Ex("ex", 0)}
Pair(a, b) == <<a, b>>

I1 == <<1, 0>>
I2 == <<2, 0>>
Strings == {<<>>, <<48>>, <<49>>, <<49, 49>>, <<45, 49>>, <<0>>, <<0, 49>>, <<64>>, <<64, 64>>}

\* The other database holds one key at most.
MCBounded(ds) ==
    /\ \A i \in DOMAIN ds : i # 0 => Cardinality(DOMAIN ds[i].data) <= 1
    /\ \A i \in DOMAIN ds : \A k \in DOMAIN ds[i].data :
       LET e == ds[i].data[k]
       IN /\ e.at \in IF k = 1 THEN {0, 2} ELSE {0}
          /\ e.t = "string" => e.string \in IF k = 1 THEN Strings ELSE {<<48>>, <<49>>}
          /\ e.t = "list" => Len(e.list) <= MaxLen
          /\ e.t = "hash" => \A f \in DOMAIN e.hash : Len(e.hash[f].v) <= 1 /\ e.hash[f].at \in {0, 2}
          /\ e.t = "stream" =>
                /\ IdsOf(e.stream.entries) \subseteq {I1, I2}
                /\ e.stream.meta.added <= 2 /\ e.stream.meta.last \in {I1, I2}
                /\ e.at = 2 => e.stream.groups = <<>>
                /\ \A g \in DOMAIN e.stream.groups : \A m \in DOMAIN e.stream.groups[g].consumers :
                      m = 1 => e.stream.groups[g].consumers[m].seen = 1
                /\ \A g \in DOMAIN e.stream.groups : \A id \in DOMAIN e.stream.groups[g].pending :
                      e.stream.groups[g].pending[id].deliveries <= 1
          /\ e.t = "zset" => \A m \in DOMAIN e.zset.byMember :
                               e.zset.byMember[m] \in {0, 1, Infinite}

-----------------------------------------------------------------------------
Subs(sub, bits, signed, offset, n, overflow) ==
    <<[sub |-> sub, field |-> [bits |-> bits, signed |-> signed, offset |-> offset],
       n |-> n, overflow |-> overflow]>>

BitCmds ==
    {[op |-> "SETBIT", k |-> k, n |-> n, bit |-> b] :
        k \in {1, 3}, n \in {1, 9, 16, NotInt}, b \in {0, 1, 2}}
    \cup {[op |-> "GETBIT", k |-> k, n |-> n] : k \in K3, n \in {1, 9, 99, -1}}
    \cup {[op |-> "BITCOUNT", k |-> k, unit |-> u, start |-> s, end |-> e] :
            k \in {1, 3}, u \in {"all", "byte", "bit"}, s \in {0, -9}, e \in {-1, -20, NotInt}}
    \cup {[op |-> "BITPOS", k |-> k, bit |-> b, unit |-> u, start |-> s, end |-> -1, hasEnd |-> h] :
            k \in {1, 3}, b \in {0, 1}, u \in {"byte", "bit"}, s \in {0, 1}, h \in BOOLEAN}
    \cup {[op |-> "BITOP", bitop |-> b, dst |-> 1, ks |-> ks] :
            b \in {"and", "or", "xor", "not"}, ks \in {<<1>>, <<1, 2>>, <<2, 3>>}}
    \cup {[op |-> op, k |-> k, subs |-> s] : op \in {"BITFIELD", "BITFIELD_RO"}, k \in {1, 3},
            s \in {Subs("get", 4, TRUE, 0, 0, "wrap"), Subs("set", 2, FALSE, 1, 2, "wrap"),
                   Subs("incrby", 2, TRUE, 0, 3, "sat"), Subs("incrby", 2, FALSE, 0, 3, "fail"),
                   Subs("incrby", 6, FALSE, 0, 3, "fail")}}

StringCmds ==
    {[op |-> "APPEND", k |-> k, v |-> v] : k \in K3, v \in {<<49>>, <<48>>, <<45>>, <<>>}}
    \cup {[op |-> op, k |-> k] : op \in {"STRLEN", "GET", "GETDEL"}, k \in K3}
    \cup {[op |-> "GETRANGE", k |-> k, start |-> s, end |-> e] : k \in {1, 3}, s \in Nums, e \in Nums}
    \cup {[op |-> "SETRANGE", k |-> k, n |-> n, v |-> v] : k \in {1, 3}, n \in {0, 1, 2, -1}, v \in {<<>>, <<49>>}}
    \cup {[op |-> "GETSET", k |-> k, v |-> <<49>>] : k \in K3}
    \cup {[op |-> "SETNX", k |-> k, v |-> <<48>>] : k \in K3}
    \cup {[op |-> "MGET", ks |-> <<1, 2, 3>>]}
    \cup {[op |-> op, kvs |-> <<<<1, <<49>>>>, <<2, v>>>>] : op \in {"MSET", "MSETNX"}, v \in {<<48>>, <<45, 49>>}}
    \cup {[op |-> "SET", k |-> k, v |-> <<49>>, x |-> x, nx |-> nx, xx |-> xx, get |-> g] :
            k \in {1, 3}, x \in Times \cup {Ex("keep", 0)}, nx \in BOOLEAN, xx \in BOOLEAN, g \in BOOLEAN}
    \cup {[op |-> "SETEX", k |-> k, v |-> <<48>>, x |-> x] : k \in K3, x \in {y \in Times : y.kind \in {"ex", "px"}}}
    \cup {[op |-> "GETEX", k |-> k, x |-> x] : k \in K3, x \in Times \cup {Ex("persist", 0)}}
    \cup {[op |-> op, k |-> k, n |-> n] : op \in {"INCRBY", "DECRBY", "INCRBYFLOAT"}, k \in {1, 3}, n \in {1, -16, 15, NotInt}}
    \cup {[op |-> "LCS", ks |-> ks, len |-> l] : ks \in {<<1, 2>>, <<1, 3>>}, l \in BOOLEAN}
    \cup {[op |-> "MSETEX", kvs |-> <<<<1, <<49>>>>, <<2, <<48>>>>>>, x |-> x, nx |-> nx, xx |-> xx] :
            x \in {NoExpiry, Ex("px", 1), Ex("ex", 0)}, nx \in BOOLEAN, xx \in BOOLEAN}

ListCmds ==
    {[op |-> op, k |-> k, vs |-> vs, left |-> l] :
        op \in {"PUSH", "PUSHX"}, k \in K3, vs \in {<<1>>, <<2, 1>>}, l \in BOOLEAN}
    \cup {[op |-> op, k |-> k, start |-> s, end |-> e] :
            op \in {"LRANGE", "LTRIM"}, k \in {1, 3}, s \in Nums, e \in Nums}
    \cup {[op |-> "LLEN", k |-> k] : k \in K3}
    \cup {[op |-> "LREM", k |-> k, n |-> n, m |-> 1] : k \in {1, 3}, n \in Nums}
    \cup {[op |-> "LPOS", k |-> 1, m |-> 1, rank |-> r, count |-> n, maxlen |-> x] :
            r \in {1, -1, 0, 2}, n \in {-1, 0, 2, Negative}, x \in {-1, 1}}
    \cup {[op |-> "LSET", k |-> k, n |-> n, m |-> 2] : k \in {1, 3}, n \in Nums}
    \cup {[op |-> "LINDEX", k |-> k, n |-> n] : k \in {1, 3}, n \in Nums}
    \cup {[op |-> "LINSERT", k |-> k, pivot |-> p, m |-> 1, before |-> b] : k \in {1, 3}, p \in {1, 2}, b \in BOOLEAN}
    \cup {[op |-> "POP", k |-> k, left |-> l, count |-> n] : k \in K3, l \in BOOLEAN, n \in {-1, 0, 2, Negative, NotInt}}
    \cup {[op |-> "BPOP", ks |-> ks, left |-> l] : ks \in {<<1, 2>>, <<2, 3>>}, l \in BOOLEAN}
    \cup {[op |-> "LMPOP", ks |-> ks, left |-> l, count |-> n] : ks \in {<<1, 2>>, <<2, 3>>}, l \in BOOLEAN, n \in {0, 2}}
    \cup {[op |-> "LMOVE", k |-> k, dst |-> d, left |-> l, toLeft |-> t] :
            k \in K, d \in K3, l \in BOOLEAN, t \in BOOLEAN}

SetCmds ==
    {[op |-> op, k |-> k, vs |-> vs] : op \in {"SADD", "SREM", "SMISMEMBER"}, k \in K3, vs \in {<<1>>, <<2, 100>>}}
    \cup {[op |-> "SISMEMBER", k |-> k, m |-> 1] : k \in K3}
    \cup {[op |-> op, k |-> k] : op \in {"SMEMBERS", "SCARD"}, k \in K3}
    \cup {[op |-> "SPOP", k |-> k, count |-> n, seed |-> s] : k \in {1, 3}, n \in {-1, 0, 2, Negative}, s \in {0, 1}}
    \cup {[op |-> "SRANDMEMBER", k |-> k, count |-> n, hasCount |-> h, seed |-> 1] : k \in {1, 3}, n \in {-3, 2}, h \in BOOLEAN}
    \cup {[op |-> "SSCAN", k |-> k, cursor |-> c, count |-> n, pat |-> {1, 100}] : k \in {1, 3}, c \in {0, 1, 9, -1}, n \in {1, 10}}
    \cup {[op |-> "SMOVE", k |-> k, dst |-> d, m |-> m] : k \in K3, d \in K3, m \in {1, 2}}
    \cup {[op |-> op, ks |-> ks] : op \in {"SDIFF", "SINTER", "SUNION"}, ks \in {<<1>>, <<1, 2>>, <<2, 1>>, <<1, 3>>, <<3, 1>>}}
    \cup {[op |-> "SINTERCARD", ks |-> ks, limit |-> n] : ks \in {<<1, 2>>, <<1, 3>>}, n \in {0, 1, -1}}
    \cup {[op |-> op, ks |-> ks, dst |-> d] : op \in {"SDIFFSTORE", "SINTERSTORE", "SUNIONSTORE"},
            ks \in {<<1, 2>>, <<2, 1>>, <<1, 3>>}, d \in K}

FV(f, v) == <<f, v>>
HashCmds ==
    {[op |-> op, k |-> k, fvs |-> x] : op \in {"HSET", "HMSET"}, k \in {1, 3},
        x \in {<<FV(1, <<49>>)>>, <<FV(1, <<48>>), FV(2, <<49>>), FV(1, <<49>>)>>}}
    \cup {[op |-> "HSETNX", k |-> k, fvs |-> <<FV(1, <<48>>)>>] : k \in {1, 3}}
    \cup {[op |-> op, k |-> k, f |-> 1, n |-> n, fvs |-> <<>>] : op \in {"HINCRBY", "HINCRBYFLOAT"},
            k \in {1, 3}, n \in {1, 15, -16, NotInt, Infinite}}
    \cup {[op |-> op, k |-> k, fs |-> fs] : op \in {"HDEL", "HMGET", "HPERSIST", "HGETDEL"}, k \in {1, 3},
            fs \in {<<1>>, <<2, 1>>, <<1, 1>>}}
    \cup {[op |-> op, k |-> k, f |-> 1] : op \in {"HGET", "HSTRLEN", "HEXISTS"}, k \in {1, 3}}
    \cup {[op |-> op, k |-> k] : op \in {"HGETALL", "HKEYS", "HVALS", "HLEN"}, k \in {1, 3}}
    \cup {[op |-> "HRANDFIELD", k |-> k, hasCount |-> h, count |-> n, seed |-> 1, withvalues |-> w] :
            k \in {1, 3}, h \in BOOLEAN, n \in {-3, 2}, w \in BOOLEAN}
    \cup {[op |-> "HSCAN", k |-> k, cursor |-> c, count |-> n, pat |-> {1}] : k \in {1, 3}, c \in {0, 1, -1}, n \in {1, 10}}
    \cup {[op |-> "HEXPIRE", k |-> k, fs |-> fs, x |-> x, cond |-> co] : k \in {1, 3}, fs \in {<<1>>, <<2, 1>>},
            x \in {Ex("px", 1), Ex("pxat", 1), Ex("ex", 8), Ex("px", 0)}, co \in {"none", "nx", "gt"}}
    \cup {[op |-> "HTTL", k |-> k, fs |-> <<1, 2>>, mode |-> m] : k \in {1, 3}, m \in {"ttl", "pttl", "expiretime", "pexpiretime"}}
    \cup {[op |-> "HGETEX", k |-> k, fs |-> <<1, 2>>, x |-> x] : k \in {1, 3}, x \in {NoExpiry, Ex("persist", 0), Ex("px", 1), Ex("ex", 8)}}
    \cup {[op |-> "HSETEX", k |-> k, fvs |-> <<FV(1, <<49>>), FV(2, <<48>>)>>, n |-> n] : k \in {1, 3}, n \in {1, 15, 0, NotInt}}

Incl(n) == [kind |-> "incl", n |-> n]
Excl(n) == [kind |-> "excl", n |-> n]
Bounds == {Incl(-Infinite), Incl(1), Excl(0), [kind |-> "bad", n |-> 0]}
LexBounds == {[kind |-> "neg", n |-> 0], [kind |-> "pos", n |-> 0], Incl(1), Excl(1)}
Ranks == {Incl(0), Incl(1), Incl(-1), Incl(-9)}
ZsetCmds ==
    {[op |-> "ZADD", k |-> k, pairs |-> p, nx |-> o = "nx", xx |-> o = "xx", gt |-> o = "gt", lt |-> o = "lt", ch |-> h] :
        k \in K, p \in {<<<<0, 1>>>>, <<<<1, 1>>, <<0, 2>>>>, <<<<Infinite, 2>>>>, <<<<NotInt, 1>>>>},
        o \in {"none", "nx", "xx", "gt", "lt"}, h \in BOOLEAN}
    \cup {[op |-> op, k |-> k, vs |-> vs] : op \in {"ZREM", "ZMSCORE"}, k \in K3, vs \in {<<2, 1>>, <<1>>}}
    \cup {[op |-> op, k |-> k, m |-> 1] : op \in {"ZSCORE", "ZRANK", "ZREVRANK"}, k \in K3}
    \cup {[op |-> "ZCARD", k |-> k] : k \in K3}
    \cup {[op |-> "ZINCRBY", k |-> k, m |-> m, n |-> n] : k \in {1, 3}, m \in {1, 2}, n \in {1, -Infinite}}
    \cup {[op |-> op, k |-> k, a |-> a, b |-> b, mode |-> "score", rev |-> r, limit |-> l, withscores |-> TRUE, dst |-> 2] :
            op \in {"ZRANGE", "ZRANGESTORE"}, k \in {1, 3}, a \in Bounds, b \in {Incl(Infinite), Incl(0)}, r \in BOOLEAN,
            l \in {<<>>, <<1, 1>>, <<-1, 1>>}}
    \cup {[op |-> "ZRANGE", k |-> 1, a |-> a, b |-> b, mode |-> "lex", rev |-> r, limit |-> <<>>, withscores |-> FALSE] :
            a \in LexBounds, b \in LexBounds, r \in BOOLEAN}
    \cup {[op |-> "ZRANGE", k |-> k, a |-> a, b |-> b, mode |-> "rank", rev |-> r, limit |-> <<>>, withscores |-> FALSE] :
            k \in {1, 3}, a \in Ranks, b \in Ranks, r \in BOOLEAN}
    \cup {[op |-> op, k |-> k, a |-> a, b |-> Incl(1), limit |-> <<>>, withscores |-> FALSE] :
            op \in {"ZRANGEBYSCORE", "ZRANGEBYLEX", "ZREVRANGE"}, k \in {1, 3}, a \in Bounds}
    \* as documented, with the larger bound in front
    \cup {[op |-> op, k |-> k, a |-> Incl(1), b |-> b, limit |-> <<>>, withscores |-> FALSE] :
            op \in {"ZREVRANGEBYSCORE", "ZREVRANGEBYLEX"}, k \in {1, 3}, b \in Bounds}
    \cup {[op |-> op, k |-> k, a |-> a, b |-> b] : op \in {"ZCOUNT", "ZREMRANGEBYSCORE"}, k \in {1, 3},
            a \in Bounds, b \in {Incl(Infinite), Incl(0)}}
    \cup {[op |-> op, k |-> k, a |-> a, b |-> b] : op \in {"ZLEXCOUNT", "ZREMRANGEBYLEX"}, k \in {1, 3},
            a \in LexBounds, b \in {Incl(1), [kind |-> "pos", n |-> 0]}}
    \cup {[op |-> "ZREMRANGEBYRANK", k |-> k, start |-> s, end |-> e] : k \in {1, 3}, s \in Nums, e \in Nums}
    \cup {[op |-> "ZPOP", k |-> k, min |-> m, count |-> n] : k \in {1, 3}, m \in BOOLEAN, n \in {-1, 0, 2, Negative}}
    \cup {[op |-> op, ks |-> ks, min |-> m, count |-> n] : op \in {"ZMPOP", "BZPOP"}, ks \in {<<1, 2>>, <<2, 3>>}, m \in BOOLEAN, n \in {0, 2}}
    \cup {[op |-> op, ks |-> ks, how |-> h, weights |-> w, agg |-> a, withscores |-> TRUE, dst |-> 2] :
            op \in {"ZSETOP", "ZSETOPSTORE"}, ks \in {<<1, 2>>, <<1, 3>>, <<2, 4>>}, h \in {"union", "inter", "diff"},
            w \in {<<1, 1>>, <<0, -1>>}, a \in {"sum", "min"}}
    \cup {[op |-> "ZINTERCARD", ks |-> ks, n |-> n] : ks \in {<<1, 2>>, <<1, 3>>}, n \in {0, 1, -1}}
    \cup {[op |-> "ZRANDMEMBER", k |-> k, hasCount |-> h, count |-> n, seed |-> 1, withscores |-> TRUE] : k \in {1, 3}, h \in BOOLEAN, n \in {-3, 2}}
    \cup {[op |-> "ZSCAN", k |-> k, cursor |-> c, count |-> n, pat |-> {1}] : k \in {1, 3}, c \in {0, 1, -1}, n \in {1, 10}}

StreamCmds ==
    {[op |-> "XADD", k |-> k, how |-> x[1], id |-> x[2], v |-> 0] : k \in {1, 3},
        x \in {<<"auto", Zero>>, <<"ms", I1>>, <<"id", I1>>, <<"id", I2>>, <<"id", Zero>>, <<"id", BadId>>,
               <<"id", MaxStreamId>>}}
    \cup {[op |-> "XLEN", k |-> k] : k \in {1, 3}}
    \cup {[op |-> "XRANGE", k |-> k, a |-> a, b |-> MaxStreamId, rev |-> r, count |-> n] :
            k \in {1, 3}, a \in {Zero, I2, BadId}, r \in BOOLEAN, n \in {-1, 1}}
    \cup {[op |-> "XREAD", ks |-> ks, ids |-> <<i, Zero>>, count |-> 1, block |-> b] :
            ks \in {<<1, 2>>, <<1, 3>>}, i \in {Zero, Dollar, BadId}, b \in BOOLEAN}
    \cup {[op |-> "XGROUP", sub |-> "CREATE", k |-> k, g |-> 1, id |-> i, mkstream |-> m] :
            k \in {1, 3}, i \in {Zero, Dollar, BadId}, m \in BOOLEAN}
    \cup {[op |-> "XGROUP", sub |-> s, k |-> k, g |-> 1, id |-> i, m |-> 1] : k \in {1, 3},
            s \in {"DESTROY", "SETID", "CREATECONSUMER", "DELCONSUMER"}, i \in {Zero, Dollar, BadId}}
    \cup {[op |-> "XREADGROUP", ks |-> ks, ids |-> <<i, i>>, g |-> 1, m |-> m, count |-> n, noack |-> a, block |-> FALSE] :
            ks \in {<<1>>, <<1, 3>>}, i \in {Zero, New, BadId}, m \in {1, 2}, n \in {-1, 1}, a \in BOOLEAN}
    \cup {[op |-> "XACK", k |-> k, g |-> g, ids |-> ids] : k \in {1, 3}, g \in {1, 2}, ids \in {<<I1, I2>>, <<I1, BadId>>}}
    \cup {[op |-> "XPENDING", k |-> k, g |-> 1, summary |-> s, a |-> Zero, b |-> I2, m |-> m, count |-> 1] :
            k \in {1, 3}, s \in BOOLEAN, m \in {0, 2}}
    \cup {[op |-> "XINFO", sub |-> s, k |-> k, g |-> 1] : s \in {"STREAM", "GROUPS", "CONSUMERS"}, k \in {1, 3}}
    \cup {[op |-> "XTRIM", k |-> k, how |-> x[1], n |-> 1, id |-> x[2], limit |-> n] : k \in {1, 3},
            x \in {<<"maxlen", Zero>>, <<"minid", I2>>, <<"minid", BadId>>}, n \in {-1, 0}}
    \cup {[op |-> "XDEL", k |-> k, ids |-> ids] : k \in {1, 3}, ids \in {<<I1>>, <<I2, I2>>, <<BadId>>}}
    \cup {[op |-> "XCLAIM", k |-> k, g |-> 1, m |-> 2, n |-> n, ids |-> <<I2, I1>>, justid |-> j] :
            k \in {1, 3}, n \in {0, 1, NotInt}, j \in BOOLEAN}
    \cup {[op |-> "XAUTOCLAIM", k |-> k, g |-> 1, m |-> 2, n |-> 0, id |-> i, count |-> n, justid |-> FALSE] :
            k \in {1, 3}, i \in {Zero, I2, BadId}, n \in {0, 1, 10}}
    \cup {[op |-> op, k |-> k, g |-> 1, cond |-> co, ids |-> <<I1, I2>>] : op \in {"XACKDEL", "XDELEX"},
            k \in {1, 3}, co \in {"keepref", "delref", "acked"}}
    \cup {[op |-> "XSETID", k |-> k, id |-> i, hasAdded |-> h, added |-> n, maxdel |-> d] :
            k \in {1, 3}, i \in {I1, I2, BadId}, h \in BOOLEAN, n \in {-1, 0, NotInt}, d \in {Zero, I1}}
    \cup {[op |-> "XCFGSET", k |-> k, n |-> n] : k \in {1, 3}, n \in {0, -1}}

KeyCmds ==
    {[op |-> op, k |-> k] : op \in {"PERSIST", "TYPE", "DIGEST"}, k \in K3}
    \cup {[op |-> op, ks |-> ks] : op \in {"DEL", "EXISTS"}, ks \in {<<1>>, <<1, 2, 1>>}}
    \cup {[op |-> "RENAME", k |-> 1, dst |-> d, nx |-> x] : d \in K, x \in BOOLEAN}
    \cup {[op |-> "EXPIRE", k |-> 1, x |-> x, cond |-> co] :
            x \in {Ex("px", 1), Ex("ex", 1), Ex("pxat", 1), Ex("pxat", 2), Ex("px", -1), Ex("ex", 15), Ex("px", NotInt)}, co \in {"none", "nx", "xx", "gt", "lt"}}
    \cup {[op |-> op, k |-> k, ms |-> m] : op \in {"TTL", "EXPIRETIME"}, k \in K3, m \in BOOLEAN}
    \cup {[op |-> "SCAN", cursor |-> c, count |-> n, pat |-> {1, 3}, type |-> t] : c \in {0, 1, -1}, n \in {1, 10}, t \in {"any", "string", "stream"}}
    \cup {[op |-> "OBJECT", k |-> k, sub |-> s] : k \in K3, s \in {"ENCODING", "REFCOUNT", "IDLETIME", "FREQ"}}
    \cup {[op |-> "SORT", k |-> k, start |-> s, count |-> n, desc |-> d, alpha |-> a, dst |-> t] :
            k \in K3, s \in {0, 1}, n \in {-1, 1}, d \in BOOLEAN, a \in BOOLEAN, t \in {0, 2}}
    \cup {[op |-> "RANDOMKEY", seed |-> s] : s \in {0, 1}}
    \cup {[op |-> "KEYS", pat |-> {1, 3}]}
    \cup {[op |-> "DELEX", k |-> k, cond |-> co, v |-> <<49>>] : k \in K3, co \in {"none", "IFEQ", "IFNE", "IFDEQ", "IFDNE", "bad"}}
    \cup {[op |-> "MOVE", k |-> k, db |-> d] : k \in K, d \in {0, 1, 7, NotInt}}
    \cup {[op |-> "COPY", k |-> 1, dst |-> t, db |-> d, replace |-> r] : t \in K, d \in {0, 1, 7}, r \in BOOLEAN}
    \cup {[op |-> "SWAPDB", db |-> d, other |-> 1] : d \in {0, 1, 7}}
    \cup {[op |-> "FLUSHDB"], [op |-> "FLUSHALL"], [op |-> "DBSIZE"], [op |-> "SETEX", k |-> 1, v |-> <<48>>, x |-> Ex("px", 1)]}

-----------------------------------------------------------------------------
With(k, e) == [EmptyDb EXCEPT !.data = Put(<<>>, k, e)]
AndAlso(db, k, e) == InsertKey(db, k, e)
Only(db) == [i \in Dbs |-> IF i = 0 THEN db ELSE EmptyDb]

\* The commands of a type, at the keys of that type or at key 3, which holds
\* a value of another one.
Types == {"string", "bit", "list", "set", "hash", "zset", "stream", "key"}
MCSuites == Types \X {1, 3}
MCZsets == {<<"zset", 1>>}

\* Strings of bits fill the memory, under the policy that refuses.
MCPolicyOf ==
    [s \in MCSuites |-> CASE s[1] = "bit" -> "noeviction" [] s[1] = "key" -> "allkeys" [] OTHER -> "volatile"]

CmdsOf(t) ==
    CASE t = "string" -> StringCmds [] t = "bit" -> BitCmds [] t = "list" -> ListCmds
      [] t = "set" -> SetCmds [] t = "hash" -> HashCmds [] t = "zset" -> ZsetCmds
      [] t = "stream" -> StreamCmds [] t = "key" -> KeyCmds

KeyOf(c) == IF "k" \in DOMAIN c /\ c.k = 3 THEN 3 ELSE 1
MCCommandsOf == [s \in MCSuites |-> {c \in CmdsOf(s[1]) : KeyOf(c) = s[2]}]

\* Key 3 holds a value of another type; keys that expire at 2 give the clock
\* something to do.
MCStartOf ==
    [s \in MCSuites |->
       CASE s[1] \in {"string", "bit"} -> {Only(With(3, ListValue(<<1>>, 0)))}
         [] s[1] = "list" -> {Only(AndAlso(With(3, SetValue({1}, 0)), 1, ListValue(<<2, 1>>, 2)))}
         [] s[1] = "set" -> {Only(AndAlso(With(3, ListValue(<<1>>, 0)), 1, SetValue({1, 2}, 2)))}
         [] s[1] = "hash" -> {Only(AndAlso(With(3, ListValue(<<1>>, 0)), 1, HashValue(<<Field(<<49>>, 0)>>, 2)))}
         [] s[1] = "zset" -> {Only(AndAlso(AndAlso(With(3, ListValue(<<1>>, 0)), 4, SetValue({1, 2}, 0)),
                                       1, ZsetValue(ZInsert(EmptyZset, 1, 1), 2)))}
         [] s[1] = "stream" -> {Only(AndAlso(With(3, ListValue(<<1>>, 0)), 1,
                                 StreamValue(<<[id |-> I1, fields |-> 0]>>, a))) : a \in {0, 2}}
         [] s[1] = "key" -> {Only(AndAlso(AndAlso(With(1, StringValue(<<49>>, 0)), 2, ListValue(<<2, 1>>, 0)),
                                       3, SetValue({1, 100}, 0)))}]
=============================================================================
