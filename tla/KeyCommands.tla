---------------------------- MODULE KeyCommands -----------------------------
(***************************************************************************)
(* The handlers of the commands on keys of any type (cmd_key.rs,           *)
(* cmd_key_meta.rs, cmd_generic.rs) and of the commands that empty or swap *)
(* whole databases (cmd_server_maintenance.rs).  Handlers of more than one *)
(* database take the function dbs and the index sel of the client's own.   *)
(***************************************************************************)
EXTENDS Keyspace

LOCAL SyntaxError == Err("syntax error")

Persist(db0, c, now) ==
    LET db == PurgeExpiredKey(db0, c.k, now)
    IN Ret(SetKeyExpiry(db, c.k, 0), Num(IF Deadline(db, c.k) > 0 THEN 1 ELSE 0))

\* DEL, UNLINK: one key after the other, so a key named twice counts once.
DeleteLike(db0, c, now) ==
    LET Step(acc, k) ==
            LET db == PurgeExpiredKey(acc.db, k, now)
            IN [db |-> RemoveKey(db, k), n |-> acc.n + (IF Has(db, k) THEN 1 ELSE 0)]
        out == FoldLeft(Step, [db |-> db0, n |-> 0], c.ks)
    IN Ret(out.db, Num(out.n))

\* EXISTS, TOUCH: a key named twice counts twice.
Exists(db0, c, now) ==
    LET db == PurgeAll(db0, c.ks, now)
    IN Ret(db, Num(Cardinality({i \in DOMAIN c.ks : Has(db, c.ks[i])})))

\* RENAME and, with c.nx, RENAMENX.
RenameWithMode(db0, c, now) ==
    LET source == PurgeExpiredKey(db0, c.k, now)
        db == PurgeExpiredKey(source, c.dst, now)
        Done(n) == IF c.nx THEN Num(n) ELSE Ok
    IN IF ~Has(source, c.k) THEN Ret(source, Err("no such key"))
       ELSE IF c.k = c.dst THEN Ret(source, Done(0))
       ELSE IF c.nx /\ Has(db, c.dst) THEN Ret(db, Num(0))
       ELSE Ret(RenameKey(db, c.k, c.dst), Done(1))

\* EXPIRE, PEXPIRE, EXPIREAT, PEXPIREAT: a deadline that has passed deletes.
ExpireWithMode(db0, c, now) ==
    LET db == PurgeExpiredKey(db0, c.k, now)
        target == ExpireTargetMs(c.x, now)
    IN IF ~IsInt(c.x.n) THEN Ret(db0, NotAnInteger)
       ELSE IF ~Has(db, c.k) \/ ~ExpireConditionMatches(c.cond, Deadline(db, c.k), target)
            THEN Ret(db, Num(0))
       ELSE Ret(IF target <= now THEN RemoveKey(db, c.k) ELSE SetKeyExpiry(db, c.k, target), Num(1))

\* -2 for no key, -1 for no deadline.
DeadlineReply(db, k, F(_)) ==
    Num(IF ~Has(db, k) THEN -2 ELSE IF Deadline(db, k) = 0 THEN -1 ELSE F(Deadline(db, k)))

\* TTL and, with c.ms, PTTL.
TtlWithMode(db0, c, now) ==
    LET db == PurgeExpiredKey(db0, c.k, now)
    IN Ret(db, DeadlineReply(db, c.k, LAMBDA at : IF c.ms THEN at - now ELSE (at - now) \div Sec))

ExpiretimeWithMode(db0, c, now) ==
    LET db == PurgeExpiredKey(db0, c.k, now)
    IN Ret(db, DeadlineReply(db, c.k, LAMBDA at : IF c.ms THEN at ELSE at \div Sec))

-----------------------------------------------------------------------------
(* cmd_key_meta.rs *)

\* c.type: the TYPE filter, "any" for none.  TYPE stream is not one of the
\* filters the code knows, and matches nothing.
Scan(db0, c, now) ==
    LET db == PurgeExpiredKeys(db0, now)
        OfType(k) == c.type = "any" \/ (c.type # "stream" /\ db.data[k].t = c.type)
    IN IF ScanRefused(c) THEN Ret(db0, Err("invalid cursor or count"))
       ELSE Ret(db, ScanReply(ScanFrom(Members(DOMAIN db.data), c.cursor, c.count,
                                       LAMBDA k : k \in c.pat /\ OfType(k))))

\* OBJECT ENCODING: an integer string is reported raw, and so is a stream.
Encoding(e) ==
    CASE e.t = "hash" -> "hashtable"
      [] e.t = "list" -> "quicklist"
      [] e.t = "set" -> e.enc
      [] e.t = "zset" -> "skiplist"
      [] OTHER -> "raw"

Object(db0, c, now) ==
    LET db == PurgeExpiredKey(db0, c.k, now)
    IN Ret(db, IF ~Has(db, c.k) THEN Nil
               ELSE CASE c.sub = "ENCODING" -> Bulk(Encoding(db.data[c.k]))
                      [] c.sub = "REFCOUNT" -> Num(1)
                      [] c.sub = "IDLETIME" -> Num(0)
                      [] c.sub = "FREQ" -> Err("LFU not selected"))

\* c.dst = 0: no STORE; c.count < 0: no limit.  BY and GET are read and ignored.
Sort(db0, c, now) ==
    LET db == PurgeExpiredKey(db0, c.k, now)
        values == IF TypeIs(db, c.k, "list") THEN db.data[c.k].list
                  ELSE Members(db.data[c.k].set)
        ascending == SortSeq(values, LAMBDA a, b : a < b)
        ordered == IF c.desc THEN Reverse(ascending) ELSE ascending
        from == Min({AtLeast0(c.start), Len(ordered)})
        to == IF c.count < 0 THEN Len(ordered) ELSE Min({from + c.count, Len(ordered)})
        sorted == SubSeq(ordered, from + 1, to)
    IN IF ~IsInt(c.start) \/ ~IsInt(c.count) THEN Ret(db0, NotAnInteger)
       ELSE IF ~Has(db, c.k)
            THEN IF c.dst # 0 THEN Ret(RemoveKey(db, c.dst), Num(0)) ELSE Ret(db, Arr(<<>>))
       ELSE IF db.data[c.k].t \notin {"list", "set"} THEN Ret(db, WrongType)
       ELSE IF ~c.alpha /\ \E i \in DOMAIN values : ~IsIntMember(values[i])
            THEN Ret(db, Err("not a double"))
       ELSE IF c.dst = 0 THEN Ret(db, Elems(sorted))
       ELSE Ret(IF sorted = <<>> THEN RemoveKey(db, c.dst)
                ELSE InsertKey(db, c.dst, ListValue(sorted, 0)), Num(Len(sorted)))

-----------------------------------------------------------------------------
(* cmd_generic.rs *)

\* The map's own order decides: c.seed picks among the keys that are left.
Randomkey(db0, c, now) ==
    LET db == PurgeExpiredKeys(db0, now)
        ks == Members(DOMAIN db.data)
    IN Ret(db, IF ks = <<>> THEN Nil ELSE KeyReply(ks[(c.seed % Len(ks)) + 1]))

Type(db0, c, now) ==
    LET db == PurgeExpiredKey(db0, c.k, now)
    IN Ret(db, Bulk(IF Has(db, c.k) THEN db.data[c.k].t ELSE "none"))

Keys(db0, c, now) ==
    LET db == PurgeExpiredKeys(db0, now)
    IN Ret(db, Arr([i \in DOMAIN Members(DOMAIN db.data \cap c.pat) |->
                       KeyReply(Members(DOMAIN db.data \cap c.pat)[i])]))

\* The digest of a value stands for a function that tells values apart.
Digest(s) == [digest |-> s]

\* The condition is read after the key: what is wrong with it goes unnoticed
\* while the key is missing or of another type.
Delex(db0, c, now) ==
    LET db == PurgeExpiredKey(db0, c.k, now)
        Meets(s) == CASE c.cond = "none" -> TRUE
                      [] c.cond = "IFEQ" -> s = c.v
                      [] c.cond = "IFNE" -> s # c.v
                      [] c.cond = "IFDEQ" -> Digest(s) = Digest(c.v)
                      [] c.cond = "IFDNE" -> Digest(s) # Digest(c.v)
    IN WithValue(db, c.k, "string", Num(0), LAMBDA s :
         IF c.cond = "bad" THEN Ret(db, SyntaxError)
         ELSE IF Meets(s) THEN Ret(RemoveKey(db, c.k), Num(1)) ELSE Ret(db, Num(0)))

Dbsize(db0, c, now) ==
    LET db == PurgeExpiredKeys(db0, now) IN Ret(db, Num(Cardinality(DOMAIN db.data)))

DigestCommand(db0, c, now) ==
    LET db == PurgeExpiredKey(db0, c.k, now)
    IN ReadValue(db, c.k, "string", Nil, LAMBDA s : Digest(s))

KeyOps == {"PERSIST", "DEL", "EXISTS", "RENAME", "EXPIRE", "TTL", "EXPIRETIME", "SCAN", "OBJECT",
           "SORT", "RANDOMKEY", "TYPE", "KEYS", "DELEX", "DIGEST", "DBSIZE"}

KeyCommand(db, c, now) ==
    CASE c.op = "PERSIST" -> Persist(db, c, now)
      [] c.op = "DEL" -> DeleteLike(db, c, now)
      [] c.op = "EXISTS" -> Exists(db, c, now)
      [] c.op = "RENAME" -> RenameWithMode(db, c, now)
      [] c.op = "EXPIRE" -> ExpireWithMode(db, c, now)
      [] c.op = "TTL" -> TtlWithMode(db, c, now)
      [] c.op = "EXPIRETIME" -> ExpiretimeWithMode(db, c, now)
      [] c.op = "SCAN" -> Scan(db, c, now)
      [] c.op = "OBJECT" -> Object(db, c, now)
      [] c.op = "SORT" -> Sort(db, c, now)
      [] c.op = "RANDOMKEY" -> Randomkey(db, c, now)
      [] c.op = "TYPE" -> Type(db, c, now)
      [] c.op = "KEYS" -> Keys(db, c, now)
      [] c.op = "DELEX" -> Delex(db, c, now)
      [] c.op = "DIGEST" -> DigestCommand(db, c, now)
      [] c.op = "DBSIZE" -> Dbsize(db, c, now)

-----------------------------------------------------------------------------
(* Two databases at once.  A handler returns [dbs, r]. *)

RetAll(dbs, r) == [dbs |-> dbs, r |-> r]
OutOfRange == Err("DB index is out of range")
SameObject == Err("source and destination objects are the same")

\* The value keeps its deadline in the other database.
MoveKey(dbs, sel, c, now) ==
    LET source == [dbs EXCEPT ![sel] = PurgeExpiredKey(@, c.k, now)]
        both == [source EXCEPT ![c.db] = PurgeExpiredKey(@, c.k, now)]
    IN IF ~IsInt(c.db) THEN RetAll(dbs, NotAnInteger)
       ELSE IF c.db \notin DOMAIN dbs THEN RetAll(dbs, OutOfRange)
       ELSE IF c.db = sel THEN RetAll(dbs, SameObject)
       ELSE IF ~Has(source[sel], c.k) THEN RetAll(source, Num(0))
       ELSE IF Has(both[c.db], c.k) THEN RetAll(both, Num(0))
       ELSE RetAll([both EXCEPT ![sel] = RemoveKey(@, c.k),
                                ![c.db] = InsertKey(@, c.k, both[sel].data[c.k])], Num(1))

CopyKey(dbs, sel, c, now) ==
    LET source == [dbs EXCEPT ![sel] = PurgeExpiredKey(@, c.k, now)]
        both == [source EXCEPT ![c.db] = PurgeExpiredKey(@, c.dst, now)]
    IN IF ~IsInt(c.db) THEN RetAll(dbs, NotAnInteger)
       ELSE IF c.db \notin DOMAIN dbs THEN RetAll(dbs, OutOfRange)
       ELSE IF c.db = sel /\ c.k = c.dst THEN RetAll(dbs, SameObject)
       ELSE IF ~Has(source[sel], c.k) THEN RetAll(source, Num(0))
       ELSE IF Has(both[c.db], c.dst) /\ ~c.replace THEN RetAll(both, Num(0))
       ELSE RetAll([both EXCEPT ![c.db] = InsertKey(@, c.dst, source[sel].data[c.k])], Num(1))

Swapdb(dbs, c) ==
    IF ~IsInt(c.db) \/ ~IsInt(c.other) THEN RetAll(dbs, NotAnInteger)
    ELSE IF c.db \notin DOMAIN dbs \/ c.other \notin DOMAIN dbs THEN RetAll(dbs, OutOfRange)
    ELSE RetAll([dbs EXCEPT ![c.db] = dbs[c.other], ![c.other] = dbs[c.db]], Ok)

Flushdb(dbs, sel) == RetAll([dbs EXCEPT ![sel] = EmptyDb], Ok)
Flushall(dbs) == RetAll([i \in DOMAIN dbs |-> EmptyDb], Ok)

=============================================================================
