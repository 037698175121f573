--------------------------- MODULE StringCommands ---------------------------
(***************************************************************************)
(* The handlers of the string and bitmap commands (cmd_string.rs,          *)
(* cmd_string_access.rs, cmd_string_numeric.rs, cmd_generic_string.rs,     *)
(* cmd_bitmap.rs, cmd_bitmap_bitfield.rs).                                 *)
(*                                                                         *)
(* Each is an operator of the database, the command and the clock.  A      *)
(* command is the record of its arguments; one with a wrong number of      *)
(* arguments or an unknown option is answered before the database is       *)
(* looked at and is left out.  Floating-point numbers are whole ones.      *)
(***************************************************************************)
EXTENDS Keyspace

SyntaxError == Err("syntax")
InvalidExpire == Err("invalid expire time")
TooLong == Err("string exceeds maximum allowed size")


StringOr(db, k, default) == PayloadOr(db, k, "string", default)
StringReply(db, k) == IF TypeIs(db, k, "string") THEN Bulk(db.data[k].string) ELSE Nil

\* The pairs of MSET and its variants, written in order.
InsertPairs(db, kvs, at) ==
    FoldLeft(LAMBDA d, kv : InsertKey(d, kv[1], StringValue(kv[2], at)), db, kvs)

-----------------------------------------------------------------------------
(* cmd_string.rs *)

Append1(db0, c, now) ==
    LET db == PurgeExpiredKey(db0, c.k, now)
    IN MutateString(db, c.k, LAMBDA s :
         IF Len(s) + Len(c.v) > StringMax THEN [s |-> s, modified |-> FALSE, r |-> TooLong]
         ELSE [s |-> s \o c.v, modified |-> TRUE, r |-> Num(Len(s) + Len(c.v))])

Strlen(db0, c, now) ==
    LET db == PurgeExpiredKey(db0, c.k, now)
    IN ReadValue(db, c.k, "string", Num(0), LAMBDA s : Num(Len(s)))

Getrange(db0, c, now) ==
    LET db == PurgeExpiredKey(db0, c.k, now)
    IN IF ~IsInt(c.start) \/ ~IsInt(c.end) THEN Ret(db0, NotAnInteger)
       ELSE ReadValue(db, c.k, "string", Bulk(<<>>),
              LAMBDA s : Bulk(Slice(s, NormalizeStringRange(Len(s), c.start, c.end))))

\* Bytes 0 fill the gap in front of the offset; an empty value writes nothing.
Setrange(db0, c, now) ==
    LET db == PurgeExpiredKey(db0, c.k, now)
        end == c.n + Len(c.v)
        Overwrite(s) == [i \in 1..Max({Len(s), end}) |->
                           IF i > c.n /\ i <= end THEN c.v[i - c.n]
                           ELSE IF i <= Len(s) THEN s[i] ELSE 0]
    IN IF ~IsInt(c.n) THEN Ret(db0, NotAnInteger)
       ELSE IF c.n < 0 THEN Ret(db0, Err("offset is out of range"))
       ELSE IF c.v # <<>> /\ end > StringMax THEN Ret(db0, TooLong)
       ELSE IF c.v = <<>> THEN ReadValue(db, c.k, "string", Num(0), LAMBDA s : Num(Len(s)))
       ELSE MutateString(db, c.k, LAMBDA s :
              [s |-> Overwrite(s), modified |-> TRUE, r |-> Num(Len(Overwrite(s)))])

Getset(db0, c, now) ==
    LET db == PurgeExpiredKey(db0, c.k, now)
    IN IF Has(db, c.k) /\ db.data[c.k].t # "string" THEN Ret(db, WrongType)
       ELSE Ret(InsertKey(db, c.k, StringValue(c.v, 0)), StringReply(db, c.k))

Setnx(db0, c, now) ==
    LET db == PurgeExpiredKey(db0, c.k, now)
    IN IF Has(db, c.k) THEN Ret(db, Num(0))
       ELSE Ret(InsertKey(db, c.k, StringValue(c.v, 0)), Num(1))

Mget(db0, c, now) ==
    LET db == PurgeAll(db0, c.ks, now)
    IN Ret(db, Arr([i \in DOMAIN c.ks |-> StringReply(db, c.ks[i])]))

Mset(db, c) == Ret(InsertPairs(db, c.kvs, 0), Ok)

\* Keys are purged one by one up to the first that exists.
Msetnx(db0, c, now) ==
    LET purged == PurgeAll(db0, [i \in DOMAIN c.kvs |-> c.kvs[i][1]], now)
        taken == {i \in DOMAIN c.kvs : Has(purged, c.kvs[i][1])}
    IN IF taken # {}
       THEN Ret(PurgeAll(db0, [i \in 1..Min(taken) |-> c.kvs[i][1]], now), Num(0))
       ELSE Ret(InsertPairs(purged, c.kvs, 0), Num(1))

-----------------------------------------------------------------------------
(* cmd_string_access.rs *)

\* A value whose deadline has passed already is not stored: the key is removed.
StoreUntil(db, k, v, at, now) ==
    IF at # 0 /\ at <= now THEN RemoveKey(db, k) ELSE InsertKey(db, k, StringValue(v, at))

MutSet(db0, c, now) ==
    LET old == IF Has(db0, c.k) THEN db0.data[c.k].at ELSE 0
    IN IF (c.nx /\ Has(db0, c.k)) \/ (c.xx /\ ~Has(db0, c.k)) THEN Ret(db0, Nil)
       ELSE Ret(StoreUntil(db0, c.k, c.v, IF c.x.kind = "keep" THEN old
                                          ELSE IF c.x.kind = "none" THEN 0
                                          ELSE ExpireTargetMs(c.x, now), now), Ok)

Set(db0, c, now) ==
    LET db == PurgeExpiredKey(db0, c.k, now)
        timed == c.x.kind \in {"ex", "px", "exat", "pxat"}
        at == CASE timed -> ExpireTargetMs(c.x, now)
                [] c.x.kind = "keep" -> Deadline(db, c.k)
                [] OTHER -> 0
    IN IF timed /\ ~IsInt(c.x.n) THEN Ret(db0, NotAnInteger)
       ELSE IF timed /\ c.x.n <= 0 THEN Ret(db0, InvalidExpire)
       ELSE IF c.nx /\ c.xx THEN Ret(db0, SyntaxError)
       ELSE IF c.get /\ Has(db, c.k) /\ db.data[c.k].t # "string" THEN Ret(db, WrongType)
       ELSE IF (c.nx /\ Has(db, c.k)) \/ (c.xx /\ ~Has(db, c.k))
       THEN Ret(db, IF c.get THEN StringReply(db, c.k) ELSE Nil)
       ELSE Ret(StoreUntil(db, c.k, c.v, at, now), IF c.get THEN StringReply(db, c.k) ELSE Ok)

Get(db0, c, now) ==
    LET db == PurgeExpiredKey(db0, c.k, now)
    IN ReadValue(db, c.k, "string", Nil, LAMBDA s : Bulk(s))

\* SETEX and PSETEX.
SetexWithMode(db0, c, now) ==
    LET at == CommandExpireAtMs(c.x, now)
    IN IF ~IsInt(c.x.n) THEN Ret(db0, NotAnInteger)
       ELSE IF at <= 0 THEN Ret(db0, InvalidExpire)
       ELSE Ret(StoreUntil(PurgeExpiredKey(db0, c.k, now), c.k, c.v, at, now), Ok)

Getdel(db0, c, now) ==
    LET db == PurgeExpiredKey(db0, c.k, now)
    IN WithValue(db, c.k, "string", Nil, LAMBDA s : Ret(RemoveKey(db, c.k), Bulk(s)))

Getex(db0, c, now) ==
    LET db == PurgeExpiredKey(db0, c.k, now)
        timed == c.x.kind \in {"ex", "px", "exat", "pxat"}
        at == CommandExpireAtMs(c.x, now)
    IN IF timed /\ ~IsInt(c.x.n) THEN Ret(db0, NotAnInteger)
       ELSE IF timed /\ at <= 0 THEN Ret(db0, InvalidExpire)
       ELSE WithValue(db, c.k, "string", Nil, LAMBDA s :
              Ret(CASE c.x.kind = "none" -> db
                    [] c.x.kind = "persist" -> SetKeyExpiry(db, c.k, 0)
                    [] timed /\ at <= now -> RemoveKey(db, c.k)
                    [] OTHER -> SetKeyExpiry(db, c.k, at), Bulk(s)))

-----------------------------------------------------------------------------
(* cmd_string_numeric.rs *)

\* INCR, DECR, INCRBY, DECRBY: the integer encoding and the text of a value
\* count alike; the deadline is kept.
IncrDecrWithDelta(db0, k, delta, now) ==
    LET db == PurgeExpiredKey(db0, k, now)
        current == IF Has(db, k) THEN ParseI64(db.data[k].string) ELSE 0
    IN IF Has(db, k) /\ db.data[k].t # "string" THEN Ret(db, WrongType)
       ELSE IF ~IsInt(current) THEN Ret(db, NotAnInteger)
       ELSE IF ~InI64(current + delta) THEN Ret(db, Err("would overflow"))
       ELSE Ret(InsertKey(db, k, StringInt(current + delta, Deadline(db, k))), Num(current + delta))

Incrby(db, c, now) ==
    IF ~IsInt(c.n) THEN Ret(db, NotAnInteger) ELSE IncrDecrWithDelta(db, c.k, c.n, now)

Decrby(db, c, now) ==
    IF ~IsInt(c.n) THEN Ret(db, NotAnInteger)
    ELSE IF c.n = IMin THEN Ret(db, Err("decrement would overflow"))
    ELSE IncrDecrWithDelta(db, c.k, -c.n, now)

Incrbyfloat(db0, c, now) ==
    LET db == PurgeExpiredKey(db0, c.k, now)
        base == IF Has(db, c.k) THEN ParseF64(db.data[c.k].string) ELSE 0
        encoded == FormatF64(base + c.n)
    IN IF ~IsInt(c.n) THEN Ret(db0, Err("not a valid float"))
       ELSE IF Has(db, c.k) /\ db.data[c.k].t # "string" THEN Ret(db, WrongType)
       ELSE IF ~IsInt(base) THEN Ret(db, Err("not a valid float"))
       ELSE IF Infinite \in {c.n, base} THEN Ret(db, Err("NaN or Infinity"))
       ELSE Ret(InsertKey(db, c.k, StringValue(encoded, Deadline(db, c.k))), Bulk(encoded))

-----------------------------------------------------------------------------
(* cmd_generic_string.rs *)

\* The table of lengths, filled row by row, and the walk back through it that
\* prefers a step up where both ways are as good.
LongestCommonSubsequence(a, b) ==
    LET dp[i \in 0..Len(a), j \in 0..Len(b)] ==
          IF i = 0 \/ j = 0 THEN 0
          ELSE IF a[i] = b[j] THEN dp[i - 1, j - 1] + 1
          ELSE Max({dp[i - 1, j], dp[i, j - 1]})
        walk[i \in 0..Len(a), j \in 0..Len(b)] ==
          IF i = 0 \/ j = 0 THEN <<>>
          ELSE IF a[i] = b[j] THEN Append(walk[i - 1, j - 1], a[i])
          ELSE IF dp[i - 1, j] >= dp[i, j - 1] THEN walk[i - 1, j] ELSE walk[i, j - 1]
    IN walk[Len(a), Len(b)]

\* LCS_MAX_DP_CELLS
LcsMaxDpCells == 16000000

Lcs(db0, c, now) ==
    LET db == PurgeAll(db0, c.ks, now)
        left == StringOr(db, c.ks[1], <<>>)
        right == StringOr(db, c.ks[2], <<>>)
        lcs == LongestCommonSubsequence(left, right)
    IN IF \E i \in 1..2 : Has(db, c.ks[i]) /\ db.data[c.ks[i]].t # "string"
       THEN Ret(db, WrongType)
       ELSE IF Len(left) * Len(right) > LcsMaxDpCells THEN Ret(db, Err("input is too large"))
       ELSE Ret(db, IF c.len THEN Num(Len(lcs)) ELSE Bulk(lcs))

Msetex(db0, c, now) ==
    LET ks == [i \in DOMAIN c.kvs |-> c.kvs[i][1]]
        db == PurgeAll(db0, ks, now)
        timed == c.x.kind \in {"ex", "px"}
        at == IF timed THEN ExpireTargetMs(c.x, now) ELSE 0
    IN IF timed /\ ~IsInt(c.x.n) THEN Ret(db0, NotAnInteger)
       ELSE IF timed /\ c.x.n <= 0 THEN Ret(db0, InvalidExpire)
       ELSE IF c.nx /\ c.xx THEN Ret(db0, SyntaxError)
       ELSE IF \/ c.nx /\ \E i \in DOMAIN ks : Has(db, ks[i])
               \/ c.xx /\ \E i \in DOMAIN ks : ~Has(db, ks[i])
       THEN Ret(db, Num(0))
       ELSE Ret(InsertPairs(db, c.kvs, at), Num(1))

-----------------------------------------------------------------------------
(* cmd_bitmap.rs: bit 0 is the most significant bit of the first byte.      *)

BitOf(byte, i) == (byte \div 2^(7 - i)) % 2
GetBit(s, offset) ==
    IF offset \div 8 >= Len(s) THEN 0 ELSE BitOf(s[offset \div 8 + 1], offset % 8)
ByteFrom(Bit(_)) == FoldLeft(LAMBDA acc, i : 2 * acc + Bit(i), 0, <<0, 1, 2, 3, 4, 5, 6, 7>>)

\* The value grows with zero bytes up to the one that holds the offset.
SetBit(s, offset, value) ==
    LET grown == [i \in 1..Max({Len(s), offset \div 8 + 1}) |-> IF i <= Len(s) THEN s[i] ELSE 0]
    IN [grown EXCEPT ![offset \div 8 + 1] =
          LET byte == @ IN ByteFrom(LAMBDA i : IF i = offset % 8 THEN value ELSE BitOf(byte, i))]

BitOffsetError == Err("bit offset is not an integer or out of range")

Setbit(db0, c, now) ==
    LET db == PurgeExpiredKey(db0, c.k, now)
    IN IF ~IsInt(c.n) \/ c.n < 0 \/ c.n >= 8 * StringMax THEN Ret(db0, BitOffsetError)
       ELSE IF c.bit \notin {0, 1} THEN Ret(db0, Err("bit is not an integer or out of range"))
       ELSE MutateString(db, c.k, LAMBDA s :
              [s |-> SetBit(s, c.n, c.bit), modified |-> TRUE, r |-> Num(GetBit(s, c.n))])

Getbit(db0, c, now) ==
    LET db == PurgeExpiredKey(db0, c.k, now)
    IN IF ~IsInt(c.n) \/ c.n < 0 THEN Ret(db0, BitOffsetError)
       ELSE ReadValue(db, c.k, "string", Num(0), LAMBDA s : Num(GetBit(s, c.n)))

BitsIn(s, range) == IF range = NoRange THEN 0
                    ELSE Cardinality({p \in range[1]..range[2] : GetBit(s, p) = 1})
ByteRangeAsBits(range) == IF range = NoRange THEN NoRange
                          ELSE <<8 * range[1], 8 * range[2] + 7>>

\* c.unit: all (no range given), byte or bit.
Bitcount(db0, c, now) ==
    LET db == PurgeExpiredKey(db0, c.k, now)
    IN ReadValue(db, c.k, "string", Num(0), LAMBDA s :
         IF s = <<>> THEN Num(0)
         ELSE IF c.unit = "all" THEN Num(BitsIn(s, <<0, 8 * Len(s) - 1>>))
         ELSE IF ~IsInt(c.start) \/ ~IsInt(c.end) THEN NotAnInteger
         ELSE IF c.unit = "bit"
         THEN Num(BitsIn(s, NormalizeStringRange(8 * Len(s), c.start, c.end)))
         ELSE Num(BitsIn(s, ByteRangeAsBits(NormalizeStringRange(Len(s), c.start, c.end)))))

\* c.unit: byte or bit; c.hasEnd: an end was given (a unit needs one).
Bitpos(db0, c, now) ==
    LET db == PurgeExpiredKey(db0, c.k, now)
        None == Num(IF c.bit = 0 THEN 0 ELSE -1)
        Search(s) ==
            LET units == IF c.unit = "bit" THEN 8 * Len(s) ELSE Len(s)
                clamped == ClampIndexRange(units, c.start, IF c.hasEnd THEN c.end ELSE units - 1)
                bits == IF c.unit = "bit" THEN clamped ELSE ByteRangeAsBits(clamped)
                found == {p \in bits[1]..bits[2] : GetBit(s, p) = c.bit}
            IN IF clamped = NoRange THEN Num(-1)
               ELSE IF found # {} THEN Num(Min(found))
               ELSE IF c.unit = "byte" /\ c.bit = 0 /\ ~c.hasEnd THEN Num(bits[2] + 1)
               ELSE Num(-1)
    IN IF ~IsInt(c.bit) THEN Ret(db0, NotAnInteger)
       ELSE IF c.bit \notin {0, 1} THEN Ret(db0, Err("bit must be 0 or 1"))
       ELSE ReadValue(db, c.k, "string", None, LAMBDA s :
              IF s = <<>> THEN None
              ELSE IF ~IsInt(c.start) \/ (c.hasEnd /\ ~IsInt(c.end)) THEN NotAnInteger
              ELSE Search(s))

\* Sources shorter than the longest count as followed by zero bytes; an empty
\* result is stored like any other.
Bitop(db0, c, now) ==
    LET bad == {i \in DOMAIN c.ks : LET d == PurgeExpiredKey(db0, c.ks[i], now)
                                    IN Has(d, c.ks[i]) /\ d.data[c.ks[i]].t # "string"}
        db == PurgeAll(db0, c.ks, now)
        sources == [i \in DOMAIN c.ks |-> StringOr(db, c.ks[i], <<>>)]
        len == Max({Len(sources[i]) : i \in DOMAIN sources})
        bits(p) == {<<i, GetBit(sources[i], p)>> : i \in DOMAIN sources}
        ones(p) == Cardinality({x \in bits(p) : x[2] = 1})
        bit(p) == CASE c.bitop = "and" -> IF ones(p) = Len(sources) THEN 1 ELSE 0
                    [] c.bitop = "or" -> IF ones(p) > 0 THEN 1 ELSE 0
                    [] c.bitop = "xor" -> ones(p) % 2
                    [] c.bitop = "not" -> 1 - ones(p)
        result == [i \in 1..len |-> ByteFrom(LAMBDA b : bit(8 * (i - 1) + b))]
    IN IF c.bitop = "not" /\ Len(c.ks) # 1 THEN Ret(db0, Err("BITOP NOT requires one key"))
       ELSE IF bad # {}
       THEN Ret(PurgeAll(db0, SubSeq(c.ks, 1, Min(bad)), now), WrongType)
       ELSE IF c.bitop \notin {"and", "or", "xor", "not"} THEN Ret(db, Err("BITOP requires"))
       ELSE Ret(InsertKey(PurgeExpiredKey(db, c.dst, now), c.dst, StringValue(result, 0)), Num(len))

-----------------------------------------------------------------------------
(* cmd_bitmap_bitfield.rs.  A field is [bits, signed, offset]; a subcommand   *)
(* of BITFIELD is [sub, field, n, overflow].                                  *)

\* parse_bitfield_encoding and parse_bitfield_offset (u64 is no encoding).
FieldOk(f) ==
    /\ f.bits >= 1 /\ f.bits <= (IF f.signed THEN IBits ELSE IBits - 1)
    /\ f.offset >= 0 /\ f.offset + f.bits <= 8 * StringMax

\* read_bits, with the sign extended.
ReadBits(s, f) ==
    LET raw == FoldLeft(LAMBDA acc, i : 2 * acc + GetBit(s, f.offset + i - 1), 0,
                        [i \in 1..f.bits |-> i])
    IN IF f.signed /\ raw >= 2^(f.bits - 1) THEN raw - 2^f.bits ELSE raw

\* write_bits: the low bits of the two's complement of the value.
WriteBits(s, f, value) ==
    LET raw == value % 2^f.bits
    IN FoldLeft(LAMBDA d, i : SetBit(d, f.offset + i - 1, (raw \div 2^(f.bits - i)) % 2),
                s, [i \in 1..f.bits |-> i])

\* apply_overflow; NotInt stands for the None of OVERFLOW FAIL.
ApplyOverflow(value, f, overflow) ==
    LET min == IF f.signed THEN -(2^(f.bits - 1)) ELSE 0
        max == IF f.signed THEN 2^(f.bits - 1) - 1 ELSE 2^f.bits - 1
    IN IF value >= min /\ value <= max THEN value
       ELSE CASE overflow = "fail" -> NotInt
              [] overflow = "sat" -> IF value < min THEN min ELSE max
              [] overflow = "wrap" -> ((value - min) % 2^f.bits) + min

\* One subcommand on [s, modified, out].
BitfieldStep(acc, sub) ==
    LET old == ReadBits(acc.s, sub.field)
        asked == IF sub.sub = "set" THEN sub.n ELSE Wrap(old + sub.n)
        new == ApplyOverflow(asked, sub.field, sub.overflow)
    IN IF sub.sub = "get" THEN [acc EXCEPT !.out = Append(@, Num(old))]
       ELSE IF ~IsInt(new) THEN [acc EXCEPT !.out = Append(@, Nil)]
       ELSE [s |-> WriteBits(acc.s, sub.field, new), modified |-> TRUE,
             out |-> Append(acc.out, Num(IF sub.sub = "set" THEN old ELSE new))]

Bitfield(db0, c, now) ==
    LET db == PurgeExpiredKey(db0, c.k, now)
        Run(s) == FoldLeft(BitfieldStep, [s |-> s, modified |-> FALSE, out |-> <<>>], c.subs)
    IN IF \E i \in DOMAIN c.subs : ~FieldOk(c.subs[i].field) \/ ~IsInt(c.subs[i].n)
       THEN Ret(db0, Err("invalid bitfield type, offset or value"))
       ELSE MutateString(db, c.k, LAMBDA s :
              [s |-> Run(s).s, modified |-> Run(s).modified, r |-> Arr(Run(s).out)])

BitfieldRo(db0, c, now) ==
    LET db == PurgeExpiredKey(db0, c.k, now)
        s == StringOr(db, c.k, <<>>)
    IN IF \E i \in DOMAIN c.subs : c.subs[i].sub # "get"
       THEN Ret(db0, Err("BITFIELD_RO only supports the GET subcommand"))
       ELSE IF \E i \in DOMAIN c.subs : ~FieldOk(c.subs[i].field)
       THEN Ret(db0, Err("invalid bitfield type, offset or value"))
       ELSE IF Has(db, c.k) /\ db.data[c.k].t # "string" THEN Ret(db, WrongType)
       ELSE Ret(db, Arr([i \in DOMAIN c.subs |-> Num(ReadBits(s, c.subs[i].field))]))

-----------------------------------------------------------------------------
(* The commands of this module by name. *)

StringOps == {"APPEND", "STRLEN", "GETRANGE", "SETRANGE", "GETSET", "SETNX", "MGET", "MSET",
    "MSETNX", "SET", "GET", "SETEX", "GETDEL", "GETEX", "INCRBY", "DECRBY", "INCRBYFLOAT", "LCS",
    "MSETEX", "SETBIT", "GETBIT", "BITCOUNT", "BITPOS", "BITOP", "BITFIELD", "BITFIELD_RO"}

StringCommand(db, c, now) ==
    CASE c.op = "APPEND" -> Append1(db, c, now)
      [] c.op = "STRLEN" -> Strlen(db, c, now)
      [] c.op = "GETRANGE" -> Getrange(db, c, now)
      [] c.op = "SETRANGE" -> Setrange(db, c, now)
      [] c.op = "GETSET" -> Getset(db, c, now)
      [] c.op = "SETNX" -> Setnx(db, c, now)
      [] c.op = "MGET" -> Mget(db, c, now)
      [] c.op = "MSET" -> Mset(db, c)
      [] c.op = "MSETNX" -> Msetnx(db, c, now)
      [] c.op = "SET" -> Set(db, c, now)
      [] c.op = "GET" -> Get(db, c, now)
      [] c.op = "SETEX" -> SetexWithMode(db, c, now)
      [] c.op = "GETDEL" -> Getdel(db, c, now)
      [] c.op = "GETEX" -> Getex(db, c, now)
      [] c.op = "INCRBY" -> Incrby(db, c, now)
      [] c.op = "DECRBY" -> Decrby(db, c, now)
      [] c.op = "INCRBYFLOAT" -> Incrbyfloat(db, c, now)
      [] c.op = "LCS" -> Lcs(db, c, now)
      [] c.op = "MSETEX" -> Msetex(db, c, now)
      [] c.op = "SETBIT" -> Setbit(db, c, now)
      [] c.op = "GETBIT" -> Getbit(db, c, now)
      [] c.op = "BITCOUNT" -> Bitcount(db, c, now)
      [] c.op = "BITPOS" -> Bitpos(db, c, now)
      [] c.op = "BITOP" -> Bitop(db, c, now)
      [] c.op = "BITFIELD" -> Bitfield(db, c, now)
      [] c.op = "BITFIELD_RO" -> BitfieldRo(db, c, now)

=============================================================================
