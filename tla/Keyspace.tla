------------------------------ MODULE Keyspace ------------------------------
(***************************************************************************)
(* One logical database of the engine (keyspace.rs: DbShard, StoredValue   *)
(* and the write guard DbWriteGuard), as pure operators: the command       *)
(* modules build their handlers from them.                                 *)
(*                                                                         *)
(* A database is a record [data, expires]: data maps the present keys to   *)
(* their values and expires is the side index of deadlines that active     *)
(* expiry and eviction sample.  A value is a record whose field t is its   *)
(* type, whose field of that name is the payload and whose field at is the *)
(* deadline, 0 for none.  A string is the sequence of its bytes; members,  *)
(* fields and list elements are numbers, in the order of their bytes.      *)
(***************************************************************************)
EXTENDS Integers, Sequences, FiniteSets, SequencesExt, FiniteSetsExt, Functions

CONSTANTS IBits,      \* the width of i64
          IntSetMax,  \* SET_MAX_INTSET_ENTRIES
          StringMax,  \* PROTO_MAX_BULK_LEN, in bytes
          Sec         \* milliseconds in a second

ASSUME KeyspaceAssumption ==
    /\ IBits \in Nat \ {0, 1}
    /\ IntSetMax \in Nat
    /\ StringMax \in Nat
    /\ Sec \in Nat \ {0}

-----------------------------------------------------------------------------
(* Arguments and replies. *)

\* An argument that does not parse as the number the command asks for.
NotInt == 2000000000
IsInt(n) == n # NotInt
IMax == 2^(IBits - 1) - 1
IMin == -IMax - 1
InI64(n) == n >= IMin /\ n <= IMax

\* i64::saturating_add and saturating_mul; checked_add asks InI64 first.
Saturate(n) == IF n > IMax THEN IMax ELSE IF n < IMin THEN IMin ELSE n
\* i64::wrapping_add.
Wrap(n) == ((n - IMin) % 2^IBits) + IMin

Num(n) == [int |-> n]
Bulk(s) == [bulk |-> s]
Elem(m) == [elem |-> m]
Arr(s) == [arr |-> s]
Bag(s) == [unordered |-> s]
Nil == [nil |-> TRUE]
NilArr == [nilarr |-> TRUE]
Ok == [ok |-> TRUE]
Err(e) == [err |-> e]
IsErr(r) == "err" \in DOMAIN r
WrongType == Err("WRONGTYPE")

NotAnInteger == Err("not an integer")
\* Counts: a negative count stands for none given, Negative for a negative one.
Negative == 1800000000
KeyReply(k) == [key |-> k]
Elems(s) == Arr([i \in DOMAIN s |-> Elem(s[i])])
\* The members of a set in the order of their bytes.
Members(S) == SetToSortSeq(S, LAMBDA a, b : a < b)

\* A handler returns the database it leaves and its reply.
Ret(db, r) == [db |-> db, r |-> r]

-----------------------------------------------------------------------------
(* Bytes and integers.                                                     *)

Minus == 45
Plus == 43
IsDigit(b) == b \in 48..57

\* The decimal value of a sequence of digits.
Digits(s) ==
    LET value[i \in 0..Len(s)] == IF i = 0 THEN 0 ELSE 10 * value[i - 1] + (s[i] - 48)
    IN value[Len(s)]

\* str::parse::<i64>: an optional sign, at least one digit, nothing else, and
\* a value that fits; NotInt otherwise.
ParseI64(s) ==
    LET signed == Len(s) > 0 /\ s[1] \in {Minus, Plus}
        body == IF signed THEN Tail(s) ELSE s
        n == IF signed /\ s[1] = Minus THEN - Digits(body) ELSE Digits(body)
    IN IF Len(body) > 0 /\ (\A i \in DOMAIN body : IsDigit(body[i])) /\ InI64(n)
       THEN n ELSE NotInt

MutParseIntString(s) == ParseI64(s)

\* The integers a string value is stored as: what prints back as itself.
ParseIntString(s) ==
    IF \/ s = <<>>
       \/ s[1] = Plus
       \/ Len(s) > 1 /\ s[1] = 48
       \/ Len(s) > 1 /\ s[1] = Minus /\ s[2] = 48
    THEN NotInt
    ELSE ParseI64(s)

DigitsOf[n \in Nat] ==
    IF n < 10 THEN <<48 + n>> ELSE Append(DigitsOf[n \div 10], 48 + (n % 10))

\* itoa: the canonical decimal text of an integer.
FormatInt(n) == IF n < 0 THEN <<Minus>> \o DigitsOf[-n] ELSE DigitsOf[n]

\* Floats are whole: their text is read without the bound of i64 and printed
\* without a fraction; "inf" is the one that is not finite.
Infinite == 1900000000
InfText == <<105, 110, 102>>
ParseF64(s) ==
    LET body == IF s # <<>> /\ s[1] \in {Minus, Plus} THEN Tail(s) ELSE s
    IN IF body = InfText THEN (IF s[1] = Minus THEN -Infinite ELSE Infinite)
       ELSE IF body = <<>> \/ (\E i \in DOMAIN body : ~IsDigit(body[i])) THEN NotInt
       ELSE IF s[1] = Minus THEN - Digits(body) ELSE Digits(body)
FormatF64(n) ==
    IF n = Infinite THEN InfText ELSE IF n = -Infinite THEN <<Minus>> \o InfText ELSE FormatInt(n)

-----------------------------------------------------------------------------
(* Values.  A string is stored as an integer exactly when its text is the   *)
(* canonical text of one; a set of few integers is stored as a sorted       *)
(* vector until a member that is none arrives.                              *)

StringValue(s, at) ==
    [t |-> "string", string |-> s, at |-> at,
     enc |-> IF IsInt(ParseIntString(s)) THEN "int" ELSE "raw"]
StringInt(n, at) == [t |-> "string", string |-> FormatInt(n), at |-> at, enc |-> "int"]
ListValue(l, at) == [t |-> "list", list |-> l, at |-> at]
HashValue(h, at) == [t |-> "hash", hash |-> h, at |-> at]
ZsetValue(z, at) == [t |-> "zset", zset |-> z, at |-> at]

\* Members below 100 are canonical integers, the others are not.
IsIntMember(m) == m < 100

SetValue(S, at) ==
    [t |-> "set", set |-> S, at |-> at,
     enc |-> IF Cardinality(S) <= IntSetMax /\ \A m \in S : IsIntMember(m)
             THEN "intset" ELSE "hashtable"]

\* StoredValue::set_insert_member: the compact form is given up for good when
\* a member does not fit it.
SetInsertMember(e, m) ==
    [e EXCEPT !.set = @ \cup {m},
              !.enc = IF \/ @ = "hashtable"
                         \/ ~IsIntMember(m)
                         \/ m \notin e.set /\ Cardinality(e.set) >= IntSetMax
                      THEN "hashtable" ELSE "intset"]

SetRemoveMember(e, m) == [e EXCEPT !.set = @ \ {m}]

\* Metadata of a stream that nothing was ever deleted from.
StreamMetaDerived(entries) ==
    [last |-> IF entries = <<>> THEN <<0, 0>> ELSE entries[Len(entries)].id,
     added |-> Len(entries), maxdel |-> <<0, 0>>]

StreamValue(entries, at) ==
    [t |-> "stream", at |-> at,
     stream |-> [entries |-> entries, groups |-> <<>>, meta |-> StreamMetaDerived(entries)]]

-----------------------------------------------------------------------------
(* The write guard of a database.                                          *)

EmptyDb == [data |-> <<>>, expires |-> <<>>]

Put(f, k, v) == [x \in DOMAIN f \cup {k} |-> IF x = k THEN v ELSE f[x]]
Drop(f, k) == [x \in DOMAIN f \ {k} |-> f[x]]
Has(db, k) == k \in DOMAIN db.data
TypeIs(db, k, ty) == Has(db, k) /\ db.data[k].t = ty
Deadline(db, k) == IF Has(db, k) THEN db.data[k].at ELSE 0

SyncExpires(expires, k, at) == IF at > 0 THEN Put(expires, k, at) ELSE Drop(expires, k)

MutInsertKey(db, k, e) == [db EXCEPT !.data = Put(@, k, e)]

\* Insert or replace a key with its place in the index of deadlines.
InsertKey(db, k, e) ==
    [data |-> Put(db.data, k, e), expires |-> SyncExpires(db.expires, k, e.at)]

RemoveKey(db, k) ==
    IF Has(db, k) THEN [data |-> Drop(db.data, k), expires |-> Drop(db.expires, k)] ELSE db

\* Code that edits the map itself (DerefMut): the index is not touched.
InPlace(db, k, e) == [db EXCEPT !.data[k] = e]

\* The value moves with its deadline; what was at the target is released.
RenameKey(db, source, target) ==
    IF ~Has(db, source) THEN db
    ELSE LET e == db.data[source]
             without == RemoveKey([data |-> Drop(db.data, source),
                                expires |-> Drop(db.expires, source)], target)
         IN [data |-> Put(without.data, target, e),
             expires |-> SyncExpires(without.expires, target, e.at)]

SetKeyExpiry(db, k, at) ==
    IF ~Has(db, k) THEN db
    ELSE [data |-> [db.data EXCEPT ![k].at = at], expires |-> SyncExpires(db.expires, k, at)]

ExpiredAt(e, now) == e.at > 0 /\ e.at <= now

PurgeExpiredKey(db, k, now) ==
    IF Has(db, k) /\ ExpiredAt(db.data[k], now) THEN RemoveKey(db, k) ELSE db

PurgeAll(db, ks, now) == FoldLeft(LAMBDA d, k : PurgeExpiredKey(d, k, now), db, ks)

PurgeExpiredKeys(db, now) ==
    LET live == {k \in DOMAIN db.data : ~ExpiredAt(db.data[k], now)}
    IN [data |-> Restrict(db.data, live),
        expires |-> Restrict(db.expires, DOMAIN db.expires \ (DOMAIN db.data \ live))]

\* Edit a string in place: F maps its bytes to [s, modified, r].  A missing key
\* is an empty string, created only by a modification; the encoding is chosen
\* again, the deadline kept.
MutateString(db, k, F(_)) ==
    LET old == IF Has(db, k) THEN db.data[k] ELSE StringValue(<<>>, 0)
        out == F(old.string)
    IN IF old.t # "string" THEN Ret(db, WrongType)
       ELSE IF ~out.modified THEN Ret(db, out.r)
       ELSE Ret(IF Has(db, k) THEN InPlace(db, k, StringValue(out.s, old.at))
                ELSE InsertKey(db, k, StringValue(out.s, 0)), out.r)

\* What most handlers do first: look a key up, answer for a missing key or a
\* value of another type, and go on with the payload.
WithValue(db, k, ty, missing, Op(_)) ==
    IF ~Has(db, k) THEN Ret(db, missing)
    ELSE IF db.data[k].t # ty THEN Ret(db, WrongType)
    ELSE Op(db.data[k][ty])

ReadValue(db, k, ty, missing, F(_)) ==
    WithValue(db, k, ty, missing, LAMBDA v : Ret(db, F(v)))

\* The first of the keys that is there decides, and an expired one is not.
FirstPresent(db0, ks, now) ==
    LET there == {i \in DOMAIN ks : LET d == PurgeExpiredKey(db0, ks[i], now) IN Has(d, ks[i])}
    IN IF there = {} THEN 0 ELSE Min(there)

\* The payload at k, or nothing of its type.
PayloadOr(db, k, ty, default) == IF TypeIs(db, k, ty) THEN db.data[k][ty] ELSE default

\* Another value of the same type, written in place.
Update(db, k, ty, v) == InPlace(db, k, [db.data[k] EXCEPT ![ty] = v])

-----------------------------------------------------------------------------
(* Index ranges: 0-based, both ends included, negative ones from the end.   *)

FromEnd(len, i) == IF i < 0 THEN Saturate(i + len) ELSE i
AtLeast0(n) == IF n < 0 THEN 0 ELSE n

NoRange == <<>>

\* Lists and sorted sets: an end that stays negative selects nothing.
NormalizeRange(len, start, end) ==
    LET s == AtLeast0(FromEnd(len, start))
        e == FromEnd(len, end)
    IN IF s > e \/ s >= len THEN NoRange ELSE <<s, Min({e, len - 1})>>

\* Strings and bits: both ends are clamped into the value.
ClampIndexRange(len, start, end) ==
    LET s == AtLeast0(FromEnd(len, start))
        e == Min({AtLeast0(FromEnd(len, end)), len - 1})
    IN IF len = 0 \/ s > e THEN NoRange ELSE <<s, e>>

NormalizeStringRange(len, start, end) ==
    IF start < 0 /\ end < 0 /\ start > end THEN NoRange ELSE ClampIndexRange(len, start, end)

\* The elements a range selects.
Slice(s, range) == IF range = NoRange THEN <<>> ELSE SubSeq(s, range[1] + 1, range[2] + 1)

-----------------------------------------------------------------------------
(* The SCAN family.                                                        *)

\* scan_collect_indexes: the cursor is a position in the sorted items.  c.pat is
\* the set of items the pattern matches.
ScanFrom(items, cursor, count, Matches(_)) ==
    LET from == Min({cursor, Len(items)})
        to == Min({from + count, Len(items)})
    IN [next |-> IF to >= Len(items) THEN 0 ELSE to,
        items |-> SelectSeq(SubSeq(items, from + 1, to), Matches)]

ScanReply(scan) == [cursor |-> scan.next, scanned |-> scan.items]
ScanRefused(c) == ~IsInt(c.cursor) \/ c.cursor < 0 \/ ~IsInt(c.count) \/ c.count < 1

-----------------------------------------------------------------------------
(* Expiry arguments.  An expiry option is [kind, n]: none, keep, persist, or *)
(* a time relative to now (ex, px) or absolute (exat, pxat).                *)

NoExpiry == [kind |-> "none", n |-> 0]

\* to_expire_target_ms and the options of SET: the arithmetic saturates.
ExpireTargetMs(x, now) ==
    CASE x.kind = "ex" -> Saturate(now + Saturate(x.n * Sec))
      [] x.kind = "px" -> Saturate(now + x.n)
      [] x.kind = "exat" -> Saturate(x.n * Sec)
      [] OTHER -> x.n

\* parse_command_expire_at_ms: the arithmetic is checked; 0 stands for a refusal.
CommandExpireAtMs(x, now) ==
    LET delta == IF x.kind \in {"ex", "exat"} THEN x.n * Sec ELSE x.n
        at == IF x.kind \in {"ex", "px"} THEN now + delta ELSE delta
    IN IF x.n <= 0 \/ ~InI64(delta) \/ ~InI64(at) THEN 0 ELSE at

\* expire_condition_matches, for a current deadline cur (0: none).
ExpireConditionMatches(cond, cur, target) ==
    CASE cond = "none" -> TRUE
      [] cond = "nx" -> cur = 0
      [] cond = "xx" -> cur # 0
      [] cond = "gt" -> cur # 0 /\ target > cur
      [] cond = "lt" -> cur = 0 \/ target < cur

=============================================================================
