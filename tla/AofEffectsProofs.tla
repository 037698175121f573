-------------------------- MODULE AofEffectsProofs --------------------------
(***************************************************************************)
(* Replaying the log gives back the keyspace, for every set of commands,   *)
(* of keys and of databases, for every clock and every number of units.    *)
(***************************************************************************)
EXTENDS AofEffects, SubsequencesProofs

-----------------------------------------------------------------------------
(* The values of the state.                                                  *)

EntrySet ==
    [type : {"none", "string", "set", "stream"}, val : Nat, mem : SUBSET Nat, at : Nat]

\* What a handler may leave under a key.
Stored ==
    {e \in EntrySet : \/ e = None
                      \/ e.type = "string" /\ e.mem = {}
                      \/ e.type \in {"set", "stream"} /\ e.mem # {}}

Keyspaces == [Dbs -> [Keys -> Stored]]

\* What a client may send, and what the capture may log.
Sendable == {c \in CommandSet : c.op = "SADD" => c.mem # {}}

Units == [time : Nat, tx : BOOLEAN, cmds : Seq(Sendable)]

-----------------------------------------------------------------------------
(* Handlers.                                                                 *)

\* A missing key is a stored value, and so is every string.
LEMMA StoredBasics ==
    /\ None \in Stored
    /\ \A v \in Nat, at \in Nat : String(v, at) \in Stored
BY DEF Stored, EntrySet, None, String

\* purge_expired_key leaves a stored value, and one that has not expired.
LEMMA PurgeFacts ==
    ASSUME NEW e \in Stored, NEW now \in Nat
    PROVE  /\ Purge(e, now) \in Stored
           /\ Purge(Purge(e, now), now) = Purge(e, now)
           /\ Purge(None, now) = None
<1>1. None \in Stored /\ ~Expired(None, now)
  BY StoredBasics DEF Expired, None
<1>2. CASE Expired(e, now)
  BY <1>1, <1>2 DEF Purge
<1>3. CASE ~Expired(e, now)
  BY <1>1, <1>3 DEF Purge
<1> QED BY <1>2, <1>3

\* A stored value with another deadline is a stored value, unless it is none.
LEMMA NewDeadline ==
    ASSUME NEW e \in Stored, e.type # "none", NEW at \in Nat
    PROVE  [e EXCEPT !.at = at] \in Stored
BY DEF Stored, EntrySet, None

\* The dispatcher runs the handler of the command's name.
LEMMA Dispatches ==
    ASSUME NEW c, NEW e, NEW now
    PROVE  /\ c.op = "SET" => Handler(c, e, now) = Set(c, e, now)
           /\ c.op = "SETEX" => Handler(c, e, now) = SetEx(c, e, now)
           /\ c.op = "GETEX" => Handler(c, e, now) = GetEx(c, e, now)
           /\ c.op = "EXPIRE" => Handler(c, e, now) = Expire(c, e, now)
           /\ c.op = "PERSIST" => Handler(c, e, now) = Persist(c, e)
           /\ c.op = "SETNX" => Handler(c, e, now) = SetNx(c, e)
           /\ c.op = "INCR" => Handler(c, e, now) = Incr(c, e)
           /\ c.op = "DEL" => Handler(c, e, now) = Del(c, e)
           /\ c.op = "GETDEL" => Handler(c, e, now) = GetDel(c, e)
           /\ c.op = "SADD" => Handler(c, e, now) = SAdd(c, e)
           /\ c.op = "SREM" => Handler(c, e, now) = SRem(c, e)
           /\ c.op = "SPOP" => Handler(c, e, now) = SPop(c, e)
           /\ c.op = "XADD" => Handler(c, e, now) = XAdd(c, e, now)
BY DEF Handler

\* A deadline is a number.
LEMMA TargetIsNat ==
    ASSUME NEW c \in Sendable, NEW e \in Stored, NEW now \in Nat
    PROVE  Target(c, e, now) \in Nat
<1>1. c.ms \in Nat /\ e.at \in Nat
  BY DEF Sendable, CommandSet, Stored, EntrySet
<1> QED BY <1>1 DEF Target

\* Removing members from a set leaves a set with members, or no key.
LEMMA WithoutMembersStored ==
    ASSUME NEW e \in Stored, e.type \in {"none", "set"}, NEW m
    PROVE  WithoutMembers(e, m) \in Stored
<1>1. CASE e.mem \subseteq m
  BY <1>1, StoredBasics DEF WithoutMembers
<1>2. CASE ~(e.mem \subseteq m)
  <2>1. e \in EntrySet /\ e.type = "set"
    BY <1>2 DEF Stored, None
  <2>2. e.mem \ m # {} /\ e.mem \ m \in SUBSET Nat
    BY <1>2, <2>1 DEF EntrySet
  <2>3. [e EXCEPT !.mem = e.mem \ m] \in EntrySet
    BY <2>1, <2>2 DEF EntrySet
  <2> QED BY <1>2, <2>1, <2>2, <2>3 DEF WithoutMembers, Stored, EntrySet
<1> QED BY <1>1, <1>2

\* The next ID of a stream is a number.
LEMMA NextStreamIdIsNat ==
    ASSUME NEW last \in Nat, NEW now \in Nat
    PROVE  NextStreamId(last, now) \in Nat
BY DEF NextStreamId, SeqBase

\* Every handler leaves a stored value.
LEMMA HandlerStores ==
    ASSUME NEW c \in Sendable, NEW e \in Stored, NEW now \in Nat
    PROVE  Handler(c, e, now).entry \in Stored
<1>1. c.op \in Ops /\ c.val \in Nat /\ c.mem \in SUBSET Nat
  BY DEF Sendable, CommandSet
<1>2. e.val \in Nat /\ e.at \in Nat /\ e.mem \in SUBSET Nat
  BY DEF Stored, EntrySet
<1>3. Target(c, e, now) \in Nat
  BY TargetIsNat
<1>4. \A at \in Nat : Purge(String(c.val, at), now) \in Stored
  BY <1>1, StoredBasics, PurgeFacts
<1>5. CASE c.op = "SET"
  BY <1>3, <1>4, <1>5, Dispatches DEF Set, Result, StoreUnlessPast
<1>6. CASE c.op = "SETEX"
  BY <1>3, <1>4, <1>6, Dispatches DEF SetEx, Result, StoreUnlessPast
<1>7. CASE c.op = "GETEX"
  <2>1. e.type = "string" => [e EXCEPT !.at = Target(c, e, now)] \in Stored /\ [e EXCEPT !.at = 0] \in Stored
    BY <1>3, NewDeadline
  <2>2. e.type = "string" => Purge([e EXCEPT !.at = Target(c, e, now)], now) \in Stored
    BY <2>1, PurgeFacts
  <2>3. Handler(c, e, now) = GetEx(c, e, now)
    BY <1>7, Dispatches
  <2> QED BY <2>1, <2>2, <2>3 DEF GetEx, Result, StoreUnlessPast
<1>8. CASE c.op = "EXPIRE"
  <2>1. e.type # "none" => [e EXCEPT !.at = Target(c, e, now)] \in Stored
    BY <1>3, NewDeadline
  <2> QED BY <1>8, <2>1, StoredBasics, Dispatches DEF Expire, Result
<1>9. CASE c.op = "PERSIST"
  <2>1. [e EXCEPT !.at = 0] \in Stored
    BY NewDeadline DEF Stored, EntrySet, None
  <2> QED BY <1>9, <2>1, Dispatches DEF Persist, Result
<1>10. CASE c.op = "SETNX"
  BY <1>1, <1>10, StoredBasics, Dispatches DEF SetNx, Result
<1>11. CASE c.op = "INCR"
  BY <1>2, <1>11, StoredBasics, Dispatches DEF Incr, Result
<1>12. CASE c.op = "DEL"
  BY <1>12, StoredBasics, Dispatches DEF Del, Result
<1>13. CASE c.op = "GETDEL"
  BY <1>13, StoredBasics, Dispatches DEF GetDel, Result
<1>14. CASE c.op = "SADD"
  <2>1. c.mem # {}
    BY <1>14 DEF Sendable
  <2>2. [type |-> "set", val |-> 0, mem |-> e.mem \cup c.mem, at |-> e.at] \in Stored
    BY <1>1, <1>2, <2>1 DEF Stored, EntrySet
  <2>3. Handler(c, e, now) = SAdd(c, e)
    BY <1>14, Dispatches
  <2> QED BY <2>2, <2>3 DEF SAdd, Result
<1>15. CASE c.op = "SREM"
  <2>1. e.type \in {"none", "set"} => WithoutMembers(e, c.mem) \in Stored
    BY WithoutMembersStored
  <2>2. Handler(c, e, now) = SRem(c, e)
    BY <1>15, Dispatches
  <2> QED BY <2>1, <2>2 DEF SRem, Result
<1>16. CASE c.op = "SPOP"
  <2>1. e.type \in {"none", "set"} => WithoutMembers(e, c.mem) \in Stored
    BY WithoutMembersStored
  <2>2. Handler(c, e, now) = SPop(c, e)
    BY <1>16, Dispatches
  <2> QED BY <2>1, <2>2 DEF SPop, Result
<1>17. CASE c.op = "XADD"
  <2> DEFINE id == IF c.val = 0 THEN NextStreamId(e.val, now) ELSE c.val
  <2>1. id \in Nat
    BY <1>1, <1>2, NextStreamIdIsNat
  <2>2. [type |-> "stream", val |-> id, mem |-> e.mem \cup {id}, at |-> e.at] \in Stored
    <3> HIDE DEF id
    <3> QED BY <1>2, <2>1 DEF Stored, EntrySet
  <2>3. Handler(c, e, now) = XAdd(c, e, now)
    BY <1>17, Dispatches
  <2> QED BY <2>2, <2>3 DEF XAdd, Result
<1> QED BY <1>1, <1>5, <1>6, <1>7, <1>8, <1>9, <1>10, <1>11, <1>12, <1>13, <1>14, <1>15, <1>16,
           <1>17 DEF Ops

-----------------------------------------------------------------------------
(* The capture.                                                              *)

\* d, run on e at now, has the effect of a handler that left after.
SameEffect(c, d, e, now, after) ==
    /\ d \in Sendable /\ d.db = c.db /\ d.key = c.key
    /\ Handler(d, e, now).entry = after
    /\ Handler(d, e, now).reply.kind # "err"

\* The log gets nothing when nothing changed, and otherwise one command with
\* the effect of the one that was run.
Faithful(c, e, now, after, cmds) ==
    \/ cmds = <<>> /\ after = e
    \/ \E d : cmds = <<d>> /\ SameEffect(c, d, e, now, after)

\* The canonical DEL removes the key.
LEMMA DelForm ==
    ASSUME NEW c \in Sendable, NEW e, NEW now
    PROVE  SameEffect(c, Cmd("DEL", c.db, c.key), e, now, None)
<1> DEFINE d == Cmd("DEL", c.db, c.key)
<1>1. c.db \in Dbs /\ c.key \in Keys
  BY DEF Sendable, CommandSet
<1>2. d \in Sendable /\ d.db = c.db /\ d.key = c.key /\ d.op = "DEL"
  BY <1>1 DEF Sendable, CommandSet, Cmd, Ops
<1>3. Handler(d, e, now) = Del(d, e)
  BY <1>2, Dispatches
<1> QED BY <1>2, <1>3 DEF SameEffect, Del, Result, Integer

\* The canonical SET stores the value under its deadline.
LEMMA SetForm ==
    ASSUME NEW c \in Sendable, NEW e \in Stored, NEW now \in Nat, NEW v \in Nat, NEW at \in Nat,
           Purge(String(v, at), now) = String(v, at)
    PROVE  SameEffect(c, [Cmd("SET", c.db, c.key) EXCEPT !.val = v, !.ms = at,
                              !.exp = IF at = 0 THEN "none" ELSE "absolute"], e, now, String(v, at))
<1> DEFINE d == [Cmd("SET", c.db, c.key) EXCEPT !.val = v, !.ms = at,
                     !.exp = IF at = 0 THEN "none" ELSE "absolute"]
<1>1. c.db \in Dbs /\ c.key \in Keys
  BY DEF Sendable, CommandSet
<1>2. Cmd("SET", c.db, c.key) \in CommandSet
  BY <1>1 DEF Cmd, CommandSet, Ops
<1>a. d \in CommandSet
  BY <1>2 DEF CommandSet
<1>3. d.db = c.db /\ d.key = c.key /\ d.op = "SET" /\ d.val = v /\ d.cond = "none" /\ ~d.get
      /\ d.ms = at /\ d.exp = IF at = 0 THEN "none" ELSE "absolute"
  BY DEF Cmd
<1> HIDE DEF d
<1>b. d \in Sendable
  BY <1>a, <1>3 DEF Sendable
<1>4. Target(d, e, now) = at
  BY <1>3 DEF Target
<1>5. Handler(d, e, now) = Set(d, e, now)
  BY <1>3, Dispatches
<1>6. Set(d, e, now) = Result(String(v, at), Reply("ok"))
  BY <1>3, <1>4 DEF Set, StoreUnlessPast
<1>7. SameEffect(c, d, e, now, String(v, at))
  BY <1>3, <1>b, <1>5, <1>6 DEF SameEffect, Result, Reply
<1> QED BY <1>7 DEF d

\* canonical_string_state writes the value that the command left.
LEMMA StringStateFaithful ==
    ASSUME NEW c \in Sendable, NEW e \in Stored, NEW now \in Nat, NEW after \in Stored,
           after.type \in {"none", "string"}, Purge(after, now) = after
    PROVE  Faithful(c, e, now, after, CanonicalStringState(c, after))
<1>1. CASE after.type = "none"
  <2>1. after = None
    BY <1>1 DEF Stored
  <2> QED BY <1>1, <2>1, DelForm DEF CanonicalStringState, Faithful
<1>2. CASE after.type = "string"
  <2>1. after.val \in Nat /\ after.at \in Nat
    BY DEF Stored, EntrySet
  <2>2. after = String(after.val, after.at)
    BY <1>2 DEF Stored, EntrySet, None, String
  <2>3. SameEffect(c, [Cmd("SET", c.db, c.key) EXCEPT !.val = after.val, !.ms = after.at,
                           !.exp = IF after.at = 0 THEN "none" ELSE "absolute"], e, now, after)
    BY <2>1, <2>2, SetForm
  <2> QED BY <1>2, <2>3 DEF CanonicalStringState, Faithful
<1> QED BY <1>1, <1>2

\* canonical_expiry_state writes the deadline that EXPIRE left, or the removal.
LEMMA ExpiryStateFaithful ==
    ASSUME NEW c \in Sendable, NEW e \in Stored, e.type # "none", NEW now \in Nat,
           NEW after, NEW at \in Nat,
           after = None \/ (at > now /\ after = [e EXCEPT !.at = at])
    PROVE  Faithful(c, e, now, after, CanonicalExpiryState(c, after))
<1>1. CASE after = None
  BY <1>1, DelForm DEF CanonicalExpiryState, Faithful, None
<1>2. CASE at > now /\ after = [e EXCEPT !.at = at]
  <2>1. after.type # "none" /\ after.at = at /\ at # 0
    BY <1>2 DEF Stored, EntrySet
  <2> DEFINE d == [Cmd("EXPIRE", c.db, c.key) EXCEPT !.exp = "absolute", !.ms = at]
  <2>2. c.db \in Dbs /\ c.key \in Keys
    BY DEF Sendable, CommandSet
  <2>3. Cmd("EXPIRE", c.db, c.key) \in CommandSet
    BY <2>2 DEF Cmd, CommandSet, Ops
  <2>a. d \in CommandSet
    BY <2>3 DEF CommandSet
  <2>b. d.db = c.db /\ d.key = c.key /\ d.op = "EXPIRE" /\ d.cond = "none" /\ d.exp = "absolute" /\ d.ms = at
    BY DEF Cmd
  <2>4. CanonicalExpiryState(c, after) = <<d>>
    BY <2>1 DEF CanonicalExpiryState
  <2> HIDE DEF d
  <2>5. d \in Sendable
    BY <2>a, <2>b DEF Sendable
  <2>6. Target(d, e, now) = at
    BY <2>b DEF Target
  <2>7. ExpireConditionMatches(d.cond, e.at, at)
    BY <2>b DEF ExpireConditionMatches
  <2>8. Handler(d, e, now) = Result(after, Integer(1))
    BY <1>2, <2>b, <2>6, <2>7, Dispatches DEF Expire
  <2> QED BY <2>4, <2>5, <2>b, <2>8 DEF Faithful, SameEffect, Result, Integer
<1> QED BY <1>1, <1>2

\* spop_durability_effects writes the members that were popped.
LEMMA SpopFaithful ==
    ASSUME NEW c \in Sendable, NEW e \in Stored, e.type = "set", NEW now \in Nat, NEW after,
           after = WithoutMembers(e, c.mem), NEW reply, reply.mem = c.mem \cap e.mem
    PROVE  Faithful(c, e, now, after, SpopDurabilityEffects(c, after, reply))
<1>1. e \in EntrySet /\ e.mem # {} /\ e.mem \in SUBSET Nat
  BY DEF Stored, None, EntrySet
<1>2. CASE reply.mem = {}
  <2>1. ~(e.mem \subseteq c.mem) /\ e.mem \ c.mem = e.mem
    BY <1>1, <1>2
  <2>2. [e EXCEPT !.mem = e.mem] = e
    BY <1>1 DEF EntrySet
  <2>3. after = e
    BY <2>1, <2>2 DEF WithoutMembers
  <2> QED BY <1>2, <2>3 DEF SpopDurabilityEffects, Faithful
<1>3. CASE reply.mem # {} /\ e.mem \subseteq c.mem
  <2>1. after = None /\ after.type = "none"
    BY <1>3 DEF WithoutMembers, None
  <2> QED BY <1>3, <2>1, DelForm DEF SpopDurabilityEffects, Faithful
<1>4. CASE reply.mem # {} /\ ~(e.mem \subseteq c.mem)
  <2> DEFINE d == [Cmd("SREM", c.db, c.key) EXCEPT !.mem = reply.mem]
  <2>1. c.db \in Dbs /\ c.key \in Keys
    BY DEF Sendable, CommandSet
  <2>2. Cmd("SREM", c.db, c.key) \in CommandSet /\ reply.mem \in SUBSET Nat
    BY <1>1, <2>1 DEF Cmd, CommandSet, Ops
  <2>3. d \in CommandSet
    BY <2>2 DEF CommandSet
  <2>4. d.db = c.db /\ d.key = c.key /\ d.op = "SREM" /\ d.mem = reply.mem
    BY DEF Cmd
  <2>5. after.type = "set"
    BY <1>1, <1>4 DEF WithoutMembers, EntrySet
  <2>6. SpopDurabilityEffects(c, after, reply) = <<d>>
    BY <1>4, <2>5 DEF SpopDurabilityEffects
  <2> HIDE DEF d
  <2>7. d \in Sendable
    BY <2>3, <2>4 DEF Sendable
  <2>8. ~(e.mem \subseteq d.mem) /\ e.mem \ d.mem = e.mem \ c.mem
    BY <1>4, <2>4
  <2>9. WithoutMembers(e, d.mem) = after
    BY <1>4, <2>8 DEF WithoutMembers
  <2>10. Handler(d, e, now) = SRem(d, e)
    BY <2>4, Dispatches
  <2>11. Handler(d, e, now).entry = after /\ Handler(d, e, now).reply.kind = "int"
    BY <2>9, <2>10 DEF SRem, Result, Integer
  <2> QED BY <2>4, <2>6, <2>7, <2>11 DEF Faithful, SameEffect
<1> QED BY <1>2, <1>3, <1>4

\* canonical_xadd writes the ID that was generated.
LEMMA XAddFaithful ==
    ASSUME NEW c \in Sendable, c.op = "XADD", NEW e \in Stored, NEW now \in Nat, NEW r,
           r = XAdd(c, e, now), r.reply.kind # "err"
    PROVE  Faithful(c, e, now, r.entry, CanonicalXAdd(c, r.reply))
<1> DEFINE id == IF c.val = 0 THEN NextStreamId(e.val, now) ELSE c.val
<1>1. c.val \in Nat /\ e.val \in Nat
  BY DEF Sendable, CommandSet, Stored, EntrySet
<1>2. id \in Nat
  BY <1>1, NextStreamIdIsNat
<1>3. e.type \in {"none", "stream"} /\ ~(id <= e.val)
  BY DEF XAdd, Result, Reply
<1>4. r = Result([type |-> "stream", val |-> id, mem |-> e.mem \cup {id}, at |-> e.at], Bulk(id))
  BY <1>3 DEF XAdd
<1> HIDE DEF id
<1> DEFINE d == [c EXCEPT !.val = id]
<1>5. r.reply.val = id /\ r.reply.kind = "bulk"
  BY <1>4 DEF Result, Bulk
<1>6. CanonicalXAdd(c, r.reply) = <<d>>
  BY <1>5 DEF CanonicalXAdd
<1>7. d \in Sendable /\ d.db = c.db /\ d.key = c.key /\ d.op = "XADD" /\ d.val = id
  BY <1>2 DEF Sendable, CommandSet
<1> HIDE DEF d
<1>8. id # 0
  BY <1>1, <1>2, <1>3
<1>9. XAdd(d, e, now) = r
  BY <1>3, <1>4, <1>7, <1>8 DEF XAdd
<1>10. Handler(d, e, now) = r
  BY <1>7, <1>9, Dispatches
<1> QED BY <1>5, <1>6, <1>7, <1>10 DEF Faithful, SameEffect

\* A command that is logged as it came has the effect it had.
LEMMA RawFaithful ==
    ASSUME NEW c \in Sendable, NEW e, NEW now, NEW r, r = Handler(c, e, now), r.reply.kind # "err"
    PROVE  Faithful(c, e, now, r.entry, <<c>>)
BY DEF Faithful, SameEffect

\* A command that answers with an error has changed nothing.
LEMMA ErrorKeeps ==
    ASSUME NEW c \in Sendable, NEW e, NEW now, Handler(c, e, now).reply.kind = "err"
    PROVE  Handler(c, e, now).entry = e
<1>1. c.op \in Ops
  BY DEF Sendable, CommandSet
<1>2. CASE c.op = "SET"
  <2>1. Handler(c, e, now) = Set(c, e, now)
    BY <1>2, Dispatches
  <2> QED BY <2>1 DEF Set, Result, Reply, Bulk
<1>3. CASE c.op = "SETEX"
  BY <1>3, Dispatches DEF SetEx, Result, Reply
<1>4. CASE c.op = "GETEX"
  <2>1. Handler(c, e, now) = GetEx(c, e, now)
    BY <1>4, Dispatches
  <2> QED BY <2>1 DEF GetEx, Result, Reply, Bulk
<1>5. CASE c.op = "EXPIRE"
  BY <1>5, Dispatches DEF Expire, Result, Integer
<1>6. CASE c.op = "PERSIST"
  BY <1>6, Dispatches DEF Persist, Result, Integer
<1>7. CASE c.op = "SETNX"
  BY <1>7, Dispatches DEF SetNx, Result, Integer
<1>8. CASE c.op = "INCR"
  BY <1>8, Dispatches DEF Incr, Result, Integer
<1>9. CASE c.op = "DEL"
  BY <1>9, Dispatches DEF Del, Result, Integer
<1>10. CASE c.op = "GETDEL"
  BY <1>10, Dispatches DEF GetDel, Result, Bulk, Reply
<1>11. CASE c.op = "SADD"
  <2>1. Handler(c, e, now) = SAdd(c, e)
    BY <1>11, Dispatches
  <2> QED BY <2>1 DEF SAdd, Result, Integer
<1>12. CASE c.op = "SREM"
  <2>1. Handler(c, e, now) = SRem(c, e)
    BY <1>12, Dispatches
  <2> QED BY <2>1 DEF SRem, Result, Integer
<1>13. CASE c.op = "SPOP"
  <2>1. Handler(c, e, now) = SPop(c, e)
    BY <1>13, Dispatches
  <2> QED BY <2>1 DEF SPop, Result, Members, Reply
<1>14. CASE c.op = "XADD"
  <2>1. Handler(c, e, now) = XAdd(c, e, now)
    BY <1>14, Dispatches
  <2> QED BY <2>1 DEF XAdd, Result, Bulk
<1> QED BY <1>1, <1>2, <1>3, <1>4, <1>5, <1>6, <1>7, <1>8, <1>9, <1>10, <1>11, <1>12, <1>13, <1>14
           DEF Ops

\* raw_command_changed_state leaves out only what changed nothing.
LEMMA UnchangedIsUnlogged ==
    ASSUME NEW c \in Sendable, NEW e \in Stored, NEW now, NEW r, r = Handler(c, e, now),
           ~RawCommandChangedState(c, r.reply)
    PROVE  r.entry = e
<1>1. c.op \in {"DEL", "SETNX", "PERSIST"} /\ r.reply = Integer(0)
  BY DEF RawCommandChangedState
<1>2. r.reply.val = 0
  BY <1>1 DEF Integer
<1>3. CASE c.op = "DEL"
  <2>1. r = Del(c, e)
    BY <1>3, Dispatches
  <2>2. e.type = "none"
    BY <1>2, <2>1 DEF Del, Result, Integer
  <2> QED BY <2>1, <2>2 DEF Del, Result, Stored
<1>4. CASE c.op = "SETNX"
  <2>1. r = SetNx(c, e)
    BY <1>4, Dispatches
  <2> QED BY <1>2, <2>1 DEF SetNx, Result, Integer
<1>5. CASE c.op = "PERSIST"
  <2>1. r = Persist(c, e)
    BY <1>5, Dispatches
  <2>2. e.at = 0
    BY <1>2, <2>1 DEF Persist, Result, Integer
  <2>3. [e EXCEPT !.at = 0] = e
    BY <2>2 DEF Stored, EntrySet
  <2> QED BY <2>1, <2>3 DEF Persist, Result
<1> QED BY <1>1, <1>3, <1>4, <1>5

\* capture_durability_effects, whatever the command and the value it found, when
\* it finds what the command left: what it logs has the effect of the command.
LEMMA CaptureOfLeft ==
    ASSUME NEW c \in Sendable, NEW e \in Stored, NEW now \in Nat, Purge(e, now) = e,
           NEW r, r = Handler(c, e, now), NEW k, k = Capture(c, r.entry, r.entry, r.reply)
    PROVE  Faithful(c, e, now, r.entry, k)
<1>1. CASE r.reply.kind = "err"
  BY <1>1, ErrorKeeps DEF Capture, Faithful
<1>2. ASSUME r.reply.kind # "err",
             k = IF RawCommandChangedState(c, r.reply) THEN <<c>> ELSE <<>>
      PROVE  Faithful(c, e, now, r.entry, k)
  <2>1. CASE RawCommandChangedState(c, r.reply)
    BY <1>2, <2>1, RawFaithful
  <2>2. CASE ~RawCommandChangedState(c, r.reply)
    BY <1>2, <2>2, UnchangedIsUnlogged DEF Faithful
  <2> QED BY <2>1, <2>2
<1>3. r.entry \in Stored
  BY HandlerStores
<1>4. \A v \in Nat, at \in Nat : LET p == Purge(String(v, at), now)
                                 IN  p \in Stored /\ p.type \in {"none", "string"} /\ Purge(p, now) = p
  BY StoredBasics, PurgeFacts DEF Purge, None, String
<1>5. Target(c, e, now) \in Nat /\ c.val \in Nat
  BY TargetIsNat DEF Sendable, CommandSet
<1>6. CASE r.reply.kind # "err" /\ c.op = "SET"
  <2>1. r = Set(c, e, now)
    BY <1>6, Dispatches
  <2> DEFINE new == Purge(String(c.val, Target(c, e, now)), now)
  <2>a. new \in Stored /\ new.type \in {"none", "string"} /\ Purge(new, now) = new
    BY <1>4, <1>5
  <2>2. r.entry = e \/ r.entry = new
    BY <2>1 DEF Set, Result, StoreUnlessPast
  <2>3. Purge(r.entry, now) = r.entry
    BY <2>a, <2>2
  <2>4. CASE SetCommandWasApplied(c, r.entry, r.reply)
    <3>1. k = CanonicalStringState(c, r.entry)
      BY <1>6, <2>4 DEF Capture
    <3>2. r.entry.type \in {"none", "string"}
      <4>1. CASE r.entry = new
        BY <2>a, <4>1
      <4>2. CASE r.entry # new
        <5>1. c.cond # "none" /\ r.reply.kind # "ok"
          <6> HIDE DEF new
          <6>1. r = Result(e, r.reply)
            BY <2>1, <4>2 DEF Set, Result, StoreUnlessPast, new
          <6>2. ~((c.cond = "NX" => ~(e.type # "none")) /\ (c.cond = "XX" => e.type # "none"))
            BY <1>6, <2>1, <4>2 DEF Set, Result, StoreUnlessPast, Reply, new
          <6> QED BY <1>6, <2>1, <6>2 DEF Set, Result, Reply, Bulk
        <5> QED BY <2>4, <5>1 DEF SetCommandWasApplied
      <4> QED BY <4>1, <4>2
    <3> QED BY <1>3, <2>3, <3>1, <3>2, StringStateFaithful
  <2>5. CASE ~SetCommandWasApplied(c, r.entry, r.reply)
    <3>1. k = IF RawCommandChangedState(c, r.reply) THEN <<c>> ELSE <<>>
      BY <1>6, <2>5 DEF Capture
    <3> QED BY <1>2, <1>6, <3>1
  <2> QED BY <2>4, <2>5
<1>7. CASE r.reply.kind # "err" /\ c.op = "SETEX"
  <2>1. r = SetEx(c, e, now)
    BY <1>7, Dispatches
  <2>2. r.entry = Purge(String(c.val, Target(c, e, now)), now)
    BY <2>1 DEF SetEx, Result, StoreUnlessPast
  <2>3. r.entry.type \in {"none", "string"} /\ Purge(r.entry, now) = r.entry
    BY <1>4, <1>5, <2>2
  <2>4. k = CanonicalStringState(c, r.entry)
    BY <1>7 DEF Capture
  <2> QED BY <1>3, <2>3, <2>4, StringStateFaithful
<1>8. CASE r.reply.kind # "err" /\ c.op = "GETEX"
  <2>1. r = GetEx(c, e, now)
    BY <1>8, Dispatches
  <2>2. CASE c.exp # "none" /\ r.reply.kind = "bulk"
    <3>1. k = CanonicalStringState(c, r.entry)
      BY <1>8, <2>2 DEF Capture
    <3>2. e.type = "string"
      BY <2>1, <2>2 DEF GetEx, Result, Reply
    <3>3. \A at \in Nat : LET p == Purge([e EXCEPT !.at = at], now)
                          IN  p.type \in {"none", "string"} /\ Purge(p, now) = p
      <4> TAKE at \in Nat
      <4>1. [e EXCEPT !.at = at] \in Stored /\ [e EXCEPT !.at = at].type = "string"
        BY <3>2, NewDeadline DEF Stored, EntrySet
      <4> QED BY <4>1, PurgeFacts DEF Purge, None
    <3>4. r.entry = Purge([e EXCEPT !.at = Target(c, e, now)], now) \/ r.entry = [e EXCEPT !.at = 0]
      BY <2>1, <2>2, <3>2 DEF GetEx, Result, StoreUnlessPast
    <3>5. Purge([e EXCEPT !.at = 0], now) = [e EXCEPT !.at = 0]
      BY DEF Purge, Expired, Stored, EntrySet
    <3>6. r.entry.type \in {"none", "string"} /\ Purge(r.entry, now) = r.entry
      BY <1>5, <3>3, <3>4, <3>5
    <3> QED BY <1>3, <3>1, <3>6, StringStateFaithful
  <2>3. CASE ~(c.exp # "none" /\ r.reply.kind = "bulk")
    <3>1. k = IF RawCommandChangedState(c, r.reply) THEN <<c>> ELSE <<>>
      BY <1>8, <2>3 DEF Capture
    <3> QED BY <1>2, <1>8, <3>1
  <2> QED BY <2>2, <2>3
<1>9. CASE r.reply.kind # "err" /\ c.op = "EXPIRE"
  <2>1. r = Expire(c, e, now)
    BY <1>9, Dispatches
  <2>2. CASE r.reply = Integer(1)
    <3>1. k = CanonicalExpiryState(c, r.entry)
      BY <1>9, <2>2 DEF Capture
    <3>2. r.reply.val = 1
      BY <2>2 DEF Integer
    <3>3. e.type # "none" /\ ExpireConditionMatches(c.cond, e.at, Target(c, e, now))
      BY <2>1, <3>2 DEF Expire, Result, Integer
    <3>4. r.entry = None \/ (Target(c, e, now) > now /\ r.entry = [e EXCEPT !.at = Target(c, e, now)])
      BY <1>5, <2>1, <3>3 DEF Expire, Result
    <3> QED BY <1>5, <3>1, <3>3, <3>4, ExpiryStateFaithful
  <2>3. CASE r.reply # Integer(1)
    <3>1. k = IF RawCommandChangedState(c, r.reply) THEN <<c>> ELSE <<>>
      BY <1>9, <2>3 DEF Capture
    <3> QED BY <1>2, <1>9, <3>1
  <2> QED BY <2>2, <2>3
<1>10. CASE r.reply.kind # "err" /\ c.op = "XADD"
  <2>1. r = XAdd(c, e, now)
    BY <1>10, Dispatches
  <2>2. k = CanonicalXAdd(c, r.reply)
    BY <1>10 DEF Capture
  <2> QED BY <1>10, <2>1, <2>2, XAddFaithful
<1>11. CASE r.reply.kind # "err" /\ c.op = "SPOP"
  <2>1. r = SPop(c, e)
    BY <1>11, Dispatches
  <2>2. k = SpopDurabilityEffects(c, r.entry, r.reply)
    BY <1>11 DEF Capture
  <2>3. CASE e.type = "none"
    <3>1. r.entry = e /\ r.reply.mem = {}
      BY <2>1, <2>3 DEF SPop, Result, Members
    <3> QED BY <2>2, <3>1 DEF SpopDurabilityEffects, Faithful
  <2>4. CASE e.type = "set"
    <3>1. r.entry = WithoutMembers(e, c.mem) /\ r.reply.mem = c.mem \cap e.mem
      BY <2>1, <2>4 DEF SPop, Result, Members
    <3> QED BY <2>2, <2>4, <3>1, SpopFaithful
  <2>5. e.type \in {"none", "set"}
    BY <1>11, <2>1 DEF SPop, Result, Reply
  <2> QED BY <2>3, <2>4, <2>5
<1>12. CASE r.reply.kind # "err" /\ c.op \notin {"SET", "SETEX", "GETEX", "EXPIRE", "XADD", "SPOP"}
  <2>1. k = IF RawCommandChangedState(c, r.reply) THEN <<c>> ELSE <<>>
    BY <1>12 DEF Capture
  <2> QED BY <1>2, <1>12, <2>1
<1> QED BY <1>1, <1>6, <1>7, <1>8, <1>9, <1>10, <1>11, <1>12

\* The same when a reader has removed what the command left, before the capture
\* looked or between its two looks: the log has the command or the removal.
LEMMA CaptureOfRemoved ==
    ASSUME NEW c \in Sendable, NEW e \in Stored, NEW now \in Nat,
           NEW r, r = Handler(c, e, now), NEW seen, NEW k, k = Capture(c, seen, None, r.reply)
    PROVE  \E a \in {r.entry, None} : Faithful(c, e, now, a, k)
<1>1. CASE r.reply.kind = "err"
  BY <1>1, ErrorKeeps DEF Capture, Faithful
<1>2. ASSUME k = <<Cmd("DEL", c.db, c.key)>>
      PROVE  \E a \in {r.entry, None} : Faithful(c, e, now, a, k)
  BY <1>2, DelForm DEF Faithful
<1>3. ASSUME r.reply.kind # "err", k = IF RawCommandChangedState(c, r.reply) THEN <<c>> ELSE <<>>
      PROVE  \E a \in {r.entry, None} : Faithful(c, e, now, a, k)
  <2>1. CASE RawCommandChangedState(c, r.reply)
    BY <1>3, <2>1, RawFaithful
  <2>2. CASE ~RawCommandChangedState(c, r.reply)
    BY <1>3, <2>2, UnchangedIsUnlogged DEF Faithful
  <2> QED BY <2>1, <2>2
<1>4. None.type = "none"
  BY DEF None
<1>5. CanonicalStringState(c, None) = <<Cmd("DEL", c.db, c.key)>>
      /\ CanonicalExpiryState(c, None) = <<Cmd("DEL", c.db, c.key)>>
  BY <1>4 DEF CanonicalStringState, CanonicalExpiryState
<1>6. CASE r.reply.kind # "err" /\ c.op = "XADD"
  <2>1. r = XAdd(c, e, now)
    BY <1>6, Dispatches
  <2>2. k = CanonicalXAdd(c, r.reply)
    BY <1>6 DEF Capture
  <2> QED BY <1>6, <2>1, <2>2, XAddFaithful
<1>7. CASE r.reply.kind # "err" /\ c.op = "SPOP"
  <2>1. k = SpopDurabilityEffects(c, None, r.reply)
    BY <1>7 DEF Capture
  <2>2. CASE r.reply.mem # {}
    <3>1. k = <<Cmd("DEL", c.db, c.key)>>
      BY <1>4, <2>1, <2>2 DEF SpopDurabilityEffects
    <3> QED BY <1>2, <3>1
  <2>3. CASE r.reply.mem = {}
    <3>1. k = <<>>
      BY <2>1, <2>3 DEF SpopDurabilityEffects
    <3>2. r = SPop(c, e)
      BY <1>7, Dispatches
    <3>3. CASE e.type = "none"
      BY <3>1, <3>2, <3>3 DEF SPop, Result, Faithful
    <3>4. CASE e.type = "set"
      <4>1. r.entry = WithoutMembers(e, c.mem) /\ r.reply.mem = c.mem \cap e.mem
        BY <3>2, <3>4 DEF SPop, Result, Members
      <4>2. Faithful(c, e, now, r.entry, SpopDurabilityEffects(c, r.entry, r.reply))
        BY <3>4, <4>1, SpopFaithful
      <4>3. SpopDurabilityEffects(c, r.entry, r.reply) = <<>>
        BY <2>3 DEF SpopDurabilityEffects
      <4> QED BY <3>1, <4>2, <4>3
    <3>5. e.type \in {"none", "set"}
      BY <1>7, <3>2 DEF SPop, Result, Reply
    <3> QED BY <3>3, <3>4, <3>5
  <2> QED BY <2>2, <2>3
<1>8. CASE r.reply.kind # "err" /\ c.op \notin {"XADD", "SPOP"}
  <2>1. \/ k = CanonicalStringState(c, None)
        \/ k = CanonicalExpiryState(c, None)
        \/ k = IF RawCommandChangedState(c, r.reply) THEN <<c>> ELSE <<>>
    BY <1>8 DEF Capture
  <2> QED BY <1>2, <1>3, <1>5, <1>8, <2>1
<1> QED BY <1>1, <1>6, <1>7, <1>8

\* What the capture logs has the effect of the command, or leaves what the
\* capture found under the key at its last look.
LEMMA CaptureFaithful ==
    ASSUME NEW c \in Sendable, NEW e \in Stored, NEW now \in Nat, Purge(e, now) = e,
           NEW r, r = Handler(c, e, now), NEW seen \in {r.entry, None}, NEW after \in {seen, None},
           NEW k, k = Capture(c, seen, after, r.reply)
    PROVE  \E a \in {r.entry, after} : Faithful(c, e, now, a, k)
<1>1. CASE after = None
  BY <1>1, CaptureOfRemoved
<1>2. CASE after # None
  <2>1. seen = r.entry /\ after = r.entry
    BY <1>2
  <2> QED BY <2>1, CaptureOfLeft
<1> QED BY <1>1, <1>2

\* A command on the key of c.
OnKey(c, d) == d \in Sendable /\ d.db = c.db /\ d.key = c.key

\* One captured command on the key of c, or nothing.
Part(c, k) == k = <<>> \/ \E d : k = <<d>> /\ OnKey(c, d)

\* The canonical forms are commands on the key of the command.
LEMMA CanonicalForms ==
    ASSUME NEW c \in Sendable, NEW v \in Nat, NEW at \in Nat, NEW m \in SUBSET Nat
    PROVE  /\ OnKey(c, Cmd("DEL", c.db, c.key))
           /\ OnKey(c, [Cmd("SET", c.db, c.key) EXCEPT !.val = v, !.ms = at,
                            !.exp = IF at = 0 THEN "none" ELSE "absolute"])
           /\ OnKey(c, [Cmd("EXPIRE", c.db, c.key) EXCEPT !.exp = "absolute", !.ms = at])
           /\ OnKey(c, [Cmd("SREM", c.db, c.key) EXCEPT !.mem = m])
           /\ OnKey(c, [c EXCEPT !.val = v])
<1>1. c.db \in Dbs /\ c.key \in Keys /\ c \in CommandSet
  BY DEF Sendable, CommandSet
<1>2. \A op \in {"DEL", "SET", "EXPIRE", "SREM"} :
         LET b == Cmd(op, c.db, c.key)
         IN  b \in CommandSet /\ b.db = c.db /\ b.key = c.key /\ b.op = op
  BY <1>1 DEF Cmd, CommandSet, Ops
<1>3. OnKey(c, Cmd("DEL", c.db, c.key))
  BY <1>2 DEF OnKey, Sendable
<1>4. OnKey(c, [Cmd("SET", c.db, c.key) EXCEPT !.val = v, !.ms = at,
                    !.exp = IF at = 0 THEN "none" ELSE "absolute"])
  <2>1. PICK b : b = Cmd("SET", c.db, c.key)
    OBVIOUS
  <2>2. b \in CommandSet /\ b.db = c.db /\ b.key = c.key /\ b.op = "SET"
    BY <1>2, <2>1
  <2>3. OnKey(c, [b EXCEPT !.val = v, !.ms = at, !.exp = IF at = 0 THEN "none" ELSE "absolute"])
    BY <2>2 DEF OnKey, Sendable, CommandSet
  <2> QED BY <2>1, <2>3
<1>5. OnKey(c, [Cmd("EXPIRE", c.db, c.key) EXCEPT !.exp = "absolute", !.ms = at])
  <2>1. PICK b : b = Cmd("EXPIRE", c.db, c.key)
    OBVIOUS
  <2>2. b \in CommandSet /\ b.db = c.db /\ b.key = c.key /\ b.op = "EXPIRE"
    BY <1>2, <2>1
  <2>3. OnKey(c, [b EXCEPT !.exp = "absolute", !.ms = at])
    BY <2>2 DEF OnKey, Sendable, CommandSet
  <2> QED BY <2>1, <2>3
<1>6. OnKey(c, [Cmd("SREM", c.db, c.key) EXCEPT !.mem = m])
  <2>1. PICK b : b = Cmd("SREM", c.db, c.key)
    OBVIOUS
  <2>2. b \in CommandSet /\ b.db = c.db /\ b.key = c.key /\ b.op = "SREM"
    BY <1>2, <2>1
  <2>3. OnKey(c, [b EXCEPT !.mem = m])
    BY <2>2 DEF OnKey, Sendable, CommandSet
  <2> QED BY <2>1, <2>3
<1>7. OnKey(c, [c EXCEPT !.val = v])
  BY <1>1 DEF OnKey, Sendable, CommandSet
<1> QED BY <1>3, <1>4, <1>5, <1>6, <1>7

\* Whatever the capture finds under the key, it logs at most one command, on
\* that key.
LEMMA CaptureIsPart ==
    ASSUME NEW c \in Sendable, NEW x \in Stored, NEW now \in Nat, NEW seen, NEW after \in Stored,
           NEW reply, reply = Handler(c, x, now).reply, NEW k, k = Capture(c, seen, after, reply)
    PROVE  Part(c, k)
<1>1. after.val \in Nat /\ after.at \in Nat
  BY DEF Stored, EntrySet
<1>2. Part(c, <<>>) /\ Part(c, <<c>>) /\ \A d : OnKey(c, d) => Part(c, <<d>>)
  BY DEF Part, OnKey
<1>3. Part(c, CanonicalStringState(c, after))
  BY <1>1, <1>2, CanonicalForms DEF CanonicalStringState
<1>4. Part(c, CanonicalExpiryState(c, after))
  BY <1>1, <1>2, CanonicalForms DEF CanonicalExpiryState
<1>5. CASE reply.kind = "err"
  BY <1>2, <1>5 DEF Capture
<1>6. CASE reply.kind # "err" /\ c.op = "XADD"
  <2>1. reply = XAdd(c, x, now).reply
    BY <1>6, Dispatches
  <2>2. Faithful(c, x, now, XAdd(c, x, now).entry, CanonicalXAdd(c, reply))
    BY <1>6, <2>1, XAddFaithful
  <2>3. k = CanonicalXAdd(c, reply)
    BY <1>6 DEF Capture
  <2> QED BY <2>2, <2>3 DEF Faithful, SameEffect, Part, OnKey
<1>7. CASE reply.kind # "err" /\ c.op = "SPOP"
  <2>1. reply = SPop(c, x).reply
    BY <1>7, Dispatches
  <2>2. c.mem \in SUBSET Nat
    BY DEF Sendable, CommandSet
  <2>3. reply.mem \in SUBSET Nat
    BY <2>1, <2>2 DEF SPop, Result, Members, Reply
  <2>4. k = SpopDurabilityEffects(c, after, reply)
    BY <1>7 DEF Capture
  <2> QED BY <1>1, <1>2, <2>3, <2>4, CanonicalForms DEF SpopDurabilityEffects
<1>8. CASE reply.kind # "err" /\ c.op \notin {"XADD", "SPOP"}
  <2>1. \/ k = CanonicalStringState(c, after)
        \/ k = CanonicalExpiryState(c, after)
        \/ k = IF RawCommandChangedState(c, reply) THEN <<c>> ELSE <<>>
    BY <1>8 DEF Capture
  <2> QED BY <1>2, <1>3, <1>4, <2>1
<1> QED BY <1>5, <1>6, <1>7, <1>8

-----------------------------------------------------------------------------
(* Recovery, one command and one unit at a time.                             *)

\* One step of the recursion of ReplayCommands.
CommandStep(f, state, unit, i) ==
    IF i = 0 THEN state ELSE ReplayCommand(f[i - 1], unit.cmds[i], unit)

\* The recursion has a solution, so ReplayCommands is one.
LEMMA ReplayCommandsUnfolds ==
    ASSUME NEW state, NEW unit, Len(unit.cmds) \in Nat
    PROVE  ReplayCommands(state, unit)
             = [i \in 0 .. Len(unit.cmds) |-> CommandStep(ReplayCommands(state, unit), state, unit, i)]
<1> DEFINE n == Len(unit.cmds)
           Sol(f, m) == f = [i \in 0 .. m |-> CommandStep(f, state, unit, i)]
           P == {m \in Nat : \E f : Sol(f, m)}
<1>1. 0 \in P
  <2> DEFINE f0 == [i \in 0 .. 0 |-> state]
  <2>1. Sol(f0, 0)
    BY DEF CommandStep
  <2> QED BY <2>1
<1>2. ASSUME NEW m \in 1 .. n, m - 1 \in P PROVE m \in P
  <2>0. n \in Nat /\ m \in Nat /\ m # 0 /\ m - 1 \in Nat
    OBVIOUS
  <2>1. PICK f : Sol(f, m - 1)
    BY <1>2
  <2> DEFINE g == [i \in 0 .. m |-> IF i = m THEN CommandStep(f, state, unit, m) ELSE f[i]]
  <2>2. \A i \in 0 .. m - 1 : f[i] = CommandStep(f, state, unit, i)
    BY <2>1
  <2>3. ASSUME NEW i \in 0 .. m PROVE g[i] = CommandStep(g, state, unit, i)
    <3>1. i # 0 => i - 1 \in 0 .. m - 1 /\ g[i - 1] = f[i - 1]
      BY <2>0
    <3>2. CommandStep(g, state, unit, i) = CommandStep(f, state, unit, i)
      BY <3>1 DEF CommandStep
    <3> QED BY <2>0, <2>2, <3>2
  <2>4. Sol(g, m)
    <3>1. g = [i \in 0 .. m |-> g[i]]
      OBVIOUS
    <3> HIDE DEF g
    <3> QED BY <2>3, <3>1
  <2> QED BY <2>0, <2>4
<1>3. n \in P
  <2>1. n \in Nat
    OBVIOUS
  <2> HIDE DEF P, n
  <2>2. \A m \in 0 .. n : m \in P
    BY <1>1, <1>2, <2>1, InductionTo
  <2> QED BY <2>1, <2>2
<1>4. \E f : f = [i \in 0 .. n |-> CommandStep(f, state, unit, i)]
  BY <1>3
<1>5. ReplayCommands(state, unit) = CHOOSE f : f = [i \in 0 .. n |-> CommandStep(f, state, unit, i)]
  BY DEF ReplayCommands, CommandStep
<1> QED BY <1>4, <1>5, Zenon

\* The captures k with one more.
OneMore(k, d) == Append(k, d)

\* A unit with the captures k of a task.
UnitOf(time, tx, k) == [time |-> time, tx |-> tx, cmds |-> k]

\* What a unit makes of a state, one command after the other.
LEMMA CommandsRun ==
    ASSUME NEW s, NEW time, NEW tx, NEW k, Len(k) \in Nat, NEW run, run = ReplayCommands(s, UnitOf(time, tx, k))
    PROVE  /\ run[0] = s
           /\ \A i \in 1 .. Len(k) : run[i] = ReplayCommand(run[i - 1], k[i], UnitOf(time, tx, <<>>))
           /\ ReplayUnit(s, UnitOf(time, tx, k)) = run[Len(k)]
<1>1. PICK unit : unit = UnitOf(time, tx, k)
  OBVIOUS
<1>2. unit.cmds = k
  BY <1>1 DEF UnitOf
<1>3. \A x, c : ReplayCommand(x, c, unit) = ReplayCommand(x, c, UnitOf(time, tx, <<>>))
  BY <1>1 DEF ReplayCommand, UnitOf
<1>4. run = [i \in 0 .. Len(k) |-> CommandStep(run, s, unit, i)]
  BY <1>1, <1>2, ReplayCommandsUnfolds
<1>5. \A i \in 0 .. Len(k) : run[i] = CommandStep(run, s, unit, i)
  BY <1>4
<1>6. run[0] = s
  <2>1. 0 \in 0 .. Len(k)
    OBVIOUS
  <2> QED BY <1>5, <2>1 DEF CommandStep
<1>7. ASSUME NEW i \in 1 .. Len(k) PROVE run[i] = ReplayCommand(run[i - 1], k[i], UnitOf(time, tx, <<>>))
  <2>1. i # 0 /\ i \in 0 .. Len(k)
    OBVIOUS
  <2>2. run[i] = ReplayCommand(run[i - 1], k[i], unit)
    BY <1>2, <1>5, <2>1, Zenon DEF CommandStep
  <2> QED BY <1>3, <2>2
<1>8. ReplayUnit(s, UnitOf(time, tx, k)) = run[Len(k)]
  BY <1>1, <1>2 DEF ReplayUnit
<1> QED BY <1>6, <1>7, <1>8

\* A unit without commands changes nothing.
LEMMA ReplayUnitEmpty ==
    ASSUME NEW s, NEW time, NEW tx
    PROVE  ReplayUnit(s, UnitOf(time, tx, <<>>)) = s
<1>1. Len(<<>>) = 0
  OBVIOUS
<1> QED BY <1>1, CommandsRun

\* One more command is replayed on what the commands before it gave.
LEMMA ReplayUnitOneMore ==
    ASSUME NEW s, NEW time, NEW tx, NEW k \in Seq(Sendable), NEW d \in Sendable
    PROVE  ReplayUnit(s, UnitOf(time, tx, OneMore(k, d)))
             = ReplayCommand(ReplayUnit(s, UnitOf(time, tx, k)), d, UnitOf(time, tx, <<>>))
<1>1. PICK l : l = OneMore(k, d)
  OBVIOUS
<1>2. PICK n \in Nat : n = Len(k)
  OBVIOUS
<1>3. PICK f : f = ReplayCommands(s, UnitOf(time, tx, k))
  OBVIOUS
<1>4. PICK g : g = ReplayCommands(s, UnitOf(time, tx, l))
  OBVIOUS
<1>5. PICK u : u = UnitOf(time, tx, <<>>)
  OBVIOUS
<1>6. Len(l) = n + 1 /\ l[n + 1] = d /\ \A i \in 1 .. n : l[i] = k[i]
  BY <1>1, <1>2 DEF OneMore
<1>7. f[0] = s /\ (\A i \in 1 .. n : f[i] = ReplayCommand(f[i - 1], k[i], u))
      /\ ReplayUnit(s, UnitOf(time, tx, k)) = f[n]
  BY <1>2, <1>3, <1>5, CommandsRun
<1>8. g[0] = s /\ (\A i \in 1 .. n + 1 : g[i] = ReplayCommand(g[i - 1], l[i], u))
      /\ ReplayUnit(s, UnitOf(time, tx, l)) = g[n + 1]
  <2>1. Len(l) \in Nat
    BY <1>6
  <2> QED BY <1>4, <1>5, <1>6, <2>1, CommandsRun
<1> DEFINE P == {i \in Nat : g[i] = f[i]}
<1>9. 0 \in P
  BY <1>7, <1>8
<1>10. ASSUME NEW i \in 1 .. n, i - 1 \in P PROVE i \in P
  <2>1. i \in 1 .. n + 1 /\ i \in Nat
    OBVIOUS
  <2> QED BY <1>6, <1>7, <1>8, <1>10, <2>1
<1>11. g[n] = f[n]
  <2> HIDE DEF P
  <2>1. \A i \in 0 .. n : i \in P
    BY <1>9, <1>10, InductionTo
  <2>2. n \in P
    BY <2>1
  <2> QED BY <2>2 DEF P
<1>12. n + 1 \in 1 .. n + 1 /\ (n + 1) - 1 = n
  OBVIOUS
<1>13. g[n + 1] = ReplayCommand(f[n], d, u)
  BY <1>6, <1>8, <1>11, <1>12
<1> QED BY <1>1, <1>5, <1>7, <1>8, <1>13

\* One step of the recursion of ReplayUnits.
UnitStep(f, l, i) == IF i = 0 THEN [data |-> Empty, ok |-> TRUE] ELSE ReplayUnit(f[i - 1], l[i])

\* The recursion has a solution, so ReplayUnits is one.
LEMMA ReplayUnitsUnfolds ==
    ASSUME NEW l, Len(l) \in Nat
    PROVE  ReplayUnits(l) = [i \in 0 .. Len(l) |-> UnitStep(ReplayUnits(l), l, i)]
<1> DEFINE n == Len(l)
           Sol(f, m) == f = [i \in 0 .. m |-> UnitStep(f, l, i)]
           P == {m \in Nat : \E f : Sol(f, m)}
<1>1. 0 \in P
  <2> DEFINE f0 == [i \in 0 .. 0 |-> [data |-> Empty, ok |-> TRUE]]
  <2>1. Sol(f0, 0)
    BY DEF UnitStep
  <2> QED BY <2>1
<1>2. ASSUME NEW m \in 1 .. n, m - 1 \in P PROVE m \in P
  <2>0. n \in Nat /\ m \in Nat /\ m # 0 /\ m - 1 \in Nat
    OBVIOUS
  <2>1. PICK f : Sol(f, m - 1)
    BY <1>2
  <2> DEFINE g == [i \in 0 .. m |-> IF i = m THEN UnitStep(f, l, m) ELSE f[i]]
  <2>2. \A i \in 0 .. m - 1 : f[i] = UnitStep(f, l, i)
    BY <2>1
  <2>3. ASSUME NEW i \in 0 .. m PROVE g[i] = UnitStep(g, l, i)
    <3>1. i # 0 => i - 1 \in 0 .. m - 1 /\ g[i - 1] = f[i - 1]
      BY <2>0
    <3>2. UnitStep(g, l, i) = UnitStep(f, l, i)
      BY <3>1 DEF UnitStep
    <3> QED BY <2>0, <2>2, <3>2
  <2>4. Sol(g, m)
    <3>1. g = [i \in 0 .. m |-> g[i]]
      OBVIOUS
    <3> HIDE DEF g
    <3> QED BY <2>3, <3>1
  <2> QED BY <2>0, <2>4
<1>3. n \in P
  <2>1. n \in Nat
    OBVIOUS
  <2> HIDE DEF P, n
  <2>2. \A m \in 0 .. n : m \in P
    BY <1>1, <1>2, <2>1, InductionTo
  <2> QED BY <2>1, <2>2
<1>4. \E f : f = [i \in 0 .. n |-> UnitStep(f, l, i)]
  BY <1>3
<1>5. ReplayUnits(l) = CHOOSE f : f = [i \in 0 .. n |-> UnitStep(f, l, i)]
  BY DEF ReplayUnits, UnitStep
<1> QED BY <1>4, <1>5, Zenon

\* What recovery makes of a whole log.
ReplayLog(l) == ReplayUnits(l)[Len(l)]

\* An empty log is the empty keyspace, and one more unit is replayed on what
\* the log before it gave.
LEMMA ReplayLogSteps ==
    /\ ReplayLog(<<>>) = [data |-> Empty, ok |-> TRUE]
    /\ \A l \in Seq(Units), u \in Units : ReplayLog(Append(l, u)) = ReplayUnit(ReplayLog(l), u)
<1>1. ASSUME NEW l, Len(l) \in Nat
      PROVE  /\ ReplayUnits(l)[0] = [data |-> Empty, ok |-> TRUE]
             /\ \A i \in 1 .. Len(l) : ReplayUnits(l)[i] = ReplayUnit(ReplayUnits(l)[i - 1], l[i])
  <2> DEFINE run == ReplayUnits(l)
  <2>1. run = [i \in 0 .. Len(l) |-> UnitStep(run, l, i)]
    BY <1>1, ReplayUnitsUnfolds
  <2> HIDE DEF run
  <2>2. \A i \in 0 .. Len(l) : run[i] = UnitStep(run, l, i)
    BY <2>1
  <2>3. /\ run[0] = [data |-> Empty, ok |-> TRUE]
        /\ \A i \in 1 .. Len(l) : run[i] = ReplayUnit(run[i - 1], l[i])
    <3>1. 0 \in 0 .. Len(l)
      BY <1>1
    <3>2. run[0] = [data |-> Empty, ok |-> TRUE]
      BY <2>2, <3>1 DEF UnitStep
    <3>3. ASSUME NEW i \in 1 .. Len(l) PROVE run[i] = ReplayUnit(run[i - 1], l[i])
      <4>1. i # 0 /\ i \in 0 .. Len(l)
        BY <1>1
      <4> QED BY <2>2, <4>1, Zenon DEF UnitStep
    <3> QED BY <3>2, <3>3
  <2> QED BY <2>3 DEF run
<1>2. ReplayLog(<<>>) = [data |-> Empty, ok |-> TRUE]
  <2>1. Len(<<>>) = 0
    OBVIOUS
  <2> QED BY <1>1, <2>1 DEF ReplayLog
<1>3. ASSUME NEW l \in Seq(Units), NEW u \in Units
      PROVE  ReplayLog(Append(l, u)) = ReplayUnit(ReplayLog(l), u)
  <2> DEFINE k == Append(l, u)
             n == Len(l)
  <2>1. n \in Nat /\ Len(k) = n + 1 /\ k[n + 1] = u /\ \A i \in 1 .. n : k[i] = l[i]
    OBVIOUS
  <2> DEFINE P == {i \in Nat : ReplayUnits(k)[i] = ReplayUnits(l)[i]}
  <2> HIDE DEF k, n
  <2>2. 0 \in P
    BY <1>1, <2>1 DEF n
  <2>3. ASSUME NEW i \in 1 .. n, i - 1 \in P PROVE i \in P
    <3>0. i \in 1 .. Len(k) /\ Len(k) \in Nat
      BY <2>1
    <3>1. ReplayUnits(k)[i] = ReplayUnit(ReplayUnits(k)[i - 1], k[i])
      BY <1>1, <3>0
    <3>2. ReplayUnits(l)[i] = ReplayUnit(ReplayUnits(l)[i - 1], l[i])
      BY <1>1, <2>1 DEF n
    <3>3. ReplayUnits(k)[i - 1] = ReplayUnits(l)[i - 1] /\ k[i] = l[i] /\ i \in Nat
      BY <2>1, <2>3
    <3> QED BY <3>1, <3>2, <3>3
  <2>4. n \in P
    <3> HIDE DEF P
    <3>1. n \in Nat
      BY <2>1
    <3>2. \A i \in 0 .. n : i \in P
      BY <2>2, <2>3, <3>1, InductionTo
    <3> QED BY <3>1, <3>2
  <2>5. ReplayUnits(k)[n + 1] = ReplayUnit(ReplayUnits(k)[n], u)
    <3>1. n + 1 \in 1 .. Len(k) /\ (n + 1) - 1 = n
      BY <2>1
    <3>2. ReplayUnits(k)[n + 1] = ReplayUnit(ReplayUnits(k)[(n + 1) - 1], k[n + 1])
      BY <1>1, <2>1, <3>1
    <3> QED BY <2>1, <3>1, <3>2
  <2>6. ReplayUnits(k)[n] = ReplayUnits(l)[n]
    BY <2>4
  <2>7. ReplayLog(k) = ReplayUnit(ReplayLog(l), u)
    BY <2>1, <2>5, <2>6 DEF ReplayLog, n
  <2> QED BY <2>7 DEF k
<1> QED BY <1>2, <1>3

-----------------------------------------------------------------------------
(* The live keyspace and the replayed one, side by side.                     *)

\* No client can tell two keyspaces apart by a key that is not in S, nor can a
\* command at the frozen clock by a key in A.
Alike(D, L, S, A, time, now) ==
    \A d \in Dbs, k \in Keys :
        <<d, k>> \notin S =>
            LET t == IF <<d, k>> \in A THEN time ELSE now
            IN  Purge(D[d][k], t) = Purge(L[d][k], t)

-----------------------------------------------------------------------------
(* Lemmas on the keyspaces.                                                  *)

\* What is expired stays so, and what looks alike at one moment does later on.
LEMMA PurgeLater ==
    ASSUME NEW x \in Stored, NEW y \in Stored, NEW t \in Nat, NEW u \in Nat, t <= u
    PROVE  /\ Expired(x, t) => Expired(x, u)
           /\ Purge(x, t) = Purge(y, t) => Purge(x, u) = Purge(y, u)
           /\ Purge(Purge(x, t), u) = Purge(x, u)
<1>1. x.at \in Nat /\ y.at \in Nat
  BY DEF Stored, EntrySet
<1>2. \A e : e.at \in Nat /\ Expired(e, t) => Expired(e, u)
  BY DEF Expired
<1>3. ~Expired(None, u)
  BY DEF Expired, None
<1> QED BY <1>1, <1>2, <1>3 DEF Purge

\* Alike now is alike later, with more keys left out and fewer ahead.
LEMMA AlikeLater ==
    ASSUME NEW D \in Keyspaces, NEW L \in Keyspaces, NEW S, NEW S2, S \subseteq S2, NEW A, NEW A2, A2 \subseteq A,
           NEW time \in Nat, NEW now \in Nat, NEW now2 \in Nat, time <= now, now <= now2,
           Alike(D, L, S, A, time, now)
    PROVE  Alike(D, L, S2, A2, time, now2)
<1> SUFFICES ASSUME NEW d \in Dbs, NEW k \in Keys, <<d, k>> \notin S2,
                    NEW u, u = IF <<d, k>> \in A2 THEN time ELSE now2
             PROVE  Purge(D[d][k], u) = Purge(L[d][k], u)
  BY DEF Alike
<1>1. PICK t : t = IF <<d, k>> \in A THEN time ELSE now
  OBVIOUS
<1>2. Purge(D[d][k], t) = Purge(L[d][k], t)
  BY <1>1 DEF Alike
<1>3. t \in Nat /\ u \in Nat /\ t <= u
  BY <1>1
<1>4. D[d][k] \in Stored /\ L[d][k] \in Stored
  BY DEF Keyspaces
<1> QED BY <1>2, <1>3, <1>4, PurgeLater

\* A task that starts sees the present clock.
LEMMA AlikeFrozen ==
    ASSUME NEW D, NEW L, NEW S, NEW A, NEW time, NEW now, Alike(D, L, S, {}, time, now)
    PROVE  Alike(D, L, S, A, now, now)
BY DEF Alike

\* A change of one key keeps two keyspaces alike if it is left out, or is itself
\* alike.
LEMMA AlikeBut ==
    ASSUME NEW D, NEW L, NEW E, NEW M, NEW S, NEW S2, NEW A, NEW time, NEW now,
           NEW b, NEW x, S \subseteq S2 \cup {<<b, x>>}, Alike(D, L, S, A, time, now),
           \A d \in Dbs, k \in Keys : <<d, k>> # <<b, x>> => E[d][k] = D[d][k] /\ M[d][k] = L[d][k],
           NEW t, t = IF <<b, x>> \in A THEN time ELSE now,
           <<b, x>> \notin S2 => Purge(E[b][x], t) = Purge(M[b][x], t)
    PROVE  Alike(E, M, S2, A, time, now)
<1> SUFFICES ASSUME NEW d \in Dbs, NEW k \in Keys, <<d, k>> \notin S2,
                    NEW u, u = IF <<d, k>> \in A THEN time ELSE now
             PROVE  Purge(E[d][k], u) = Purge(M[d][k], u)
  BY DEF Alike
<1>1. CASE <<d, k>> = <<b, x>>
  BY <1>1
<1>2. CASE <<d, k>> # <<b, x>>
  BY <1>2 DEF Alike
<1> QED BY <1>1, <1>2

\* Writing one key of a keyspace.
LEMMA WriteFacts ==
    ASSUME NEW c \in Sendable, NEW data \in Keyspaces, NEW e \in Stored
    PROVE  /\ Write(data, c, e) \in Keyspaces
           /\ Write(data, c, e)[c.db][c.key] = e
           /\ \A d \in Dbs, k \in Keys : <<d, k>> # Slot(c) => Write(data, c, e)[d][k] = data[d][k]
<1>1. c.db \in Dbs /\ c.key \in Keys
  BY DEF Sendable, CommandSet
<1> QED BY <1>1 DEF Write, Keyspaces, Slot

\* Removing one key of a keyspace.
LEMMA RemoveFacts ==
    ASSUME NEW data \in Keyspaces, NEW b \in Dbs, NEW x \in Keys
    PROVE  /\ [data EXCEPT ![b][x] = None] \in Keyspaces
           /\ \A d \in Dbs, k \in Keys : <<d, k>> # <<b, x>> => [data EXCEPT ![b][x] = None][d][k] = data[d][k]
BY StoredBasics DEF Keyspaces

\* Running a command on a keyspace leaves a stored value.
LEMMA RunStores ==
    ASSUME NEW c \in Sendable, NEW data \in Keyspaces, NEW now \in Nat
    PROVE  /\ data[c.db][c.key] \in Stored
           /\ Run(c, data, now).entry \in Stored
           /\ Write(data, c, Run(c, data, now).entry) \in Keyspaces
<1>1. c.db \in Dbs /\ c.key \in Keys
  BY DEF Sendable, CommandSet
<1>2. data[c.db][c.key] \in Stored
  BY <1>1 DEF Keyspaces
<1>3. Purge(data[c.db][c.key], now) \in Stored
  BY <1>2, PurgeFacts
<1>4. Run(c, data, now).entry \in Stored
  BY <1>3, HandlerStores DEF Run
<1> QED BY <1>2, <1>4, WriteFacts

\* The part of a unit that one command captured, replayed.
ReplayCaptured(s, cmds, unit) == IF cmds = <<>> THEN s ELSE ReplayCommand(s, cmds[1], unit)

\* Whatever was captured of c, its replay changes the key of c at most.
LEMMA PartReplays ==
    ASSUME NEW c \in Sendable, NEW k, Part(c, k), NEW s, s.data \in Keyspaces, NEW unit, unit.time \in Nat,
           NEW q, q = ReplayCaptured(s, k, unit)
    PROVE  /\ q.data \in Keyspaces
           /\ \A b \in Dbs, x \in Keys : <<b, x>> # Slot(c) => q.data[b][x] = s.data[b][x]
<1>1. CASE k = <<>>
  BY <1>1 DEF ReplayCaptured
<1>2. ASSUME NEW d, k = <<d>>, OnKey(c, d)
      PROVE  /\ q.data \in Keyspaces
             /\ \A b \in Dbs, x \in Keys : <<b, x>> # Slot(c) => q.data[b][x] = s.data[b][x]
  <2>1. k # <<>> /\ k[1] = d
    BY <1>2
  <2>2. q = ReplayCommand(s, d, unit)
    BY <2>1 DEF ReplayCaptured
  <2> DEFINE e == Run(d, s.data, unit.time).entry
  <2>3. q.data = Write(s.data, d, e)
    BY <2>2 DEF ReplayCommand
  <2>4. d \in Sendable /\ Slot(d) = Slot(c)
    BY <1>2 DEF OnKey, Slot
  <2>5. e \in Stored
    BY <2>4, RunStores
  <2> HIDE DEF e
  <2> QED BY <2>3, <2>4, <2>5, WriteFacts
<1> QED BY <1>1, <1>2 DEF Part

\* q is the replay, on s, of what was captured of c, which ran where it finds
\* what replay finds; what c left and what the capture saw last are alike from t.
Ran(c, s, unit, seen, after, t, q) ==
    LET r == Handler(c, Purge(s.data[c.db][c.key], unit.time), unit.time)
    IN  /\ seen \in {r.entry, None} /\ after \in {seen, None}
        /\ Purge(r.entry, t) = Purge(after, t)
        /\ q = ReplayCaptured(s, Capture(c, seen, after, r.reply), unit)

\* Then replay accepts it, and the key is alike again from t on.
LEMMA CapturedReplays ==
    ASSUME NEW c \in Sendable, NEW s, s.data \in Keyspaces, NEW unit, unit.time \in Nat, NEW seen, NEW after,
           NEW t \in Nat, unit.time <= t, NEW q, Ran(c, s, unit, seen, after, t, q)
    PROVE  (s.ok => q.ok) /\ Purge(q.data[c.db][c.key], t) = Purge(after, t)
<1>1. PICK time \in Nat : time = unit.time
  OBVIOUS
<1>2. PICK x : x = Purge(s.data[c.db][c.key], time)
  OBVIOUS
<1>3. PICK r : r = Handler(c, x, time)
  OBVIOUS
<1>4. PICK k : k = Capture(c, seen, after, r.reply)
  OBVIOUS
<1>5. /\ seen \in {r.entry, None} /\ after \in {seen, None}
      /\ Purge(r.entry, t) = Purge(after, t)
      /\ q = ReplayCaptured(s, k, unit)
  BY <1>1, <1>2, <1>3, <1>4 DEF Ran
<1>6. c.db \in Dbs /\ c.key \in Keys
  BY DEF Sendable, CommandSet
<1>7. s.data[c.db][c.key] \in Stored
  BY <1>6 DEF Keyspaces
<1>8. x \in Stored /\ Purge(x, time) = x /\ Purge(x, t) = Purge(s.data[c.db][c.key], t)
  BY <1>7, <1>1, <1>2, PurgeFacts, PurgeLater
<1>9. PICK a \in {r.entry, after} : Faithful(c, x, time, a, k)
  BY <1>8, <1>3, <1>4, <1>5, CaptureFaithful
<1>10. Purge(a, t) = Purge(after, t)
  BY <1>9, <1>5
<1>11. CASE k = <<>> /\ a = x
  <2>1. q = s
    BY <1>11, <1>5 DEF ReplayCaptured
  <2> QED BY <1>8, <1>10, <1>11, <2>1
<1>12. ASSUME NEW d, k = <<d>>, SameEffect(c, d, x, time, a)
      PROVE  (s.ok => q.ok) /\ Purge(q.data[c.db][c.key], t) = Purge(after, t)
  <2>1. d \in Sendable /\ d.db = c.db /\ d.key = c.key
        /\ Handler(d, x, time).entry = a /\ Handler(d, x, time).reply.kind # "err"
    BY <1>12 DEF SameEffect
  <2>2. k # <<>> /\ k[1] = d
    BY <1>12
  <2>3. q = ReplayCommand(s, d, unit)
    BY <1>5, <2>2 DEF ReplayCaptured
  <2> DEFINE h == Run(d, s.data, unit.time)
  <2>4. h = Handler(d, x, time)
    BY <1>1, <1>2, <2>1 DEF Run
  <2>5. h.entry = a /\ h.reply.kind # "err"
    BY <2>1, <2>4
  <2>6. q = [data |-> Write(s.data, d, h.entry), ok |-> s.ok /\ (unit.tx \/ h.reply.kind # "err")]
    BY <2>3 DEF ReplayCommand
  <2> HIDE DEF h
  <2>7. q.data = Write(s.data, d, a) /\ q.ok = (s.ok /\ (unit.tx \/ h.reply.kind # "err"))
    BY <2>5, <2>6
  <2>8. a \in Stored
    BY <1>8, <2>1, HandlerStores
  <2>9. q.data[c.db][c.key] = a
    <3>1. Write(s.data, d, a)[d.db][d.key] = a
      BY <2>1, <2>8, WriteFacts
    <3> QED BY <2>1, <2>7, <3>1
  <2>10. s.ok => q.ok
    BY <2>5, <2>7, Zenon
  <2> QED BY <1>10, <2>9, <2>10
<1> QED BY <1>9, <1>11, <1>12 DEF Faithful

-----------------------------------------------------------------------------
(* The invariant.                                                            *)

LogTypes ==
    /\ log \in Seq(Units)
    /\ \A i \in 1 .. Len(log) : log[i].cmds # <<>> /\ log[i].time \in 1 .. clock

ScalarTypes ==
    /\ clock \in 1 .. MaxClock
    /\ units \in 0 .. MaxUnits
    /\ protected \in BOOLEAN
    /\ strayed \subseteq Dbs \X Keys

TaskTypes ==
    /\ task \in [stage : {"idle", "run", "capture"}, time : 0 .. clock, todo : Seq(Sendable),
                 cmds : Seq(Sendable), tx : BOOLEAN, logged : BOOLEAN, reset : BOOLEAN,
                 reply : {task.reply}]
    /\ task = Idle \/ (task.stage # "idle" /\ task.todo # <<>> /\ task.time # 0)

\* What recovery would give if the captures of the task were already in the log.
Pending == ReplayUnit(Replayed, UnitOf(task.time, task.tx, task.cmds))

\* The key between the handler of a command and the end of its capture
Open == IF task.stage = "capture" THEN {Slot(Head(task.todo))} ELSE {}

\* What recovery would give is what clients see but for the keys that strayed,
\* and the key whose capture is under way; a key that a command is yet to use is
\* also the same to that command, which sees the frozen clock.
Recoverable ==
    /\ Replayed.data \in Keyspaces
    /\ Pending.data \in Keyspaces
    /\ strayed = {} => Pending.ok
    /\ Alike(Pending.data, live, strayed \cup Open, Ahead, task.time, clock)

\* The handler of c found x, at the frozen clock what replay will find, and
\* answered.  What it left is still there, or was removed by its deadline, which
\* the frozen clock has reached if a command is yet to use the key.
Handled(c, x) ==
    LET r == Handler(c, x, task.time)
        here == live[c.db][c.key]
    IN  /\ Purge(x, task.time) = x
        /\ task.reply = r.reply
        /\ Slot(c) \notin strayed =>
              /\ task.logged
              /\ x = Purge(Pending.data[c.db][c.key], task.time)
              /\ \/ here = r.entry
                 \/ /\ here = None
                    /\ Expired(r.entry, IF Slot(c) \in Ahead THEN task.time ELSE clock)

Capturable == task.stage = "capture" => \E x \in Stored : Handled(Head(task.todo), x)

EffectsInv ==
    /\ live \in Keyspaces
    /\ LogTypes
    /\ ScalarTypes
    /\ TaskTypes
    /\ Recoverable
    /\ Capturable

-----------------------------------------------------------------------------
(* Facts that the steps share.                                               *)

\* The log that replay reads, as an operator of the log.
LEMMA ReplayedIsReplayLog ==
    Replayed = ReplayLog(log) /\ Replayed' = ReplayLog(log')
BY DEF Replayed, ReplayLog

\* Between two tasks no key is ahead or open, and nothing is pending.
LEMMA IdleFacts ==
    /\ task = Idle => Ahead = {} /\ Open = {} /\ Pending = Replayed
    /\ task' = Idle => Ahead' = {} /\ Open' = {} /\ Pending' = Replayed'
<1>1. Idle.stage = "idle" /\ Idle.todo = <<>> /\ Idle.cmds = <<>> /\ Len(<<>>) = 0
  BY DEF Idle
<1>2. 2 .. 0 = {}
  OBVIOUS
<1>3. ASSUME task = Idle PROVE Ahead = {} /\ Open = {} /\ Pending = Replayed
  BY <1>1, <1>2, <1>3, ReplayUnitEmpty DEF Ahead, Open, Pending
<1>4. ASSUME task' = Idle PROVE Ahead' = {} /\ Open' = {} /\ Pending' = Replayed'
  <2>1. Ahead' = {} /\ Open' = {}
    BY <1>1, <1>2, <1>4 DEF Ahead, Open
  <2>2. Pending' = ReplayUnit(Replayed', UnitOf(task'.time, task'.tx, task'.cmds))
    BY DEF Pending
  <2> QED BY <1>1, <1>4, <2>1, <2>2, ReplayUnitEmpty
<1> QED BY <1>3, <1>4

\* The idle task has its types, at any clock.
LEMMA IdleTypes == (task' = Idle /\ clock' \in Nat) => TaskTypes'
<1> SUFFICES ASSUME task' = Idle, clock' \in Nat PROVE TaskTypes'
  OBVIOUS
<1>1. 0 \in 0 .. clock' /\ <<>> \in Seq(Sendable) /\ FALSE \in BOOLEAN
  OBVIOUS
<1> QED BY <1>1 DEF TaskTypes, Idle

\* What the invariant says that the steps below use.
LEMMA EffectsFacts ==
    ASSUME EffectsInv
    PROVE  /\ live \in Keyspaces /\ Replayed.data \in Keyspaces /\ Pending.data \in Keyspaces
           /\ clock \in Nat /\ clock \in 1 .. MaxClock /\ task.time \in Nat /\ task.time <= clock
           /\ units \in 0 .. MaxUnits /\ protected \in BOOLEAN /\ strayed \subseteq Dbs \X Keys
           /\ strayed = {} => Pending.ok
           /\ Alike(Pending.data, live, strayed \cup Open, Ahead, task.time, clock)
<1>1. clock \in Nat
  BY EffectsAssumption DEF EffectsInv, ScalarTypes
<1>2. task.time \in 0 .. clock
  BY DEF EffectsInv, TaskTypes
<1> QED BY <1>1, <1>2 DEF EffectsInv, Recoverable, ScalarTypes

\* A step that leaves the log alone leaves what recovery would give alone, and
\* what is pending if it leaves the captures of the task alone.
LEMMA LogAlone ==
    ASSUME EffectsInv, log' = log, clock' \in Nat, clock' >= clock
    PROVE  /\ Replayed' = Replayed /\ LogTypes'
           /\ task'.time = task.time /\ task'.tx = task.tx /\ task'.cmds = task.cmds => Pending' = Pending
<1>1. Replayed' = Replayed
  BY ReplayedIsReplayLog
<1>2. clock \in Nat
  BY EffectsFacts
<1>3. \A t \in 1 .. clock : t \in 1 .. clock'
  BY <1>2
<1>4. LogTypes'
  BY <1>3 DEF EffectsInv, LogTypes
<1> QED BY <1>1, <1>4 DEF Pending

\* The commands that clients send are sendable, and so are the queues.
LEMMA CommandsSendable ==
    /\ Commands \subseteq Sendable
    /\ \A c \in Commands : <<c>> \in Seq(Sendable) /\ <<c>> # <<>>
    /\ \A q \in Queues : q \in Seq(Sendable) /\ q # <<>>
<1>1. Commands \subseteq Sendable
  BY CommandsAssumption DEF Sendable
<1>2. \A q \in Seq(Commands) : q \in Seq(Sendable)
  BY <1>1
<1> QED BY <1>1, <1>2, CommandsAssumption

\* A step in which only the keyspace, the strayed keys and the scalars change:
\* what is left to show.
LEMMA KeyspaceStep ==
    ASSUME EffectsInv, log' = log, task' = task, clock' \in Nat, clock' >= clock, ScalarTypes',
           live' \in Keyspaces, strayed \subseteq strayed',
           Alike(Pending.data, live', strayed' \cup Open, Ahead, task.time, clock'),
           Capturable'
    PROVE  EffectsInv'
<1>1. Replayed' = Replayed /\ LogTypes' /\ Pending' = Pending
  BY LogAlone
<1>2. Ahead' = Ahead /\ Open' = Open
  BY DEF Ahead, Open
<1>3. \A n \in 0 .. clock : n \in 0 .. clock'
  BY EffectsFacts
<1>4. TaskTypes'
  <2>1. task.time \in 0 .. clock'
    BY <1>3 DEF EffectsInv, TaskTypes
  <2> QED BY <2>1 DEF EffectsInv, TaskTypes
<1>5. strayed' = {} => Pending.ok
  BY EffectsFacts
<1>6. Recoverable'
  BY <1>1, <1>2, <1>5, EffectsFacts DEF Recoverable
<1> QED BY <1>1, <1>4, <1>6 DEF EffectsInv

\* Nothing is being captured between two tasks.
LEMMA IdleCapturable == (task' = Idle \/ task'.stage = "run") => Capturable'
BY DEF Capturable, Idle

\* The server starts with an empty keyspace and an empty log.
LEMMA EffectsInitially == Init => EffectsInv
<1> SUFFICES ASSUME Init PROVE EffectsInv
  OBVIOUS
<1>1. Empty \in Keyspaces
  BY StoredBasics DEF Empty, Keyspaces
<1>2. Replayed = [data |-> Empty, ok |-> TRUE]
  BY ReplayedIsReplayLog, ReplayLogSteps DEF Init
<1>3. Replayed.data = Empty /\ Replayed.ok
  BY <1>2
<1>4. Ahead = {} /\ Open = {} /\ Pending = Replayed
  BY IdleFacts DEF Init
<1>5. Alike(Pending.data, live, strayed \cup Open, Ahead, task.time, clock)
  BY <1>3, <1>4 DEF Alike, Init
<1>6. LogTypes
  <2>1. log = <<>>
    BY DEF Init
  <2> QED BY <2>1 DEF LogTypes
<1>7. ScalarTypes
  <2>1. clock \in 1 .. MaxClock /\ units \in 0 .. MaxUnits
    BY EffectsAssumption DEF Init
  <2>2. protected \in BOOLEAN /\ strayed \subseteq Dbs \X Keys
    BY Zenon DEF Init
  <2> QED BY <2>1, <2>2 DEF ScalarTypes
<1>8. TaskTypes
  <2>1. task = Idle /\ clock = 1
    BY DEF Init
  <2>2. 0 \in 0 .. 1 /\ <<>> \in Seq(Sendable) /\ FALSE \in BOOLEAN
    OBVIOUS
  <2> QED BY <2>1, <2>2 DEF TaskTypes, Idle
<1>9. Capturable
  BY DEF Capturable, Init, Idle
<1>10. Recoverable
  BY <1>1, <1>3, <1>4, <1>5 DEF Recoverable
<1> QED BY <1>1, <1>6, <1>7, <1>8, <1>9, <1>10 DEF EffectsInv, Init

-----------------------------------------------------------------------------
(* The steps.                                                                *)

\* A task starts: the clock is frozen, and so far everybody sees the same.
LEMMA BeginKeeps ==
    ASSUME EffectsInv, NEW todo \in Seq(Sendable), todo # <<>>, NEW tx \in BOOLEAN, NEW logged \in BOOLEAN,
           NEW reset \in BOOLEAN, Begin(todo, tx, logged, reset)
    PROVE  EffectsInv'
<1>1. task = Idle /\ live' = live /\ log' = log /\ clock' = clock /\ protected' = protected /\ strayed' = strayed
  BY DEF Begin
<1>2. task' = [stage |-> "run", time |-> clock, todo |-> todo, cmds |-> <<>>, tx |-> tx,
               logged |-> logged, reset |-> reset, reply |-> Reply("nil")]
  BY DEF Begin
<1>3. units' \in 0 .. MaxUnits
  <2>1. Len(todo) \in Nat /\ units' = units + Len(todo) /\ units + Len(todo) <= MaxUnits
    BY DEF Begin, Room
  <2> QED BY <2>1, EffectsFacts, EffectsAssumption
<1>4. clock' \in Nat /\ clock' >= clock
  BY <1>1, EffectsFacts
<1>5. Replayed' = Replayed /\ LogTypes'
  BY <1>1, <1>4, LogAlone
<1>6. Ahead = {} /\ Open = {} /\ Pending = Replayed
  BY <1>1, IdleFacts
<1>7. Pending' = Replayed /\ Open' = {}
  <2>1. Pending' = ReplayUnit(Replayed', UnitOf(task'.time, task'.tx, task'.cmds))
    BY DEF Pending
  <2>2. task'.cmds = <<>> /\ task'.stage = "run"
    BY <1>2
  <2> QED BY <1>5, <2>1, <2>2, ReplayUnitEmpty DEF Open
<1>8. Alike(Pending'.data, live', strayed' \cup Open', Ahead', task'.time, clock')
  <2>1. Alike(Replayed.data, live, strayed, {}, task.time, clock)
    BY <1>6, EffectsFacts
  <2>2. task'.time = clock /\ strayed' \cup Open' = strayed
    BY <1>1, <1>2, <1>7
  <2>3. Alike(Replayed.data, live, strayed, Ahead', clock, clock)
    BY <2>1, AlikeFrozen
  <2> QED BY <1>1, <1>7, <2>2, <2>3
<1>9. Recoverable'
  BY <1>1, <1>5, <1>6, <1>7, <1>8, EffectsFacts DEF Recoverable
<1>10. TaskTypes'
  <2>1. clock \in 0 .. clock' /\ clock # 0 /\ <<>> \in Seq(Sendable)
    BY <1>1, EffectsFacts
  <2> QED BY <1>2, <2>1 DEF TaskTypes
<1>11. ScalarTypes'
  BY <1>1, <1>3 DEF EffectsInv, ScalarTypes
<1>12. Capturable'
  BY <1>2 DEF Capturable
<1> QED BY <1>1, <1>5, <1>9, <1>10, <1>11, <1>12 DEF EffectsInv

\* The command at the head of the task.
LEMMA HeadFacts ==
    ASSUME EffectsInv, task.stage # "idle", NEW c, c = Head(task.todo)
    PROVE  /\ c \in Sendable /\ c.db \in Dbs /\ c.key \in Keys /\ Slot(c) \in Dbs \X Keys
           /\ c = task.todo[1] /\ 1 \in 1 .. Len(task.todo)
           /\ Tail(task.todo) \in Seq(Sendable) /\ Len(Tail(task.todo)) = Len(task.todo) - 1
           /\ \A i \in 1 .. Len(task.todo) - 1 : Tail(task.todo)[i] = task.todo[i + 1]
           /\ task.time \in 1 .. clock
<1>1. task.todo \in Seq(Sendable) /\ task.todo # <<>> /\ task.time # 0 /\ task.time \in 0 .. clock
  BY DEF EffectsInv, TaskTypes, Idle
<1>2. c \in Sendable /\ c = task.todo[1] /\ 1 \in 1 .. Len(task.todo)
  BY <1>1
<1>3. c.db \in Dbs /\ c.key \in Keys /\ Slot(c) \in Dbs \X Keys
  BY <1>2 DEF Sendable, CommandSet, Slot
<1>4. /\ Tail(task.todo) \in Seq(Sendable) /\ Len(Tail(task.todo)) = Len(task.todo) - 1
      /\ \A i \in 1 .. Len(task.todo) - 1 : Tail(task.todo)[i] = task.todo[i + 1]
  BY <1>1
<1>5. task.time \in 1 .. clock
  BY <1>1, EffectsFacts
<1> QED BY <1>2, <1>3, <1>4, <1>5

\* A handler runs, at the frozen clock, on what replay will find.
LEMMA RunHandlerKeeps ==
    ASSUME EffectsInv, RunHandler
    PROVE  EffectsInv'
<1>1. PICK c : c = Head(task.todo)
  OBVIOUS
<1>2. PICK x : x = Purge(live[c.db][c.key], task.time)
  OBVIOUS
<1>3. PICK r : r = Handler(c, x, task.time)
  OBVIOUS
<1>4. r = Run(c, live, task.time)
  BY <1>2, <1>3 DEF Run
<1>5. /\ task.stage = "run" /\ live' = Write(live, c, r.entry)
      /\ task' = [task EXCEPT !.stage = "capture", !.reply = r.reply]
      /\ strayed' = IF task.logged THEN strayed ELSE strayed \cup {Slot(c)}
      /\ log' = log /\ clock' = clock /\ units' = units /\ protected' = protected
  BY <1>1, <1>4 DEF RunHandler
<1>6. /\ c \in Sendable /\ c.db \in Dbs /\ c.key \in Keys /\ Slot(c) \in Dbs \X Keys
      /\ c = task.todo[1] /\ 1 \in 1 .. Len(task.todo)
  BY <1>1, <1>5, HeadFacts
<1>7. live[c.db][c.key] \in Stored /\ r.entry \in Stored /\ live' \in Keyspaces
  BY <1>4, <1>5, <1>6, EffectsFacts, RunStores
<1>8. x \in Stored /\ Purge(x, task.time) = x
  BY <1>2, <1>7, EffectsFacts, PurgeFacts
<1>9. task'.stage = "capture" /\ task'.time = task.time /\ task'.todo = task.todo /\ task'.cmds = task.cmds
      /\ task'.tx = task.tx /\ task'.logged = task.logged /\ task'.reply = r.reply
  BY <1>5 DEF EffectsInv, TaskTypes
<1>10. clock' \in Nat /\ clock' >= clock
  BY <1>5, EffectsFacts
<1>11. Replayed' = Replayed /\ LogTypes' /\ Pending' = Pending
  BY <1>5, <1>9, <1>10, LogAlone
<1>12. Open = {} /\ Open' = {Slot(c)}
  BY <1>1, <1>5, <1>9 DEF Open
<1>13. Slot(c) \in Ahead /\ Ahead' \subseteq Ahead
  BY <1>5, <1>6, <1>9 DEF Ahead
<1>14. strayed \subseteq strayed' /\ strayed' \subseteq Dbs \X Keys
  BY <1>5, <1>6, EffectsFacts
<1>15. Alike(Pending.data, live', strayed' \cup Open', Ahead', task.time, clock)
  <2>1. strayed \cup Open \subseteq strayed' \cup Open'
    BY <1>12, <1>14
  <2>2. Alike(Pending.data, live, strayed' \cup Open', Ahead', task.time, clock)
    BY <1>13, <2>1, EffectsFacts, AlikeLater
  <2>3. <<c.db, c.key>> \in strayed' \cup Open'
    BY <1>12 DEF Slot
  <2>4. \A d \in Dbs, k \in Keys : <<d, k>> # <<c.db, c.key>> => live'[d][k] = live[d][k]
    BY <1>5, <1>6, <1>7, EffectsFacts, WriteFacts DEF Slot
  <2> QED BY <2>2, <2>3, <2>4, AlikeBut
<1>16. Recoverable'
  <2>1. strayed' = {} => Pending.ok
    BY <1>14, EffectsFacts
  <2> QED BY <1>5, <1>9, <1>11, <1>15, <2>1, EffectsFacts DEF Recoverable
<1>17. Handled(c, x)'
  <2>1. ASSUME Slot(c) \notin strayed' PROVE task.logged /\ x = Purge(Pending.data[c.db][c.key], task.time)
    <3>1. task.logged /\ Slot(c) \notin strayed
      BY <1>5, <2>1
    <3>2. <<c.db, c.key>> \notin strayed \cup Open /\ <<c.db, c.key>> \in Ahead
      BY <1>12, <1>13, <3>1 DEF Slot
    <3>3. Purge(Pending.data[c.db][c.key], task.time) = Purge(live[c.db][c.key], task.time)
      BY <1>6, <3>2, EffectsFacts DEF Alike
    <3> QED BY <1>2, <3>1, <3>3
  <2>2. live'[c.db][c.key] = r.entry
    BY <1>5, <1>6, <1>7, EffectsFacts, WriteFacts
  <2> QED BY <1>3, <1>8, <1>9, <1>11, <2>1, <2>2 DEF Handled
<1>18. Capturable'
  BY <1>1, <1>8, <1>9, <1>17 DEF Capturable
<1>19. TaskTypes'
  <2>1. task'.time \in 0 .. clock'
    BY <1>5, <1>9 DEF EffectsInv, TaskTypes
  <2>2. task.todo # <<>> /\ task.time # 0
    BY <1>5 DEF EffectsInv, TaskTypes, Idle
  <2>3. task \in [stage : {"idle", "run", "capture"}, time : 0 .. clock, todo : Seq(Sendable),
                  cmds : Seq(Sendable), tx : BOOLEAN, logged : BOOLEAN, reset : BOOLEAN, reply : {task.reply}]
    BY DEF EffectsInv, TaskTypes
  <2>4. task' \in [stage : {"idle", "run", "capture"}, time : 0 .. clock, todo : Seq(Sendable),
                   cmds : Seq(Sendable), tx : BOOLEAN, logged : BOOLEAN, reset : BOOLEAN, reply : {r.reply}]
    BY <1>5, <2>3
  <2> QED BY <1>5, <1>9, <2>2, <2>4 DEF TaskTypes
<1>20. ScalarTypes'
  BY <1>5, <1>14 DEF EffectsInv, ScalarTypes
<1> QED BY <1>7, <1>11, <1>16, <1>18, <1>19, <1>20 DEF EffectsInv

\* What a task has captured, with one more part.
LEMMA PendingGrows ==
    ASSUME NEW s, NEW time, NEW tx, NEW cmds \in Seq(Sendable), NEW c \in Sendable, NEW k, Part(c, k)
    PROVE  /\ cmds \o k \in Seq(Sendable)
           /\ ReplayUnit(s, UnitOf(time, tx, cmds \o k))
                = ReplayCaptured(ReplayUnit(s, UnitOf(time, tx, cmds)), k, UnitOf(time, tx, <<>>))
<1>1. CASE k = <<>>
  <2>1. cmds \o k = cmds
    BY <1>1, ConcatEmptySeq
  <2> QED BY <1>1, <2>1 DEF ReplayCaptured
<1>2. ASSUME NEW d, k = <<d>>, OnKey(c, d)
      PROVE  /\ cmds \o k \in Seq(Sendable)
             /\ ReplayUnit(s, UnitOf(time, tx, cmds \o k))
                  = ReplayCaptured(ReplayUnit(s, UnitOf(time, tx, cmds)), k, UnitOf(time, tx, <<>>))
  <2>1. d \in Sendable /\ k # <<>> /\ k[1] = d
    BY <1>2 DEF OnKey
  <2>2. cmds \o k = OneMore(cmds, d)
    BY <1>2, <2>1, AppendIsConcat DEF OneMore
  <2>3. OneMore(cmds, d) \in Seq(Sendable)
    BY <2>1 DEF OneMore
  <2>4. ReplayUnit(s, UnitOf(time, tx, OneMore(cmds, d)))
          = ReplayCommand(ReplayUnit(s, UnitOf(time, tx, cmds)), d, UnitOf(time, tx, <<>>))
    BY <2>1, ReplayUnitOneMore
  <2>5. \A y, u : ReplayCaptured(y, k, u) = ReplayCommand(y, d, u)
    BY <2>1 DEF ReplayCaptured
  <2> QED BY <2>2, <2>3, <2>4, <2>5
<1> QED BY <1>1, <1>2 DEF Part

\* What Admit appends is replayed on top of what was there.
LEMMA Admitted ==
    ASSUME EffectsInv, task.stage # "idle", NEW cmds \in Seq(Sendable), Admit(cmds), clock' = clock
    PROVE  LogTypes' /\ Replayed' = ReplayUnit(Replayed, UnitOf(task.time, task.tx, cmds))
<1> DEFINE u == UnitOf(task.time, task.tx, cmds)
<1>1. CASE cmds = <<>>
  <2>1. log' = log /\ clock' \in Nat /\ clock' >= clock
    BY <1>1, EffectsFacts DEF Admit
  <2>2. Replayed' = Replayed /\ LogTypes'
    BY <2>1, LogAlone
  <2> QED BY <1>1, <2>2, ReplayUnitEmpty
<1>2. CASE cmds # <<>>
  <2>1. log' = Append(log, u)
    BY <1>2 DEF Admit, UnitOf
  <2>2. u.time = task.time /\ u.cmds = cmds
    BY DEF UnitOf
  <2>3. u \in Units
    <3>1. task.tx \in BOOLEAN
      BY DEF EffectsInv, TaskTypes
    <3> QED BY <3>1, EffectsFacts DEF Units, UnitOf
  <2> HIDE DEF u
  <2>4. log \in Seq(Units)
    BY DEF EffectsInv, LogTypes
  <2>5. Replayed' = ReplayUnit(Replayed, u)
    BY <2>1, <2>3, <2>4, ReplayLogSteps, ReplayedIsReplayLog
  <2>6. log' \in Seq(Units) /\ Len(log') = Len(log) + 1 /\ log'[Len(log) + 1] = u
        /\ \A i \in 1 .. Len(log) : log'[i] = log[i]
    BY <2>1, <2>3, <2>4
  <2>7. task.time \in 1 .. clock
    BY HeadFacts
  <2>8. ASSUME NEW i \in 1 .. Len(log') PROVE log'[i].cmds # <<>> /\ log'[i].time \in 1 .. clock'
    <3>1. CASE i = Len(log) + 1
      BY <1>2, <2>2, <2>6, <2>7, <3>1
    <3>2. CASE i # Len(log) + 1
      <4>1. i \in 1 .. Len(log)
        BY <2>4, <2>6, <3>2
      <4> QED BY <2>6, <4>1 DEF EffectsInv, LogTypes
    <3> QED BY <3>1, <3>2
  <2>9. LogTypes'
    BY <2>6, <2>8 DEF LogTypes
  <2> QED BY <2>5, <2>9 DEF u
<1> QED BY <1>1, <1>2

\* The capture of c ends with what it saw last, after: S are the strayed keys then,
\* A the keys that commands are yet to use, and q is what recovery would give.
Captured(c, after, S, A, q) ==
    LET seen == live[c.db][c.key]
    IN  /\ after \in {seen, Purge(seen, clock)}
        /\ S = IF after = seen THEN strayed ELSE strayed \cup StraysWithout(c.db, c.key)
        /\ A \subseteq Ahead
        /\ q = ReplayCaptured(Pending, Capture(c, seen, after, task.reply),
                              UnitOf(task.time, task.tx, <<>>))

\* The key whose capture ends: from the moment that clients, or commands yet to
\* come, compare it again, it is what the capture saw last.
LEMMA CapturedKey ==
    ASSUME EffectsInv, task.stage = "capture", NEW c, c = Head(task.todo), NEW after, NEW S, NEW A, NEW q,
           Captured(c, after, S, A, q), Slot(c) \notin S,
           NEW t, t = IF Slot(c) \in A THEN task.time ELSE clock
    PROVE  (Pending.ok => q.ok) /\ Purge(q.data[c.db][c.key], t) = Purge(after, t)
<1>1. PICK x \in Stored : Handled(c, x)
  BY DEF EffectsInv, Capturable
<1>2. PICK r : r = Handler(c, x, task.time)
  OBVIOUS
<1>3. PICK m : m = IF Slot(c) \in Ahead THEN task.time ELSE clock
  OBVIOUS
<1>4. PICK seen : seen = live[c.db][c.key]
  OBVIOUS
<1>5. PICK u : u = UnitOf(task.time, task.tx, <<>>)
  OBVIOUS
<1>6. /\ after \in {seen, Purge(seen, clock)}
      /\ S = IF after = seen THEN strayed ELSE strayed \cup StraysWithout(c.db, c.key)
      /\ A \subseteq Ahead
      /\ q = ReplayCaptured(Pending, Capture(c, seen, after, task.reply), u)
  BY <1>4, <1>5 DEF Captured
<1>7. c \in Sendable /\ c.db \in Dbs /\ c.key \in Keys
  BY HeadFacts
<1>8. task.time \in Nat /\ clock \in Nat /\ task.time <= clock /\ Pending.data \in Keyspaces
  BY EffectsFacts
<1>9. t \in Nat /\ m \in Nat /\ m <= t /\ task.time <= t
  BY <1>3, <1>6, <1>8
<1>10. Slot(c) \notin strayed
  BY <1>6
<1>11. /\ task.reply = r.reply /\ x = Purge(Pending.data[c.db][c.key], task.time)
       /\ seen = r.entry \/ (seen = None /\ Expired(r.entry, m))
  BY <1>1, <1>2, <1>3, <1>4, <1>10 DEF Handled
<1>12. r.entry \in Stored
  BY <1>2, <1>7, <1>8, HandlerStores
<1>13. ~Expired(None, clock) /\ Purge(None, t) = None
  BY <1>9, StoredBasics, PurgeFacts DEF Expired, None
<1>14. after \in {seen, None}
  BY <1>6 DEF Purge
<1>15. after = r.entry \/ (after = None /\ Expired(r.entry, t))
  <2>1. CASE seen # r.entry
    <3>1. seen = None /\ Expired(r.entry, m)
      BY <1>11, <2>1
    <3>2. Expired(r.entry, t)
      BY <1>9, <1>12, <3>1, PurgeLater
    <3> QED BY <1>14, <3>1, <3>2
  <2>2. CASE seen = r.entry /\ after # seen
    <3>1. after = None /\ Expired(r.entry, clock)
      BY <1>6, <2>2 DEF Purge
    <3>2. ~(Slot(c) \in Ahead /\ r.entry.at > task.time)
      BY <1>4, <1>6, <2>2 DEF StraysWithout, Slot
    <3>3. r.entry.at \in Nat
      BY <1>12 DEF Stored, EntrySet
    <3>4. Slot(c) \in A => Expired(r.entry, task.time)
      BY <1>6, <1>8, <3>1, <3>2, <3>3 DEF Expired
    <3> QED BY <3>1, <3>4
  <2> QED BY <2>1, <2>2
<1>16. Purge(r.entry, t) = Purge(after, t)
  BY <1>13, <1>15 DEF Purge
<1>17. PICK s : s = Pending
  OBVIOUS
<1>18. u.time = task.time
  BY <1>5 DEF UnitOf
<1>19. r = Handler(c, Purge(s.data[c.db][c.key], u.time), u.time)
  BY <1>2, <1>11, <1>17, <1>18
<1>20. q = ReplayCaptured(s, Capture(c, seen, after, r.reply), u)
  BY <1>6, <1>11, <1>17
<1>21. Ran(c, s, u, seen, after, t, q)
  BY <1>11, <1>14, <1>16, <1>19, <1>20 DEF Ran
<1>22. s.data \in Keyspaces /\ u.time \in Nat /\ u.time <= t
  BY <1>8, <1>9, <1>17, <1>18
<1>23. (s.ok => q.ok) /\ Purge(q.data[c.db][c.key], t) = Purge(after, t)
  BY <1>7, <1>9, <1>21, <1>22, CapturedReplays
<1> QED BY <1>17, <1>23

\* A capture ends: the log will have the effect that the command had.
LEMMA CaptureEffectsKeeps ==
    ASSUME EffectsInv, CaptureEffects
    PROVE  EffectsInv'
<1>1. PICK c : c = Head(task.todo)
  OBVIOUS
<1>2. PICK seen : seen = live[c.db][c.key]
  OBVIOUS
<1>3. PICK rest : rest = IF task.reset /\ protected THEN <<>> ELSE Tail(task.todo)
  OBVIOUS
<1>4. PICK after \in {seen, Purge(seen, clock)} :
        LET cmds == IF task.logged THEN task.cmds \o Capture(c, seen, after, task.reply) ELSE task.cmds
        IN  /\ live' = Write(live, c, after)
            /\ strayed' = IF after = seen THEN strayed ELSE strayed \cup StraysWithout(c.db, c.key)
            /\ IF rest = <<>>
               THEN Admit(cmds) /\ task' = Idle
               ELSE /\ log' = log
                    /\ task' = [task EXCEPT !.stage = "run", !.todo = rest, !.cmds = cmds,
                                            !.logged = @ /\ ~task.reset, !.reset = FALSE]
  BY <1>1, <1>2, <1>3 DEF CaptureEffects
<1>5. PICK k : k = IF task.logged THEN Capture(c, seen, after, task.reply) ELSE <<>>
  OBVIOUS
<1>6. PICK u : u = UnitOf(task.time, task.tx, <<>>)
  OBVIOUS
<1>7. PICK q : q = ReplayCaptured(Pending, k, u)
  OBVIOUS
<1>8. task.stage = "capture" /\ clock' = clock /\ units' = units /\ protected' = protected
  BY DEF CaptureEffects
<1>9. /\ c \in Sendable /\ c.db \in Dbs /\ c.key \in Keys /\ Slot(c) \in Dbs \X Keys
      /\ Tail(task.todo) \in Seq(Sendable) /\ Len(Tail(task.todo)) = Len(task.todo) - 1
      /\ \A i \in 1 .. Len(task.todo) - 1 : Tail(task.todo)[i] = task.todo[i + 1]
      /\ task.time \in 1 .. clock
  BY <1>1, <1>8, HeadFacts
<1>10. PICK x \in Stored : Handled(c, x)
  BY <1>1, <1>8 DEF EffectsInv, Capturable
<1>11. seen \in Stored /\ after \in Stored
  <2>1. seen \in Stored
    BY <1>2, <1>9, EffectsFacts DEF Keyspaces
  <2> QED BY <2>1, EffectsFacts, PurgeFacts
<1>12. Part(c, k)
  <2>1. task.reply = Handler(c, x, task.time).reply
    BY <1>10 DEF Handled
  <2>2. Part(c, Capture(c, seen, after, task.reply))
    BY <1>9, <1>11, <2>1, EffectsFacts, CaptureIsPart
  <2> QED BY <1>5, <2>2 DEF Part
<1>13. PICK cmds : cmds = task.cmds \o k
  OBVIOUS
<1>14. task.cmds \in Seq(Sendable)
  BY DEF EffectsInv, TaskTypes
<1>15. cmds \in Seq(Sendable) /\ ReplayUnit(Replayed, UnitOf(task.time, task.tx, cmds)) = q
  BY <1>6, <1>7, <1>9, <1>12, <1>13, <1>14, PendingGrows DEF Pending
<1>16. cmds = IF task.logged THEN task.cmds \o Capture(c, seen, after, task.reply) ELSE task.cmds
  BY <1>5, <1>13, <1>14, ConcatEmptySeq
<1>17. /\ live' = Write(live, c, after)
       /\ strayed' = IF after = seen THEN strayed ELSE strayed \cup StraysWithout(c.db, c.key)
       /\ rest = <<>> => Admit(cmds) /\ task' = Idle
       /\ rest # <<>> => /\ log' = log
                         /\ task' = [task EXCEPT !.stage = "run", !.todo = rest, !.cmds = cmds,
                                                 !.logged = @ /\ ~task.reset, !.reset = FALSE]
  BY <1>4, <1>16
<1>18. live' \in Keyspaces /\ live'[c.db][c.key] = after
       /\ \A d \in Dbs, y \in Keys : <<d, y>> # Slot(c) => live'[d][y] = live[d][y]
  <2>1. PICK w : w = Write(live, c, after)
    OBVIOUS
  <2>2. w \in Keyspaces /\ w[c.db][c.key] = after
        /\ \A d \in Dbs, y \in Keys : <<d, y>> # Slot(c) => w[d][y] = live[d][y]
    <3>1. c \in Sendable /\ live \in Keyspaces /\ after \in Stored
      BY <1>9, <1>11, EffectsFacts
    <3>2. w \in Keyspaces /\ w[c.db][c.key] = after
      BY <2>1, <3>1, WriteFacts
    <3>3. \A d \in Dbs, y \in Keys : <<d, y>> # Slot(c) => w[d][y] = live[d][y]
      BY <2>1, <3>1, WriteFacts
    <3> QED BY <3>2, <3>3
  <2> QED BY <1>17, <2>1, <2>2
<1>19. strayed \subseteq strayed' /\ strayed' \subseteq Dbs \X Keys
  BY <1>9, <1>17, EffectsFacts DEF StraysWithout
<1>20. /\ LogTypes' /\ Replayed'.data \in Keyspaces /\ Pending' = q
       /\ Ahead' \subseteq Ahead /\ Open' = {} /\ TaskTypes' /\ Capturable'
       /\ task'.time = task.time \/ Ahead' = {}
  <2>0. q.data \in Keyspaces
    <3>1. u.time \in Nat
      BY <1>6, EffectsFacts DEF UnitOf
    <3> QED BY <1>7, <1>9, <1>12, <3>1, EffectsFacts, PartReplays
  <2>1. CASE rest = <<>>
    <3>1. Admit(cmds) /\ task' = Idle /\ clock' \in Nat
      BY <1>8, <1>17, <2>1, EffectsFacts
    <3>2. LogTypes' /\ Replayed' = q
      BY <1>8, <1>15, <3>1, Admitted
    <3>3. Ahead' = {} /\ Open' = {} /\ Pending' = Replayed'
      BY <3>1, IdleFacts
    <3> QED BY <2>0, <3>1, <3>2, <3>3, IdleTypes, IdleCapturable
  <2>2. CASE rest # <<>>
    <3>1. rest = Tail(task.todo)
      BY <1>3, <2>2
    <3>2. log' = log /\ clock' \in Nat /\ clock' >= clock
      BY <1>8, <1>17, <2>2, EffectsFacts
    <3>3. LogTypes' /\ Replayed' = Replayed
      BY <3>2, LogAlone
    <3>4. task \in [stage : {"idle", "run", "capture"}, time : 0 .. clock, todo : Seq(Sendable),
                    cmds : Seq(Sendable), tx : BOOLEAN, logged : BOOLEAN, reset : BOOLEAN, reply : {task.reply}]
      BY DEF EffectsInv, TaskTypes
    <3>5. PICK l \in BOOLEAN : l = (task.logged /\ ~task.reset)
      BY Zenon
    <3>6. task' = [task EXCEPT !.stage = "run", !.todo = rest, !.cmds = cmds, !.logged = l, !.reset = FALSE]
      BY <1>17, <2>2, <3>5
    <3>7. task' \in [stage : {"idle", "run", "capture"}, time : 0 .. clock, todo : Seq(Sendable),
                     cmds : Seq(Sendable), tx : BOOLEAN, logged : BOOLEAN, reset : BOOLEAN, reply : {task.reply}]
          /\ task'.stage = "run" /\ task'.todo = rest /\ task'.cmds = cmds /\ task'.time = task.time
          /\ task'.tx = task.tx /\ task'.reply = task.reply
      BY <1>9, <1>15, <3>1, <3>4, <3>6
    <3>8. TaskTypes'
      <4>1. task.time # 0
        BY <1>9, EffectsFacts
      <4> QED BY <1>8, <2>2, <3>7, <4>1 DEF TaskTypes
    <3>9. Pending' = q
      BY <1>15, <3>3, <3>7 DEF Pending
    <3>10. Ahead' \subseteq Ahead
      <4> SUFFICES ASSUME NEW i \in 1 .. Len(rest) PROVE Slot(rest[i]) \in Ahead
        BY <3>7 DEF Ahead
      <4>1. rest[i] = task.todo[i + 1] /\ i + 1 \in 2 .. Len(task.todo)
        BY <1>9, <3>1
      <4> QED BY <1>8, <4>1 DEF Ahead
    <3>11. Open' = {} /\ Capturable'
      BY <3>7 DEF Open, Capturable
    <3> QED BY <3>3, <3>7, <3>8, <3>9, <3>10, <3>11, EffectsFacts
  <2> QED BY <2>1, <2>2
<1>21. PICK t : t = IF Slot(c) \in Ahead' THEN task.time ELSE clock
  OBVIOUS
<1>22. ASSUME Slot(c) \notin strayed'
       PROVE  (Pending.ok => q.ok) /\ Purge(q.data[c.db][c.key], t) = Purge(after, t)
  <2>1. Slot(c) \notin strayed
    BY <1>19, <1>22
  <2>2. task.logged
    BY <1>10, <2>1 DEF Handled
  <2>3. q = ReplayCaptured(Pending, Capture(c, seen, after, task.reply), u) /\ u.time = task.time
    BY <1>5, <1>6, <1>7, <2>2 DEF UnitOf
  <2>4. PICK S : S = strayed'
    OBVIOUS
  <2>5. PICK A : A = Ahead'
    OBVIOUS
  <2>6. Captured(c, after, S, A, q)
    BY <1>2, <1>4, <1>6, <1>17, <1>20, <2>3, <2>4, <2>5 DEF Captured
  <2>7. Slot(c) \notin S /\ t = IF Slot(c) \in A THEN task.time ELSE clock
    BY <1>21, <1>22, <2>4, <2>5
  <2> QED BY <1>1, <1>8, <2>6, <2>7, CapturedKey
<1>23. q.data \in Keyspaces
       /\ \A d \in Dbs, y \in Keys : <<d, y>> # Slot(c) => q.data[d][y] = Pending.data[d][y]
  <2>1. u.time \in Nat
    BY <1>6, EffectsFacts DEF UnitOf
  <2> QED BY <1>7, <1>9, <1>12, <2>1, EffectsFacts, PartReplays
<1>24. Alike(q.data, live', strayed', Ahead', task.time, clock)
  <2>1. Alike(Pending.data, live, strayed' \cup {Slot(c)}, Ahead', task.time, clock)
    <3>1. strayed \cup Open \subseteq strayed' \cup {Slot(c)}
      BY <1>1, <1>8, <1>19 DEF Open
    <3> QED BY <1>20, <3>1, EffectsFacts, AlikeLater
  <2>2. Slot(c) = <<c.db, c.key>>
    BY DEF Slot
  <2> QED BY <1>18, <1>21, <1>22, <1>23, <2>1, <2>2, AlikeBut
<1>25. Alike(Pending'.data, live', strayed' \cup Open', Ahead', task'.time, clock')
  <2>1. Alike(q.data, live', strayed', Ahead', task'.time, clock)
    BY <1>20, <1>24 DEF Alike
  <2> QED BY <1>8, <1>20, <2>1
<1>26. strayed' = {} => q.ok
  BY <1>19, <1>22, EffectsFacts
<1>27. Recoverable'
  BY <1>20, <1>23, <1>25, <1>26 DEF Recoverable
<1>28. ScalarTypes'
  BY <1>8, <1>19 DEF EffectsInv, ScalarTypes
<1> QED BY <1>18, <1>20, <1>27, <1>28 DEF EffectsInv

\* The clock moves on: a deadline that was reached stays reached.
LEMMA TickKeeps ==
    ASSUME EffectsInv, Tick
    PROVE  EffectsInv'
<1>1. /\ clock' = clock + 1 /\ clock' \in 1 .. MaxClock /\ clock' \in Nat /\ clock <= clock'
      /\ live' = live /\ log' = log /\ units' = units /\ protected' = protected /\ strayed' = strayed
      /\ task' = task
  BY EffectsFacts, EffectsAssumption DEF Tick
<1>2. Alike(Pending.data, live, strayed \cup Open, Ahead, task.time, clock')
  BY <1>1, EffectsFacts, AlikeLater
<1>3. ScalarTypes'
  BY <1>1 DEF EffectsInv, ScalarTypes
<1>4. Pending' = Pending /\ Ahead' = Ahead
  <2>1. Ahead' = Ahead
    BY <1>1 DEF Ahead
  <2> QED BY <1>1, <2>1, LogAlone
<1>5. ASSUME NEW c \in Sendable, NEW x \in Stored, Handled(c, x) PROVE Handled(c, x)'
  <2>1. PICK r : r = Handler(c, x, task.time)
    OBVIOUS
  <2>2. r.entry \in Stored
    BY <2>1, EffectsFacts, HandlerStores
  <2>3. Expired(r.entry, IF Slot(c) \in Ahead THEN task.time ELSE clock)
          => Expired(r.entry, IF Slot(c) \in Ahead THEN task.time ELSE clock')
    BY <1>1, <2>2, EffectsFacts, PurgeLater
  <2> QED BY <1>1, <1>4, <1>5, <2>1, <2>3 DEF Handled
<1>6. Capturable'
  <2>1. task.stage = "capture" => Head(task.todo) \in Sendable
    BY HeadFacts
  <2> QED BY <1>1, <1>5, <2>1 DEF EffectsInv, Capturable
<1> QED BY <1>1, <1>2, <1>3, <1>6, EffectsFacts, KeyspaceStep

\* A reader removes an expired key: nobody sees the difference, but for a command
\* whose frozen clock is before the deadline, and then the key strays.
LEMMA FastReadKeeps ==
    ASSUME EffectsInv, NEW b \in Dbs, NEW y \in Keys, FastRead(b, y)
    PROVE  EffectsInv'
<1>1. /\ Expired(live[b][y], clock) /\ live' = [live EXCEPT ![b][y] = None]
      /\ strayed' = strayed \cup StraysWithout(b, y)
      /\ log' = log /\ clock' = clock /\ units' = units /\ protected' = protected /\ task' = task
  BY DEF FastRead
<1>2. live' \in Keyspaces /\ live'[b][y] = None
  <2>1. live \in Keyspaces
    BY EffectsFacts
  <2>2. live' \in Keyspaces
    BY <1>1, <2>1, RemoveFacts
  <2>3. live'[b][y] = None
    BY <1>1, <2>1 DEF Keyspaces
  <2> QED BY <2>2, <2>3
<1>3. \A d \in Dbs, k \in Keys : <<d, k>> # <<b, y>> => live'[d][k] = live[d][k]
  BY <1>1, EffectsFacts, RemoveFacts
<1>4. strayed \subseteq strayed' /\ strayed' \subseteq Dbs \X Keys
  BY <1>1, EffectsFacts DEF StraysWithout
<1>5. clock' \in Nat /\ clock' >= clock
  BY <1>1, EffectsFacts
<1>6. PICK t : t = IF <<b, y>> \in Ahead THEN task.time ELSE clock
  OBVIOUS
<1>7. live[b][y] \in Stored
  BY EffectsFacts DEF Keyspaces
<1>8. <<b, y>> \notin strayed' => Expired(live[b][y], t)
  <2> SUFFICES ASSUME <<b, y>> \notin strayed', <<b, y>> \in Ahead PROVE Expired(live[b][y], task.time)
    BY <1>1, <1>6
  <2>1. ~(live[b][y].at > task.time)
    BY <1>1 DEF StraysWithout
  <2>2. live[b][y].at \in Nat
    BY <1>7 DEF Stored, EntrySet
  <2> QED BY <1>1, <2>1, <2>2, EffectsFacts DEF Expired
<1>9. Alike(Pending.data, live', strayed' \cup Open, Ahead, task.time, clock)
  <2>1. ASSUME <<b, y>> \notin strayed' \cup Open PROVE Purge(Pending.data[b][y], t) = Purge(live'[b][y], t)
    <3>1. Purge(Pending.data[b][y], t) = Purge(live[b][y], t)
      BY <1>4, <1>6, <2>1, EffectsFacts DEF Alike
    <3>2. Expired(live[b][y], t) /\ ~Expired(None, t)
      BY <1>8, <2>1 DEF Expired, None
    <3> QED BY <1>2, <3>1, <3>2 DEF Purge
  <2>2. strayed \cup Open \subseteq (strayed' \cup Open) \cup {<<b, y>>}
    BY <1>4
  <2> QED BY <1>3, <1>6, <2>1, <2>2, EffectsFacts, AlikeBut
<1>10. Pending' = Pending /\ Ahead' = Ahead
  <2>1. Ahead' = Ahead
    BY <1>1 DEF Ahead
  <2> QED BY <1>1, <1>5, <2>1, LogAlone
<1>11. ASSUME NEW c \in Sendable, NEW x \in Stored, Handled(c, x) PROVE Handled(c, x)'
  <2>1. PICK r : r = Handler(c, x, task.time)
    OBVIOUS
  <2>2. PICK m : m = IF Slot(c) \in Ahead THEN task.time ELSE clock
    OBVIOUS
  <2>3. c.db \in Dbs /\ c.key \in Keys /\ Slot(c) = <<c.db, c.key>>
    BY DEF Sendable, CommandSet, Slot
  <2>4. ASSUME Slot(c) \notin strayed'
        PROVE  \/ live'[c.db][c.key] = r.entry
               \/ live'[c.db][c.key] = None /\ Expired(r.entry, m)
    <3>1. Slot(c) \notin strayed
      BY <1>4, <2>4
    <3>2. live[c.db][c.key] = r.entry \/ (live[c.db][c.key] = None /\ Expired(r.entry, m))
      BY <1>11, <2>1, <2>2, <3>1 DEF Handled
    <3>3. CASE Slot(c) = <<b, y>>
      <4>1. c.db = b /\ c.key = y /\ m = t
        BY <1>6, <2>2, <2>3, <3>3
      <4>2. live[b][y] # None
        BY <1>1 DEF Expired, None
      <4> QED BY <1>2, <1>8, <2>4, <3>2, <3>3, <4>1, <4>2
    <3>4. CASE Slot(c) # <<b, y>>
      <4>1. live'[c.db][c.key] = live[c.db][c.key]
        BY <1>3, <2>3, <3>4
      <4> QED BY <3>2, <4>1
    <3> QED BY <3>3, <3>4
  <2>5. Slot(c) \notin strayed' => Slot(c) \notin strayed
    BY <1>4
  <2> QED BY <1>1, <1>10, <1>11, <2>1, <2>2, <2>4, <2>5 DEF Handled
<1>12. Capturable'
  <2>1. task.stage = "capture" => Head(task.todo) \in Sendable
    BY HeadFacts
  <2> QED BY <1>1, <1>11, <2>1 DEF EffectsInv, Capturable
<1>13. ScalarTypes'
  BY <1>1, <1>4 DEF EffectsInv, ScalarTypes
<1> QED BY <1>1, <1>2, <1>4, <1>5, <1>9, <1>12, <1>13, KeyspaceStep

\* A step between two tasks: what is left to show.
LEMMA IdleStep ==
    ASSUME EffectsInv, task = Idle, log' = log, task' = task, clock' = clock, units' \in 0 .. MaxUnits,
           protected' \in BOOLEAN, live' \in Keyspaces, strayed \subseteq strayed',
           strayed' \subseteq Dbs \X Keys,
           \A d \in Dbs, k \in Keys : <<d, k>> \notin strayed' => Purge(live'[d][k], clock) = Purge(live[d][k], clock)
    PROVE  EffectsInv'
<1>1. Ahead = {} /\ Open = {}
  BY IdleFacts
<1>2. Alike(Pending.data, live', strayed' \cup Open, Ahead, task.time, clock')
  BY <1>1, EffectsFacts DEF Alike
<1>3. clock' \in Nat /\ clock' >= clock /\ ScalarTypes'
  BY EffectsFacts DEF ScalarTypes
<1>4. Capturable'
  BY IdleCapturable
<1> QED BY <1>2, <1>3, <1>4, KeyspaceStep

\* active_expire_cycle removes what no client sees.
LEMMA ActiveExpireKeeps ==
    ASSUME EffectsInv, NEW b \in Dbs, NEW y \in Keys, ActiveExpire(b, y)
    PROVE  EffectsInv'
<1>1. /\ live' = [live EXCEPT ![b][y] = None] /\ Expired(live[b][y], clock) /\ task = Idle
      /\ log' = log /\ clock' = clock /\ units' = units /\ protected' = protected /\ strayed' = strayed
      /\ task' = task
  BY DEF ActiveExpire
<1>2. live' \in Keyspaces /\ live'[b][y] = None
  <2>1. live \in Keyspaces
    BY EffectsFacts
  <2>2. live' \in Keyspaces
    BY <1>1, <2>1, RemoveFacts
  <2>3. live'[b][y] = None
    BY <1>1, <2>1 DEF Keyspaces
  <2> QED BY <2>2, <2>3
<1>3. \A d \in Dbs, k \in Keys : <<d, k>> # <<b, y>> => live'[d][k] = live[d][k]
  BY <1>1, EffectsFacts, RemoveFacts
<1>4. Purge(live'[b][y], clock) = Purge(live[b][y], clock)
  BY <1>1, <1>2 DEF Purge, Expired, None
<1>5. \A d \in Dbs, k \in Keys : Purge(live'[d][k], clock) = Purge(live[d][k], clock)
  <2> SUFFICES ASSUME NEW d \in Dbs, NEW k \in Keys PROVE Purge(live'[d][k], clock) = Purge(live[d][k], clock)
    OBVIOUS
  <2>1. CASE <<d, k>> = <<b, y>>
    BY <1>4, <2>1
  <2>2. CASE <<d, k>> # <<b, y>>
    BY <1>3, <2>2
  <2> QED BY <2>1, <2>2
<1> QED BY <1>1, <1>2, <1>5, EffectsFacts, IdleStep

\* A restart installs what recovery made of the log, whatever was under way.
LEMMA RestartKeeps ==
    ASSUME EffectsInv, Restart
    PROVE  EffectsInv'
<1>1. live' = Replayed.data /\ strayed' = {} /\ task' = Idle /\ Replayed.ok
      /\ log' = log /\ clock' = clock /\ units' = units /\ protected' = protected
  BY DEF Restart, Recovers
<1>2. clock' \in Nat /\ clock' >= clock
  BY <1>1, EffectsFacts
<1>3. Replayed' = Replayed /\ LogTypes'
  BY <1>1, <1>2, LogAlone
<1>4. Ahead' = {} /\ Open' = {} /\ Pending' = Replayed'
  BY <1>1, IdleFacts
<1>5. Recoverable'
  <2>1. Alike(Pending'.data, live', strayed' \cup Open', Ahead', task'.time, clock')
    BY <1>1, <1>3, <1>4 DEF Alike
  <2> QED BY <1>1, <1>3, <1>4, <2>1, EffectsFacts DEF Recoverable
<1>6. TaskTypes' /\ Capturable'
  BY <1>1, <1>2, IdleTypes, IdleCapturable
<1>7. ScalarTypes'
  BY <1>1 DEF EffectsInv, ScalarTypes
<1> QED BY <1>1, <1>3, <1>5, <1>6, <1>7, EffectsFacts DEF EffectsInv

\* Eviction: the key strays.
LEMMA EvictKeeps ==
    ASSUME EffectsInv, NEW b \in Dbs, NEW y \in Keys, Evict(b, y)
    PROVE  EffectsInv'
<1>1. /\ live' = [live EXCEPT ![b][y] = None] /\ strayed' = strayed \cup {<<b, y>>} /\ task = Idle
      /\ log' = log /\ clock' = clock /\ units' = units /\ protected' = protected /\ task' = task
  BY DEF Evict
<1>2. strayed \subseteq strayed' /\ <<b, y>> \in strayed' /\ strayed' \subseteq Dbs \X Keys
  BY <1>1, EffectsFacts
<1>3. live' \in Keyspaces
  BY <1>1, EffectsFacts, RemoveFacts
<1>4. \A d \in Dbs, k \in Keys : <<d, k>> # <<b, y>> => live'[d][k] = live[d][k]
  BY <1>1, EffectsFacts, RemoveFacts
<1>5. \A d \in Dbs, k \in Keys : <<d, k>> \notin strayed' => Purge(live'[d][k], clock) = Purge(live[d][k], clock)
  BY <1>2, <1>4
<1> QED BY <1>1, <1>2, <1>3, <1>5, EffectsFacts, IdleStep

\* SWAPDB: all keys of the two databases stray.
LEMMA SwapDbKeeps ==
    ASSUME EffectsInv, NEW a \in Dbs, NEW b \in Dbs, SwapDb(a, b)
    PROVE  EffectsInv'
<1>1. /\ live' = [live EXCEPT ![a] = live[b], ![b] = live[a]] /\ strayed' = strayed \cup ({a, b} \X Keys)
      /\ task = Idle /\ log' = log /\ clock' = clock /\ protected' = protected /\ task' = task
  BY DEF SwapDb
<1>2. units' \in 0 .. MaxUnits
  BY EffectsFacts, EffectsAssumption DEF SwapDb, Room
<1>3. live' \in Keyspaces
  BY <1>1, EffectsFacts DEF Keyspaces
<1>4. strayed \subseteq strayed' /\ strayed' \subseteq Dbs \X Keys
  BY <1>1, EffectsFacts
<1>5. \A d \in Dbs, k \in Keys : <<d, k>> \notin strayed' => live'[d][k] = live[d][k]
  <2> SUFFICES ASSUME NEW d \in Dbs, NEW k \in Keys, <<d, k>> \notin strayed' PROVE live'[d] = live[d]
    OBVIOUS
  <2>1. d # a /\ d # b
    BY <1>1
  <2> QED BY <1>1, <2>1, EffectsFacts DEF Keyspaces
<1>6. \A d \in Dbs, k \in Keys : <<d, k>> \notin strayed' => Purge(live'[d][k], clock) = Purge(live[d][k], clock)
  BY <1>5
<1> QED BY <1>1, <1>2, <1>3, <1>4, <1>6, EffectsFacts, IdleStep

\* A password for the default user changes no key.
LEMMA ProtectKeeps ==
    ASSUME EffectsInv, ProtectDefaultUser
    PROVE  EffectsInv'
<1>1. live' = live /\ strayed' = strayed /\ log' = log /\ clock' = clock /\ units' = units
      /\ task = Idle /\ task' = task
  BY DEF ProtectDefaultUser
<1>2. protected' \in BOOLEAN
  BY Zenon DEF ProtectDefaultUser
<1> QED BY <1>1, <1>2, EffectsFacts, IdleStep

\* A step that changes nothing.
LEMMA StutterKeeps ==
    ASSUME EffectsInv, UNCHANGED vars
    PROVE  EffectsInv'
<1>1. live' = live /\ strayed' = strayed /\ log' = log /\ clock' = clock /\ units' = units
      /\ protected' = protected /\ task' = task
  BY DEF vars
<1>2. clock' \in Nat /\ clock' >= clock /\ ScalarTypes'
  BY <1>1, EffectsFacts DEF EffectsInv, ScalarTypes
<1>3. Pending' = Pending /\ Ahead' = Ahead
  <2>1. Ahead' = Ahead
    BY <1>1 DEF Ahead
  <2> QED BY <1>1, <1>2, <2>1, LogAlone
<1>4. \A c, x : Handled(c, x) => Handled(c, x)'
  BY <1>1, <1>3 DEF Handled
<1>5. Capturable'
  BY <1>1, <1>4 DEF EffectsInv, Capturable
<1> QED BY <1>1, <1>2, <1>5, EffectsFacts, KeyspaceStep

\* Every step keeps the invariant.
LEMMA EffectsStep == EffectsInv /\ [Next]_vars => EffectsInv'
<1> SUFFICES ASSUME EffectsInv, [Next]_vars PROVE EffectsInv'
  OBVIOUS
<1>0. TRUE \in BOOLEAN /\ FALSE \in BOOLEAN
  OBVIOUS
<1>1. CASE \E c \in Commands : Execute(c)
  BY <1>0, <1>1, CommandsSendable, BeginKeeps DEF Execute
<1>2. CASE \E q \in Queues : Exec(q)
  BY <1>0, <1>2, CommandsSendable, BeginKeeps DEF Exec
<1>3. CASE RunHandler
  BY <1>3, RunHandlerKeeps
<1>4. CASE CaptureEffects
  BY <1>4, CaptureEffectsKeeps
<1>5. CASE Tick
  BY <1>5, TickKeeps
<1>6. CASE \E d \in Dbs, k \in Keys : FastRead(d, k)
  BY <1>6, FastReadKeeps
<1>7. CASE \E d \in Dbs, k \in Keys : ActiveExpire(d, k)
  BY <1>7, ActiveExpireKeeps
<1>8. CASE Restart
  BY <1>8, RestartKeeps
<1>9. CASE \E d \in Dbs, k \in Keys : Evict(d, k)
  BY <1>9, EvictKeeps
<1>10. CASE \E a, b \in Dbs : SwapDb(a, b)
  BY <1>10, SwapDbKeeps
<1>11. CASE \E c \in Commands : Eval(c)
  BY <1>0, <1>11, CommandsSendable, BeginKeeps DEF Eval
<1>12. CASE \E q \in Queues : ExecReset(q)
  BY <1>0, <1>12, CommandsSendable, BeginKeeps DEF ExecReset
<1>13. CASE ProtectDefaultUser
  BY <1>13, ProtectKeeps
<1>14. CASE UNCHANGED vars
  BY <1>14, StutterKeeps
<1> QED BY <1>1, <1>2, <1>3, <1>4, <1>5, <1>6, <1>7, <1>8, <1>9, <1>10, <1>11, <1>12, <1>13, <1>14
           DEF Next

\* The invariant holds in every state of every behaviour: what recovery would
\* give, with the captures of the running task, is what clients see, although
\* readers remove keys between the frozen clock, the handlers and the captures.
THEOREM EffectsInvariant == Spec => []EffectsInv
<1>1. Init => EffectsInv
  BY EffectsInitially
<1>2. EffectsInv /\ [Next]_vars => EffectsInv'
  BY EffectsStep
<1> QED BY <1>1, <1>2, PTL DEF Spec

\* Type correctness: no handler leaves an empty set or stream behind, on the
\* running server or through a restart, no unit of the log is empty or stamped
\* with a time that has not been, and no task runs ahead of the clock.
THEOREM TypeCorrect == Spec => []TypeOK
<1>1. EffectsInv => TypeOK
  <2> SUFFICES ASSUME EffectsInv PROVE TypeOK
    OBVIOUS
  <2>1. ASSUME NEW d \in Dbs, NEW k \in Keys, NEW e, e = live[d][k]
        PROVE  /\ e.val \in Nat /\ e.at \in Nat /\ \A m \in e.mem : m \in Nat
               /\ \/ e = None
                  \/ e.type = "string" /\ e.mem = {}
                  \/ e.type \in {"set", "stream"} /\ e.mem # {}
    <3>1. e \in Stored
      BY <2>1 DEF EffectsInv, Keyspaces
    <3> QED BY <3>1 DEF Stored, EntrySet
  <2>2. ScalarTypes /\ LogTypes
    BY DEF EffectsInv
  <2>3. task.stage \in {"idle", "run", "capture"} /\ task.time \in 0 .. clock
    BY DEF EffectsInv, TaskTypes
  <2>4. task.stage = "idle" <=> task.todo = <<>>
    BY DEF EffectsInv, TaskTypes, Idle
  <2> QED BY <2>1, <2>2, <2>3, <2>4 DEF TypeOK, ScalarTypes, LogTypes
<1> QED BY <1>1, EffectsInvariant, PTL

\* Replaying the log gives back what clients see of every key that was changed
\* through capture_durability_effects only and was not removed by a reader under
\* a command about to use it, and when that is every key no record refuses the
\* start: for every mixture of commands, transactions, deadlines, readers and
\* restarts, beside evictions, SWAPDB, scripts and queued RESETs.
THEOREM ReplayIsFaithful == Spec => []ReplayMatchesLive
<1>1. EffectsInv => ReplayMatchesLive
  <2> SUFFICES ASSUME EffectsInv, task = Idle
               PROVE  /\ strayed = {} /\ ~protected => Recovers
                      /\ \A d \in Dbs, k \in Keys :
                            <<d, k>> \notin strayed => Visible(Replayed.data, d, k) = Visible(live, d, k)
    BY DEF ReplayMatchesLive
  <2>1. Ahead = {} /\ Open = {} /\ Pending = Replayed
    BY IdleFacts
  <2>2. Alike(Replayed.data, live, strayed, {}, task.time, clock) /\ (strayed = {} => Replayed.ok)
    BY <2>1, EffectsFacts
  <2>3. strayed = {} /\ ~protected => Recovers
    BY <2>2 DEF Recovers
  <2> QED BY <2>2, <2>3 DEF Alike, Visible
<1> QED BY <1>1, EffectsInvariant, PTL

=============================================================================
