--------------------------- MODULE StreamCommands ---------------------------
(***************************************************************************)
(* The handlers of the stream commands (cmd_stream.rs,                     *)
(* cmd_stream_groups.rs, cmd_stream_lifecycle.rs, cmd_stream_admin.rs).    *)
(*                                                                         *)
(* An ID is a pair <<ms, seq>>.  A stream is [entries, groups, meta]: its  *)
(* entries [id, fields] in the order of their IDs, its consumer groups by  *)
(* name and the metadata the entries do not record.  A group is [last,     *)
(* consumers, pending]: the last ID delivered, the consumers [seen,        *)
(* pending] and the pending entries list [consumer, deliveries, at] by ID. *)
(***************************************************************************)
EXTENDS Keyspace

Zero == <<0, 0>>
MaxStreamId == <<IMax, IMax>>
BadId == <<-1, -1>>       \* an argument that is not an ID
Dollar == <<-2, -2>>        \* the argument $
New == <<-3, -3>>         \* the argument >

IdLess(a, b) == a[1] < b[1] \/ (a[1] = b[1] /\ a[2] < b[2])
IdAtMost(a, b) == a = b \/ IdLess(a, b)
IdMax(a, b) == IF IdLess(a, b) THEN b ELSE a
SortedIds(S) == SetToSortSeq(S, IdLess)
IdsOf(entries) == {entries[i].id : i \in DOMAIN entries}

InvalidId == Err("Invalid stream ID")
NoGroup == Err("NOGROUP")
NoSuchKey == Err("no such key")
IdReply(id) == [id |-> id]
Rows(entries) == Arr([i \in DOMAIN entries |-> [entry |-> entries[i]]])
FirstN(s, n) == IF n < 0 THEN s ELSE SubSeq(s, 1, Min({n, Len(s)}))

\* A stream edited in place: the key stays, even with no entry left.
StreamAt(db, k) == db.data[k].stream
PutStream(db, k, st) == Update(db, k, "stream", st)
PutGroup(db, k, g, group) == PutStream(db, k, [StreamAt(db, k) EXCEPT !.groups[g] = group])

\* The handlers that need a group answer in this order.
WithGroup(db, c, missing, Op(_)) ==
    WithValue(db, c.k, "stream", missing, LAMBDA st :
       IF c.g \notin DOMAIN st.groups THEN Ret(db, NoGroup) ELSE Op(st.groups[c.g]))

-----------------------------------------------------------------------------
(* cmd_stream.rs *)

NoId == <<-4, -4>>

\* The ID after id, carrying into the next millisecond.
IncrementedStreamId(id) ==
    IF id[2] < IMax THEN <<id[1], id[2] + 1>>
    ELSE IF id[1] < IMax THEN <<id[1] + 1, 0>> ELSE NoId

NextStreamId(last, now) == IF now > last[1] THEN <<now, 0>> ELSE IncrementedStreamId(last)

NextStreamIdForMs(last, ms) ==
    IF ms # last[1] THEN <<ms, 0>> ELSE IF last[2] < IMax THEN <<ms, last[2] + 1>> ELSE NoId

MutXadd(db0, c, now) ==
    LET db == PurgeExpiredKey(db0, c.k, now)
        made == IF Has(db, c.k) THEN db ELSE InsertKey(db, c.k, StreamValue(<<>>, 0))
        st == StreamAt(made, c.k)
        top == IF st.entries = <<>> THEN Zero ELSE st.entries[Len(st.entries)].id
        id == CASE c.how = "auto" -> NextStreamId(top, now)
                [] c.how = "ms" -> NextStreamIdForMs(top, c.id[1])
                [] OTHER -> c.id
    IN IF Has(db, c.k) /\ db.data[c.k].t # "stream" THEN Ret(db, WrongType)
       ELSE IF ~IdLess(top, id) THEN Ret(db, Err("equal or smaller"))
       ELSE Ret(PutStream(made, c.k, [st EXCEPT !.entries = Append(@, [id |-> id, fields |-> c.v]),
                                                !.meta.last = id, !.meta.added = @ + 1]),
                IdReply(id))

\* c.how: an ID of its own, "ms" for <ms>-*, "auto" for *.
Xadd(db0, c, now) ==
    LET db == PurgeExpiredKey(db0, c.k, now)
        last == IF Has(db, c.k) THEN StreamAt(db, c.k).meta.last ELSE Zero
        id == CASE c.how = "auto" -> NextStreamId(last, now)
                [] c.how = "ms" -> NextStreamIdForMs(last, c.id[1])
                [] OTHER -> c.id
        made == IF Has(db, c.k) THEN db ELSE InsertKey(db, c.k, StreamValue(<<>>, 0))
        st == StreamAt(made, c.k)
    IN IF c.id = BadId THEN Ret(db0, InvalidId)
       ELSE IF c.how = "id" /\ c.id = Zero THEN Ret(db0, Err("must be greater than 0-0"))
       ELSE IF Has(db, c.k) /\ db.data[c.k].t # "stream" THEN Ret(db, WrongType)
       ELSE IF last = MaxStreamId THEN Ret(db, Err("exhausted"))
       ELSE IF id = NoId \/ ~IdLess(last, id) THEN Ret(db, Err("equal or smaller"))
       ELSE Ret(PutStream(made, c.k, [st EXCEPT !.entries = Append(@, [id |-> id, fields |-> c.v]),
                                                !.meta.last = id, !.meta.added = @ + 1]),
                IdReply(id))

Xlen(db0, c, now) ==
    LET db == PurgeExpiredKey(db0, c.k, now)
    IN ReadValue(db, c.k, "stream", Num(0), LAMBDA st : Num(Len(st.entries)))

\* c.a and c.b in the order of the arguments; - and + are the extreme IDs.
Xrange(db0, c, now) ==
    LET db == PurgeExpiredKey(db0, c.k, now)
        low == IF c.rev THEN c.b ELSE c.a
        high == IF c.rev THEN c.a ELSE c.b
        In(e) == IdAtMost(low, e.id) /\ IdAtMost(e.id, high)
        Found(st) == LET s == SelectSeq(st.entries, In) IN IF c.rev THEN Reverse(s) ELSE s
    IN IF BadId \in {low, high} THEN Ret(db0, InvalidId)
       ELSE ReadValue(db, c.k, "stream", Rows(<<>>), LAMBDA st : Rows(FirstN(Found(st), c.count)))

\* One stream of XREAD after the other: the first that is refused ends it.
XreadOne(acc, k, arg, count, now) ==
    LET db == PurgeExpiredKey(acc.db, k, now)
        after == IF arg = Dollar THEN (IF Has(db, k) THEN StreamAt(db, k).meta.last ELSE Zero) ELSE arg
        rows == FirstN(SelectSeq(StreamAt(db, k).entries, LAMBDA e : IdLess(after, e.id)), count)
    IN IF acc.err # Ok THEN acc
       ELSE IF Has(db, k) /\ db.data[k].t # "stream" THEN [acc EXCEPT !.db = db, !.err = WrongType]
       ELSE IF arg = BadId THEN [acc EXCEPT !.db = db, !.err = InvalidId]
       ELSE [db |-> db, err |-> Ok, ids |-> Append(acc.ids, after),
             rows |-> IF Has(db, k) /\ rows # <<>> THEN Append(acc.rows, <<k, rows>>) ELSE acc.rows]

\* With BLOCK and nothing to return the client waits, with $ replaced by the ID
\* it stood for.
Xread(db0, c, now) ==
    LET out == FoldLeft(LAMBDA acc, i : XreadOne(acc, c.ks[i], c.ids[i], c.count, now),
                        [db |-> db0, err |-> Ok, ids |-> <<>>, rows |-> <<>>],
                        [i \in DOMAIN c.ks |-> i])
    IN Ret(out.db, IF out.err # Ok THEN out.err
                   ELSE IF out.rows # <<>> THEN Arr(out.rows)
                   ELSE IF c.block THEN [blocked |-> out.ids] ELSE NilArr)

-----------------------------------------------------------------------------
(* cmd_stream_groups.rs *)

NewGroup(id) == [last |-> id, consumers |-> <<>>, pending |-> <<>>]
NewConsumer(now) == [seen |-> now, pending |-> {}]

XgroupCreate(db0, c, now) ==
    LET db == PurgeExpiredKey(db0, c.k, now)
        there == Has(db, c.k)
        id == IF c.id # Dollar THEN c.id ELSE IF there THEN StreamAt(db, c.k).meta.last ELSE Zero
        made == IF there THEN db ELSE InsertKey(db, c.k, StreamValue(<<>>, 0))
        st == StreamAt(made, c.k)
    IN IF there /\ db.data[c.k].t # "stream" THEN Ret(db, WrongType)
       ELSE IF ~there /\ ~c.mkstream THEN Ret(db, Err("requires the key to exist"))
       ELSE IF c.id = BadId THEN Ret(db, InvalidId)
       ELSE IF c.g \in DOMAIN st.groups THEN Ret(made, Err("BUSYGROUP"))
       ELSE Ret(PutStream(made, c.k, [st EXCEPT !.groups = Put(@, c.g, NewGroup(id))]), Ok)

XgroupDestroy(db0, c, now) ==
    LET db == PurgeExpiredKey(db0, c.k, now)
    IN WithValue(db, c.k, "stream", Num(0), LAMBDA st :
         Ret(PutStream(db, c.k, [st EXCEPT !.groups = Drop(@, c.g)]),
             Num(IF c.g \in DOMAIN st.groups THEN 1 ELSE 0)))

\* The cursor may go back: entries are then delivered again.
XgroupSetid(db0, c, now) ==
    LET db == PurgeExpiredKey(db0, c.k, now)
    IN WithGroup(db, c, NoGroup, LAMBDA group :
         IF c.id = BadId THEN Ret(db, InvalidId)
         ELSE LET id == IF c.id = Dollar THEN StreamAt(db, c.k).meta.last ELSE c.id
              IN Ret(PutGroup(db, c.k, c.g, [group EXCEPT !.last = id]), Ok))

XgroupCreateconsumer(db0, c, now) ==
    LET db == PurgeExpiredKey(db0, c.k, now)
    IN WithGroup(db, c, NoGroup, LAMBDA group :
         IF c.m \in DOMAIN group.consumers THEN Ret(db, Num(0))
         ELSE Ret(PutGroup(db, c.k, c.g,
                     [group EXCEPT !.consumers = Put(@, c.m, NewConsumer(now))]), Num(1)))

\* What a consumer holds goes with it.
XgroupDelconsumer(db0, c, now) ==
    LET db == PurgeExpiredKey(db0, c.k, now)
    IN WithGroup(db, c, NoGroup, LAMBDA group :
         LET held == IF c.m \in DOMAIN group.consumers THEN group.consumers[c.m].pending ELSE {}
             kept == {id \in DOMAIN group.pending : group.pending[id].consumer # c.m}
         IN Ret(PutGroup(db, c.k, c.g,
                   [group EXCEPT !.consumers = Drop(@, c.m),
                                 !.pending = IF held = {} THEN @ ELSE Restrict(@, kept)]),
                Num(Cardinality(held))))

Touched(group, m, now) ==
    [group EXCEPT !.consumers = Put(@, m, [seen |-> now,
        pending |-> IF m \in DOMAIN @ THEN @[m].pending ELSE {}])]

\* Hand ids to consumer m: entries already pending change owner and count on.
Delivered(group, m, ids, now) ==
    [group EXCEPT
       !.consumers[m].pending = @ \cup ids,
       !.pending = [id \in DOMAIN @ \cup ids |->
          IF id \notin ids THEN @[id]
          ELSE [consumer |-> m, at |-> now,
                deliveries |-> IF id \in DOMAIN @ THEN @[id].deliveries + 1 ELSE 1]]]

\* The entries a consumer asks for: new ones, or its own pending ones again.
Selected(st, group, m, arg, count) ==
    LET Wanted(e) == IF arg = New THEN IdLess(group.last, e.id)
                     ELSE /\ IdLess(arg, e.id)
                          /\ e.id \in DOMAIN group.pending
                          /\ group.pending[e.id].consumer = m
    IN FirstN(SelectSeq(st.entries, Wanted), count)

AfterRead(group, m, arg, rows, noack, now) ==
    LET ids == IdsOf(rows)
        counted == [group EXCEPT !.pending = [id \in DOMAIN @ |->
                       IF id \in ids THEN [@[id] EXCEPT !.deliveries = @ + 1, !.at = now] ELSE @[id]]]
    IN IF rows = <<>> THEN group
       ELSE IF arg # New THEN (IF noack THEN group ELSE counted)
       ELSE [(IF noack THEN group ELSE Delivered(group, m, ids, now))
                EXCEPT !.last = rows[Len(rows)].id]

\* One stream of XREADGROUP: the consumer exists from then on, whatever follows.
XreadgroupOne(acc, k, arg, c, now) ==
    LET db == PurgeExpiredKey(acc.db, k, now)
        st == StreamAt(db, k)
        group == Touched(st.groups[c.g], c.m, now)
        rows == Selected(st, group, c.m, arg, c.count)
    IN IF acc.err # Ok THEN acc
       ELSE IF ~Has(db, k) THEN [acc EXCEPT !.db = db, !.err = NoGroup]
       ELSE IF db.data[k].t # "stream" THEN [acc EXCEPT !.db = db, !.err = WrongType]
       ELSE IF c.g \notin DOMAIN st.groups THEN [acc EXCEPT !.db = db, !.err = NoGroup]
       ELSE IF arg = BadId THEN [acc EXCEPT !.db = PutGroup(db, k, c.g, group), !.err = InvalidId]
       ELSE [db |-> PutGroup(db, k, c.g, AfterRead(group, c.m, arg, rows, c.noack, now)), err |-> Ok,
             rows |-> IF rows = <<>> THEN acc.rows ELSE Append(acc.rows, <<k, rows>>)]

Xreadgroup(db0, c, now) ==
    LET out == FoldLeft(LAMBDA acc, i : XreadgroupOne(acc, c.ks[i], c.ids[i], c, now),
                        [db |-> db0, err |-> Ok, rows |-> <<>>], [i \in DOMAIN c.ks |-> i])
    IN Ret(out.db, IF out.err # Ok THEN out.err
                   ELSE IF out.rows # <<>> THEN Arr(out.rows)
                   ELSE IF c.block THEN [blocked |-> c.ids] ELSE NilArr)

\* An acknowledged entry leaves the group's list and its owner's.
Acked(group, id) ==
    IF id \notin DOMAIN group.pending THEN group
    ELSE LET owner == group.pending[id].consumer
         IN [group EXCEPT !.pending = Drop(@, id),
                          !.consumers = [m \in DOMAIN @ |->
                             IF m = owner THEN [@[m] EXCEPT !.pending = @ \ {id}] ELSE @[m]]]

\* IDs are read one by one, each acknowledged before the next is looked at.
Xack(db0, c, now) ==
    LET db == PurgeExpiredKey(db0, c.k, now)
        bad == {i \in DOMAIN c.ids : c.ids[i] = BadId}
        good == IF bad = {} THEN c.ids ELSE SubSeq(c.ids, 1, Min(bad) - 1)
    IN WithGroup(db, c, Num(0), LAMBDA group :
         Ret(PutGroup(db, c.k, c.g, FoldLeft(Acked, group, good)),
             IF bad # {} THEN InvalidId
             ELSE Num(Cardinality(ToSet(good) \cap DOMAIN group.pending))))

XpendingSummary(group) ==
    LET ids == SortedIds(DOMAIN group.pending)
        held(m) == {id \in DOMAIN group.pending : group.pending[id].consumer = m}
    IN IF ids = <<>> THEN [pending |-> 0]
       ELSE [pending |-> Len(ids), first |-> ids[1], last |-> ids[Len(ids)],
             owners |-> {<<group.pending[id].consumer, Cardinality(held(group.pending[id].consumer))>> :
                            id \in DOMAIN group.pending}]

\* c.summary, or the pending entries between c.a and c.b, of consumer c.m if it
\* is not 0.
Xpending(db0, c, now) ==
    LET db == PurgeExpiredKey(db0, c.k, now)
    IN WithGroup(db, c, NoGroup, LAMBDA group :
         LET hits == {id \in DOMAIN group.pending :
                        /\ IdAtMost(c.a, id) /\ IdAtMost(id, c.b)
                        /\ c.m = 0 \/ group.pending[id].consumer = c.m}
             rows == FirstN(SortedIds(hits), c.count)
             Row(id) == LET p == group.pending[id]
                        IN <<id, p.consumer, Saturate(now - p.at), p.deliveries>>
         IN Ret(db, IF c.summary THEN XpendingSummary(group)
                    ELSE IF BadId \in {c.a, c.b} THEN InvalidId
                    ELSE Arr([i \in DOMAIN rows |-> Row(rows[i])])))

Xinfo(db0, c, now) ==
    LET db == PurgeExpiredKey(db0, c.k, now)
        StreamInfo(st) ==
            [length |-> Len(st.entries), meta |-> st.meta, groups |-> Cardinality(DOMAIN st.groups),
             first |-> IF st.entries = <<>> THEN Zero ELSE st.entries[1].id]
        GroupInfo(group) ==
            [consumers |-> Cardinality(DOMAIN group.consumers),
             pending |-> Cardinality(DOMAIN group.pending), last |-> group.last]
        ConsumerInfo(m, s) == <<m, Cardinality(s.pending), Saturate(now - s.seen)>>
    IN CASE c.sub = "STREAM" -> ReadValue(db, c.k, "stream", NoSuchKey, StreamInfo)
         [] c.sub = "GROUPS" -> ReadValue(db, c.k, "stream", NoSuchKey,
                LAMBDA st : Arr([g \in DOMAIN st.groups |-> GroupInfo(st.groups[g])]))
         [] c.sub = "CONSUMERS" -> WithGroup(db, c, NoGroup, LAMBDA group :
                Ret(db, Bag({ConsumerInfo(m, group.consumers[m]) : m \in DOMAIN group.consumers})))

-----------------------------------------------------------------------------
(* cmd_stream_lifecycle.rs *)

\* Forget ids in every group.
PurgedGroup(group, ids) ==
    [group EXCEPT !.pending = Restrict(@, DOMAIN @ \ ids),
                  !.consumers = [m \in DOMAIN @ |-> [@[m] EXCEPT !.pending = @ \ ids]]]

PruneStreamRemovedIds(st, ids) ==
    [st EXCEPT !.groups = [g \in DOMAIN @ |-> PurgedGroup(@[g], ids)]]

Without(st, ids) == [st EXCEPT !.entries = SelectSeq(@, LAMBDA e : e.id \notin ids)]

RecordDeletedIds(st, ids) ==
    [st EXCEPT !.meta.maxdel = FoldSet(IdMax, @, ids)]

\* c.limit < 0: none.  XTRIM leaves the largest deleted ID alone.
Xtrim(db0, c, now) ==
    LET db == PurgeExpiredKey(db0, c.k, now)
        Old(st) == {i \in DOMAIN st.entries : \A j \in 1..i : IdLess(st.entries[j].id, c.id)}
        Excess(st) == IF c.how = "maxlen" THEN AtLeast0(Len(st.entries) - c.n) ELSE Cardinality(Old(st))
        Count(st) == IF c.limit < 0 THEN Excess(st) ELSE Min({Excess(st), c.limit})
    IN IF c.how = "minid" /\ c.id = BadId THEN Ret(db0, InvalidId)
       ELSE WithValue(db, c.k, "stream", Num(0), LAMBDA st :
              LET gone == IdsOf(SubSeq(st.entries, 1, Count(st)))
              IN Ret(PutStream(db, c.k, PruneStreamRemovedIds(Without(st, gone), gone)), Num(Count(st))))

Xdel(db0, c, now) ==
    LET db == PurgeExpiredKey(db0, c.k, now)
    IN IF BadId \in ToSet(c.ids) THEN Ret(db0, InvalidId)
       ELSE WithValue(db, c.k, "stream", Num(0), LAMBDA st :
              LET gone == IdsOf(st.entries) \cap ToSet(c.ids)
              IN Ret(PutStream(db, c.k,
                        RecordDeletedIds(PruneStreamRemovedIds(Without(st, gone), gone), gone)),
                     Num(Cardinality(gone))))

\* The entry changes hands: the previous owner loses it.
ClaimPendingId(group, m, id, now) ==
    LET released == [group EXCEPT !.consumers = [x \in DOMAIN @ |->
                       IF x = group.pending[id].consumer THEN [@[x] EXCEPT !.pending = @ \ {id}] ELSE @[x]]]
    IN Delivered(Touched(released, m, now), m, {id}, now)

Claimable(group, id, minIdle, now) ==
    id \in DOMAIN group.pending /\ Saturate(now - group.pending[id].at) >= minIdle

ClaimAll(group, m, ids, minIdle, now) ==
    FoldLeft(LAMBDA acc, id : IF Claimable(acc.group, id, minIdle, now)
                              THEN [group |-> ClaimPendingId(acc.group, m, id, now),
                                    ids |-> Append(acc.ids, id)]
                              ELSE acc,
             [group |-> group, ids |-> <<>>], ids)

\* Claimed entries that are still in the stream, in the order of the claims; one
\* claimed twice is returned once.
ClaimedRows(st, ids, justid) ==
    IF justid THEN Arr(ids)
    ELSE LET Entry(id) == SelectSeq(st.entries, LAMBDA e : e.id = id)
             there == {i \in DOMAIN ids : ids[i] \in IdsOf(st.entries)
                                          /\ \A j \in DOMAIN ids : ids[j] = ids[i] => j <= i}
         IN Rows([n \in 1..Cardinality(there) |-> Entry(ids[Members(there)[n]])[1]])

Xclaim(db0, c, now) ==
    LET db == PurgeExpiredKey(db0, c.k, now)
    IN IF c.n < 0 \/ ~IsInt(c.n) THEN Ret(db0, NotAnInteger)
       ELSE IF BadId \in ToSet(c.ids) THEN Ret(db0, Err("syntax error"))
       ELSE WithGroup(db, c, NoGroup, LAMBDA group :
              LET out == ClaimAll(group, c.m, c.ids, c.n, now)
              IN Ret(PutGroup(db, c.k, c.g, out.group),
                     ClaimedRows(StreamAt(db, c.k), out.ids, c.justid)))

\* Walks the pending entries from c.id on and stops after c.count claims; the
\* cursor is the next pending one.
Xautoclaim(db0, c, now) ==
    LET db == PurgeExpiredKey(db0, c.k, now)
    IN IF c.n < 0 \/ ~IsInt(c.n) THEN Ret(db0, NotAnInteger)
       ELSE IF c.id = BadId THEN Ret(db0, InvalidId)
       ELSE WithGroup(db, c, NoGroup, LAMBDA group :
              LET all == SortedIds(DOMAIN group.pending)
                  hits == SelectSeq(all, LAMBDA id : IdAtMost(c.id, id) /\ Claimable(group, id, c.n, now))
                  taken == FirstN(hits, IF c.count = 0 THEN 1 ELSE c.count)
                  full == taken # <<>> /\ Len(taken) >= c.count
                  later == SelectSeq(all, LAMBDA id : IdLess(taken[Len(taken)], id))
                  out == ClaimAll(group, c.m, taken, c.n, now)
              IN Ret(PutGroup(db, c.k, c.g, out.group),
                     [cursor |-> IF full /\ later # <<>> THEN later[1] ELSE Zero,
                      claimed |-> ClaimedRows(StreamAt(db, c.k), out.ids, c.justid)]))

HasPendingReferences(st, id) == \E g \in DOMAIN st.groups : id \in DOMAIN st.groups[g].pending

\* One ID of XDELEX or XACKDEL: under KEEPREF the references stay, under DELREF
\* they go, under ACKED they keep the entry.
DeleteOne(acc, id, cond, Allowed(_)) ==
    LET referred == HasPendingReferences(acc.st, id)
    IN IF ~Allowed(id) THEN [acc EXCEPT !.out = Append(@, -1)]
       ELSE CASE cond = "keepref" -> [acc EXCEPT !.gone = @ \cup {id},
                                                 !.out = Append(@, IF referred THEN 2 ELSE 1)]
              [] cond = "delref" -> [st |-> PruneStreamRemovedIds(acc.st, {id}),
                                     gone |-> acc.gone \cup {id}, out |-> Append(acc.out, 1)]
              [] cond = "acked" -> IF referred THEN [acc EXCEPT !.out = Append(@, 2)]
                                   ELSE [acc EXCEPT !.gone = @ \cup {id}, !.out = Append(@, 1)]

Deleted(db, k, acc) ==
    Ret(PutStream(db, k, RecordDeletedIds(Without(acc.st, acc.gone), acc.gone)), Arr(acc.out))

Missing(ids) == Arr([i \in DOMAIN ids |-> -1])

Xackdel(db0, c, now) ==
    LET db == PurgeExpiredKey(db0, c.k, now)
        entries == IdsOf(StreamAt(db, c.k).entries)
        Step(acc, id) ==
            LET group == acc.st.groups[c.g]
                acked == id \in entries /\ id \in DOMAIN group.pending
                st == IF acked THEN [acc.st EXCEPT !.groups[c.g] = Acked(group, id)] ELSE acc.st
            IN DeleteOne([acc EXCEPT !.st = st], id, c.cond, LAMBDA x : acked)
    IN IF BadId \in ToSet(c.ids) THEN Ret(db0, InvalidId)
       ELSE IF ~Has(db, c.k) THEN Ret(db, Missing(c.ids))
       ELSE WithGroup(db, c, NoGroup, LAMBDA group :
              Deleted(db, c.k, FoldLeft(Step, [st |-> StreamAt(db, c.k), gone |-> {}, out |-> <<>>], c.ids)))

Xdelex(db0, c, now) ==
    LET db == PurgeExpiredKey(db0, c.k, now)
    IN IF BadId \in ToSet(c.ids) THEN Ret(db0, InvalidId)
       ELSE WithValue(db, c.k, "stream", Missing(c.ids), LAMBDA st :
              Deleted(db, c.k,
                 FoldLeft(LAMBDA acc, id : DeleteOne(acc, id, c.cond, LAMBDA x : x \in IdsOf(st.entries)),
                          [st |-> st, gone |-> {}, out |-> <<>>], c.ids)))

-----------------------------------------------------------------------------
(* cmd_stream_admin.rs *)

\* c.hasAdded tells whether ENTRIESADDED is given, c.maxdel = Zero that
\* MAXDELETEDID is not.
Xsetid(db0, c, now) ==
    LET db == PurgeExpiredKey(db0, c.k, now)
    IN IF c.id = BadId THEN Ret(db0, InvalidId)
       ELSE IF c.hasAdded /\ ~IsInt(c.added) THEN Ret(db0, NotAnInteger)
       ELSE IF c.hasAdded /\ c.added < 0 THEN Ret(db0, Err("entries_added must be positive"))
       ELSE IF IdLess(c.id, c.maxdel) THEN Ret(db0, Err("smaller than the provided max_deleted_entry_id"))
       ELSE WithValue(db, c.k, "stream", NoSuchKey, LAMBDA st :
              LET n == Len(st.entries)
              IN IF IdLess(c.id, st.meta.maxdel) THEN Ret(db, Err("smaller than current max_deleted_entry_id"))
                 ELSE IF n > 0 /\ IdLess(c.id, st.entries[n].id) THEN Ret(db, Err("smaller than the top item"))
                 ELSE IF n > 0 /\ c.hasAdded /\ n > c.added THEN Ret(db, Err("entries_added too small"))
                 ELSE Ret(PutStream(db, c.k,
                        [st EXCEPT !.meta = [last |-> c.id,
                                             added |-> IF c.hasAdded THEN c.added ELSE @.added,
                                             maxdel |-> IF c.maxdel # Zero THEN c.maxdel ELSE @.maxdel]]), Ok))

\* The options are checked and forgotten.
Xcfgset(db0, c, now) ==
    LET db == PurgeExpiredKey(db0, c.k, now)
    IN IF ~IsInt(c.n) \/ c.n < 0 THEN Ret(db0, NotAnInteger)
       ELSE ReadValue(db, c.k, "stream", NoSuchKey, LAMBDA st : Ok)

-----------------------------------------------------------------------------
StreamOps == {"XADD", "XLEN", "XRANGE", "XREAD", "XGROUP", "XREADGROUP", "XACK", "XPENDING", "XINFO",
              "XTRIM", "XDEL", "XCLAIM", "XAUTOCLAIM", "XACKDEL", "XDELEX", "XSETID", "XCFGSET"}

Xgroup(db, c, now) ==
    CASE c.sub = "CREATE" -> XgroupCreate(db, c, now)
      [] c.sub = "DESTROY" -> XgroupDestroy(db, c, now)
      [] c.sub = "SETID" -> XgroupSetid(db, c, now)
      [] c.sub = "CREATECONSUMER" -> XgroupCreateconsumer(db, c, now)
      [] c.sub = "DELCONSUMER" -> XgroupDelconsumer(db, c, now)

StreamCommand(db, c, now) ==
    CASE c.op = "XADD" -> Xadd(db, c, now)
      [] c.op = "XLEN" -> Xlen(db, c, now)
      [] c.op = "XRANGE" -> Xrange(db, c, now)
      [] c.op = "XREAD" -> Xread(db, c, now)
      [] c.op = "XGROUP" -> Xgroup(db, c, now)
      [] c.op = "XREADGROUP" -> Xreadgroup(db, c, now)
      [] c.op = "XACK" -> Xack(db, c, now)
      [] c.op = "XPENDING" -> Xpending(db, c, now)
      [] c.op = "XINFO" -> Xinfo(db, c, now)
      [] c.op = "XTRIM" -> Xtrim(db, c, now)
      [] c.op = "XDEL" -> Xdel(db, c, now)
      [] c.op = "XCLAIM" -> Xclaim(db, c, now)
      [] c.op = "XAUTOCLAIM" -> Xautoclaim(db, c, now)
      [] c.op = "XACKDEL" -> Xackdel(db, c, now)
      [] c.op = "XDELEX" -> Xdelex(db, c, now)
      [] c.op = "XSETID" -> Xsetid(db, c, now)
      [] c.op = "XCFGSET" -> Xcfgset(db, c, now)

=============================================================================
