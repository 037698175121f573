------------------------- MODULE TransactionsProofs -------------------------
(***************************************************************************)
(* Proofs about Transactions for every set of clients, databases, keys and *)
(* commands, every queue limit and every bound.                            *)
(***************************************************************************)
EXTENDS Transactions, FiniteSetTheorems, TLAPS

Stores == [data : [Slots -> Entries], versions : [Slots -> Nat], next : Nat]

\* Versions in use are smaller than the next one.
FreshNext(st) == \A s \in Slots : st.versions[s] < st.next

\* What every operation on a store does to versions.
VersionStep(a, b) ==
    /\ b \in Stores /\ FreshNext(b)
    /\ b.next >= a.next
    /\ \A s \in Slots : b.versions[s] = a.versions[s] \/ (refs[s] # 0 /\ b.versions[s] >= a.next)

\* A changed entry of a watched slot has a new version.
Marks(a, b) ==
    \A s \in Slots : refs[s] # 0 /\ b.data[s] # a.data[s] => b.versions[s] >= a.next

\* The commands whose writes the versions are meant to follow.
Tracked(cmd) == cmd.op \notin {"SETGET", "LMPOP"}

USE FiniteAssumption, NoOneAssumption, CommandAssumption, BoundAssumption

-----------------------------------------------------------------------------
(* Stores.                                                                   *)

\* An absent key is an entry.
LEMMA NoneIsEntry == None \in Entries
BY DEF None, Entries

\* RecordModifications gives new versions to the watched slots of S only.
LEMMA RecordStep ==
    ASSUME refs \in [Slots -> Nat], NEW st \in Stores, FreshNext(st), NEW S \in SUBSET Slots
    PROVE  /\ VersionStep(st, RecordModifications(st, S))
           /\ RecordModifications(st, S).data = st.data
           /\ \A s \in S : refs[s] # 0 => RecordModifications(st, S).versions[s] >= st.next
<1> DEFINE hit == {s \in S : refs[s] # 0}
           v == [s \in Slots |-> IF s \in hit THEN st.next ELSE st.versions[s]]
           n == IF hit = {} THEN st.next ELSE st.next + 1
           r == RecordModifications(st, S)
<1>1. r = [data |-> st.data, versions |-> v, next |-> n]
  BY DEF RecordModifications
<1>2. v \in [Slots -> Nat] /\ n \in Nat /\ n >= st.next
  BY DEF Stores
<1>3. \A s \in Slots : v[s] < n
  BY DEF Stores, FreshNext
<1>4. r \in Stores /\ FreshNext(r)
  BY <1>1, <1>2, <1>3 DEF Stores, FreshNext
<1>5. \A s \in Slots : v[s] = st.versions[s] \/ (refs[s] # 0 /\ v[s] >= st.next)
  BY DEF Stores
<1>6. VersionStep(st, r)
  BY <1>1, <1>2, <1>4, <1>5 DEF VersionStep
<1>7. \A s \in S : refs[s] # 0 => v[s] >= st.next
  BY DEF Stores
<1> QED BY <1>1, <1>6, <1>7

\* Setting entries changes no version.
LEMMA SetDataStep ==
    ASSUME NEW st \in Stores, FreshNext(st), NEW d \in [Slots -> Entries]
    PROVE  /\ VersionStep(st, SetData(st, d)) /\ SetData(st, d).data = d
           /\ SetData(st, d).versions = st.versions /\ SetData(st, d).next = st.next
BY DEF Stores, VersionStep, FreshNext, SetData

\* Version steps compose.
LEMMA StepTrans ==
    ASSUME refs \in [Slots -> Nat], NEW a \in Stores, NEW b, NEW c,
           VersionStep(a, b), VersionStep(b, c)
    PROVE  VersionStep(a, c)
BY DEF VersionStep, Stores

\* Steps that mark what they change compose to one that does.
LEMMA MarksTrans ==
    ASSUME refs \in [Slots -> Nat], NEW a \in Stores, NEW b, NEW c,
           VersionStep(a, b), VersionStep(b, c), Marks(a, b), Marks(b, c)
    PROVE  Marks(a, c)
BY DEF VersionStep, Stores, Marks

\* PurgeExpired drops the expired slots of S and marks the watched ones.
LEMMA PurgeStep ==
    ASSUME refs \in [Slots -> Nat], NEW st \in Stores, FreshNext(st), NEW S \in SUBSET Slots, NEW now
    PROVE  /\ VersionStep(st, PurgeExpired(st, S, now)) /\ Marks(st, PurgeExpired(st, S, now))
           /\ PurgeExpired(st, S, now).data =
                [s \in Slots |-> IF s \in {z \in S : Expired(st.data[z], now)} THEN None ELSE st.data[s]]
<1> DEFINE gone == {s \in S : Expired(st.data[s], now)}
           d == [s \in Slots |-> IF s \in gone THEN None ELSE st.data[s]]
           m == SetData(st, d)
           r == RecordModifications(m, gone)
<1>1. d \in [Slots -> Entries]
  BY NoneIsEntry DEF Stores
<1>2. VersionStep(st, m) /\ m.data = d /\ m.versions = st.versions /\ m.next = st.next
  <2> HIDE DEF d
  <2> QED BY <1>1, SetDataStep
<1>3. m \in Stores /\ FreshNext(m)
  BY <1>2 DEF VersionStep
<1>4. gone \in SUBSET Slots
  OBVIOUS
<1>5. /\ VersionStep(m, r) /\ r.data = m.data
      /\ \A s \in gone : refs[s] # 0 => r.versions[s] >= m.next
  <2> HIDE DEF m, gone
  <2> QED BY <1>3, <1>4, RecordStep
<1>6. PurgeExpired(st, S, now) = r
  BY DEF PurgeExpired
<1>7. VersionStep(st, r)
  <2> HIDE DEF m, r
  <2> QED BY <1>2, <1>5, StepTrans
<1>8. Marks(st, r)
  <2> HIDE DEF m, r, gone
  <2> QED BY <1>2, <1>5 DEF Marks
<1> HIDE DEF r, m
<1> QED BY <1>2, <1>5, <1>6, <1>7, <1>8

\* TouchKeyVersion marks its slot; it may skip the table when nobody watches.
LEMMA TouchStep ==
    ASSUME refs \in [Slots -> Nat], watchedKeys = 0 => \A s \in Slots : refs[s] = 0,
           NEW st \in Stores, FreshNext(st), NEW s \in Slots
    PROVE  /\ VersionStep(st, TouchKeyVersion(st, s)) /\ TouchKeyVersion(st, s).data = st.data
           /\ refs[s] # 0 => TouchKeyVersion(st, s).versions[s] >= st.next
<1>1. CASE watchedKeys = 0
  BY <1>1 DEF TouchKeyVersion, VersionStep, Stores
<1>2. CASE watchedKeys # 0
  <2>1. {s} \in SUBSET Slots
    OBVIOUS
  <2>2. TouchKeyVersion(st, s) = RecordModifications(st, {s})
    BY <1>2 DEF TouchKeyVersion
  <2> QED BY <2>1, <2>2, RecordStep
<1> QED BY <1>1, <1>2

\* RecordWatchedExisting marks every entry of a database.
LEMMA ExistingStep ==
    ASSUME refs \in [Slots -> Nat], NEW st \in Stores, FreshNext(st), NEW d
    PROVE  /\ VersionStep(st, RecordWatchedExisting(st, d))
           /\ RecordWatchedExisting(st, d).data = st.data
           /\ \A s \in Slots : s[1] = d /\ st.data[s] # None /\ refs[s] # 0
                 => RecordWatchedExisting(st, d).versions[s] >= st.next
<1> DEFINE S == {s \in Slots : s[1] = d /\ st.data[s] # None}
<1>1. S \in SUBSET Slots
  OBVIOUS
<1>2. RecordWatchedExisting(st, d) = RecordModifications(st, S)
  BY DEF RecordWatchedExisting
<1>3. /\ VersionStep(st, RecordModifications(st, S))
      /\ RecordModifications(st, S).data = st.data
      /\ \A s \in S : refs[s] # 0 => RecordModifications(st, S).versions[s] >= st.next
  <2> HIDE DEF S
  <2> QED BY <1>1, RecordStep
<1> QED BY <1>2, <1>3

\* FLUSHDB marks what it removes.
LEMMA ClearStep ==
    ASSUME refs \in [Slots -> Nat], NEW st \in Stores, FreshNext(st), NEW d
    PROVE  VersionStep(st, ClearDb(st, d)) /\ Marks(st, ClearDb(st, d))
<1> DEFINE m == RecordWatchedExisting(st, d)
           e == [s \in Slots |-> IF s[1] = d THEN None ELSE st.data[s]]
           r == SetData(m, e)
<1>1. /\ VersionStep(st, m) /\ m.data = st.data
      /\ \A s \in Slots : s[1] = d /\ st.data[s] # None /\ refs[s] # 0 => m.versions[s] >= st.next
  BY ExistingStep
<1>2. m \in Stores /\ FreshNext(m)
  BY <1>1 DEF VersionStep
<1>3. e \in [Slots -> Entries]
  BY NoneIsEntry DEF Stores
<1>4. VersionStep(m, r) /\ r.data = e /\ r.versions = m.versions
  <2> HIDE DEF m, e
  <2> QED BY <1>2, <1>3, SetDataStep
<1>5. VersionStep(st, r)
  <2> HIDE DEF m, r
  <2> QED BY <1>1, <1>4, StepTrans
<1>6. Marks(st, r)
  <2> HIDE DEF m, r
  <2> QED BY <1>1, <1>4 DEF Marks
<1>7. ClearDb(st, d) = r
  BY DEF ClearDb
<1> QED BY <1>5, <1>6, <1>7

\* SWAPDB marks the keys of both databases before and after.
LEMMA SwapStep ==
    ASSUME refs \in [Slots -> Nat], NEW st \in Stores, FreshNext(st), NEW a \in Dbs, NEW b \in Dbs
    PROVE  VersionStep(st, SwapDbs(st, a, b)) /\ Marks(st, SwapDbs(st, a, b))
<1> DEFINE Other(s) == <<IF s[1] = a THEN b ELSE IF s[1] = b THEN a ELSE s[1], s[2]>>
           e  == [s \in Slots |-> st.data[Other(s)]]
           r1 == RecordWatchedExisting(st, a)
           r2 == RecordWatchedExisting(r1, b)
           r3 == SetData(r2, e)
           r4 == RecordWatchedExisting(r3, a)
           r5 == RecordWatchedExisting(r4, b)
<1>1. /\ VersionStep(st, r1) /\ r1.data = st.data
      /\ \A s \in Slots : s[1] = a /\ st.data[s] # None /\ refs[s] # 0 => r1.versions[s] >= st.next
  BY ExistingStep
<1>2. /\ VersionStep(r1, r2) /\ r2.data = st.data
      /\ \A s \in Slots : s[1] = b /\ st.data[s] # None /\ refs[s] # 0 => r2.versions[s] >= r1.next
  <2>1. r1 \in Stores /\ FreshNext(r1)
    BY <1>1 DEF VersionStep
  <2> HIDE DEF r1
  <2> QED BY <1>1, <2>1, ExistingStep
<1>3. VersionStep(r2, r3) /\ r3.data = e /\ r3.versions = r2.versions /\ r3.next = r2.next
  <2>1. r2 \in Stores /\ FreshNext(r2)
    BY <1>2 DEF VersionStep
  <2>2. \A s \in Slots : Other(s) \in Slots
    BY DEF Slots
  <2>3. e \in [Slots -> Entries]
    BY <2>2 DEF Stores
  <2> HIDE DEF r2, e
  <2> QED BY <2>1, <2>3, SetDataStep
<1>4. /\ VersionStep(r3, r4) /\ r4.data = e
      /\ \A s \in Slots : s[1] = a /\ e[s] # None /\ refs[s] # 0 => r4.versions[s] >= r3.next
  <2>1. r3 \in Stores /\ FreshNext(r3)
    BY <1>3 DEF VersionStep
  <2> HIDE DEF r3, e
  <2> QED BY <1>3, <2>1, ExistingStep
<1>5. /\ VersionStep(r4, r5) /\ r5.data = e
      /\ \A s \in Slots : s[1] = b /\ e[s] # None /\ refs[s] # 0 => r5.versions[s] >= r4.next
  <2>1. r4 \in Stores /\ FreshNext(r4)
    BY <1>4 DEF VersionStep
  <2> HIDE DEF r4, e
  <2> QED BY <1>4, <2>1, ExistingStep
<1>6. SwapDbs(st, a, b) = r5
  BY DEF SwapDbs
<1> HIDE DEF r1, r2, r3, r4, r5
<1>7. VersionStep(st, r2) /\ VersionStep(r2, r4)
  <2>1. r2 \in Stores
    BY <1>2 DEF VersionStep
  <2> QED BY <1>1, <1>2, <1>3, <1>4, <2>1, StepTrans
<1>8. VersionStep(st, r4)
  BY <1>7, StepTrans
<1>9. VersionStep(st, r5)
  BY <1>5, <1>8, StepTrans
<1>10. Marks(st, r5)
  <2> SUFFICES ASSUME NEW s \in Slots, refs[s] # 0, r5.data[s] # st.data[s]
               PROVE  r5.versions[s] >= st.next
    BY DEF Marks
  <2>1. s[1] = a \/ s[1] = b
    <3> SUFFICES ASSUME s[1] # a, s[1] # b PROVE FALSE
      OBVIOUS
    <3>1. s = <<s[1], s[2]>>
      BY DEF Slots
    <3>2. Other(s) = s
      BY <3>1
    <3> QED BY <1>5, <3>2
  <2>2. st.data[s] # None \/ e[s] # None
    BY <1>5
  <2>3. \/ r1.versions[s] >= st.next \/ r2.versions[s] >= r1.next
        \/ r4.versions[s] >= r3.next \/ r5.versions[s] >= r4.next
    BY <1>1, <1>2, <1>4, <1>5, <2>1, <2>2
  <2> QED BY <1>1, <1>2, <1>3, <1>4, <1>5, <2>3 DEF VersionStep, Stores
<1> QED BY <1>6, <1>9, <1>10

\* A handler gives an entry; a write by a tracked command is marked.
LEMMA HandlerStep ==
    ASSUME NEW c \in CommandSet, c.op \notin {"FLUSHDB", "SWAPDB"}, NEW e \in Entries, NEW now \in Nat
    PROVE  /\ Handler(c, e, now).entry \in Entries
           /\ Tracked(c) /\ Handler(c, e, now).entry # e
                => ShouldMark(c.op, Handler(c, e, now).reply) /\ c.s \in KeyPositions(c)
<1> USE NoneIsEntry DEF Handler, Res, Str, List, Entries, Tracked, ShouldMark, KeyPositions
<1>0. c.val \in Nat
  BY DEF CommandSet
<1>1. CASE c.op = "SET"
  BY <1>0, <1>1
<1>2. CASE c.op = "SETGET"
  BY <1>0, <1>2
<1>3. CASE c.op = "SETNX"
  BY <1>0, <1>3
<1>4. CASE c.op = "DEL"
  BY <1>0, <1>4
<1>5. CASE c.op = "LPUSH"
  BY <1>0, <1>5
<1>6. CASE c.op = "LMPOP"
  BY <1>0, <1>6
<1>7. CASE c.op = "EXPIRE"
  BY <1>0, <1>7
<1> QED BY <1>1, <1>2, <1>3, <1>4, <1>5, <1>6, <1>7 DEF CommandSet, Ops

\* A command gives new versions to watched slots only, and a tracked command to
\* every watched slot whose entry it changes.
LEMMA RunStep ==
    ASSUME refs \in [Slots -> Nat], watchedKeys = 0 => \A s \in Slots : refs[s] = 0,
           NEW st \in Stores, FreshNext(st), NEW c \in CommandSet, NEW now \in Nat
    PROVE  /\ VersionStep(st, Run(st, c, now))
           /\ Tracked(c) => Marks(st, Run(st, c, now))
<1>0. c.s \in Slots /\ c.s[1] \in Dbs /\ c.to \in Dbs
  BY DEF CommandSet, Slots
<1>1. CASE c.op = "FLUSHDB"
  <2>1. Run(st, c, now) = ClearDb(st, c.s[1])
    BY <1>1 DEF Run
  <2> QED BY <2>1, ClearStep
<1>2. CASE c.op = "SWAPDB"
  <2>1. CASE c.s[1] = c.to
    <3>1. Run(st, c, now) = st
      BY <1>2, <2>1 DEF Run
    <3> QED BY <3>1 DEF VersionStep, Marks, Stores
  <2>2. CASE c.s[1] # c.to
    <3>1. Run(st, c, now) = SwapDbs(st, c.s[1], c.to)
      BY <1>2, <2>2 DEF Run
    <3> QED BY <1>0, <3>1, SwapStep
  <2> QED BY <2>1, <2>2
<1>3. CASE c.op \notin {"FLUSHDB", "SWAPDB"}
  <2> DEFINE purged == PurgeExpired(st, {c.s}, now)
             h      == Handler(c, purged.data[c.s], now)
             e      == [purged.data EXCEPT ![c.s] = h.entry]
             done   == SetData(purged, e)
             marked == ShouldMark(c.op, h.reply) /\ c.s \in KeyPositions(c)
  <2>1. VersionStep(st, purged) /\ Marks(st, purged)
    <3>1. {c.s} \in SUBSET Slots
      BY <1>0
    <3> QED BY <3>1, PurgeStep
  <2>2. purged \in Stores /\ FreshNext(purged)
    BY <2>1 DEF VersionStep
  <2>3. /\ h.entry \in Entries
        /\ Tracked(c) /\ h.entry # purged.data[c.s] => marked
    <3>1. purged.data[c.s] \in Entries
      <4> HIDE DEF purged
      <4> QED BY <1>0, <2>2 DEF Stores
    <3> HIDE DEF purged
    <3> QED BY <1>3, <3>1, HandlerStep
  <2>4. Run(st, c, now) = IF marked THEN TouchKeyVersion(done, c.s) ELSE done
    BY <1>3 DEF Run
  <2> HIDE DEF purged, h, marked
  <2>5. e \in [Slots -> Entries] /\ \A s \in Slots : s # c.s => e[s] = purged.data[s]
    BY <1>0, <2>2, <2>3 DEF Stores
  <2>6. e[c.s] = h.entry
    BY <1>0, <2>2 DEF Stores
  <2> HIDE DEF e
  <2>7. /\ VersionStep(purged, done) /\ done.data = e
        /\ done.versions = purged.versions /\ done.next = purged.next
    BY <2>2, <2>5, SetDataStep
  <2>8. done \in Stores /\ FreshNext(done)
    BY <2>7 DEF VersionStep
  <2> HIDE DEF done
  <2>9. VersionStep(st, done)
    BY <2>1, <2>7, StepTrans
  <2>10. CASE marked
    <3> DEFINE r == TouchKeyVersion(done, c.s)
    <3>1. /\ VersionStep(done, r) /\ r.data = done.data
          /\ refs[c.s] # 0 => r.versions[c.s] >= done.next
      BY <1>0, <2>8, TouchStep
    <3> HIDE DEF r
    <3>2. VersionStep(st, r) /\ VersionStep(purged, r)
      BY <2>2, <2>7, <2>9, <3>1, StepTrans
    <3>3. Marks(purged, r)
      BY <2>5, <2>6, <2>7, <3>1 DEF Marks
    <3>4. Marks(st, r)
      BY <2>1, <3>2, <3>3, MarksTrans
    <3> QED BY <2>4, <2>10, <3>2, <3>4 DEF r
  <2>11. CASE ~marked
    <3>1. Tracked(c) => Marks(purged, done)
      BY <2>3, <2>5, <2>6, <2>7, <2>11 DEF Marks
    <3>2. Tracked(c) => Marks(st, done)
      BY <2>1, <2>7, <3>1, MarksTrans
    <3> QED BY <2>4, <2>9, <2>11, <3>2
  <2> QED BY <2>10, <2>11
<1> QED BY <1>1, <1>2, <1>3

-----------------------------------------------------------------------------
(* Registrations.                                                            *)

\* Every version handed out, to the table or to a client, is an old one.
VersionsFresh ==
    /\ \A s \in Slots : versions[s] < nextVersion
    /\ \A c \in Clients, s \in Slots : watched[c][s] < nextVersion

\* The types of the variables that the registrations are about.
WatchTypes ==
    /\ versions \in [Slots -> Nat] /\ refs \in [Slots -> Nat] /\ watchedKeys \in Nat
    /\ watched \in [Clients -> [Slots -> Nat \cup {NotWatched}]]
    /\ changed \in [Clients -> SUBSET Slots]

\* Finitely many clients watch a slot.
LEMMA WatchersFinite == \A s \in Slots : IsFiniteSet({c \in Clients : Watches(c, s)})
BY FS_Subset

\* What the counts say of a slot that somebody watches.
LEMMA WatchFacts ==
    ASSUME WatchTypes, RefCountsExact
    PROVE  /\ \A c \in Clients, s \in Slots : Watches(c, s) => refs[s] # 0
           /\ \A c, b \in Clients, s \in Slots : Watches(c, s) /\ Watches(b, s) /\ b # c => refs[s] # 1
           /\ watchedKeys = 0 => \A s \in Slots : refs[s] = 0
<1>1. ASSUME NEW c \in Clients, NEW s \in Slots, Watches(c, s) PROVE refs[s] # 0
  <2> DEFINE W == {b \in Clients : Watches(b, s)}
  <2>1. c \in W /\ refs[s] = Cardinality(W)
    BY <1>1 DEF RefCountsExact
  <2> QED BY <2>1, WatchersFinite, FS_EmptySet
<1>2. ASSUME NEW c \in Clients, NEW b \in Clients, NEW s \in Slots, Watches(c, s), Watches(b, s), b # c
      PROVE  refs[s] # 1
  <2> DEFINE W == {a \in Clients : Watches(a, s)}
  <2>1. c \in W /\ b \in W /\ refs[s] = Cardinality(W)
    BY <1>2 DEF RefCountsExact
  <2>2. IsFiniteSet(W)
    BY WatchersFinite
  <2> HIDE DEF W
  <2> QED BY <1>2, <2>1, <2>2, FS_Singleton
<1>3. ASSUME watchedKeys = 0 PROVE \A s \in Slots : refs[s] = 0
  <2> DEFINE S == {s \in Slots : refs[s] # 0}
  <2>1. IsFiniteSet(S) /\ Cardinality(S) = 0
    BY <1>3, FS_Subset DEF RefCountsExact
  <2>2. S = {}
    BY <2>1, FS_EmptySet
  <2> QED BY <2>2
<1> QED BY <1>1, <1>2, <1>3

\* Ending the watches of a client keeps the registrations exact.
LEMMA ReleaseStep ==
    ASSUME WatchTypes, RefCountsExact, VersionsFresh, nextVersion \in Nat \ {0},
           NEW c \in Clients, ReleaseWatches(c)
    PROVE  WatchTypes' /\ RefCountsExact' /\ VersionsFresh'
<1> DEFINE D == {s \in Slots : Watches(c, s)}
           R == {s \in Slots : refs[s] # 0}
           L == {s \in D : refs[s] = 1}
<1>1. /\ refs' = [s \in Slots |-> IF s \in D THEN refs[s] - 1 ELSE refs[s]]
      /\ versions' = [s \in Slots |-> IF s \in L THEN 0 ELSE versions[s]]
      /\ watchedKeys' = watchedKeys - Cardinality(L)
      /\ watched' = [watched EXCEPT ![c] = [s \in Slots |-> NotWatched]]
      /\ changed' = [changed EXCEPT ![c] = {}] /\ nextVersion' = nextVersion
  BY DEF ReleaseWatches, Dropped, Forgotten
<1>2. \A s \in D : refs[s] # 0
  BY WatchFacts
<1>3. refs' \in [Slots -> Nat]
  <2> HIDE DEF D
  <2> QED BY <1>1, <1>2 DEF WatchTypes
<1>4. {s \in Slots : refs'[s] # 0} = R \ L
  <2> HIDE DEF D
  <2> QED BY <1>1, <1>2, D \subseteq Slots DEF WatchTypes, D
<1>5. /\ IsFiniteSet(R) /\ L \subseteq R /\ watchedKeys = Cardinality(R)
      /\ watchedKeys \in Nat
  BY FS_Subset DEF RefCountsExact, WatchTypes
<1>6. watchedKeys' = Cardinality(R \ L) /\ watchedKeys' \in Nat
  <2>1. IsFiniteSet(L) /\ Cardinality(L) \in Nat
    <3> HIDE DEF L, R
    <3> QED BY <1>5, FS_Subset, FS_CardinalityType
  <2>2. R \cap L = L
    BY <1>5
  <2>3. IsFiniteSet(R \ L) /\ Cardinality(R \ L) = Cardinality(R) - Cardinality(R \cap L)
    <3> HIDE DEF L, R
    <3> QED BY <1>5, FS_Difference
  <2>4. Cardinality(R \ L) \in Nat
    BY <2>3, FS_CardinalityType
  <2> HIDE DEF L, R
  <2> QED BY <1>1, <1>5, <2>1, <2>2, <2>3, <2>4
<1>7. watched' \in [Clients -> [Slots -> Nat \cup {NotWatched}]]
  BY <1>1 DEF WatchTypes
<1>8. WatchTypes'
  BY <1>1, <1>3, <1>6, <1>7 DEF WatchTypes
<1>9. \A s \in Slots : refs'[s] = Cardinality({b \in Clients : Watches(b, s)'})
  <2> SUFFICES ASSUME NEW s \in Slots
               PROVE  refs'[s] = Cardinality({b \in Clients : Watches(b, s)'})
    OBVIOUS
  <2> DEFINE W == {b \in Clients : Watches(b, s)}
  <2>1. {b \in Clients : Watches(b, s)'} = W \ {c}
    BY <1>1 DEF Watches, WatchTypes
  <2>2. IsFiniteSet(W) /\ refs[s] = Cardinality(W) /\ (c \in W <=> s \in D)
    BY WatchersFinite DEF RefCountsExact
  <2>3. Cardinality(W \ {c}) = IF c \in W THEN Cardinality(W) - 1 ELSE Cardinality(W)
    <3> HIDE DEF W
    <3> QED BY <2>2, FS_RemoveElement
  <2>4. refs'[s] = IF s \in D THEN refs[s] - 1 ELSE refs[s]
    BY <1>1
  <2> HIDE DEF W, D
  <2> QED BY <2>1, <2>2, <2>3, <2>4
<1>10. \A s \in Slots : versions'[s] # 0 => refs'[s] # 0
  <2>1. \A s \in Slots : versions[s] # 0 => refs[s] # 0
    BY DEF RefCountsExact
  <2> HIDE DEF D
  <2> QED BY <1>1, <2>1 DEF WatchTypes
<1>11. RefCountsExact'
  BY <1>4, <1>6, <1>9, <1>10 DEF RefCountsExact
<1>12. VersionsFresh'
  BY <1>1 DEF VersionsFresh, WatchTypes, NotWatched
<1> QED BY <1>8, <1>11, <1>12

\* The store of a typed state is typed and its versions are fresh.
LEMMA StoreType ==
    ASSUME TypeOK, VersionsFresh
    PROVE  Store \in Stores /\ FreshNext(Store)
BY DEF TypeOK, VersionsFresh, Store, Stores, FreshNext

\* A new store: versions stay fresh.
LEMMA PutStep ==
    ASSUME TypeOK, VersionsFresh, NEW st, VersionStep(Store, st), Put(st)
    PROVE  /\ data' \in [Slots -> Entries] /\ versions' \in [Slots -> Nat]
           /\ nextVersion' \in Nat \ {0} /\ nextVersion' >= nextVersion
           /\ changed' \in [Clients -> SUBSET Slots]
           /\ \A s \in Slots : versions'[s] < nextVersion'
           /\ \A s \in Slots : versions'[s] = versions[s] \/ (refs[s] # 0 /\ versions'[s] >= nextVersion)
           /\ \A c \in Clients, s \in Slots : watched[c][s] < nextVersion'
<1>1. /\ data' = st.data /\ versions' = st.versions /\ nextVersion' = st.next
      /\ changed' = [c \in Clients |->
                       changed[c] \cup {s \in Slots : Watches(c, s) /\ st.data[s] # data[s]}]
  BY DEF Put
<1>2. /\ st.data \in [Slots -> Entries] /\ st.versions \in [Slots -> Nat]
      /\ st.next \in Nat /\ st.next >= nextVersion
      /\ \A s \in Slots : st.versions[s] < st.next
      /\ \A s \in Slots : st.versions[s] = versions[s] \/ (refs[s] # 0 /\ st.versions[s] >= nextVersion)
  BY DEF VersionStep, Store, Stores, FreshNext
<1>3. changed' \in [Clients -> SUBSET Slots]
  BY <1>1 DEF TypeOK
<1>4. nextVersion \in Nat \ {0} /\ \A c \in Clients, s \in Slots : watched[c][s] \in Int
  BY DEF TypeOK, NotWatched
<1>5. st.next \in Nat \ {0}
  BY <1>2, <1>4
<1>6. \A c \in Clients, s \in Slots : watched[c][s] < st.next
  BY <1>2, <1>4 DEF VersionsFresh
<1> QED BY <1>1, <1>2, <1>3, <1>5, <1>6

\* A new store leaves the registrations alone.
LEMMA PutRefs ==
    ASSUME TypeOK, VersionsFresh, RefCountsExact, NEW st, VersionStep(Store, st), Put(st), UNCHANGED watch
    PROVE  WatchTypes' /\ VersionsFresh' /\ RefCountsExact'
<1>1. refs' = refs /\ watchedKeys' = watchedKeys /\ watched' = watched
  BY DEF watch
<1>2. VersionsFresh'
  BY <1>1, PutStep DEF VersionsFresh
<1>3. WatchTypes'
  BY <1>1, PutStep DEF WatchTypes, TypeOK
<1>4. \A s \in Slots : versions'[s] # 0 => refs[s] # 0
  BY PutStep DEF RefCountsExact
<1>5. RefCountsExact'
  BY <1>1, <1>4 DEF RefCountsExact, Watches
<1> QED BY <1>2, <1>3, <1>5

\* WATCH keeps the registrations exact.
LEMMA WatchStep ==
    ASSUME TypeOK, VersionsFresh, RefCountsExact, NEW c \in Clients, NEW S \in SUBSET Slots, CmdWatch(c, S)
    PROVE  /\ WatchTypes' /\ VersionsFresh' /\ RefCountsExact'
           /\ data' \in [Slots -> Entries] /\ nextVersion' \in Nat \ {0}
<1> DEFINE p == PurgeExpired(Store, S, clock)
           F == {s \in S : ~Watches(c, s)}
           R == {s \in Slots : refs[s] # 0}
           N == {s \in F : refs[s] = 0}
<1>1. /\ Put(p)
      /\ watched' = [watched EXCEPT ![c] = [s \in Slots |-> IF s \in F THEN p.versions[s] ELSE watched[c][s]]]
      /\ refs' = [s \in Slots |-> IF s \in F THEN refs[s] + 1 ELSE refs[s]]
      /\ watchedKeys' = watchedKeys + Cardinality(N)
  BY DEF CmdWatch
<1>t. /\ refs \in [Slots -> Nat] /\ watchedKeys \in Nat
      /\ watched \in [Clients -> [Slots -> Nat \cup {NotWatched}]] /\ nextVersion \in Nat \ {0}
  BY DEF TypeOK
<1>2. VersionStep(Store, p)
  BY StoreType, PurgeStep, <1>t
<1>3. p.versions = versions'
  BY <1>1 DEF Put
<1> HIDE DEF p
<1>4. /\ data' \in [Slots -> Entries] /\ versions' \in [Slots -> Nat]
      /\ nextVersion' \in Nat \ {0} /\ nextVersion' >= nextVersion
      /\ changed' \in [Clients -> SUBSET Slots]
      /\ \A s \in Slots : versions'[s] < nextVersion'
      /\ \A s \in Slots : versions'[s] = versions[s] \/ (refs[s] # 0 /\ versions'[s] >= nextVersion)
      /\ \A b \in Clients, s \in Slots : watched[b][s] < nextVersion'
  BY <1>1, <1>2, PutStep
<1>5. watched' \in [Clients -> [Slots -> Nat \cup {NotWatched}]]
  <2> HIDE DEF F
  <2> QED BY <1>1, <1>3, <1>4, <1>t
<1>6. \A b \in Clients, s \in Slots : watched'[b][s] < nextVersion'
  <2> HIDE DEF F
  <2> QED BY <1>1, <1>3, <1>4, <1>t
<1>7. {s \in Slots : refs'[s] # 0} = R \cup N
  BY <1>1, <1>t
<1>8. IsFiniteSet(R) /\ IsFiniteSet(N) /\ R \cap N = {} /\ watchedKeys = Cardinality(R)
  BY FS_Subset DEF RefCountsExact
<1>9. Cardinality(R \cup N) = Cardinality(R) + Cardinality(N) - Cardinality(R \cap N)
  <2> HIDE DEF R, N
  <2> QED BY <1>8, FS_Union
<1>10. watchedKeys' = Cardinality({s \in Slots : refs'[s] # 0}) /\ watchedKeys' \in Nat
  <2>1. Cardinality({}) = 0
    BY FS_EmptySet
  <2>2. Cardinality(N) \in Nat
    BY <1>8, FS_CardinalityType
  <2> HIDE DEF R, N
  <2>3. watchedKeys' = watchedKeys + Cardinality(N)
    BY <1>1
  <2>z. Cardinality(R \cap N) = 0
    BY <1>8, <2>1, Zenon
  <2>4. Cardinality(R \cup N) = watchedKeys + Cardinality(N)
    BY <1>8, <1>9, <1>t, <2>2, <2>z
  <2>5. watchedKeys' = Cardinality(R \cup N) /\ watchedKeys' \in Nat
    BY <1>t, <2>2, <2>3, <2>4
  <2> QED BY <1>7, <2>5
<1>11. \A s \in Slots : refs'[s] = Cardinality({b \in Clients : Watches(b, s)'})
  <2> SUFFICES ASSUME NEW s \in Slots
               PROVE  refs'[s] = Cardinality({b \in Clients : Watches(b, s)'})
    OBVIOUS
  <2> DEFINE W == {b \in Clients : Watches(b, s)}
  <2>1. IsFiniteSet(W) /\ refs[s] = Cardinality(W)
    BY WatchersFinite DEF RefCountsExact
  <2>2. CASE s \in F
    <3>1. versions'[s] # NotWatched
      BY <1>4 DEF NotWatched
    <3>2. {b \in Clients : Watches(b, s)'} = W \cup {c} /\ c \notin W
      BY <1>1, <1>3, <1>t, <2>2, <3>1 DEF Watches
    <3>3. Cardinality(W \cup {c}) = Cardinality(W) + 1
      <4> HIDE DEF W
      <4> QED BY <2>1, <3>2, FS_AddElement
    <3> QED BY <1>1, <2>1, <2>2, <3>2, <3>3
  <2>3. CASE s \notin F
    <3>1. {b \in Clients : Watches(b, s)'} = W
      BY <1>1, <1>t, <2>3 DEF Watches
    <3> QED BY <1>1, <2>1, <2>3, <3>1
  <2> QED BY <2>2, <2>3
<1>12. \A s \in Slots : versions'[s] # 0 => refs'[s] # 0
  <2>1. \A s \in Slots : versions[s] # 0 => refs[s] # 0
    BY DEF RefCountsExact
  <2>2. \A s \in Slots : refs[s] # 0 => refs'[s] # 0
    BY <1>1, <1>t
  <2> QED BY <1>4, <2>1, <2>2
<1>13. RefCountsExact'
  BY <1>10, <1>11, <1>12 DEF RefCountsExact
<1>14. refs' \in [Slots -> Nat]
  BY <1>1, <1>t
<1>15. VersionsFresh'
  BY <1>4, <1>6 DEF VersionsFresh
<1> QED BY <1>4, <1>5, <1>10, <1>13, <1>14, <1>15 DEF WatchTypes

-----------------------------------------------------------------------------
(* Types and registrations are invariant.                                    *)

IInv == TypeOK /\ VersionsFresh /\ RefCountsExact

\* Initially nothing is watched.
LEMMA InitIInv == Init => IInv
<1> SUFFICES ASSUME Init PROVE IInv
  OBVIOUS
<1>1. TypeOK
  <2>1. Normal \in TxStates /\ Len(Normal.queue) = 0
    BY DEF Normal, TxStates
  <2>2. NoExec \in ExecStates
    BY DEF NoExec, ExecStates
  <2> QED BY <2>1, <2>2, NoneIsEntry DEF Init, TypeOK
<1>2. VersionsFresh
  BY DEF Init, VersionsFresh, NotWatched
<1>3. RefCountsExact
  <2>1. \A s \in Slots : {c \in Clients : Watches(c, s)} = {}
    BY DEF Init, Watches
  <2>2. {s \in Slots : refs[s] # 0} = {}
    BY DEF Init
  <2> QED BY <2>1, <2>2, FS_EmptySet DEF Init, RefCountsExact
<1> QED BY <1>1, <1>2, <1>3 DEF IInv

\* The other variables keep their types.
Rest ==
    /\ clock \in Nat /\ meta \in Clients \cup {NoOne}
    /\ tx \in [Clients -> TxStates]
    /\ \A c \in Clients : Len(tx[c].queue) <= MaxTxQueueSize
    /\ exec \in [Clients -> ExecStates]
    /\ ops \in Nat
    /\ stale \in [Clients -> SUBSET Slots]
    /\ lapsed \in [Clients -> SUBSET Slots] /\ raced \in [Clients -> SUBSET Slots]

\* The type invariant falls into the parts its proof uses.
LEMMA TypeParts ==
    /\ TypeOK <=> Rest /\ WatchTypes /\ data \in [Slots -> Entries] /\ nextVersion \in Nat \ {0}
    /\ TypeOK' <=> Rest' /\ WatchTypes' /\ data' \in [Slots -> Entries] /\ nextVersion' \in Nat \ {0}
BY DEF TypeOK, Rest, WatchTypes

\* Changing a field keeps a record in its set.
LEMMA TxFields ==
    ASSUME NEW t \in TxStates
    PROVE  /\ \A q \in Seq(CommandSet) : /\ [t EXCEPT !.queue = q] \in TxStates
                                         /\ [t EXCEPT !.queue = q].queue = q
           /\ \A b \in BOOLEAN : /\ [t EXCEPT !.error = b] \in TxStates /\ [t EXCEPT !.multi = b] \in TxStates
                                 /\ [t EXCEPT !.error = b].queue = t.queue
                                 /\ [t EXCEPT !.multi = b].queue = t.queue
BY Zenon DEF TxStates

\* Changing a field of an EXEC in progress keeps it in its set.
LEMMA ExecFields ==
    ASSUME NEW e \in ExecStates
    PROVE  /\ \A S \in SUBSET Slots : [e EXCEPT !.half = S] \in ExecStates
           /\ \A S, T \in SUBSET Slots : [e EXCEPT !.left = S, !.half = T] \in ExecStates
           /\ \A p \in {"idle", "check", "run"} : [e EXCEPT !.pc = p] \in ExecStates
BY DEF ExecStates

\* A command with another value is a command.
LEMMA CommandVal ==
    ASSUME NEW c \in CommandSet, NEW n \in Nat
    PROVE  [c EXCEPT !.val = n] \in CommandSet /\ [c EXCEPT !.val = n].op = c.op
BY DEF CommandSet

\* A new state for one client.
LEMMA TxType ==
    ASSUME Rest, NEW c \in Clients, NEW v \in TxStates, Len(v.queue) <= MaxTxQueueSize,
           tx' = [tx EXCEPT ![c] = v]
    PROVE  tx' \in [Clients -> TxStates] /\ \A b \in Clients : Len(tx'[b].queue) <= MaxTxQueueSize
BY DEF Rest

\* Handing back the server lock.
LEMMA LeaveTypes ==
    ASSUME Rest, NEW c \in Clients, Leave(c), UNCHANGED <<clock, ops>>
    PROVE  Rest'
<1>1. /\ meta' = NoOne /\ exec' = [exec EXCEPT ![c] = NoExec] /\ tx' = [tx EXCEPT ![c] = Normal]
      /\ stale' = [stale EXCEPT ![c] = {}] /\ lapsed' = [lapsed EXCEPT ![c] = {}]
      /\ raced' = [raced EXCEPT ![c] = {}] /\ clock' = clock /\ ops' = ops
  BY DEF Leave
<1>2. Normal \in TxStates /\ Len(Normal.queue) = 0
  BY DEF Normal, TxStates
<1>3. NoExec \in ExecStates
  BY DEF NoExec, ExecStates
<1> QED BY <1>1, <1>2, <1>3 DEF Rest

\* Every step keeps every variable in its type.
LEMMA RestStep == TypeOK /\ [Next]_vars => Rest'
<1> SUFFICES ASSUME TypeOK, [Next]_vars PROVE Rest'
  OBVIOUS
<1> USE DEF Rest, store, watch, hist
<1>0. Rest
  BY TypeParts
<1>n. Normal \in TxStates /\ Len(Normal.queue) = 0
  BY DEF Normal, TxStates
<1>c. Commands \subseteq CommandSet /\ Queued \subseteq CommandSet
  OBVIOUS
<1>1. ASSUME NEW c \in Clients, ClientStep(c) PROVE Rest'
  <2>1. CASE \E cmd \in Commands : Execute(c, cmd)
    BY <1>0, <2>1 DEF Execute
  <2>2. CASE \E cmd \in Queued : Queue(c, cmd)
    <3> PICK cmd \in Queued : Queue(c, cmd)
      BY <2>2
    <3> DEFINE q == tx[c].queue
               m == [cmd EXCEPT !.val = ops + 1]
    <3>1. tx[c] \in TxStates /\ q \in Seq(CommandSet) /\ Len(q) <= MaxTxQueueSize /\ ops + 1 \in Nat
      BY <1>0 DEF TxStates
    <3>2. m \in CommandSet
      BY <1>c, <3>1, CommandVal
    <3>3. ops' = ops + 1 /\ UNCHANGED <<clock, meta, exec, stale, lapsed, raced>>
      BY DEF Queue
    <3>4. CASE QueueFull(q)
      <4>1. tx' = [tx EXCEPT ![c] = [tx[c] EXCEPT !.error = TRUE]]
        BY <3>4 DEF Queue
      <4>2. [tx[c] EXCEPT !.error = TRUE] \in TxStates /\ Len([tx[c] EXCEPT !.error = TRUE].queue) <= MaxTxQueueSize
        BY <3>1, TxFields
      <4>3. tx' \in [Clients -> TxStates] /\ \A b \in Clients : Len(tx'[b].queue) <= MaxTxQueueSize
        BY <1>0, <4>1, <4>2, TxType
      <4> QED BY <1>0, <3>1, <3>3, <4>3
    <3>5. CASE ~QueueFull(q)
      <4>1. tx' = [tx EXCEPT ![c] = [tx[c] EXCEPT !.queue = Append(q, m)]]
        BY <3>5 DEF Queue
      <4>2. Len(q) < MaxTxQueueSize
        BY <3>1, <3>5 DEF QueueFull
      <4> HIDE DEF m, q
      <4>3. Append(q, m) \in Seq(CommandSet) /\ Len(Append(q, m)) <= MaxTxQueueSize
        BY <3>1, <3>2, <4>2
      <4>4. [tx[c] EXCEPT !.queue = Append(q, m)] \in TxStates
            /\ Len([tx[c] EXCEPT !.queue = Append(q, m)].queue) <= MaxTxQueueSize
        BY <3>1, <4>3, TxFields
      <4>5. tx' \in [Clients -> TxStates] /\ \A b \in Clients : Len(tx'[b].queue) <= MaxTxQueueSize
        BY <1>0, <4>1, <4>4, TxType
      <4> QED BY <1>0, <3>1, <3>3, <4>5
    <3> QED BY <3>4, <3>5
  <2>3. CASE Multi(c)
    <3>0. [Normal EXCEPT !.multi = TRUE] \in TxStates /\ [Normal EXCEPT !.multi = TRUE].queue = Normal.queue
      BY <1>n, TxFields, Zenon
    <3>1. [Normal EXCEPT !.multi = TRUE] \in TxStates /\ Len([Normal EXCEPT !.multi = TRUE].queue) <= MaxTxQueueSize
      BY <1>n, <3>0
    <3>2. tx' \in [Clients -> TxStates] /\ \A b \in Clients : Len(tx'[b].queue) <= MaxTxQueueSize
      BY <1>0, <2>3, <3>1, TxType DEF Multi
    <3> QED BY <1>0, <2>3, <3>2 DEF Multi
  <2>4. CASE QueueRejected(c)
    <3>1. tx' = [tx EXCEPT ![c] = [tx[c] EXCEPT !.error = TRUE]]
      BY <2>4 DEF QueueRejected
    <3>2. [tx[c] EXCEPT !.error = TRUE] \in TxStates /\ Len([tx[c] EXCEPT !.error = TRUE].queue) <= MaxTxQueueSize
      BY <1>0, TxFields
    <3>3. tx' \in [Clients -> TxStates] /\ \A b \in Clients : Len(tx'[b].queue) <= MaxTxQueueSize
      BY <1>0, <3>1, <3>2, TxType
    <3> QED BY <1>0, <2>4, <3>3 DEF QueueRejected
  <2>5. CASE Discard(c)
    BY <1>0, <1>n, <2>5 DEF Discard
  <2>6. CASE \E d \in Dbs, K \in SUBSET Keys \ {{}} : CmdWatch(c, {d} \X K)
    BY <1>0, <2>6 DEF CmdWatch
  <2>7. CASE CmdUnwatch(c)
    BY <1>0, <2>7 DEF CmdUnwatch
  <2>8. CASE Disconnect(c)
    BY <1>0, <1>n, <2>8 DEF Disconnect
  <2> QED BY <1>1, <2>1, <2>2, <2>3, <2>4, <2>5, <2>6, <2>7, <2>8 DEF ClientStep
<1>2. ASSUME NEW c \in Clients, ExecBegin(c) PROVE Rest'
  <2>1. [pc |-> "check", now |-> clock, left |-> Dropped(c), half |-> {}] \in ExecStates
    BY <1>0 DEF ExecStates, Dropped
  <2>2. exec' \in [Clients -> ExecStates]
    BY <1>0, <1>2, <2>1 DEF ExecBegin
  <2>3. changed[c] \in SUBSET Slots
    BY DEF TypeOK
  <2> QED BY <1>0, <1>2, <2>2, <2>3 DEF ExecBegin
<1>3. ASSUME NEW c \in Clients, ExecProgress(c) PROVE Rest'
  <2>1. ASSUME NEW s \in Slots, CheckVersion(c, s) PROVE Rest'
    <3>1. CASE versions[s] # watched[c][s]
      BY <1>0, <2>1, <3>1, LeaveTypes DEF CheckVersion, Abort
    <3>2. CASE versions[s] = watched[c][s]
      <4>1. [exec[c] EXCEPT !.half = {s}] \in ExecStates
        BY <1>0, <2>1, ExecFields
      <4>2. exec' = [exec EXCEPT ![c] = [exec[c] EXCEPT !.half = {s}]]
        BY <2>1, <3>2 DEF CheckVersion
      <4>3. exec' \in [Clients -> ExecStates]
        BY <1>0, <4>1, <4>2
      <4> QED BY <1>0, <2>1, <3>2, <4>3 DEF CheckVersion
    <3> QED BY <3>1, <3>2
  <2>2. ASSUME NEW s \in Slots, CheckDeadline(c, s) PROVE Rest'
    <3>1. CASE Expired(data[s], exec[c].now)
      BY <1>0, <2>2, <3>1, LeaveTypes DEF CheckDeadline, Abort
    <3>2. CASE ~Expired(data[s], exec[c].now)
      <4>0. exec[c].left \ {s} \in SUBSET Slots
        BY <1>0 DEF ExecStates
      <4>1. [exec[c] EXCEPT !.left = exec[c].left \ {s}, !.half = {}] \in ExecStates
        BY <1>0, <4>0, ExecFields
      <4>2. exec' = [exec EXCEPT ![c] = [exec[c] EXCEPT !.left = exec[c].left \ {s}, !.half = {}]]
        BY <1>0, <2>2, <3>2 DEF CheckDeadline
      <4>3. exec' \in [Clients -> ExecStates]
        BY <1>0, <4>1, <4>2
      <4> QED BY <1>0, <2>2, <3>2, <4>3 DEF CheckDeadline
    <3> QED BY <3>1, <3>2
  <2>3. CASE ExecStart(c)
    <3>1. CASE Leave(c)
      BY <1>0, <2>3, <3>1, LeaveTypes DEF ExecStart
    <3>2. CASE exec' = [exec EXCEPT ![c].pc = "run"] /\ UNCHANGED <<meta, tx, hist>>
      <4>1. [exec[c] EXCEPT !.pc = "run"] \in ExecStates
        BY <1>0, ExecFields
      <4>2. exec' \in [Clients -> ExecStates]
        BY <1>0, <3>2, <4>1
      <4> QED BY <1>0, <2>3, <3>2, <4>2 DEF ExecStart
    <3> QED BY <2>3, <3>1, <3>2 DEF ExecStart
  <2>4. CASE ExecStep(c)
    <3> DEFINE q == tx[c].queue
    <3>1. tx[c] \in TxStates /\ q \in Seq(CommandSet) /\ Len(q) <= MaxTxQueueSize /\ q # <<>>
      BY <1>0, <2>4 DEF TxStates, ExecStep
    <3>2. tx' = [tx EXCEPT ![c] = [tx[c] EXCEPT !.queue = Tail(q)]]
      BY <2>4 DEF ExecStep
    <3> HIDE DEF q
    <3>3. Tail(q) \in Seq(CommandSet) /\ Len(Tail(q)) <= MaxTxQueueSize
      BY <3>1
    <3>4. [tx[c] EXCEPT !.queue = Tail(q)] \in TxStates /\ Len([tx[c] EXCEPT !.queue = Tail(q)].queue) <= MaxTxQueueSize
      BY <3>1, <3>3, TxFields
    <3>5. tx' \in [Clients -> TxStates] /\ \A b \in Clients : Len(tx'[b].queue) <= MaxTxQueueSize
      BY <1>0, <3>2, <3>4, TxType
    <3> QED BY <1>0, <2>4, <3>5 DEF ExecStep
  <2>5. CASE ExecEnd(c)
    BY <1>0, <2>5, LeaveTypes DEF ExecEnd
  <2> QED BY <1>3, <2>1, <2>2, <2>3, <2>4, <2>5 DEF ExecProgress
<1>4. ASSUME NEW s \in Slots, RemoveKey(s) PROVE Rest'
  BY <1>0, <1>4 DEF RemoveKey
<1>5. ASSUME NEW s \in Slots, FastRead(s) PROVE Rest'
  BY <1>0, <1>5 DEF FastRead
<1>6. CASE Tick
  BY <1>0, <1>6 DEF Tick
<1>7. CASE UNCHANGED vars
  BY <1>0, <1>7 DEF vars
<1> QED BY <1>1, <1>2, <1>3, <1>4, <1>5, <1>6, <1>7 DEF Next

\* A command run on the store, and a removal by the server.
LEMMA StoreSteps ==
    ASSUME IInv
    PROVE  /\ \A cmd \in CommandSet, now \in Nat : VersionStep(Store, Run(Store, cmd, now))
           /\ \A cmd \in CommandSet, now \in Nat : Tracked(cmd) => Marks(Store, Run(Store, cmd, now))
           /\ \A S \in SUBSET Slots : /\ VersionStep(Store, PurgeExpired(Store, S, clock))
                                      /\ Marks(Store, PurgeExpired(Store, S, clock))
           /\ \A s \in Slots : LET r == TouchKeyVersion(SetData(Store, [data EXCEPT ![s] = None]), s)
                               IN  VersionStep(Store, r) /\ Marks(Store, r)
<1>0. /\ refs \in [Slots -> Nat] /\ Store \in Stores /\ FreshNext(Store) /\ data \in [Slots -> Entries]
      /\ Store.data = data
  BY StoreType DEF IInv, TypeOK, Store
<1>1. watchedKeys = 0 => \A s \in Slots : refs[s] = 0
  BY TypeParts, WatchFacts DEF IInv
<1>2. \A cmd \in CommandSet, now \in Nat : /\ VersionStep(Store, Run(Store, cmd, now))
                                           /\ Tracked(cmd) => Marks(Store, Run(Store, cmd, now))
  BY <1>0, <1>1, RunStep
<1>3. \A S \in SUBSET Slots : /\ VersionStep(Store, PurgeExpired(Store, S, clock))
                              /\ Marks(Store, PurgeExpired(Store, S, clock))
  BY <1>0, PurgeStep
<1>4. ASSUME NEW s \in Slots
      PROVE  LET r == TouchKeyVersion(SetData(Store, [data EXCEPT ![s] = None]), s)
             IN  VersionStep(Store, r) /\ Marks(Store, r)
  <2> DEFINE e == [data EXCEPT ![s] = None]
             m == SetData(Store, e)
             r == TouchKeyVersion(m, s)
  <2>1. e \in [Slots -> Entries] /\ \A z \in Slots : z # s => e[z] = data[z]
    BY <1>0, NoneIsEntry
  <2> HIDE DEF e
  <2>2. VersionStep(Store, m) /\ m.data = e /\ m.versions = Store.versions /\ m.next = Store.next
    BY <1>0, <2>1, SetDataStep
  <2>3. m \in Stores /\ FreshNext(m)
    BY <2>2 DEF VersionStep
  <2> HIDE DEF m
  <2>4. VersionStep(m, r) /\ r.data = m.data /\ (refs[s] # 0 => r.versions[s] >= m.next)
    BY <1>0, <1>1, <2>3, TouchStep
  <2> HIDE DEF r
  <2>5. VersionStep(Store, r)
    BY <1>0, <2>2, <2>4, StepTrans
  <2>6. Marks(Store, r)
    BY <1>0, <2>1, <2>2, <2>4 DEF Marks
  <2> QED BY <2>5, <2>6 DEF r, m, e
<1> QED BY <1>2, <1>3, <1>4

\* Every queued command is one that is tracked.
QueueTracked == \A c \in Clients : \A i \in 1 .. Len(tx[c].queue) : Tracked(tx[c].queue[i])

\* No client uses the commands whose writes the versions miss.
AllTracked == \A cmd \in Commands \cup Queued : Tracked(cmd)

\* What a step does to the databases and to the registrations.
LEMMA Shapes ==
    ASSUME IInv, [Next]_vars
    PROVE  \/ \E st : /\ VersionStep(Store, st) /\ Put(st) /\ UNCHANGED watch
                      /\ AllTracked /\ QueueTracked => Marks(Store, st)
           \/ \E c \in Clients : ReleaseWatches(c)
           \/ \E c \in Clients, S \in SUBSET Slots : CmdWatch(c, S)
           \/ UNCHANGED <<store, watch, changed>>
<1> DEFINE Written == \E st : /\ VersionStep(Store, st) /\ Put(st) /\ UNCHANGED watch
                              /\ AllTracked /\ QueueTracked => Marks(Store, st)
           Goal == \/ Written
                   \/ \E c \in Clients : ReleaseWatches(c)
                   \/ \E c \in Clients, S \in SUBSET Slots : CmdWatch(c, S)
                   \/ UNCHANGED <<store, watch, changed>>
<1>0. TypeOK
  BY DEF IInv
<1>w. ASSUME NEW st, VersionStep(Store, st), Put(st), UNCHANGED watch,
             AllTracked /\ QueueTracked => Marks(Store, st)
      PROVE  Goal
  BY <1>w
<1>1. ASSUME NEW c \in Clients, ClientStep(c) PROVE Goal
  <2>1. CASE \E cmd \in Commands : Execute(c, cmd)
    <3> PICK cmd \in Commands : Execute(c, cmd)
      BY <2>1
    <3> DEFINE m == [cmd EXCEPT !.val = ops + 1]
    <3>0. cmd \in CommandSet /\ ops + 1 \in Nat /\ clock \in Nat
      BY <1>0 DEF TypeOK
    <3>1. m \in CommandSet /\ m.op = cmd.op /\ clock \in Nat
      BY <3>0, CommandVal
    <3>2. AllTracked => Tracked(m)
      BY <3>1 DEF AllTracked, Tracked
    <3>3. Put(Run(Store, m, clock)) /\ UNCHANGED watch
      BY DEF Execute
    <3> HIDE DEF m
    <3> DEFINE st == Run(Store, m, clock)
    <3>4. VersionStep(Store, st) /\ (AllTracked => Marks(Store, st))
      BY <3>1, <3>2, StoreSteps
    <3> HIDE DEF st, Goal
    <3> QED BY <1>w, <3>3, <3>4 DEF st
  <2>2. CASE \E cmd \in Queued : Queue(c, cmd)
    BY <2>2 DEF Queue
  <2>3. CASE Multi(c)
    BY <2>3 DEF Multi
  <2>4. CASE QueueRejected(c)
    BY <2>4 DEF QueueRejected
  <2>5. CASE Discard(c)
    BY <2>5 DEF Discard
  <2>6. CASE \E d \in Dbs, K \in SUBSET Keys \ {{}} : CmdWatch(c, {d} \X K)
    <3> PICK d \in Dbs, K \in SUBSET Keys \ {{}} : CmdWatch(c, {d} \X K)
      BY <2>6
    <3>1. {d} \X K \in SUBSET Slots
      BY DEF Slots
    <3> QED BY <3>1
  <2>7. CASE CmdUnwatch(c)
    BY <2>7 DEF CmdUnwatch
  <2>8. CASE Disconnect(c)
    BY <2>8 DEF Disconnect
  <2> QED BY <1>1, <2>1, <2>2, <2>3, <2>4, <2>5, <2>6, <2>7, <2>8 DEF ClientStep
<1>2. ASSUME NEW c \in Clients, ExecBegin(c) PROVE Goal
  BY <1>2 DEF ExecBegin
<1>3. ASSUME NEW c \in Clients, ExecProgress(c) PROVE Goal
  <2>1. ASSUME NEW s \in Slots, CheckVersion(c, s) PROVE Goal
    BY <2>1 DEF CheckVersion, Abort
  <2>2. ASSUME NEW s \in Slots, CheckDeadline(c, s) PROVE Goal
    BY <2>2 DEF CheckDeadline, Abort
  <2>3. CASE ExecStart(c)
    BY <2>3 DEF ExecStart
  <2>4. CASE ExecStep(c)
    <3> DEFINE h == Head(tx[c].queue)
    <3>0. tx[c].queue \in Seq(CommandSet) /\ tx[c].queue # <<>> /\ exec[c].now \in Nat /\ clock \in Nat
      BY <1>0, <2>4 DEF TypeOK, TxStates, ExecStates, ExecStep
    <3>1. h \in CommandSet /\ h = tx[c].queue[1] /\ 1 \in 1 .. Len(tx[c].queue)
      BY <3>0
    <3>2. QueueTracked => Tracked(h)
      BY <3>1 DEF QueueTracked
    <3>3. PICK now \in {exec[c].now, clock} : Put(Run(Store, h, now))
      BY <2>4 DEF ExecStep
    <3>4. now \in Nat
      BY <3>0
    <3> HIDE DEF h
    <3> DEFINE st == Run(Store, h, now)
    <3>5. VersionStep(Store, st) /\ (QueueTracked => Marks(Store, st))
      BY <3>1, <3>2, <3>4, StoreSteps
    <3>6. UNCHANGED watch
      BY <2>4 DEF ExecStep
    <3> HIDE DEF st, Goal
    <3> QED BY <1>w, <3>3, <3>5, <3>6 DEF st
  <2>5. CASE ExecEnd(c)
    BY <2>5 DEF ExecEnd
  <2> QED BY <1>3, <2>1, <2>2, <2>3, <2>4, <2>5 DEF ExecProgress
<1>4. ASSUME NEW s \in Slots, RemoveKey(s) PROVE Goal
  <2> DEFINE st == TouchKeyVersion(SetData(Store, [data EXCEPT ![s] = None]), s)
  <2>1. VersionStep(Store, st) /\ Marks(Store, st)
    BY StoreSteps
  <2>2. Put(st) /\ UNCHANGED watch
    BY <1>4 DEF RemoveKey
  <2> HIDE DEF st, Goal
  <2> QED BY <1>w, <2>1, <2>2
<1>5. ASSUME NEW s \in Slots, FastRead(s) PROVE Goal
  <2> DEFINE st == PurgeExpired(Store, {s}, clock)
  <2>0. {s} \in SUBSET Slots
    OBVIOUS
  <2>1. VersionStep(Store, st) /\ Marks(Store, st)
    BY <2>0, StoreSteps
  <2>2. Put(st) /\ UNCHANGED watch
    BY <1>5 DEF FastRead
  <2> HIDE DEF st, Goal
  <2> QED BY <1>w, <2>1, <2>2
<1>6. CASE Tick
  BY <1>6 DEF Tick
<1>7. CASE UNCHANGED vars
  BY <1>7 DEF vars, store, watch
<1>8. Goal
  BY <1>1, <1>2, <1>3, <1>4, <1>5, <1>6, <1>7 DEF Next
<1> QED BY <1>8

\* Every step keeps the invariant.
LEMMA StepIInv == IInv /\ [Next]_vars => IInv'
<1> SUFFICES ASSUME IInv, [Next]_vars PROVE IInv'
  OBVIOUS
<1>0. TypeOK /\ VersionsFresh /\ RefCountsExact /\ WatchTypes
  BY TypeParts DEF IInv
<1>1. Rest'
  BY <1>0, RestStep
<1> DEFINE Kept == /\ WatchTypes' /\ VersionsFresh' /\ RefCountsExact'
                   /\ data' \in [Slots -> Entries] /\ nextVersion' \in Nat \ {0}
<1>2. ASSUME NEW st, VersionStep(Store, st), Put(st), UNCHANGED watch PROVE Kept
  BY <1>0, <1>2, PutStep, PutRefs
<1>3. ASSUME NEW c \in Clients, ReleaseWatches(c) PROVE Kept
  <2>1. nextVersion \in Nat \ {0} /\ data \in [Slots -> Entries] /\ UNCHANGED <<data, nextVersion>>
    BY <1>0, <1>3 DEF TypeOK, ReleaseWatches
  <2> QED BY <1>0, <1>3, <2>1, ReleaseStep
<1>4. ASSUME NEW c \in Clients, NEW S \in SUBSET Slots, CmdWatch(c, S) PROVE Kept
  BY <1>0, <1>4, WatchStep
<1>5. ASSUME UNCHANGED <<store, watch, changed>> PROVE Kept
  <2>1. UNCHANGED <<data, versions, nextVersion, refs, watchedKeys, watched, changed>>
    BY <1>5 DEF store, watch
  <2>2. RefCountsExact'
    BY <1>0, <2>1 DEF RefCountsExact, Watches
  <2>3. VersionsFresh'
    BY <1>0, <2>1 DEF VersionsFresh
  <2>4. WatchTypes'
    BY <1>0, <2>1 DEF WatchTypes
  <2>5. data' \in [Slots -> Entries] /\ nextVersion' \in Nat \ {0}
    BY <1>0, <2>1 DEF TypeOK
  <2> QED BY <2>2, <2>3, <2>4, <2>5
<1>6. Kept
  <2> HIDE DEF Kept
  <2>1. CASE \E st : /\ VersionStep(Store, st) /\ Put(st) /\ UNCHANGED watch
                     /\ AllTracked /\ QueueTracked => Marks(Store, st)
    BY <1>2, <2>1
  <2>2. CASE \E c \in Clients : ReleaseWatches(c)
    BY <1>3, <2>2
  <2>3. CASE \E c \in Clients, S \in SUBSET Slots : CmdWatch(c, S)
    BY <1>4, <2>3
  <2> QED BY <1>5, <2>1, <2>2, <2>3, Shapes
<1> QED BY <1>1, <1>6, TypeParts DEF IInv

\* The inductive invariant of MULTI, EXEC and WATCH holds in every reachable state.
THEOREM Invariance == Spec => []IInv
<1>1. Init => IInv
  BY InitIInv
<1>2. IInv /\ [Next]_vars => IInv'
  BY StepIInv
<1> QED BY <1>1, <1>2, PTL DEF Spec

\* Every variable keeps its type and a queue its limit, for any number of
\* clients, databases and keys.
THEOREM TypeCorrect == Spec => []TypeOK
<1>1. IInv => TypeOK
  BY DEF IInv
<1> QED BY <1>1, Invariance, PTL

\* The registrations of watch_refs are exactly the watches of the clients on
\* every path that makes or ends one.
THEOREM RegistrationsExact == Spec => []RefCountsExact
<1>1. IInv => RefCountsExact
  BY DEF IInv
<1> QED BY <1>1, Invariance, PTL

-----------------------------------------------------------------------------
(* Optimistic locking, when every command is tracked.                        *)

\* A watched slot that changed has another version than at WATCH.
Seen == \A c \in Clients : \A s \in changed[c] : Watches(c, s) /\ versions[s] # watched[c][s]

\* During the check, what is stale or lapsed has not been passed yet.
Checked(c) ==
    /\ \A s \in exec[c].left : Watches(c, s)
    /\ exec[c].half \subseteq exec[c].left
    /\ stale[c] \subseteq changed[c] /\ stale[c] \subseteq exec[c].left
    /\ stale[c] \cap exec[c].half = {}
    /\ lapsed[c] \subseteq exec[c].left \cup raced[c]
    /\ \A s \in lapsed[c] \ raced[c] : Expired(data[s], exec[c].now)

\* Only the owner of the server lock is in an EXEC.
Guarded ==
    \A c \in Clients : /\ exec[c].pc # "idle" => meta = c
                       /\ exec[c].pc = "check" => Checked(c)
                       /\ exec[c].pc = "run" => stale[c] = {} /\ lapsed[c] \subseteq raced[c]

\* Every change of a watched slot gives it another version.
LEMMA SeenStep ==
    ASSUME AllTracked, IInv, QueueTracked, Seen, [Next]_vars
    PROVE  Seen'
<1>0. TypeOK /\ VersionsFresh /\ RefCountsExact /\ WatchTypes
  BY TypeParts DEF IInv
<1>t. /\ \A c \in Clients, s \in Slots : watched[c][s] \in Int /\ watched[c][s] < nextVersion
      /\ \A c \in Clients : changed[c] \subseteq Slots
      /\ \A c \in Clients, s \in Slots : Watches(c, s) => refs[s] # 0
      /\ nextVersion \in Nat
  BY <1>0, WatchFacts DEF TypeOK, VersionsFresh, NotWatched
<1>1. ASSUME NEW st, VersionStep(Store, st), Put(st), Marks(Store, st)
      PROVE  /\ \A s \in Slots : versions'[s] = versions[s] \/ versions'[s] >= nextVersion
             /\ \A s \in Slots : versions'[s] \in Nat
             /\ \A c \in Clients : changed'[c] \subseteq Slots
             /\ \A c \in Clients : \A s \in changed'[c] :
                   Watches(c, s) /\ (s \in changed[c] \/ versions'[s] >= nextVersion)
  <2>1. /\ \A s \in Slots : versions'[s] = versions[s] \/ versions'[s] >= nextVersion
        /\ \A s \in Slots : versions'[s] \in Nat
        /\ changed' \in [Clients -> SUBSET Slots]
    BY <1>0, <1>1, PutStep
  <2>2. versions' = st.versions /\ Store.data = data /\ Store.next = nextVersion
        /\ \A c \in Clients :
             changed'[c] = changed[c] \cup {s \in Slots : Watches(c, s) /\ st.data[s] # data[s]}
    BY <1>1 DEF Put, Store
  <2>3. ASSUME NEW c \in Clients, NEW s \in changed'[c], s \notin changed[c]
        PROVE  Watches(c, s) /\ versions'[s] >= nextVersion
    BY <1>1, <1>t, <2>2, <2>3 DEF Marks
  <2> QED BY <2>1, <2>3 DEF Seen
<1>2. ASSUME NEW st, VersionStep(Store, st), Put(st), UNCHANGED watch, Marks(Store, st) PROVE Seen'
  <2>1. watched' = watched
    BY <1>2 DEF watch
  <2> SUFFICES ASSUME NEW c \in Clients, NEW s \in changed'[c]
               PROVE  Watches(c, s) /\ versions'[s] # watched[c][s]
    BY <2>1 DEF Seen, Watches
  <2>2. /\ Watches(c, s) /\ (s \in changed[c] \/ versions'[s] >= nextVersion)
        /\ s \in Slots /\ versions'[s] \in Nat
        /\ versions'[s] = versions[s] \/ versions'[s] >= nextVersion
    BY <1>1, <1>2
  <2>3. s \in changed[c] => versions[s] # watched[c][s]
    BY DEF Seen
  <2> QED BY <1>t, <2>2, <2>3
<1>3. ASSUME NEW c \in Clients, ReleaseWatches(c) PROVE Seen'
  <2>1. /\ \A s \in Slots : ~(Watches(c, s) /\ refs[s] = 1) => versions'[s] = versions[s]
        /\ \A b \in Clients : b # c => watched'[b] = watched[b] /\ changed'[b] = changed[b]
        /\ changed'[c] = {}
    BY <1>0, <1>3 DEF ReleaseWatches, Forgotten, WatchTypes
  <2> SUFFICES ASSUME NEW b \in Clients, NEW s \in changed'[b]
               PROVE  Watches(b, s)' /\ versions'[s] # watched'[b][s]
    BY DEF Seen
  <2>2. b # c /\ s \in changed[b] /\ s \in Slots
    BY <1>t, <2>1
  <2>3. Watches(b, s) /\ versions[s] # watched[b][s]
    BY <2>2 DEF Seen
  <2>4. ~(Watches(c, s) /\ refs[s] = 1)
    BY <1>0, <2>2, <2>3, WatchFacts
  <2> QED BY <2>1, <2>2, <2>3, <2>4 DEF Watches
<1>4. ASSUME NEW c \in Clients, NEW S \in SUBSET Slots, CmdWatch(c, S) PROVE Seen'
  <2> DEFINE p == PurgeExpired(Store, S, clock)
  <2>1. VersionStep(Store, p) /\ Marks(Store, p)
    BY StoreSteps
  <2>2. /\ Put(p)
        /\ watched' = [watched EXCEPT ![c] = [s \in Slots |-> IF s \in {z \in S : ~Watches(c, z)}
                                                             THEN p.versions[s] ELSE watched[c][s]]]
    BY <1>4 DEF CmdWatch
  <2> HIDE DEF p
  <2>3. \A b \in Clients, s \in Slots : Watches(b, s) => watched'[b][s] = watched[b][s]
    BY <1>0, <2>2 DEF WatchTypes
  <2> SUFFICES ASSUME NEW b \in Clients, NEW s \in changed'[b]
               PROVE  Watches(b, s)' /\ versions'[s] # watched'[b][s]
    BY DEF Seen
  <2>4. /\ Watches(b, s) /\ (s \in changed[b] \/ versions'[s] >= nextVersion)
        /\ s \in Slots /\ versions'[s] \in Nat
        /\ versions'[s] = versions[s] \/ versions'[s] >= nextVersion
    BY <1>1, <2>1, <2>2
  <2>5. s \in changed[b] => versions[s] # watched[b][s]
    BY DEF Seen
  <2>6. Watches(b, s)'
    BY <2>3, <2>4 DEF Watches
  <2>7. versions'[s] # watched[b][s]
    BY <1>t, <2>4, <2>5
  <2> QED BY <2>3, <2>4, <2>6, <2>7
<1>5. ASSUME UNCHANGED <<store, watch, changed>> PROVE Seen'
  BY <1>5 DEF store, watch, Seen, Watches
<1>6. CASE \E st : /\ VersionStep(Store, st) /\ Put(st) /\ UNCHANGED watch
                   /\ AllTracked /\ QueueTracked => Marks(Store, st)
  BY <1>2, <1>6
<1>7. CASE \E c \in Clients : ReleaseWatches(c)
  BY <1>3, <1>7
<1>8. CASE \E c \in Clients, S \in SUBSET Slots : CmdWatch(c, S)
  BY <1>4, <1>8
<1> QED BY <1>5, <1>6, <1>7, <1>8, Shapes

\* A queue holds only commands that clients queued.
LEMMA QueueStep ==
    ASSUME AllTracked, TypeOK, QueueTracked, [Next]_vars
    PROVE  QueueTracked'
<1> DEFINE Good(q) == \A i \in 1 .. Len(q) : Tracked(q[i])
<1>t. /\ tx \in [Clients -> TxStates] /\ ops \in Nat
      /\ \A c \in Clients : tx[c].queue \in Seq(CommandSet) /\ Good(tx[c].queue)
  BY DEF TypeOK, QueueTracked, TxStates
<1>n. Good(Normal.queue)
  BY DEF Normal
<1>1. ASSUME tx' = tx PROVE QueueTracked'
  BY <1>1 DEF QueueTracked
<1>2. ASSUME NEW c \in Clients, NEW v, tx' = [tx EXCEPT ![c] = v], Good(v.queue) PROVE QueueTracked'
  BY <1>2, <1>t DEF QueueTracked
<1>3. ASSUME NEW c \in Clients, NEW v, tx' = [tx EXCEPT ![c] = v], v.queue = tx[c].queue PROVE QueueTracked'
  BY <1>2, <1>3, <1>t
<1>4. ASSUME NEW c \in Clients, ClientStep(c) PROVE QueueTracked'
  <2>1. CASE \E cmd \in Commands : Execute(c, cmd)
    BY <1>1, <2>1 DEF Execute
  <2>2. CASE \E cmd \in Queued : Queue(c, cmd)
    <3> PICK cmd \in Queued : Queue(c, cmd)
      BY <2>2
    <3> DEFINE q == tx[c].queue
               m == [cmd EXCEPT !.val = ops + 1]
    <3>1. tx[c] \in TxStates /\ q \in Seq(CommandSet) /\ Good(q) /\ ops + 1 \in Nat
      BY <1>t
    <3>2. m \in CommandSet /\ Tracked(m)
      BY <3>1, CommandVal DEF AllTracked, Tracked
    <3>3. CASE QueueFull(q)
      <4>1. tx' = [tx EXCEPT ![c] = [tx[c] EXCEPT !.error = TRUE]]
        BY <3>3 DEF Queue
      <4>2. [tx[c] EXCEPT !.error = TRUE].queue = tx[c].queue
        BY <3>1, TxFields
      <4> QED BY <1>3, <4>1, <4>2
    <3>4. CASE ~QueueFull(q)
      <4>1. tx' = [tx EXCEPT ![c] = [tx[c] EXCEPT !.queue = Append(q, m)]]
        BY <3>4 DEF Queue
      <4> HIDE DEF m, q
      <4>2. Append(q, m) \in Seq(CommandSet) /\ Good(Append(q, m))
        BY <3>1, <3>2
      <4>3. [tx[c] EXCEPT !.queue = Append(q, m)].queue = Append(q, m)
        BY <3>1, <4>2, TxFields
      <4>4. Good([tx[c] EXCEPT !.queue = Append(q, m)].queue)
        BY <4>2, <4>3
      <4> HIDE DEF Good
      <4> QED BY <1>2, <4>1, <4>4
    <3> QED BY <3>3, <3>4
  <2>3. CASE Multi(c)
    <3>1. [Normal EXCEPT !.multi = TRUE].queue = <<>>
      BY DEF Normal
    <3>2. Good([Normal EXCEPT !.multi = TRUE].queue)
      BY <3>1
    <3> HIDE DEF Good
    <3> QED BY <1>2, <2>3, <3>2 DEF Multi
  <2>4. CASE QueueRejected(c)
    <3>1. tx' = [tx EXCEPT ![c] = [tx[c] EXCEPT !.error = TRUE]]
      BY <2>4 DEF QueueRejected
    <3>2. [tx[c] EXCEPT !.error = TRUE].queue = tx[c].queue
      BY <1>t, TxFields
    <3> QED BY <1>3, <3>1, <3>2
  <2> HIDE DEF Good
  <2>5. CASE Discard(c)
    BY <1>2, <1>n, <2>5 DEF Discard
  <2>6. CASE \E d \in Dbs, K \in SUBSET Keys \ {{}} : CmdWatch(c, {d} \X K)
    BY <1>1, <2>6 DEF CmdWatch
  <2>7. CASE CmdUnwatch(c)
    BY <1>1, <2>7 DEF CmdUnwatch
  <2>8. CASE Disconnect(c)
    BY <1>2, <1>n, <2>8 DEF Disconnect
  <2> QED BY <1>4, <2>1, <2>2, <2>3, <2>4, <2>5, <2>6, <2>7, <2>8 DEF ClientStep
<1>5. ASSUME NEW c \in Clients, Leave(c) PROVE QueueTracked'
  <2> HIDE DEF Good
  <2> QED BY <1>2, <1>n, <1>5 DEF Leave
<1>6. ASSUME NEW c \in Clients, ExecBegin(c) PROVE QueueTracked'
  BY <1>1, <1>6 DEF ExecBegin
<1>7. ASSUME NEW c \in Clients, ExecProgress(c) PROVE QueueTracked'
  <2>1. ASSUME NEW s \in Slots, CheckVersion(c, s) PROVE QueueTracked'
    BY <1>1, <1>5, <2>1 DEF CheckVersion, Abort
  <2>2. ASSUME NEW s \in Slots, CheckDeadline(c, s) PROVE QueueTracked'
    BY <1>1, <1>5, <2>2 DEF CheckDeadline, Abort
  <2>3. CASE ExecStart(c)
    BY <1>1, <1>5, <2>3 DEF ExecStart
  <2>4. CASE ExecStep(c)
    <3> DEFINE q == tx[c].queue
    <3>1. tx[c] \in TxStates /\ q \in Seq(CommandSet) /\ Good(q) /\ q # <<>>
      BY <1>t, <2>4 DEF ExecStep
    <3>2. tx' = [tx EXCEPT ![c] = [tx[c] EXCEPT !.queue = Tail(q)]]
      BY <2>4 DEF ExecStep
    <3> HIDE DEF q
    <3>3. Tail(q) \in Seq(CommandSet) /\ Good(Tail(q))
      BY <3>1
    <3>4. [tx[c] EXCEPT !.queue = Tail(q)].queue = Tail(q)
      BY <3>1, <3>3, TxFields
    <3>5. Good([tx[c] EXCEPT !.queue = Tail(q)].queue)
      BY <3>3, <3>4
    <3> HIDE DEF Good
    <3> QED BY <1>2, <3>2, <3>5
  <2>5. CASE ExecEnd(c)
    BY <1>5, <2>5 DEF ExecEnd
  <2> QED BY <1>7, <2>1, <2>2, <2>3, <2>4, <2>5 DEF ExecProgress
<1>8. ASSUME NEW s \in Slots, RemoveKey(s) \/ FastRead(s) PROVE QueueTracked'
  BY <1>1, <1>8 DEF RemoveKey, FastRead
<1>9. CASE Tick \/ UNCHANGED vars
  BY <1>1, <1>9 DEF Tick, vars
<1> QED BY <1>4, <1>6, <1>7, <1>8, <1>9 DEF Next

\* The check of EXEC passes no slot that is stale or lapsed.
LEMMA GuardedStep ==
    ASSUME IInv, Seen, Guarded, [Next]_vars
    PROVE  Guarded'
<1>0. TypeOK /\ WatchTypes
  BY TypeParts DEF IInv
<1>t. /\ exec \in [Clients -> ExecStates] /\ watched \in [Clients -> [Slots -> Nat \cup {NotWatched}]]
      /\ stale \in [Clients -> SUBSET Slots] /\ lapsed \in [Clients -> SUBSET Slots]
      /\ raced \in [Clients -> SUBSET Slots] /\ changed \in [Clients -> SUBSET Slots]
  BY <1>0 DEF TypeOK
<1>1. ASSUME MetaFree, UNCHANGED <<meta, exec>> PROVE Guarded'
  BY <1>1 DEF Guarded, MetaFree
<1>2. ASSUME NEW c \in Clients, ClientStep(c) PROVE Guarded'
  <2>1. CASE ~Disconnect(c)
    BY <1>1, <1>2, <2>1 DEF ClientStep, Execute, Queue, Multi, QueueRejected, Discard, CmdWatch,
       CmdUnwatch
  <2>2. CASE Disconnect(c)
    <3>1. /\ exec' = exec /\ meta' = meta /\ data' = data /\ exec[c].pc = "idle"
          /\ stale' = stale /\ lapsed' = lapsed /\ raced' = raced
          /\ \A b \in Clients : b # c => watched'[b] = watched[b] /\ changed'[b] = changed[b]
      BY <1>t, <2>2 DEF Disconnect, ReleaseWatches, hist
    <3> SUFFICES ASSUME NEW b \in Clients, exec[b].pc = "check" PROVE Checked(b)'
      BY <3>1 DEF Guarded
    <3>2. Checked(b) /\ b # c
      BY <3>1 DEF Guarded
    <3> QED BY <3>1, <3>2 DEF Checked, Watches
  <2> QED BY <2>1, <2>2
<1>3. ASSUME NEW c \in Clients, ExecBegin(c) PROVE Guarded'
  <2>1. /\ meta' = c /\ MetaFree
        /\ exec' = [exec EXCEPT ![c] = [pc |-> "check", now |-> clock, left |-> Dropped(c), half |-> {}]]
        /\ stale'[c] = changed[c] /\ changed' = changed /\ watched' = watched /\ data' = data
        /\ lapsed'[c] = {s \in Slots : Watches(c, s) /\ Expired(data[s], clock)}
        /\ raced'[c] = {}
    BY <1>3, <1>t DEF ExecBegin, store, watch
  <2>2. \A b \in Clients : b # c => exec'[b].pc = "idle"
    BY <1>t, <2>1 DEF Guarded, MetaFree
  <2>3. /\ exec'[c].pc = "check" /\ exec'[c].now = clock /\ exec'[c].half = {}
        /\ exec'[c].left = {s \in Slots : Watches(c, s)}
    BY <1>t, <2>1 DEF Dropped
  <2>4. changed[c] \subseteq {s \in Slots : Watches(c, s)}
    BY <1>t DEF Seen
  <2>5. Checked(c)'
    BY <2>1, <2>3, <2>4 DEF Checked, Watches
  <2> QED BY <2>1, <2>2, <2>3, <2>5 DEF Guarded
<1>4. ASSUME NEW c \in Clients, Leave(c), exec[c].pc # "idle" PROVE Guarded'
  <2>1. \A b \in Clients : exec'[b].pc = "idle"
    BY <1>4, <1>t DEF Guarded, Leave, NoExec
  <2> QED BY <2>1 DEF Guarded
<1>5. ASSUME NEW c \in Clients, ExecProgress(c) PROVE Guarded'
  <2>0. exec[c].pc # "idle" /\ \A b \in Clients : b # c => exec[b].pc = "idle"
    BY <1>5 DEF ExecProgress, CheckVersion, CheckDeadline, ExecStart, ExecStep, ExecEnd, Guarded
  <2>1. ASSUME NEW s \in Slots, CheckVersion(c, s), versions[s] = watched[c][s] PROVE Guarded'
    <3>1. /\ exec[c].pc = "check" /\ s \in exec[c].left
          /\ exec' = [exec EXCEPT ![c] = [exec[c] EXCEPT !.half = {s}]]
          /\ UNCHANGED <<data, watched, meta, changed, stale, lapsed, raced>>
      BY <2>1 DEF CheckVersion, store, watch, hist
    <3>2. Checked(c) /\ meta = c /\ s \notin changed[c]
      BY <2>1, <3>1 DEF Guarded, Seen
    <3>3. /\ exec'[c].pc = "check" /\ exec'[c].left = exec[c].left /\ exec'[c].half = {s}
          /\ exec'[c].now = exec[c].now
          /\ \A b \in Clients : b # c => exec'[b] = exec[b]
      BY <1>t, <3>1 DEF ExecStates
    <3>4. Checked(c)'
      BY <3>1, <3>2, <3>3 DEF Checked, Watches
    <3> QED BY <2>0, <3>1, <3>2, <3>3, <3>4 DEF Guarded
  <2>2. ASSUME NEW s \in Slots, CheckDeadline(c, s), ~Expired(data[s], exec[c].now) PROVE Guarded'
    <3>1. /\ exec[c].pc = "check" /\ s \in exec[c].half
          /\ exec' = [exec EXCEPT ![c] = [exec[c] EXCEPT !.left = exec[c].left \ {s}, !.half = {}]]
          /\ UNCHANGED <<data, watched, meta, changed, stale, lapsed, raced>>
      BY <1>t, <2>2 DEF CheckDeadline, store, watch, hist
    <3>2. Checked(c) /\ meta = c
      BY <3>1 DEF Guarded
    <3>3. /\ exec'[c].pc = "check" /\ exec'[c].left = exec[c].left \ {s} /\ exec'[c].half = {}
          /\ exec'[c].now = exec[c].now
          /\ \A b \in Clients : b # c => exec'[b] = exec[b]
      BY <1>t, <3>1 DEF ExecStates
    <3>4. Checked(c)'
      BY <2>2, <3>1, <3>2, <3>3 DEF Checked, Watches
    <3> QED BY <2>0, <3>1, <3>2, <3>3, <3>4 DEF Guarded
  <2>3. CASE ExecStart(c) /\ ~Leave(c)
    <3>1. /\ exec[c].pc = "check" /\ exec[c].left = {} /\ exec' = [exec EXCEPT ![c].pc = "run"]
          /\ UNCHANGED <<meta, stale, lapsed, raced>>
      BY <2>3 DEF ExecStart, hist
    <3>2. stale[c] = {} /\ lapsed[c] \subseteq raced[c] /\ meta = c
      BY <3>1 DEF Guarded, Checked
    <3>3. exec'[c].pc = "run" /\ \A b \in Clients : b # c => exec'[b] = exec[b]
      BY <1>t, <3>1 DEF ExecStates
    <3> QED BY <2>0, <3>1, <3>2, <3>3 DEF Guarded
  <2>4. CASE ExecStep(c)
    <3>1. exec[c].pc = "run" /\ UNCHANGED <<meta, exec, stale, lapsed, raced>>
      BY <2>4 DEF ExecStep, hist
    <3> QED BY <2>0, <3>1 DEF Guarded
  <2>5. CASE Leave(c)
    BY <1>4, <2>0, <2>5
  <2> QED BY <1>5, <2>1, <2>2, <2>3, <2>4, <2>5
             DEF ExecProgress, CheckVersion, CheckDeadline, Abort, ExecEnd
<1>6. ASSUME NEW s \in Slots, RemoveKey(s) PROVE Guarded'
  BY <1>1, <1>6 DEF RemoveKey, MetaFree
<1>7. ASSUME NEW s \in Slots, FastRead(s) PROVE Guarded'
  <2> DEFINE p == PurgeExpired(Store, {s}, clock)
  <2>1. /\ Put(p) /\ UNCHANGED <<watched, meta, exec, stale, lapsed>>
        /\ raced' = [c \in Clients |-> IF exec[c].pc = "check" /\ Watches(c, s)
                                       THEN raced[c] \cup {s} ELSE raced[c]]
    BY <1>7 DEF FastRead, watch
  <2>2. p.data = [z \in Slots |-> IF z \in {y \in {s} : Expired(Store.data[y], clock)}
                                  THEN None ELSE Store.data[z]]
    <3>1. refs \in [Slots -> Nat] /\ Store \in Stores /\ FreshNext(Store) /\ {s} \in SUBSET Slots
      BY StoreType DEF IInv, TypeOK
    <3> QED BY <3>1, PurgeStep
  <2>3. \A z \in Slots : z # s => data'[z] = data[z]
    BY <2>1, <2>2 DEF Put, Store
  <2>4. \A c \in Clients : changed[c] \subseteq changed'[c]
    BY <2>1 DEF Put
  <2> HIDE DEF p
  <2>5. ASSUME NEW c \in Clients, exec[c].pc = "check" PROVE Checked(c)'
    <3>1. Checked(c)
      BY <2>5 DEF Guarded
    <3>2. \A z \in lapsed[c] \ raced'[c] : z # s /\ z \in Slots /\ z \notin raced[c]
      BY <1>t, <2>1, <2>5, <3>1 DEF Checked
    <3> QED BY <2>1, <2>3, <2>4, <3>1, <3>2 DEF Checked, Watches
  <2> QED BY <2>1, <2>5 DEF Guarded
<1>8. CASE Tick \/ UNCHANGED vars
  <2>1. UNCHANGED <<data, watched, meta, exec, changed, stale, lapsed, raced>>
    BY <1>8 DEF Tick, vars, store, watch, hist
  <2> QED BY <2>1 DEF Guarded, Checked, Watches
<1> QED BY <1>2, <1>3, <1>5, <1>6, <1>7, <1>8 DEF Next

\* When the versions follow every write (no SET ... GET, no LMPOP), the queue of
\* an EXEC runs only if no watched entry changed since WATCH, and none was past
\* its deadline, save one that a lock-free reader removed during the check.
THEOREM OptimisticLocking == ASSUME AllTracked PROVE Spec => []NoStaleExec
<1> DEFINE I == IInv /\ QueueTracked /\ Seen /\ Guarded
<1>1. Init => I
  <2> SUFFICES ASSUME Init PROVE QueueTracked /\ Seen /\ Guarded
    BY InitIInv
  <2> QED BY DEF Init, QueueTracked, Seen, Guarded, Normal, NoExec
<1>2. I /\ [Next]_vars => I'
  <2> SUFFICES ASSUME I, [Next]_vars PROVE I'
    OBVIOUS
  <2>1. IInv'
    BY StepIInv
  <2>2. QueueTracked'
    BY QueueStep DEF IInv
  <2>3. Seen'
    BY SeenStep
  <2>4. Guarded'
    BY GuardedStep
  <2> QED BY <2>1, <2>2, <2>3, <2>4
<1>3. I => NoStaleExec
  BY DEF Guarded, NoStaleExec
<1> HIDE DEF I
<1> QED BY <1>1, <1>2, <1>3, PTL DEF Spec
=============================================================================
