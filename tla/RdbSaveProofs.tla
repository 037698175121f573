---------------------------- MODULE RdbSaveProofs ----------------------------
(***************************************************************************)
(* Proofs about RdbSave for every number of databases and saves and every  *)
(* bound: what the file format can be mistaken for, who owns               *)
(* rdb_save_in_progress, and what an acknowledged save has left on disk.   *)
(***************************************************************************)
EXTENDS RdbSave, SubsequencesProofs, TLAPS

USE DbAssumption, KindAssumption, CommandAssumption, BoundAssumption

PcStates == {"new", "copy", "create", "write", "finish", "queued", "done"}

TaskRecords == [kind : Kinds \cup {"none"}, pc : PcStates, db : Dbs, snap : Snapshots, since : Snapshots,
                off : Nat, ok : BOOLEAN]

AtMost(s, t) == \A d \in Dbs : s[d] <= t[d]

-----------------------------------------------------------------------------
(* The file format.                                                        *)

\* The empty keyspace is a snapshot.
LEMMA EmptyIsSnapshot == Empty \in Snapshots
BY DEF Empty, Snapshots

\* The chunks of an image: one EOF, at the end, and before it the header and a
\* chunk for each database that is not empty.
LEMMA ImageShape ==
    ASSUME NEW s \in Snapshots
    PROVE  /\ Image(s) \in Seq(ChunkSet) /\ Len(Image(s)) \in Nat /\ Len(Image(s)) >= 1
           /\ Image(s)[Len(Image(s))] = EofCrc(s)
           /\ \A i \in 1 .. Len(Image(s)) - 1 : Image(s)[i].kind \in {"header", "db"}
           /\ \A i \in 1 .. Len(Image(s)) : Image(s)[i].kind = "db" =>
                 Image(s)[i].db \in Dbs /\ Image(s)[i].val[Image(s)[i].db] = s[Image(s)[i].db]
           /\ \A d \in Dbs : s[d] # 0 => \E i \in 1 .. Len(Image(s)) : Image(s)[i].kind = "db" /\ Image(s)[i].db = d
<1> DEFINE all == [i \in 1 .. NumDbs |-> i - 1]
           some == {d \in Dbs : s[d] # 0}
           used == Only(all, some)
           middle == [i \in DOMAIN used |-> DbChunk(used[i], s)]
           img == Image(s)
<1>1. all \in Seq(Dbs) /\ Elements(all) = Dbs
  <2>1. all \in [1 .. NumDbs -> Dbs] /\ DOMAIN all = 1 .. NumDbs /\ NumDbs \in Nat
    BY DEF Dbs
  <2>2. ASSUME NEW d \in Dbs PROVE d \in Elements(all)
    <3>1. d + 1 \in 1 .. NumDbs /\ all[d + 1] = d
      BY DEF Dbs
    <3> QED BY <2>1, <3>1 DEF Elements
  <2>3. Elements(all) \subseteq Dbs
    BY <2>1 DEF Elements
  <2> QED BY <2>1, <2>2, <2>3
<1>2. used \in Seq(Dbs) /\ Elements(used) = some
  <2>1. used \in Seq(Dbs)
    <3> HIDE DEF all, some
    <3> QED BY <1>1, OnlyType
  <2>2. Elements(used) = Elements(all) \intersect some
    <3> HIDE DEF all, some
    <3> QED BY <1>1, OnlyElements
  <2> QED BY <1>1, <2>1, <2>2
<1> DEFINE n == Len(used)
<1> HIDE DEF all, some, used
<1>3. n \in Nat /\ DOMAIN used = 1 .. n /\ \A i \in 1 .. n : used[i] \in Dbs
  BY <1>2
<1>4. \A d \in Dbs : DbChunk(d, s) \in ChunkSet
  BY DEF DbChunk, ChunkSet, Snapshots, Empty
<1>5. Head1 \in ChunkSet /\ EofCrc(s) \in ChunkSet
  BY EmptyIsSnapshot DEF Head1, EofCrc, ChunkSet, Dbs
<1>6. middle \in Seq(ChunkSet) /\ Len(middle) = n
  BY <1>3, <1>4
<1>7. img = <<Head1>> \o middle \o <<EofCrc(s)>>
  BY DEF Image, used, all, some
<1> HIDE DEF middle, img
<1>8. img \in Seq(ChunkSet) /\ Len(img) = n + 2 /\ img[1] = Head1 /\ img[n + 2] = EofCrc(s)
  BY <1>3, <1>5, <1>6, <1>7
<1>9. \A i \in 1 .. n : img[i + 1] = middle[i]
  BY <1>3, <1>5, <1>6, <1>7
<1>10. \A i \in 1 .. n : img[i + 1] = DbChunk(used[i], s)
  BY <1>3, <1>9 DEF middle
<1>11. \A i \in 1 .. n + 2 : i = 1 \/ i = n + 2 \/ (i - 1 \in 1 .. n /\ img[i] = DbChunk(used[i - 1], s))
  <2> SUFFICES ASSUME NEW i \in 1 .. n + 2, i # 1, i # n + 2
               PROVE  i - 1 \in 1 .. n /\ img[i] = DbChunk(used[i - 1], s)
    OBVIOUS
  <2>1. i - 1 \in 1 .. n /\ (i - 1) + 1 = i
    BY <1>3
  <2> QED BY <1>10, <2>1
<1>12. Head1.kind = "header" /\ EofCrc(s).kind = "eof"
  BY DEF Head1, EofCrc
<1>13. \A d \in Dbs : DbChunk(d, s).kind = "db" /\ DbChunk(d, s).db = d /\ DbChunk(d, s).val[d] = s[d]
  BY DEF DbChunk, Empty, Snapshots
<1>14. \A i \in 1 .. n + 1 : img[i].kind \in {"header", "db"}
  BY <1>3, <1>8, <1>11, <1>12, <1>13
<1>15. \A i \in 1 .. n + 2 : img[i].kind = "db" => img[i].db \in Dbs /\ img[i].val[img[i].db] = s[img[i].db]
  BY <1>3, <1>8, <1>11, <1>12, <1>13
<1>16. ASSUME NEW d \in Dbs, s[d] # 0 PROVE \E i \in 1 .. n + 2 : img[i].kind = "db" /\ img[i].db = d
  <2>1. d \in Elements(used)
    BY <1>2, <1>16 DEF some
  <2>2. PICK i \in 1 .. n : used[i] = d
    BY <1>3, <2>1 DEF Elements
  <2>3. i + 1 \in 1 .. n + 2 /\ img[i + 1] = DbChunk(d, s)
    BY <1>3, <1>10, <2>2
  <2> QED BY <1>13, <2>3
<1> QED BY <1>3, <1>8, <1>14, <1>15, <1>16 DEF img

\* A file that loads gives the snapshot its CRC identifies.
LEMMA LoadsItsSnapshot ==
    ASSUME NEW f \in Seq(ChunkSet), Loads(f)
    PROVE  \E n \in DOMAIN f : f[n].kind = "eof" /\ f[n].val \in Snapshots /\ Loaded(f) = f[n].val
<1>1. PICK n \in DOMAIN f : /\ f[n].kind = "eof"
                            /\ \A i \in 1 .. n - 1 : f[i].kind \notin {"eof", "hole"}
                            /\ CrcMatches(f, n)
  BY DEF Loads
<1>2. n \in 1 .. Len(f) /\ Len(f) \in Nat /\ n \in Nat /\ DOMAIN f = 1 .. Len(f)
  OBVIOUS
<1> DEFINE s == f[n].val
           img == Image(s)
<1>3. s \in Snapshots
  <2>1. f[n] \in ChunkSet
    BY <1>2
  <2> QED BY <2>1 DEF ChunkSet
<1> HIDE DEF s
<1>4. img = SubSeq(f, 1, n)
  BY <1>1 DEF CrcMatches, s
<1>5. Len(img) = n /\ \A i \in 1 .. n : f[i] = img[i]
  <2> HIDE DEF img
  <2> QED BY <1>2, <1>4
<1>6. /\ \A i \in 1 .. Len(img) : img[i].kind = "db" => img[i].db \in Dbs /\ img[i].val[img[i].db] = s[img[i].db]
      /\ \A d \in Dbs : s[d] # 0 => \E i \in 1 .. Len(img) : img[i].kind = "db" /\ img[i].db = d
  BY <1>3, ImageShape
<1> HIDE DEF img
<1>7. /\ \A i \in 1 .. n : f[i].kind = "db" => f[i].val[f[i].db] = s[f[i].db]
      /\ \A d \in Dbs : s[d] # 0 => \E i \in 1 .. n : f[i].kind = "db" /\ f[i].db = d
  BY <1>5, <1>6
<1> DEFINE First(i) == f[i].kind = "eof" /\ \A j \in 1 .. i - 1 : f[j].kind # "eof"
           m == CHOOSE i \in DOMAIN f : First(i)
<1>8. First(n)
  BY <1>1
<1>9. m = n
  <2>1. m \in DOMAIN f /\ First(m)
    BY <1>8
  <2>2. \A i \in DOMAIN f : First(i) => i = n
    <3> SUFFICES ASSUME NEW i \in DOMAIN f, First(i), i # n PROVE FALSE
      OBVIOUS
    <3>1. i \in Nat /\ (i \in 1 .. n - 1 \/ n \in 1 .. i - 1)
      BY <1>2
    <3> QED BY <1>8, <3>1
  <2> HIDE DEF m
  <2> QED BY <2>1, <2>2
<1> DEFINE Has(d) == \E i \in 1 .. n : f[i].kind = "db" /\ f[i].db = d
           At(d) == CHOOSE j \in 1 .. n : f[j].kind = "db" /\ f[j].db = d
<1>10. Loaded(f) = [d \in Dbs |-> IF Has(d) THEN f[At(d)].val[d] ELSE 0]
  <2>1. Loaded(f) = [d \in Dbs |-> IF \E i \in 1 .. m : f[i].kind = "db" /\ f[i].db = d
                                   THEN f[CHOOSE j \in 1 .. m : f[j].kind = "db" /\ f[j].db = d].val[d] ELSE 0]
    BY Zenon DEF Loaded
  <2> HIDE DEF m
  <2> QED BY <1>9, <2>1
<1>11. ASSUME NEW d \in Dbs PROVE (IF Has(d) THEN f[At(d)].val[d] ELSE 0) = s[d]
  <2>1. CASE Has(d)
    <3>1. At(d) \in 1 .. n /\ f[At(d)].kind = "db" /\ f[At(d)].db = d
      BY <2>1
    <3> HIDE DEF At
    <3> QED BY <1>7, <2>1, <3>1
  <2>2. CASE ~Has(d)
    BY <1>7, <2>2
  <2> QED BY <2>1, <2>2
<1>12. Loaded(f) = s
  <2>1. s = [d \in Dbs |-> s[d]]
    BY <1>3 DEF Snapshots
  <2> HIDE DEF Has, At
  <2> QED BY <1>10, <1>11, <2>1
<1> QED BY <1>1, <1>3, <1>12 DEF s

\* The image of a snapshot loads as that snapshot.
LEMMA ImageLoads ==
    ASSUME NEW s \in Snapshots
    PROVE  Loads(Image(s)) /\ Loaded(Image(s)) = s
<1> DEFINE f == Image(s)
           n == Len(f)
<1>1. /\ f \in Seq(ChunkSet) /\ n \in Nat /\ n >= 1 /\ f[n] = EofCrc(s)
      /\ \A i \in 1 .. n - 1 : f[i].kind \in {"header", "db"}
  BY ImageShape
<1>2. EofCrc(s).kind = "eof" /\ EofCrc(s).val = s
  BY DEF EofCrc
<1>3. CrcMatches(f, n)
  <2>1. f[n].val = s
    BY <1>1, <1>2
  <2>2. SubSeq(f, 1, n) = f
    <3> HIDE DEF f
    <3> QED BY <1>1
  <2> QED BY <2>1, <2>2 DEF CrcMatches
<1> HIDE DEF f
<1>4. n \in DOMAIN f /\ DOMAIN f = 1 .. n
  BY <1>1
<1>5. Loads(f)
  BY <1>1, <1>2, <1>3, <1>4 DEF Loads
<1>6. PICK i \in DOMAIN f : f[i].kind = "eof" /\ Loaded(f) = f[i].val
  BY <1>1, <1>5, LoadsItsSnapshot
<1>7. i = n
  BY <1>1, <1>4, <1>6
<1> QED BY <1>1, <1>2, <1>5, <1>6, <1>7 DEF f

\* A part of an image does not load.
LEMMA PartRefused ==
    ASSUME NEW s \in Snapshots, NEW m \in 0 .. Len(Image(s)) - 1
    PROVE  ~Loads(SubSeq(Image(s), 1, m))
<1> DEFINE img == Image(s)
           f == SubSeq(img, 1, m)
<1>1. /\ img \in Seq(ChunkSet) /\ Len(img) \in Nat
      /\ \A i \in 1 .. Len(img) - 1 : img[i].kind \in {"header", "db"}
  BY ImageShape
<1> HIDE DEF img
<1>2. DOMAIN f = 1 .. m /\ \A i \in 1 .. m : f[i] = img[i]
  BY <1>1 DEF img
<1>3. \A i \in DOMAIN f : f[i].kind # "eof"
  <2>0. m <= Len(img) - 1 /\ m \in Nat
    BY <1>1 DEF img
  <2> HIDE DEF f
  <2> QED BY <1>1, <1>2, <2>0
<1> QED BY <1>3 DEF Loads, img

\* The chunk at the end of a part makes the part longer.
LEMMA WriteNext ==
    ASSUME NEW s \in Snapshots, NEW off \in 1 .. Len(Image(s))
    PROVE  WriteAt(SubSeq(Image(s), 1, off - 1), off, Image(s)[off]) = SubSeq(Image(s), 1, off)
<1> DEFINE img == Image(s)
           f == SubSeq(img, 1, off - 1)
<1>1. img \in Seq(ChunkSet) /\ Len(img) \in Nat
  BY ImageShape
<1>2. off \in 1 .. Len(img) /\ off \in Nat
  BY <1>1
<1> HIDE DEF img
<1>3. Len(f) = off - 1 /\ \A i \in 1 .. off - 1 : f[i] = img[i]
  BY <1>1, <1>2
<1> HIDE DEF f
<1>4. WriteAt(f, off, img[off]) = [i \in 1 .. off |-> img[i]]
  BY <1>2, <1>3 DEF WriteAt
<1>5. SubSeq(img, 1, off) = [i \in 1 .. off |-> img[i]]
  BY <1>1, <1>2
<1> QED BY <1>4, <1>5 DEF f, img

-----------------------------------------------------------------------------
(* The inductive invariant.                                                *)

\* A save starts to write at the beginning and stays inside the image of its
\* snapshot; then there is a file.
WritesInside ==
    \A t \in Tasks :
        /\ task[t].pc \in {"copy", "create"} => task[t].off = 1
        /\ task[t].pc = "write" => task[t].off \in 1 .. Len(Image(task[t].snap)) /\ dump \in Seq(ChunkSet)

Types == TypeOK /\ WritesInside

Background(t) == Running(t) /\ task[t].kind = "bgsave"

OneBackground == \A t, u \in Tasks : Background(t) /\ Background(u) => t = u

\* Snapshots that are complete were taken, and so were those the file may identify.
TakenKnown ==
    /\ Empty \in taken
    /\ \A t \in Tasks : task[t].pc \in {"create", "write", "finish"} => task[t].snap \in taken
    /\ \A i \in DOMAIN dump : dump[i].kind = "eof" => dump[i].val \in taken

\* As long as no two saves ran at the same time.
OneRuns == \A t, u \in Tasks : Running(t) /\ Running(u) => t = u

\* The file is complete and holds what is owed, or it is a part of an image.
Complete == \/ dump = None /\ owed = Empty
            \/ \E s \in Snapshots : dump = Image(s) /\ AtMost(owed, s)
Part == \E s \in Snapshots : \E m \in 0 .. Len(Image(s)) - 1 : dump = SubSeq(Image(s), 1, m)

\* How far a running save has come.
Progress(t) ==
    /\ Running(t) => AtMost(task[t].since, mem)
    /\ task[t].pc = "copy" => \A d \in Dbs : d < task[t].db => /\ task[t].since[d] <= task[t].snap[d]
                                                              /\ owed[d] <= task[t].snap[d]
    /\ task[t].pc \in {"create", "write", "finish"} => AtMost(task[t].since, task[t].snap) /\ AtMost(owed, task[t].snap)
    /\ task[t].pc \in {"copy", "create", "write"} => task[t].ok
    /\ task[t].pc = "write" => dump = SubSeq(Image(task[t].snap), 1, task[t].off - 1)
    /\ task[t].pc = "finish" /\ task[t].ok => dump = Image(task[t].snap)

Orderly ==
    /\ OneRuns
    /\ Complete \/ Part
    /\ srv = "up" => AtMost(owed, mem) /\ \A t \in Tasks : Progress(t)
    /\ srv # "up" => \A t \in Tasks : ~Running(t)
    /\ srv = "up" /\ lastOk /\ (\A t \in Tasks : task[t].pc \notin {"write", "finish"}) => Complete

\* Neither the databases nor a copy of them is ahead of the commands.
Behind == \A d \in Dbs : /\ mem[d] <= writes
                         /\ \A t \in Tasks : task[t].snap[d] <= writes
                         /\ \A s \in taken : s[d] <= writes

SaveInv == /\ Types /\ FlagOwned /\ OneBackground /\ TakenKnown
           /\ Behind
           /\ ~overlap => Orderly

\* The actions of one save, and the others.
TaskStep(t) == (\E k \in Kinds : StartSave(t, k)) \/ StartBgsave(t) \/ SnapshotDb(t) \/ CreateDump(t) \/ WriteChunk(t)
               \/ FinishSave(t) \/ SaveIoError(t) \/ ExecQueued(t)
OtherStep == BeginCommand \/ (\E d \in Dbs : WriteDb(d)) \/ Crash \/ LoadStartupData

\* A step is one of a save task or one of the rest of the server.
LEMMA NextSplits == Next => OtherStep \/ \E t \in Tasks : TaskStep(t)
BY DEF Next, OtherStep, TaskStep, SaveStep

-----------------------------------------------------------------------------
(* Types.                                                                  *)

\* The initial state is typed.
LEMMA TypesInit == Init => Types
<1> SUFFICES ASSUME Init PROVE Types
  OBVIOUS
<1>1. 0 \in Dbs
  BY DEF Dbs
<1>2. Unasked \in TaskRecords /\ Unasked.pc = "new"
  BY <1>1, EmptyIsSnapshot DEF Unasked, Asked, TaskRecords, PcStates
<1>3. task \in [Tasks -> TaskRecords] /\ \A t \in Tasks : task[t].pc = "new"
  BY <1>2 DEF Init
<1>4. TypeOK
  <2>1. srv \in {"up", "off", "refused"} /\ mem \in Snapshots /\ owed \in Snapshots /\ todo \subseteq Dbs
    BY EmptyIsSnapshot DEF Init
  <2>2. inProgress \in BOOLEAN /\ lastOk \in BOOLEAN /\ overlap \in BOOLEAN
    BY DEF Init
  <2>3. writes \in 0 .. MaxWrites /\ crashes \in 0 .. MaxCrashes /\ faults \in 0 .. MaxFaults
    BY DEF Init
  <2>4. dump = None /\ taken \subseteq Snapshots
    BY EmptyIsSnapshot DEF Init
  <2> QED BY <1>3, <2>1, <2>2, <2>3, <2>4, Zenon DEF TypeOK, TaskRecords, PcStates
<1>5. WritesInside
  BY <1>3 DEF WritesInside
<1> QED BY <1>4, <1>5 DEF Types

\* The records a save begins and ends with.
LEMMA AskedType ==
    ASSUME NEW k \in Kinds \cup {"none"}, NEW pc \in PcStates
    PROVE  Asked(k, pc) \in TaskRecords /\ Asked(k, pc).pc = pc /\ Asked(k, pc).kind = k /\ Asked(k, pc).off = 1
<1>1. 0 \in Dbs
  BY DEF Dbs
<1> QED BY <1>1, EmptyIsSnapshot DEF Asked, TaskRecords

\* A snapshot with one more database.
LEMMA CopyType ==
    ASSUME NEW s \in Snapshots, NEW m \in Snapshots, NEW d \in Dbs
    PROVE  [s EXCEPT ![d] = m[d]] \in Snapshots
BY DEF Snapshots

\* What a write at an offset of the file leaves.
LEMMA WriteAtType ==
    ASSUME NEW f \in Seq(ChunkSet), NEW off \in Nat \ {0}, NEW c \in ChunkSet
    PROVE  /\ WriteAt(f, off, c) \in Seq(ChunkSet)
           /\ \A i \in DOMAIN WriteAt(f, off, c) :
                \/ WriteAt(f, off, c)[i] = c
                \/ i \in DOMAIN f /\ WriteAt(f, off, c)[i] = f[i]
                \/ WriteAt(f, off, c)[i] = Hole
<1>1. Hole \in ChunkSet
  BY EmptyIsSnapshot DEF Hole, ChunkSet, Dbs
<1>2. Len(f) \in Nat /\ DOMAIN f = 1 .. Len(f) /\ \A i \in 1 .. Len(f) : f[i] \in ChunkSet
  OBVIOUS
<1> DEFINE n == IF off > Len(f) THEN off ELSE Len(f)
           g == [i \in 1 .. n |-> IF i = off THEN c ELSE IF i <= Len(f) THEN f[i] ELSE Hole]
<1>3. n \in Nat
  BY <1>2
<1> HIDE DEF n
<1>4. \A i \in 1 .. n : g[i] = c \/ (i \in 1 .. Len(f) /\ g[i] = f[i]) \/ g[i] = Hole
  BY <1>2, <1>3
<1>5. \A i \in 1 .. n : g[i] \in ChunkSet
  <2> HIDE DEF g
  <2> QED BY <1>1, <1>2, <1>4
<1>6. g \in Seq(ChunkSet) /\ DOMAIN g = 1 .. n
  BY <1>3, <1>5
<1>7. WriteAt(f, off, c) = g
  BY DEF WriteAt, n
<1> QED BY <1>2, <1>4, <1>6, <1>7

\* The maximum of two snapshots is one.
LEMMA PromiseType ==
    ASSUME owed \in Snapshots, NEW s \in Snapshots, Promise(s)
    PROVE  owed' \in Snapshots /\ \A d \in Dbs : owed'[d] = IF s[d] > owed[d] THEN s[d] ELSE owed[d]
BY DEF Promise, Snapshots

\* The steps of a save task keep the types.
LEMMA TypesTask ==
    ASSUME Types, NEW t \in Tasks, TaskStep(t)
    PROVE  Types'
<1> USE DEF Types, TypeOK, WritesInside
<1>0. /\ task \in [Tasks -> TaskRecords] /\ mem \in Snapshots /\ owed \in Snapshots /\ writes \in 0 .. MaxWrites
      /\ task[t].snap \in Snapshots /\ task[t].since \in Snapshots /\ task[t].db \in Dbs /\ task[t].off \in Nat
  BY DEF TaskRecords, PcStates
<1>1. ASSUME NEW k \in Kinds, StartSave(t, k) PROVE Types'
  <2>1. [Asked(k, "copy") EXCEPT !.since = mem] \in TaskRecords /\ [Asked(k, "copy") EXCEPT !.since = mem].pc = "copy"
        /\ [Asked(k, "copy") EXCEPT !.since = mem].off = 1
    <3>1. Asked(k, "copy") \in TaskRecords /\ Asked(k, "copy").pc = "copy" /\ Asked(k, "copy").off = 1
      BY AskedType DEF PcStates
    <3> QED BY <1>0, <3>1 DEF TaskRecords
  <2>2. task' \in [Tasks -> TaskRecords] /\ \A u \in Tasks : u # t => task'[u] = task[u]
    BY <1>0, <1>1, <2>1 DEF StartSave, Started
  <2>3. task'[t].pc = "copy" /\ task'[t].off = 1
    BY <1>0, <1>1, <2>1 DEF StartSave, Started
  <2>4. overlap' \in BOOLEAN
    BY <1>1 DEF StartSave
  <2>5. TypeOK'
    BY <1>0, <1>1, <2>2, <2>4 DEF StartSave, TaskRecords, PcStates
  <2>6. WritesInside'
    BY <1>1, <2>2, <2>3 DEF StartSave
  <2> QED BY <2>5, <2>6
<1>2. ASSUME StartBgsave(t) PROVE Types'
  <2>0. "bgsave" \in Kinds
    BY <1>2 DEF StartBgsave
  <2>1. [Asked("bgsave", "copy") EXCEPT !.since = mem] \in TaskRecords
        /\ [Asked("bgsave", "copy") EXCEPT !.since = mem].pc = "copy"
        /\ [Asked("bgsave", "copy") EXCEPT !.since = mem].off = 1
    <3>1. Asked("bgsave", "copy") \in TaskRecords /\ Asked("bgsave", "copy").pc = "copy" /\ Asked("bgsave", "copy").off = 1
      BY <2>0, AskedType DEF PcStates
    <3> QED BY <1>0, <3>1 DEF TaskRecords
  <2>2. task' \in [Tasks -> TaskRecords] /\ \A u \in Tasks : u # t => task'[u] = task[u]
    BY <1>0, <1>2, <2>1 DEF StartBgsave, Started
  <2>3. task'[t].pc = "copy" /\ task'[t].off = 1
    BY <1>0, <1>2, <2>1 DEF StartBgsave, Started
  <2>4. overlap' \in BOOLEAN /\ inProgress' \in BOOLEAN
    BY <1>2 DEF StartBgsave, MarkInProgress
  <2>5. TypeOK'
    BY <1>0, <1>2, <2>2, <2>4 DEF StartBgsave, TaskRecords, PcStates
  <2>6. WritesInside'
    BY <1>2, <2>2, <2>3 DEF StartBgsave
  <2> QED BY <2>5, <2>6
<1>3. ASSUME SnapshotDb(t) PROVE Types'
  <2> DEFINE d == task[t].db
             s == [task[t].snap EXCEPT ![d] = mem[d]]
  <2>1. s \in Snapshots
    BY <1>0, CopyType
  <2>2. ~LastDb(d) => d + 1 \in Dbs
    BY <1>0 DEF LastDb, Dbs
  <2> HIDE DEF s
  <2>3. \/ task' = [task EXCEPT ![t].snap = s, ![t].pc = "create"] /\ taken' = taken \cup {s}
        \/ d + 1 \in Dbs /\ task' = [task EXCEPT ![t].snap = s, ![t].db = d + 1] /\ taken' = taken
    BY <1>3, <2>2 DEF SnapshotDb, s
  <2>a. task[t] \in TaskRecords /\ task[t].pc = "copy" /\ task[t].off = 1
    BY <1>0, <1>3 DEF SnapshotDb
  <2>b. [task[t] EXCEPT !.snap = s, !.pc = "create"] \in TaskRecords
    BY <2>1, <2>a DEF TaskRecords, PcStates
  <2>c. d + 1 \in Dbs => [task[t] EXCEPT !.snap = s, !.db = d + 1] \in TaskRecords
    BY <2>1, <2>a DEF TaskRecords
  <2>d. \/ task' = [task EXCEPT ![t] = [task[t] EXCEPT !.snap = s, !.pc = "create"]]
        \/ d + 1 \in Dbs /\ task' = [task EXCEPT ![t] = [task[t] EXCEPT !.snap = s, !.db = d + 1]]
    BY <1>0, <2>3
  <2>f. /\ [task[t] EXCEPT !.snap = s, !.pc = "create"].pc = "create"
        /\ [task[t] EXCEPT !.snap = s, !.pc = "create"].off = 1
        /\ [task[t] EXCEPT !.snap = s, !.db = d + 1].pc = "copy"
        /\ [task[t] EXCEPT !.snap = s, !.db = d + 1].off = 1
    BY <2>a DEF TaskRecords
  <2>e. task'[t].pc # "write" /\ task'[t].off = 1
    BY <1>0, <2>d, <2>f
  <2>4. task' \in [Tasks -> TaskRecords] /\ (\A u \in Tasks : u # t => task'[u] = task[u])
    BY <1>0, <2>b, <2>c, <2>d
  <2>5. taken' \subseteq Snapshots
    BY <2>1, <2>3
  <2>6. TypeOK'
    BY <1>0, <1>3, <2>4, <2>5 DEF SnapshotDb, TaskRecords, PcStates
  <2>7. WritesInside'
    BY <1>3, <2>4, <2>e DEF SnapshotDb
  <2> QED BY <2>6, <2>7
<1>4. ASSUME CreateDump(t) PROVE Types'
  <2>1. task' \in [Tasks -> TaskRecords] /\ (\A u \in Tasks : u # t => task'[u] = task[u])
        /\ task'[t] = [task[t] EXCEPT !.pc = "write"]
    BY <1>0, <1>4 DEF CreateDump, TaskRecords, PcStates
  <2>2. dump' = <<>> /\ dump' \in Seq(ChunkSet)
    BY <1>4 DEF CreateDump
  <2>3. TypeOK'
    BY <1>0, <1>4, <2>1, <2>2 DEF CreateDump, TaskRecords, PcStates
  <2>4. task'[t].off = 1 /\ task'[t].snap \in Snapshots
    BY <1>0, <1>4, <2>1 DEF CreateDump, TaskRecords
  <2>5. Len(Image(task'[t].snap)) \in Nat /\ Len(Image(task'[t].snap)) >= 1
    BY <2>4, ImageShape
  <2>6. task'[t].off \in 1 .. Len(Image(task'[t].snap)) /\ task'[t].pc = "write"
    BY <1>0, <2>1, <2>4, <2>5 DEF TaskRecords
  <2>7. WritesInside'
    BY <2>1, <2>2, <2>6
  <2> QED BY <2>3, <2>7
<1>5. ASSUME WriteChunk(t) PROVE Types'
  <2> DEFINE img == Image(task[t].snap)
             off == task[t].off
             p == IF off = Len(img) THEN "finish" ELSE "write"
             r == [task[t] EXCEPT !.off = off + 1, !.pc = p]
  <2>1. off \in 1 .. Len(img) /\ dump \in Seq(ChunkSet) /\ task[t] \in TaskRecords
    BY <1>0, <1>5 DEF WriteChunk
  <2>2. img \in Seq(ChunkSet) /\ Len(img) \in Nat
    BY <1>0, ImageShape
  <2> HIDE DEF img
  <2>3. dump' \in Seq(ChunkSet)
    <3>1. dump' = WriteAt(dump, off, img[off])
      BY <1>5 DEF WriteChunk, img
    <3>2. img[off] \in ChunkSet /\ off \in Nat \ {0}
      BY <2>1, <2>2
    <3> QED BY <2>1, <3>1, <3>2, WriteAtType
  <2>4. task' = [task EXCEPT ![t] = r]
    BY <1>0, <1>5 DEF WriteChunk, img
  <2>5. r \in TaskRecords /\ r.off = off + 1 /\ r.snap = task[t].snap
        /\ r.pc = IF off = Len(img) THEN "finish" ELSE "write"
    <3>1. p \in PcStates /\ p = IF off = Len(img) THEN "finish" ELSE "write"
      BY DEF PcStates
    <3>2. off + 1 \in Nat
      BY <2>1, <2>2
    <3> HIDE DEF p
    <3> QED BY <2>1, <3>1, <3>2 DEF TaskRecords
  <2> HIDE DEF r
  <2>6. task' \in [Tasks -> TaskRecords] /\ (\A u \in Tasks : u # t => task'[u] = task[u]) /\ task'[t] = r
    BY <1>0, <2>4, <2>5
  <2>7. TypeOK'
    BY <1>0, <1>5, <2>3, <2>6 DEF WriteChunk, TaskRecords, PcStates
  <2>8. r.pc = "write" => r.off \in 1 .. Len(Image(r.snap))
    BY <2>1, <2>2, <2>5 DEF img
  <2>9. WritesInside'
    BY <2>3, <2>5, <2>6, <2>8
  <2> QED BY <2>7, <2>9
<1>6. ASSUME FinishSave(t) PROVE Types'
  <2>1. task' \in [Tasks -> TaskRecords] /\ (\A u \in Tasks : u # t => task'[u] = task[u])
        /\ task'[t].pc \notin {"copy", "create", "write"}
    <3>1. Ended \in TaskRecords /\ Ended.pc = "done"
      BY AskedType DEF Ended, PcStates
    <3>2. task[t].kind = "queued" => Asked("queued", "queued") \in TaskRecords /\ Asked("queued", "queued").pc = "queued"
      BY <1>0, AskedType DEF PcStates, TaskRecords
    <3> QED BY <1>0, <1>6, <3>1, <3>2 DEF FinishSave
  <2>2. owed' \in Snapshots
    BY <1>0, <1>6, PromiseType DEF FinishSave
  <2>3. inProgress' \in BOOLEAN /\ lastOk' \in BOOLEAN
    BY <1>0, <1>6 DEF FinishSave, ClearInProgress, TaskRecords
  <2>4. TypeOK'
    BY <1>0, <1>6, <2>1, <2>2, <2>3 DEF FinishSave, TaskRecords, PcStates
  <2>5. WritesInside'
    BY <1>6, <2>1 DEF FinishSave
  <2> QED BY <2>4, <2>5
<1>7. ASSUME SaveIoError(t) PROVE Types'
  <2>1. task' \in [Tasks -> TaskRecords] /\ (\A u \in Tasks : u # t => task'[u] = task[u])
        /\ task'[t].pc \notin {"copy", "create", "write"}
    <3> DEFINE r == [task[t] EXCEPT !.pc = "finish", !.ok = FALSE]
    <3>1. task' = [task EXCEPT ![t] = r]
      BY <1>0, <1>7 DEF SaveIoError
    <3>2. task[t] \in TaskRecords
      BY <1>0
    <3>3. r \in TaskRecords /\ r.pc = "finish"
      BY <3>2 DEF TaskRecords, PcStates
    <3> HIDE DEF r
    <3> QED BY <1>0, <3>1, <3>3
  <2>2. TypeOK'
    BY <1>0, <1>7, <2>1 DEF SaveIoError, TaskRecords, PcStates
  <2>3. WritesInside'
    BY <1>7, <2>1 DEF SaveIoError
  <2> QED BY <2>2, <2>3
<1>8. ASSUME ExecQueued(t) PROVE Types'
  <2>1. task' \in [Tasks -> TaskRecords] /\ (\A u \in Tasks : u # t => task'[u] = task[u])
        /\ task'[t].pc \notin {"copy", "create", "write"}
    <3>1. Ended \in TaskRecords /\ Ended.pc = "done"
      BY AskedType DEF Ended, PcStates
    <3> QED BY <1>0, <1>8, <3>1 DEF ExecQueued
  <2>2. mem' \in Snapshots /\ writes' \in 0 .. MaxWrites
    <3>1. writes + 1 \in 0 .. MaxWrites /\ writes' = writes + 1
      BY <1>0, <1>8 DEF ExecQueued
    <3>2. mem' = [mem EXCEPT ![0] = writes + 1] /\ 0 \in Dbs
      BY <1>8 DEF ExecQueued, Dbs
    <3> QED BY <1>0, <3>1, <3>2 DEF Snapshots
  <2>3. owed' \in Snapshots
    BY <1>0, <1>8, <2>2, PromiseType DEF ExecQueued
  <2>4. TypeOK'
    BY <1>0, <1>8, <2>1, <2>2, <2>3 DEF ExecQueued, TaskRecords, PcStates
  <2>5. WritesInside'
    BY <1>8, <2>1 DEF ExecQueued
  <2> QED BY <2>4, <2>5
<1> QED BY <1>1, <1>2, <1>3, <1>4, <1>5, <1>6, <1>7, <1>8 DEF TaskStep

\* Commands, exits, crashes and start-up keep the types.
LEMMA TypesOther ==
    ASSUME Types, OtherStep
    PROVE  Types'
<1> USE DEF Types, TypeOK, WritesInside
<1>0. /\ task \in [Tasks -> TaskRecords] /\ mem \in Snapshots /\ owed \in Snapshots /\ writes \in 0 .. MaxWrites
  BY DEF TaskRecords, PcStates
<1>1. ASSUME BeginCommand PROVE Types'
  <2>1. writes' \in 0 .. MaxWrites
    BY <1>0, <1>1 DEF BeginCommand
  <2>2. todo' \subseteq Dbs
    BY <1>1 DEF BeginCommand
  <2>3. TypeOK'
    BY <1>1, <2>1, <2>2 DEF BeginCommand
  <2> QED BY <1>1, <2>3 DEF BeginCommand
<1>2. ASSUME NEW d \in Dbs, WriteDb(d) PROVE Types'
  <2>1. mem' \in Snapshots
    BY <1>0, <1>2 DEF WriteDb, Snapshots
  <2>2. TypeOK'
    BY <1>2, <2>1 DEF WriteDb
  <2> QED BY <1>2, <2>2 DEF WriteDb
<1>3. ASSUME Crash PROVE Types'
  <2>1. \A t \in Tasks : task'[t] \in {Unasked, Ended}
    BY <1>3 DEF Crash
  <2>2. Unasked \in TaskRecords /\ Unasked.pc = "new" /\ Ended \in TaskRecords /\ Ended.pc = "done"
    BY AskedType DEF Unasked, Ended, PcStates
  <2>3. task' \in [Tasks -> TaskRecords]
    BY <1>3, <2>2 DEF Crash
  <2>4. crashes' \in 0 .. MaxCrashes
    BY <1>3 DEF Crash
  <2>5. TypeOK'
    BY <1>3, <2>3, <2>4 DEF Crash, TaskRecords, PcStates
  <2>6. WritesInside'
    BY <2>1, <2>2
  <2> QED BY <2>5, <2>6
<1>4. ASSUME LoadStartupData PROVE Types'
  <2>1. mem' \in Snapshots
    <3>1. CASE dump # None /\ ~Loads(dump)
      BY <1>0, <1>4, <3>1 DEF LoadStartupData
    <3>2. CASE dump = None
      BY <1>4, <3>2, EmptyIsSnapshot DEF LoadStartupData
    <3>3. CASE dump # None /\ Loads(dump)
      <4>1. mem' = Loaded(dump) /\ dump \in Seq(ChunkSet)
        BY <1>4, <3>3 DEF LoadStartupData
      <4> QED BY <3>3, <4>1, LoadsItsSnapshot
    <3> QED BY <3>1, <3>2, <3>3
  <2>2. srv' \in {"up", "off", "refused"}
    BY <1>4 DEF LoadStartupData
  <2>3. TypeOK'
    BY <1>4, <2>1, <2>2 DEF LoadStartupData
  <2> QED BY <1>4, <2>3 DEF LoadStartupData
<1> QED BY <1>1, <1>2, <1>3, <1>4 DEF OtherStep

\* Every step keeps the types.
LEMMA TypesStep == Types /\ [Next]_vars => Types'
<1>1. ASSUME Types, UNCHANGED vars PROVE Types'
  BY <1>1 DEF vars, Types, TypeOK, WritesInside
<1> QED BY <1>1, NextSplits, TypesTask, TypesOther

-----------------------------------------------------------------------------
(* What each step of a save does to its record.                            *)

SameOthers(t) == \A u \in Tasks : u # t => task'[u] = task[u]

\* What the start of a save does to the tasks.
LEMMA StartEffect ==
    ASSUME Types, NEW t \in Tasks, NEW k \in Kinds, task' = Started(t, k)
    PROVE  /\ SameOthers(t)
           /\ task'[t].pc = "copy" /\ task'[t].kind = k /\ task'[t].since = mem /\ task'[t].db = 0 /\ task'[t].ok
<1> DEFINE r == [Asked(k, "copy") EXCEPT !.since = mem]
<1>1. task' = [task EXCEPT ![t] = r] /\ task \in [Tasks -> TaskRecords]
  BY DEF Started, Types, TypeOK, TaskRecords, PcStates
<1>2. r.pc = "copy" /\ r.kind = k /\ r.since = mem /\ r.db = 0 /\ r.ok
  BY DEF Asked
<1> HIDE DEF r
<1> QED BY <1>1, <1>2 DEF SameOthers

\* What copying one database does to the tasks.
LEMMA SnapshotEffect ==
    ASSUME Types, NEW t \in Tasks, SnapshotDb(t)
    PROVE  LET d == task[t].db
               s == [task[t].snap EXCEPT ![d] = mem[d]]
           IN  /\ SameOthers(t) /\ task[t].pc = "copy" /\ task'[t].snap = s
               /\ task'[t].kind = task[t].kind /\ task'[t].since = task[t].since /\ task'[t].ok = task[t].ok
               /\ \/ LastDb(d) /\ task'[t].pc = "create" /\ taken' = taken \cup {s}
                  \/ ~LastDb(d) /\ task'[t].pc = "copy" /\ task'[t].db = d + 1 /\ taken' = taken
<1> DEFINE d == task[t].db
           s == [task[t].snap EXCEPT ![d] = mem[d]]
           r1 == [task[t] EXCEPT !.snap = s, !.pc = "create"]
           r2 == [task[t] EXCEPT !.snap = s, !.db = d + 1]
<1>1. task \in [Tasks -> TaskRecords] /\ task[t] \in TaskRecords /\ task[t].pc = "copy"
  BY DEF Types, TypeOK, TaskRecords, PcStates, SnapshotDb
<1>2. \/ LastDb(d) /\ task' = [task EXCEPT ![t] = r1] /\ taken' = taken \cup {s}
      \/ ~LastDb(d) /\ task' = [task EXCEPT ![t] = r2] /\ taken' = taken
  BY <1>1 DEF SnapshotDb
<1> HIDE DEF s, d
<1>3. /\ r1.pc = "create" /\ r1.snap = s /\ r1.kind = task[t].kind /\ r1.since = task[t].since /\ r1.ok = task[t].ok
      /\ r2.pc = "copy" /\ r2.snap = s /\ r2.kind = task[t].kind /\ r2.since = task[t].since /\ r2.ok = task[t].ok
      /\ r2.db = d + 1
  BY <1>1 DEF TaskRecords
<1> HIDE DEF r1, r2
<1>4. SameOthers(t) /\ (LastDb(d) => task'[t] = r1) /\ (~LastDb(d) => task'[t] = r2)
  BY <1>1, <1>2 DEF SameOthers
<1>5. CASE LastDb(d)
  BY <1>1, <1>2, <1>3, <1>4, <1>5 DEF s, d
<1>6. CASE ~LastDb(d)
  BY <1>1, <1>2, <1>3, <1>4, <1>6 DEF s, d
<1> QED BY <1>5, <1>6

\* Everything but where the save is stays.
SameSave(t) == /\ SameOthers(t)
               /\ task'[t].kind = task[t].kind /\ task'[t].since = task[t].since /\ task'[t].snap = task[t].snap

\* What creating the temporary file does to the tasks.
LEMMA CreateEffect ==
    ASSUME Types, NEW t \in Tasks, CreateDump(t)
    PROVE  SameSave(t) /\ task[t].pc = "create" /\ task'[t].pc = "write" /\ task'[t].ok = task[t].ok
           /\ task[t].off = 1 /\ task'[t].off = 1
<1>1. task \in [Tasks -> TaskRecords] /\ task[t] \in TaskRecords /\ task[t].pc = "create" /\ task[t].off = 1
  BY DEF Types, TypeOK, TaskRecords, PcStates, CreateDump, WritesInside
<1>2. task' = [task EXCEPT ![t] = [task[t] EXCEPT !.pc = "write"]]
  BY <1>1 DEF CreateDump
<1> QED BY <1>1, <1>2 DEF SameSave, SameOthers, TaskRecords

\* What writing a chunk does to the tasks.
LEMMA WriteEffect ==
    ASSUME Types, NEW t \in Tasks, WriteChunk(t)
    PROVE  LET img == Image(task[t].snap)
               off == task[t].off
           IN  /\ SameSave(t) /\ task[t].pc = "write" /\ task'[t].ok = task[t].ok
               /\ task'[t].off = off + 1 /\ task'[t].pc = IF off = Len(img) THEN "finish" ELSE "write"
               /\ off \in 1 .. Len(img) /\ dump \in Seq(ChunkSet) /\ dump' = WriteAt(dump, off, img[off])
<1> DEFINE img == Image(task[t].snap)
           off == task[t].off
           p == IF off = Len(img) THEN "finish" ELSE "write"
           r == [task[t] EXCEPT !.off = off + 1, !.pc = p]
<1>1. task \in [Tasks -> TaskRecords] /\ task[t] \in TaskRecords /\ task[t].pc = "write"
  BY DEF Types, TypeOK, TaskRecords, PcStates, WriteChunk
<1>2. task' = [task EXCEPT ![t] = r] /\ dump' = WriteAt(dump, off, img[off])
  BY <1>1 DEF WriteChunk
<1>3. off \in 1 .. Len(img) /\ dump \in Seq(ChunkSet)
  BY <1>1 DEF Types, WritesInside
<1> HIDE DEF p
<1>4. /\ r.pc = p /\ r.off = off + 1 /\ r.kind = task[t].kind /\ r.since = task[t].since /\ r.snap = task[t].snap
      /\ r.ok = task[t].ok
  BY <1>1 DEF TaskRecords
<1>5. SameOthers(t) /\ task'[t] = r
  BY <1>1, <1>2 DEF SameOthers
<1> HIDE DEF r
<1> QED BY <1>1, <1>2, <1>3, <1>4, <1>5 DEF p, SameSave

\* What a failing write does to the tasks.
LEMMA ErrorEffect ==
    ASSUME Types, NEW t \in Tasks, SaveIoError(t)
    PROVE  SameSave(t) /\ task[t].pc \in {"create", "write"} /\ task'[t].pc = "finish" /\ task'[t].ok = FALSE
<1> DEFINE r == [task[t] EXCEPT !.pc = "finish", !.ok = FALSE]
<1>1. task \in [Tasks -> TaskRecords] /\ task[t] \in TaskRecords /\ task[t].pc \in {"create", "write"}
  BY DEF Types, TypeOK, TaskRecords, PcStates, SaveIoError
<1>2. task' = [task EXCEPT ![t] = r]
  BY <1>1 DEF SaveIoError
<1>3. r.pc = "finish" /\ r.kind = task[t].kind /\ r.since = task[t].since /\ r.snap = task[t].snap /\ r.ok = FALSE
  BY <1>1 DEF TaskRecords
<1> HIDE DEF r
<1> QED BY <1>1, <1>2, <1>3 DEF SameSave, SameOthers

\* A finished save, and the save inside an EXEC, end.
LEMMA EndEffect ==
    ASSUME Types, NEW t \in Tasks, FinishSave(t) \/ ExecQueued(t)
    PROVE  /\ SameOthers(t) /\ task'[t].pc \in {"queued", "done"}
           /\ FinishSave(t) => task[t].pc = "finish"
           /\ ExecQueued(t) => task[t].pc = "queued"
<1>1. task \in [Tasks -> TaskRecords]
  BY DEF Types, TypeOK, TaskRecords, PcStates
<1>2. Ended.pc = "done" /\ Asked("queued", "queued").pc = "queued"
  BY DEF Ended, Asked
<1>3. task' = [task EXCEPT ![t] = Ended] \/ task' = [task EXCEPT ![t] = Asked("queued", "queued")]
  BY DEF FinishSave, ExecQueued
<1> QED BY <1>1, <1>2, <1>3 DEF SameOthers, FinishSave, ExecQueued

-----------------------------------------------------------------------------
(* Who owns the flag.                                                      *)

\* The flag follows the background save when the others are as before.
LEMMA FlagKept ==
    ASSUME FlagOwned, OneBackground, inProgress' = inProgress,
           \A u \in Tasks : Background(u)' <=> Background(u)
    PROVE  FlagOwned' /\ OneBackground'
BY DEF FlagOwned, OneBackground, Background

\* The steps of a save task keep the flag with its one owner.
LEMMA FlagTask ==
    ASSUME Types, FlagOwned, OneBackground, NEW t \in Tasks, TaskStep(t)
    PROVE  FlagOwned' /\ OneBackground'
<1>1. ASSUME NEW k \in Kinds, StartSave(t, k) PROVE FlagOwned' /\ OneBackground'
  <2>1. SameOthers(t) /\ task'[t].kind = k /\ k # "bgsave" /\ task[t].pc = "new" /\ inProgress' = inProgress
    BY <1>1, StartEffect DEF StartSave
  <2>2. \A u \in Tasks : Background(u)' <=> Background(u)
    BY <2>1 DEF Background, Running, SameOthers
  <2> QED BY <2>1, <2>2, FlagKept
<1>2. ASSUME StartBgsave(t) PROVE FlagOwned' /\ OneBackground'
  <2>1. /\ SameOthers(t) /\ task'[t].kind = "bgsave" /\ task'[t].pc = "copy" /\ ~inProgress /\ inProgress'
        /\ \A u \in Tasks : ~Background(u)
    BY <1>2, StartEffect DEF StartBgsave, MarkInProgress, FlagOwned, Background
  <2> QED BY <2>1 DEF FlagOwned, OneBackground, Background, Running, SameOthers
<1>3. ASSUME SnapshotDb(t) \/ CreateDump(t) \/ WriteChunk(t) \/ SaveIoError(t) PROVE FlagOwned' /\ OneBackground'
  <2>1. SameOthers(t) /\ task'[t].kind = task[t].kind /\ Running(t) /\ Running(t)'
    BY <1>3, SnapshotEffect, CreateEffect, WriteEffect, ErrorEffect DEF SameSave, Running
  <2>2. inProgress' = inProgress
    BY <1>3 DEF SnapshotDb, CreateDump, WriteChunk, SaveIoError
  <2>3. \A u \in Tasks : Background(u)' <=> Background(u)
    BY <2>1 DEF Background, Running, SameOthers
  <2> QED BY <2>2, <2>3, FlagKept
<1>4. ASSUME FinishSave(t) PROVE FlagOwned' /\ OneBackground'
  <2>1. SameOthers(t) /\ ~Running(t)' /\ task[t].pc = "finish" /\ inProgress' = ClearInProgress(t)
    BY <1>4, EndEffect DEF FinishSave, Running
  <2>2. CASE task[t].kind = "bgsave"
    <3>1. Background(t) /\ inProgress' = FALSE
      BY <2>1, <2>2 DEF ClearInProgress, Background, Running
    <3>2. \A u \in Tasks : ~Background(u)'
      BY <2>1, <3>1 DEF OneBackground, Background, Running, SameOthers
    <3> QED BY <3>1, <3>2 DEF FlagOwned, OneBackground, Background
  <2>3. CASE task[t].kind # "bgsave"
    <3>1. inProgress' = inProgress
      BY <2>1, <2>3 DEF ClearInProgress
    <3>2. \A u \in Tasks : Background(u)' <=> Background(u)
      BY <2>1, <2>3 DEF Background, Running, SameOthers
    <3> QED BY <3>1, <3>2, FlagKept
  <2> QED BY <2>2, <2>3
<1>5. ASSUME ExecQueued(t) PROVE FlagOwned' /\ OneBackground'
  <2>1. SameOthers(t) /\ ~Running(t)' /\ ~Running(t) /\ inProgress' = inProgress
    BY <1>5, EndEffect DEF ExecQueued, Running
  <2>2. \A u \in Tasks : Background(u)' <=> Background(u)
    BY <2>1 DEF Background, Running, SameOthers
  <2> QED BY <2>1, <2>2, FlagKept
<1> QED BY <1>1, <1>2, <1>3, <1>4, <1>5 DEF TaskStep

\* Every step keeps the flag with its one owner.
LEMMA FlagStep == Types /\ FlagOwned /\ OneBackground /\ [Next]_vars => FlagOwned' /\ OneBackground'
<1> SUFFICES ASSUME Types, FlagOwned, OneBackground, [Next]_vars PROVE FlagOwned' /\ OneBackground'
  OBVIOUS
<1>1. ASSUME task' = task, inProgress' = inProgress PROVE FlagOwned' /\ OneBackground'
  BY <1>1 DEF FlagOwned, OneBackground, Background, Running
<1>2. ASSUME Crash PROVE FlagOwned' /\ OneBackground'
  <2>1. \A u \in Tasks : task'[u] \in {Unasked, Ended}
    BY <1>2 DEF Crash
  <2>2. \A u \in Tasks : ~Background(u)'
    BY <2>1 DEF Background, Running, Unasked, Ended, Asked
  <2> QED BY <1>2, <2>2 DEF Crash, FlagOwned, OneBackground, Background
<1>3. ASSUME OtherStep PROVE FlagOwned' /\ OneBackground'
  BY <1>1, <1>2, <1>3 DEF OtherStep, BeginCommand, WriteDb, LoadStartupData
<1> QED BY <1>1, <1>3, NextSplits, FlagTask DEF vars

\* rdb_save_in_progress is set exactly while a background save is under way
\* (persistence/mod.rs start_bgsave, rdb.rs run_save): whatever fails or crashes.
THEOREM FlagIsOwned == Spec => []FlagOwned
<1>1. Init => Types /\ FlagOwned /\ OneBackground
  <2> SUFFICES ASSUME Init PROVE FlagOwned /\ OneBackground
    BY TypesInit
  <2>1. \A t \in Tasks : ~Background(t)
    BY DEF Init, Background, Running, Unasked, Asked
  <2> QED BY <2>1 DEF Init, FlagOwned, OneBackground, Background
<1>2. Types /\ FlagOwned /\ OneBackground /\ [Next]_vars => (Types /\ FlagOwned /\ OneBackground)'
  BY TypesStep, FlagStep
<1> QED BY <1>1, <1>2, PTL DEF Spec

-----------------------------------------------------------------------------
(* What a restart may load.                                                *)

Past(t) == task[t].pc \in {"create", "write", "finish"}

\* The steps of a save task write only snapshots that were taken.
LEMMA TakenTask ==
    ASSUME Types, TakenKnown, NEW t \in Tasks, TaskStep(t)
    PROVE  TakenKnown'
<1>0. task[t].snap \in Snapshots
  BY DEF Types, TypeOK
<1>1. ASSUME taken \subseteq taken', dump' = dump, SameOthers(t), Past(t)' => task'[t].snap \in taken' PROVE TakenKnown'
  BY <1>1 DEF TakenKnown, SameOthers, Past
<1>2. CASE \E k \in Kinds : StartSave(t, k)
  <2>1. taken' = taken /\ dump' = dump /\ SameOthers(t) /\ ~Past(t)'
    BY <1>2, StartEffect DEF StartSave, Past
  <2> QED BY <1>1, <2>1
<1>3. CASE StartBgsave(t)
  <2>1. taken' = taken /\ dump' = dump /\ SameOthers(t) /\ ~Past(t)'
    BY <1>3, StartEffect DEF StartBgsave, Past
  <2> QED BY <1>1, <2>1
<1>4. CASE SnapshotDb(t)
  <2>1. taken \subseteq taken' /\ dump' = dump /\ SameOthers(t) /\ (Past(t)' => task'[t].snap \in taken')
    BY <1>4, SnapshotEffect DEF SnapshotDb, Past
  <2> QED BY <1>1, <2>1
<1>5. CASE CreateDump(t)
  <2>1. taken' = taken /\ dump' = <<>> /\ SameOthers(t) /\ task'[t].snap = task[t].snap /\ Past(t)
    BY <1>5, CreateEffect DEF CreateDump, Past, SameSave
  <2>2. DOMAIN dump' = {}
    BY <2>1
  <2> QED BY <2>1, <2>2 DEF TakenKnown, SameOthers, Past
<1>6. CASE WriteChunk(t)
  <2> DEFINE img == Image(task[t].snap)
             off == task[t].off
  <2>1. /\ taken' = taken /\ SameOthers(t) /\ task'[t].snap = task[t].snap /\ Past(t)
        /\ off \in 1 .. Len(img) /\ dump \in Seq(ChunkSet) /\ dump' = WriteAt(dump, off, img[off])
    BY <1>6, WriteEffect DEF WriteChunk, Past, SameSave
  <2>2. /\ img \in Seq(ChunkSet) /\ Len(img) \in Nat /\ img[Len(img)] = EofCrc(task[t].snap)
        /\ \A i \in 1 .. Len(img) - 1 : img[i].kind \in {"header", "db"}
    BY <1>0, ImageShape
  <2> DEFINE c == img[off]
  <2>3. c \in ChunkSet /\ off \in Nat \ {0} /\ (c.kind = "eof" => c.val = task[t].snap)
    <3>1. CASE off = Len(img)
      BY <2>1, <2>2, <3>1 DEF EofCrc
    <3>2. CASE off # Len(img)
      BY <2>1, <2>2, <3>2
    <3> QED BY <3>1, <3>2
  <2> HIDE DEF c, img, off
  <2>4. dump' = WriteAt(dump, off, c)
    BY <2>1 DEF c
  <2>5. \A i \in DOMAIN dump' : dump'[i] = c \/ (i \in DOMAIN dump /\ dump'[i] = dump[i]) \/ dump'[i] = Hole
    BY <2>1, <2>3, <2>4, WriteAtType
  <2>6. \A i \in DOMAIN dump' : dump'[i].kind = "eof" => dump'[i].val \in taken
    <3>1. Hole.kind = "hole"
      BY DEF Hole
    <3>2. task[t].snap \in taken
      BY <2>1 DEF TakenKnown, Past
    <3> QED BY <2>3, <2>5, <3>1, <3>2 DEF TakenKnown
  <2> QED BY <2>1, <2>6 DEF TakenKnown, SameOthers, Past
<1>7. CASE SaveIoError(t)
  <2>1. taken' = taken /\ dump' = dump /\ SameOthers(t) /\ task'[t].snap = task[t].snap /\ Past(t)
    BY <1>7, ErrorEffect DEF SaveIoError, Past, SameSave
  <2> QED BY <1>1, <2>1 DEF TakenKnown, Past
<1>8. CASE FinishSave(t) \/ ExecQueued(t)
  <2>1. taken' = taken /\ dump' = dump /\ SameOthers(t) /\ ~Past(t)'
    BY <1>8, EndEffect DEF FinishSave, ExecQueued, Past
  <2> QED BY <1>1, <2>1
<1> QED BY <1>2, <1>3, <1>4, <1>5, <1>6, <1>7, <1>8 DEF TaskStep

\* The dump always holds a snapshot that was taken.
LEMMA TakenStep == Types /\ TakenKnown /\ [Next]_vars => TakenKnown'
<1> SUFFICES ASSUME Types, TakenKnown, [Next]_vars PROVE TakenKnown'
  OBVIOUS
<1>1. ASSUME task' = task, dump' = dump, taken' = taken PROVE TakenKnown'
  BY <1>1 DEF TakenKnown
<1>2. ASSUME Crash PROVE TakenKnown'
  <2>1. \A u \in Tasks : task'[u] \in {Unasked, Ended}
    BY <1>2 DEF Crash
  <2>2. \A u \in Tasks : task'[u].pc \notin {"create", "write", "finish"}
    BY <2>1 DEF Unasked, Ended, Asked
  <2> QED BY <1>2, <2>2 DEF Crash, TakenKnown
<1>3. ASSUME OtherStep PROVE TakenKnown'
  BY <1>1, <1>2, <1>3 DEF OtherStep, BeginCommand, WriteDb, LoadStartupData
<1> QED BY <1>1, <1>3, NextSplits, TakenTask DEF vars

\* What a restart loads is one of the snapshots that were taken (rdb/loader.rs
\* load_into, saver.rs): no cut file and no mixture of two saves passes for data.
THEOREM NoMixtureLoaded == Spec => NeverLoadsMixture
<1>1. Init => Types /\ TakenKnown
  <2> SUFFICES ASSUME Init PROVE TakenKnown
    BY TypesInit
  <2>1. \A t \in Tasks : task[t].pc = "new"
    BY DEF Init, Unasked, Asked
  <2>2. dump = None /\ \A i \in DOMAIN None : None[i].kind # "eof"
    BY DEF Init, None
  <2> QED BY <2>1, <2>2 DEF Init, TakenKnown
<1>2. Types /\ TakenKnown /\ [Next]_vars => (Types /\ TakenKnown)'
  BY TypesStep, TakenStep
<1>3. Types /\ TakenKnown /\ [Next]_vars => [srv = "off" /\ srv' = "up" => mem' \in taken]_vars
  <2> SUFFICES ASSUME Types, TakenKnown, Next, srv = "off", srv' = "up" PROVE mem' \in taken
    OBVIOUS
  <2>1. LoadStartupData
    BY NextSplits DEF OtherStep, TaskStep, BeginCommand, WriteDb, Crash, StartSave, StartBgsave,
       SnapshotDb, CreateDump,
                      WriteChunk, FinishSave, SaveIoError, ExecQueued
  <2>2. CASE dump = None
    BY <2>1, <2>2 DEF LoadStartupData, TakenKnown
  <2>3. CASE dump # None
    <3>1. Loads(dump) /\ mem' = Loaded(dump) /\ dump \in Seq(ChunkSet)
      BY <2>1, <2>3 DEF LoadStartupData, Types, TypeOK
    <3>2. PICK n \in DOMAIN dump : dump[n].kind = "eof" /\ Loaded(dump) = dump[n].val
      BY <3>1, LoadsItsSnapshot
    <3> QED BY <3>1, <3>2 DEF TakenKnown
  <2> QED BY <2>2, <2>3
<1> QED BY <1>1, <1>2, <1>3, PTL DEF Spec, NeverLoadsMixture

-----------------------------------------------------------------------------
(* What an acknowledged save has left on disk.                             *)

\* No snapshot is ahead of memory.
LEMMA BehindStep == Types /\ TakenKnown /\ Behind /\ [Next]_vars => Behind'
<1> SUFFICES ASSUME Types, TakenKnown, Behind, [Next]_vars PROVE Behind'
  OBVIOUS
<1>0. /\ writes \in Nat /\ mem \in Snapshots /\ task \in [Tasks -> TaskRecords]
      /\ \A t \in Tasks : task[t].snap \in Snapshots /\ task[t].db \in Dbs
  BY DEF Types, TypeOK, TaskRecords, PcStates
<1>1. ASSUME writes' \in Nat, writes' >= writes, taken' = taken, \A t \in Tasks : task'[t].snap = task[t].snap \/ task'[t].snap = Empty,
             \A d \in Dbs : mem'[d] = mem[d] \/ mem'[d] <= writes'
      PROVE  Behind'
  <2> SUFFICES ASSUME NEW d \in Dbs
               PROVE  /\ mem'[d] <= writes' /\ (\A t \in Tasks : task'[t].snap[d] <= writes')
                      /\ \A s \in taken' : s[d] <= writes'
    BY DEF Behind
  <2>1. mem[d] \in Nat /\ mem'[d] <= writes'
    BY <1>0, <1>1 DEF Behind, Snapshots
  <2>2. ASSUME NEW t \in Tasks PROVE task'[t].snap[d] <= writes'
    <3>1. task[t].snap[d] \in Nat /\ task[t].snap[d] <= writes /\ Empty[d] = 0
      BY <1>0 DEF Behind, Snapshots, Empty
    <3> QED BY <1>0, <1>1, <3>1
  <2>3. ASSUME NEW s \in taken PROVE s[d] <= writes'
    <3>1. s \in Snapshots
      BY DEF Types, TypeOK
    <3>2. s[d] \in Nat /\ s[d] <= writes
      BY <3>1 DEF Behind, Snapshots
    <3> QED BY <1>0, <1>1, <3>2
  <2> QED BY <1>1, <2>1, <2>2, <2>3
<1>2. CASE UNCHANGED vars
  BY <1>0, <1>1, <1>2 DEF vars
<1>3. CASE BeginCommand
  BY <1>0, <1>1, <1>3 DEF BeginCommand
<1>4. ASSUME NEW d \in Dbs, WriteDb(d) PROVE Behind'
  <2>1. \A e \in Dbs : mem'[e] = mem[e] \/ mem'[e] <= writes
    BY <1>0, <1>4 DEF WriteDb, Snapshots
  <2> QED BY <1>0, <1>1, <1>4, <2>1 DEF WriteDb
<1>5. CASE Crash
  <2>1. \A t \in Tasks : task'[t] \in {Unasked, Ended}
    BY <1>5 DEF Crash
  <2>2. \A t \in Tasks : task'[t].snap = Empty
    BY <2>1 DEF Unasked, Ended, Asked
  <2> QED BY <1>0, <1>1, <1>5, <2>2 DEF Crash
<1>6. CASE LoadStartupData
  <2>1. \A d \in Dbs : mem'[d] = mem[d] \/ mem'[d] <= writes
    <3>1. mem' = mem \/ mem' \in taken
      <4>1. CASE dump = None
        BY <1>6, <4>1 DEF LoadStartupData, TakenKnown
      <4>2. CASE dump # None /\ Loads(dump)
        <5>1. mem' = Loaded(dump) /\ dump \in Seq(ChunkSet)
          BY <1>6, <4>2 DEF LoadStartupData, Types, TypeOK
        <5>2. PICK n \in DOMAIN dump : dump[n].kind = "eof" /\ Loaded(dump) = dump[n].val
          BY <4>2, <5>1, LoadsItsSnapshot
        <5> QED BY <5>1, <5>2 DEF TakenKnown
      <4>3. CASE dump # None /\ ~Loads(dump)
        BY <1>6, <4>3 DEF LoadStartupData
      <4> QED BY <4>1, <4>2, <4>3
    <3> QED BY <3>1 DEF Behind
  <2> QED BY <1>0, <1>1, <1>6, <2>1 DEF LoadStartupData
<1>7. ASSUME NEW t \in Tasks, TaskStep(t) PROVE Behind'
  <2>1. ASSUME NEW k \in Kinds, StartSave(t, k) \/ StartBgsave(t), task' = Started(t, k) PROVE Behind'
    <3>1. \A u \in Tasks : task'[u].snap = task[u].snap \/ task'[u].snap = Empty
      BY <1>0, <2>1 DEF Started, Asked
    <3> QED BY <1>0, <1>1, <2>1, <3>1 DEF StartSave, StartBgsave
  <2>2. CASE SnapshotDb(t)
    <3> DEFINE e == task[t].db
               s == [task[t].snap EXCEPT ![e] = mem[e]]
    <3>1. SameOthers(t) /\ task'[t].snap = s /\ taken' \subseteq taken \cup {s}
      BY <2>2, SnapshotEffect
    <3>2. \A d \in Dbs : s[d] <= writes
      BY <1>0 DEF Behind, Snapshots
    <3>3. mem' = mem /\ writes' = writes
      BY <2>2 DEF SnapshotDb
    <3> HIDE DEF s
    <3> QED BY <3>1, <3>2, <3>3 DEF Behind, SameOthers
  <2>3. CASE CreateDump(t) \/ WriteChunk(t) \/ SaveIoError(t)
    <3>1. SameSave(t)
      BY <2>3, CreateEffect, WriteEffect, ErrorEffect
    <3>2. mem' = mem /\ writes' = writes /\ taken' = taken
      BY <2>3 DEF CreateDump, WriteChunk, SaveIoError
    <3> QED BY <3>1, <3>2 DEF Behind, SameSave, SameOthers
  <2>4. CASE FinishSave(t) \/ ExecQueued(t)
    <3>1. \A u \in Tasks : task'[u].snap = task[u].snap \/ task'[u].snap = Empty
      BY <1>0, <2>4 DEF FinishSave, ExecQueued, Ended, Asked
    <3>2. taken' = taken /\ writes' \in Nat /\ writes' >= writes
      BY <1>0, <2>4 DEF FinishSave, ExecQueued
    <3>3. \A d \in Dbs : mem'[d] = mem[d] \/ mem'[d] <= writes'
      BY <1>0, <2>4 DEF FinishSave, ExecQueued, Snapshots
    <3> QED BY <1>1, <3>1, <3>2, <3>3
  <2> QED BY <1>7, <2>1, <2>2, <2>3, <2>4 DEF TaskStep, StartSave, StartBgsave
<1> QED BY <1>2, <1>3, <1>4, <1>5, <1>6, <1>7, NextSplits DEF OtherStep

\* No file is not a file.
LEMMA NoneIsNoFile ==
    /\ None \notin Seq(ChunkSet)
    /\ \A s \in Snapshots : Image(s) # None /\ \A m \in 0 .. Len(Image(s)) - 1 : SubSeq(Image(s), 1, m) # None
<1>1. None \notin Seq(ChunkSet)
  <2>1. Len(None) = 1 /\ None[1].kind = "none"
    BY DEF None
  <2>2. \A c \in ChunkSet : c.kind # "none"
    BY DEF ChunkSet
  <2> HIDE DEF None
  <2> QED BY <2>1, <2>2
<1>2. ASSUME NEW s \in Snapshots
      PROVE  Image(s) # None /\ \A m \in 0 .. Len(Image(s)) - 1 : SubSeq(Image(s), 1, m) # None
  <2> DEFINE img == Image(s)
  <2>1. img \in Seq(ChunkSet) /\ Len(img) \in Nat
    BY ImageShape
  <2> HIDE DEF img
  <2>2. ASSUME NEW m \in 0 .. Len(img) - 1 PROVE SubSeq(img, 1, m) \in Seq(ChunkSet)
    BY <2>1
  <2> QED BY <1>1, <2>1, <2>2 DEF img
<1> QED BY <1>1, <1>2

\* AtMost is an order on snapshots.
LEMMA AtMostTransitive ==
    ASSUME NEW a \in Snapshots, NEW b \in Snapshots, NEW c \in Snapshots, AtMost(a, b), AtMost(b, c)
    PROVE  AtMost(a, c)
<1> SUFFICES ASSUME NEW d \in Dbs PROVE a[d] <= c[d]
  BY DEF AtMost
<1>1. a[d] \in Nat /\ b[d] \in Nat /\ c[d] \in Nat /\ a[d] <= b[d] /\ b[d] <= c[d]
  BY DEF AtMost, Snapshots
<1> QED BY <1>1

\* A save that does not run has nothing to show for it.
LEMMA IdleProgress == \A u \in Tasks : ~Running(u) => Progress(u)
BY DEF Running, Progress

\* A task that does not run has made all the progress there is.
LEMMA IdleProgressNext == \A u \in Tasks : ~Running(u)' => Progress(u)'
BY DEF Running, Progress

\* The start of a save, where none overlaps, keeps the order of saves.
LEMMA OrderlyStart ==
    ASSUME Types, FlagOwned, Orderly, NEW t \in Tasks, NEW k \in Kinds, StartSave(t, k) \/ (StartBgsave(t) /\ k = "bgsave"),
           ~overlap'
    PROVE  Orderly'
<1>1. /\ SameOthers(t) /\ task'[t].pc = "copy" /\ task'[t].since = mem /\ task'[t].db = 0 /\ task'[t].ok
      /\ UNCHANGED <<srv, mem, dump, owed, lastOk>> /\ srv = "up"
  BY StartEffect DEF StartSave, StartBgsave
<1>2. \A u \in Tasks : ~Running(u)
  BY DEF StartSave, StartBgsave, FlagOwned
<1>3. \A u \in Tasks : u # t => ~Running(u)'
  BY <1>1, <1>2 DEF SameOthers, Running
<1>4. OneRuns'
  BY <1>3 DEF OneRuns
<1>5. mem \in Snapshots
  BY DEF Types, TypeOK
<1>6. AtMost(mem, mem)
  BY <1>5 DEF AtMost, Snapshots
<1>7. Progress(t)'
  <2>1. \A d \in Dbs : ~(d < 0)
    BY DEF Dbs
  <2> QED BY <1>1, <1>6, <2>1 DEF Progress, AtMost
<1>8. \A u \in Tasks : Progress(u)'
  BY <1>3, <1>7, IdleProgressNext
<1>9. (Complete <=> Complete') /\ (Part <=> Part')
  BY <1>1 DEF Complete, Part
<1>10. (AtMost(owed, mem))'
  BY <1>1 DEF Orderly, AtMost
<1>11. lastOk' => Complete'
  BY <1>1, <1>2, <1>9 DEF Orderly, Running
<1> QED BY <1>1, <1>4, <1>8, <1>9, <1>10, <1>11 DEF Orderly

\* The steps of the one save that runs.
LEMMA OrderlyRunning ==
    ASSUME Types, Orderly, NEW t \in Tasks, SnapshotDb(t) \/ CreateDump(t) \/ WriteChunk(t) \/ SaveIoError(t)
    PROVE  Orderly'
<1>0. /\ mem \in Snapshots /\ owed \in Snapshots /\ task[t].snap \in Snapshots /\ task[t].since \in Snapshots
      /\ task[t].db \in Dbs
  BY DEF Types, TypeOK
<1>1. /\ SameOthers(t) /\ Running(t) /\ Running(t)' /\ task'[t].since = task[t].since
      /\ UNCHANGED <<srv, mem, owed, lastOk>> /\ srv = "up"
  BY SnapshotEffect, CreateEffect, WriteEffect, ErrorEffect
     DEF SameSave, Running, SnapshotDb, CreateDump, WriteChunk, SaveIoError
<1>2. \A u \in Tasks : u # t => ~Running(u) /\ ~Running(u)'
  BY <1>1 DEF Orderly, OneRuns, SameOthers, Running
<1>3. OneRuns'
  BY <1>2 DEF OneRuns
<1>4. AtMost(owed, mem) /\ (AtMost(owed, mem))' /\ Progress(t)
  BY <1>1 DEF Orderly, AtMost
<1>5. AtMost(task[t].since, mem) /\ (AtMost(task[t].since, mem))'
  BY <1>1, <1>4 DEF Progress, AtMost
<1>6. ASSUME Progress(t)', Complete' \/ Part',
             task'[t].pc \in {"write", "finish"} \/ ((Complete' <=> Complete) /\ task[t].pc \notin {"write", "finish"})
      PROVE  Orderly'
  <2>1. \A u \in Tasks : Progress(u)'
    BY <1>2, <1>6, IdleProgressNext
  <2>2. ASSUME lastOk', \A u \in Tasks : task'[u].pc \notin {"write", "finish"} PROVE Complete'
    <3>1. (Complete' <=> Complete) /\ task[t].pc \notin {"write", "finish"}
      BY <1>6, <2>2
    <3>2. \A u \in Tasks : task[u].pc \notin {"write", "finish"}
      BY <1>2, <3>1 DEF Running
    <3> QED BY <1>1, <2>2, <3>1, <3>2 DEF Orderly
  <2> QED BY <1>1, <1>3, <1>4, <1>6, <2>1, <2>2 DEF Orderly
<1>7. CASE SnapshotDb(t)
  <2> DEFINE e == task[t].db
             s == [task[t].snap EXCEPT ![e] = mem[e]]
  <2>1. /\ task[t].pc = "copy" /\ task'[t].snap = s /\ task'[t].ok = task[t].ok
        /\ \/ LastDb(e) /\ task'[t].pc = "create"
           \/ ~LastDb(e) /\ task'[t].pc = "copy" /\ task'[t].db = e + 1
    BY <1>7, SnapshotEffect
  <2>2. \A d \in Dbs : d < e + 1 => task[t].since[d] <= s[d] /\ owed[d] <= s[d]
    <3> SUFFICES ASSUME NEW d \in Dbs, d < e + 1 PROVE task[t].since[d] <= s[d] /\ owed[d] <= s[d]
      OBVIOUS
    <3>0. d \in Int /\ e \in Int
      BY <1>0 DEF Dbs
    <3>1. CASE d = e
      <4>1. s[d] = mem[d]
        BY <1>0, <3>1 DEF Snapshots
      <4> QED BY <1>4, <1>5, <4>1 DEF AtMost
    <3>2. CASE d # e
      <4>1. s[d] = task[t].snap[d] /\ d < e
        BY <1>0, <3>0, <3>2 DEF Snapshots
      <4> QED BY <1>4, <2>1, <4>1 DEF Progress
    <3> QED BY <3>1, <3>2
  <2>3. LastDb(e) => \A d \in Dbs : d < e + 1
    BY <1>0 DEF LastDb, Dbs
  <2>4. dump' = dump
    BY <1>7 DEF SnapshotDb
  <2>5. task[t].ok
    BY <1>4, <2>1 DEF Progress
  <2> HIDE DEF s
  <2>6. Progress(t)'
    <3>1. CASE LastDb(e)
      BY <1>1, <1>5, <2>1, <2>2, <2>3, <2>5, <3>1 DEF Progress, AtMost
    <3>2. CASE ~LastDb(e)
      BY <1>1, <1>5, <2>1, <2>2, <2>5, <3>2 DEF Progress, AtMost
    <3> QED BY <3>1, <3>2
  <2>7. (Complete <=> Complete') /\ (Part <=> Part')
    BY <1>1, <2>4 DEF Complete, Part
  <2> QED BY <1>6, <2>1, <2>6, <2>7 DEF Orderly
<1>8. CASE CreateDump(t)
  <2>1. /\ task[t].pc = "create" /\ task'[t].pc = "write" /\ task'[t].snap = task[t].snap /\ task'[t].ok = task[t].ok
        /\ task'[t].off = 1 /\ dump' = <<>>
    BY <1>8, CreateEffect DEF SameSave, CreateDump
  <2>2. /\ Image(task[t].snap) \in Seq(ChunkSet) /\ Len(Image(task[t].snap)) \in Nat /\ Len(Image(task[t].snap)) >= 1
    BY <1>0, ImageShape
  <2>3. SubSeq(Image(task[t].snap), 1, 0) = <<>> /\ 0 \in 0 .. Len(Image(task[t].snap)) - 1
    <3> DEFINE img == Image(task[t].snap)
    <3> HIDE DEF img
    <3>1. SubSeq(img, 1, 0) = <<>> /\ 0 \in 0 .. Len(img) - 1
      BY <2>2 DEF img
    <3> QED BY <3>1 DEF img
  <2>4. Part'
    BY <1>0, <2>1, <2>3 DEF Part
  <2>5. task[t].ok /\ AtMost(task[t].since, task[t].snap) /\ AtMost(owed, task[t].snap)
    BY <1>4, <2>1 DEF Progress
  <2>6. Progress(t)'
    BY <1>1, <1>5, <2>1, <2>3, <2>5 DEF Progress, AtMost
  <2> QED BY <1>6, <2>1, <2>4, <2>6
<1>9. CASE WriteChunk(t)
  <2> DEFINE img == Image(task[t].snap)
             off == task[t].off
  <2>1. /\ task[t].pc = "write" /\ task'[t].ok = task[t].ok /\ task'[t].snap = task[t].snap
        /\ task'[t].off = off + 1 /\ task'[t].pc = IF off = Len(img) THEN "finish" ELSE "write"
        /\ off \in 1 .. Len(img) /\ dump' = WriteAt(dump, off, img[off])
    BY <1>9, WriteEffect DEF SameSave
  <2>2. img \in Seq(ChunkSet) /\ Len(img) \in Nat
    BY <1>0, ImageShape
  <2>3. dump = SubSeq(img, 1, off - 1) /\ task[t].ok /\ AtMost(task[t].since, task[t].snap) /\ AtMost(owed, task[t].snap)
    BY <1>4, <2>1 DEF Progress
  <2>4. dump' = SubSeq(img, 1, off)
    BY <1>0, <2>1, <2>3, WriteNext
  <2>5. CASE off = Len(img)
    <3>1. dump' = img /\ task'[t].pc = "finish"
      <4> HIDE DEF img
      <4> QED BY <2>1, <2>2, <2>4, <2>5
    <3>2. Complete'
      BY <1>0, <1>1, <2>3, <3>1 DEF Complete, AtMost
    <3>3. Progress(t)'
      BY <1>1, <1>5, <2>1, <2>3, <3>1 DEF Progress, AtMost
    <3> QED BY <1>6, <3>1, <3>2, <3>3
  <2>6. CASE off # Len(img)
    <3>1. task'[t].pc = "write" /\ off \in 0 .. Len(img) - 1 /\ (off + 1) - 1 = off
      BY <2>1, <2>2, <2>6
    <3>2. Part'
      BY <1>0, <2>4, <3>1 DEF Part
    <3>3. dump' = SubSeq(Image(task'[t].snap), 1, task'[t].off - 1)
      BY <2>1, <2>4, <3>1
    <3>4. Progress(t)'
      BY <1>1, <1>5, <2>1, <2>3, <3>1, <3>3 DEF Progress, AtMost
    <3> QED BY <1>6, <3>1, <3>2, <3>4
  <2> QED BY <2>5, <2>6
<1>10. CASE SaveIoError(t)
  <2>1. /\ task[t].pc \in {"create", "write"} /\ task'[t].pc = "finish" /\ task'[t].ok = FALSE /\ task'[t].snap = task[t].snap
        /\ dump' = dump
    BY <1>10, ErrorEffect DEF SameSave, SaveIoError
  <2>2. AtMost(task[t].since, task[t].snap) /\ AtMost(owed, task[t].snap)
    BY <1>4, <2>1 DEF Progress
  <2>3. Progress(t)'
    BY <1>1, <1>5, <2>1, <2>2 DEF Progress, AtMost
  <2>4. Complete' \/ Part'
    BY <1>1, <2>1 DEF Orderly, Complete, Part
  <2> QED BY <1>6, <2>1, <2>3, <2>4
<1> QED BY <1>7, <1>8, <1>9, <1>10

\* The end of a save keeps the order of saves.
LEMMA OrderlyFinish ==
    ASSUME Types, Orderly, NEW t \in Tasks, FinishSave(t)
    PROVE  Orderly'
<1>0. /\ mem \in Snapshots /\ owed \in Snapshots /\ task[t].snap \in Snapshots /\ task[t].since \in Snapshots
      /\ task[t].ok \in BOOLEAN
  BY DEF Types, TypeOK
<1>1. /\ SameOthers(t) /\ ~Running(t)' /\ task[t].pc = "finish" /\ Running(t)
      /\ UNCHANGED <<srv, mem, dump>> /\ srv = "up" /\ lastOk' = task[t].ok
  BY EndEffect DEF FinishSave, Running
<1>2. \A u \in Tasks : ~Running(u)'
  BY <1>1 DEF Orderly, OneRuns, SameOthers, Running
<1>3. OneRuns' /\ \A u \in Tasks : Progress(u)'
  BY <1>2, IdleProgressNext DEF OneRuns
<1>4. /\ AtMost(owed, mem) /\ AtMost(task[t].since, mem) /\ AtMost(task[t].since, task[t].snap) /\ AtMost(owed, task[t].snap)
      /\ task[t].ok => dump = Image(task[t].snap)
  BY <1>1 DEF Orderly, Progress
<1>5. AtMost(owed', mem) /\ (task[t].ok => AtMost(owed', task[t].snap)) /\ (~task[t].ok => owed' = owed)
  <2>1. CASE task[t].ok /\ task[t].kind # "queued"
    <3>1. Promise(task[t].since)
      BY <2>1 DEF FinishSave
    <3>2. \A d \in Dbs : owed'[d] = task[t].since[d] \/ owed'[d] = owed[d]
      BY <1>0, <3>1, PromiseType
    <3> QED BY <1>4, <2>1, <3>2 DEF AtMost
  <2>2. CASE ~(task[t].ok /\ task[t].kind # "queued")
    <3>1. owed' = owed
      BY <2>2 DEF FinishSave
    <3> QED BY <1>4, <3>1
  <2> QED BY <2>1, <2>2
<1>6. task[t].ok => Complete'
  BY <1>0, <1>1, <1>4, <1>5 DEF Complete
<1>7. ~task[t].ok => Complete' \/ Part'
  BY <1>1, <1>5 DEF Orderly, Complete, Part
<1>8. (AtMost(owed, mem))'
  BY <1>1, <1>5 DEF AtMost
<1> QED BY <1>0, <1>1, <1>3, <1>6, <1>7, <1>8 DEF Orderly

\* Commands, exits, crashes and start-up keep the order of saves.
LEMMA OrderlyOther ==
    ASSUME Types, Behind, Orderly, OtherStep
    PROVE  Orderly'
<1>0. mem \in Snapshots /\ owed \in Snapshots /\ writes \in Nat /\ \A t \in Tasks : task[t].since \in Snapshots
  BY DEF Types, TypeOK
<1>1. CASE BeginCommand
  BY <1>1 DEF BeginCommand, Orderly, OneRuns, Running, Complete, Part, Progress, AtMost
<1>2. ASSUME NEW e \in Dbs, WriteDb(e) PROVE Orderly'
  <2>1. UNCHANGED <<srv, task, dump, owed, lastOk>> /\ srv = "up" /\ mem' = [mem EXCEPT ![e] = writes]
    BY <1>2 DEF WriteDb
  <2>2. ASSUME NEW s \in Snapshots, AtMost(s, mem) PROVE AtMost(s, mem')
    <3> SUFFICES ASSUME NEW d \in Dbs PROVE s[d] <= mem'[d]
      BY DEF AtMost
    <3>1. s[d] \in Nat /\ mem[d] \in Nat /\ s[d] <= mem[d] /\ mem[d] <= writes
      BY <1>0, <2>2 DEF AtMost, Behind, Snapshots
    <3>2. mem'[d] = mem[d] \/ mem'[d] = writes
      BY <1>0, <2>1 DEF Snapshots
    <3> QED BY <1>0, <3>1, <3>2
  <2>3. (AtMost(owed, mem))'
    BY <1>0, <2>1, <2>2 DEF Orderly
  <2>4. ASSUME NEW t \in Tasks PROVE Progress(t)'
    <3>1. Progress(t) /\ (Running(t)' <=> Running(t))
      BY <2>1 DEF Orderly, Running
    <3>2. Running(t)' => (AtMost(task[t].since, mem))'
      BY <1>0, <2>1, <2>2, <3>1 DEF Progress
    <3> QED BY <2>1, <3>1, <3>2 DEF Progress, AtMost
  <2> QED BY <2>1, <2>3, <2>4 DEF Orderly, OneRuns, Running, Complete, Part
<1>3. CASE Crash
  <2>1. \A u \in Tasks : task'[u] \in {Unasked, Ended}
    BY <1>3 DEF Crash
  <2>2. \A u \in Tasks : ~Running(u)'
    BY <2>1 DEF Running, Unasked, Ended, Asked
  <2> QED BY <1>3, <2>2 DEF Crash, Orderly, OneRuns, Complete, Part
<1>4. CASE LoadStartupData
  <2>1. UNCHANGED <<task, dump, owed, lastOk>> /\ \A u \in Tasks : ~Running(u) /\ ~Running(u)'
    BY <1>4 DEF LoadStartupData, Orderly, Running
  <2>2. OneRuns' /\ (\A u \in Tasks : Progress(u)') /\ (Complete' <=> Complete) /\ (Part' <=> Part)
    BY <2>1, IdleProgressNext DEF OneRuns, Complete, Part
  <2>3. srv' = "up" => AtMost(owed, mem') /\ Complete
    <3> SUFFICES ASSUME srv' = "up" PROVE AtMost(owed, mem') /\ Complete
      OBVIOUS
    <3>1. CASE dump = None
      <4>1. owed = Empty /\ mem' = Empty
        BY <1>4, <3>1, NoneIsNoFile DEF LoadStartupData, Orderly, Complete, Part
      <4> QED BY <3>1, <4>1 DEF Complete, AtMost, Empty
    <3>2. CASE dump # None
      <4>1. Loads(dump) /\ mem' = Loaded(dump)
        BY <1>4, <3>2 DEF LoadStartupData
      <4>2. ~Part
        BY <4>1, PartRefused DEF Part
      <4>3. PICK s \in Snapshots : dump = Image(s) /\ AtMost(owed, s)
        BY <3>2, <4>2 DEF Orderly, Complete
      <4>4. mem' = s
        BY <4>1, <4>3, ImageLoads
      <4> QED BY <4>3, <4>4 DEF Complete
    <3> QED BY <3>1, <3>2
  <2>4. srv' = "up" => (AtMost(owed, mem))'
    BY <2>1, <2>3 DEF AtMost
  <2> QED BY <2>1, <2>2, <2>3, <2>4 DEF Orderly
<1> QED BY <1>1, <1>2, <1>3, <1>4 DEF OtherStep

\* While no saves overlap, every step keeps their order.
LEMMA OrderlyStep == Types /\ FlagOwned /\ Behind /\ (~overlap => Orderly) /\ [Next]_vars => (~overlap => Orderly)'
<1> SUFFICES ASSUME Types, FlagOwned, Behind, ~overlap => Orderly, [Next]_vars, ~overlap' PROVE Orderly'
  OBVIOUS
<1>0. overlap \in BOOLEAN
  BY DEF Types, TypeOK
<1>1. CASE UNCHANGED vars
  BY <1>1 DEF vars, Orderly, OneRuns, Running, Complete, Part, Progress, AtMost
<1>2. CASE OtherStep
  <2>1. ~overlap
    BY <1>2 DEF OtherStep, BeginCommand, WriteDb, Crash, LoadStartupData
  <2> QED BY <1>2, <2>1, OrderlyOther
<1>3. ASSUME NEW t \in Tasks, TaskStep(t) PROVE Orderly'
  <2>1. ~overlap
    BY <1>0, <1>3 DEF TaskStep, StartSave, StartBgsave, SnapshotDb, CreateDump, WriteChunk,
       FinishSave, SaveIoError, ExecQueued
  <2>2. ~ExecQueued(t)
    BY DEF ExecQueued
  <2>3. ASSUME StartBgsave(t) PROVE Orderly'
    <3>1. "bgsave" \in Kinds
      BY <2>3 DEF StartBgsave
    <3> QED BY <2>1, <2>3, <3>1, OrderlyStart
  <2>4. ASSUME NEW k \in Kinds, StartSave(t, k) PROVE Orderly'
    BY <2>1, <2>4, OrderlyStart
  <2> QED BY <1>3, <2>1, <2>2, <2>3, <2>4, OrderlyRunning, OrderlyFinish DEF TaskStep
<1> QED BY <1>1, <1>2, <1>3, NextSplits

\* The invariant holds in the initial state.
LEMMA SaveInvInit == Init => SaveInv
<1> SUFFICES ASSUME Init PROVE SaveInv
  OBVIOUS
<1>1. \A t \in Tasks : task[t].pc = "new" /\ task[t].snap = Empty /\ ~Running(t)
  BY DEF Init, Unasked, Asked, Running
<1>2. \A i \in DOMAIN None : None[i].kind # "eof"
  BY DEF None
<1>3. FlagOwned /\ OneBackground
  BY <1>1 DEF Init, FlagOwned, OneBackground, Background
<1>4. TakenKnown
  BY <1>1, <1>2 DEF Init, TakenKnown
<1>5. Behind
  BY <1>1 DEF Init, Behind, Empty
<1>6. Orderly
  <2>1. AtMost(owed, mem)
    BY DEF Init, AtMost, Empty
  <2>2. Complete
    BY DEF Init, Complete
  <2> QED BY <1>1, <2>1, <2>2, IdleProgress DEF Init, Orderly, OneRuns
<1> QED BY <1>3, <1>4, <1>5, <1>6, TypesInit DEF SaveInv

\* SaveInv is an inductive invariant of RdbSave.
THEOREM SaveInvariance == Spec => []SaveInv
<1>1. SaveInv /\ [Next]_vars => SaveInv'
  BY TypesStep, FlagStep, TakenStep, BehindStep, OrderlyStep DEF SaveInv
<1> QED BY <1>1, SaveInvInit, PTL DEF Spec

\* Every variable keeps its type, the file and what it is loaded into included.
THEOREM TypeCorrect == Spec => []TypeOK
<1>1. SaveInv => TypeOK
  BY DEF SaveInv, Types
<1> QED BY <1>1, SaveInvariance, PTL

\* When no save is under way and the last one succeeded, the dump loads and
\* holds what the acknowledged saves promised (rdb.rs run_save, mod.rs
\* start_bgsave, saver.rs save), as long as no SAVE ran beside another save and
\* none was queued in a MULTI.
THEOREM AcknowledgedSaveOnDisk == Spec => []AckedSaveOnDisk
<1>1. SaveInv => AckedSaveOnDisk
  <2> SUFFICES ASSUME SaveInv, srv = "up", ~overlap, lastOk, ~Saving, owed # Empty
               PROVE  dump # None /\ Loads(dump) /\ \A d \in Dbs : Loaded(dump)[d] >= owed[d]
    BY DEF AckedSaveOnDisk
  <2>1. \A t \in Tasks : task[t].pc \notin {"write", "finish"}
    BY DEF Saving
  <2>2. Complete
    BY <2>1 DEF SaveInv, Orderly
  <2>3. PICK s \in Snapshots : dump = Image(s) /\ AtMost(owed, s)
    BY <2>2 DEF Complete
  <2>4. dump # None /\ Loads(dump) /\ Loaded(dump) = s
    BY <2>3, ImageLoads, NoneIsNoFile
  <2>5. owed \in Snapshots
    BY DEF SaveInv, Types, TypeOK
  <2>6. ASSUME NEW d \in Dbs PROVE s[d] >= owed[d]
    <3>1. s[d] \in Nat /\ owed[d] \in Nat /\ owed[d] <= s[d]
      BY <2>3, <2>5 DEF AtMost, Snapshots
    <3> QED BY <3>1
  <2> QED BY <2>4, <2>6
<1> QED BY <1>1, SaveInvariance, PTL
=============================================================================
