------------------------------ MODULE RdbSave ------------------------------
(***************************************************************************)
(* SAVE and BGSAVE: persistence/rdb.rs (run_save), persistence/mod.rs      *)
(* (start_bgsave, the start-up load without AOF) and persist/rdb/ (saver,  *)
(* loader).  Commands run under the server lock; a save only takes the     *)
(* lock to look at rdb_save_in_progress and to record its result, and      *)
(* copies and writes the databases beside running commands, on another     *)
(* thread of the runtime.                                                  *)
(*                                                                         *)
(* A database is the number of the last command that wrote to it, 0 when   *)
(* empty.  The dump is a sequence of chunks written at each writer's own   *)
(* offset; the last chunk carries the CRC, which identifies the snapshot.  *)
(* A crash is a kill -9: the page cache survives, the process does not.    *)
(***************************************************************************)
EXTENDS Integers, Sequences, Subsequences

CONSTANTS
    NumDbs,      \* databases
    Tasks,       \* the saves that may be asked for, one each
    Kinds,       \* "save", "bgsave" (or SIGUSR1), "queued": SAVE inside a MULTI
    Commands,    \* the sets of databases that commands write to
    MaxWrites,   \* bound: writing commands
    MaxCrashes,  \* bound: crashes
    MaxFaults    \* bound: I/O errors

Dbs   == 0 .. NumDbs - 1

ASSUME DbAssumption    == NumDbs \in Nat \ {0}
ASSUME KindAssumption  == Kinds \subseteq {"save", "bgsave", "queued"}
ASSUME CommandAssumption == Commands \subseteq SUBSET Dbs \ {{}}
ASSUME BoundAssumption == MaxWrites \in Nat /\ MaxCrashes \in Nat /\ MaxFaults \in Nat

VARIABLES
    srv,         \* "up", "off", or "refused": the start-up load failed
    mem,         \* the databases
    writes,      \* commands run so far
    todo,        \* databases the command that holds the lock has yet to write
    inProgress,  \* rdb_save_in_progress
    task,        \* the saves under way
    dump,        \* the chunks of the dump file; None if there is no file
    taken,       \* snapshots taken so far
    owed,        \* what a restart owes to acknowledged saves
    overlap,     \* a SAVE ran beside another save, or was queued in a MULTI
    lastOk,      \* last_rdb_save_status
    crashes, faults

vars == <<srv, mem, writes, todo, inProgress, task, dump, taken, owed, overlap, lastOk, crashes, faults>>

Empty == [d \in Dbs |-> 0]
None  == <<[kind |-> "none", db |-> 0, val |-> Empty]>>
Hole  == [kind |-> "hole", db |-> 0, val |-> Empty]
LockFree == todo = {}

(***************************************************************************)
(* The file format.                                                        *)
(***************************************************************************)
Head1         == [kind |-> "header", db |-> 0, val |-> Empty]
DbChunk(d, s) == [kind |-> "db", db |-> d, val |-> [Empty EXCEPT ![d] = s[d]]]
EofCrc(s)     == [kind |-> "eof", db |-> 0, val |-> s]

\* save_snapshot: the preamble, the databases that are not empty, EOF + CRC64.
Image(s) ==
    LET used == Only([i \in 1 .. NumDbs |-> i - 1], {d \in Dbs : s[d] # 0})
    IN <<Head1>> \o [i \in DOMAIN used |-> DbChunk(used[i], s)] \o <<EofCrc(s)>>

\* A write at an offset of the file, which another writer may have truncated.
WriteAt(f, off, c) ==
    [i \in 1 .. (IF off > Len(f) THEN off ELSE Len(f)) |->
        IF i = off THEN c ELSE IF i <= Len(f) THEN f[i] ELSE Hole]

\* Mutant: the stored CRC is not compared.
MutCrcMatches(f, n) == TRUE

CrcMatches(f, n) == SubSeq(f, 1, n) = Image(f[n].val)

\* load_into reads up to the first EOF opcode and compares the CRC there.
Loads(f) ==
    \E n \in DOMAIN f : /\ f[n].kind = "eof"
                        /\ \A i \in 1 .. n - 1 : f[i].kind \notin {"eof", "hole"}
                        /\ CrcMatches(f, n)

Loaded(f) ==
    LET n == CHOOSE i \in DOMAIN f : f[i].kind = "eof" /\ \A j \in 1 .. i - 1 : f[j].kind # "eof"
    IN [d \in Dbs |-> IF \E i \in 1 .. n : f[i].kind = "db" /\ f[i].db = d
                      THEN LET i == CHOOSE j \in 1 .. n : f[j].kind = "db" /\ f[j].db = d
                           IN f[i].val[d]
                      ELSE 0]

Asked(k, pc) == [kind |-> k, pc |-> pc, db |-> 0, snap |-> Empty, since |-> Empty, off |-> 1, ok |-> TRUE]
Unasked == Asked("none", "new")
Ended   == Asked("none", "done")

Init ==
    /\ srv = "up" /\ mem = Empty /\ writes = 0 /\ todo = {}
    /\ inProgress = FALSE /\ task = [t \in Tasks |-> Unasked] /\ dump = None
    /\ overlap = FALSE /\ taken = {Empty} /\ owed = Empty /\ lastOk = TRUE
    /\ crashes = 0 /\ faults = 0

(***************************************************************************)
(* Commands: a write, or an EXEC whose queue writes to several databases.  *)
(***************************************************************************)
BeginCommand ==
    /\ srv = "up" /\ LockFree /\ writes < MaxWrites
    /\ \E D \in Commands : todo' = D
    /\ writes' = writes + 1
    /\ UNCHANGED <<srv, mem, inProgress, task, dump, taken, owed, overlap, lastOk, crashes, faults>>

WriteDb(d) ==
    /\ srv = "up" /\ d \in todo
    /\ mem' = [mem EXCEPT ![d] = writes]
    /\ todo' = todo \ {d}
    /\ UNCHANGED <<srv, writes, inProgress, task, dump, taken, owed, overlap, lastOk, crashes, faults>>

(***************************************************************************)
(* The saves.                                                              *)
(***************************************************************************)
\* run_save and start_bgsave: both refuse while a background save runs, and
\* only BGSAVE sets the flag.  Queued in a MULTI, SAVE runs when it is queued.
Running(t) == task[t].pc \notin {"new", "queued", "done"}

Started(t, k) == [task EXCEPT ![t] = [Asked(k, "copy") EXCEPT !.since = mem]]

StartSave(t, k) ==
    /\ srv = "up" /\ LockFree /\ task[t].pc = "new" /\ k \in Kinds \cap {"save", "queued"}
    /\ ~inProgress
    /\ task' = Started(t, k)
    /\ overlap' = (overlap \/ \E u \in Tasks : Running(u))
    /\ UNCHANGED <<srv, mem, writes, todo, inProgress, dump, taken, owed, lastOk, crashes, faults>>

\* Mutant: BGSAVE looks at the flag but forgets to set it.
MutMarkInProgress == FALSE

MarkInProgress == TRUE

StartBgsave(t) ==
    /\ srv = "up" /\ LockFree /\ task[t].pc = "new" /\ "bgsave" \in Kinds
    /\ ~inProgress
    /\ inProgress' = MarkInProgress
    /\ task' = Started(t, "bgsave")
    /\ overlap' = (overlap \/ \E u \in Tasks : Running(u) /\ task[u].kind # "bgsave")
    /\ UNCHANGED <<srv, mem, writes, todo, dump, taken, owed, lastOk, crashes, faults>>

LastDb(d) == d = NumDbs - 1

\* snapshot_all: database after database, each under its own read lock.
SnapshotDb(t) ==
    /\ srv = "up" /\ task[t].pc = "copy"
    /\ LET d == task[t].db
           s == [task[t].snap EXCEPT ![d] = mem[d]]
       IN IF LastDb(d)
          THEN /\ task' = [task EXCEPT ![t].snap = s, ![t].pc = "create"]
               /\ taken' = taken \cup {s}
          ELSE /\ task' = [task EXCEPT ![t].snap = s, ![t].db = d + 1]
               /\ UNCHANGED taken
    /\ UNCHANGED <<srv, mem, writes, todo, inProgress, dump, owed, overlap, lastOk, crashes, faults>>

\* saver::save truncates the file in place ...
CreateDump(t) ==
    /\ srv = "up" /\ task[t].pc = "create"
    /\ dump' = <<>>
    /\ task' = [task EXCEPT ![t].pc = "write"]
    /\ UNCHANGED <<srv, mem, writes, todo, inProgress, taken, owed, overlap, lastOk, crashes, faults>>

\* ... and writes it chunk by chunk.
WriteChunk(t) ==
    /\ srv = "up" /\ task[t].pc = "write"
    /\ LET img == Image(task[t].snap) IN
         /\ dump' = WriteAt(dump, task[t].off, img[task[t].off])
         /\ task' = [task EXCEPT ![t].off = @ + 1,
                                 ![t].pc = IF task[t].off = Len(img) THEN "finish" ELSE "write"]
    /\ UNCHANGED <<srv, mem, writes, todo, inProgress, taken, owed, overlap, lastOk, crashes, faults>>

SaveIoError(t) ==
    /\ faults < MaxFaults /\ faults' = faults + 1
    /\ srv = "up" /\ task[t].pc \in {"create", "write"}
    /\ task' = [task EXCEPT ![t].pc = "finish", ![t].ok = FALSE]
    /\ UNCHANGED <<srv, mem, writes, todo, inProgress, dump, taken, owed, overlap, lastOk, crashes>>

\* An acknowledged save promises what memory held when it started.
Promise(s) == owed' = [d \in Dbs |-> IF s[d] > owed[d] THEN s[d] ELSE owed[d]]

\* Mutant: a failed background save leaves the flag set.
MutClearInProgress(t) == inProgress /\ ~task[t].ok

ClearInProgress(t) == IF task[t].kind = "bgsave" THEN FALSE ELSE inProgress

\* The result is recorded; a SAVE is answered OK, one in a MULTI is QUEUED.
FinishSave(t) ==
    /\ srv = "up" /\ LockFree /\ task[t].pc = "finish"
    /\ inProgress' = ClearInProgress(t)
    /\ lastOk' = task[t].ok
    /\ IF task[t].ok /\ task[t].kind # "queued" THEN Promise(task[t].since) ELSE UNCHANGED owed
    /\ task' = [task EXCEPT ![t] = IF task[t].kind = "queued" THEN Asked("queued", "queued") ELSE Ended]
    /\ UNCHANGED <<srv, mem, writes, todo, dump, taken, overlap, crashes, faults>>

\* EXEC of a write and SAVE: cmd_save answers OK and nothing else happens.
ExecQueued(t) ==
    /\ srv = "up" /\ LockFree /\ task[t].pc = "queued" /\ writes < MaxWrites
    /\ ~inProgress
    /\ writes' = writes + 1
    /\ mem' = [mem EXCEPT ![0] = writes + 1]
    /\ Promise(mem') /\ overlap' = TRUE
    /\ task' = [task EXCEPT ![t] = Ended]
    /\ UNCHANGED <<srv, todo, inProgress, dump, taken, lastOk, crashes, faults>>

(***************************************************************************)
(* Crash and start-up.                                                     *)
(***************************************************************************)
Crash ==
    /\ srv = "up" /\ crashes < MaxCrashes
    /\ srv' = "off" /\ crashes' = crashes + 1
    /\ inProgress' = FALSE /\ todo' = {} /\ task' = [t \in Tasks |-> IF task[t] = Unasked THEN Unasked ELSE Ended]
    /\ lastOk' = TRUE
    /\ UNCHANGED <<mem, writes, dump, taken, owed, overlap, faults>>

\* load_startup_data with appendonly no.
LoadStartupData ==
    /\ srv = "off"
    /\ IF dump # None /\ ~Loads(dump)
       THEN srv' = "refused" /\ UNCHANGED mem
       ELSE /\ srv' = "up"
            /\ mem' = IF dump = None THEN Empty ELSE Loaded(dump)
    /\ UNCHANGED <<writes, todo, inProgress, task, dump, taken, owed, overlap, lastOk, crashes, faults>>

SaveStep(t) == SnapshotDb(t) \/ CreateDump(t) \/ WriteChunk(t) \/ FinishSave(t)

Next ==
    \/ BeginCommand
    \/ \E d \in Dbs : WriteDb(d)
    \/ \E t \in Tasks : \/ \E k \in Kinds : StartSave(t, k)
                        \/ StartBgsave(t) \/ SaveStep(t)
                        \/ SaveIoError(t) \/ ExecQueued(t)
    \/ Crash
    \/ LoadStartupData

Spec == Init /\ [][Next]_vars

(***************************************************************************)
(* Properties.                                                             *)
(***************************************************************************)
Snapshots == [Dbs -> 0 .. MaxWrites]
ChunkSet  == [kind : {"header", "db", "eof", "hole"}, db : Dbs, val : Snapshots]

\* Every variable keeps its type.
TypeOK ==
    /\ srv \in {"up", "off", "refused"}
    /\ mem \in Snapshots /\ owed \in Snapshots
    /\ writes \in 0 .. MaxWrites /\ todo \subseteq Dbs
    /\ inProgress \in BOOLEAN /\ lastOk \in BOOLEAN
    /\ task \in [Tasks -> [kind : Kinds \cup {"none"}, pc : {"new", "copy", "create", "write", "finish", "queued", "done"}, db : Dbs,
                           snap : Snapshots, since : Snapshots, off : Nat, ok : BOOLEAN]]
    /\ dump = None \/ dump \in Seq(ChunkSet)
    /\ overlap \in BOOLEAN /\ taken \subseteq Snapshots
    /\ crashes \in 0 .. MaxCrashes /\ faults \in 0 .. MaxFaults

Saving == \E t \in Tasks : task[t].pc \in {"create", "write", "finish"}

\* A dump that was cut short or that two saves wrote into at the same time is
\* never loaded as data: what a restart loads is one of the snapshots taken.
NeverLoadsMixture == [][srv = "off" /\ srv' = "up" => mem' \in taken]_vars

\* When no save is under way and the last one succeeded, the dump loads and
\* holds everything that the acknowledged saves promised, as long as no SAVE
\* ran beside another save (SAVE does not set rdb_save_in_progress) and none
\* was queued in a MULTI (it runs when it is queued).
AckedSaveOnDisk ==
    srv = "up" /\ ~overlap /\ lastOk /\ ~Saving /\ owed # Empty =>
        /\ dump # None /\ Loads(dump)
        /\ \A d \in Dbs : Loaded(dump)[d] >= owed[d]

\* A restart after a kill -9 finds what was acknowledged as saved
\* (docs/operations.md: the loss window is everything since the last SAVE).
RestartKeepsSaved ==
    /\ srv = "refused" => owed = Empty
    /\ srv = "up" => \A d \in Dbs : mem[d] >= owed[d]

\* rdb_save_in_progress is set exactly while a background save is under way:
\* no failure or crash leaves it set, which would refuse every later save,
\* and none clears it under a save that still writes.
FlagOwned == inProgress <=> \E t \in Tasks : Running(t) /\ task[t].kind = "bgsave"
=============================================================================
