---------------------------- MODULE AofPipeline ----------------------------
(***************************************************************************)
(* The append-only file from a client's write to the bytes a restart reads *)
(* back: client/execution.rs and event_loop.rs (who hold the server lock   *)
(* while they wait for the AOF worker), persistence/{mod,aof}.rs (the      *)
(* bounded queue, the worker, the BASE switch, start-up) and persist/aof/  *)
(* (the buffered writer, its fsync policy, the manifest, recovery).        *)
(*                                                                         *)
(* A write or a MULTI/EXEC block is a unit, numbered in the order the      *)
(* units run.  A database is the set of units applied to it, so a lost,    *)
(* repeated or misplaced unit shows.  A file is a sequence of RESP frames  *)
(* of which the first synced ones survive any crash; a crash keeps some    *)
(* prefix of the others and may tear the frame behind it.                  *)
(***************************************************************************)
EXTENDS Integers, Sequences

CONSTANTS
    QueueCap,     \* RATATOSK_AOF_QUEUE_CAPACITY
    TxUnits,      \* the units that are MULTI/EXEC blocks
    DbOf,         \* the database each unit writes to
    Policies,     \* bound: the appendfsync values used
    MaxUnits,     \* bound: units executed
    MaxSeq,       \* bound: next_seq of the manifest
    MaxRestarts,  \* bound: crashes and orderly stops
    MaxFaults     \* bound: I/O errors

Units == 1 .. MaxUnits
Dbs   == {0, 1}
NoDb  == -1
Files == 1 .. MaxSeq

ASSUME CapAssumption  == QueueCap \in Nat \ {0}
ASSUME UnitAssumption == MaxUnits \in Nat /\ TxUnits \subseteq Units /\ DbOf \in [Units -> Dbs]
ASSUME PolicyAssumption == Policies \subseteq {"always", "everysec", "no"}
ASSUME BoundAssumption == MaxSeq \in Nat \ {0} /\ MaxRestarts \in Nat /\ MaxFaults \in Nat

VARIABLES
    srv,      \* where the server is between process start and its end
    mem,      \* units applied to memory; while down, what memory held
    next,     \* the next unit's number
    acked,    \* units acknowledged after they were appended
    safe,     \* units the durability contract promises to keep
    enabled,  \* aof_enabled: a writer is live
    latched,  \* aof_last_error is set
    holder,   \* the task holding the server lock and its AOF request
    queue,    \* the worker's command channel
    wpc,      \* the worker's step
    cur,      \* the command the worker is at
    wres,     \* its result so far
    wfile,    \* the worker's file
    wdb,      \* AofWriter.current_db
    policy,   \* AofWriter.policy
    buf,      \* frames in the BufWriter
    mat,      \* materialize_aof_base in progress
    man,      \* the manifest on disk
    files,    \* files that exist
    os,       \* frames handed to the operating system, per file
    synced,   \* how many of them an fsync has covered
    restarts,
    faults

client == <<mem, next, acked, safe, enabled, latched, holder>>
worker == <<queue, wpc, cur, wres, wfile, wdb, policy, buf>>
disk   == <<man, files, os, synced>>
counts == <<restarts, faults>>
vars   == <<srv, client, worker, mat, disk, counts>>

(***************************************************************************)
(* Frames and files.                                                       *)
(***************************************************************************)
Frame(k, a) == [kind |-> k, arg |-> a]
Header == Frame("header", 0)
Torn   == Frame("torn", 0)
Kinds  == {"header", "select", "multi", "cmd", "exec", "torn"}

\* append_command_at and append_transaction_at, before the fsync: a SELECT
\* when the writer's database differs, inside the envelope of a transaction.
Select(u) == IF wdb = DbOf[u] THEN <<>> ELSE <<Frame("select", DbOf[u])>>
Record(u) ==
    IF u \in TxUnits
    THEN <<Frame("multi", u)>> \o Select(u) \o <<Frame("cmd", u), Frame("exec", u)>>
    ELSE Select(u) \o <<Frame("cmd", u)>>

\* Frame i of c is queued in a MULTI that no EXEC before it has closed.
InMulti(c, i) ==
    \E j \in 1 .. i - 1 : /\ c[j].kind = "multi"
                          /\ \A l \in j .. i - 1 : c[l].kind # "exec"

\* The units replay applies: commands outside MULTI, and queued ones whose
\* EXEC is there.
Applied(c) ==
    {c[i].arg : i \in {j \in DOMAIN c :
        /\ c[j].kind = "cmd"
        /\ InMulti(c, j) => \E l \in j .. Len(c) : c[l].kind = "exec"}}

\* The frames of c that decode and run without an error reply: all but a
\* torn last one.
Whole(c) == IF c # <<>> /\ c[Len(c)].kind = "torn" THEN Len(c) - 1 ELSE Len(c)

\* replay_reader refuses damage with data behind it, and failing commands.
Damaged(c) ==
    \/ \E i \in 1 .. Whole(c) : c[i].kind = "torn"
    \/ \E i \in 1 .. Whole(c) : c[i].kind = "multi" /\ InMulti(c, i)
    \/ \E i \in 1 .. Whole(c) : c[i].kind = "exec" /\ ~InMulti(c, i)

\* The verified committed prefix: up to the torn frame, or to the start of
\* the transaction the file ends in.
Cut(c) ==
    IF InMulti(c, Whole(c) + 1)
    THEN CHOOSE k \in 0 .. Whole(c) - 1 :
            /\ c[k + 1].kind = "multi"
            /\ \A i \in k + 2 .. Whole(c) : c[i].kind # "multi"
    ELSE Whole(c)

\* AofWriter::open refuses a file that does not start with a whole header.
BadHeader(f) == os[f] # <<>> /\ os[f][1] # Header

NoManifest == [base |-> {}, incr |-> 0, next |-> 1]
NoCmd      == [op |-> "none", u |-> 0, snap |-> {}, p |-> "always"]
NoMat      == [pc |-> "none", by |-> "worker", snap |-> {}]
Free       == [st |-> "free", cmd |-> NoCmd, then |-> FALSE]

Cmd(o)        == [NoCmd EXCEPT !.op = o]
AppendCmd(u)  == [Cmd("append") EXCEPT !.u = u]
RewriteCmd(s) == [Cmd("rewrite") EXCEPT !.snap = s]
PolicyCmd(p)  == [Cmd("policy") EXCEPT !.p = p]
Send(c)       == [st |-> "send", cmd |-> c, then |-> FALSE]

Init ==
    /\ srv = "off"
    /\ mem = {} /\ next = 1 /\ acked = {} /\ safe = {}
    /\ enabled = FALSE /\ latched = FALSE /\ holder = Free
    /\ queue = <<>> /\ wpc = "none" /\ cur = NoCmd /\ wres = "ok"
    /\ wfile = 1 /\ wdb = NoDb /\ policy = "always" /\ buf = <<>>
    /\ mat = NoMat
    /\ man = NoManifest /\ files = {}
    /\ os = [f \in Files |-> <<>>] /\ synced = [f \in Files |-> 0]
    /\ restarts = 0 /\ faults = 0

(***************************************************************************)
(* Start-up with appendonly yes: bootstrap_aof_layout, the writer, replay. *)
(***************************************************************************)
BootstrapAofLayout ==
    /\ srv = "off"
    /\ IF man = NoManifest
       THEN srv' = "boot" /\ man' = [base |-> {}, incr |-> 1, next |-> 2]
       ELSE /\ srv' = IF man.incr \in files THEN "boot" ELSE "refused"
            /\ UNCHANGED man
    /\ UNCHANGED <<client, worker, mat, files, os, synced, counts>>

\* AofWriter::open and spawn_aof_worker; the header of a new file is buffered.
OpenWriter(p) ==
    /\ srv = "boot"
    /\ IF BadHeader(man.incr)
       THEN srv' = "refused" /\ UNCHANGED <<files, worker>>
       ELSE /\ srv' = "open"
            /\ files' = files \cup {man.incr}
            /\ wfile' = man.incr /\ wdb' = NoDb /\ policy' = p
            /\ buf' = IF os[man.incr] = <<>> THEN <<Header>> ELSE <<>>
            /\ queue' = <<>> /\ wpc' = "idle" /\ cur' = NoCmd /\ wres' = "ok"
    /\ UNCHANGED <<client, mat, man, os, synced, counts>>

\* load_startup_data: the BASE, then the file still being appended to, whose
\* torn tail is cut off before any write is admitted.
LoadStartupData ==
    /\ srv = "open"
    /\ LET c == os[man.incr] IN
       IF Damaged(c)
       THEN srv' = "refused" /\ UNCHANGED <<client, os, synced>>
       ELSE /\ srv' = "up"
            /\ os' = [os EXCEPT ![man.incr] = SubSeq(c, 1, Cut(c))]
            /\ synced' = IF Cut(c) < Len(c)
                         THEN [synced EXCEPT ![man.incr] = Cut(c)] ELSE synced
            /\ mem' = man.base \cup Applied(SubSeq(c, 1, Cut(c)))
            /\ acked' = acked \cap mem'
            /\ enabled' = TRUE /\ latched' = FALSE /\ holder' = Free
            /\ UNCHANGED <<next, safe>>
    /\ UNCHANGED <<worker, mat, man, files, counts>>

(***************************************************************************)
(* Clients and timers.  All of them run under the server lock, and keep it *)
(* until the worker has answered or the wait has timed out.                *)
(***************************************************************************)
Unlocked == srv = "up" /\ holder = Free /\ mat.by # "enable"

\* run_with_blocking_retry rejects a write while a failure is latched.
Admitted == ~(enabled /\ latched)

\* A write, or EXEC of queued writes, on a live or an absent writer.  With
\* off, the EXEC also holds CONFIG SET appendonly no.
Execute(off) ==
    /\ Unlocked /\ Admitted /\ next \in Units
    /\ off => enabled /\ next \in TxUnits
    /\ mem' = mem \cup {next}
    /\ next' = next + 1
    /\ holder' = IF enabled THEN [Send(AppendCmd(next)) EXCEPT !.then = off] ELSE Free
    /\ UNCHANGED <<srv, acked, safe, enabled, latched, worker, mat, disk, counts>>

\* flush_everysec_persistence, once a second.
FlushEverysec ==
    /\ Unlocked /\ enabled /\ policy = "everysec"
    /\ holder' = Send(Cmd("flush"))
    /\ UNCHANGED <<srv, mem, next, acked, safe, enabled, latched, worker, mat, disk, counts>>

\* Mutant: the worker snapshots memory when it gets to the rewrite.
MutRewriteBase == mem

\* The snapshot a rewrite materializes is the one taken when it was queued.
RewriteBase == cur.snap

\* aof_rewrite_in_progress, at least until the worker is done with it.
RewriteInProgress == cur.op = "rewrite" \/ \E i \in DOMAIN queue : queue[i].op = "rewrite"

\* start_bgrewriteaof: snapshot and enqueue under the lock.
StartBgRewriteAof ==
    /\ Unlocked /\ enabled /\ ~RewriteInProgress /\ man.next + 1 \in Files
    /\ holder' = Send(RewriteCmd(mem))
    /\ UNCHANGED <<srv, mem, next, acked, safe, enabled, latched, worker, mat, disk, counts>>

\* CONFIG SET appendonly no, CONFIG SET appendfsync and SHUTDOWN.
DisableAof ==
    /\ Unlocked /\ enabled
    /\ holder' = Send(Cmd("disable"))
    /\ UNCHANGED <<srv, mem, next, acked, safe, enabled, latched, worker, mat, disk, counts>>

SetAofFsyncPolicy(p) ==
    /\ Unlocked /\ p # policy
    /\ IF enabled
       THEN holder' = Send(PolicyCmd(p)) /\ UNCHANGED policy
       ELSE policy' = p /\ UNCHANGED holder
    /\ UNCHANGED <<srv, mem, next, acked, safe, enabled, latched, queue, wpc, cur, wres, wfile,
                   wdb, buf, mat, disk, counts>>

ShutdownAofForExit ==
    /\ Unlocked /\ enabled /\ restarts < MaxRestarts
    /\ holder' = Send(Cmd("exit"))
    /\ UNCHANGED <<srv, mem, next, acked, safe, enabled, latched, worker, mat, disk, counts>>

\* drain_client_tasks: the grace period of a shutdown ends, the task that waits
\* for the worker is aborted with its write in memory, and the final flush
\* follows.  What it had sent stays in the channel.
AbortClientTask ==
    /\ srv = "up" /\ restarts < MaxRestarts
    /\ holder.cmd.op \in {"append", "rewrite", "policy", "disable"}
    /\ holder' = Send(Cmd("exit"))
    /\ UNCHANGED <<srv, mem, next, acked, safe, enabled, latched, worker, mat, disk, counts>>

\* CONFIG SET appendonly yes without a writer; with write, in an EXEC behind
\* a queued write, which the snapshot then holds.
EnableAofFromSnapshot(write) ==
    /\ Unlocked /\ ~enabled /\ man.next + 1 \in Files
    /\ write => next \in TxUnits
    /\ mem' = IF write THEN mem \cup {next} ELSE mem
    /\ next' = IF write THEN next + 1 ELSE next
    /\ mat' = [pc |-> "open", by |-> "enable", snap |-> mem']
    /\ UNCHANGED <<srv, acked, safe, enabled, latched, holder, worker, disk, counts>>

\* Mutant: an unbounded channel.
MutHasRoom == TRUE

HasRoom == Len(queue) < QueueCap

\* The request enters the channel; nobody waits for a rewrite.
Enqueue ==
    /\ srv = "up" /\ holder.st = "send" /\ HasRoom
    /\ queue' = Append(queue, holder.cmd)
    /\ holder' = IF holder.cmd.op = "rewrite" THEN Free ELSE [holder EXCEPT !.st = "await"]
    /\ UNCHANGED <<srv, mem, next, acked, safe, enabled, latched, wpc, cur, wres, wfile, wdb,
                   policy, buf, mat, disk, counts>>

\* Mutant: a write that could not be queued is forgotten.
MutLatchOnTimeout(op) == latched

\* A failed append or periodic flush stops further writes.
LatchOnTimeout(op) == latched \/ op \in {"append", "flush"}

\* AOF_APPEND_QUEUE_TIMEOUT: the request never entered the channel.
EnqueueTimeout ==
    /\ srv = "up" /\ holder.st = "send" /\ ~HasRoom
    /\ holder.cmd.op # "exit"
    /\ latched' = LatchOnTimeout(holder.cmd.op)
    /\ holder' = Free
    /\ UNCHANGED <<srv, mem, next, acked, safe, enabled, worker, mat, disk, counts>>

\* The reply timeouts of append and flush: the worker still has the request.
\* The others wait for the definitive result.
ReplyTimeout ==
    /\ srv = "up" /\ holder.st = "await" /\ holder.cmd.op \in {"append", "flush"}
    /\ latched' = TRUE
    /\ holder' = Free
    /\ UNCHANGED <<srv, mem, next, acked, safe, enabled, worker, mat, disk, counts>>

\* append_durability_effects_while_locked after append_aof_effects; an EXEC
\* that also switches the AOF off goes on to disable_aof.
AppendDone ==
    /\ srv = "up" /\ holder.st \in {"ok", "err"} /\ holder.cmd.op = "append"
    /\ IF holder.st = "ok"
       THEN /\ acked' = acked \cup {holder.cmd.u}
            /\ safe' = IF policy = "always" THEN safe \cup {holder.cmd.u} ELSE safe
            /\ holder' = IF holder.then THEN Send(Cmd("disable")) ELSE Free
            /\ UNCHANGED latched
       ELSE /\ latched' = TRUE /\ holder' = Free
            /\ UNCHANGED <<acked, safe>>
    /\ UNCHANGED <<srv, mem, next, enabled, worker, mat, disk, counts>>

FlushDone ==
    /\ srv = "up" /\ holder.st \in {"ok", "err"} /\ holder.cmd.op = "flush"
    /\ safe' = IF holder.st = "ok" THEN safe \cup acked ELSE safe
    /\ latched' = (latched \/ holder.st = "err")
    /\ holder' = Free
    /\ UNCHANGED <<srv, mem, next, acked, enabled, worker, mat, disk, counts>>

PolicyDone ==
    /\ srv = "up" /\ holder.st \in {"ok", "err"} /\ holder.cmd.op = "policy"
    /\ holder' = Free
    /\ UNCHANGED <<srv, mem, next, acked, safe, enabled, latched, worker, mat, disk, counts>>

\* The worker has exited, whether its last fsync succeeded or not.
DisableDone ==
    /\ srv = "up" /\ holder.st \in {"ok", "err"} /\ holder.cmd.op = "disable"
    /\ safe' = IF holder.st = "ok" THEN safe \cup acked ELSE safe
    /\ enabled' = FALSE
    /\ holder' = Free
    /\ UNCHANGED <<srv, mem, next, acked, latched, worker, mat, disk, counts>>

\* An orderly stop: the process ends with its files in the page cache.  After
\* an aborted CONFIG SET appendonly no the worker may be gone already, which
\* the sender is told at once.
ExitDone ==
    /\ srv = "up" /\ holder.cmd.op = "exit"
    /\ holder.st \in {"ok", "err"} \/ wpc = "none"
    /\ srv' = "off"
    /\ safe' = IF holder.st = "ok" THEN safe \cup acked ELSE safe
    /\ enabled' = FALSE /\ holder' = Free
    /\ restarts' = restarts + 1
    /\ UNCHANGED <<mem, next, acked, latched, worker, mat, disk, faults>>

(***************************************************************************)
(* The worker.                                                             *)
(***************************************************************************)
\* Mutant: the policy always flushes without an fsync.
MutFsyncSteps(p) == {"flush"}

\* maybe_fsync: always flushes and syncs, everysec when a second has passed,
\* no only flushes.
FsyncSteps(p) == IF p = "always" THEN {"flushsync"}
                 ELSE IF p = "no" THEN {"flush"}
                 ELSE {"flushsync", "reply"}

\* The next command is received; an append fills the BufWriter, which hands
\* on what does not fit.
WorkerAppend ==
    /\ wpc = "idle" /\ queue # <<>> /\ Head(queue).op = "append"
    /\ LET u == Head(queue).u
           b == buf \o Record(u)
       IN \E k \in {0, Len(buf), Len(b) - 1} :
            /\ k <= Len(b)
            /\ os' = [os EXCEPT ![wfile] = @ \o SubSeq(b, 1, k)]
            /\ buf' = SubSeq(b, k + 1, Len(b))
            /\ wdb' = DbOf[u]
    /\ wpc' \in FsyncSteps(policy)
    /\ cur' = Head(queue) /\ queue' = Tail(queue)
    /\ UNCHANGED <<srv, client, wres, wfile, policy, mat, man, files, synced, counts>>

\* A failed write leaves a part of the record behind, torn or not.
WorkerAppendError ==
    /\ faults < MaxFaults /\ faults' = faults + 1
    /\ wpc = "idle" /\ queue # <<>> /\ Head(queue).op = "append"
    /\ LET r == Record(Head(queue).u) IN
       \E k \in 0 .. Len(r) - 1, t \in {<<>>, <<Torn>>} :
            /\ buf' = buf \o SubSeq(r, 1, k) \o t
            /\ wdb' = IF \E i \in 1 .. k : r[i].kind = "select"
                      THEN DbOf[Head(queue).u] ELSE wdb
    /\ wpc' = "reply" /\ wres' = "err"
    /\ cur' = Head(queue) /\ queue' = Tail(queue)
    /\ UNCHANGED <<srv, client, wfile, policy, mat, disk, restarts>>

\* Flush, Rewrite and Shutdown start with a forced fsync.
WorkerForceFsync ==
    /\ wpc = "idle" /\ queue # <<>>
    /\ Head(queue).op \in {"flush", "rewrite", "disable", "exit"}
    /\ wpc' = "flushsync"
    /\ cur' = Head(queue) /\ queue' = Tail(queue)
    /\ UNCHANGED <<srv, client, wres, wfile, wdb, policy, buf, mat, disk, counts>>

WorkerSetPolicy ==
    /\ wpc = "idle" /\ queue # <<>> /\ Head(queue).op = "policy"
    /\ policy' = Head(queue).p
    /\ wpc' = "reply"
    /\ cur' = Head(queue) /\ queue' = Tail(queue)
    /\ UNCHANGED <<srv, client, wres, wfile, wdb, buf, mat, disk, counts>>

WorkerFlush ==
    /\ wpc \in {"flushsync", "flush"}
    /\ os' = [os EXCEPT ![wfile] = @ \o buf]
    /\ buf' = <<>>
    /\ wpc' = IF wpc = "flushsync" THEN "sync" ELSE "reply"
    /\ UNCHANGED <<srv, client, queue, cur, wres, wfile, wdb, policy, mat, man, files, synced, counts>>

WorkerSync ==
    /\ wpc = "sync"
    /\ synced' = [synced EXCEPT ![wfile] = Len(os[wfile])]
    /\ IF cur.op = "rewrite"
       THEN wpc' = "mat" /\ mat' = [pc |-> "open", by |-> "worker", snap |-> RewriteBase]
       ELSE wpc' = "reply" /\ UNCHANGED mat
    /\ UNCHANGED <<srv, client, queue, cur, wres, wfile, wdb, policy, buf, man, files, os, counts>>

\* A failing flush has written a part of the buffer and keeps the rest; a
\* failing fsync leaves everything as it was.
WorkerIoError ==
    /\ faults < MaxFaults /\ faults' = faults + 1
    /\ wpc \in {"flushsync", "flush", "sync"}
    /\ \E k \in 0 .. Len(buf) :
         /\ os' = [os EXCEPT ![wfile] = @ \o SubSeq(buf, 1, k)]
         /\ buf' = SubSeq(buf, k + 1, Len(buf))
    /\ wpc' = "reply" /\ wres' = "err"
    /\ UNCHANGED <<srv, client, queue, cur, wfile, wdb, policy, mat, man, files, synced, restarts>>

\* Shutdown ends the worker, whose dropped BufWriter tries to write the rest.
DropWriter ==
    IF cur.op \in {"disable", "exit"}
    THEN /\ wpc' = "none" /\ buf' = <<>>
         /\ \E k \in {0, Len(buf)} : os' = [os EXCEPT ![wfile] = @ \o SubSeq(buf, 1, k)]
    ELSE wpc' = "idle" /\ UNCHANGED <<buf, os>>

\* Mutant: only successes are answered.
MutAnswered == queue = <<>> /\ holder.st = "await" /\ wres = "ok"

\* The lock holder still waits for the reply, which is the one to the last
\* command sent.
Answered == queue = <<>> /\ holder.st = "await"

WorkerReply ==
    /\ wpc = "reply"
    /\ holder' = IF Answered THEN [holder EXCEPT !.st = wres] ELSE holder
    /\ wres' = "ok" /\ cur' = NoCmd
    /\ DropWriter
    /\ UNCHANGED <<srv, mem, next, acked, safe, enabled, latched, queue, wfile, wdb, policy,
                   mat, man, files, synced, counts>>

(***************************************************************************)
(* materialize_aof_base: a BASE snapshot, a fresh INCR file, the manifest. *)
(***************************************************************************)
NextIncr == man.next + 1

\* The rewrite fails: the old file stays the worker's; a failed enable
\* leaves the AOF off.
GiveUp ==
    /\ mat' = NoMat
    /\ IF mat.by = "worker" THEN wpc' = "reply" /\ wres' = "err" ELSE UNCHANGED <<wpc, wres>>

\* save_atomic of the BASE, then AofWriter::open of the new INCR file, which
\* may be left over from a failed attempt.
MaterializeOpen ==
    /\ mat.pc = "open"
    /\ IF BadHeader(NextIncr)
       THEN GiveUp /\ UNCHANGED <<files, os>>
       ELSE /\ mat' = [mat EXCEPT !.pc = "sync"]
            /\ files' = files \cup {NextIncr}
            /\ os' = [os EXCEPT ![NextIncr] = <<Header>>]
            /\ UNCHANGED <<wpc, wres>>
    /\ UNCHANGED <<srv, client, queue, cur, wfile, wdb, policy, buf, man, synced, counts>>

\* Mutant: the new file is not forced to disk before the switch.
MutSyncNew == synced

SyncNew == [synced EXCEPT ![NextIncr] = Len(os[NextIncr])]

MaterializeSync ==
    /\ mat.pc = "sync"
    /\ synced' = SyncNew
    /\ mat' = [mat EXCEPT !.pc = "commit"]
    /\ UNCHANGED <<srv, client, worker, man, files, os, counts>>

MaterializeError ==
    /\ mat.pc # "none" /\ faults < MaxFaults /\ faults' = faults + 1
    /\ GiveUp
    /\ UNCHANGED <<srv, client, queue, cur, wfile, wdb, policy, buf, disk, restarts>>

\* Mutant: the reopened writer believes in the old file's database.
MutReopenedDb == wdb

\* A reopened writer knows no database.
ReopenedDb == NoDb

\* commit_manifest_switch, and the writer moves to the new file.
CommitManifestSwitch ==
    /\ mat.pc = "commit"
    /\ man' = [base |-> mat.snap, incr |-> NextIncr, next |-> NextIncr + 1]
    /\ wfile' = NextIncr /\ wdb' = ReopenedDb /\ buf' = <<>>
    /\ mat' = NoMat
    /\ UNCHANGED <<srv, mem, next, acked, holder, cur, policy, files, os, synced, counts>>
    /\ IF mat.by = "worker"
       THEN wpc' = "reply" /\ UNCHANGED <<safe, enabled, latched, queue, wres>>
       ELSE /\ wpc' = "idle" /\ queue' = <<>> /\ wres' = "ok"
            /\ enabled' = TRUE /\ latched' = FALSE
            /\ safe' = safe \cup mat.snap

(***************************************************************************)
(* A crash: the process is killed or the machine loses power.              *)
(***************************************************************************)
\* What may be left of file f: its synced frames, some of the others, and
\* perhaps a torn one.
Leftovers(f) ==
    LET all == os[f] \o (IF f = wfile THEN buf ELSE <<>>) IN
    {SubSeq(os[f], 1, k) : k \in synced[f] .. Len(os[f])} \cup
    {Append(SubSeq(os[f], 1, k), Torn) : k \in {j \in synced[f] .. Len(os[f]) : j < Len(all)}}

Crash ==
    /\ srv \in {"boot", "open", "up"} /\ restarts < MaxRestarts
    /\ srv' = "off"
    /\ restarts' = restarts + 1
    /\ \E c \in Leftovers(man.incr) :
         IF mat.pc \in {"sync", "commit"}
         THEN \E d \in Leftovers(NextIncr) :
                os' = [os EXCEPT ![man.incr] = c, ![NextIncr] = d]
         ELSE os' = [os EXCEPT ![man.incr] = c]
    /\ enabled' = FALSE /\ latched' = FALSE /\ holder' = Free
    /\ queue' = <<>> /\ wpc' = "none" /\ cur' = NoCmd /\ wres' = "ok"
    /\ wdb' = NoDb /\ buf' = <<>> /\ mat' = NoMat
    /\ UNCHANGED <<mem, next, acked, safe, wfile, policy, man, files, synced, faults>>

ClientStep ==
    \/ \E off \in BOOLEAN : Execute(off)
    \/ FlushEverysec
    \/ StartBgRewriteAof
    \/ DisableAof
    \/ \E p \in Policies : SetAofFsyncPolicy(p)
    \/ ShutdownAofForExit
    \/ AbortClientTask
    \/ \E w \in BOOLEAN : EnableAofFromSnapshot(w)

HolderStep ==
    \/ Enqueue
    \/ EnqueueTimeout
    \/ ReplyTimeout
    \/ AppendDone
    \/ FlushDone
    \/ PolicyDone
    \/ DisableDone
    \/ ExitDone

WorkerStep ==
    \/ WorkerAppend
    \/ WorkerAppendError
    \/ WorkerForceFsync
    \/ WorkerSetPolicy
    \/ WorkerFlush
    \/ WorkerSync
    \/ WorkerIoError
    \/ WorkerReply
    \/ MaterializeOpen
    \/ MaterializeSync
    \/ MaterializeError
    \/ CommitManifestSwitch

StartStep ==
    \/ BootstrapAofLayout
    \/ \E p \in Policies : OpenWriter(p)
    \/ LoadStartupData

Next == ClientStep \/ HolderStep \/ WorkerStep \/ StartStep \/ Crash

Spec == Init /\ [][Next]_vars

\* Tasks and the worker run when they can; disk operations return.  No
\* fairness for clients, timeouts, faults and crashes.
HolderProgress == Enqueue \/ AppendDone \/ FlushDone \/ PolicyDone \/ DisableDone \/ ExitDone

FairSpec == Spec /\ WF_vars(HolderProgress) /\ WF_vars(WorkerStep)

(***************************************************************************)
(* Properties.                                                             *)
(***************************************************************************)
FrameSet == [kind : Kinds, arg : Nat]
CmdSet   == [op : {"none", "append", "flush", "rewrite", "policy", "disable", "exit"},
             u : 0 .. MaxUnits, snap : SUBSET Units, p : {"always", "everysec", "no"}]

\* Every variable keeps its type; the fsynced part of a file is part of it.
TypeOK ==
    /\ srv \in {"off", "boot", "open", "up", "refused"}
    /\ mem \subseteq Units /\ acked \subseteq Units /\ safe \subseteq Units
    /\ next \in 1 .. MaxUnits + 1
    /\ enabled \in BOOLEAN /\ latched \in BOOLEAN
    /\ holder \in [st : {"free", "send", "await", "ok", "err"}, cmd : CmdSet, then : BOOLEAN]
    /\ queue \in Seq(CmdSet) /\ Len(queue) <= QueueCap
    /\ wpc \in {"none", "idle", "flushsync", "flush", "sync", "reply", "mat"}
    /\ cur \in CmdSet /\ wres \in {"ok", "err"}
    /\ wfile \in Files /\ wdb \in Dbs \cup {NoDb} /\ policy \in {"always", "everysec", "no"}
    /\ buf \in Seq(FrameSet)
    /\ mat \in [pc : {"none", "open", "sync", "commit"}, by : {"worker", "enable"}, snap : SUBSET Units]
    /\ man.base \subseteq Units /\ man.incr \in 0 .. MaxSeq /\ man.next \in 1 .. MaxSeq + 1
    /\ files \subseteq Files
    /\ os \in [Files -> Seq(FrameSet)]
    /\ synced \in [Files -> Nat] /\ \A f \in Files : synced[f] <= Len(os[f])

\* The log a restart would read if nothing more were lost, and its commands.
Lineage == IF man = NoManifest THEN <<>>
           ELSE os[man.incr] \o (IF wfile = man.incr THEN buf ELSE <<>>)
Commands == {i \in DOMAIN Lineage : Lineage[i].kind = "cmd"}

\* The records of the INCR file follow the order in which the writes ran, and
\* all of them ran after the snapshot of the BASE: replay neither reorders
\* writes nor applies one twice, across rewrites, retries and restarts.
LogOrdered ==
    /\ \A i, j \in Commands : i < j => Lineage[i].arg < Lineage[j].arg
    /\ \A i \in Commands, u \in man.base : u < Lineage[i].arg

\* Every record is replayed in the database it ran in: the last SELECT before
\* it names that database, whatever files were switched or cut in between.
RightDb ==
    \A i \in Commands :
        \E j \in 1 .. i - 1 :
            /\ Lineage[j] = Frame("select", DbOf[Lineage[i].arg])
            /\ \A l \in j + 1 .. i : Lineage[l].kind # "select"

\* When no request is under way, every applied write is in the BASE, in the
\* log or on its way there, or writes are latched: a failed or timed-out
\* append never leaves a hole that later writes are logged behind.
NoHoleInLog ==
    srv = "up" /\ enabled /\ holder = Free /\ ~latched =>
        \A u \in mem : \/ u \in man.base
                       \/ \E i \in Commands : Lineage[i].arg = u
                       \/ \E i \in DOMAIN queue : queue[i].op = "append" /\ queue[i].u = u

\* Start-up is refused only if no write was ever promised: no crash can put
\* a durable write behind a file that recovery rejects.
RefusedOnlyWhenNothingPromised == srv = "refused" => safe = {}

\* The pipeline implements the durability contract: whatever the policy, the
\* failures and the crash points, a restart recovers a prefix of the writes
\* with every write acknowledged under always, flushed, or snapshotted.
D == INSTANCE DurableLog WITH applied <- mem, promised <- safe, running <- (srv = "up")
Durable == D!DSpec

\* The server lock is always released again: the untimed waits of CONFIG SET
\* for the worker do not hang, whatever fails, nor does an enable.
Locked       == holder # Free \/ mat.by = "enable"
LockReleased == Locked ~> ~Locked
=============================================================================
