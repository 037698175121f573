------------------------------ MODULE ShmRing ------------------------------
(***************************************************************************)
(* One direction of the shared-memory transport: the single-producer,      *)
(* single-consumer byte ring of crates/ratatosk-shm/src/ring.rs driven by  *)
(* poll_write and poll_read of crates/ratatosk-shm/src/stream.rs, with the *)
(* control socket that carries the doorbells.                              *)
(*                                                                         *)
(* A step is one access to memory shared by the two processes.  Indices    *)
(* are u64 values that wrap: IndexSpace stands for 2^64.  The index        *)
(* stores are Release stores and may sit in the writer's store buffer:     *)
(* ptail/chead are the private indices, tail/head the published ones, and  *)
(* the two differ until the store drains.  A SeqCst fence waits for it.    *)
(* The parked flags are stored with SeqCst and visible at once.            *)
(*                                                                         *)
(* A stream has one control socket for both of its directions, and one     *)
(* task drives both, so the stream's other half may drain the doorbells    *)
(* meant for this one.  The spin of spin_iters polls only re-reads the     *)
(* index that the next push, pop or park reads again: it is the loop back  *)
(* to that read and has no step of its own.                                *)
(***************************************************************************)
EXTENDS Integers, Sequences

CONSTANTS
    Cap,         \* bytes of one ring
    IndexSpace,  \* number of values of an index, 2^64 in the code
    Total,       \* bound: bytes the producer's application writes
    SockCap      \* doorbell bytes the socket buffer holds

ASSUME CapAssumption   == Cap \in Nat \ {0}
ASSUME SpaceAssumption == IndexSpace \in Nat /\ IndexSpace > Cap
\* Both are powers of two, so masking an index commutes with its wrap.
ASSUME DivAssumption   == IndexSpace % Cap = 0
ASSUME TotalAssumption == Total \in Nat
ASSUME SockAssumption  == SockCap \in Nat \ {0}

VARIABLES
    data,     \* the bytes of the ring: data[s] is the ordinal of the byte in slot s
    tail,     \* published producer index
    ptail,    \* Producer.tail, the private authoritative copy
    head,     \* published consumer index
    chead,    \* Consumer.head
    cparked,  \* consumer_parked
    pparked,  \* producer_parked
    ppc,      \* where the producer's task is
    cpc,      \* where the consumer's task is
    pn,       \* bytes the current push copied
    bellC,    \* doorbell bytes queued for the consumer
    bellP,    \* doorbell bytes queued for the producer
    popen,    \* the producer's end of the control socket is open
    copen,    \* the consumer's end of the control socket is open
    pgone,    \* peer_gone of the producer's stream
    cgone,    \* peer_gone of the consumer's stream
    sent,     \* bytes pushed so far
    got       \* what the consumer's application has read

vars  == <<data, tail, ptail, head, chead, cparked, pparked, ppc, cpc, pn,
           bellC, bellP, popen, copen, pgone, cgone, sent, got>>

\* What the producer's, the consumer's and the socket's steps leave alone.
ringP   == <<data, ptail, pn, sent>>
ringC   == <<chead, got>>
control == <<popen, copen>>

Slots == 0 .. Cap - 1
Index == 0 .. IndexSpace - 1

(***************************************************************************)
(* u64::wrapping_add and u64::wrapping_sub on indices below IndexSpace.    *)
(***************************************************************************)
\* Mutant: addition that does not wrap.
MutWrapAdd(x, n) == x + n

WrapAdd(x, n) == IF x + n >= IndexSpace THEN x + n - IndexSpace ELSE x + n
WrapSub(x, y) == IF x >= y THEN x - y ELSE x - y + IndexSpace

\* Mutant: the index is clamped to the ring instead of masked.
MutSlotOf(x) == IF x >= Cap THEN Cap - 1 ELSE x

\* The slot an index is masked to.
SlotOf(x) == x % Cap

\* Mutant: off by one in the count of unread bytes.
MutUsed(h) == IF ptail = h THEN 0 ELSE WrapSub(ptail, h) - 1

\* Producer::used against a loaded head, Consumer::available against a loaded tail.
Used(h)      == WrapSub(ptail, h)
Available(t) == WrapSub(t, chead)

\* Mutant: the caller's length is not cut to what the ring allows.
MutMin2(a, b) == b

Min2(a, b) == IF a <= b THEN a ELSE b

PStates == {"idle", "push", "publish", "fence", "park", "recheck", "doorbell",
            "pending", "woken", "broken", "corrupt", "gone"}
CStates == {"idle", "pop", "fence", "park", "recheck", "doorbell",
            "pending", "woken", "eof", "corrupt", "gone"}

\* A drained ring: of a new segment (index 0) or later in the session.
Init ==
    /\ data = [s \in Slots |-> 0]
    /\ tail \in Index /\ ptail = tail /\ head = tail /\ chead = tail
    /\ cparked = 0 /\ pparked = 0
    /\ ppc = "idle" /\ cpc = "idle"
    /\ pn = 0
    /\ bellC = 0 /\ bellP = 0
    /\ popen = TRUE /\ copen = TRUE
    /\ pgone = FALSE /\ cgone = FALSE
    /\ sent = 0
    /\ got = <<>>

(***************************************************************************)
(* The store buffers.                                                      *)
(***************************************************************************)
DrainTail ==
    /\ tail # ptail
    /\ tail' = ptail
    /\ UNCHANGED <<ringP, ringC, control, head, cparked, pparked, ppc, cpc,
                   bellC, bellP, pgone, cgone>>

DrainHead ==
    /\ head # chead
    /\ head' = chead
    /\ UNCHANGED <<ringP, ringC, control, tail, cparked, pparked, ppc, cpc,
                   bellC, bellP, pgone, cgone>>

\* fence(SeqCst) in the producer's and in the consumer's process.
MutProducerFence == TRUE
ProducerFence == tail = ptail
ConsumerFence == head = chead

(***************************************************************************)
(* ring_doorbell: a non-blocking one-byte send.  A full buffer or a closed *)
(* peer loses the byte, and the error is ignored.                          *)
(***************************************************************************)
\* Mutant: the send consults a cached readiness and drops the wake-up.
MutRingBell(bell, open) == bell

RingBell(bell, open) == IF open /\ bell < SockCap THEN bell + 1 ELSE bell

\* Mutant: the end of file of the socket is not recorded.
MutDrainDoorbell(gone, open) == gone

\* drain_doorbell as poll_doorbell uses it: end of file sets peer_gone.
DrainDoorbell(gone, open) == gone \/ ~open

(***************************************************************************)
(* poll_write.                                                             *)
(***************************************************************************)
\* The task polls; a flag left armed by a Pending return (write_parked) is
\* cleared first.
StartWrite ==
    /\ pparked' = IF ppc = "idle" THEN pparked ELSE 0
    /\ ppc' = "push"
    /\ UNCHANGED <<ringP, ringC, control, tail, head, cparked, cpc,
                   bellC, bellP, pgone, cgone>>

\* The application writes, or the task runs after its wake-up.
PollWrite == (ppc = "woken" \/ (ppc = "idle" /\ sent < Total)) /\ StartWrite

\* Something other than the doorbell woke the task.
SpuriousWrite == ppc = "pending" /\ StartWrite

\* The caller's buffer ends at byte n: push loads head, validates it and
\* copies what fits.
PushCopy(n) ==
    /\ ppc = "push"
    /\ n \in 1 .. Total - sent
    /\ LET used == Used(head)
           m    == Min2(Cap - used, n)
           Off(s) == {i \in 0 .. m - 1 : SlotOf(WrapAdd(ptail, i)) = s}
       IN \/ /\ pgone \/ used >= Cap
             /\ ppc' = IF pgone THEN "broken" ELSE IF used > Cap THEN "corrupt" ELSE "park"
             /\ UNCHANGED <<data, pn>>
          \/ /\ ~pgone /\ used < Cap
             /\ data' = [s \in Slots |->
                           IF Off(s) = {} THEN data[s]
                           ELSE sent + 1 + (CHOOSE i \in Off(s) : TRUE)]
             /\ pn' = m
             /\ ppc' = "publish"
    /\ UNCHANGED <<ptail, sent, ringC, control, tail, head, cparked, pparked, cpc,
                   bellC, bellP, pgone, cgone>>

\* The Release store of the new tail enters the store buffer.
Publish ==
    /\ ppc = "publish"
    /\ ptail' = WrapAdd(ptail, pn)
    /\ sent' = sent + pn
    /\ pn' = 0
    /\ ppc' = "fence"
    /\ UNCHANGED <<data, ringC, control, tail, head, cparked, pparked, cpc,
                   bellC, bellP, pgone, cgone>>

\* Producer::should_ring: the fence, then the load of consumer_parked.
PushRing ==
    /\ ppc = "fence"
    /\ ProducerFence
    /\ bellC' = IF cparked = 1 THEN RingBell(bellC, copen) ELSE bellC
    /\ ppc' = "idle"
    /\ UNCHANGED <<ringP, ringC, control, tail, head, cparked, pparked, cpc,
                   bellP, pgone, cgone>>

\* Mutant: the producer goes to sleep without looking at head again.
MutParkForSpace ==
    /\ ppc = "park"
    /\ pparked' = 1
    /\ ppc' = "doorbell"
    /\ UNCHANGED <<ringP, ringC, control, tail, head, cparked, cpc,
                   bellC, bellP, pgone, cgone>>

\* Producer::park_for_space: arm the flag ...
ParkForSpace ==
    /\ ppc = "park"
    /\ pparked' = 1
    /\ ppc' = "recheck"
    /\ UNCHANGED <<ringP, ringC, control, tail, head, cparked, cpc,
                   bellC, bellP, pgone, cgone>>

\* ... fence, and look at head once more.
RecheckSpace ==
    /\ ppc = "recheck"
    /\ ProducerFence
    /\ LET used == Used(head)
       IN \/ used < Cap /\ ppc' = "push" /\ pparked' = 0
          \/ /\ used >= Cap
             /\ ppc' = IF used > Cap THEN "corrupt" ELSE "doorbell"
             /\ UNCHANGED pparked
    /\ UNCHANGED <<ringP, ringC, control, tail, head, cparked, cpc,
                   bellC, bellP, pgone, cgone>>

\* poll_doorbell: a readable socket is drained (end of file means the peer
\* is gone) and the loop restarts; otherwise the task sleeps.
WriteDoorbell ==
    /\ ppc = "doorbell"
    /\ \/ /\ bellP > 0 \/ ~copen
          /\ bellP' = 0
          /\ pparked' = 0
          /\ pgone' = DrainDoorbell(pgone, copen)
          /\ ppc' = "push"
       \/ /\ bellP = 0 /\ copen
          /\ ppc' = "pending"
          /\ UNCHANGED <<bellP, pparked, pgone>>
    /\ UNCHANGED <<ringP, ringC, control, tail, head, cparked, cpc,
                   bellC, cgone>>

(***************************************************************************)
(* poll_read.                                                              *)
(***************************************************************************)
StartRead ==
    /\ cparked' = IF cpc = "idle" THEN cparked ELSE 0
    /\ cpc' = "pop"
    /\ UNCHANGED <<ringP, ringC, control, tail, head, pparked, ppc,
                   bellC, bellP, pgone, cgone>>

PollRead == cpc \in {"idle", "woken"} /\ StartRead

SpuriousRead == cpc = "pending" /\ StartRead

\* Mutant: peer_gone is looked at before the ring.
MutReadable(avail) == avail \in 1 .. Cap /\ ~cgone

\* There are bytes to copy out and the peer's index is plausible.
Readable(avail) == avail \in 1 .. Cap

\* Consumer::pop into a buffer of n bytes: load tail, validate, copy out,
\* and store the new head (Release: it enters the store buffer).  Only an
\* empty ring lets the loop look at peer_gone.
Pop(n) ==
    /\ cpc = "pop"
    /\ LET avail == Available(tail)
           m     == Min2(avail, n)
       IN \/ /\ ~Readable(avail)
             /\ cpc' = IF avail > Cap THEN "corrupt" ELSE IF cgone THEN "eof" ELSE "park"
             /\ UNCHANGED <<chead, got>>
          \/ /\ Readable(avail)
             /\ got' = got \o [i \in 1 .. m |-> data[SlotOf(WrapAdd(chead, i - 1))]]
             /\ chead' = WrapAdd(chead, m)
             /\ cpc' = "fence"
    /\ UNCHANGED <<ringP, control, tail, head, cparked, pparked, ppc,
                   bellC, bellP, pgone, cgone>>

\* Consumer::should_ring, then the read returns.
PopRing ==
    /\ cpc = "fence"
    /\ ConsumerFence
    /\ bellP' = IF pparked = 1 THEN RingBell(bellP, popen) ELSE bellP
    /\ cpc' = "idle"
    /\ UNCHANGED <<ringP, ringC, control, tail, head, cparked, pparked, ppc,
                   bellC, pgone, cgone>>

\* Consumer::park_for_data.
ParkForData ==
    /\ cpc = "park"
    /\ cparked' = 1
    /\ cpc' = "recheck"
    /\ UNCHANGED <<ringP, ringC, control, tail, head, pparked, ppc,
                   bellC, bellP, pgone, cgone>>

RecheckData ==
    /\ cpc = "recheck"
    /\ ConsumerFence
    /\ LET avail == Available(tail)
       IN \/ avail \in 1 .. Cap /\ cpc' = "pop" /\ cparked' = 0
          \/ /\ avail \notin 1 .. Cap
             /\ cpc' = IF avail > Cap THEN "corrupt" ELSE "doorbell"
             /\ UNCHANGED cparked
    /\ UNCHANGED <<ringP, ringC, control, tail, head, pparked, ppc,
                   bellC, bellP, pgone, cgone>>

ReadDoorbell ==
    /\ cpc = "doorbell"
    /\ \/ /\ bellC > 0 \/ ~popen
          /\ bellC' = 0
          /\ cparked' = 0
          /\ cgone' = DrainDoorbell(cgone, popen)
          /\ cpc' = "pop"
       \/ /\ bellC = 0 /\ popen
          /\ cpc' = "pending"
          /\ UNCHANGED <<bellC, cparked, cgone>>
    /\ UNCHANGED <<ringP, ringC, control, tail, head, pparked, ppc,
                   bellP, pgone>>

(***************************************************************************)
(* The control socket.                                                     *)
(***************************************************************************)
\* A readable socket schedules the task whose waker poll_doorbell registered.
WakeProducer ==
    /\ ppc = "pending"
    /\ bellP > 0 \/ ~copen
    /\ ppc' = "woken"
    /\ UNCHANGED <<ringP, ringC, control, tail, head, cparked, pparked, cpc,
                   bellC, bellP, pgone, cgone>>

WakeConsumer ==
    /\ cpc = "pending"
    /\ bellC > 0 \/ ~popen
    /\ cpc' = "woken"
    /\ UNCHANGED <<ringP, ringC, control, tail, head, cparked, pparked, ppc,
                   bellC, bellP, pgone, cgone>>

\* The other half of the producer's stream (poll_doorbell under poll_read, or
\* peer_closed) drains the socket.  It runs in the same task between two of
\* this half's polls, and a half that was waiting is polled again.
OtherHalfDrainsP ==
    /\ ppc \in {"idle", "pending", "woken"}
    /\ bellP > 0 \/ (~copen /\ ~pgone)
    /\ bellP' = 0
    /\ pgone' = DrainDoorbell(pgone, copen)
    /\ ppc' = IF ppc = "pending" THEN "woken" ELSE ppc
    /\ UNCHANGED <<ringP, ringC, control, tail, head, cparked, pparked, cpc,
                   bellC, cgone>>

OtherHalfDrainsC ==
    /\ cpc \in {"idle", "pending", "woken"}
    /\ bellC > 0 \/ (~popen /\ ~cgone)
    /\ bellC' = 0
    /\ cgone' = DrainDoorbell(cgone, popen)
    /\ cpc' = IF cpc = "pending" THEN "woken" ELSE cpc
    /\ UNCHANGED <<ringP, ringC, control, tail, head, cparked, pparked, ppc,
                   bellP, pgone>>

\* The process ends or drops the stream, at any point of a call.  Closing the
\* socket is a system call: the index store before it has drained.
CloseProducer ==
    /\ popen /\ tail = ptail
    /\ popen' = FALSE
    /\ ppc' = "gone"
    /\ UNCHANGED <<ringP, ringC, copen, tail, head, cparked, pparked, cpc,
                   bellC, bellP, pgone, cgone>>

CloseConsumer ==
    /\ copen /\ head = chead
    /\ copen' = FALSE
    /\ cpc' = "gone"
    /\ UNCHANGED <<ringP, ringC, popen, tail, head, cparked, pparked, ppc,
                   bellC, bellP, pgone, cgone>>

Next ==
    \/ DrainTail \/ DrainHead
    \/ PollWrite \/ SpuriousWrite
    \/ \E n \in 1 .. Total : PushCopy(n)
    \/ Publish \/ PushRing \/ ParkForSpace \/ RecheckSpace \/ WriteDoorbell
    \/ PollRead \/ SpuriousRead
    \/ \E n \in 1 .. Cap : Pop(n)
    \/ PopRing \/ ParkForData \/ RecheckData \/ ReadDoorbell
    \/ WakeProducer \/ WakeConsumer
    \/ OtherHalfDrainsP \/ OtherHalfDrainsC
    \/ CloseProducer \/ CloseConsumer

Spec == Init /\ [][Next]_vars

\* Stores drain, a running call goes on, and a scheduled task is polled; a
\* sleeping task is only ever woken by its socket.
Fairness ==
    /\ WF_vars(DrainTail) /\ WF_vars(DrainHead)
    /\ WF_vars(PollWrite)
    /\ WF_vars(\E n \in 1 .. Total : PushCopy(n))
    /\ WF_vars(Publish) /\ WF_vars(PushRing) /\ WF_vars(ParkForSpace)
    /\ WF_vars(RecheckSpace) /\ WF_vars(WriteDoorbell)
    /\ WF_vars(PollRead)
    /\ WF_vars(\E n \in 1 .. Cap : Pop(n))
    /\ WF_vars(PopRing) /\ WF_vars(ParkForData)
    /\ WF_vars(RecheckData) /\ WF_vars(ReadDoorbell)
    /\ WF_vars(WakeProducer) /\ WF_vars(WakeConsumer)

FairSpec == Spec /\ Fairness

-----------------------------------------------------------------------------
(***************************************************************************)
(* Properties.                                                             *)
(***************************************************************************)
\* Every variable keeps its type.
TypeOK ==
    /\ data \in [Slots -> Nat]
    /\ tail \in Index /\ ptail \in Index /\ head \in Index /\ chead \in Index
    /\ cparked \in {0, 1} /\ pparked \in {0, 1}
    /\ ppc \in PStates /\ cpc \in CStates
    /\ pn \in 0 .. Cap
    /\ bellC \in 0 .. SockCap /\ bellP \in 0 .. SockCap
    /\ popen \in BOOLEAN /\ copen \in BOOLEAN
    /\ pgone \in BOOLEAN /\ cgone \in BOOLEAN
    /\ sent \in Nat
    /\ got \in Seq(Nat)

\* The four indices stay in the circular order published head, private head,
\* published tail, private tail, the copy in progress fits behind them, and
\* all of it spans at most one ring: no byte that may still be read is ever
\* overwritten, across the wrap of the index too.
IndexOrder ==
    /\ WrapSub(chead, head) + WrapSub(tail, chead) + WrapSub(ptail, tail)
         = WrapSub(ptail, head)
    /\ WrapSub(ptail, head) + pn <= Cap

\* Two correct peers never report each other's index as corrupted, although
\* each compares its own index with a stale copy of the other's.
NeverCorrupt == ppc # "corrupt" /\ cpc # "corrupt"

\* The application reads exactly the bytes that were written, in their order.
Fifo == \A i \in 1 .. Len(got) : got[i] = i

\* A consumer that sleeps on its doorbell, or is about to, while bytes are
\* published has a doorbell queued or a producer that is yet to look at the
\* parked flag: "lost wake-ups are impossible".
NoLostDataWakeup ==
    (cpc \in {"doorbell", "pending"} /\ tail # chead /\ popen)
        => bellC > 0 \/ ppc = "fence"

\* The same for a producer waiting for space.
NoLostSpaceWakeup ==
    (ppc \in {"doorbell", "pending"} /\ WrapSub(ptail, head) < Cap /\ copen)
        => bellP > 0 \/ cpc = "fence"

\* End of file is reported only once everything ever published was read.
EofAfterData == cpc = "eof" => Len(got) = sent

\* Bytes written while both ends stay open are eventually read, and a blocked
\* writer eventually gets through.
Delivery ==
    /\ \A k \in 1 .. Total :
         (sent >= k) ~> (Len(got) >= k \/ ~popen \/ ~copen)
    /\ (ppc = "pending") ~> (ppc = "idle" \/ ~popen \/ ~copen)

\* A closed peer is eventually noticed: the reader drains the ring and gets
\* end of file, unless it closes too.
EofReached == ~popen ~> (cpc \in {"eof", "gone"})
=============================================================================
