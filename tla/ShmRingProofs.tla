--------------------------- MODULE ShmRingProofs ---------------------------
(***************************************************************************)
(* Proofs about ShmRing for every ring size, index width, amount of data   *)
(* and socket buffer.                                                      *)
(***************************************************************************)
EXTENDS ShmRing, SequenceTheorems, TLAPS

(***************************************************************************)
(* The inductive invariant.                                                *)
(***************************************************************************)
\* An index store is in flight only between the publication and the fence.
InFlight ==
    /\ tail # ptail => ppc = "fence"
    /\ head # chead => cpc = "fence"

\* A side between arming its flag and its next poll has the flag armed.
Armed ==
    /\ cpc \in {"recheck", "doorbell", "pending", "woken"} => cparked = 1
    /\ ppc \in {"recheck", "doorbell", "pending", "woken"} => pparked = 1

\* The ends of the socket, and what each stream knows of them.
Ends ==
    /\ popen <=> ppc # "gone"
    /\ copen <=> cpc # "gone"
    /\ cgone => ~popen
    /\ cpc = "eof" => cgone

\* The unread bytes are the ones between the private indices.
Counted == sent = Len(got) + WrapSub(ptail, chead)

IInv == /\ TypeOK /\ IndexOrder /\ NeverCorrupt
        /\ InFlight /\ Armed /\ Ends /\ Counted
        /\ NoLostDataWakeup /\ NoLostSpaceWakeup /\ EofAfterData

USE CapAssumption, SpaceAssumption, TotalAssumption, SockAssumption

-----------------------------------------------------------------------------
\* A masked index names a slot of the ring (RingView::mask).
LEMMA SlotInRing == ASSUME NEW x \in Nat PROVE SlotOf(x) \in Slots
BY DEF SlotOf, Slots

\* A ring copy of m bytes is a sequence of m bytes.
LEMMA CopyIsSeq ==
    ASSUME data \in [Slots -> Nat], chead \in Index, NEW m \in 0 .. Cap
    PROVE  LET s == [i \in 1 .. m |-> data[SlotOf(WrapAdd(chead, i - 1))]]
           IN s \in Seq(Nat) /\ Len(s) = m
<1> DEFINE s == [i \in 1 .. m |-> data[SlotOf(WrapAdd(chead, i - 1))]]
<1>1. \A i \in 1 .. m : data[SlotOf(WrapAdd(chead, i - 1))] \in Nat
  <2> TAKE i \in 1 .. m
  <2>1. WrapAdd(chead, i - 1) \in Nat
    BY DEF WrapAdd, Index
  <2> QED BY <2>1, SlotInRing
<1>2. s \in [1 .. m -> Nat]
  BY <1>1
<1>3. s \in Seq(Nat)
  BY <1>2, SeqDef
<1>4. Len(s) = m
  BY <1>2, <1>3, LenProperties
<1> QED BY <1>3, <1>4

\* Initially the ring is empty and both sides are idle.
LEMMA InitIInv == Init => IInv
<1> SUFFICES ASSUME Init PROVE IInv
  OBVIOUS
<1>1. data \in [Slots -> Nat] /\ got \in Seq(Nat) /\ Len(got) = 0
  BY DEF Init
<1>b. popen \in BOOLEAN /\ copen \in BOOLEAN /\ pgone \in BOOLEAN /\ cgone \in BOOLEAN
  BY Zenon DEF Init
<1>2. TypeOK
  BY <1>1, <1>b DEF Init, TypeOK, PStates, CStates, Index
<1> QED
  BY <1>1, <1>2 DEF Init, IInv, IndexOrder, NeverCorrupt, InFlight, Armed, Ends, Counted,
        NoLostDataWakeup, NoLostSpaceWakeup, EofAfterData, WrapSub, TypeOK, Index

\* Every step keeps every variable in its type.
LEMMA TypeStep == TypeOK /\ IndexOrder /\ [Next]_vars => TypeOK'
<1> SUFFICES ASSUME TypeOK, IndexOrder, [Next]_vars PROVE TypeOK'
  OBVIOUS
<1> USE DEF TypeOK, PStates, CStates, ringP, ringC, control
<1>1. CASE DrainTail
  BY <1>1 DEF DrainTail
<1>2. CASE DrainHead
  BY <1>2 DEF DrainHead
<1>3. CASE PollWrite
  BY <1>3 DEF StartWrite, PollWrite
<1>4. CASE SpuriousWrite
  BY <1>4 DEF StartWrite, SpuriousWrite
<1>5. CASE \E n \in 1 .. Total : PushCopy(n)
  <2> PICK n \in 1 .. Total : PushCopy(n)
    BY <1>5
  <2> DEFINE used   == Used(head)
             m      == Min2(Cap - used, n)
             Off(s) == {i \in 0 .. m - 1 : SlotOf(WrapAdd(ptail, i)) = s}
  <2>1. used \in Nat /\ n \in Nat
    BY DEF Used, WrapSub, Index
  <2>2. CASE pgone \/ used >= Cap
    BY <2>1, <2>2 DEF PushCopy
  <2>3. CASE ~pgone /\ used < Cap
    <3>1. m \in 0 .. Cap
      BY <2>1, <2>3 DEF Min2
    <3>2. data' = [s \in Slots |-> IF Off(s) = {} THEN data[s]
                                  ELSE sent + 1 + (CHOOSE i \in Off(s) : TRUE)]
          /\ pn' = m /\ ppc' = "publish"
      BY <2>1, <2>3 DEF PushCopy
    <3>3. \A s \in Slots : Off(s) # {} => (CHOOSE i \in Off(s) : TRUE) \in Nat
      <4> SUFFICES ASSUME NEW s \in Slots, Off(s) # {} PROVE (CHOOSE i \in Off(s) : TRUE) \in Off(s)
        BY <3>1
      <4> QED BY Zenon
    <3>4. data' \in [Slots -> Nat]
      BY <3>2, <3>3
    <3> QED BY <3>1, <3>2, <3>4 DEF PushCopy
  <2> QED BY <2>1, <2>2, <2>3
<1>6. CASE Publish
  BY <1>6 DEF WrapAdd, Publish, Index
<1>7. CASE PushRing
  BY <1>7 DEF ProducerFence, RingBell, PushRing
<1>8. CASE ParkForSpace
  BY <1>8 DEF ParkForSpace
<1>9. CASE RecheckSpace
  BY <1>9 DEF ProducerFence, Used, RecheckSpace
<1>10. CASE WriteDoorbell
  <2>1. pgone' \in BOOLEAN
    BY <1>10, Zenon DEF DrainDoorbell, WriteDoorbell
  <2> QED BY <1>10, <2>1 DEF WriteDoorbell
<1>11. CASE PollRead
  BY <1>11 DEF StartRead, PollRead
<1>12. CASE SpuriousRead
  BY <1>12 DEF StartRead, SpuriousRead
<1>13. CASE \E n \in 1 .. Cap : Pop(n)
  <2> PICK n \in 1 .. Cap : Pop(n)
    BY <1>13
  <2> DEFINE avail == Available(tail)
             m     == Min2(avail, n)
             s     == [i \in 1 .. m |-> data[SlotOf(WrapAdd(chead, i - 1))]]
  <2>1. CASE ~Readable(avail)
    BY <2>1 DEF Pop
  <2>2. CASE Readable(avail)
    <3>1. m \in 1 .. Cap
      BY <2>2 DEF Readable, Min2
    <3>2. s \in Seq(Nat)
      <4> HIDE DEF m
      <4> QED BY <3>1, CopyIsSeq
    <3>3. got' = got \o s /\ chead' = WrapAdd(chead, m) /\ cpc' = "fence"
      BY <2>2 DEF Pop
    <3>4. got' \in Seq(Nat)
      BY <3>2, <3>3, ConcatProperties
    <3>5. chead' \in Index
      BY <3>1, <3>3 DEF WrapAdd, Index
    <3> QED BY <3>3, <3>4, <3>5 DEF Pop
  <2> QED BY <2>1, <2>2
<1>14. CASE PopRing
  BY <1>14 DEF ConsumerFence, RingBell, PopRing
<1>15. CASE ParkForData
  BY <1>15 DEF ParkForData
<1>16. CASE RecheckData
  BY <1>16 DEF ConsumerFence, Available, RecheckData
<1>17. CASE ReadDoorbell
  <2>1. cgone' \in BOOLEAN
    BY <1>17, Zenon DEF DrainDoorbell, ReadDoorbell
  <2> QED BY <1>17, <2>1 DEF ReadDoorbell
<1>18. CASE WakeProducer
  BY <1>18 DEF WakeProducer
<1>19. CASE WakeConsumer
  BY <1>19 DEF WakeConsumer
<1>20. CASE OtherHalfDrainsP
  BY <1>20 DEF DrainDoorbell, OtherHalfDrainsP
<1>21. CASE OtherHalfDrainsC
  BY <1>21 DEF DrainDoorbell, OtherHalfDrainsC
<1>22. CASE CloseProducer
  BY <1>22 DEF CloseProducer
<1>23. CASE CloseConsumer
  BY <1>23 DEF CloseConsumer
<1>24. CASE UNCHANGED vars
  BY <1>24 DEF vars
<1> QED
  BY <1>1, <1>2, <1>3, <1>4, <1>5, <1>6, <1>7, <1>8, <1>9, <1>10, <1>11, <1>12, <1>13, <1>14,
     <1>15, <1>16, <1>17, <1>18, <1>19, <1>20, <1>21, <1>22, <1>23, <1>24 DEF Next

\* The indices stay in order and the bytes between them are counted.
LEMMA IndexStep ==
    TypeOK /\ IndexOrder /\ Counted /\ [Next]_vars => IndexOrder' /\ Counted'
<1> SUFFICES ASSUME TypeOK, IndexOrder, Counted, [Next]_vars PROVE IndexOrder' /\ Counted'
  OBVIOUS
<1> USE DEF ringP, ringC, control
<1>0. /\ tail \in Index /\ ptail \in Index /\ head \in Index /\ chead \in Index
      /\ pn \in 0 .. Cap /\ sent \in Nat /\ got \in Seq(Nat) /\ Len(got) \in Nat
  BY LenProperties DEF TypeOK
<1> USE <1>0 DEF IndexOrder, Counted, WrapSub, Index
<1>1. CASE DrainTail
  BY <1>1 DEF DrainTail
<1>2. CASE DrainHead
  BY <1>2 DEF DrainHead
<1>3. CASE \E n \in 1 .. Total : PushCopy(n)
  <2> PICK n \in 1 .. Total : PushCopy(n)
    BY <1>3
  <2>1. /\ UNCHANGED <<tail, ptail, head, chead, sent, got>>
        /\ \/ pn' = pn
           \/ Used(head) < Cap /\ pn' = Min2(Cap - Used(head), n)
    BY DEF PushCopy
  <2> QED BY <2>1 DEF Used, Min2
<1>4. CASE Publish
  BY <1>4 DEF Publish, WrapAdd
<1>5. CASE \E n \in 1 .. Cap : Pop(n)
  <2> PICK n \in 1 .. Cap : Pop(n)
    BY <1>5
  <2> DEFINE avail == Available(tail)
             m     == Min2(avail, n)
             s     == [i \in 1 .. m |-> data[SlotOf(WrapAdd(chead, i - 1))]]
  <2>1. CASE ~Readable(avail)
    BY <2>1 DEF Pop
  <2>2. CASE Readable(avail)
    <3>1. m \in 1 .. Cap /\ m <= avail
      BY <2>2 DEF Readable, Min2
    <3>2. s \in Seq(Nat) /\ Len(s) = m
      <4>1. data \in [Slots -> Nat]
        BY DEF TypeOK
      <4> HIDE DEF m, Index
      <4> QED BY <3>1, <4>1, CopyIsSeq
    <3>3. /\ got' = got \o s /\ chead' = WrapAdd(chead, m)
          /\ UNCHANGED <<tail, ptail, head, pn, sent>>
      BY <2>2 DEF Pop
    <3>4. Len(got') = Len(got) + m
      <4> HIDE DEF s
      <4> QED BY <3>2, <3>3, ConcatProperties
    <3> HIDE DEF m, s
    <3>5. m <= WrapSub(tail, chead) /\ m \in Nat
      BY <3>1 DEF Available
    <3>6. IndexOrder'
      BY <3>3, <3>5 DEF WrapAdd
    <3>7. Counted'
      <4>1. chead' = WrapAdd(chead, m) /\ ptail' = ptail /\ sent' = sent
        BY <3>3
      <4> QED BY <3>4, <3>5, <4>1, SMTT(30) DEF WrapAdd
    <3> QED BY <3>6, <3>7
  <2> QED BY <2>1, <2>2
<1>6. CASE UNCHANGED <<tail, ptail, head, chead, pn, sent, got>>
  BY <1>6
<1>7. \/ DrainTail \/ DrainHead \/ (\E n \in 1 .. Total : PushCopy(n)) \/ Publish
      \/ (\E n \in 1 .. Cap : Pop(n))
      \/ UNCHANGED <<tail, ptail, head, chead, pn, sent, got>>
  BY Zenon DEF Next, vars, PollWrite, SpuriousWrite, PushRing, ParkForSpace, RecheckSpace,
     WriteDoorbell, PollRead, SpuriousRead, PopRing, ParkForData, RecheckData, ReadDoorbell,
     WakeProducer, WakeConsumer, OtherHalfDrainsP, OtherHalfDrainsC, CloseProducer, CloseConsumer,
     StartWrite, StartRead
<1> QED BY <1>1, <1>2, <1>3, <1>4, <1>5, <1>6, <1>7

\* The handshake: every step keeps the part of the invariant about the flags,
\* the doorbells and the ends of the socket.
LEMMA ControlStep ==
    IInv /\ [Next]_vars
      => /\ NeverCorrupt' /\ InFlight' /\ Armed' /\ Ends'
         /\ NoLostDataWakeup' /\ NoLostSpaceWakeup' /\ EofAfterData'
<1> DEFINE Goal == /\ NeverCorrupt /\ InFlight /\ Armed /\ Ends
                   /\ NoLostDataWakeup /\ NoLostSpaceWakeup /\ EofAfterData
<1> SUFFICES ASSUME IInv, [Next]_vars PROVE Goal'
  OBVIOUS
<1> USE DEF ringP, ringC, control
<1> USE DEF IInv, TypeOK, Index, IndexOrder, NeverCorrupt, InFlight, Armed, Ends, Counted,
        NoLostDataWakeup, NoLostSpaceWakeup, EofAfterData, WrapSub
<1>1. CASE DrainTail
  BY <1>1 DEF DrainTail
<1>2. CASE DrainHead
  BY <1>2 DEF DrainHead
<1>3. CASE PollWrite
  BY <1>3 DEF StartWrite, PollWrite
<1>4. CASE SpuriousWrite
  BY <1>4 DEF StartWrite, SpuriousWrite
<1>5. CASE \E n \in 1 .. Total : PushCopy(n)
  BY <1>5 DEF Used, PushCopy
<1>6. CASE Publish
  BY <1>6 DEF WrapAdd, Publish
<1>7. CASE PushRing
  BY <1>7 DEF ProducerFence, RingBell, PushRing
<1>8. CASE ParkForSpace
  BY <1>8 DEF ParkForSpace
<1>9. CASE RecheckSpace
  BY <1>9 DEF ProducerFence, Used, RecheckSpace
<1>10. CASE WriteDoorbell
  BY <1>10 DEF DrainDoorbell, WriteDoorbell
<1>11. CASE PollRead
  BY <1>11 DEF StartRead, PollRead
<1>12. CASE SpuriousRead
  BY <1>12 DEF StartRead, SpuriousRead
<1>13. CASE \E n \in 1 .. Cap : Pop(n)
  BY <1>13 DEF Readable, Available, Pop
<1>14. CASE PopRing
  BY <1>14 DEF ConsumerFence, RingBell, PopRing
<1>15. CASE ParkForData
  BY <1>15 DEF ParkForData
<1>16. CASE RecheckData
  BY <1>16 DEF ConsumerFence, Available, RecheckData
<1>17. CASE ReadDoorbell
  BY <1>17 DEF DrainDoorbell, ReadDoorbell
<1>18. CASE WakeProducer
  BY <1>18 DEF WakeProducer
<1>19. CASE WakeConsumer
  BY <1>19 DEF WakeConsumer
<1>20. CASE OtherHalfDrainsP
  BY <1>20 DEF DrainDoorbell, OtherHalfDrainsP
<1>21. CASE OtherHalfDrainsC
  BY <1>21 DEF DrainDoorbell, OtherHalfDrainsC
<1>22. CASE CloseProducer
  BY <1>22 DEF CloseProducer
<1>23. CASE CloseConsumer
  BY <1>23 DEF CloseConsumer
<1>24. CASE UNCHANGED vars
  BY <1>24 DEF vars
<1> QED
  BY <1>1, <1>2, <1>3, <1>4, <1>5, <1>6, <1>7, <1>8, <1>9, <1>10, <1>11, <1>12, <1>13, <1>14,
     <1>15, <1>16, <1>17, <1>18, <1>19, <1>20, <1>21, <1>22, <1>23, <1>24 DEF Next

-----------------------------------------------------------------------------
\* The invariant holds in every reachable state.
THEOREM Invariance == Spec => []IInv
<1>1. Init => IInv
  BY InitIInv
<1>2. IInv /\ [Next]_vars => IInv'
  <2> SUFFICES ASSUME IInv, [Next]_vars PROVE IInv'
    OBVIOUS
  <2>1. TypeOK'
    BY TypeStep DEF IInv
  <2>2. IndexOrder' /\ Counted'
    BY IndexStep DEF IInv
  <2>3. /\ NeverCorrupt' /\ InFlight' /\ Armed' /\ Ends'
        /\ NoLostDataWakeup' /\ NoLostSpaceWakeup' /\ EofAfterData'
    BY ControlStep
  <2> QED BY <2>1, <2>2, <2>3 DEF IInv
<1> QED BY <1>1, <1>2, PTL DEF Spec

\* Every variable of the transport keeps its type (ring.rs, stream.rs).
THEOREM TypeCorrect == Spec => []TypeOK
BY Invariance, PTL DEF IInv

\* push never overwrites a byte pop may still read, and neither side takes
\* the other's stale or wrapped index for corruption.
THEOREM RingSafe == Spec => [](IndexOrder /\ NeverCorrupt)
BY Invariance, PTL DEF IInv

\* The parking handshake loses no wake-up, in either direction, although
\* index stores linger in store buffers and doorbells may be dropped.
THEOREM NoLostWakeups == Spec => [](NoLostDataWakeup /\ NoLostSpaceWakeup)
BY Invariance, PTL DEF IInv

\* poll_read reports end of file only after the last published byte.
THEOREM EofIsLast == Spec => []EofAfterData
BY Invariance, PTL DEF IInv

-----------------------------------------------------------------------------
(***************************************************************************)
(* The order of the bytes.  What the ring holds between the private head   *)
(* and the end of the copy in progress are the next bytes to be read.      *)
(***************************************************************************)
Filled == WrapSub(ptail, chead) + (IF ppc = "publish" THEN pn ELSE 0)

Stored == \A i \in 0 .. Filled - 1 : data[SlotOf(WrapAdd(chead, i))] = Len(got) + 1 + i

\* Division with remainder.
LEMMA DivMod ==
    ASSUME NEW x \in Nat, NEW c \in Nat \ {0}
    PROVE  x = (c * (x \div c)) + (x % c) /\ x % c \in 0 .. c - 1 /\ x \div c \in Nat
OBVIOUS

\* Quotient and remainder are determined by the number.
LEMMA DivModUnique ==
    ASSUME NEW c \in Nat \ {0}, NEW q \in Int, NEW p \in Int,
           NEW r \in 0 .. c - 1, NEW s \in 0 .. c - 1, c * q + r = c * p + s
    PROVE  q = p /\ r = s
<1>1. c * (q - p) = c * q - c * p
  OBVIOUS
<1>2. q - p >= 1 => c * (q - p) >= c
  <2>1. ASSUME NEW d \in Int, d >= 1 PROVE c * d >= c
    BY <2>1
  <2> QED BY <2>1
<1>3. q - p <= -1 => c * (q - p) <= -c
  <2>1. ASSUME NEW d \in Int, d <= -1 PROVE c * d <= -c
    BY <2>1
  <2> QED BY <2>1
<1>4. q - p = 0
  BY <1>1, <1>2, <1>3
<1> QED BY <1>4

\* Whole multiples of the divisor do not change the remainder.
LEMMA ModShift ==
    ASSUME NEW c \in Nat \ {0}, NEW y \in Nat, NEW w \in Nat, w % c = 0
    PROVE  (y + w) % c = y % c
<1>1. ASSUME NEW q \in Nat, NEW r \in 0 .. c - 1, NEW b \in Nat, NEW s \in 0 .. c - 1,
             NEW k \in Nat, c * q + r + c * k = c * b + s
      PROVE  r = s
  <2>1. c * (q + k) = c * q + c * k
    OBVIOUS
  <2>2. c * q \in Int /\ c * k \in Int /\ c * b \in Int /\ q + k \in Int
    OBVIOUS
  <2>3. c * (q + k) + r = c * b + s
    BY <1>1, <2>1, <2>2
  <2> QED BY <2>2, <2>3, DivModUnique
<1> DEFINE z == y + w
           q == y \div c
           r == y % c
           b == z \div c
           s == z % c
           k == w \div c
<1>2. y = c * q + r /\ r \in 0 .. c - 1 /\ q \in Nat
  BY DivMod
<1>3. w = c * k /\ k \in Nat
  BY DivMod
<1>4. z \in Nat /\ z = y + w
  OBVIOUS
<1> HIDE DEF z
<1>5. z = c * b + s /\ s \in 0 .. c - 1 /\ b \in Nat
  BY <1>4, DivMod
<1> HIDE DEF q, r, b, s, k
<1>6. c * q + r + c * k = c * b + s
  BY <1>2, <1>3, <1>4, <1>5
<1>7. r = s
  BY <1>1, <1>2, <1>3, <1>5, <1>6
<1> QED BY <1>7 DEF r, s, z

\* Masking commutes with the wrap of the index (RingView::mask on wrapped
\* indices): the space of indices is a whole number of rings.
LEMMA SlotWraps ==
    ASSUME NEW x \in Index, NEW i \in 0 .. Cap
    PROVE  SlotOf(WrapAdd(x, i)) = (x + i) % Cap
<1>1. CASE x + i < IndexSpace
  BY <1>1 DEF SlotOf, WrapAdd, Index
<1>2. CASE x + i >= IndexSpace
  <2> DEFINE y == x + i - IndexSpace
  <2>1. y \in Nat /\ WrapAdd(x, i) = y /\ x + i = y + IndexSpace
    BY <1>2 DEF WrapAdd, Index
  <2> HIDE DEF y
  <2>2. (y + IndexSpace) % Cap = y % Cap
    BY <2>1, ModShift, DivAssumption
  <2> QED BY <2>1, <2>2 DEF SlotOf
<1> QED BY <1>1, <1>2 DEF Index

\* Two offsets below the size of the ring never share a slot.
LEMMA SlotInjective ==
    ASSUME NEW x \in Index, NEW i \in 0 .. Cap - 1, NEW j \in 0 .. Cap - 1,
           SlotOf(WrapAdd(x, i)) = SlotOf(WrapAdd(x, j))
    PROVE  i = j
<1>1. (x + i) % Cap = (x + j) % Cap
  BY SlotWraps
<1>2. x + i \in Nat /\ x + j \in Nat
  BY DEF Index
<1>3. x + i = (Cap * ((x + i) \div Cap)) + ((x + i) % Cap) /\ (x + i) \div Cap \in Nat
  BY <1>2, DivMod
<1>4. x + j = (Cap * ((x + j) \div Cap)) + ((x + j) % Cap) /\ (x + j) \div Cap \in Nat
  BY <1>2, DivMod
<1> DEFINE a == (x + i) \div Cap
           b == (x + j) \div Cap
           d == i - j
<1> HIDE DEF a, b
<1>5. (x + i) - (x + j) = Cap * a - Cap * b /\ a \in Nat /\ b \in Nat
  <2>1. (x + i) % Cap \in Int
    BY <1>2, DivMod
  <2> HIDE DEF a, b
  <2> QED BY <2>1, <1>1, <1>2, <1>3, <1>4 DEF a, b
<1>6. i - j = Cap * a - Cap * b
  BY <1>5 DEF Index
<1>7. CASE i >= j
  <2>1. Cap * a + 0 = Cap * b + (i - j) \/ Cap * a = Cap * b + (i - j)
    BY <1>5, <1>6
  <2>2. 0 \in 0 .. Cap - 1 /\ (i - j) \in 0 .. Cap - 1
    BY <1>7
  <2>3. 0 = i - j
    BY <1>5, <2>1, <2>2, DivModUnique
  <2> QED BY <2>3
<1>8. CASE j >= i
  <2>1. Cap * b + 0 = Cap * a + (j - i)
    BY <1>5, <1>6
  <2>2. 0 \in 0 .. Cap - 1 /\ (j - i) \in 0 .. Cap - 1
    BY <1>8
  <2>3. 0 = j - i
    BY <1>5, <2>1, <2>2, DivModUnique
  <2> QED BY <2>3
<1> QED BY <1>7, <1>8

\* Consecutive advances of an index add up.
LEMMA WrapAddAdd ==
    ASSUME NEW x \in Index, NEW i \in Nat, NEW j \in Nat, i + j <= Cap
    PROVE  WrapAdd(WrapAdd(x, i), j) = WrapAdd(x, i + j) /\ WrapAdd(x, i) \in Index
BY DEF WrapAdd, Index

\* An index is the other one advanced by their distance.
LEMMA WrapSubAdd ==
    ASSUME NEW x \in Index, NEW y \in Index
    PROVE  WrapAdd(x, WrapSub(y, x)) = y /\ WrapSub(y, x) \in Nat
BY DEF WrapAdd, WrapSub, Index


\* Every step keeps the bytes in the ring and the ones already read in order.
LEMMA OrderStep ==
    IInv /\ Stored /\ Fifo /\ [Next]_vars => Stored' /\ Fifo'
<1> SUFFICES ASSUME IInv, Stored, Fifo, [Next]_vars PROVE Stored' /\ Fifo'
  OBVIOUS
<1> USE DEF ringP, ringC, control
<1> DEFINE unread == WrapSub(ptail, chead)
<1>0. /\ tail \in Index /\ ptail \in Index /\ head \in Index /\ chead \in Index
      /\ pn \in 0 .. Cap /\ sent \in Nat /\ got \in Seq(Nat) /\ Len(got) \in Nat
      /\ data \in [Slots -> Nat]
  BY LenProperties DEF IInv, TypeOK
<1>1. /\ unread \in Nat /\ unread + pn <= Cap /\ unread <= WrapSub(ptail, head)
      /\ WrapSub(tail, chead) <= unread /\ WrapSub(tail, chead) \in Nat
      /\ WrapSub(ptail, head) \in Nat
      /\ WrapAdd(chead, unread) = ptail /\ sent = Len(got) + unread
  BY <1>0 DEF IInv, IndexOrder, Counted, WrapSub, WrapAdd, Index
<1> HIDE DEF unread
<1>2. CASE \E n \in 1 .. Total : PushCopy(n)
  <2> PICK n \in 1 .. Total : PushCopy(n)
    BY <1>2
  <2> DEFINE used   == Used(head)
             m      == Min2(Cap - used, n)
             Off(s) == {i \in 0 .. m - 1 : SlotOf(WrapAdd(ptail, i)) = s}
  <2>0. used \in Nat
    BY <1>1 DEF Used
  <2>1. UNCHANGED <<ptail, chead, got, sent>> /\ ppc = "push"
    BY DEF PushCopy
  <2>2. Fifo'
    BY <2>1 DEF Fifo
  <2>3. CASE pgone \/ used >= Cap
    <3>1. UNCHANGED <<data, pn>> /\ ppc' # "publish"
      BY <2>0, <2>3 DEF PushCopy
    <3> QED BY <2>1, <2>2, <3>1 DEF Stored, Filled
  <2>4. CASE ~pgone /\ used < Cap
    <3>1. /\ data' = [s \in Slots |-> IF Off(s) = {} THEN data[s]
                                      ELSE sent + 1 + (CHOOSE i \in Off(s) : TRUE)]
          /\ pn' = m /\ ppc' = "publish"
      BY <2>0, <2>4 DEF PushCopy
    <3>2. m \in 0 .. Cap /\ unread + m <= Cap
      BY <1>1, <2>4 DEF Used, Min2
    <3>3. Filled = unread /\ Filled' = unread + m
      BY <1>1, <2>1, <3>1 DEF Filled, unread
    <3> HIDE DEF m
    <3>4. ASSUME NEW k \in 0 .. m - 1
          PROVE  WrapAdd(ptail, k) = WrapAdd(chead, unread + k) /\ unread + k \in 0 .. Cap - 1
      BY <1>0, <1>1, <3>2, WrapAddAdd
    <3>5. ASSUME NEW i \in 0 .. (unread + m) - 1
          PROVE  data'[SlotOf(WrapAdd(chead, i))] = Len(got) + 1 + i
      <4> DEFINE s == SlotOf(WrapAdd(chead, i))
      <4>1. s \in Slots /\ i \in 0 .. Cap - 1
        <5>1. i \in 0 .. Cap - 1
          BY <1>1, <3>2
        <5>2. WrapAdd(chead, i) \in Nat
          BY <1>0, <5>1 DEF WrapAdd, Index
        <5> QED BY <5>1, <5>2, SlotInRing
      <4>2. \A k \in Off(s) : unread + k = i
        BY <1>0, <1>1, <3>4, <4>1, SlotInjective
      <4>3. data'[s] = IF Off(s) = {} THEN data[s]
                       ELSE sent + 1 + (CHOOSE k \in Off(s) : TRUE)
        BY <3>1, <4>1
      <4>4. CASE i < unread
        <5>1. Off(s) = {}
          BY <1>1, <3>2, <4>2, <4>4
        <5>2. data[s] = Len(got) + 1 + i
          BY <1>1, <3>3, <4>4 DEF Stored
        <5> QED BY <4>3, <5>1, <5>2
      <4>5. CASE i >= unread
        <5>1. i - unread \in 0 .. m - 1 /\ unread + (i - unread) = i
          BY <1>1, <3>2, <4>5
        <5>2. SlotOf(WrapAdd(ptail, i - unread)) = s
          BY <3>4, <5>1
        <5>3. i - unread \in Off(s)
          BY <5>1, <5>2
        <5>4. (CHOOSE k \in Off(s) : TRUE) \in Off(s)
          BY <5>3, Zenon
        <5>5. (CHOOSE k \in Off(s) : TRUE) \in 0 .. m - 1
          BY <5>4
        <5> DEFINE c == CHOOSE k \in Off(s) : TRUE
        <5>6. unread + c = i /\ c \in 0 .. m - 1
          BY <4>2, <5>4, <5>5
        <5>7. data'[s] = sent + 1 + c
          BY <4>3, <5>3
        <5> HIDE DEF c, s
        <5> QED BY <1>0, <1>1, <5>6, <5>7, <3>2 DEF s
      <4> QED BY <4>4, <4>5, <1>1
    <3>6. Stored'
      BY <2>1, <3>3, <3>5 DEF Stored
    <3> QED BY <2>2, <3>6
  <2> QED BY <2>0, <2>3, <2>4
<1>3. CASE Publish
  <2>1. /\ ppc = "publish" /\ ppc' = "fence" /\ ptail' = WrapAdd(ptail, pn)
        /\ UNCHANGED <<data, chead, got>>
    BY <1>3 DEF Publish
  <2>2. Filled' = Filled
    BY <1>0, <1>1, <2>1 DEF Filled, WrapAdd, WrapSub, Index, unread
  <2> QED BY <2>1, <2>2 DEF Stored, Fifo
<1>4. CASE \E n \in 1 .. Cap : Pop(n)
  <2> PICK n \in 1 .. Cap : Pop(n)
    BY <1>4
  <2> DEFINE avail == Available(tail)
             m     == Min2(avail, n)
             s     == [i \in 1 .. m |-> data[SlotOf(WrapAdd(chead, i - 1))]]
  <2>1. UNCHANGED <<data, ptail, pn, ppc>>
    BY DEF Pop
  <2>2. CASE ~Readable(avail)
    <3>1. UNCHANGED <<chead, got>>
      BY <2>2 DEF Pop
    <3> QED BY <2>1, <3>1 DEF Stored, Filled, Fifo
  <2>3. CASE Readable(avail)
    <3>1. m \in 1 .. Cap /\ m <= avail
      BY <1>1, <2>3 DEF Readable, Min2
    <3>2. m <= unread
      BY <1>1, <3>1 DEF Available
    <3> HIDE DEF m
    <3>3. s \in Seq(Nat) /\ Len(s) = m
      BY <1>0, <3>1, CopyIsSeq
    <3>4. got' = got \o s /\ chead' = WrapAdd(chead, m)
      BY <2>3 DEF Pop, m
    <3>5. /\ Len(got') = Len(got) + m
          /\ \A i \in 1 .. Len(got) + m :
               got'[i] = IF i <= Len(got) THEN got[i] ELSE s[i - Len(got)]
      <4> HIDE DEF s
      <4> QED BY <1>0, <3>3, <3>4, ConcatProperties
    <3>6. WrapSub(ptail, WrapAdd(chead, m)) = unread - m
      BY <1>0, <1>1, <3>1, <3>2 DEF WrapAdd, WrapSub, Index, unread
    <3>7. Filled' = Filled - m /\ Filled \in Nat /\ Filled <= Cap /\ unread <= Filled
      BY <1>0, <1>1, <2>1, <3>1, <3>2, <3>4, <3>6 DEF Filled, unread
    <3>8. \A i \in 1 .. m : s[i] = Len(got) + i
      <4> TAKE i \in 1 .. m
      <4>1. s[i] = data[SlotOf(WrapAdd(chead, i - 1))] /\ i - 1 \in 0 .. Filled - 1
        BY <1>1, <3>1, <3>2, <3>7
      <4>2. data[SlotOf(WrapAdd(chead, i - 1))] = Len(got) + 1 + (i - 1)
        BY <4>1 DEF Stored
      <4> HIDE DEF s
      <4> QED BY <1>0, <4>1, <4>2
    <3>9. Fifo'
      <4> HIDE DEF s
      <4> SUFFICES ASSUME NEW i \in 1 .. Len(got) + m PROVE got'[i] = i
        BY <3>5 DEF Fifo
      <4>1. CASE i <= Len(got)
        BY <1>0, <3>1, <3>5, <4>1 DEF Fifo
      <4>2. CASE i > Len(got)
        <5>1. i - Len(got) \in 1 .. m
          BY <1>0, <3>1, <4>2
        <5>2. s[i - Len(got)] = Len(got) + (i - Len(got))
          BY <3>8, <5>1
        <5> QED BY <1>0, <3>1, <3>5, <4>2, <5>2
      <4> QED BY <1>0, <3>1, <4>1, <4>2
    <3>10. Stored'
      <4> HIDE DEF s
      <4> SUFFICES ASSUME NEW i \in 0 .. (Filled - m) - 1
                   PROVE  data[SlotOf(WrapAdd(WrapAdd(chead, m), i))] = Len(got) + m + 1 + i
        BY <2>1, <3>4, <3>5, <3>7 DEF Stored
      <4>1. WrapAdd(WrapAdd(chead, m), i) = WrapAdd(chead, m + i) /\ m + i \in 0 .. Filled - 1
        BY <1>0, <3>1, <3>7, WrapAddAdd
      <4>2. data[SlotOf(WrapAdd(chead, m + i))] = Len(got) + 1 + (m + i)
        BY <4>1 DEF Stored
      <4> QED BY <1>0, <3>1, <3>7, <4>1, <4>2
    <3> QED BY <3>9, <3>10
  <2> QED BY <2>2, <2>3
<1>5. CASE UNCHANGED <<data, ptail, chead, pn, got>> /\ (ppc' = "publish" => ppc = "publish")
  <2>1. Filled' <= Filled /\ Filled \in Nat /\ Filled' \in Nat
    BY <1>0, <1>1, <1>5 DEF Filled, unread
  <2>2. \A i \in 0 .. Filled' - 1 : i \in 0 .. Filled - 1
    <3>1. \A a, b \in Nat : a <= b => \A i \in 0 .. a - 1 : i \in 0 .. b - 1
      OBVIOUS
    <3> QED BY <2>1, <3>1
  <2>3. Fifo'
    BY <1>5 DEF Fifo
  <2>4. Stored'
    <3> HIDE DEF Filled
    <3> QED BY <1>5, <2>2 DEF Stored
  <2> QED BY <2>3, <2>4
<1>6. \/ (\E n \in 1 .. Total : PushCopy(n)) \/ Publish \/ (\E n \in 1 .. Cap : Pop(n))
      \/ UNCHANGED <<data, ptail, chead, pn, got>> /\ (ppc' = "publish" => ppc = "publish")
  BY DEF Next, vars, DrainTail, DrainHead, PollWrite, SpuriousWrite, PushRing, ParkForSpace,
         RecheckSpace, WriteDoorbell, PollRead, SpuriousRead, PopRing, ParkForData,
         RecheckData, ReadDoorbell, WakeProducer, WakeConsumer, OtherHalfDrainsP,
         OtherHalfDrainsC, CloseProducer, CloseConsumer, StartWrite, StartRead
<1> QED BY <1>2, <1>3, <1>4, <1>5, <1>6

\* What the reader's application gets is what the writer's gave, byte for byte
\* and in order, for every ring size and across the wrap of the index.
THEOREM InOrder == Spec => []Fifo
<1>1. Init => Stored /\ Fifo
  <2> SUFFICES ASSUME Init PROVE Filled = 0 /\ Len(got) = 0
    BY DEF Stored, Fifo
  <2> QED BY DEF Init, Filled, WrapSub, Index
<1>2. IInv /\ Stored /\ Fifo /\ [Next]_vars => (Stored /\ Fifo)'
  BY OrderStep
<1> QED BY <1>1, <1>2, Invariance, PTL DEF Spec

\* Neither side ever takes the other's stale index for a corrupted one.
THEOREM NeverReportsCorruption == Spec => []NeverCorrupt
BY Invariance, PTL DEF IInv

\* A producer asleep on a ring with free space has a wake-up on its way.
THEOREM SpaceWakeupKept == Spec => []NoLostSpaceWakeup
BY Invariance, PTL DEF IInv
=============================================================================
