------------------------- MODULE SubsequencesProofs -------------------------
(***************************************************************************)
(* What Only computes, for every sequence and every set.  The library's    *)
(* induction theorems take an operator; these proofs use the least element *)
(* of a set of natural numbers instead, which is first-order.              *)
(***************************************************************************)
EXTENDS Subsequences, SequenceTheorems, WellFoundedInduction, TLAPS

\* A set of natural numbers that is not empty has a least element.
LEMMA LeastNat ==
    ASSUME NEW T, T \subseteq Nat, T # {}
    PROVE  \E m \in T : \A n \in T : m <= n
<1>1. PICK x \in T : \A y \in T : ~ (<<y, x>> \in OpToRel(<,Nat))
  BY WFMin, NatLessThanWellFounded, Zenon
<1>2. \A y \in T : ~(y < x)
  BY <1>1 DEF OpToRel
<1> QED BY <1>2

\* Induction up to n, for a set of numbers: 0 is in it and it is closed under
\* the step from m - 1 to m.
LEMMA InductionTo ==
    ASSUME NEW n \in Nat, NEW P, 0 \in P, \A m \in 1 .. n : m - 1 \in P => m \in P
    PROVE  \A m \in 0 .. n : m \in P
<1> DEFINE T == {m \in 0 .. n : m \notin P}
<1> SUFFICES ASSUME T # {} PROVE FALSE
  OBVIOUS
<1>0. T \subseteq Nat
  OBVIOUS
<1>1. PICK m \in T : \A k \in T : m <= k
  <2> HIDE DEF T
  <2> QED BY <1>0, LeastNat
<1>2. m \in 1 .. n
  BY <1>1
<1>3. m - 1 \in 0 .. n /\ m - 1 \notin T
  BY <1>1, <1>2
<1> QED BY <1>1, <1>2, <1>3

\* One step of the recursion of Kept.
KeptStep(f, s, S, i) ==
    IF i = 0 THEN <<>> ELSE IF s[i] \in S THEN Append(f[i - 1], s[i]) ELSE f[i - 1]

\* The recursion has a solution, so Kept is one.
LEMMA KeptUnfolds ==
    ASSUME NEW s, Len(s) \in Nat, NEW S
    PROVE  Kept(s, S) = [i \in 0 .. Len(s) |-> KeptStep(Kept(s, S), s, S, i)]
<1> DEFINE n == Len(s)
           Sol(f, m) == f = [i \in 0 .. m |-> KeptStep(f, s, S, i)]
           P == {m \in Nat : \E f : Sol(f, m)}
<1>1. 0 \in P
  <2> DEFINE f0 == [i \in 0 .. 0 |-> <<>>]
  <2>1. Sol(f0, 0)
    BY DEF KeptStep
  <2> QED BY <2>1
<1>2. ASSUME NEW m \in 1 .. n, m - 1 \in P PROVE m \in P
  <2>0. n \in Nat /\ m \in Nat /\ m # 0 /\ m - 1 \in Nat
    OBVIOUS
  <2>1. PICK f : Sol(f, m - 1)
    BY <1>2
  <2> DEFINE g == [i \in 0 .. m |-> IF i = m THEN KeptStep(f, s, S, m) ELSE f[i]]
  <2>2. \A i \in 0 .. m - 1 : f[i] = KeptStep(f, s, S, i)
    BY <2>1
  <2>3. ASSUME NEW i \in 0 .. m PROVE g[i] = KeptStep(g, s, S, i)
    <3>1. i # 0 => i - 1 \in 0 .. m - 1 /\ g[i - 1] = f[i - 1]
      BY <2>0
    <3>2. KeptStep(g, s, S, i) = KeptStep(f, s, S, i)
      BY <3>1 DEF KeptStep
    <3> QED BY <2>0, <2>2, <3>2
  <2>4. Sol(g, m)
    <3>1. g = [i \in 0 .. m |-> g[i]]
      OBVIOUS
    <3> HIDE DEF g
    <3> QED BY <2>3, <3>1
  <2> QED BY <2>0, <2>4
<1>3. n \in P
  <2>1. n \in Nat
    OBVIOUS
  <2> HIDE DEF P, n
  <2> QED BY <1>1, <1>2, <2>1, InductionTo
<1>4. \E f : f = [i \in 0 .. n |-> KeptStep(f, s, S, i)]
  BY <1>3
<1>5. Kept(s, S) = CHOOSE f : f = [i \in 0 .. n |-> KeptStep(f, s, S, i)]
  BY DEF Kept, KeptStep
<1> QED BY <1>4, <1>5, Zenon

\* Nothing remains of nothing, and each element is kept or left out.
LEMMA KeptStepwise ==
    ASSUME NEW s, Len(s) \in Nat, NEW S
    PROVE  /\ Kept(s, S)[0] = <<>>
           /\ \A i \in 1 .. Len(s) :
                 Kept(s, S)[i] = IF s[i] \in S THEN Append(Kept(s, S)[i - 1], s[i]) ELSE Kept(s, S)[i - 1]
<1> DEFINE k == Kept(s, S)
<1>1. k = [i \in 0 .. Len(s) |-> KeptStep(k, s, S, i)]
  BY KeptUnfolds
<1> HIDE DEF k
<1>2. \A i \in 0 .. Len(s) : k[i] = KeptStep(k, s, S, i)
  BY <1>1
<1>3. k[0] = <<>>
  BY <1>2 DEF KeptStep
<1>4. ASSUME NEW i \in 1 .. Len(s)
      PROVE  k[i] = IF s[i] \in S THEN Append(k[i - 1], s[i]) ELSE k[i - 1]
  <2>1. i # 0 /\ i \in 0 .. Len(s)
    OBVIOUS
  <2> QED BY <1>2, <2>1, Zenon DEF KeptStep
<1> QED BY <1>3, <1>4 DEF k

\* The same, one element at a time.
LEMMA KeptAt ==
    ASSUME NEW s, Len(s) \in Nat, NEW S, NEW i \in 1 .. Len(s), NEW k, k = Kept(s, S)[i - 1], NEW x, x = s[i]
    PROVE  /\ x \in S => Kept(s, S)[i] = Append(k, x)
           /\ x \notin S => Kept(s, S)[i] = k
<1>1. Kept(s, S)[i] = IF s[i] \in S THEN Append(Kept(s, S)[i - 1], s[i]) ELSE Kept(s, S)[i - 1]
  BY KeptStepwise
<1>2. CASE x \in S
  BY <1>1, <1>2, Zenon
<1>3. CASE x \notin S
  BY <1>1, <1>3, Zenon
<1> QED BY <1>2, <1>3

\* What remains are elements of the sequence that are in the set, and no more
\* than there were.
LEMMA KeptType ==
    ASSUME NEW A, NEW s \in Seq(A), NEW S, NEW j \in 0 .. Len(s)
    PROVE  /\ Kept(s, S)[j] \in Seq(A \intersect S)
           /\ Len(Kept(s, S)[j]) <= j
<1> DEFINE B == A \intersect S
           P == {i \in 0 .. Len(s) : Kept(s, S)[i] \in Seq(B) /\ Len(Kept(s, S)[i]) <= i}
<1>0. Len(s) \in Nat
  OBVIOUS
<1>1. 0 \in P
  <2>1. Kept(s, S)[0] = <<>> /\ 0 \in 0 .. Len(s)
    BY <1>0, KeptStepwise
  <2>2. Kept(s, S)[0] \in Seq(B)
    BY <2>1
  <2>3. Len(Kept(s, S)[0]) <= 0
    BY <2>1
  <2> HIDE DEF B
  <2> QED BY <1>0, <2>2, <2>3
<1>2. ASSUME NEW m \in 1 .. Len(s), m - 1 \in P PROVE m \in P
  <2> DEFINE p == Kept(s, S)[m - 1]
  <2>1. Kept(s, S)[m] = IF s[m] \in S THEN Append(p, s[m]) ELSE p
    BY <1>0, KeptStepwise
  <2>2. p \in Seq(B) /\ Len(p) <= m - 1
    BY <1>2
  <2>3. s[m] \in A
    OBVIOUS
  <2> HIDE DEF p
  <2>4. CASE s[m] \in S
    <3>1. s[m] \in B
      BY <2>3, <2>4
    <3>2. Append(p, s[m]) \in Seq(B) /\ Len(Append(p, s[m])) = Len(p) + 1 /\ Len(p) \in Nat
      <4> HIDE DEF B
      <4> QED BY <2>2, <3>1, AppendProperties, LenProperties
    <3>3. Kept(s, S)[m] = Append(p, s[m]) /\ m \in 0 .. Len(s)
      BY <2>1, <2>4
    <3>4. Len(Append(p, s[m])) <= m
      BY <2>2, <3>2
    <3> QED BY <3>2, <3>3, <3>4
  <2>5. CASE s[m] \notin S
    <3>1. Len(p) \in Nat
      BY <2>2
    <3> QED BY <2>1, <2>2, <2>5, <3>1
  <2> QED BY <2>4, <2>5
<1>3. j \in P
  <2> HIDE DEF P
  <2> QED BY <1>0, <1>1, <1>2, InductionTo
<1> QED BY <1>3

\* Nothing remains of the empty sequence.
LEMMA OnlyEmpty == ASSUME NEW S PROVE Only(<<>>, S) = <<>>
<1>1. Len(<<>>) = 0
  OBVIOUS
<1>2. Kept(<<>>, S)[0] = <<>>
  BY <1>1, KeptStepwise
<1> QED BY <1>1, <1>2 DEF Only

\* Only is a sequence of elements of both, not longer than its argument.
LEMMA OnlyType ==
    ASSUME NEW A, NEW s \in Seq(A), NEW S
    PROVE  /\ Only(s, S) \in Seq(A \intersect S) /\ Only(s, S) \in Seq(A)
           /\ Len(Only(s, S)) <= Len(s) /\ Len(Only(s, S)) \in Nat
<1>1. Len(s) \in 0 .. Len(s)
  OBVIOUS
<1>2. Kept(s, S)[Len(s)] \in Seq(A \intersect S) /\ Len(Kept(s, S)[Len(s)]) <= Len(s)
  BY <1>1, KeptType
<1>3. Only(s, S) \in Seq(A \intersect S) /\ Len(Only(s, S)) <= Len(s)
  BY <1>2 DEF Only
<1>4. Only(s, S) \in Seq(A) /\ Len(Only(s, S)) \in Nat
  BY <1>3
<1> QED BY <1>3, <1>4

\* What remains of a beginning depends on that beginning only.
LEMMA KeptLocal ==
    ASSUME NEW s, Len(s) \in Nat, NEW t, Len(t) \in Nat, NEW S, NEW n \in Nat, n <= Len(s), n <= Len(t),
           \A i \in 1 .. n : s[i] = t[i]
    PROVE  Kept(s, S)[n] = Kept(t, S)[n]
<1> DEFINE P == {j \in 0 .. n : Kept(s, S)[j] = Kept(t, S)[j]}
<1>1. 0 \in P
  BY KeptStepwise
<1>2. ASSUME NEW m \in 1 .. n, m - 1 \in P PROVE m \in P
  <2>1. m \in 1 .. Len(s) /\ m \in 1 .. Len(t) /\ m \in 0 .. n
    OBVIOUS
  <2>2. Kept(s, S)[m] = IF s[m] \in S THEN Append(Kept(s, S)[m - 1], s[m]) ELSE Kept(s, S)[m - 1]
    BY <2>1, KeptStepwise
  <2>3. Kept(t, S)[m] = IF t[m] \in S THEN Append(Kept(t, S)[m - 1], t[m]) ELSE Kept(t, S)[m - 1]
    BY <2>1, KeptStepwise
  <2>4. Kept(s, S)[m - 1] = Kept(t, S)[m - 1] /\ s[m] = t[m]
    BY <1>2
  <2>5. Kept(s, S)[m] = Kept(t, S)[m]
    <3>1. CASE s[m] \in S
      BY <2>2, <2>3, <2>4, <3>1
    <3>2. CASE s[m] \notin S
      BY <2>2, <2>3, <2>4, <3>2
    <3> QED BY <3>1, <3>2
  <2> QED BY <2>1, <2>5
<1> HIDE DEF P
<1>3. \A j \in 0 .. n : j \in P
  BY <1>1, <1>2, InductionTo
<1> QED BY <1>3 DEF P

\* Appending to a concatenation appends to its second part.
LEMMA AppendConcat ==
    ASSUME NEW A, NEW o \in Seq(A), NEW p \in Seq(A), NEW x \in A
    PROVE  o \o Append(p, x) = Append(o \o p, x)
<1> DEFINE l == Append(o \o p, x)
           r == o \o Append(p, x)
<1>1. l \in Seq(A) /\ r \in Seq(A) /\ Len(l) = Len(o) + Len(p) + 1 /\ Len(r) = Len(o) + Len(p) + 1
  OBVIOUS
<1>2. ASSUME NEW i \in 1 .. Len(l) PROVE l[i] = r[i]
  OBVIOUS
<1> QED
  <2> HIDE DEF l, r
  <2>1. l = r
    BY <1>1, <1>2, SeqEqual
  <2> QED BY <2>1 DEF l, r

\* Only of a longer sequence is Only of its parts: what remains of the first
\* part and j elements more is what remains of both.
LEMMA OnlyConcat ==
    ASSUME NEW A, NEW s \in Seq(A), NEW t \in Seq(A), NEW S
    PROVE  Only(s \o t, S) = Only(s, S) \o Only(t, S)
<1> DEFINE u == s \o t
<1>h. /\ u \in Seq(A) /\ Len(u) = Len(s) + Len(t) /\ Len(t) \in 0 .. Len(t)
      /\ \A i \in 1 .. Len(s) : u[i] = s[i]
      /\ \A i \in 1 .. Len(t) : u[Len(s) + i] = t[i]
  OBVIOUS
<1> HIDE DEF u
<1> DEFINE a == Len(s)
           o == Kept(s, S)[a]
           P == {j \in 0 .. Len(t) : Kept(u, S)[a + j] = o \o Kept(t, S)[j]}
<1>0. a \in Nat /\ Len(t) \in Nat /\ Len(u) \in Nat /\ a <= Len(u) /\ a \in 0 .. a
  BY <1>h
<1>a. o \in Seq(A)
  <2>1. o \in Seq(A \intersect S)
    BY <1>0, KeptType
  <2> HIDE DEF o
  <2> QED BY <2>1
<1>1. 0 \in P
  <2>2. Kept(u, S)[a] = Kept(s, S)[a]
    <3>1. a <= Len(s) /\ Len(s) \in Nat /\ \A i \in 1 .. a : u[i] = s[i]
      BY <1>0, <1>h
    <3> HIDE DEF a
    <3> QED BY <1>0, <3>1, KeptLocal
  <2>3. Kept(t, S)[0] = <<>>
    BY <1>0, KeptStepwise
  <2>4. o \o <<>> = o
    BY <1>a, ConcatEmptySeq
  <2>5. Kept(u, S)[a + 0] = o
    BY <1>0, <2>2
  <2>6. Kept(u, S)[a + 0] = o \o Kept(t, S)[0] /\ 0 \in 0 .. Len(t)
    <3> HIDE DEF o
    <3> QED BY <1>0, <2>3, <2>4, <2>5
  <2> HIDE DEF o
  <2> QED BY <2>6
<1>2. ASSUME NEW m \in 1 .. Len(t), m - 1 \in P PROVE m \in P
  <2> DEFINE i == a + m
             p == Kept(t, S)[m - 1]
  <2>1. i \in 1 .. Len(u) /\ m - 1 \in 0 .. Len(t) /\ m \in 0 .. Len(t) /\ i - 1 = a + (m - 1)
    BY <1>0, <1>h
  <2> DEFINE q == Kept(u, S)[i - 1]
             x == u[i]
  <2>2. (x \in S => Kept(u, S)[i] = Append(q, x)) /\ (x \notin S => Kept(u, S)[i] = q)
    <3>1. q = Kept(u, S)[i - 1] /\ x = u[i] /\ Len(u) \in Nat /\ i \in 1 .. Len(u)
      BY <1>0, <2>1
    <3> HIDE DEF i, q, x
    <3> QED BY <3>1, KeptAt
  <2>3. Kept(t, S)[m] = IF t[m] \in S THEN Append(p, t[m]) ELSE p
    BY <1>0, KeptStepwise
  <2>4. Kept(u, S)[i - 1] = o \o p
    BY <1>2, <2>1
  <2>5. p \in Seq(A) /\ t[m] \in A /\ u[i] = t[m]
    <3>1. p \in Seq(A \intersect S)
      BY <2>1, KeptType
    <3>2. u[i] = t[m]
      BY <1>h
    <3> HIDE DEF p
    <3> QED BY <3>1, <3>2
  <2>6. o \o Append(p, t[m]) = Append(o \o p, t[m])
    <3> HIDE DEF o, p
    <3> QED BY <1>a, <2>5, AppendConcat
  <2>7. Kept(u, S)[i] = o \o Kept(t, S)[m]
    <3> HIDE DEF o, p, i
    <3>1. CASE t[m] \in S
      BY <2>2, <2>3, <2>4, <2>5, <2>6, <3>1
    <3>2. CASE t[m] \notin S
      BY <2>2, <2>3, <2>4, <2>5, <3>2
    <3> QED BY <3>1, <3>2
  <2> QED BY <2>1, <2>7
<1>3. \A j \in 0 .. Len(t) : j \in P
  <2> HIDE DEF P
  <2> QED BY <1>0, <1>1, <1>2, InductionTo
<1> QED BY <1>h, <1>3 DEF Only, u

\* One element at a time.
LEMMA OnlySingle ==
    ASSUME NEW x, NEW S PROVE Only(<<x>>, S) = IF x \in S THEN <<x>> ELSE <<>>
<1> DEFINE e == <<x>>
<1>1. Len(e) = 1 /\ e[1] = x /\ Len(e) \in Nat /\ 1 \in 1 .. Len(e) /\ 1 - 1 = 0
  OBVIOUS
<1> HIDE DEF e
<1>2. Kept(e, S)[0] = <<>>
  BY <1>1, KeptStepwise
<1>3. Kept(e, S)[1] = IF e[1] \in S THEN Append(Kept(e, S)[1 - 1], e[1]) ELSE Kept(e, S)[1 - 1]
  BY <1>1, KeptStepwise, SMTT(30)
<1>4. Kept(e, S)[1] = IF x \in S THEN Append(<<>>, x) ELSE <<>>
  <2>1. CASE x \in S
    BY <1>1, <1>2, <1>3, <2>1
  <2>2. CASE x \notin S
    BY <1>1, <1>2, <1>3, <2>2
  <2> QED BY <2>1, <2>2
<1>5. Append(<<>>, x) = <<x>>
  OBVIOUS
<1> QED BY <1>1, <1>4, <1>5 DEF Only, e

\* An element at the end is kept or left out.
LEMMA OnlyAppend ==
    ASSUME NEW A, NEW s \in Seq(A), NEW x \in A, NEW S
    PROVE  Only(Append(s, x), S) = IF x \in S THEN Append(Only(s, S), x) ELSE Only(s, S)
<1>1. Append(s, x) = s \o <<x>> /\ <<x>> \in Seq(A)
  OBVIOUS
<1>2. Only(s \o <<x>>, S) = Only(s, S) \o Only(<<x>>, S)
  <2> DEFINE e == <<x>>
  <2>1. e \in Seq(A)
    BY <1>1
  <2> HIDE DEF e
  <2>2. Only(s \o e, S) = Only(s, S) \o Only(e, S)
    BY <2>1, OnlyConcat
  <2> QED BY <2>2 DEF e
<1>3. Only(s, S) \in Seq(A)
  BY OnlyType
<1> DEFINE o == Only(s, S)
<1> HIDE DEF o
<1>4. o \o <<x>> = Append(o, x) /\ o \o <<>> = o
  BY <1>3 DEF o
<1> QED BY <1>1, <1>2, <1>4, OnlySingle, Zenon DEF o

\* The elements of a sequence, and that none of them occurs twice.
Elements(s) == {s[i] : i \in DOMAIN s}
NoRepeats(s) == \A i, j \in DOMAIN s : s[i] = s[j] => i = j

\* An element at the end is one more.
LEMMA AppendElements ==
    ASSUME NEW A, NEW s \in Seq(A), NEW x \in A
    PROVE  /\ Elements(Append(s, x)) = Elements(s) \union {x}
           /\ NoRepeats(s) /\ x \notin Elements(s) => NoRepeats(Append(s, x))
<1> DEFINE q == Append(s, x)
<1>1. q \in Seq(A) /\ DOMAIN q = 1 .. Len(s) + 1 /\ DOMAIN s = 1 .. Len(s) /\ Len(s) \in Nat
  OBVIOUS
<1>2. q[Len(s) + 1] = x /\ \A i \in 1 .. Len(s) : q[i] = s[i]
  OBVIOUS
<1> HIDE DEF q
<1>3. Elements(q) = Elements(s) \union {x}
  BY <1>1, <1>2 DEF Elements
<1>4. ASSUME NoRepeats(s), x \notin Elements(s) PROVE NoRepeats(q)
  <2> SUFFICES ASSUME NEW i \in DOMAIN q, NEW j \in DOMAIN q, q[i] = q[j] PROVE i = j
    BY DEF NoRepeats
  <2>1. CASE i \in 1 .. Len(s) /\ j \in 1 .. Len(s)
    BY <1>1, <1>2, <1>4, <2>1 DEF NoRepeats
  <2>2. CASE i \in 1 .. Len(s) /\ j = Len(s) + 1
    BY <1>1, <1>2, <1>4, <2>2 DEF Elements
  <2>3. CASE i = Len(s) + 1 /\ j \in 1 .. Len(s)
    BY <1>1, <1>2, <1>4, <2>3 DEF Elements
  <2>4. CASE i = Len(s) + 1 /\ j = Len(s) + 1
    BY <2>4
  <2> QED BY <1>1, <2>1, <2>2, <2>3, <2>4
<1> QED BY <1>3, <1>4 DEF q

\* Only keeps the elements that are in the set, and repeats none that was not repeated.
LEMMA OnlyElements ==
    ASSUME NEW A, NEW s \in Seq(A), NEW S
    PROVE  /\ Elements(Only(s, S)) = Elements(s) \intersect S
           /\ NoRepeats(s) => NoRepeats(Only(s, S))
<1> DEFINE k == Kept(s, S)
           First(j) == {s[i] : i \in 1 .. j}
           P == {j \in 0 .. Len(s) : /\ Elements(k[j]) = First(j) \intersect S
                                     /\ NoRepeats(s) => NoRepeats(k[j])}
<1>0. Len(s) \in Nat /\ DOMAIN s = 1 .. Len(s)
  OBVIOUS
<1>1. 0 \in P
  <2>1. k[0] = <<>>
    BY <1>0, KeptStepwise
  <2>2. Elements(<<>>) = {} /\ NoRepeats(<<>>)
    BY DEF Elements, NoRepeats
  <2> HIDE DEF k
  <2> QED BY <1>0, <2>1, <2>2
<1>2. ASSUME NEW m \in 1 .. Len(s), m - 1 \in P PROVE m \in P
  <2> DEFINE p == k[m - 1]
             x == s[m]
  <2>0. m - 1 \in 0 .. Len(s) /\ m \in 0 .. Len(s) /\ m \in Nat
    BY <1>0
  <2>1. (x \in S => k[m] = Append(p, x)) /\ (x \notin S => k[m] = p)
    BY <1>0, KeptAt
  <2>2. p \in Seq(A) /\ x \in A
    <3>1. p \in Seq(A \intersect S)
      BY <2>0, KeptType
    <3> HIDE DEF p
    <3> QED BY <3>1
  <2>3. Elements(p) = First(m - 1) \intersect S /\ (NoRepeats(s) => NoRepeats(p))
    BY <1>2
  <2>4. First(m) = First(m - 1) \union {x}
    BY <2>0
  <2>5. NoRepeats(s) => x \notin First(m - 1)
    BY <1>0, <2>0 DEF NoRepeats
  <2> HIDE DEF k, p, x, First
  <2>6. CASE x \in S
    <3>1. /\ Elements(k[m]) = Elements(p) \union {x}
          /\ NoRepeats(p) /\ x \notin Elements(p) => NoRepeats(k[m])
      <4>1. k[m] = Append(p, x)
        BY <2>1, <2>6
      <4>2. /\ Elements(Append(p, x)) = Elements(p) \union {x}
            /\ NoRepeats(p) /\ x \notin Elements(p) => NoRepeats(Append(p, x))
        BY <2>2, AppendElements, Zenon
      <4> QED BY <4>1, <4>2, Zenon
    <3>2. Elements(k[m]) = First(m) \intersect S
      BY <2>3, <2>4, <2>6, <3>1
    <3>3. NoRepeats(s) => NoRepeats(k[m])
      BY <2>3, <2>5, <3>1
    <3> QED BY <2>0, <3>2, <3>3
  <2>7. CASE x \notin S
    <3>1. k[m] = p
      BY <2>1, <2>7
    <3>2. Elements(k[m]) = First(m) \intersect S
      BY <2>3, <2>4, <2>7, <3>1
    <3> QED BY <2>0, <2>3, <3>1, <3>2
  <2> QED BY <2>6, <2>7
<1>3. Len(s) \in P
  <2>1. Len(s) \in 0 .. Len(s)
    BY <1>0
  <2> HIDE DEF P
  <2> QED BY <1>0, <1>1, <1>2, <2>1, InductionTo
<1>4. First(Len(s)) = Elements(s)
  BY <1>0 DEF Elements
<1> QED BY <1>3, <1>4 DEF Only

\* All of a sequence in the set remains, and nothing of one outside it.
LEMMA OnlyAllOrNone ==
    ASSUME NEW A, NEW s \in Seq(A), NEW S
    PROVE  /\ A \subseteq S => Only(s, S) = s
           /\ A \intersect S = {} => Only(s, S) = <<>>
<1>1. ASSUME A \subseteq S PROVE Only(s, S) = s
  <2> DEFINE k == Kept(s, S)
             P == {j \in 0 .. Len(s) : k[j] = SubSeq(s, 1, j)}
  <2>0. Len(s) \in Nat /\ DOMAIN s = 1 .. Len(s)
    OBVIOUS
  <2>1. 0 \in P
    <3>1. k[0] = <<>>
      BY <2>0, KeptStepwise
    <3>2. SubSeq(s, 1, 0) = <<>> /\ 0 \in 0 .. Len(s)
      OBVIOUS
    <3> HIDE DEF k
    <3> QED BY <3>1, <3>2
  <2>2. ASSUME NEW m \in 1 .. Len(s), m - 1 \in P PROVE m \in P
    <3>1. s[m] \in S /\ m \in 0 .. Len(s)
      BY <1>1
    <3>2. k[m] = Append(k[m - 1], s[m])
      BY <2>0, <3>1, KeptAt
    <3>3. k[m - 1] = SubSeq(s, 1, m - 1)
      BY <2>2
    <3>4. Append(SubSeq(s, 1, m - 1), s[m]) = SubSeq(s, 1, m)
      OBVIOUS
    <3>5. k[m] = SubSeq(s, 1, m)
      <4> HIDE DEF k
      <4> QED BY <3>2, <3>3, <3>4
    <3> HIDE DEF k
    <3> QED BY <3>1, <3>5
  <2>3. Len(s) \in P
    <3>1. Len(s) \in 0 .. Len(s)
      BY <2>0
    <3> HIDE DEF P
    <3> QED BY <2>0, <2>1, <2>2, <3>1, InductionTo
  <2>4. SubSeq(s, 1, Len(s)) = s
    OBVIOUS
  <2> QED BY <2>3, <2>4 DEF Only
<1>2. ASSUME A \intersect S = {} PROVE Only(s, S) = <<>>
  <2>1. Only(s, S) \in Seq({})
    BY <1>2, OnlyType
  <2> DEFINE o == Only(s, S)
  <2> HIDE DEF o
  <2>2. o = <<>>
    BY <2>1 DEF o
  <2> QED BY <2>2 DEF o
<1> QED BY <1>1, <1>2
=============================================================================
