-------------------------- MODULE AofPipelineProofs --------------------------
(***************************************************************************)
(* The append-only file keeps what it promises, for every number of units, *)
(* queue capacity, fsync policy, failure and crash.                        *)
(***************************************************************************)
EXTENDS AofPipeline, SubsequencesProofs

-----------------------------------------------------------------------------
(* Part one.  What a file of the append-only log looks like, frame by frame, *)
(* and what recovery makes of it: the facts about AofPipeline's operators on *)
(* sequences of frames that the rest of the module uses.                     *)

\* Where a reader is after the first i frames of s: outside of transactions,
\* behind a MULTI, its SELECT or its command, or behind a torn frame.
After(s, i) ==
    IF i = 0 THEN "out"
    ELSE IF s[i].kind = "multi" THEN "multi"
    ELSE IF s[i].kind = "select" /\ i > 1 /\ s[i - 1].kind = "multi" THEN "select"
    ELSE IF s[i].kind = "cmd" /\ s[i].arg \in TxUnits THEN "cmd"
    ELSE IF s[i].kind = "torn" THEN "torn"
    ELSE "out"

\* Frame i is one that append_command_at and append_transaction_at write there.
Fits(s, i) ==
    /\ After(s, i - 1) # "torn"
    /\ i = 1 => s[i] \in {Header, Torn}
    /\ s[i].kind = "header" => i = 1
    /\ s[i].kind = "multi" => After(s, i - 1) = "out"
    /\ s[i].kind = "select" => After(s, i - 1) \in {"out", "multi"}
    /\ s[i].kind = "cmd" => IF s[i].arg \in TxUnits THEN After(s, i - 1) \in {"multi", "select"}
                            ELSE After(s, i - 1) = "out"
    /\ s[i].kind = "exec" => After(s, i - 1) = "cmd"

WellFormed(s) == \A i \in 1 .. Len(s) : Fits(s, i)
Closed(s)     == After(s, Len(s)) = "out"

\* The commands of s, those replay applies, and their order.
CmdAt(s)     == {i \in 1 .. Len(s) : s[i].kind = "cmd"}
CmdsOf(s)    == {s[i].arg : i \in CmdAt(s)}
Done(s, i)   == s[i].arg \in TxUnits => (i < Len(s) /\ s[i + 1].kind = "exec")
Committed(s) == {s[i].arg : i \in {j \in CmdAt(s) : Done(s, j)}}
Ordered(s)   == \A i, j \in CmdAt(s) : i < j => s[i].arg < s[j].arg

\* The last SELECT among the first i frames is that of database d.
LastSelect(s, i, d) ==
    \E j \in 1 .. i : s[j] = Frame("select", d) /\ \A l \in j + 1 .. i : s[l].kind # "select"
Selected(s) == \A i \in CmdAt(s) : LastSelect(s, i, DbOf[s[i].arg])

-----------------------------------------------------------------------------
(* Beginnings of a file.                                                   *)

\* Everything above looks at a frame and those before it.
LEMMA SameBeginning ==
    ASSUME NEW s, NEW t, NEW n \in Nat, \A i \in 1 .. n : s[i] = t[i], NEW i \in 0 .. n
    PROVE  After(s, i) = After(t, i) /\ (i > 0 => (Fits(s, i) <=> Fits(t, i)))
<1>1. ASSUME NEW j \in 0 .. n PROVE After(s, j) = After(t, j)
  <2>1. CASE j = 0
    BY <2>1 DEF After
  <2>2. CASE j = 1
    BY <2>2 DEF After
  <2>3. CASE j > 1
    <3>1. s[j] = t[j] /\ s[j - 1] = t[j - 1]
      BY <2>3
    <3> QED BY <2>3, <3>1 DEF After
  <2> QED BY <2>1, <2>2, <2>3
<1>2. ASSUME i > 0 PROVE Fits(s, i) <=> Fits(t, i)
  <2>1. s[i] = t[i] /\ After(s, i - 1) = After(t, i - 1)
    BY <1>1, <1>2
  <2> QED BY <2>1 DEF Fits
<1> QED BY <1>1, <1>2

First(s, n) == SubSeq(s, 1, n)

\* What is true of a file is true of its beginnings.
LEMMA Beginning ==
    ASSUME NEW s \in Seq(FrameSet), NEW n \in 0 .. Len(s)
    PROVE  /\ First(s, n) \in Seq(FrameSet) /\ Len(First(s, n)) = n /\ \A i \in 1 .. n : First(s, n)[i] = s[i]
           /\ WellFormed(s) => WellFormed(First(s, n))
           /\ Ordered(s) => Ordered(First(s, n))
           /\ Selected(s) => Selected(First(s, n))
           /\ CmdsOf(First(s, n)) \subseteq CmdsOf(s) /\ Committed(First(s, n)) \subseteq Committed(s)
           /\ \A i \in 0 .. n : After(First(s, n), i) = After(s, i)
<1> DEFINE t == First(s, n)
<1>0. n \in Nat /\ n <= Len(s) /\ Len(s) \in Nat
  OBVIOUS
<1>1. t \in Seq(FrameSet) /\ Len(t) = n /\ \A i \in 1 .. n : t[i] = s[i]
  BY DEF First
<1> HIDE DEF t
<1>2. ASSUME NEW i \in 0 .. n PROVE After(t, i) = After(s, i) /\ (i > 0 => (Fits(t, i) <=> Fits(s, i)))
  BY <1>0, <1>1, SameBeginning
<1>3. WellFormed(s) => WellFormed(t)
  BY <1>0, <1>1, <1>2 DEF WellFormed
<1>4. CmdAt(t) = {i \in CmdAt(s) : i <= n}
  BY <1>0, <1>1 DEF CmdAt
<1>5. Ordered(s) => Ordered(t)
  BY <1>0, <1>1, <1>4 DEF Ordered, CmdAt
<1>6. Selected(s) => Selected(t)
  <2> SUFFICES ASSUME Selected(s), NEW i \in CmdAt(t) PROVE LastSelect(t, i, DbOf[t[i].arg])
    BY DEF Selected
  <2>1. i \in CmdAt(s) /\ i \in 1 .. n /\ t[i] = s[i]
    BY <1>0, <1>1, <1>4 DEF CmdAt
  <2>2. PICK j \in 1 .. i : s[j] = Frame("select", DbOf[t[i].arg]) /\ \A l \in j + 1 .. i : s[l].kind # "select"
    BY <2>1 DEF Selected, LastSelect
  <2>3. \A l \in 1 .. i : t[l] = s[l]
    BY <1>0, <1>1, <2>1
  <2>4. t[j] = Frame("select", DbOf[t[i].arg]) /\ \A l \in j + 1 .. i : t[l].kind # "select"
    BY <2>1, <2>2, <2>3
  <2> QED BY <2>4 DEF LastSelect
<1>7. CmdsOf(t) \subseteq CmdsOf(s)
  BY <1>0, <1>1, <1>4 DEF CmdsOf, CmdAt
<1>8. Committed(t) \subseteq Committed(s)
  <2>1. ASSUME NEW i \in CmdAt(t), Done(t, i) PROVE i \in CmdAt(s) /\ Done(s, i) /\ t[i] = s[i]
    BY <1>0, <1>1, <1>4, <2>1 DEF CmdAt, Done
  <2> QED BY <2>1 DEF Committed
<1> QED BY <1>1, <1>2, <1>3, <1>5, <1>6, <1>7, <1>8 DEF t

-----------------------------------------------------------------------------
(* One more frame.                                                         *)

\* The properties of a file with one more frame.
LEMMA OneMore ==
    ASSUME NEW s \in Seq(FrameSet), NEW x \in FrameSet
    PROVE  /\ Append(s, x) \in Seq(FrameSet) /\ Len(Append(s, x)) = Len(s) + 1 /\ Append(s, x)[Len(s) + 1] = x
           /\ \A i \in 1 .. Len(s) : Append(s, x)[i] = s[i]
           /\ \A i \in 0 .. Len(s) : After(Append(s, x), i) = After(s, i)
           /\ (WellFormed(s) /\ Fits(Append(s, x), Len(s) + 1)) => WellFormed(Append(s, x))
           /\ CmdAt(Append(s, x)) = IF x.kind = "cmd" THEN CmdAt(s) \union {Len(s) + 1} ELSE CmdAt(s)
           /\ CmdsOf(Append(s, x)) = IF x.kind = "cmd" THEN CmdsOf(s) \union {x.arg} ELSE CmdsOf(s)
           /\ Committed(s) \subseteq Committed(Append(s, x))
<1> DEFINE t == Append(s, x)
           n == Len(s) + 1
<1>0. Len(s) \in Nat /\ n \in Nat /\ n - 1 = Len(s) /\ n \notin 1 .. Len(s)
  OBVIOUS
<1>1. t \in Seq(FrameSet) /\ Len(t) = n /\ t[n] = x /\ \A i \in 1 .. Len(s) : t[i] = s[i]
  OBVIOUS
<1> HIDE DEF t
<1>2. ASSUME NEW i \in 0 .. Len(s) PROVE After(t, i) = After(s, i) /\ (i > 0 => (Fits(t, i) <=> Fits(s, i)))
  BY <1>0, <1>1, SameBeginning
<1>3. (WellFormed(s) /\ Fits(t, n)) => WellFormed(t)
  BY <1>0, <1>1, <1>2 DEF WellFormed
<1>4. CmdAt(t) = IF x.kind = "cmd" THEN CmdAt(s) \union {n} ELSE CmdAt(s)
  BY <1>0, <1>1 DEF CmdAt
<1>5. CmdsOf(t) = IF x.kind = "cmd" THEN CmdsOf(s) \union {x.arg} ELSE CmdsOf(s)
  <2>1. \A i \in CmdAt(s) : t[i] = s[i]
    BY <1>1 DEF CmdAt
  <2>2. CASE x.kind = "cmd"
    <3>1. CmdAt(t) = CmdAt(s) \union {n} /\ t[n].arg = x.arg
      BY <1>1, <1>4, <2>2
    <3> HIDE DEF n
    <3>2. CmdsOf(t) = {t[i].arg : i \in CmdAt(s)} \union {x.arg}
      BY <3>1 DEF CmdsOf
    <3>3. {t[i].arg : i \in CmdAt(s)} = CmdsOf(s)
      BY <2>1 DEF CmdsOf
    <3> QED BY <2>2, <3>2, <3>3
  <2>3. CASE x.kind # "cmd"
    BY <1>4, <2>1, <2>3 DEF CmdsOf
  <2> QED BY <2>2, <2>3
<1>6. Committed(s) \subseteq Committed(t)
  <2>1. ASSUME NEW i \in CmdAt(s), Done(s, i) PROVE i \in CmdAt(t) /\ Done(t, i) /\ t[i] = s[i]
    BY <1>0, <1>1, <1>4, <2>1 DEF CmdAt, Done
  <2> QED BY <2>1 DEF Committed
<1> QED BY <1>1, <1>2, <1>3, <1>4, <1>5, <1>6 DEF t

\* A frame that is no command leaves the order and the databases alone.
LEMMA NoCommand ==
    ASSUME NEW s \in Seq(FrameSet), NEW x \in FrameSet, x.kind # "cmd"
    PROVE  /\ Ordered(s) => Ordered(Append(s, x))
           /\ Selected(s) => Selected(Append(s, x))
<1> DEFINE t == Append(s, x)
<1>1. Len(s) \in Nat /\ \A i \in 1 .. Len(s) : t[i] = s[i]
  BY OneMore
<1>2. CmdAt(t) = CmdAt(s) /\ CmdAt(s) \subseteq 1 .. Len(s)
  BY OneMore DEF CmdAt
<1> HIDE DEF t
<1>3. Ordered(s) => Ordered(t)
  BY <1>1, <1>2 DEF Ordered
<1>4. ASSUME Selected(s), NEW i \in CmdAt(t) PROVE LastSelect(t, i, DbOf[t[i].arg])
  <2>1. i \in 1 .. Len(s) /\ t[i] = s[i] /\ LastSelect(s, i, DbOf[t[i].arg])
    BY <1>1, <1>2, <1>4 DEF Selected
  <2>2. PICK j \in 1 .. i : s[j] = Frame("select", DbOf[t[i].arg]) /\ \A l \in j + 1 .. i : s[l].kind # "select"
    BY <2>1 DEF LastSelect
  <2>3. \A l \in 1 .. i : t[l] = s[l]
    BY <1>1, <2>1
  <2>4. t[j] = Frame("select", DbOf[t[i].arg]) /\ \A l \in j + 1 .. i : t[l].kind # "select"
    BY <2>1, <2>2, <2>3
  <2> QED BY <2>4 DEF LastSelect
<1> QED BY <1>3, <1>4 DEF Selected, t

\* The last SELECT stays the last behind any other frame.
LEMMA SelectStays ==
    ASSUME NEW s \in Seq(FrameSet), NEW x \in FrameSet, NEW d
    PROVE  /\ (LastSelect(s, Len(s), d) /\ x.kind # "select") => LastSelect(Append(s, x), Len(s) + 1, d)
           /\ x = Frame("select", d) => LastSelect(Append(s, x), Len(s) + 1, d)
<1> DEFINE t == Append(s, x)
           n == Len(s) + 1
<1>1. Len(s) \in Nat /\ n \in Nat /\ t[n] = x /\ \A i \in 1 .. Len(s) : t[i] = s[i]
  BY OneMore
<1> HIDE DEF t
<1>2. ASSUME LastSelect(s, Len(s), d), x.kind # "select" PROVE LastSelect(t, n, d)
  <2>1. PICK j \in 1 .. Len(s) : s[j] = Frame("select", d) /\ \A l \in j + 1 .. Len(s) : s[l].kind # "select"
    BY <1>2 DEF LastSelect
  <2>2. j \in 1 .. n /\ t[j] = Frame("select", d)
    BY <1>1, <2>1
  <2>3. ASSUME NEW l \in j + 1 .. n PROVE t[l].kind # "select"
    <3>1. CASE l = n
      BY <1>1, <1>2, <3>1
    <3>2. CASE l # n
      <4>1. l \in j + 1 .. Len(s) /\ l \in 1 .. Len(s)
        BY <1>1, <2>1, <3>2
      <4> QED BY <1>1, <2>1, <4>1
    <3> QED BY <3>1, <3>2
  <2> QED BY <2>2, <2>3 DEF LastSelect
<1>3. ASSUME x = Frame("select", d) PROVE LastSelect(t, n, d)
  <2>1. n \in 1 .. n /\ t[n] = Frame("select", d) /\ n + 1 .. n = {}
    BY <1>1, <1>3
  <2> QED BY <2>1 DEF LastSelect
<1> QED BY <1>2, <1>3 DEF t

\* A command behind the SELECT of its database, later than those before it.
LEMMA OneCommand ==
    ASSUME NEW s \in Seq(FrameSet), NEW u \in Units, NEW x, x = Frame("cmd", u)
    PROVE  /\ (Ordered(s) /\ \A v \in CmdsOf(s) : v < u) => Ordered(Append(s, x))
           /\ (Selected(s) /\ LastSelect(s, Len(s), DbOf[u])) => Selected(Append(s, x))
<1> DEFINE t == Append(s, x)
           n == Len(s) + 1
<1>0. x \in FrameSet /\ x.kind = "cmd" /\ x.arg = u
  BY UnitAssumption DEF Frame, FrameSet, Kinds, Units
<1>1. Len(s) \in Nat /\ n \in Nat /\ t[n] = x /\ \A i \in 1 .. Len(s) : t[i] = s[i]
  BY <1>0, OneMore
<1>2. CmdAt(t) = CmdAt(s) \union {n} /\ CmdAt(s) \subseteq 1 .. Len(s)
  BY <1>0, OneMore DEF CmdAt
<1>3. LastSelect(s, Len(s), DbOf[u]) => LastSelect(t, n, DbOf[u])
  BY <1>0, SelectStays
<1> HIDE DEF t
<1>4. ASSUME Ordered(s), \A v \in CmdsOf(s) : v < u PROVE Ordered(t)
  <2>1. \A i \in CmdAt(s) : t[i] = s[i] /\ s[i].arg < u /\ i < n
    BY <1>1, <1>2, <1>4 DEF CmdsOf
  <2> QED BY <1>0, <1>1, <1>2, <1>4, <2>1 DEF Ordered
<1>5. ASSUME Selected(s), LastSelect(s, Len(s), DbOf[u]), NEW i \in CmdAt(t) PROVE LastSelect(t, i, DbOf[t[i].arg])
  <2>0. CASE i = n
    BY <1>0, <1>1, <1>3, <1>5, <2>0
  <2>a. CASE i # n
    <3>1. i \in 1 .. Len(s) /\ t[i] = s[i] /\ LastSelect(s, i, DbOf[t[i].arg])
      BY <1>1, <1>2, <1>5, <2>a DEF Selected
    <3>2. PICK j \in 1 .. i : s[j] = Frame("select", DbOf[t[i].arg]) /\ \A l \in j + 1 .. i : s[l].kind # "select"
      BY <3>1 DEF LastSelect
    <3>3. \A l \in 1 .. i : t[l] = s[l]
      BY <1>1, <3>1
    <3>4. t[j] = Frame("select", DbOf[t[i].arg]) /\ \A l \in j + 1 .. i : t[l].kind # "select"
      BY <3>1, <3>2, <3>3
    <3> QED BY <3>4 DEF LastSelect
  <2> QED BY <2>0, <2>a
<1> QED BY <1>4, <1>5 DEF Selected, t

-----------------------------------------------------------------------------
(* One more record.                                                        *)

\* What every file of the log is like.
Good(s) == s \in Seq(FrameSet) /\ WellFormed(s) /\ Ordered(s) /\ Selected(s)

\* The frames a writer makes are frames, and keep their kind and argument.
LEMMA FrameTypes ==
    /\ \A u \in Units : Frame("multi", u) \in FrameSet /\ Frame("cmd", u) \in FrameSet /\ Frame("exec", u) \in FrameSet
    /\ \A d \in Dbs : Frame("select", d) \in FrameSet
    /\ Header \in FrameSet /\ Torn \in FrameSet
    /\ Header.kind = "header" /\ Torn.kind = "torn"
    /\ \A k, a : Frame(k, a).kind = k /\ Frame(k, a).arg = a
BY UnitAssumption DEF Frame, FrameSet, Kinds, Units, Dbs, Header, Torn

\* A MULTI behind a closed log keeps it good and opens a transaction.
LEMMA AddMulti ==
    ASSUME NEW s, Good(s), Closed(s), Len(s) >= 1, NEW u \in Units, NEW x, x = Frame("multi", u)
    PROVE  /\ Good(Append(s, x)) /\ Len(Append(s, x)) = Len(s) + 1 /\ After(Append(s, x), Len(s) + 1) = "multi"
           /\ CmdsOf(Append(s, x)) = CmdsOf(s) /\ Committed(s) \subseteq Committed(Append(s, x))
           /\ \A d : LastSelect(s, Len(s), d) => LastSelect(Append(s, x), Len(s) + 1, d)
<1> DEFINE t == Append(s, x)
           n == Len(s) + 1
<1>1. x \in FrameSet /\ x.kind = "multi" /\ s \in Seq(FrameSet) /\ n \in Nat /\ n > 1 /\ n - 1 = Len(s)
  BY FrameTypes DEF Good
<1>2. t \in Seq(FrameSet) /\ Len(t) = n /\ t[n] = x /\ After(t, Len(s)) = After(s, Len(s))
  BY <1>1, OneMore
<1>3. (Fits(t, n) => WellFormed(t)) /\ CmdsOf(t) = CmdsOf(s) /\ Committed(s) \subseteq Committed(t)
  BY <1>1, OneMore DEF Good
<1>4. Ordered(t) /\ Selected(t)
  BY <1>1, NoCommand DEF Good
<1>5. \A d : LastSelect(s, Len(s), d) => LastSelect(t, n, d)
  BY <1>1, SelectStays
<1> HIDE DEF t
<1>6. Fits(t, n) /\ After(t, n) = "multi"
  BY <1>1, <1>2 DEF Fits, After, Closed
<1> QED BY <1>2, <1>3, <1>4, <1>5, <1>6 DEF Good, t

\* A SELECT between commands or behind a MULTI keeps the log good and names
\* the database.
LEMMA AddSelect ==
    ASSUME NEW s, Good(s), NEW a, a = After(s, Len(s)), a \in {"out", "multi"}, Len(s) >= 1, NEW d \in Dbs, NEW x, x = Frame("select", d)
    PROVE  /\ Good(Append(s, x)) /\ Len(Append(s, x)) = Len(s) + 1
           /\ a = "out" => After(Append(s, x), Len(s) + 1) = "out"
           /\ a = "multi" => After(Append(s, x), Len(s) + 1) = "select"
           /\ CmdsOf(Append(s, x)) = CmdsOf(s) /\ Committed(s) \subseteq Committed(Append(s, x))
           /\ LastSelect(Append(s, x), Len(s) + 1, d)
<1> DEFINE t == Append(s, x)
           n == Len(s) + 1
<1>1. x \in FrameSet /\ x.kind = "select" /\ s \in Seq(FrameSet) /\ n \in Nat /\ n > 1 /\ n - 1 = Len(s) /\ Len(s) \in 1 .. Len(s)
  BY FrameTypes DEF Good
<1>2. t \in Seq(FrameSet) /\ Len(t) = n /\ t[n] = x /\ After(t, Len(s)) = After(s, Len(s)) /\ t[Len(s)] = s[Len(s)]
  BY <1>1, OneMore
<1>3. (Fits(t, n) => WellFormed(t)) /\ CmdsOf(t) = CmdsOf(s) /\ Committed(s) \subseteq Committed(t)
  BY <1>1, OneMore DEF Good
<1>4. Ordered(t) /\ Selected(t)
  BY <1>1, NoCommand DEF Good
<1>5. LastSelect(t, n, d)
  BY <1>1, SelectStays
<1> HIDE DEF t
<1>6. Fits(t, n)
  BY <1>1, <1>2 DEF Fits
<1>7. /\ a = "out" => After(t, n) = "out"
      /\ a = "multi" => After(t, n) = "select"
  <2>1. a = "multi" <=> s[Len(s)].kind = "multi"
    BY <1>1 DEF After
  <2> QED BY <1>1, <1>2, <2>1 DEF After
<1> QED BY <1>2, <1>3, <1>4, <1>5, <1>6, <1>7 DEF Good, t

\* A command in the database last selected, later than those before it, keeps
\* the log good; outside of a transaction it is committed.
LEMMA AddCmd ==
    ASSUME NEW s, Good(s), NEW u \in Units, NEW x, x = Frame("cmd", u), Len(s) >= 1,
           IF u \in TxUnits THEN After(s, Len(s)) \in {"multi", "select"} ELSE After(s, Len(s)) = "out",
           LastSelect(s, Len(s), DbOf[u]), \A v \in CmdsOf(s) : v < u
    PROVE  /\ Good(Append(s, x)) /\ Len(Append(s, x)) = Len(s) + 1
           /\ u \in TxUnits => After(Append(s, x), Len(s) + 1) = "cmd"
           /\ u \notin TxUnits => After(Append(s, x), Len(s) + 1) = "out" /\ u \in Committed(Append(s, x))
           /\ CmdsOf(Append(s, x)) = CmdsOf(s) \union {u} /\ Committed(s) \subseteq Committed(Append(s, x))
           /\ LastSelect(Append(s, x), Len(s) + 1, DbOf[u]) /\ Append(s, x)[Len(s) + 1] = x
<1> DEFINE t == Append(s, x)
           n == Len(s) + 1
<1>1. x \in FrameSet /\ x.kind = "cmd" /\ x.arg = u /\ s \in Seq(FrameSet) /\ n \in Nat /\ n > 1 /\ n - 1 = Len(s)
  BY FrameTypes DEF Good
<1>2. t \in Seq(FrameSet) /\ Len(t) = n /\ t[n] = x /\ After(t, Len(s)) = After(s, Len(s))
  BY <1>1, OneMore
<1>3. (Fits(t, n) => WellFormed(t)) /\ CmdsOf(t) = CmdsOf(s) \union {u} /\ Committed(s) \subseteq Committed(t) /\ n \in CmdAt(t)
  BY <1>1, OneMore DEF Good
<1>4. Ordered(t) /\ Selected(t)
  BY <1>1, OneCommand DEF Good
<1>5. LastSelect(t, n, DbOf[u])
  BY <1>1, SelectStays
<1> HIDE DEF t
<1>6. Fits(t, n)
  BY <1>1, <1>2 DEF Fits
<1>7. /\ u \in TxUnits => After(t, n) = "cmd"
      /\ u \notin TxUnits => After(t, n) = "out"
  BY <1>1, <1>2 DEF After
<1>8. u \notin TxUnits => u \in Committed(t)
  BY <1>1, <1>2, <1>3 DEF Committed, Done
<1> QED BY <1>2, <1>3, <1>4, <1>5, <1>6, <1>7, <1>8 DEF Good, t

\* EXEC behind the command closes and commits the transaction.
LEMMA AddExec ==
    ASSUME NEW s, Good(s), NEW u \in Units, NEW v \in Units, NEW x, x = Frame("exec", v), Len(s) >= 1,
           s[Len(s)] = Frame("cmd", u), After(s, Len(s)) = "cmd"
    PROVE  /\ Good(Append(s, x)) /\ Len(Append(s, x)) = Len(s) + 1 /\ After(Append(s, x), Len(s) + 1) = "out"
           /\ CmdsOf(Append(s, x)) = CmdsOf(s) /\ Committed(s) \subseteq Committed(Append(s, x))
           /\ u \in Committed(Append(s, x))
           /\ \A d : LastSelect(s, Len(s), d) => LastSelect(Append(s, x), Len(s) + 1, d)
<1> DEFINE t == Append(s, x)
           n == Len(s) + 1
<1>1. x \in FrameSet /\ x.kind = "exec" /\ s \in Seq(FrameSet) /\ n \in Nat /\ n > 1 /\ n - 1 = Len(s) /\ Len(s) \in 1 .. Len(s)
  BY FrameTypes DEF Good
<1>2. t \in Seq(FrameSet) /\ Len(t) = n /\ t[n] = x /\ After(t, Len(s)) = After(s, Len(s)) /\ t[Len(s)] = s[Len(s)]
  BY <1>1, OneMore
<1>3. (Fits(t, n) => WellFormed(t)) /\ CmdsOf(t) = CmdsOf(s) /\ Committed(s) \subseteq Committed(t) /\ CmdAt(t) = CmdAt(s)
  BY <1>1, OneMore DEF Good
<1>4. Ordered(t) /\ Selected(t)
  BY <1>1, NoCommand DEF Good
<1>5. \A d : LastSelect(s, Len(s), d) => LastSelect(t, n, d)
  BY <1>1, SelectStays
<1> HIDE DEF t
<1>6. Fits(t, n) /\ After(t, n) = "out"
  BY <1>1, <1>2 DEF Fits, After
<1>7. u \in Committed(t)
  <2>1. s[Len(s)].kind = "cmd" /\ s[Len(s)].arg = u
    BY FrameTypes
  <2>2. Len(s) \in CmdAt(t)
    BY <1>1, <1>3, <2>1 DEF CmdAt
  <2>3. Done(t, Len(s)) /\ t[Len(s)].arg = u
    BY <1>1, <1>2, <2>1 DEF Done
  <2> QED BY <2>2, <2>3 DEF Committed
<1> QED BY <1>2, <1>3, <1>4, <1>5, <1>6, <1>7 DEF Good, t

\* A torn frame takes nothing from what is before it.
LEMMA AddTorn ==
    ASSUME NEW s, Good(s), After(s, Len(s)) # "torn"
    PROVE  /\ Good(Append(s, Torn)) /\ Len(Append(s, Torn)) = Len(s) + 1
           /\ CmdsOf(Append(s, Torn)) = CmdsOf(s) /\ Committed(s) \subseteq Committed(Append(s, Torn))
           /\ \A d : LastSelect(s, Len(s), d) => LastSelect(Append(s, Torn), Len(s) + 1, d)
<1> DEFINE t == Append(s, Torn)
           n == Len(s) + 1
<1>1. Torn \in FrameSet /\ Torn.kind = "torn" /\ s \in Seq(FrameSet) /\ n \in Nat /\ n - 1 = Len(s) /\ Len(s) \in 0 .. Len(s)
  BY FrameTypes DEF Good
<1>2. t \in Seq(FrameSet) /\ Len(t) = n /\ t[n] = Torn /\ After(t, Len(s)) = After(s, Len(s))
  BY <1>1, OneMore
<1>3. (Fits(t, n) => WellFormed(t)) /\ CmdsOf(t) = CmdsOf(s) /\ Committed(s) \subseteq Committed(t)
  BY <1>1, OneMore DEF Good
<1>4. Ordered(t) /\ Selected(t)
  BY <1>1, NoCommand DEF Good
<1>5. \A d : LastSelect(s, Len(s), d) => LastSelect(t, n, d)
  BY <1>1, SelectStays
<1> HIDE DEF t
<1>6. Fits(t, n)
  BY <1>1, <1>2 DEF Fits
<1> QED BY <1>2, <1>3, <1>4, <1>5, <1>6 DEF Good, t

\* It does not matter how writes are grouped.
LEMMA JoinedAssociative ==
    ASSUME NEW r \in Seq(FrameSet), NEW s \in Seq(FrameSet), NEW t \in Seq(FrameSet)
    PROVE  (r \o s) \o t = r \o (s \o t)
OBVIOUS

\* Frames added by a concatenation are added one by one.
LEMMA AddedFrames ==
    ASSUME NEW s \in Seq(FrameSet), NEW a \in FrameSet, NEW b \in FrameSet
    PROVE  s \o <<a>> = Append(s, a) /\ s \o <<a, b>> = Append(Append(s, a), b)
<1>1. s \o <<a>> = Append(s, a)
  OBVIOUS
<1>2. s \o <<a, b>> = Append(Append(s, a), b)
  OBVIOUS
<1> QED BY <1>1, <1>2

\* The frames that a record adds.
LEMMA RecordShape ==
    ASSUME NEW s \in Seq(FrameSet), NEW u \in Units,
           NEW m, m = Frame("multi", u), NEW d, d = Frame("select", DbOf[u]),
           NEW c, c = Frame("cmd", u), NEW e, e = Frame("exec", u)
    PROVE  /\ (u \notin TxUnits /\ wdb = DbOf[u]) => s \o Record(u) = Append(s, c)
           /\ (u \notin TxUnits /\ wdb # DbOf[u]) => s \o Record(u) = Append(Append(s, d), c)
           /\ (u \in TxUnits /\ wdb = DbOf[u]) => s \o Record(u) = Append(Append(Append(s, m), c), e)
           /\ (u \in TxUnits /\ wdb # DbOf[u]) => s \o Record(u) = Append(Append(Append(Append(s, m), d), c), e)
           /\ Record(u) \in Seq(FrameSet)
<1>0. m \in FrameSet /\ d \in FrameSet /\ c \in FrameSet /\ e \in FrameSet
  BY FrameTypes, UnitAssumption
<1> DEFINE M == <<m>>
           S == IF wdb = DbOf[u] THEN <<>> ELSE <<d>>
           C == <<c>>
           E == <<c, e>>
<1>1. M \in Seq(FrameSet) /\ S \in Seq(FrameSet) /\ C \in Seq(FrameSet) /\ E \in Seq(FrameSet)
  BY <1>0
<1>2. Record(u) = IF u \in TxUnits THEN (M \o S) \o E ELSE S \o C
  BY DEF Record, Select
<1> HIDE DEF M, S, C, E
<1>3. s \o (S \o C) = (s \o S) \o C /\ s \o ((M \o S) \o E) = ((s \o M) \o S) \o E
  <2> DEFINE J(p, q) == p \o q
  <2>0. \A p, q \in Seq(FrameSet) : J(p, q) \in Seq(FrameSet)
    OBVIOUS
  <2>1. ASSUME NEW p \in Seq(FrameSet), NEW q \in Seq(FrameSet), NEW r \in Seq(FrameSet)
        PROVE  J(p, J(q, r)) = J(J(p, q), r)
    OBVIOUS
  <2> HIDE DEF J
  <2>2. J(s, J(S, C)) = J(J(s, S), C)
    BY <1>1, <2>1
  <2>3. J(s, J(J(M, S), E)) = J(J(J(s, M), S), E)
    <3>1. J(M, S) \in Seq(FrameSet) /\ J(s, J(M, S)) = J(J(s, M), S)
      BY <1>1, <2>0, <2>1
    <3>2. J(s, J(J(M, S), E)) = J(J(s, J(M, S)), E)
      BY <1>1, <2>1, <3>1
    <3> QED BY <3>1, <3>2
  <2> QED BY <2>2, <2>3 DEF J
<1>4. s \o S = IF wdb = DbOf[u] THEN s ELSE Append(s, d)
  BY <1>0, AddedFrames DEF S
<1>5. s \o M = Append(s, m) /\ Append(s, m) \in Seq(FrameSet) /\ Append(s, d) \in Seq(FrameSet)
  BY <1>0, AddedFrames DEF M
<1>6. (s \o M) \o S = IF wdb = DbOf[u] THEN Append(s, m) ELSE Append(Append(s, m), d)
  <2> DEFINE p == Append(s, m)
  <2>1. p \in Seq(FrameSet)
    BY <1>5
  <2> HIDE DEF p
  <2>2. p \o S = IF wdb = DbOf[u] THEN p ELSE Append(p, d)
    BY <1>0, <2>1, AddedFrames DEF S
  <2> QED BY <1>5, <2>2 DEF p
<1>7. ASSUME NEW p \in Seq(FrameSet) PROVE p \o C = Append(p, c) /\ p \o E = Append(Append(p, c), e)
  BY <1>0, AddedFrames DEF C, E
<1>8. Append(Append(s, m), d) \in Seq(FrameSet)
  BY <1>0, <1>5
<1>9. Record(u) \in Seq(FrameSet)
  <2>1. \A p, q \in Seq(FrameSet) : p \o q \in Seq(FrameSet)
    OBVIOUS
  <2> QED BY <1>1, <1>2, <2>1
<1>10. CASE u \in TxUnits
  <2>1. s \o Record(u) = ((s \o M) \o S) \o E
    BY <1>2, <1>3, <1>10
  <2> QED BY <1>5, <1>6, <1>7, <1>8, <1>9, <1>10, <2>1
<1>11. CASE u \notin TxUnits
  <2>1. s \o Record(u) = (s \o S) \o C
    BY <1>2, <1>3, <1>11
  <2> QED BY <1>4, <1>5, <1>7, <1>9, <1>11, <2>1
<1> QED BY <1>10, <1>11

\* A file fit for a further record: it ends outside of a transaction, and the
\* writer's database is the one that a reader of the file has selected.
Ready(s, db) == Len(s) >= 1 /\ Closed(s) /\ (db # NoDb => LastSelect(s, Len(s), db))

\* append_command_at and append_transaction_at add a record that replay applies.
LEMMA RecordAppended ==
    ASSUME NEW s, Good(s), Ready(s, wdb), NEW u \in Units, \A v \in CmdsOf(s) : v < u
    PROVE  /\ Good(s \o Record(u)) /\ Ready(s \o Record(u), DbOf[u]) /\ u \in Committed(s \o Record(u))
           /\ CmdsOf(s \o Record(u)) = CmdsOf(s) \union {u} /\ Committed(s) \subseteq Committed(s \o Record(u))
<1> DEFINE m == Frame("multi", u)
           d == Frame("select", DbOf[u])
           c == Frame("cmd", u)
           e == Frame("exec", u)
<1>0. /\ m \in FrameSet /\ d \in FrameSet /\ c \in FrameSet /\ e \in FrameSet /\ s \in Seq(FrameSet) /\ Len(s) \in Nat
      /\ DbOf[u] \in Dbs /\ DbOf[u] # NoDb
  BY FrameTypes, UnitAssumption DEF Good, Dbs, NoDb
<1>1. CASE u \notin TxUnits /\ wdb = DbOf[u]
  <2>1. s \o Record(u) = Append(s, c)
    BY <1>0, <1>1, RecordShape
  <2>2. LastSelect(s, Len(s), DbOf[u])
    BY <1>0, <1>1 DEF Ready
  <2>3. Good(Append(s, c)) /\ Ready(Append(s, c), DbOf[u]) /\ u \in Committed(Append(s, c))
        /\ CmdsOf(Append(s, c)) = CmdsOf(s) \union {u} /\ Committed(s) \subseteq Committed(Append(s, c))
    BY <1>0, <1>1, <2>2, AddCmd DEF Ready, Closed
  <2> QED BY <2>1, <2>3
<1>2. CASE u \notin TxUnits /\ wdb # DbOf[u]
  <2> DEFINE t == Append(s, d)
  <2>1. s \o Record(u) = Append(t, c)
    BY <1>0, <1>2, RecordShape
  <2>2. Good(t) /\ Len(t) = Len(s) + 1 /\ After(t, Len(t)) = "out" /\ CmdsOf(t) = CmdsOf(s) /\ Committed(s) \subseteq Committed(t)
        /\ LastSelect(t, Len(t), DbOf[u])
    BY <1>0, AddSelect DEF Ready, Closed
  <2> HIDE DEF t
  <2>3. Good(Append(t, c)) /\ Ready(Append(t, c), DbOf[u]) /\ u \in Committed(Append(t, c))
        /\ CmdsOf(Append(t, c)) = CmdsOf(s) \union {u} /\ Committed(s) \subseteq Committed(Append(t, c))
    BY <1>0, <1>2, <2>2, AddCmd DEF Ready, Closed
  <2> QED BY <2>1, <2>3
<1>3. CASE u \in TxUnits /\ wdb = DbOf[u]
  <2> DEFINE t == Append(s, m)
             w == Append(t, c)
  <2>1. s \o Record(u) = Append(w, e)
    BY <1>0, <1>3, RecordShape
  <2>2. Good(t) /\ Len(t) = Len(s) + 1 /\ After(t, Len(t)) = "multi" /\ CmdsOf(t) = CmdsOf(s) /\ Committed(s) \subseteq Committed(t)
        /\ LastSelect(t, Len(t), DbOf[u])
    BY <1>0, <1>3, AddMulti DEF Ready, Closed
  <2> HIDE DEF t
  <2>3. Good(w) /\ Len(w) = Len(t) + 1 /\ After(w, Len(w)) = "cmd" /\ CmdsOf(w) = CmdsOf(s) \union {u}
        /\ Committed(s) \subseteq Committed(w) /\ LastSelect(w, Len(w), DbOf[u]) /\ w[Len(w)] = c
    BY <1>0, <1>3, <2>2, AddCmd DEF Ready, Closed
  <2> HIDE DEF w
  <2>4. Len(w) >= 1
    BY <1>0, <2>2, <2>3
  <2>5. Good(Append(w, e)) /\ Ready(Append(w, e), DbOf[u]) /\ u \in Committed(Append(w, e))
        /\ CmdsOf(Append(w, e)) = CmdsOf(s) \union {u} /\ Committed(s) \subseteq Committed(Append(w, e))
    BY <1>0, <1>3, <2>3, <2>4, AddExec DEF Ready, Closed
  <2> QED BY <2>1, <2>5
<1>4. CASE u \in TxUnits /\ wdb # DbOf[u]
  <2> DEFINE t == Append(s, m)
             v == Append(t, d)
             w == Append(v, c)
  <2>1. s \o Record(u) = Append(w, e)
    BY <1>0, <1>4, RecordShape
  <2>2. Good(t) /\ Len(t) = Len(s) + 1 /\ After(t, Len(t)) = "multi" /\ CmdsOf(t) = CmdsOf(s) /\ Committed(s) \subseteq Committed(t)
    BY <1>0, <1>4, AddMulti DEF Ready, Closed
  <2> HIDE DEF t
  <2>3. Good(v) /\ Len(v) = Len(t) + 1 /\ After(v, Len(v)) = "select" /\ CmdsOf(v) = CmdsOf(s) /\ Committed(s) \subseteq Committed(v)
        /\ LastSelect(v, Len(v), DbOf[u])
    BY <1>0, <2>2, AddSelect
  <2> HIDE DEF v
  <2>4. Good(w) /\ Len(w) = Len(v) + 1 /\ After(w, Len(w)) = "cmd" /\ CmdsOf(w) = CmdsOf(s) \union {u}
        /\ Committed(s) \subseteq Committed(w) /\ LastSelect(w, Len(w), DbOf[u]) /\ w[Len(w)] = c
    BY <1>0, <1>4, <2>2, <2>3, AddCmd DEF Ready, Closed
  <2> HIDE DEF w
  <2>5. Len(w) >= 1
    BY <1>0, <2>2, <2>3, <2>4
  <2>6. Good(Append(w, e)) /\ Ready(Append(w, e), DbOf[u]) /\ u \in Committed(Append(w, e))
        /\ CmdsOf(Append(w, e)) = CmdsOf(s) \union {u} /\ Committed(s) \subseteq Committed(Append(w, e))
    BY <1>0, <1>4, <2>4, <2>5, AddExec DEF Ready, Closed
  <2> QED BY <2>1, <2>6
<1> QED BY <1>1, <1>2, <1>3, <1>4

Rest(s, n) == SubSeq(s, n + 1, Len(s))

\* The pieces of a concatenation.
LEMMA Pieces ==
    ASSUME NEW s \in Seq(FrameSet), NEW t \in Seq(FrameSet), NEW k \in 0 .. Len(t)
    PROVE  /\ (s \o First(t, k)) \o Rest(t, k) = s \o t
           /\ s \o First(t, k) = First(s \o t, Len(s) + k)
           /\ First(t, k) \in Seq(FrameSet) /\ Rest(t, k) \in Seq(FrameSet)
<1>1. First(t, k) \in Seq(FrameSet) /\ Rest(t, k) \in Seq(FrameSet)
  BY DEF First, Rest
<1>2. s \o First(t, k) = First(s \o t, Len(s) + k)
  BY DEF First
<1>4. (s \o First(t, k)) \o Rest(t, k) = s \o t
  <2>1. PICK p \in Seq(FrameSet) : p = First(t, k)
    BY <1>1
  <2>2. PICK q \in Seq(FrameSet) : q = Rest(t, k)
    BY <1>1
  <2>3. Len(p) = k /\ Len(q) = Len(t) - k /\ Len(t) \in Nat
    BY <2>1, <2>2 DEF First, Rest
  <2>4. (\A i \in 1 .. k : p[i] = t[i]) /\ (\A i \in 1 .. Len(q) : q[i] = t[k + i])
    BY <2>1, <2>2 DEF First, Rest
  <2>5. p \o q = t
    <3>1. p \o q \in Seq(FrameSet) /\ Len(p \o q) = Len(t)
      BY <2>3
    <3>2. ASSUME NEW i \in 1 .. Len(t) PROVE (p \o q)[i] = t[i]
      <4>1. CASE i <= k
        <5>1. i \in 1 .. k /\ (p \o q)[i] = p[i]
          BY <2>3, <4>1
        <5> QED BY <2>4, <5>1
      <4>2. CASE i > k
        <5>1. PICK j \in 1 .. Len(q) : j = i - k
          BY <2>3, <4>2
        <5>2. (p \o q)[i] = q[j] /\ k + j = i
          BY <2>3, <4>2, <5>1
        <5> QED BY <2>4, <5>2
      <4>3. i <= k \/ i > k
        BY <2>3
      <4> QED BY <4>1, <4>2, <4>3
    <3> QED BY <3>1, <3>2, SeqEqual
  <2>6. (s \o p) \o q = s \o (p \o q)
    BY <2>3, JoinedAssociative, ZenonT(40)
  <2> QED BY <2>1, <2>2, <2>5, <2>6
<1> QED BY <1>1, <1>2, <1>4

\* Concatenations of files.
LEMMA Joined ==
    ASSUME NEW s \in Seq(FrameSet), NEW t \in Seq(FrameSet)
    PROVE  /\ s \o t \in Seq(FrameSet) /\ Len(s \o t) = Len(s) + Len(t) /\ First(s \o t, Len(s)) = s
           /\ s \o <<>> = s /\ <<>> \o s = s
<1>1. s \o t \in Seq(FrameSet) /\ Len(s \o t) = Len(s) + Len(t)
  OBVIOUS
<1>2. First(s \o t, Len(s)) = s
  BY DEF First
<1>3. s \o <<>> = s /\ <<>> \o s = s
  OBVIOUS
<1> QED BY <1>1, <1>2, <1>3

-----------------------------------------------------------------------------
(* Recovery.                                                               *)

\* The frames that may follow each other.
LEMMA Follows ==
    ASSUME NEW c \in Seq(FrameSet), WellFormed(c), NEW i \in 1 .. Len(c)
    PROVE  /\ After(c, i - 1) = "out" => After(c, i) \in {"out", "multi", "torn"}
           /\ After(c, i - 1) = "multi" => After(c, i) \in {"select", "cmd", "torn"}
           /\ After(c, i - 1) = "select" => After(c, i) \in {"cmd", "torn"}
           /\ After(c, i - 1) = "cmd" => After(c, i) = "torn" \/ (After(c, i) = "out" /\ c[i].kind = "exec")
           /\ After(c, i - 1) \in {"out", "multi", "select", "cmd"}
           /\ After(c, i) = "multi" => After(c, i - 1) = "out"
           /\ After(c, i) = "select" => After(c, i - 1) = "multi"
           /\ After(c, i) = "cmd" => After(c, i - 1) \in {"multi", "select"}
           /\ After(c, i) = "multi" <=> c[i].kind = "multi"
           /\ After(c, i) = "torn" <=> c[i].kind = "torn"
           /\ c[i].kind = "exec" => After(c, i - 1) = "cmd" /\ After(c, i) = "out"
           /\ c[i].kind = "cmd" => IF c[i].arg \in TxUnits THEN After(c, i - 1) \in {"multi", "select"} /\ After(c, i) = "cmd"
                                   ELSE After(c, i - 1) = "out" /\ After(c, i) = "out"
<1>1. Fits(c, i) /\ c[i].kind \in Kinds /\ i \in Nat /\ i >= 1
  <2>1. c[i] \in FrameSet
    OBVIOUS
  <2> QED BY <2>1 DEF WellFormed, FrameSet
<1>2. CASE i = 1
  <2>1. After(c, i - 1) = "out"
    BY <1>2 DEF After
  <2>2. c[i].kind \in {"header", "torn"}
    BY <1>1, <1>2, FrameTypes DEF Fits
  <2> QED BY <1>1, <1>2, <2>1, <2>2 DEF Fits, After
<1>3. CASE i > 1
  <2>1. i - 1 > 0 /\ i - 1 \in 1 .. Len(c) /\ i - 1 # 0 /\ i # 0
    BY <1>1, <1>3
  <2>2. /\ After(c, i - 1) = "multi" <=> c[i - 1].kind = "multi"
        /\ After(c, i - 1) \in {"out", "multi", "select", "cmd", "torn"}
    BY <2>1 DEF After
  <2>3. After(c, i) = IF c[i].kind = "multi" THEN "multi"
                      ELSE IF c[i].kind = "select" /\ After(c, i - 1) = "multi" THEN "select"
                      ELSE IF c[i].kind = "cmd" /\ c[i].arg \in TxUnits THEN "cmd"
                      ELSE IF c[i].kind = "torn" THEN "torn" ELSE "out"
    BY <1>3, <2>1, <2>2 DEF After
  <2>4. c[i].kind # "header"
    BY <1>1, <1>3 DEF Fits
  <2> QED BY <1>1, <1>3, <2>1, <2>2, <2>3, <2>4 DEF Fits, Kinds
<1> QED BY <1>1, <1>2, <1>3

\* A reader is in a transaction if and only if the frame before says so.
LEMMA InMultiAfter ==
    ASSUME NEW c \in Seq(FrameSet), WellFormed(c), NEW i \in 1 .. Len(c) + 1, After(c, i - 1) # "torn"
    PROVE  InMulti(c, i) <=> After(c, i - 1) \in {"multi", "select", "cmd"}
<1>0. i \in Nat /\ i - 1 \in 0 .. Len(c) /\ Len(c) \in Nat
  OBVIOUS
<1>1. ASSUME NEW j \in 1 .. i - 1, After(c, j) = "multi", \A l \in j .. i - 1 : c[l].kind # "exec" PROVE InMulti(c, i)
  <2>1. c[j].kind = "multi"
    BY <1>0, <1>1, Follows
  <2> QED BY <1>1, <2>1 DEF InMulti
<1>2. ASSUME After(c, i - 1) \in {"multi", "select", "cmd"} PROVE InMulti(c, i)
  <2>1. i - 1 # 0 /\ i - 1 \in 1 .. Len(c)
    BY <1>0, <1>2 DEF After
  <2>2. ASSUME NEW l \in 1 .. Len(c), After(c, l) # "out" PROVE c[l].kind # "exec"
    BY <2>2, Follows
  <2>3. CASE After(c, i - 1) = "multi"
    BY <1>0, <1>1, <2>1, <2>2, <2>3
  <2>4. CASE After(c, i - 1) = "select"
    <3>1. After(c, i - 2) = "multi"
      BY <1>0, <2>1, <2>4, Follows
    <3>2. i - 2 # 0 /\ i - 2 \in 1 .. i - 1 /\ i - 2 \in 1 .. Len(c)
      BY <1>0, <2>1, <3>1 DEF After
    <3> QED BY <1>0, <1>1, <2>1, <2>2, <2>4, <3>1, <3>2
  <2>5. CASE After(c, i - 1) = "cmd"
    <3>1. After(c, i - 2) \in {"multi", "select"}
      BY <1>0, <2>1, <2>5, Follows
    <3>2. i - 2 # 0 /\ i - 2 \in 1 .. i - 1 /\ i - 2 \in 1 .. Len(c)
      BY <1>0, <2>1, <3>1 DEF After
    <3>3. CASE After(c, i - 2) = "multi"
      BY <1>0, <1>1, <2>1, <2>2, <2>5, <3>2, <3>3
    <3>4. CASE After(c, i - 2) = "select"
      <4>1. After(c, i - 3) = "multi"
        BY <1>0, <3>2, <3>4, Follows
      <4>2. i - 3 # 0 /\ i - 3 \in 1 .. i - 1 /\ i - 3 \in 1 .. Len(c)
        BY <1>0, <3>2, <4>1 DEF After
      <4>3. ASSUME NEW l \in i - 3 .. i - 1 PROVE c[l].kind # "exec"
        <5>1. l = i - 3 \/ l = i - 2 \/ l = i - 1
          BY <1>0
        <5> QED BY <2>1, <2>2, <2>5, <3>2, <3>4, <4>1, <4>2, <5>1
      <4> QED BY <1>1, <4>1, <4>2, <4>3
    <3> QED BY <3>1, <3>3, <3>4
  <2> QED BY <1>2, <2>3, <2>4, <2>5
<1>3. ASSUME InMulti(c, i) PROVE After(c, i - 1) \in {"multi", "select", "cmd"}
  <2>1. PICK j \in 1 .. i - 1 : c[j].kind = "multi" /\ \A l \in j .. i - 1 : c[l].kind # "exec"
    BY <1>3 DEF InMulti
  <2>2. j \in 1 .. Len(c) /\ After(c, j) = "multi"
    BY <1>0, <2>1, Follows
  <2>3. ASSUME NEW l \in j + 1 .. i - 1, NEW a, a = After(c, l - 1)
        PROVE  /\ a = "multi" => After(c, l) \in {"select", "cmd", "torn"}
               /\ a = "select" => After(c, l) \in {"cmd", "torn"}
               /\ a = "cmd" => After(c, l) = "torn"
               /\ a # "torn"
    <3>1. l \in 1 .. Len(c) /\ c[l].kind # "exec"
      BY <1>0, <2>1, <2>2
    <3> QED BY <2>3, <3>1, Follows
  <2>4. i - 1 = j \/ i - 1 = j + 1 \/ i - 1 = j + 2 \/ i - 1 = j + 3 \/ i - 1 > j + 3
    BY <1>0, <2>2
  <2>5. CASE i - 1 = j
    BY <2>2, <2>5
  <2>6. CASE i - 1 > j
    <3>1. After(c, j + 1) \in {"select", "cmd", "torn"}
      <4>1. j + 1 \in j + 1 .. i - 1 /\ (j + 1) - 1 = j
        BY <1>0, <2>2, <2>6
      <4> QED BY <2>2, <2>3, <4>1
    <3>2. CASE i - 1 = j + 1
      BY <3>1, <3>2
    <3>3. CASE i - 1 > j + 1
      <4>1. After(c, j + 2) \in {"cmd", "torn"}
        <5>1. j + 2 \in j + 1 .. i - 1 /\ (j + 2) - 1 = j + 1
          BY <1>0, <2>2, <3>3
        <5> QED BY <2>3, <3>1, <5>1
      <4>2. CASE i - 1 = j + 2
        BY <4>1, <4>2
      <4>3. CASE i - 1 > j + 2
        <5>1. After(c, j + 3) = "torn"
          <6>1. j + 3 \in j + 1 .. i - 1 /\ (j + 3) - 1 = j + 2
            BY <1>0, <2>2, <4>3
          <6> QED BY <2>3, <4>1, <6>1
        <5>2. CASE i - 1 = j + 3
          BY <5>1, <5>2
        <5>3. CASE i - 1 > j + 3
          <6>1. j + 4 \in j + 1 .. i - 1 /\ (j + 4) - 1 = j + 3
            BY <1>0, <2>2, <5>3
          <6>2. After(c, j + 3) # "torn"
            BY <2>3, <6>1
          <6> QED BY <5>1, <6>2
        <5> QED BY <1>0, <2>2, <4>3, <5>2, <5>3
      <4> QED BY <1>0, <2>2, <3>3, <4>2, <4>3
    <3> QED BY <1>0, <2>2, <2>6, <3>2, <3>3
  <2> QED BY <2>4, <2>5, <2>6, <2>2
<1> QED BY <1>2, <1>3

\* Replay applies the committed commands.
LEMMA AppliedCommitted ==
    ASSUME NEW c \in Seq(FrameSet), WellFormed(c)
    PROVE  Applied(c) = Committed(c)
<1>0. Len(c) \in Nat /\ DOMAIN c = 1 .. Len(c)
  OBVIOUS
<1>1. ASSUME NEW j \in CmdAt(c)
      PROVE  (InMulti(c, j) => \E l \in j .. Len(c) : c[l].kind = "exec") <=> Done(c, j)
  <2>1. j \in 1 .. Len(c) /\ c[j].kind = "cmd" /\ j \in 1 .. Len(c) + 1
    BY <1>0 DEF CmdAt
  <2>2. InMulti(c, j) <=> c[j].arg \in TxUnits
    <3>1. After(c, j - 1) # "torn"
      BY <2>1, Follows
    <3>2. InMulti(c, j) <=> After(c, j - 1) \in {"multi", "select", "cmd"}
      BY <2>1, <3>1, InMultiAfter
    <3>3. IF c[j].arg \in TxUnits THEN After(c, j - 1) \in {"multi", "select"} ELSE After(c, j - 1) = "out"
      BY <2>1, Follows
    <3> QED BY <3>2, <3>3
  <2>3. ASSUME c[j].arg \in TxUnits, NEW l \in j .. Len(c), c[l].kind = "exec" PROVE j < Len(c) /\ c[j + 1].kind = "exec"
    <3>1. After(c, j) = "cmd" /\ l # j /\ l > j /\ j < Len(c) /\ j + 1 \in 1 .. Len(c)
      BY <1>0, <2>1, <2>3, Follows
    <3>2. CASE c[j + 1].kind = "exec"
      BY <3>1, <3>2
    <3>3. CASE c[j + 1].kind # "exec"
      <4>1. After(c, j + 1) = "torn" /\ c[j + 1].kind = "torn"
        BY <2>1, <3>1, <3>3, Follows
      <4>2. l # j + 1 /\ l > j + 1 /\ j + 2 \in 1 .. Len(c)
        BY <1>0, <2>1, <2>3, <3>1, <4>1
      <4> QED BY <2>1, <4>1, <4>2, Follows
    <3> QED BY <3>2, <3>3
  <2>4. ASSUME j < Len(c), c[j + 1].kind = "exec" PROVE \E l \in j .. Len(c) : c[l].kind = "exec"
    BY <1>0, <2>1, <2>4
  <2> QED BY <2>2, <2>3, <2>4 DEF Done
<1>2. Applied(c) = {c[i].arg : i \in {j \in CmdAt(c) : InMulti(c, j) => \E l \in j .. Len(c) : c[l].kind = "exec"}}
  BY <1>0 DEF Applied, CmdAt
<1>3. {j \in CmdAt(c) : InMulti(c, j) => \E l \in j .. Len(c) : c[l].kind = "exec"} = {j \in CmdAt(c) : Done(c, j)}
  BY <1>1
<1> QED BY <1>2, <1>3 DEF Committed

\* Every command of a file that ends outside of a transaction is committed.
LEMMA ClosedCommitted ==
    ASSUME NEW c \in Seq(FrameSet), WellFormed(c), Closed(c)
    PROVE  Committed(c) = CmdsOf(c)
<1>0. Len(c) \in Nat
  OBVIOUS
<1>1. ASSUME NEW j \in CmdAt(c) PROVE Done(c, j)
  <2> SUFFICES ASSUME c[j].arg \in TxUnits PROVE j < Len(c) /\ c[j + 1].kind = "exec"
    BY DEF Done
  <2>1. j \in 1 .. Len(c) /\ c[j].kind = "cmd"
    BY DEF CmdAt
  <2>2. After(c, j) = "cmd" /\ j # Len(c) /\ j < Len(c) /\ j + 1 \in 1 .. Len(c)
    BY <1>0, <2>1, Follows DEF Closed
  <2>3. ASSUME After(c, j + 1) = "torn" PROVE FALSE
    <3>1. j + 1 # Len(c) /\ j + 2 \in 1 .. Len(c)
      BY <1>0, <2>1, <2>2, <2>3 DEF Closed
    <3> QED BY <2>1, <2>3, <3>1, Follows
  <2> QED BY <2>1, <2>2, <2>3, Follows
<1> QED BY <1>1 DEF Committed, CmdsOf

\* Only the last frame is torn.
LEMMA WholeFrames ==
    ASSUME NEW c \in Seq(FrameSet), WellFormed(c)
    PROVE  /\ Whole(c) \in 0 .. Len(c)
           /\ \A i \in 1 .. Whole(c) : c[i].kind # "torn"
           /\ \A i \in 1 .. Len(c) : i > Whole(c) => c[i].kind = "torn"
           /\ \A i \in 0 .. Whole(c) : After(c, i) # "torn"
<1>0. Len(c) \in Nat /\ (c # <<>> <=> Len(c) # 0)
  OBVIOUS
<1>1. Whole(c) \in 0 .. Len(c) /\ \A i \in 1 .. Len(c) : i > Whole(c) => c[i].kind = "torn"
  BY <1>0 DEF Whole
<1>2. ASSUME NEW i \in 1 .. Whole(c) PROVE c[i].kind # "torn"
  <2>1. CASE i = Len(c)
    BY <1>0, <2>1 DEF Whole
  <2>2. CASE i < Len(c)
    <3>1. i \in 1 .. Len(c) /\ i + 1 \in 1 .. Len(c)
      BY <1>0, <1>1, <2>2
    <3> QED BY <3>1, Follows
  <2> QED BY <1>0, <1>1, <2>1, <2>2
<1>3. ASSUME NEW i \in 0 .. Whole(c) PROVE After(c, i) # "torn"
  <2>1. CASE i = 0
    BY <2>1 DEF After
  <2>2. CASE i # 0
    <3>1. i \in 1 .. Whole(c) /\ i \in 1 .. Len(c)
      BY <1>0, <1>1, <2>2
    <3> QED BY <1>2, <3>1, Follows
  <2> QED BY <2>1, <2>2
<1> QED BY <1>1, <1>2, <1>3

\* replay_reader accepts what the writer writes.
LEMMA NotDamaged ==
    ASSUME NEW c \in Seq(FrameSet), WellFormed(c)
    PROVE  ~Damaged(c)
<1>1. Len(c) \in Nat /\ Whole(c) \in 0 .. Len(c)
  BY WholeFrames
<1>2. ASSUME NEW i \in 1 .. Whole(c)
      PROVE  /\ c[i].kind # "torn"
             /\ c[i].kind = "multi" => ~InMulti(c, i)
             /\ c[i].kind = "exec" => InMulti(c, i)
  <2>1. i \in 1 .. Len(c) /\ i \in 1 .. Len(c) + 1
    BY <1>1
  <2>2. c[i].kind # "torn" /\ After(c, i - 1) # "torn"
    BY <2>1, WholeFrames, Follows
  <2>3. InMulti(c, i) <=> After(c, i - 1) \in {"multi", "select", "cmd"}
    BY <2>1, <2>2, InMultiAfter
  <2>4. (c[i].kind = "multi" => After(c, i - 1) = "out") /\ (c[i].kind = "exec" => After(c, i - 1) = "cmd")
    BY <2>1, Follows
  <2> QED BY <2>2, <2>3, <2>4
<1> QED BY <1>2 DEF Damaged

\* Recovery cuts a file down to a beginning that ends outside of a transaction
\* and holds all that any beginning has committed.
LEMMA CutFacts ==
    ASSUME NEW c \in Seq(FrameSet), WellFormed(c)
    PROVE  /\ Cut(c) \in 0 .. Len(c) /\ After(c, Cut(c)) = "out"
           /\ Cut(c) < Len(c) => c[Cut(c) + 1].kind \in {"torn", "multi"}
           /\ \A n \in 0 .. Len(c) : Committed(First(c, n)) \subseteq Committed(First(c, Cut(c)))
<1> DEFINE W == Whole(c)
<1>0. Len(c) \in Nat /\ W \in 0 .. Len(c) /\ W \in Nat /\ W + 1 \in 1 .. Len(c) + 1 /\ (W + 1) - 1 = W
  BY WholeFrames
<1>1. \A i \in 1 .. W : c[i].kind # "torn" /\ i \in 1 .. Len(c)
  BY <1>0, WholeFrames
<1>2. After(c, W) # "torn"
  BY <1>0, WholeFrames
<1>3. InMulti(c, W + 1) <=> After(c, W) \in {"multi", "select", "cmd"}
  BY <1>0, <1>2, InMultiAfter
<1>4. \A i \in 1 .. Len(c) : i > W => c[i].kind = "torn"
  BY WholeFrames
<1>c. Cut(c) = IF InMulti(c, W + 1)
               THEN CHOOSE k \in 0 .. W - 1 : c[k + 1].kind = "multi" /\ \A i \in k + 2 .. W : c[i].kind # "multi"
               ELSE W
  BY DEF Cut
<1> HIDE DEF W
<1>5. CASE ~InMulti(c, W + 1)
  <2>1. Cut(c) = W
    BY <1>5, <1>c
  <2>2. After(c, W) = "out"
    BY <1>2, <1>3, <1>5 DEF After
  <2>3. ASSUME NEW n \in 0 .. Len(c) PROVE Committed(First(c, n)) \subseteq Committed(First(c, W))
    <3> DEFINE p == First(c, n)
               q == First(c, W)
    <3>1. Len(p) = n /\ (\A i \in 1 .. n : p[i] = c[i]) /\ Len(q) = W /\ (\A i \in 1 .. W : q[i] = c[i])
      BY <1>0, Beginning
    <3> HIDE DEF p, q
    <3>2. ASSUME NEW i \in CmdAt(p), Done(p, i) PROVE i \in CmdAt(q) /\ Done(q, i) /\ q[i] = p[i]
      <4>1. i \in 1 .. n /\ i \in 1 .. Len(c) /\ c[i].kind = "cmd" /\ p[i] = c[i]
        BY <1>0, <3>1 DEF CmdAt
      <4>2. i \in 1 .. W /\ q[i] = c[i] /\ i \in CmdAt(q)
        BY <1>0, <1>4, <3>1, <4>1 DEF CmdAt
      <4>3. ASSUME c[i].arg \in TxUnits PROVE i < W /\ q[i + 1].kind = "exec"
        <5>1. i < n /\ i + 1 \in 1 .. n /\ i + 1 \in 1 .. Len(c) /\ c[i + 1].kind = "exec"
          BY <1>0, <3>1, <3>2, <4>1, <4>3 DEF Done
        <5>2. i + 1 \in 1 .. W
          BY <1>0, <1>4, <5>1
        <5> QED BY <1>0, <3>1, <4>2, <5>1, <5>2
      <4> QED BY <3>1, <4>1, <4>2, <4>3 DEF Done
    <3> QED BY <3>2 DEF Committed, p, q
  <2> QED BY <1>0, <1>4, <2>1, <2>2, <2>3
<1>6. CASE InMulti(c, W + 1)
  <2>1. PICK j \in 1 .. W : c[j].kind = "multi" /\ \A l \in j .. W : c[l].kind # "exec"
    BY <1>0, <1>6 DEF InMulti
  <2>2. \E k \in 0 .. W - 1 : c[k + 1].kind = "multi" /\ \A i \in k + 2 .. W : c[i].kind # "multi"
    <3>0. W # 0 /\ W \in 1 .. Len(c)
      BY <1>0, <2>1
    <3>1. After(c, W) \in {"multi", "select", "cmd"}
      BY <1>3, <1>6
    <3>a. ASSUME NEW i \in 1 .. Len(c) PROVE After(c, i) # "multi" => c[i].kind # "multi"
      BY Follows
    <3>b. ASSUME NEW i \in 1 .. Len(c), After(c, i) = "multi" PROVE c[i].kind = "multi"
      BY <3>b, Follows
    <3>2. CASE After(c, W) = "multi"
      <4>1. W - 1 \in 0 .. W - 1 /\ (W - 1) + 1 = W /\ (W - 1) + 2 .. W = {}
        BY <1>0, <3>0
      <4> QED BY <3>0, <3>b, <3>2, <4>1
    <3>3. CASE After(c, W) = "select"
      <4>1. After(c, W - 1) = "multi"
        BY <3>0, <3>3, Follows
      <4>2. W - 1 # 0 /\ W - 1 \in 1 .. Len(c)
        BY <1>0, <3>0, <4>1 DEF After
      <4>3. W - 2 \in 0 .. W - 1 /\ (W - 2) + 1 = W - 1 /\ \A i \in (W - 2) + 2 .. W : i = W
        BY <1>0, <3>0, <4>2
      <4>4. c[W].kind # "multi" /\ c[W - 1].kind = "multi"
        BY <3>0, <3>a, <3>b, <3>3, <4>1, <4>2
      <4> QED BY <4>3, <4>4
    <3>4. CASE After(c, W) = "cmd"
      <4>1. After(c, W - 1) \in {"multi", "select"}
        BY <3>0, <3>4, Follows
      <4>2. W - 1 # 0 /\ W - 1 \in 1 .. Len(c)
        BY <1>0, <3>0, <4>1 DEF After
      <4>3. CASE After(c, W - 1) = "multi"
        <5>1. W - 2 \in 0 .. W - 1 /\ (W - 2) + 1 = W - 1 /\ \A i \in (W - 2) + 2 .. W : i = W
          BY <1>0, <3>0, <4>2
        <5>2. c[W].kind # "multi" /\ c[W - 1].kind = "multi"
          BY <3>0, <3>a, <3>b, <3>4, <4>2, <4>3
        <5> QED BY <5>1, <5>2
      <4>4. CASE After(c, W - 1) = "select"
        <5>1. After(c, W - 2) = "multi"
          BY <1>0, <4>2, <4>4, Follows
        <5>2. W - 2 # 0 /\ W - 2 \in 1 .. Len(c)
          BY <1>0, <4>2, <5>1 DEF After
        <5>3. W - 3 \in 0 .. W - 1 /\ (W - 3) + 1 = W - 2 /\ \A i \in (W - 3) + 2 .. W : i = W \/ i = W - 1
          BY <1>0, <3>0, <5>2
        <5>4. c[W].kind # "multi" /\ c[W - 1].kind # "multi" /\ c[W - 2].kind = "multi"
          BY <3>0, <3>a, <3>b, <3>4, <4>2, <4>4, <5>1, <5>2
        <5> QED BY <5>3, <5>4
      <4> QED BY <4>1, <4>3, <4>4
    <3> QED BY <3>1, <3>2, <3>3, <3>4
  <2>3. Cut(c) = CHOOSE k \in 0 .. W - 1 : c[k + 1].kind = "multi" /\ \A i \in k + 2 .. W : c[i].kind # "multi"
    BY <1>6, <1>c
  <2>4. PICK k \in 0 .. W - 1 : k = Cut(c) /\ c[k + 1].kind = "multi" /\ \A i \in k + 2 .. W : c[i].kind # "multi"
    BY <2>2, <2>3
  <2>5. k \in 0 .. Len(c) /\ k + 1 \in 1 .. Len(c) /\ k + 1 <= W
    BY <1>0, <2>4
  <2>6. After(c, k) = "out" /\ After(c, k + 1) = "multi"
    BY <1>0, <2>4, <2>5, Follows
  <2>7. j <= k + 1
    BY <1>0, <2>1, <2>4
  <2>8. ASSUME NEW n \in 0 .. Len(c) PROVE Committed(First(c, n)) \subseteq Committed(First(c, k))
    <3> DEFINE p == First(c, n)
               q == First(c, k)
    <3>1. Len(p) = n /\ (\A i \in 1 .. n : p[i] = c[i]) /\ Len(q) = k /\ (\A i \in 1 .. k : q[i] = c[i])
      BY <1>0, <2>5, Beginning
    <3> HIDE DEF p, q
    <3>2. ASSUME NEW i \in CmdAt(p), Done(p, i) PROVE i \in CmdAt(q) /\ Done(q, i) /\ q[i] = p[i]
      <4>1. i \in 1 .. n /\ i \in 1 .. Len(c) /\ c[i].kind = "cmd" /\ p[i] = c[i] /\ i \in 1 .. W
        BY <1>0, <1>4, <3>1 DEF CmdAt
      <4>2. i < k + 1 \/ i > k + 1
        BY <2>4, <2>5, <4>1
      <4>3. ASSUME c[i].arg \in TxUnits PROVE i < k /\ q[i + 1].kind = "exec"
        <5>1. i < n /\ i + 1 \in 1 .. n /\ i + 1 \in 1 .. Len(c) /\ c[i + 1].kind = "exec"
          BY <1>0, <3>1, <3>2, <4>1, <4>3 DEF Done
        <5>2. i + 1 \in 1 .. W
          BY <1>0, <1>4, <5>1
        <5>3. i + 1 < j
          BY <1>0, <2>1, <5>1, <5>2
        <5>4. i + 1 \in 1 .. k
          BY <2>4, <2>5, <2>7, <4>1, <5>3
        <5> QED BY <2>5, <3>1, <4>1, <5>1, <5>4
      <4>4. ASSUME c[i].arg \notin TxUnits, i > k + 1 PROVE FALSE
        <5>1. After(c, i - 1) = "out"
          BY <4>1, <4>4, Follows
        <5>2. i \in 1 .. Len(c) + 1 /\ j \in 1 .. i - 1 /\ \A l \in j .. i - 1 : l \in j .. W
          BY <1>0, <2>1, <2>7, <4>1, <4>4, SMTT(30)
        <5>3. InMulti(c, i)
          BY <2>1, <5>2 DEF InMulti
        <5> QED BY <5>1, <5>2, <5>3, InMultiAfter
      <4>5. i \in 1 .. k
        BY <2>4, <2>5, <4>1, <4>2, <4>3, <4>4
      <4> QED BY <3>1, <4>1, <4>3, <4>5 DEF Done, CmdAt
    <3> QED BY <3>2 DEF Committed, p, q
  <2> QED BY <2>4, <2>5, <2>6, <2>8
<1> QED BY <1>5, <1>6

\* The commands of a beginning are the earliest ones.
LEMMA EarliestCommands ==
    ASSUME NEW s \in Seq(FrameSet), Ordered(s), NEW n \in 0 .. Len(s), NEW v \in CmdsOf(s), NEW w \in CmdsOf(First(s, n)),
           v \in Int, w \in Int, v < w
    PROVE  v \in CmdsOf(First(s, n))
<1> DEFINE t == First(s, n)
<1>1. Len(t) = n /\ (\A i \in 1 .. n : t[i] = s[i]) /\ n \in Nat /\ Len(s) \in Nat /\ n <= Len(s)
  BY Beginning
<1> HIDE DEF t
<1>2. PICK i \in CmdAt(s) : v = s[i].arg
  BY DEF CmdsOf
<1>3. PICK j \in CmdAt(t) : w = t[j].arg
  BY DEF CmdsOf, t
<1>4. j \in 1 .. n /\ j \in CmdAt(s) /\ w = s[j].arg
  BY <1>1, <1>3 DEF CmdAt
<1>5. i \in Nat /\ i >= 1 /\ s[i].kind = "cmd"
  BY <1>1, <1>2 DEF CmdAt
<1>6. ~(i > j)
  BY <1>2, <1>4 DEF Ordered
<1>7. i # j
  BY <1>2, <1>4
<1>8. i \in CmdAt(t) /\ t[i].arg = v
  BY <1>1, <1>2, <1>4, <1>5, <1>6, <1>7 DEF CmdAt
<1> QED BY <1>8 DEF CmdsOf, t

\* A beginning of a beginning.
LEMMA FirstFirst ==
    ASSUME NEW s \in Seq(FrameSet), NEW n \in 0 .. Len(s), NEW m \in 0 .. n
    PROVE  First(First(s, n), m) = First(s, m)
<1>1. First(s, n) \in Seq(FrameSet) /\ Len(First(s, n)) = n /\ \A i \in 1 .. n : First(s, n)[i] = s[i]
  BY Beginning
<1>2. m \in 0 .. Len(s) /\ m \in 0 .. Len(First(s, n))
  BY <1>1
<1>3. First(s, m) \in Seq(FrameSet) /\ Len(First(s, m)) = m /\ \A i \in 1 .. m : First(s, m)[i] = s[i]
  BY <1>2, Beginning
<1>4. /\ First(First(s, n), m) \in Seq(FrameSet) /\ Len(First(First(s, n), m)) = m
      /\ \A i \in 1 .. m : First(First(s, n), m)[i] = First(s, n)[i]
  BY <1>1, <1>2, Beginning
<1>5. First(First(s, n), m) = First(s, m)
  <2>1. \A i \in 1 .. m : First(First(s, n), m)[i] = First(s, m)[i]
    BY <1>1, <1>3, <1>4
  <2> QED BY <1>3, <1>4, <2>1, SeqEqual
<1> QED BY <1>5

\* All frames of a sequence are a beginning of it.
LEMMA FirstAll ==
    ASSUME NEW s \in Seq(FrameSet)
    PROVE  First(s, Len(s)) = s /\ Len(s) \in 0 .. Len(s)
BY DEF First

\* What a crash may leave of a file: a beginning, and a torn frame where there
\* was another one.
Remains(s, n, x) == x = First(s, n) \/ (n < Len(s) /\ x = Append(First(s, n), Torn))

\* What a crash leaves of a good file is good, and holds a beginning of its
\* commands.
LEMMA RemainsFacts ==
    ASSUME NEW s, Good(s), NEW n \in 0 .. Len(s), NEW x, Remains(s, n, x)
    PROVE  /\ Good(x) /\ Len(x) >= n /\ CmdsOf(x) = CmdsOf(First(s, n)) /\ CmdsOf(x) \subseteq CmdsOf(s)
           /\ \A m \in 0 .. n : First(x, m) = First(s, m)
           /\ n >= 1 => x[1] = s[1]
<1> DEFINE t == First(s, n)
<1>0. s \in Seq(FrameSet) /\ n \in Nat /\ Len(s) \in Nat
  BY DEF Good
<1>1. Good(t) /\ Len(t) = n /\ CmdsOf(t) \subseteq CmdsOf(s) /\ t \in Seq(FrameSet) /\ \A i \in 1 .. n : t[i] = s[i]
  BY <1>0, Beginning DEF Good
<1>2. \A m \in 0 .. n : First(t, m) = First(s, m)
  BY <1>0, FirstFirst
<1>3. CASE x = t
  BY <1>0, <1>1, <1>2, <1>3
<1>4. CASE n < Len(s) /\ x = Append(t, Torn)
  <2>1. After(t, n) # "torn"
    <3>1. n + 1 \in 1 .. Len(s) /\ (n + 1) - 1 = n
      BY <1>0, <1>4
    <3>2. After(s, n) # "torn"
      BY <1>0, <3>1, Follows DEF Good
    <3> QED BY <1>0, <3>2, Beginning
  <2> HIDE DEF t
  <2>2. Good(x) /\ Len(x) = n + 1 /\ CmdsOf(x) = CmdsOf(t)
    BY <1>1, <1>4, <2>1, AddTorn
  <2>3. Torn \in FrameSet
    BY FrameTypes
  <2>4. x \in Seq(FrameSet) /\ n \in 0 .. Len(x) /\ \A i \in 1 .. n : x[i] = t[i]
    BY <1>0, <1>1, <1>4, <2>2, <2>3
  <2>5. First(x, n) = t
    <3>1. First(x, n) \in Seq(FrameSet) /\ Len(First(x, n)) = n /\ \A i \in 1 .. n : First(x, n)[i] = x[i]
      BY <2>4, Beginning
    <3> QED BY <1>1, <2>4, <3>1, SeqEqual
  <2>6. ASSUME NEW m \in 0 .. n PROVE First(x, m) = First(s, m)
    <3>1. First(First(x, n), m) = First(x, m)
      BY <2>4, FirstFirst
    <3> QED BY <1>2, <2>5, <3>1
  <2> QED BY <1>0, <1>1, <2>2, <2>4, <2>6 DEF t
<1> QED BY <1>3, <1>4 DEF Remains, t

\* A failed write leaves a part of a record, torn or not.
LEMMA PartAppended ==
    ASSUME NEW s, Good(s), Ready(s, wdb), NEW u \in Units, \A v \in CmdsOf(s) : v < u,
           NEW k \in 0 .. Len(Record(u)) - 1, NEW x,
           x = First(s \o Record(u), Len(s) + k) \/ x = Append(First(s \o Record(u), Len(s) + k), Torn)
    PROVE  /\ Good(x) /\ CmdsOf(s) \subseteq CmdsOf(x) /\ CmdsOf(x) \subseteq CmdsOf(s) \union {u}
           /\ Committed(s) \subseteq Committed(x)
<1> DEFINE r == s \o Record(u)
           n == Len(s) + k
<1>0. s \in Seq(FrameSet) /\ Len(s) \in Nat
  BY DEF Good
<1>1. Record(u) \in Seq(FrameSet)
  BY <1>0, RecordShape
<1>2. Good(r) /\ CmdsOf(r) = CmdsOf(s) \union {u} /\ Len(r) = Len(s) + Len(Record(u)) /\ First(r, Len(s)) = s /\ r \in Seq(FrameSet)
  <2>1. Good(r) /\ CmdsOf(r) = CmdsOf(s) \union {u}
    BY RecordAppended
  <2>2. Len(r) = Len(s) + Len(Record(u)) /\ First(r, Len(s)) = s
    BY <1>0, <1>1, Joined
  <2> QED BY <2>1, <2>2 DEF Good
<1>3. n \in Nat /\ n < Len(r) /\ n >= Len(s) /\ n \in 0 .. Len(r) /\ Len(r) \in Nat /\ Len(s) \in 0 .. n
  BY <1>0, <1>1, <1>2
<1> HIDE DEF r
<1>4. Remains(r, n, x)
  BY <1>3 DEF Remains, r
<1> HIDE DEF n
<1>5. Good(x) /\ Len(x) >= n /\ CmdsOf(x) \subseteq CmdsOf(s) \union {u} /\ First(x, Len(s)) = s
  BY <1>2, <1>3, <1>4, RemainsFacts
<1>6. x \in Seq(FrameSet) /\ Len(s) \in 0 .. Len(x)
  BY <1>0, <1>3, <1>5 DEF Good
<1>7. CmdsOf(s) \subseteq CmdsOf(x) /\ Committed(s) \subseteq Committed(x)
  BY <1>5, <1>6, Beginning
<1> QED BY <1>5, <1>7

\* A fresh file.
LEMMA FreshLog ==
    /\ Good(<<>>) /\ CmdsOf(<<>>) = {} /\ Committed(<<>>) = {} /\ <<>> \in Seq(FrameSet)
    /\ Good(<<Header>>) /\ CmdsOf(<<Header>>) = {} /\ Ready(<<Header>>, NoDb) /\ <<Header>> \in Seq(FrameSet)
    /\ Committed(<<Header>>) = {}
<1>1. Header \in FrameSet /\ Header.kind = "header" /\ Torn.kind = "torn"
  BY FrameTypes
<1>2. <<>> \in Seq(FrameSet) /\ <<Header>> \in Seq(FrameSet) /\ Len(<<Header>>) = 1 /\ <<Header>>[1] = Header /\ Len(<<>>) = 0
  BY <1>1
<1>3. CmdAt(<<>>) = {} /\ CmdAt(<<Header>>) = {}
  BY <1>1 DEF CmdAt
<1>4. CmdsOf(<<>>) = {} /\ Committed(<<>>) = {} /\ CmdsOf(<<Header>>) = {} /\ Committed(<<Header>>) = {}
  BY <1>3 DEF CmdsOf, Committed
<1>5. Good(<<>>)
  BY <1>2, <1>3 DEF Good, WellFormed, Ordered, Selected
<1> DEFINE h == <<Header>>
<1> HIDE DEF h
<1>6. h \in Seq(FrameSet) /\ Len(h) = 1 /\ h[1] = Header /\ CmdAt(h) = {}
  BY <1>2, <1>3 DEF h
<1>7. After(h, 0) = "out" /\ After(h, 1) = "out"
  BY <1>1, <1>6 DEF After
<1>8. Fits(h, 1)
  BY <1>1, <1>6, <1>7 DEF Fits
<1>9. Good(h) /\ Ready(h, NoDb)
  BY <1>6, <1>7, <1>8 DEF Good, WellFormed, Ordered, Selected, Ready, Closed
<1> QED BY <1>2, <1>4, <1>5, <1>9 DEF h

\* A record is not empty.
LEMMA RecordLen ==
    ASSUME NEW u \in Units
    PROVE  Record(u) \in Seq(FrameSet) /\ Len(Record(u)) \in Nat /\ Len(Record(u)) >= 1
<1> DEFINE r == Record(u)
<1>1. PICK m, d, c, e : m = Frame("multi", u) /\ d = Frame("select", DbOf[u]) /\ c = Frame("cmd", u) /\ e = Frame("exec", u)
  OBVIOUS
<1>2. m \in FrameSet /\ d \in FrameSet /\ c \in FrameSet /\ e \in FrameSet
  BY <1>1, FrameTypes, UnitAssumption
<1>3. <<>> \in Seq(FrameSet)
  OBVIOUS
<1>4. PICK s : s = <<>> /\ s \in Seq(FrameSet)
  BY <1>3
<1>5. r \in Seq(FrameSet) /\ s \o r = r
  BY <1>1, <1>4, RecordShape, Joined
<1> DEFINE F(x) == x = Append(s, c) \/ x = Append(Append(s, d), c) \/ x = Append(Append(Append(s, m), c), e)
                   \/ x = Append(Append(Append(Append(s, m), d), c), e)
<1>a. F(s \o r)
  <2>1. s \in Seq(FrameSet)
    BY <1>4
  <2>2. CASE u \in TxUnits
    <3>1. CASE wdb = DbOf[u]
      BY <1>1, <2>1, <2>2, <3>1, RecordShape
    <3>2. CASE wdb # DbOf[u]
      BY <1>1, <2>1, <2>2, <3>2, RecordShape
    <3> QED BY <3>1, <3>2
  <2>3. CASE u \notin TxUnits
    <3>1. CASE wdb = DbOf[u]
      BY <1>1, <2>1, <2>3, <3>1, RecordShape
    <3>2. CASE wdb # DbOf[u]
      BY <1>1, <2>1, <2>3, <3>2, RecordShape
    <3> QED BY <3>1, <3>2
  <2> QED BY <2>2, <2>3
<1>6. F(r)
  <2> HIDE DEF F, r
  <2> QED BY <1>5, <1>a
<1>7. \A t \in Seq(FrameSet), x \in FrameSet : Append(t, x) \in Seq(FrameSet) /\ Len(Append(t, x)) >= 1
  OBVIOUS
<1> HIDE DEF r
<1>8. Len(r) >= 1
  BY <1>2, <1>4, <1>6, <1>7
<1> QED BY <1>5, <1>8 DEF r

-----------------------------------------------------------------------------
(* Part two.  The invariants of the pipeline, from its log to the theorems.  *)

\* The log that is being written, as the worker sees it, and the part of it
\* that no crash takes away.
Log    == os[man.incr] \o buf
OnDisk == First(os[man.incr], synced[man.incr])
Logged == man.base \union CmdsOf(Log)

Live      == srv = "up" /\ wpc # "none"
Stopped   == latched \/ holder.cmd.op = "exit"
Sending   == holder.st = "send" /\ holder.cmd.op = "append"
HasAppend == \E i \in 1 .. Len(queue) : queue[i].op = "append"
OnWay     == HasAppend \/ Sending
HolderAppends == holder.st # "ok" /\ holder.cmd.op = "append"
\* The write that is executed and not yet known to be logged.
InHand    == IF HolderAppends THEN {next - 1} ELSE {}
CanAppend == OnWay \/ (~Stopped /\ ~HolderAppends)

\* The server's phases.
Phases ==
    /\ srv # "up" => holder = Free /\ ~enabled /\ mat = NoMat /\ (wpc = "none" \/ (wpc = "idle" /\ queue = <<>>))
    /\ srv \in {"off", "boot"} => wpc = "none"
    /\ srv = "open" => wpc = "idle" /\ wdb = NoDb
    /\ srv \in {"open", "up"} => wfile = man.incr
    /\ wpc = "none" => buf = <<>>
    /\ srv = "up" /\ ~enabled => wpc = "none" /\ queue = <<>> /\ holder = Free
    /\ srv = "up" /\ enabled /\ wpc = "none" =>
          holder.cmd.op = "exit" \/ (holder.cmd.op = "disable" /\ holder.st \in {"ok", "err"})

\* The worker's steps.
Stages ==
    /\ wpc \in {"none", "idle"} => cur = NoCmd
    /\ wpc \notin {"none", "idle"} => cur.op # "none"
    /\ wpc # "reply" => wres = "ok"
    /\ wpc = "flush" => cur.op = "append" /\ policy = "no"
    /\ wpc = "sync" => buf = <<>>
    /\ cur.op = "policy" => wpc = "reply"
    /\ (wpc = "mat") <=> (mat.pc # "none" /\ mat.by = "worker")
    /\ wpc = "mat" => cur.op = "rewrite" /\ mat.snap = cur.snap
    /\ mat.pc = "none" => mat = NoMat
    /\ mat.by = "enable" => srv = "up" /\ ~enabled /\ mat.snap = mem /\ mat.pc # "none"

\* The lock holder and the reply it waits for.
Waits ==
    /\ holder.st = "free" => holder = Free
    /\ holder.st # "free" => holder.cmd.op # "none"
    /\ holder.cmd.op = "rewrite" => holder.st = "send"
    /\ holder.st = "await" /\ queue = <<>> => cur = holder.cmd /\ wpc \notin {"none", "idle"}
    /\ holder.st = "await" /\ queue # <<>> => queue[Len(queue)] = holder.cmd
    /\ holder.st \in {"ok", "err"} =>
          queue = <<>> /\ (IF holder.cmd.op \in {"disable", "exit"} THEN wpc = "none" ELSE wpc = "idle")
    /\ cur.op \in {"disable", "exit"} =>
          holder.cmd.op = "exit" \/ (holder.cmd = cur /\ holder.st = "await" /\ queue = <<>>)
    /\ \A i \in 1 .. Len(queue) :
          /\ queue[i].op # "none"
          /\ queue[i].op \in {"disable", "exit"} =>
                srv # "up" \/ holder.cmd.op = "exit" \/ (holder.cmd = queue[i] /\ holder.st = "await" /\ i = Len(queue))

\* One rewrite at a time, with a file number left for it.
Rewrites ==
    /\ \A i \in 1 .. Len(queue) : (srv = "up" /\ queue[i].op = "rewrite") =>
          /\ man.next + 1 \in Files /\ cur.op # "rewrite" /\ holder.cmd.op # "rewrite"
          /\ \A j \in 1 .. Len(queue) : queue[j].op = "rewrite" => i = j
    /\ cur.op = "rewrite" => holder.cmd.op # "rewrite" /\ (wpc # "reply" => man.next + 1 \in Files)
    /\ holder.cmd.op = "rewrite" => man.next + 1 \in Files
    /\ mat.pc # "none" => man.next + 1 \in Files

\* One append at a time, that of the last write.
Appends ==
    /\ holder.cmd.op = "append" => holder.cmd.u = next - 1 /\ next - 1 \in mem /\ ~latched
    /\ \A i \in 1 .. Len(queue) : (srv = "up" /\ queue[i].op = "append") =>
         /\ queue[i].u = next - 1 /\ next - 1 \in mem
         /\ Stopped \/ (i = Len(queue) /\ holder.st = "await" /\ holder.cmd = queue[i])
         /\ \A j \in 1 .. Len(queue) : queue[j].op = "append" => i = j
    /\ cur.op = "append" =>
         /\ cur.u = next - 1
         /\ Stopped \/ (holder.st = "await" /\ holder.cmd = cur /\ queue = <<>>)
         /\ ~HasAppend /\ ~Sending

\* What a pending rewrite's snapshot holds.
SnapOk(s) ==
    /\ s \subseteq mem /\ mem \subseteq s \union {next - 1} /\ acked \union safe \subseteq s
    /\ ~Stopped => mem \subseteq s \union InHand

Snapshots ==
    /\ \A i \in 1 .. Len(queue) : (srv = "up" /\ queue[i].op = "rewrite") =>
         /\ SnapOk(queue[i].snap)
         /\ \A j \in 1 .. Len(queue) : queue[j].op = "append" => (next - 1 \in queue[i].snap <=> j < i)
         /\ Sending => next - 1 \notin queue[i].snap
    /\ (cur.op = "rewrite" /\ wpc # "reply") => SnapOk(cur.snap) /\ (OnWay => next - 1 \notin cur.snap)
    /\ holder.cmd.op = "rewrite" => SnapOk(holder.cmd.snap) /\ (HasAppend => next - 1 \in holder.cmd.snap)

\* The units in memory and those in the log.
Contents ==
    /\ mem \subseteq 1 .. next - 1 /\ acked \subseteq mem
    /\ man = NoManifest => mem = {} /\ safe = {} /\ srv = "off"
    /\ man # NoManifest => Logged \subseteq mem /\ \A v \in mem, w \in Logged : v < w => v \in Logged
    /\ (Live /\ OnWay) => next - 1 \notin Logged /\ mem \subseteq Logged \union {next - 1}
    /\ (Live /\ ~Stopped) => mem \subseteq Logged \union InHand

\* The frames of the log.
Frames ==
    /\ man # NoManifest => Good(Log) /\ \A u \in man.base, v \in CmdsOf(Log) : u < v
    /\ (Live /\ CanAppend) => Ready(Log, wdb)
    /\ (cur.op = "append" /\ wres = "ok") => Ready(Log, wdb) /\ next - 1 \in Committed(Log)
    /\ (holder.st = "ok" /\ holder.cmd.op = "append") => next - 1 \in Committed(Log)

AllSynced == buf = <<>> /\ synced[man.incr] = Len(os[man.incr])
Forced(c) == c.op \in {"flush", "disable", "exit"} \/ (c.op = "append" /\ policy = "always")

\* What is promised is on disk.
Promises ==
    /\ man # NoManifest => safe \subseteq man.base \union Committed(OnDisk)
    /\ (srv = "up" /\ (wpc # "none" \/ holder.st = "ok")) => acked \subseteq man.base \union Committed(Log)
    /\ (wpc = "reply" /\ wres = "ok" /\ Forced(cur)) => AllSynced
    /\ (holder.st = "ok" /\ Forced(holder.cmd)) => AllSynced
    /\ srv = "refused" => safe = {}

\* The files.
OnlyHeader == \A f \in Files : f > man.incr => Len(os[f]) <= 1 /\ (synced[f] >= 1 => os[f] = <<Header>>)

Layout ==
    /\ man = NoManifest => os[1] = <<>> /\ synced[1] = 0
    /\ man # NoManifest => /\ man.incr \in Files /\ man.next = man.incr + 1
                           /\ (synced[man.incr] >= 1) \/ man.base = {}
                           /\ synced[man.incr] >= 1 => os[man.incr][1] = Header /\ man.incr \in files
    /\ srv \in {"open", "up"} => ~BadHeader(man.incr) /\ man.incr \in files
    /\ srv = "open" => buf = IF os[man.incr] = <<>> THEN <<Header>> ELSE <<>>
    /\ Live => Log # <<>> /\ Log[1] = Header
    /\ OnlyHeader
    /\ mat.pc \in {"sync", "commit"} => os[NextIncr] = <<Header>> /\ NextIncr \in files
    /\ mat.pc = "commit" => synced[NextIncr] = 1
Inv ==
    /\ TypeOK /\ Phases /\ Stages /\ Waits /\ Rewrites /\ Appends /\ Snapshots
    /\ Contents /\ Frames /\ Promises /\ Layout

-----------------------------------------------------------------------------
(* Commands, the queue and the lock holder.                                *)

\* The fields of the records.
LEMMA Fields ==
    /\ NoCmd \in CmdSet /\ NoCmd.op = "none"
    /\ Free.st = "free" /\ Free.cmd = NoCmd /\ Free.then = FALSE
    /\ NoMat.pc = "none" /\ NoMat.by = "worker" /\ NoMat.snap = {}
    /\ NoManifest.base = {} /\ NoManifest.incr = 0 /\ NoManifest.next = 1
    /\ \A c : Send(c).st = "send" /\ Send(c).cmd = c /\ Send(c).then = FALSE
    /\ \A u \in Units : AppendCmd(u) \in CmdSet /\ AppendCmd(u).op = "append" /\ AppendCmd(u).u = u
    /\ \A s \in SUBSET Units : RewriteCmd(s) \in CmdSet /\ RewriteCmd(s).op = "rewrite" /\ RewriteCmd(s).snap = s
    /\ \A p \in Policies : PolicyCmd(p) \in CmdSet /\ PolicyCmd(p).op = "policy" /\ PolicyCmd(p).p = p
    /\ \A o \in {"flush", "disable", "exit"} : Cmd(o) \in CmdSet /\ Cmd(o).op = o
<1>1. NoCmd \in CmdSet /\ NoCmd.op = "none"
  BY UnitAssumption DEF NoCmd, CmdSet
<1>2. Free.st = "free" /\ Free.cmd = NoCmd /\ Free.then = FALSE
  BY DEF Free
<1>3. NoMat.pc = "none" /\ NoMat.by = "worker" /\ NoMat.snap = {}
  BY DEF NoMat
<1>4. \A c : Send(c).st = "send" /\ Send(c).cmd = c /\ Send(c).then = FALSE
  BY DEF Send
<1>5. \A u \in Units : AppendCmd(u) \in CmdSet /\ AppendCmd(u).op = "append" /\ AppendCmd(u).u = u
  <2> TAKE u \in Units
  <2>1. AppendCmd(u) = [op |-> "append", u |-> u, snap |-> {}, p |-> "always"]
    <3>1. Cmd("append") = [op |-> "append", u |-> 0, snap |-> {}, p |-> "always"]
      BY DEF Cmd, NoCmd
    <3> QED BY <3>1 DEF AppendCmd
  <2>2. u \in 0 .. MaxUnits
    BY UnitAssumption DEF Units
  <2> QED BY <2>1, <2>2 DEF CmdSet
<1>6. \A s \in SUBSET Units : RewriteCmd(s) \in CmdSet /\ RewriteCmd(s).op = "rewrite" /\ RewriteCmd(s).snap = s
  <2> TAKE s \in SUBSET Units
  <2>1. RewriteCmd(s) = [op |-> "rewrite", u |-> 0, snap |-> s, p |-> "always"]
    <3>1. Cmd("rewrite") = [op |-> "rewrite", u |-> 0, snap |-> {}, p |-> "always"]
      BY DEF Cmd, NoCmd
    <3> QED BY <3>1 DEF RewriteCmd
  <2>2. 0 \in 0 .. MaxUnits
    BY UnitAssumption
  <2> QED BY <2>1, <2>2 DEF CmdSet
<1>7. \A p \in Policies : PolicyCmd(p) \in CmdSet /\ PolicyCmd(p).op = "policy" /\ PolicyCmd(p).p = p
  <2> TAKE p \in Policies
  <2>1. PolicyCmd(p) = [op |-> "policy", u |-> 0, snap |-> {}, p |-> p]
    <3>1. Cmd("policy") = [op |-> "policy", u |-> 0, snap |-> {}, p |-> "always"]
      BY DEF Cmd, NoCmd
    <3> QED BY <3>1 DEF PolicyCmd
  <2>2. 0 \in 0 .. MaxUnits /\ p \in {"always", "everysec", "no"}
    BY UnitAssumption, PolicyAssumption
  <2> QED BY <2>1, <2>2 DEF CmdSet
<1>8. \A o \in {"flush", "disable", "exit"} : Cmd(o) \in CmdSet /\ Cmd(o).op = o
  BY UnitAssumption DEF Cmd, NoCmd, CmdSet
<1>9. NoManifest.base = {} /\ NoManifest.incr = 0 /\ NoManifest.next = 1
  BY DEF NoManifest
<1> QED BY <1>1, <1>2, <1>3, <1>4, <1>5, <1>6, <1>7, <1>8, <1>9

\* The holders that there are.
Holders == [st : {"free", "send", "await", "ok", "err"}, cmd : CmdSet, then : BOOLEAN]

\* What the lock holder turns into when it sends or is answered.
LEMMA HolderTypes ==
    /\ Free \in Holders
    /\ \A c \in CmdSet : Send(c) \in Holders /\ \A b \in BOOLEAN :
         /\ [Send(c) EXCEPT !.then = b] \in Holders
         /\ [Send(c) EXCEPT !.then = b].st = "send" /\ [Send(c) EXCEPT !.then = b].cmd = c
    /\ \A h \in Holders, r \in {"await", "ok", "err"} :
         [h EXCEPT !.st = r] \in Holders /\ [h EXCEPT !.st = r].st = r /\ [h EXCEPT !.st = r].cmd = h.cmd
<1>1. NoCmd \in CmdSet
  BY Fields
<1>2. Free \in Holders
  BY <1>1 DEF Free, Holders
<1>3. \A c \in CmdSet : Send(c) \in Holders
  BY <1>1 DEF Send, Holders
<1>4. \A c \in CmdSet, b \in BOOLEAN :
         /\ [Send(c) EXCEPT !.then = b] \in Holders
         /\ [Send(c) EXCEPT !.then = b].st = "send" /\ [Send(c) EXCEPT !.then = b].cmd = c
  BY <1>1 DEF Send, Holders
<1>5. \A h \in Holders, r \in {"await", "ok", "err"} :
         [h EXCEPT !.st = r] \in Holders /\ [h EXCEPT !.st = r].st = r /\ [h EXCEPT !.st = r].cmd = h.cmd
  BY DEF Holders
<1> QED BY <1>2, <1>3, <1>4, <1>5

\* A queue without its first command, and with one more.
LEMMA Dequeued ==
    ASSUME NEW q \in Seq(CmdSet), q # <<>>
    PROVE  /\ Tail(q) \in Seq(CmdSet) /\ Len(q) \in Nat /\ Len(q) >= 1 /\ Len(Tail(q)) = Len(q) - 1
           /\ Head(q) = q[1] /\ Head(q) \in CmdSet
           /\ \A i \in 1 .. Len(q) - 1 : Tail(q)[i] = q[i + 1]
           /\ Tail(q) = <<>> <=> Len(q) = 1
<1>1. Len(q) \in Nat /\ Len(q) >= 1
  OBVIOUS
<1>2. Tail(q) \in Seq(CmdSet) /\ Len(Tail(q)) = Len(q) - 1
  OBVIOUS
<1>3. Head(q) = q[1] /\ Head(q) \in CmdSet
  OBVIOUS
<1>4. \A i \in 1 .. Len(q) - 1 : Tail(q)[i] = q[i + 1]
  OBVIOUS
<1>5. Tail(q) = <<>> <=> Len(q) = 1
  <2>1. \A t \in Seq(CmdSet) : t = <<>> <=> Len(t) = 0
    OBVIOUS
  <2>2. PICK t \in Seq(CmdSet) : t = Tail(q) /\ Len(t) = Len(q) - 1
    BY <1>2
  <2>a. Len(t) = Len(q) - 1
    BY <2>2
  <2>b. t = <<>> <=> Len(t) = 0
    BY <2>1, Zenon
  <2>3. t = <<>> <=> Len(q) = 1
    BY <1>1, <2>a, <2>b
  <2> QED BY <2>2, <2>3
<1> QED BY <1>1, <1>2, <1>3, <1>4, <1>5

\* A command enters the channel at its end.
LEMMA Enqueued ==
    ASSUME NEW q \in Seq(CmdSet), NEW c \in CmdSet
    PROVE  /\ Append(q, c) \in Seq(CmdSet) /\ Len(q) \in Nat /\ Len(Append(q, c)) = Len(q) + 1
           /\ Append(q, c)[Len(q) + 1] = c /\ \A i \in 1 .. Len(q) : Append(q, c)[i] = q[i]
           /\ Append(q, c) # <<>>
OBVIOUS


ControlTypes ==
    /\ srv \in {"off", "boot", "open", "up", "refused"} /\ next \in Nat /\ mem \in SUBSET Units
    /\ holder \in Holders /\ queue \in Seq(CmdSet) /\ cur \in CmdSet /\ wres \in {"ok", "err"}
    /\ wpc \in {"none", "idle", "flushsync", "flush", "sync", "reply", "mat"}
    /\ mat \in [pc : {"none", "open", "sync", "commit"}, by : {"worker", "enable"}, snap : SUBSET Units]

\* The types of the variables that steer the pipeline.
LEMMA ControlTyped == TypeOK => ControlTypes
BY UnitAssumption DEF TypeOK, ControlTypes, Holders

\* The worker receives a command.
Received ==
    /\ wpc = "idle" /\ queue # <<>> /\ cur' = Head(queue) /\ queue' = Tail(queue)
    /\ wpc' \in {"flushsync", "flush", "reply"} /\ UNCHANGED <<srv, mem, next, acked, safe, latched, holder, mat, man>>

\* What is left of the queue.
LEMMA ReceivedFacts ==
    ASSUME ControlTypes, Phases, Stages, Waits, Received
    PROVE  /\ srv = "up" /\ cur = NoCmd /\ cur.op = "none" /\ holder.st \notin {"ok", "err"}
           /\ queue' \in Seq(CmdSet) /\ Len(queue) \in Nat /\ Len(queue) >= 1 /\ Len(queue') = Len(queue) - 1
           /\ (\A i \in 1 .. Len(queue') : queue'[i] = queue[i + 1] /\ i + 1 \in 1 .. Len(queue))
           /\ cur' = queue[1] /\ 1 \in 1 .. Len(queue) /\ (queue' = <<>> <=> Len(queue) = 1)
<1>1. /\ Tail(queue) \in Seq(CmdSet) /\ Len(queue) \in Nat /\ Len(queue) >= 1 /\ Len(Tail(queue)) = Len(queue) - 1
      /\ \A i \in 1 .. Len(queue) - 1 : Tail(queue)[i] = queue[i + 1]
      /\ Head(queue) = queue[1] /\ (Tail(queue) = <<>> <=> Len(queue) = 1)
  BY Dequeued DEF ControlTypes, Received
<1>2. queue' = Tail(queue) /\ cur' = Head(queue) /\ wpc = "idle" /\ queue # <<>>
  BY DEF Received
<1>3. srv = "up" /\ cur = NoCmd /\ holder.st \notin {"ok", "err"}
  BY <1>2 DEF Phases, Stages, Waits
<1>4. NoCmd.op = "none"
  BY Fields
<1> QED BY <1>1, <1>2, <1>3, <1>4

\* The rewrites and appends that are left are the same but one.
LEMMA RewritesReceived ==
    ASSUME ControlTypes, Phases, Stages, Waits, Rewrites, Received
    PROVE  Rewrites'
<1>1. /\ srv = "up" /\ cur.op = "none"
      /\ Len(queue) \in Nat /\ Len(queue) >= 1 /\ Len(queue') = Len(queue) - 1
      /\ (\A i \in 1 .. Len(queue') : queue'[i] = queue[i + 1] /\ i + 1 \in 1 .. Len(queue))
      /\ cur' = queue[1] /\ 1 \in 1 .. Len(queue)
  BY ReceivedFacts
<1>2. UNCHANGED <<srv, holder, mat, man>>
  BY DEF Received
<1>3. ASSUME NEW i \in 1 .. Len(queue'), queue'[i].op = "rewrite"
      PROVE  /\ man.next + 1 \in Files /\ cur'.op # "rewrite" /\ holder.cmd.op # "rewrite"
             /\ \A j \in 1 .. Len(queue') : queue'[j].op = "rewrite" => i = j
  <2>1. i + 1 \in 1 .. Len(queue) /\ queue[i + 1].op = "rewrite" /\ i + 1 # 1
    BY <1>1, <1>3
  <2>2. man.next + 1 \in Files /\ holder.cmd.op # "rewrite" /\ \A j \in 1 .. Len(queue) : queue[j].op = "rewrite" => i + 1 = j
    BY <1>1, <2>1 DEF Rewrites
  <2> QED BY <1>1, <2>1, <2>2
<1>4. cur'.op = "rewrite" => holder.cmd.op # "rewrite" /\ man.next + 1 \in Files
  BY <1>1 DEF Rewrites
<1> QED BY <1>1, <1>2, <1>3, <1>4 DEF Rewrites

\* Receiving a command keeps the facts about appends.
LEMMA AppendsReceived ==
    ASSUME ControlTypes, Phases, Stages, Waits, Appends, Received
    PROVE  Appends'
<1>1. /\ srv = "up" /\ cur.op = "none"
      /\ Len(queue) \in Nat /\ Len(queue) >= 1 /\ Len(queue') = Len(queue) - 1
      /\ (\A i \in 1 .. Len(queue') : queue'[i] = queue[i + 1] /\ i + 1 \in 1 .. Len(queue))
      /\ cur' = queue[1] /\ 1 \in 1 .. Len(queue) /\ (queue' = <<>> <=> Len(queue) = 1)
  BY ReceivedFacts
<1>2. UNCHANGED <<srv, mem, next, latched, holder>>
  BY DEF Received
<1>a. Stopped' = Stopped /\ Sending' = Sending
  BY <1>2 DEF Stopped, Sending
<1>3. ASSUME NEW i \in 1 .. Len(queue'), queue'[i].op = "append"
      PROVE  /\ queue'[i].u = next - 1 /\ next - 1 \in mem
             /\ Stopped \/ (i = Len(queue') /\ holder.st = "await" /\ holder.cmd = queue'[i])
             /\ \A j \in 1 .. Len(queue') : queue'[j].op = "append" => i = j
             /\ cur'.op # "append"
  <2>1. i + 1 \in 1 .. Len(queue) /\ queue[i + 1].op = "append" /\ i + 1 # 1 /\ queue'[i] = queue[i + 1]
    BY <1>1, <1>3
  <2>2. /\ queue[i + 1].u = next - 1 /\ next - 1 \in mem
        /\ Stopped \/ (i + 1 = Len(queue) /\ holder.st = "await" /\ holder.cmd = queue[i + 1])
        /\ \A j \in 1 .. Len(queue) : queue[j].op = "append" => i + 1 = j
    BY <1>1, <2>1 DEF Appends
  <2> QED BY <1>1, <2>1, <2>2, SMTT(30)
<1>4. ASSUME cur'.op = "append"
      PROVE  /\ cur'.u = next - 1
             /\ Stopped \/ (holder.st = "await" /\ holder.cmd = cur' /\ queue' = <<>>)
             /\ ~Sending
  <2>1. cur'.u = next - 1 /\ (Stopped \/ (1 = Len(queue) /\ holder.st = "await" /\ holder.cmd = cur'))
    BY <1>1, <1>4 DEF Appends
  <2>2. ~Sending
    BY <2>1 DEF Sending, Stopped, Appends
  <2> QED BY <1>1, <2>1, <2>2
<1>5. cur'.op = "append" => ~HasAppend'
  BY <1>3 DEF HasAppend
<1> QED BY <1>1, <1>2, <1>a, <1>3, <1>4, <1>5 DEF Appends

\* Receiving a command keeps the facts about who waits.
LEMMA WaitsReceived ==
    ASSUME ControlTypes, Phases, Stages, Waits, Received
    PROVE  Waits'
<1>1. /\ Tail(queue) \in Seq(CmdSet) /\ Len(queue) \in Nat /\ Len(queue) >= 1 /\ Len(Tail(queue)) = Len(queue) - 1
      /\ \A i \in 1 .. Len(queue) - 1 : Tail(queue)[i] = queue[i + 1]
      /\ Head(queue) = queue[1] /\ (Tail(queue) = <<>> <=> Len(queue) = 1)
  BY Dequeued DEF ControlTypes, Received
<1> DEFINE q == Tail(queue)
<1> HIDE DEF q
<1>2. /\ q \in Seq(CmdSet) /\ Len(queue) \in Nat /\ Len(queue) >= 1 /\ Len(q) = Len(queue) - 1
      /\ \A i \in 1 .. Len(q) : q[i] = queue[i + 1]
      /\ q = <<>> <=> Len(queue) = 1
  BY <1>1 DEF q
<1>3. /\ wpc = "idle" /\ queue # <<>> /\ cur' = queue[1] /\ queue' = q
      /\ wpc' \in {"flushsync", "flush", "reply"} /\ srv' = srv /\ holder' = holder
  BY <1>1 DEF Received, q
<1>4. srv = "up" /\ holder.st \notin {"ok", "err"}
  BY <1>3 DEF Phases, Waits
<1>5. cur'.op # "none" /\ (cur'.op \in {"disable", "exit"} =>
          holder'.cmd.op = "exit" \/ (holder'.cmd = cur' /\ holder'.st = "await" /\ queue' = <<>>))
  BY <1>2, <1>3, <1>4 DEF Waits
<1>6. ASSUME NEW i \in 1 .. Len(q)
      PROVE  /\ q[i].op # "none"
             /\ q[i].op \in {"disable", "exit"} =>
                 holder.cmd.op = "exit" \/ (holder.cmd = q[i] /\ holder.st = "await" /\ i = Len(q))
  <2>1. i + 1 \in 1 .. Len(queue) /\ q[i] = queue[i + 1] /\ (i + 1 = Len(queue) => i = Len(q))
    BY <1>2
  <2> QED BY <1>4, <2>1 DEF Waits
<1>7. holder.st = "await" =>
         /\ q = <<>> => cur' = holder.cmd
         /\ q # <<>> => q[Len(q)] = holder.cmd
  <2> SUFFICES ASSUME holder.st = "await" PROVE (q = <<>> => cur' = holder.cmd) /\ (q # <<>> => q[Len(q)] = holder.cmd)
    OBVIOUS
  <2>1. queue[Len(queue)] = holder.cmd
    BY <1>3 DEF Waits
  <2>2. q # <<>> => q[Len(q)] = queue[Len(queue)]
    <3>1. q # <<>> => Len(q) \in 1 .. Len(q) /\ Len(q) + 1 = Len(queue)
      BY <1>2
    <3> QED BY <1>2, <3>1
  <2> QED BY <1>2, <1>3, <2>1, <2>2
<1> QED BY <1>3, <1>4, <1>5, <1>6, <1>7 DEF Waits

\* The worker replies: to the holder, if the reply is the one it waits for.
LEMMA Replied ==
    ASSUME ControlTypes, Stages, Waits, WorkerReply
    PROVE  /\ wpc = "reply" /\ cur.op # "none" /\ cur' = NoCmd /\ wres' = "ok" /\ UNCHANGED <<srv, queue, mat>>
           /\ holder' \in Holders /\ holder'.cmd = holder.cmd
           /\ (queue = <<>> /\ holder.st = "await") => holder'.st = wres /\ cur = holder.cmd
           /\ ~(queue = <<>> /\ holder.st = "await") => holder' = holder
           /\ wpc' = IF cur.op \in {"disable", "exit"} THEN "none" ELSE "idle"
<1>1. /\ wpc = "reply" /\ cur' = NoCmd /\ wres' = "ok" /\ UNCHANGED <<srv, queue, mat>>
      /\ holder' = IF queue = <<>> /\ holder.st = "await" THEN [holder EXCEPT !.st = wres] ELSE holder
  BY DEF WorkerReply, Answered
<1>2. wpc' = IF cur.op \in {"disable", "exit"} THEN "none" ELSE "idle"
  BY DEF WorkerReply, DropWriter
<1>3. holder' \in Holders /\ holder'.cmd = holder.cmd /\ ((queue = <<>> /\ holder.st = "await") => holder'.st = wres)
  <2>1. holder \in Holders /\ wres \in {"await", "ok", "err"}
    BY DEF ControlTypes
  <2>2. [holder EXCEPT !.st = wres] \in Holders /\ [holder EXCEPT !.st = wres].st = wres /\ [holder EXCEPT !.st = wres].cmd = holder.cmd
    BY <2>1, HolderTypes
  <2> QED BY <1>1, <2>1, <2>2
<1>4. (queue = <<>> /\ holder.st = "await") => cur = holder.cmd
  BY DEF Waits
<1> QED BY <1>1, <1>2, <1>3, <1>4 DEF Stages

\* Every step keeps the server's phases.
LEMMA PhasesStep ==
    ASSUME ControlTypes, Phases, Stages, Waits, [Next]_vars
    PROVE  Phases'
<1>1. CASE FlushEverysec
  BY <1>1, Fields, HolderTypes DEF ControlTypes, Phases, Stages, Waits, FlushEverysec, Unlocked,
     worker, disk
<1>2. CASE StartBgRewriteAof
  BY <1>2, Fields, HolderTypes DEF ControlTypes, Phases, Stages, Waits, StartBgRewriteAof,
     Unlocked, RewriteInProgress, worker, disk
<1>3. CASE DisableAof
  BY <1>3, Fields, HolderTypes DEF ControlTypes, Phases, Stages, Waits, DisableAof, Unlocked,
     worker, disk
<1>4. CASE ShutdownAofForExit
  BY <1>4, Fields, HolderTypes DEF ControlTypes, Phases, Stages, Waits, ShutdownAofForExit,
     Unlocked, worker, disk
<1>5. CASE AbortClientTask
  BY <1>5, Fields, HolderTypes DEF ControlTypes, Phases, Stages, Waits, AbortClientTask, worker, disk
<1>6. CASE Enqueue
  BY <1>6, Fields, HolderTypes DEF ControlTypes, Phases, Stages, Waits, Enqueue, disk
<1>7. CASE EnqueueTimeout
  BY <1>7, Fields, HolderTypes DEF ControlTypes, Phases, Stages, Waits, EnqueueTimeout,
     LatchOnTimeout, worker, disk
<1>8. CASE ReplyTimeout
  BY <1>8, Fields, HolderTypes DEF ControlTypes, Phases, Stages, Waits, ReplyTimeout, worker, disk
<1>9. CASE AppendDone
  BY <1>9, Fields, HolderTypes DEF ControlTypes, Phases, Stages, Waits, AppendDone, worker, disk
<1>10. CASE FlushDone
  BY <1>10, Fields, HolderTypes DEF ControlTypes, Phases, Stages, Waits, FlushDone, worker, disk
<1>11. CASE PolicyDone
  BY <1>11, Fields, HolderTypes DEF ControlTypes, Phases, Stages, Waits, PolicyDone, worker, disk
<1>12. CASE DisableDone
  BY <1>12, Fields, HolderTypes DEF ControlTypes, Phases, Stages, Waits, DisableDone, worker, disk
<1>13. CASE ExitDone
  BY <1>13, Fields, HolderTypes DEF ControlTypes, Phases, Stages, Waits, ExitDone, worker, disk
<1>14. CASE WorkerAppend
  BY <1>14, Fields, HolderTypes DEF ControlTypes, Phases, Stages, Waits, WorkerAppend, FsyncSteps, client
<1>15. CASE WorkerAppendError
  BY <1>15, Fields, HolderTypes DEF ControlTypes, Phases, Stages, Waits, WorkerAppendError, client, disk
<1>16. CASE WorkerForceFsync
  BY <1>16, Fields, HolderTypes DEF ControlTypes, Phases, Stages, Waits, WorkerForceFsync, client, disk
<1>17. CASE WorkerSetPolicy
  BY <1>17, Fields, HolderTypes DEF ControlTypes, Phases, Stages, Waits, WorkerSetPolicy, client, disk
<1>18. CASE WorkerFlush
  BY <1>18, Fields, HolderTypes DEF ControlTypes, Phases, Stages, Waits, WorkerFlush, client
<1>19. CASE WorkerSync
  BY <1>19, Fields, HolderTypes DEF ControlTypes, Phases, Stages, Waits, WorkerSync, RewriteBase,
     client, worker
<1>20. CASE WorkerIoError
  BY <1>20, Fields, HolderTypes DEF ControlTypes, Phases, Stages, Waits, WorkerIoError, client
<1>21. CASE WorkerReply
  <2>1. wpc = "reply" /\ UNCHANGED <<srv, enabled, mat, queue, wfile, wdb, man>> /\ srv = "up"
    BY <1>21 DEF WorkerReply, Phases
  <2>2. CASE cur.op \in {"disable", "exit"}
    <3>1. wpc' = "none" /\ buf' = <<>>
      BY <1>21, <2>2 DEF WorkerReply, DropWriter
    <3>2. holder'.cmd = holder.cmd /\ (holder' = holder \/ holder'.st = wres)
      BY <1>21, HolderTypes DEF WorkerReply, ControlTypes
    <3>3. enabled
      BY <2>1 DEF Phases
    <3>4. holder.cmd.op = "exit" \/ (holder'.cmd.op = "disable" /\ holder'.st \in {"ok", "err"})
      BY <1>21, <2>2, HolderTypes DEF WorkerReply, Answered, ControlTypes, Waits
    <3> QED BY <2>1, <3>1, <3>2, <3>3, <3>4 DEF Phases
  <2>3. CASE cur.op \notin {"disable", "exit"}
    <3>1. wpc' = "idle"
      BY <1>21, <2>3 DEF WorkerReply, DropWriter
    <3> QED BY <2>1, <3>1 DEF Phases
  <2> QED BY <2>2, <2>3
<1>22. CASE MaterializeOpen
  BY <1>22, Fields, HolderTypes DEF ControlTypes, Phases, Stages, Waits, MaterializeOpen, GiveUp, client
<1>23. CASE MaterializeSync
  BY <1>23, Fields, HolderTypes DEF ControlTypes, Phases, Stages, Waits, MaterializeSync, client, worker
<1>24. CASE MaterializeError
  BY <1>24, Fields, HolderTypes DEF ControlTypes, Phases, Stages, Waits, MaterializeError, GiveUp,
     client, disk
<1>25. CASE CommitManifestSwitch
  BY <1>25, Fields, HolderTypes DEF ControlTypes, Phases, Stages, Waits, CommitManifestSwitch, worker
<1>26. CASE BootstrapAofLayout
  BY <1>26, Fields, HolderTypes DEF ControlTypes, Phases, Stages, Waits, BootstrapAofLayout,
     client, worker
<1>27. CASE LoadStartupData
  BY <1>27, Fields, HolderTypes DEF ControlTypes, Phases, Stages, Waits, LoadStartupData, client, worker
<1>28. CASE Crash
  BY <1>28, Fields, HolderTypes DEF ControlTypes, Phases, Stages, Waits, Crash
<1>29. ASSUME NEW off \in BOOLEAN, Execute(off) PROVE Phases'
  BY <1>29, Fields, HolderTypes DEF ControlTypes, Phases, Stages, Waits, Execute, Unlocked,
     Admitted, worker, disk
<1>30. ASSUME NEW p \in Policies, SetAofFsyncPolicy(p) PROVE Phases'
  BY <1>30, Fields, HolderTypes DEF ControlTypes, Phases, Stages, Waits, SetAofFsyncPolicy,
     Unlocked, disk
<1>31. ASSUME NEW w \in BOOLEAN, EnableAofFromSnapshot(w) PROVE Phases'
  BY <1>31, Fields, HolderTypes DEF ControlTypes, Phases, Stages, Waits, EnableAofFromSnapshot,
     Unlocked, worker, disk
<1>32. ASSUME NEW p \in Policies, OpenWriter(p) PROVE Phases'
  BY <1>32, Fields, HolderTypes DEF ControlTypes, Phases, Stages, Waits, OpenWriter, client, worker
<1>33. CASE UNCHANGED vars
  BY <1>33, Fields, HolderTypes DEF ControlTypes, Phases, Stages, Waits, vars, client, worker,
     disk, counts
<1> QED BY <1>1, <1>2, <1>3, <1>4, <1>5, <1>6, <1>7, <1>8, <1>9, <1>10, <1>11, <1>12, <1>13, <1>14,
           <1>15, <1>16, <1>17, <1>18, <1>19, <1>20, <1>21, <1>22, <1>23, <1>24, <1>25, <1>26,
           <1>27, <1>28, <1>29, <1>30, <1>31, <1>32, <1>33 DEF Next, ClientStep, HolderStep,
           WorkerStep, StartStep

\* Every step keeps the worker's stages.
LEMMA StagesStep ==
    ASSUME ControlTypes, Phases, Stages, Waits, [Next]_vars
    PROVE  Stages'
<1>1. CASE FlushEverysec
  BY <1>1, Fields, HolderTypes DEF ControlTypes, Phases, Stages, Waits, FlushEverysec, Unlocked,
     worker, disk
<1>2. CASE StartBgRewriteAof
  BY <1>2, Fields, HolderTypes DEF ControlTypes, Phases, Stages, Waits, StartBgRewriteAof,
     Unlocked, RewriteInProgress, worker, disk
<1>3. CASE DisableAof
  BY <1>3, Fields, HolderTypes DEF ControlTypes, Phases, Stages, Waits, DisableAof, Unlocked,
     worker, disk
<1>4. CASE ShutdownAofForExit
  BY <1>4, Fields, HolderTypes DEF ControlTypes, Phases, Stages, Waits, ShutdownAofForExit,
     Unlocked, worker, disk
<1>5. CASE AbortClientTask
  BY <1>5, Fields, HolderTypes DEF ControlTypes, Phases, Stages, Waits, AbortClientTask, worker, disk
<1>6. CASE Enqueue
  BY <1>6, Fields, HolderTypes DEF ControlTypes, Phases, Stages, Waits, Enqueue, disk
<1>7. CASE EnqueueTimeout
  BY <1>7, Fields, HolderTypes DEF ControlTypes, Phases, Stages, Waits, EnqueueTimeout,
     LatchOnTimeout, worker, disk
<1>8. CASE ReplyTimeout
  BY <1>8, Fields, HolderTypes DEF ControlTypes, Phases, Stages, Waits, ReplyTimeout, worker, disk
<1>9. CASE AppendDone
  BY <1>9, Fields, HolderTypes DEF ControlTypes, Phases, Stages, Waits, AppendDone, worker, disk
<1>10. CASE FlushDone
  BY <1>10, Fields, HolderTypes DEF ControlTypes, Phases, Stages, Waits, FlushDone, worker, disk
<1>11. CASE PolicyDone
  BY <1>11, Fields, HolderTypes DEF ControlTypes, Phases, Stages, Waits, PolicyDone, worker, disk
<1>12. CASE DisableDone
  BY <1>12, Fields, HolderTypes DEF ControlTypes, Phases, Stages, Waits, DisableDone, worker, disk
<1>13. CASE ExitDone
  BY <1>13, Fields, HolderTypes DEF ControlTypes, Phases, Stages, Waits, ExitDone, worker, disk
<1>14. CASE WorkerAppend
  BY <1>14, Fields, HolderTypes DEF ControlTypes, Phases, Stages, Waits, WorkerAppend, FsyncSteps, client
<1>15. CASE WorkerAppendError
  BY <1>15, Fields, HolderTypes DEF ControlTypes, Phases, Stages, Waits, WorkerAppendError, client, disk
<1>16. CASE WorkerForceFsync
  BY <1>16, Fields, HolderTypes DEF ControlTypes, Phases, Stages, Waits, WorkerForceFsync, client, disk
<1>17. CASE WorkerSetPolicy
  BY <1>17, Fields, HolderTypes DEF ControlTypes, Phases, Stages, Waits, WorkerSetPolicy, client, disk
<1>18. CASE WorkerFlush
  BY <1>18, Fields, HolderTypes DEF ControlTypes, Phases, Stages, Waits, WorkerFlush, client
<1>19. CASE WorkerSync
  BY <1>19, Fields, HolderTypes DEF ControlTypes, Phases, Stages, Waits, WorkerSync, RewriteBase,
     client, worker
<1>20. CASE WorkerIoError
  BY <1>20, Fields, HolderTypes DEF ControlTypes, Phases, Stages, Waits, WorkerIoError, client
<1>21. CASE WorkerReply
  BY <1>21, Fields, HolderTypes DEF ControlTypes, Phases, Stages, Waits, WorkerReply, DropWriter,
     Answered
<1>22. CASE MaterializeOpen
  BY <1>22, Fields, HolderTypes DEF ControlTypes, Phases, Stages, Waits, MaterializeOpen, GiveUp, client
<1>23. CASE MaterializeSync
  BY <1>23, Fields, HolderTypes DEF ControlTypes, Phases, Stages, Waits, MaterializeSync, client, worker
<1>24. CASE MaterializeError
  BY <1>24, Fields, HolderTypes DEF ControlTypes, Phases, Stages, Waits, MaterializeError, GiveUp,
     client, disk
<1>25. CASE CommitManifestSwitch
  BY <1>25, Fields, HolderTypes DEF ControlTypes, Phases, Stages, Waits, CommitManifestSwitch, worker
<1>26. CASE BootstrapAofLayout
  BY <1>26, Fields, HolderTypes DEF ControlTypes, Phases, Stages, Waits, BootstrapAofLayout,
     client, worker
<1>27. CASE LoadStartupData
  BY <1>27, Fields, HolderTypes DEF ControlTypes, Phases, Stages, Waits, LoadStartupData, client, worker
<1>28. CASE Crash
  BY <1>28, Fields, HolderTypes DEF ControlTypes, Phases, Stages, Waits, Crash
<1>29. ASSUME NEW off \in BOOLEAN, Execute(off) PROVE Stages'
  BY <1>29, Fields, HolderTypes DEF ControlTypes, Phases, Stages, Waits, Execute, Unlocked,
     Admitted, worker, disk
<1>30. ASSUME NEW p \in Policies, SetAofFsyncPolicy(p) PROVE Stages'
  BY <1>30, Fields, HolderTypes DEF ControlTypes, Phases, Stages, Waits, SetAofFsyncPolicy,
     Unlocked, disk
<1>31. ASSUME NEW w \in BOOLEAN, EnableAofFromSnapshot(w) PROVE Stages'
  BY <1>31, Fields, HolderTypes DEF ControlTypes, Phases, Stages, Waits, EnableAofFromSnapshot,
     Unlocked, worker, disk
<1>32. ASSUME NEW p \in Policies, OpenWriter(p) PROVE Stages'
  BY <1>32, Fields, HolderTypes DEF ControlTypes, Phases, Stages, Waits, OpenWriter, client, worker
<1>33. CASE UNCHANGED vars
  BY <1>33, Fields, HolderTypes DEF ControlTypes, Phases, Stages, Waits, vars, client, worker,
     disk, counts
<1> QED BY <1>1, <1>2, <1>3, <1>4, <1>5, <1>6, <1>7, <1>8, <1>9, <1>10, <1>11, <1>12, <1>13, <1>14,
           <1>15, <1>16, <1>17, <1>18, <1>19, <1>20, <1>21, <1>22, <1>23, <1>24, <1>25, <1>26,
           <1>27, <1>28, <1>29, <1>30, <1>31, <1>32, <1>33 DEF Next, ClientStep, HolderStep,
           WorkerStep, StartStep

\* Every step keeps the lock holder and its reply in step with the worker.
LEMMA WaitsStep ==
    ASSUME ControlTypes, Phases, Stages, Waits, [Next]_vars
    PROVE  Waits'
<1>1. CASE FlushEverysec
  BY <1>1, Fields, HolderTypes, Dequeued, Enqueued DEF ControlTypes, Phases, Stages, Waits,
     FlushEverysec, Unlocked, worker, disk
<1>2. CASE StartBgRewriteAof
  BY <1>2, Fields, HolderTypes, Dequeued, Enqueued DEF ControlTypes, Phases, Stages, Waits,
     StartBgRewriteAof, Unlocked, RewriteInProgress, worker, disk
<1>3. CASE DisableAof
  BY <1>3, Fields, HolderTypes, Dequeued, Enqueued DEF ControlTypes, Phases, Stages, Waits,
     DisableAof, Unlocked, worker, disk
<1>4. CASE ShutdownAofForExit
  BY <1>4, Fields, HolderTypes, Dequeued, Enqueued DEF ControlTypes, Phases, Stages, Waits,
     ShutdownAofForExit, Unlocked, worker, disk
<1>5. CASE AbortClientTask
  BY <1>5, Fields, HolderTypes, Dequeued, Enqueued DEF ControlTypes, Phases, Stages, Waits,
     AbortClientTask, worker, disk
<1>6. CASE Enqueue
  BY <1>6, Fields, HolderTypes, Dequeued, Enqueued DEF ControlTypes, Phases, Stages, Waits, Enqueue, disk
<1>7. CASE EnqueueTimeout
  BY <1>7, Fields, HolderTypes, Dequeued, Enqueued DEF ControlTypes, Phases, Stages, Waits,
     EnqueueTimeout, LatchOnTimeout, worker, disk
<1>8. CASE ReplyTimeout
  BY <1>8, Fields, HolderTypes, Dequeued, Enqueued DEF ControlTypes, Phases, Stages, Waits,
     ReplyTimeout, worker, disk
<1>9. CASE AppendDone
  BY <1>9, Fields, HolderTypes, Dequeued, Enqueued DEF ControlTypes, Phases, Stages, Waits,
     AppendDone, worker, disk
<1>10. CASE FlushDone
  BY <1>10, Fields, HolderTypes, Dequeued, Enqueued DEF ControlTypes, Phases, Stages, Waits,
     FlushDone, worker, disk
<1>11. CASE PolicyDone
  BY <1>11, Fields, HolderTypes, Dequeued, Enqueued DEF ControlTypes, Phases, Stages, Waits,
     PolicyDone, worker, disk
<1>12. CASE DisableDone
  BY <1>12, Fields, HolderTypes, Dequeued, Enqueued DEF ControlTypes, Phases, Stages, Waits,
     DisableDone, worker, disk
<1>13. CASE ExitDone
  BY <1>13, Fields, HolderTypes, Dequeued, Enqueued DEF ControlTypes, Phases, Stages, Waits,
     ExitDone, worker, disk
<1>14. CASE WorkerAppend
  <2>1. Received
    BY <1>14 DEF Received, WorkerAppend, FsyncSteps, client
  <2> QED BY <2>1, WaitsReceived
<1>15. CASE WorkerAppendError
  <2>1. Received
    BY <1>15 DEF Received, WorkerAppendError, client, disk
  <2> QED BY <2>1, WaitsReceived
<1>16. CASE WorkerForceFsync
  <2>1. Received
    BY <1>16 DEF Received, WorkerForceFsync, client, disk
  <2> QED BY <2>1, WaitsReceived
<1>17. CASE WorkerSetPolicy
  <2>1. Received
    BY <1>17 DEF Received, WorkerSetPolicy, client, disk
  <2> QED BY <2>1, WaitsReceived
<1>18. CASE WorkerFlush
  BY <1>18, Fields, HolderTypes, Dequeued, Enqueued DEF ControlTypes, Phases, Stages, Waits,
     WorkerFlush, client
<1>19. CASE WorkerSync
  BY <1>19, Fields, HolderTypes, Dequeued, Enqueued DEF ControlTypes, Phases, Stages, Waits,
     WorkerSync, RewriteBase, client, worker
<1>20. CASE WorkerIoError
  BY <1>20, Fields, HolderTypes, Dequeued, Enqueued DEF ControlTypes, Phases, Stages, Waits,
     WorkerIoError, client
<1>21. CASE WorkerReply
  <2>1. /\ wpc = "reply" /\ cur.op # "none" /\ cur' = NoCmd /\ UNCHANGED <<srv, queue>> /\ srv = "up" /\ holder \in Holders
        /\ holder' \in Holders /\ holder'.cmd = holder.cmd /\ NoCmd.op = "none" /\ Free.st = "free"
        /\ (queue = <<>> /\ holder.st = "await") => holder'.st = wres /\ cur = holder.cmd
        /\ ~(queue = <<>> /\ holder.st = "await") => holder' = holder
        /\ wpc' = IF cur.op \in {"disable", "exit"} THEN "none" ELSE "idle"
    BY <1>21, Replied, Fields DEF ControlTypes, Phases
  <2>2. CASE queue = <<>> /\ holder.st = "await"
    BY <2>1, <2>2 DEF ControlTypes, Waits
  <2>3. CASE ~(queue = <<>> /\ holder.st = "await")
    BY <2>1, <2>3 DEF ControlTypes, Waits
  <2> QED BY <2>2, <2>3
<1>22. CASE MaterializeOpen
  BY <1>22, Fields, HolderTypes, Dequeued, Enqueued DEF ControlTypes, Phases, Stages, Waits,
     MaterializeOpen, GiveUp, client
<1>23. CASE MaterializeSync
  BY <1>23, Fields, HolderTypes, Dequeued, Enqueued DEF ControlTypes, Phases, Stages, Waits,
     MaterializeSync, client, worker
<1>24. CASE MaterializeError
  BY <1>24, Fields, HolderTypes, Dequeued, Enqueued DEF ControlTypes, Phases, Stages, Waits,
     MaterializeError, GiveUp, client, disk
<1>25. CASE CommitManifestSwitch
  BY <1>25, Fields, HolderTypes, Dequeued, Enqueued DEF ControlTypes, Phases, Stages, Waits,
     CommitManifestSwitch, worker
<1>26. CASE BootstrapAofLayout
  BY <1>26, Fields, HolderTypes, Dequeued, Enqueued DEF ControlTypes, Phases, Stages, Waits,
     BootstrapAofLayout, client, worker
<1>27. CASE LoadStartupData
  BY <1>27, Fields, HolderTypes, Dequeued, Enqueued DEF ControlTypes, Phases, Stages, Waits,
     LoadStartupData, client, worker
<1>28. CASE Crash
  BY <1>28, Fields, HolderTypes, Dequeued, Enqueued DEF ControlTypes, Phases, Stages, Waits, Crash
<1>29. ASSUME NEW off \in BOOLEAN, Execute(off) PROVE Waits'
  BY <1>29, Fields, HolderTypes, Dequeued, Enqueued DEF ControlTypes, Phases, Stages, Waits,
     Execute, Unlocked, Admitted, worker, disk
<1>30. ASSUME NEW p \in Policies, SetAofFsyncPolicy(p) PROVE Waits'
  BY <1>30, Fields, HolderTypes, Dequeued, Enqueued DEF ControlTypes, Phases, Stages, Waits,
     SetAofFsyncPolicy, Unlocked, disk
<1>31. ASSUME NEW w \in BOOLEAN, EnableAofFromSnapshot(w) PROVE Waits'
  BY <1>31, Fields, HolderTypes, Dequeued, Enqueued DEF ControlTypes, Phases, Stages, Waits,
     EnableAofFromSnapshot, Unlocked, worker, disk
<1>32. ASSUME NEW p \in Policies, OpenWriter(p) PROVE Waits'
  BY <1>32, Fields, HolderTypes, Dequeued, Enqueued DEF ControlTypes, Phases, Stages, Waits,
     OpenWriter, client, worker
<1>33. CASE UNCHANGED vars
  BY <1>33, Fields, HolderTypes, Dequeued, Enqueued DEF ControlTypes, Phases, Stages, Waits, vars,
     client, worker, disk, counts
<1> QED BY <1>1, <1>2, <1>3, <1>4, <1>5, <1>6, <1>7, <1>8, <1>9, <1>10, <1>11, <1>12, <1>13, <1>14,
           <1>15, <1>16, <1>17, <1>18, <1>19, <1>20, <1>21, <1>22, <1>23, <1>24, <1>25, <1>26,
           <1>27, <1>28, <1>29, <1>30, <1>31, <1>32, <1>33 DEF Next, ClientStep, HolderStep,
           WorkerStep, StartStep

\* Every step keeps one rewrite at most under way.
LEMMA RewritesStep ==
    ASSUME ControlTypes, Phases, Stages, Waits, Rewrites, [Next]_vars
    PROVE  Rewrites'
<1>1. CASE FlushEverysec
  BY <1>1, Fields, HolderTypes, Enqueued DEF ControlTypes, Phases, Stages, Waits, Rewrites,
     FlushEverysec, Unlocked, worker, disk
<1>2. CASE StartBgRewriteAof
  BY <1>2, Fields, HolderTypes, Enqueued DEF ControlTypes, Phases, Stages, Waits, Rewrites,
     StartBgRewriteAof, Unlocked, RewriteInProgress, worker, disk
<1>3. CASE DisableAof
  BY <1>3, Fields, HolderTypes, Enqueued DEF ControlTypes, Phases, Stages, Waits, Rewrites,
     DisableAof, Unlocked, worker, disk
<1>4. CASE ShutdownAofForExit
  BY <1>4, Fields, HolderTypes, Enqueued DEF ControlTypes, Phases, Stages, Waits, Rewrites,
     ShutdownAofForExit, Unlocked, worker, disk
<1>5. CASE AbortClientTask
  BY <1>5, Fields, HolderTypes, Enqueued DEF ControlTypes, Phases, Stages, Waits, Rewrites,
     AbortClientTask, worker, disk
<1>6. CASE Enqueue
  BY <1>6, Fields, HolderTypes, Enqueued DEF ControlTypes, Phases, Stages, Waits, Rewrites, Enqueue, disk
<1>7. CASE EnqueueTimeout
  BY <1>7, Fields, HolderTypes, Enqueued DEF ControlTypes, Phases, Stages, Waits, Rewrites,
     EnqueueTimeout, LatchOnTimeout, worker, disk
<1>8. CASE ReplyTimeout
  BY <1>8, Fields, HolderTypes, Enqueued DEF ControlTypes, Phases, Stages, Waits, Rewrites,
     ReplyTimeout, worker, disk
<1>9. CASE AppendDone
  BY <1>9, Fields, HolderTypes, Enqueued DEF ControlTypes, Phases, Stages, Waits, Rewrites,
     AppendDone, worker, disk
<1>10. CASE FlushDone
  BY <1>10, Fields, HolderTypes, Enqueued DEF ControlTypes, Phases, Stages, Waits, Rewrites,
     FlushDone, worker, disk
<1>11. CASE PolicyDone
  BY <1>11, Fields, HolderTypes, Enqueued DEF ControlTypes, Phases, Stages, Waits, Rewrites,
     PolicyDone, worker, disk
<1>12. CASE DisableDone
  BY <1>12, Fields, HolderTypes, Enqueued DEF ControlTypes, Phases, Stages, Waits, Rewrites,
     DisableDone, worker, disk
<1>13. CASE ExitDone
  BY <1>13, Fields, HolderTypes, Enqueued DEF ControlTypes, Phases, Stages, Waits, Rewrites,
     ExitDone, worker, disk
<1>14. CASE WorkerAppend
  <2>1. Received
    BY <1>14 DEF Received, WorkerAppend, FsyncSteps, client
  <2> QED BY <2>1, RewritesReceived
<1>15. CASE WorkerAppendError
  <2>1. Received
    BY <1>15 DEF Received, WorkerAppendError, client, disk
  <2> QED BY <2>1, RewritesReceived
<1>16. CASE WorkerForceFsync
  <2>1. Received
    BY <1>16 DEF Received, WorkerForceFsync, client, disk
  <2> QED BY <2>1, RewritesReceived
<1>17. CASE WorkerSetPolicy
  <2>1. Received
    BY <1>17 DEF Received, WorkerSetPolicy, client, disk
  <2> QED BY <2>1, RewritesReceived
<1>18. CASE WorkerFlush
  BY <1>18, Fields, HolderTypes, Enqueued DEF ControlTypes, Phases, Stages, Waits, Rewrites,
     WorkerFlush, client
<1>19. CASE WorkerSync
  BY <1>19, Fields, HolderTypes, Enqueued DEF ControlTypes, Phases, Stages, Waits, Rewrites,
     WorkerSync, RewriteBase, client, worker
<1>20. CASE WorkerIoError
  BY <1>20, Fields, HolderTypes, Enqueued DEF ControlTypes, Phases, Stages, Waits, Rewrites,
     WorkerIoError, client
<1>21. CASE WorkerReply
  BY <1>21, Fields, HolderTypes, Enqueued DEF ControlTypes, Phases, Stages, Waits, Rewrites,
     WorkerReply, DropWriter, Answered
<1>22. CASE MaterializeOpen
  BY <1>22, Fields, HolderTypes, Enqueued DEF ControlTypes, Phases, Stages, Waits, Rewrites,
     MaterializeOpen, GiveUp, client
<1>23. CASE MaterializeSync
  BY <1>23, Fields, HolderTypes, Enqueued DEF ControlTypes, Phases, Stages, Waits, Rewrites,
     MaterializeSync, client, worker
<1>24. CASE MaterializeError
  BY <1>24, Fields, HolderTypes, Enqueued DEF ControlTypes, Phases, Stages, Waits, Rewrites,
     MaterializeError, GiveUp, client, disk
<1>25. CASE CommitManifestSwitch
  BY <1>25, Fields, HolderTypes, Enqueued DEF ControlTypes, Phases, Stages, Waits, Rewrites,
     CommitManifestSwitch, worker
<1>26. CASE BootstrapAofLayout
  BY <1>26, Fields, HolderTypes, Enqueued DEF ControlTypes, Phases, Stages, Waits, Rewrites,
     BootstrapAofLayout, client, worker
<1>27. CASE LoadStartupData
  BY <1>27, Fields, HolderTypes, Enqueued DEF ControlTypes, Phases, Stages, Waits, Rewrites,
     LoadStartupData, client, worker
<1>28. CASE Crash
  BY <1>28, Fields, HolderTypes, Enqueued DEF ControlTypes, Phases, Stages, Waits, Rewrites, Crash
<1>29. ASSUME NEW off \in BOOLEAN, Execute(off) PROVE Rewrites'
  BY <1>29, Fields, HolderTypes, Enqueued DEF ControlTypes, Phases, Stages, Waits, Rewrites,
     Execute, Unlocked, Admitted, worker, disk
<1>30. ASSUME NEW p \in Policies, SetAofFsyncPolicy(p) PROVE Rewrites'
  BY <1>30, Fields, HolderTypes, Enqueued DEF ControlTypes, Phases, Stages, Waits, Rewrites,
     SetAofFsyncPolicy, Unlocked, disk
<1>31. ASSUME NEW w \in BOOLEAN, EnableAofFromSnapshot(w) PROVE Rewrites'
  BY <1>31, Fields, HolderTypes, Enqueued DEF ControlTypes, Phases, Stages, Waits, Rewrites,
     EnableAofFromSnapshot, Unlocked, worker, disk
<1>32. ASSUME NEW p \in Policies, OpenWriter(p) PROVE Rewrites'
  BY <1>32, Fields, HolderTypes, Enqueued DEF ControlTypes, Phases, Stages, Waits, Rewrites,
     OpenWriter, client, worker
<1>33. CASE UNCHANGED vars
  BY <1>33, Fields, HolderTypes, Enqueued DEF ControlTypes, Phases, Stages, Waits, Rewrites, vars,
     client, worker, disk, counts
<1> QED BY <1>1, <1>2, <1>3, <1>4, <1>5, <1>6, <1>7, <1>8, <1>9, <1>10, <1>11, <1>12, <1>13, <1>14,
           <1>15, <1>16, <1>17, <1>18, <1>19, <1>20, <1>21, <1>22, <1>23, <1>24, <1>25, <1>26,
           <1>27, <1>28, <1>29, <1>30, <1>31, <1>32, <1>33 DEF Next, ClientStep, HolderStep,
           WorkerStep, StartStep

\* Every step keeps one append at most under way, that of the last write.
LEMMA AppendsStep ==
    ASSUME ControlTypes, Phases, Stages, Waits, Appends, Contents, [Next]_vars
    PROVE  Appends'
<1>1. CASE FlushEverysec
  BY <1>1, Fields, HolderTypes, Enqueued DEF ControlTypes, Phases, Stages, Waits, Appends,
     HasAppend, Sending, Stopped, FlushEverysec, Unlocked, worker, disk
<1>2. CASE StartBgRewriteAof
  BY <1>2, Fields, HolderTypes, Enqueued DEF ControlTypes, Phases, Stages, Waits, Appends,
     HasAppend, Sending, Stopped, StartBgRewriteAof, Unlocked, RewriteInProgress, worker, disk
<1>3. CASE DisableAof
  BY <1>3, Fields, HolderTypes, Enqueued DEF ControlTypes, Phases, Stages, Waits, Appends,
     HasAppend, Sending, Stopped, DisableAof, Unlocked, worker, disk
<1>4. CASE ShutdownAofForExit
  BY <1>4, Fields, HolderTypes, Enqueued DEF ControlTypes, Phases, Stages, Waits, Appends,
     HasAppend, Sending, Stopped, ShutdownAofForExit, Unlocked, worker, disk
<1>5. CASE AbortClientTask
  BY <1>5, Fields, HolderTypes, Enqueued DEF ControlTypes, Phases, Stages, Waits, Appends,
     HasAppend, Sending, Stopped, AbortClientTask, worker, disk
<1>6. CASE Enqueue
  BY <1>6, Fields, HolderTypes, Enqueued DEF ControlTypes, Phases, Stages, Waits, Appends,
     HasAppend, Sending, Stopped, Enqueue, disk
<1>7. CASE EnqueueTimeout
  <2>1. /\ srv = "up" /\ holder.st = "send" /\ holder.cmd.op # "exit" /\ holder' = Free /\ Free.cmd.op = "none" /\ Free.st = "free"
        /\ UNCHANGED <<srv, mem, next, queue, cur>> /\ HasAppend' = HasAppend
    BY <1>7, Fields DEF EnqueueTimeout, worker, HasAppend
  <2>2. latched => latched'
    BY <1>7 DEF EnqueueTimeout, LatchOnTimeout
  <2>3. (\E i \in 1 .. Len(queue) : queue[i].op = "append") \/ cur.op = "append" => latched
    BY <2>1 DEF Appends, Stopped
  <2> QED BY <2>1, <2>2, <2>3 DEF Appends, Sending, Stopped
<1>8. CASE ReplyTimeout
  BY <1>8, Fields, HolderTypes, Enqueued DEF ControlTypes, Phases, Stages, Waits, Appends,
     HasAppend, Sending, Stopped, ReplyTimeout, worker, disk
<1>9. CASE AppendDone
  BY <1>9, Fields, HolderTypes, Enqueued DEF ControlTypes, Phases, Stages, Waits, Appends,
     HasAppend, Sending, Stopped, AppendDone, worker, disk
<1>10. CASE FlushDone
  BY <1>10, Fields, HolderTypes, Enqueued DEF ControlTypes, Phases, Stages, Waits, Appends,
     HasAppend, Sending, Stopped, FlushDone, worker, disk
<1>11. CASE PolicyDone
  BY <1>11, Fields, HolderTypes, Enqueued DEF ControlTypes, Phases, Stages, Waits, Appends,
     HasAppend, Sending, Stopped, PolicyDone, worker, disk
<1>12. CASE DisableDone
  BY <1>12, Fields, HolderTypes, Enqueued DEF ControlTypes, Phases, Stages, Waits, Appends,
     HasAppend, Sending, Stopped, DisableDone, worker, disk
<1>13. CASE ExitDone
  BY <1>13, Fields, HolderTypes, Enqueued DEF ControlTypes, Phases, Stages, Waits, Appends,
     HasAppend, Sending, Stopped, ExitDone, worker, disk
<1>14. CASE WorkerAppend
  <2>1. Received
    BY <1>14 DEF Received, WorkerAppend, FsyncSteps, client
  <2> QED BY <2>1, AppendsReceived
<1>15. CASE WorkerAppendError
  <2>1. Received
    BY <1>15 DEF Received, WorkerAppendError, client, disk
  <2> QED BY <2>1, AppendsReceived
<1>16. CASE WorkerForceFsync
  <2>1. Received
    BY <1>16 DEF Received, WorkerForceFsync, client, disk
  <2> QED BY <2>1, AppendsReceived
<1>17. CASE WorkerSetPolicy
  <2>1. Received
    BY <1>17 DEF Received, WorkerSetPolicy, client, disk
  <2> QED BY <2>1, AppendsReceived
<1>18. CASE WorkerFlush
  BY <1>18, Fields, HolderTypes, Enqueued DEF ControlTypes, Phases, Stages, Waits, Appends,
     HasAppend, Sending, Stopped, WorkerFlush, client
<1>19. CASE WorkerSync
  BY <1>19, Fields, HolderTypes, Enqueued DEF ControlTypes, Phases, Stages, Waits, Appends,
     HasAppend, Sending, Stopped, WorkerSync, RewriteBase, client, worker
<1>20. CASE WorkerIoError
  BY <1>20, Fields, HolderTypes, Enqueued DEF ControlTypes, Phases, Stages, Waits, Appends,
     HasAppend, Sending, Stopped, WorkerIoError, client
<1>21. CASE WorkerReply
  BY <1>21, Fields, HolderTypes, Enqueued DEF ControlTypes, Phases, Stages, Waits, Appends,
     HasAppend, Sending, Stopped, WorkerReply, DropWriter, Answered
<1>22. CASE MaterializeOpen
  BY <1>22, Fields, HolderTypes, Enqueued DEF ControlTypes, Phases, Stages, Waits, Appends,
     HasAppend, Sending, Stopped, MaterializeOpen, GiveUp, client
<1>23. CASE MaterializeSync
  BY <1>23, Fields, HolderTypes, Enqueued DEF ControlTypes, Phases, Stages, Waits, Appends,
     HasAppend, Sending, Stopped, MaterializeSync, client, worker
<1>24. CASE MaterializeError
  BY <1>24, Fields, HolderTypes, Enqueued DEF ControlTypes, Phases, Stages, Waits, Appends,
     HasAppend, Sending, Stopped, MaterializeError, GiveUp, client, disk
<1>25. CASE CommitManifestSwitch
  BY <1>25, Fields, HolderTypes, Enqueued DEF ControlTypes, Phases, Stages, Waits, Appends,
     HasAppend, Sending, Stopped, CommitManifestSwitch, worker
<1>26. CASE BootstrapAofLayout
  BY <1>26, Fields, HolderTypes, Enqueued DEF ControlTypes, Phases, Stages, Waits, Appends,
     HasAppend, Sending, Stopped, BootstrapAofLayout, client, worker
<1>27. CASE LoadStartupData
  BY <1>27, Fields, HolderTypes, Enqueued DEF ControlTypes, Phases, Stages, Waits, Appends,
     HasAppend, Sending, Stopped, LoadStartupData, client, worker
<1>28. CASE Crash
  BY <1>28, Fields, HolderTypes, Enqueued DEF ControlTypes, Phases, Stages, Waits, Appends,
     HasAppend, Sending, Stopped, Crash
<1>29. ASSUME NEW off \in BOOLEAN, Execute(off) PROVE Appends'
  <2>1. /\ srv = "up" /\ holder = Free /\ Free.cmd.op = "none" /\ Free.st = "free" /\ next \in Units /\ next \in Nat
        /\ UNCHANGED <<srv, queue, cur, latched, enabled>> /\ HasAppend' = HasAppend /\ next' = next + 1 /\ next \in mem'
    BY <1>29, Fields DEF Execute, Unlocked, worker, HasAppend, ControlTypes
  <2>2. enabled => ~latched
    BY <1>29 DEF Execute, Admitted
  <2>3. ~enabled => queue = <<>> /\ cur.op = "none"
    BY <2>1, Fields DEF Phases, Stages
  <2>4. (\A i \in 1 .. Len(queue) : queue[i].op # "append") /\ cur.op # "append"
    <3>1. CASE enabled
      BY <2>1, <2>2, <3>1 DEF Appends, Stopped
    <3>2. CASE ~enabled
      BY <2>3, <3>2
    <3> QED BY <3>1, <3>2
  <2>5. holder'.cmd.op = "append" => holder'.cmd.u = next /\ ~latched'
    <3>1. CASE enabled
      <4>1. holder'.cmd = AppendCmd(next) /\ AppendCmd(next).u = next
        BY <1>29, <2>1, <3>1, Fields, HolderTypes DEF Execute
      <4> QED BY <2>1, <2>2, <3>1, <4>1
    <3>2. CASE ~enabled
      BY <1>29, <2>1, <3>2 DEF Execute
    <3> QED BY <3>1, <3>2
  <2>6. next' - 1 = next
    BY <2>1
  <2> QED BY <2>1, <2>4, <2>5, <2>6 DEF Appends
<1>30. ASSUME NEW p \in Policies, SetAofFsyncPolicy(p) PROVE Appends'
  BY <1>30, Fields, HolderTypes, Enqueued DEF ControlTypes, Phases, Stages, Waits, Appends,
     HasAppend, Sending, Stopped, SetAofFsyncPolicy, Unlocked, disk
<1>31. ASSUME NEW w \in BOOLEAN, EnableAofFromSnapshot(w) PROVE Appends'
  BY <1>31, Fields, HolderTypes, Enqueued DEF ControlTypes, Phases, Stages, Waits, Appends,
     HasAppend, Sending, Stopped, EnableAofFromSnapshot, Unlocked, worker, disk
<1>32. ASSUME NEW p \in Policies, OpenWriter(p) PROVE Appends'
  BY <1>32, Fields, HolderTypes, Enqueued DEF ControlTypes, Phases, Stages, Waits, Appends,
     HasAppend, Sending, Stopped, OpenWriter, client, worker
<1>33. CASE UNCHANGED vars
  BY <1>33, Fields, HolderTypes, Enqueued DEF ControlTypes, Phases, Stages, Waits, Appends,
     HasAppend, Sending, Stopped, vars, client, worker, disk, counts
<1> QED BY <1>1, <1>2, <1>3, <1>4, <1>5, <1>6, <1>7, <1>8, <1>9, <1>10, <1>11, <1>12, <1>13, <1>14,
           <1>15, <1>16, <1>17, <1>18, <1>19, <1>20, <1>21, <1>22, <1>23, <1>24, <1>25, <1>26,
           <1>27, <1>28, <1>29, <1>30, <1>31, <1>32, <1>33 DEF Next, ClientStep, HolderStep,
           WorkerStep, StartStep

-----------------------------------------------------------------------------
(* What the steps do to the log.                                           *)

\* The file and the synced part of it are beginnings of the log.
LEMMA LogFacts ==
    ASSUME TypeOK, Layout, Frames, man # NoManifest
    PROVE  /\ man.incr \in Files /\ os[man.incr] \in Seq(FrameSet) /\ buf \in Seq(FrameSet)
           /\ synced[man.incr] \in 0 .. Len(os[man.incr]) /\ Len(os[man.incr]) \in 0 .. Len(Log)
           /\ Log \in Seq(FrameSet) /\ Len(Log) = Len(os[man.incr]) + Len(buf) /\ Good(Log)
           /\ First(Log, Len(os[man.incr])) = os[man.incr] /\ OnDisk = First(Log, synced[man.incr])
           /\ Good(os[man.incr]) /\ CmdsOf(os[man.incr]) \subseteq CmdsOf(Log)
           /\ Committed(OnDisk) \subseteq Committed(Log) /\ Committed(Log) \subseteq CmdsOf(Log)
           /\ buf = <<>> => Log = os[man.incr]
           /\ AllSynced => OnDisk = Log
<1>1. man.incr \in Files /\ os[man.incr] \in Seq(FrameSet) /\ buf \in Seq(FrameSet)
      /\ synced[man.incr] \in 0 .. Len(os[man.incr])
  BY DEF TypeOK, Layout
<1> DEFINE f == os[man.incr]
           n == synced[man.incr]
<1> HIDE DEF f, n
<1>2. f \in Seq(FrameSet) /\ buf \in Seq(FrameSet) /\ n \in 0 .. Len(f) /\ Len(f) \in Nat /\ Len(buf) \in Nat /\ 0 \in 0 .. Len(buf)
  BY <1>1 DEF f, n
<1>3. Log = f \o buf /\ OnDisk = First(f, n) /\ Good(Log)
  BY DEF Log, OnDisk, f, n, Frames
<1>4. f \o buf \in Seq(FrameSet) /\ Len(f \o buf) = Len(f) + Len(buf) /\ First(f \o buf, Len(f)) = f /\ f \o <<>> = f
  BY <1>2, Joined
<1> HIDE DEF Log, OnDisk
<1>5. /\ Log \in Seq(FrameSet) /\ Len(Log) = Len(f) + Len(buf) /\ First(Log, Len(f)) = f /\ (buf = <<>> => Log = f)
      /\ Len(f) \in 0 .. Len(Log) /\ n \in 0 .. Len(Log)
  BY <1>2, <1>3, <1>4
<1>6. First(Log, n) = First(f, n) /\ First(f, Len(f)) = f
  BY <1>2, <1>5, FirstFirst, FirstAll
<1>7. Good(f) /\ CmdsOf(f) \subseteq CmdsOf(Log)
  BY <1>2, <1>3, <1>5, Beginning DEF Good
<1>8. Committed(First(Log, n)) \subseteq Committed(Log)
  BY <1>5, Beginning
<1>9. Committed(Log) \subseteq CmdsOf(Log)
  BY DEF Committed, CmdsOf
<1>10. AllSynced => OnDisk = Log
  BY <1>3, <1>5, <1>6 DEF AllSynced, f, n
<1> QED BY <1>1, <1>2, <1>3, <1>5, <1>6, <1>7, <1>8, <1>9, <1>10 DEF f, n

\* What is promised or acknowledged is in memory or was, before a crash.
LEMMA SafeInMem ==
    ASSUME TypeOK, Layout, Frames, Contents, Promises
    PROVE  safe \subseteq mem
<1>1. CASE man = NoManifest
  BY <1>1 DEF Contents
<1>2. CASE man # NoManifest
  BY <1>2, LogFacts DEF Contents, Promises, Logged
<1> QED BY <1>1, <1>2

\* Steps that do not write.
LEMMA NoWrite ==
    ASSUME UNCHANGED <<os, buf, man>>
    PROVE  /\ Log' = Log /\ Logged' = Logged
           /\ synced' = synced => OnDisk' = OnDisk /\ AllSynced' = AllSynced
BY DEF Log, Logged, OnDisk, AllSynced

\* The worker writes a to its file and keeps b in its buffer.
Wrote(a, b) ==
    /\ a \in Seq(FrameSet) /\ b \in Seq(FrameSet) /\ man # NoManifest /\ wfile = man.incr
    /\ os' = [os EXCEPT ![wfile] = @ \o a] /\ buf' = b
    /\ UNCHANGED <<man, synced>>

\* Frames handed to the operating system: the log gains them, the synced part
\* stays.
LEMMA WroteLog ==
    ASSUME TypeOK, Layout, Frames, NEW a, NEW b, Wrote(a, b)
    PROVE  /\ Log' = os[man.incr] \o (a \o b) /\ OnDisk' = OnDisk
           /\ os' \in [Files -> Seq(FrameSet)] /\ os'[man.incr] = os[man.incr] \o a
           /\ Len(os'[man.incr]) >= Len(os[man.incr])
           /\ \A f \in Files : f # man.incr => os'[f] = os[f]
           /\ Len(os[man.incr]) >= 1 => os'[man.incr][1] = os[man.incr][1]
<1>1. /\ man.incr \in Files /\ os[man.incr] \in Seq(FrameSet) /\ os \in [Files -> Seq(FrameSet)]
      /\ synced[man.incr] \in 0 .. Len(os[man.incr]) /\ a \in Seq(FrameSet) /\ b \in Seq(FrameSet)
  BY LogFacts DEF Wrote, TypeOK
<1> DEFINE f == os[man.incr]
<1>2. f \in Seq(FrameSet) /\ os' = [os EXCEPT ![man.incr] = f \o a] /\ buf' = b /\ man' = man /\ synced' = synced
  BY <1>1 DEF Wrote
<1>3. os'[man.incr] = f \o a /\ (\A g \in Files : g # man.incr => os'[g] = os[g])
  BY <1>1, <1>2
<1>a. synced[man.incr] \in 0 .. Len(f)
  BY <1>1
<1> HIDE DEF f
<1>4. f \o a \in Seq(FrameSet) /\ Len(f \o a) = Len(f) + Len(a) /\ First(f \o a, Len(f)) = f /\ (f \o a) \o b = f \o (a \o b)
  <2>1. f \o a \in Seq(FrameSet) /\ Len(f \o a) = Len(f) + Len(a) /\ First(f \o a, Len(f)) = f
    BY <1>1, <1>2, Joined
  <2>2. (f \o a) \o b = f \o (a \o b)
    BY <1>1, <1>2, JoinedAssociative
  <2> QED BY <2>1, <2>2
<1>5. Log' = f \o (a \o b)
  BY <1>2, <1>3, <1>4 DEF Log
<1>6. OnDisk' = OnDisk
  <2>1. OnDisk' = First(f \o a, synced[man.incr]) /\ OnDisk = First(f, synced[man.incr])
    BY <1>2, <1>3 DEF OnDisk, f
  <2> DEFINE g == f \o a
             m == synced[man.incr]
  <2>2. g \in Seq(FrameSet) /\ First(g, Len(f)) = f /\ Len(f) \in 0 .. Len(g) /\ m \in 0 .. Len(f)
    BY <1>1, <1>2, <1>4, <1>a
  <2> HIDE DEF g, m
  <2>3. First(First(g, Len(f)), m) = First(g, m)
    BY <2>2, FirstFirst
  <2> QED BY <2>1, <2>2, <2>3 DEF g, m
<1>7. Len(f \o a) >= Len(f) /\ (Len(f) >= 1 => (f \o a)[1] = f[1])
  BY <1>1, <1>2, <1>4
<1>8. os' \in [Files -> Seq(FrameSet)]
  BY <1>1, <1>2, <1>4
<1> QED BY <1>3, <1>5, <1>6, <1>7, <1>8 DEF f

\* A part of the buffer goes to the file.
LEMMA FlushSteps ==
    ASSUME TypeOK, Phases, Layout, Frames, Contents, WorkerFlush \/ WorkerIoError
    PROVE  /\ man # NoManifest /\ Log' = Log /\ Logged' = Logged
           /\ \E a, b : Wrote(a, b) /\ (WorkerFlush => b = <<>>)
<1>0. wpc \notin {"none", "idle"}
  BY DEF WorkerFlush, WorkerIoError
<1>1. srv = "up" /\ man # NoManifest /\ wfile = man.incr /\ buf \in Seq(FrameSet) /\ os[man.incr] \in Seq(FrameSet) /\ Len(buf) \in Nat
  BY <1>0, LogFacts DEF Phases, Contents, TypeOK
<1>2. UNCHANGED <<man, synced>>
  BY DEF WorkerFlush, WorkerIoError
<1>3. PICK k \in 0 .. Len(buf) : os' = [os EXCEPT ![wfile] = @ \o First(buf, k)] /\ buf' = Rest(buf, k) /\ (WorkerFlush => buf' = <<>>)
  <2>1. CASE WorkerFlush
    <3>1. First(buf, Len(buf)) = buf /\ Rest(buf, Len(buf)) = <<>> /\ Len(buf) \in 0 .. Len(buf)
      BY <1>1 DEF First, Rest
    <3> QED BY <2>1, <3>1 DEF WorkerFlush
  <2>2. CASE WorkerIoError
    <3>1. wpc' = "reply" /\ wres' = "err"
      BY <2>2 DEF WorkerIoError
    <3>2. CASE ~WorkerFlush
      BY <2>2, <3>2 DEF WorkerIoError, First, Rest
    <3> QED BY <2>1, <3>2
  <2> QED BY <2>1, <2>2
<1> DEFINE a == First(buf, k)
           b == Rest(buf, k)
<1>4. a \in Seq(FrameSet) /\ b \in Seq(FrameSet) /\ (os[man.incr] \o a) \o b = os[man.incr] \o buf
  BY <1>1, Pieces
<1> HIDE DEF a, b
<1>5. Wrote(a, b) /\ (WorkerFlush => b = <<>>)
  BY <1>1, <1>2, <1>3, <1>4 DEF Wrote, a, b
<1>6. Log' = os[man.incr] \o (a \o b)
  BY <1>5, WroteLog
<1>7. (os[man.incr] \o a) \o b = os[man.incr] \o (a \o b)
  BY <1>1, <1>4, JoinedAssociative
<1>8. Log' = Log
  BY <1>4, <1>6, <1>7 DEF Log
<1>9. Logged' = Logged
  BY <1>2, <1>8 DEF Logged
<1> QED BY <1>1, <1>5, <1>8, <1>9

\* A record is added to the log.
LEMMA AppendStep ==
    ASSUME TypeOK, Phases, Waits, Appends, Layout, Frames, Contents, WorkerAppend
    PROVE  /\ man # NoManifest /\ srv = "up" /\ next - 1 \in Units /\ Head(queue).u = next - 1
           /\ OnWay /\ Log' = Log \o Record(next - 1) /\ wdb' = DbOf[next - 1]
           /\ \E a, b : Wrote(a, b)
<1>1. wpc = "idle" /\ queue # <<>> /\ Head(queue).op = "append" /\ queue \in Seq(CmdSet) /\ UNCHANGED <<man, synced>>
  BY DEF WorkerAppend, TypeOK
<1>2. srv = "up" /\ man # NoManifest /\ wfile = man.incr /\ buf \in Seq(FrameSet) /\ os[man.incr] \in Seq(FrameSet) /\ Len(buf) \in Nat
  BY <1>1, LogFacts DEF Phases, Contents, TypeOK
<1>3. Head(queue) = queue[1] /\ 1 \in 1 .. Len(queue)
  BY <1>1, Dequeued
<1>4. Head(queue).u = next - 1 /\ next - 1 \in mem /\ next - 1 \in Units /\ OnWay
  BY <1>1, <1>2, <1>3 DEF Appends, TypeOK, OnWay, HasAppend
<1> DEFINE r == Record(next - 1)
           c == buf \o r
<1>5. r \in Seq(FrameSet) /\ Len(r) \in Nat /\ Len(r) >= 1
  BY <1>4, RecordLen
<1>6. c \in Seq(FrameSet) /\ Len(c) = Len(buf) + Len(r) /\ (os[man.incr] \o buf) \o r = os[man.incr] \o c
  <2> HIDE DEF r
  <2>1. c \in Seq(FrameSet) /\ Len(c) = Len(buf) + Len(r)
    BY <1>2, <1>5, Joined
  <2>2. (os[man.incr] \o buf) \o r = os[man.incr] \o c
    BY <1>2, <1>5, JoinedAssociative
  <2> QED BY <2>1, <2>2
<1>7. PICK k \in {0, Len(buf), Len(c) - 1} :
         os' = [os EXCEPT ![wfile] = @ \o First(c, k)] /\ buf' = Rest(c, k) /\ wdb' = DbOf[next - 1]
  BY <1>4 DEF WorkerAppend, First, Rest
<1> HIDE DEF c, r
<1>8. k \in 0 .. Len(c)
  BY <1>2, <1>5, <1>6
<1> DEFINE a == First(c, k)
           b == Rest(c, k)
<1>9. a \in Seq(FrameSet) /\ b \in Seq(FrameSet) /\ (os[man.incr] \o a) \o b = os[man.incr] \o c
  BY <1>2, <1>6, <1>8, Pieces
<1> HIDE DEF a, b
<1>10. Wrote(a, b)
  BY <1>1, <1>2, <1>7, <1>9 DEF Wrote, a, b
<1>11. Log' = os[man.incr] \o (a \o b)
  BY <1>10, WroteLog
<1>12. (os[man.incr] \o a) \o b = os[man.incr] \o (a \o b)
  BY <1>2, <1>9, JoinedAssociative
<1>13. Log' = Log \o r
  BY <1>6, <1>9, <1>11, <1>12 DEF Log
<1> QED BY <1>2, <1>4, <1>7, <1>10, <1>13 DEF r

\* A failed write adds a part of a record.
LEMMA AppendErrorStep ==
    ASSUME TypeOK, Phases, Waits, Appends, Layout, Frames, Contents, WorkerAppendError
    PROVE  /\ man # NoManifest /\ srv = "up" /\ next - 1 \in Units /\ OnWay
           /\ UNCHANGED <<os, man, synced>> /\ buf' \in Seq(FrameSet) /\ wdb' \in Dbs \union {NoDb}
           /\ \E k \in 0 .. Len(Record(next - 1)) - 1 :
                 \/ Log' = First(Log \o Record(next - 1), Len(Log) + k)
                 \/ Log' = Append(First(Log \o Record(next - 1), Len(Log) + k), Torn)
<1>1. wpc = "idle" /\ queue # <<>> /\ Head(queue).op = "append" /\ queue \in Seq(CmdSet) /\ UNCHANGED <<man, os, synced>>
  BY DEF WorkerAppendError, TypeOK, disk
<1>2. srv = "up" /\ man # NoManifest /\ buf \in Seq(FrameSet) /\ os[man.incr] \in Seq(FrameSet) /\ Log \in Seq(FrameSet)
  BY <1>1, LogFacts DEF Phases, Contents, TypeOK
<1>3. Head(queue) = queue[1] /\ 1 \in 1 .. Len(queue)
  BY <1>1, Dequeued
<1>4. Head(queue).u = next - 1 /\ next - 1 \in mem /\ next - 1 \in Units /\ OnWay
  BY <1>1, <1>2, <1>3 DEF Appends, TypeOK, OnWay, HasAppend
<1> DEFINE r == Record(next - 1)
           f == os[man.incr]
<1>5. r \in Seq(FrameSet) /\ Len(r) \in Nat /\ Len(r) >= 1
  BY <1>4, RecordLen
<1>6. PICK k \in 0 .. Len(r) - 1, t \in {<<>>, <<Torn>>} : buf' = (buf \o First(r, k)) \o t
  BY <1>4 DEF WorkerAppendError, First
<1>7. wdb' \in Dbs \union {NoDb}
  <2>1. DbOf[next - 1] \in Dbs /\ wdb \in Dbs \union {NoDb}
    BY <1>4, UnitAssumption DEF TypeOK
  <2>2. wdb' = DbOf[next - 1] \/ wdb' = wdb
    BY <1>4 DEF WorkerAppendError
  <2> QED BY <2>1, <2>2
<1>a. f \in Seq(FrameSet) /\ Log = f \o buf /\ Log' = f \o buf'
  BY <1>1, <1>2 DEF Log
<1> HIDE DEF r, f, Log
<1>8. k \in 0 .. Len(r)
  BY <1>5
<1> DEFINE p == First(r, k)
<1>9. p \in Seq(FrameSet) /\ Log \o p = First(Log \o r, Len(Log) + k)
  BY <1>2, <1>5, <1>8, Pieces
<1> HIDE DEF p
<1>10. (f \o buf) \o p = f \o (buf \o p) /\ buf \o p \in Seq(FrameSet) /\ f \o (buf \o p) \in Seq(FrameSet)
  <2>1. (f \o buf) \o p = f \o (buf \o p)
    BY <1>2, <1>9, <1>a, JoinedAssociative
  <2>2. buf \o p \in Seq(FrameSet)
    BY <1>2, <1>9, Joined
  <2> QED BY <1>a, <2>1, <2>2, Joined
<1>11. PICK c \in Seq(FrameSet) : c = buf \o p
  BY <1>10
<1>b. f \o c = First(Log \o r, Len(Log) + k) /\ f \o c \in Seq(FrameSet)
  BY <1>9, <1>10, <1>11, <1>a
<1>12. CASE t = <<>>
  <2>1. buf' = c
    <3>1. c \o <<>> = c
      BY Joined
    <3> QED BY <1>6, <1>11, <1>12, <3>1 DEF p
  <2> QED BY <1>1, <1>2, <1>4, <1>6, <1>7, <1>a, <1>b, <2>1 DEF r
<1>13. CASE t = <<Torn>>
  <2>1. buf' = c \o <<Torn>>
    BY <1>6, <1>11, <1>13 DEF p
  <2>2. Torn \in FrameSet /\ <<Torn>> \in Seq(FrameSet)
    BY FrameTypes
  <2>3. (f \o c) \o <<Torn>> = f \o (c \o <<Torn>>)
    BY <1>a, <2>2, JoinedAssociative
  <2>4. (f \o c) \o <<Torn>> = Append(f \o c, Torn)
    <3>1. PICK g \in Seq(FrameSet) : g = f \o c
      BY <1>b
    <3>2. g \o <<Torn>> = Append(g, Torn)
      BY <2>2, AddedFrames
    <3> QED BY <3>1, <3>2
  <2>5. buf' \in Seq(FrameSet)
    BY <2>1, <2>2, Joined
  <2>6. Log' = Append(First(Log \o r, Len(Log) + k), Torn)
    BY <1>a, <1>b, <2>1, <2>3, <2>4
  <2> QED BY <1>1, <1>2, <1>4, <1>6, <1>7, <2>5, <2>6 DEF r
<1> QED BY <1>6, <1>12, <1>13

\* The reply to a shutdown ends the worker: what is in its buffer may be lost.
LEMMA ReplyStep ==
    ASSUME TypeOK, Phases, Layout, Frames, Contents, WorkerReply
    PROVE  /\ man # NoManifest /\ srv = "up" /\ UNCHANGED <<man, synced>> /\ OnDisk' = OnDisk
           /\ os' \in [Files -> Seq(FrameSet)] /\ buf' \in Seq(FrameSet)
           /\ (\A f \in Files : f # man.incr => os'[f] = os[f])
           /\ Len(os'[man.incr]) >= Len(os[man.incr]) /\ (Len(os[man.incr]) >= 1 => os'[man.incr][1] = os[man.incr][1])
           /\ cur.op \notin {"disable", "exit"} => UNCHANGED <<os, buf>> /\ Log' = Log
           /\ buf = <<>> => UNCHANGED <<os, buf>> /\ Log' = Log
           /\ \E n \in 0 .. Len(Log) : Log' = First(Log, n)
<1>1. wpc = "reply" /\ UNCHANGED <<man, synced>>
  BY DEF WorkerReply
<1>2. /\ srv = "up" /\ man # NoManifest /\ wfile = man.incr /\ buf \in Seq(FrameSet) /\ os[man.incr] \in Seq(FrameSet)
      /\ Log \in Seq(FrameSet) /\ os \in [Files -> Seq(FrameSet)] /\ Len(Log) = Len(os[man.incr]) + Len(buf)
      /\ Len(Log) \in Nat /\ Len(buf) \in Nat /\ man.incr \in Files /\ Len(os[man.incr]) \in Nat
  BY <1>1, LogFacts DEF Phases, Contents, TypeOK
<1>3. CASE cur.op \notin {"disable", "exit"}
  <2>1. UNCHANGED <<os, buf>>
    BY <1>3 DEF WorkerReply, DropWriter
  <2>2. Log' = Log /\ OnDisk' = OnDisk
    BY <1>1, <2>1, NoWrite
  <2>3. Len(Log) \in 0 .. Len(Log) /\ First(Log, Len(Log)) = Log
    BY <1>2, FirstAll
  <2> QED BY <1>1, <1>2, <1>3, <2>1, <2>2, <2>3
<1>4. CASE cur.op \in {"disable", "exit"}
  <2>1. PICK k \in {0, Len(buf)} : os' = [os EXCEPT ![wfile] = @ \o First(buf, k)] /\ buf' = <<>>
    BY <1>4 DEF WorkerReply, DropWriter, First
  <2> DEFINE a == First(buf, k)
             f == os[man.incr]
  <2>2. k \in 0 .. Len(buf) /\ <<>> \in Seq(FrameSet)
    BY <1>2
  <2>a. f \in Seq(FrameSet)
    BY <1>2
  <2> HIDE DEF f
  <2>3. a \in Seq(FrameSet) /\ f \o a = First(f \o buf, Len(f) + k)
    BY <1>2, <2>2, <2>a, Pieces
  <2> HIDE DEF a
  <2>4. Wrote(a, <<>>)
    BY <1>1, <1>2, <2>1, <2>2, <2>3 DEF Wrote, a
  <2>5. /\ Log' = f \o (a \o <<>>) /\ OnDisk' = OnDisk
        /\ os' \in [Files -> Seq(FrameSet)] /\ os'[man.incr] = f \o a
        /\ Len(os'[man.incr]) >= Len(os[man.incr])
        /\ \A g \in Files : g # man.incr => os'[g] = os[g]
        /\ Len(os[man.incr]) >= 1 => os'[man.incr][1] = os[man.incr][1]
    BY <2>4, WroteLog DEF f
  <2>6. a \o <<>> = a
    BY <2>3, Joined
  <2>7. Log' = First(Log, Len(f) + k) /\ Len(f) + k \in 0 .. Len(Log)
    <3>1. Log = f \o buf
      BY DEF Log, f
    <3>2. Len(f) + k \in 0 .. Len(Log)
      BY <1>2, <2>2 DEF f
    <3> QED BY <2>3, <2>5, <2>6, <3>1, <3>2
  <2>8. ASSUME buf = <<>> PROVE UNCHANGED <<os, buf>> /\ Log' = Log
    <3>1. k = 0 /\ a = <<>>
      <4>1. Len(buf) = 0
        BY <2>8
      <4>2. k = 0 /\ First(buf, 0) = <<>>
        BY <2>8, <4>1 DEF First
      <4> QED BY <4>2 DEF a
    <3>2. f \o a = f
      BY <2>a, <3>1, Joined
    <3>3. os' = os
      BY <1>2, <2>1, <3>2 DEF a, f
    <3>4. buf' = buf
      BY <2>1, <2>8
    <3> QED BY <1>1, <3>3, <3>4, NoWrite
  <2> QED BY <1>1, <1>2, <1>4, <2>1, <2>2, <2>5, <2>7, <2>8
<1> QED BY <1>3, <1>4

\* An fsync covers the whole log.
LEMMA SyncStep ==
    ASSUME TypeOK, Phases, Stages, Layout, Frames, Contents, WorkerSync
    PROVE  /\ man # NoManifest /\ srv = "up" /\ UNCHANGED <<os, buf, man>> /\ Log' = Log /\ Logged' = Logged
           /\ AllSynced' /\ OnDisk' = Log /\ \A f \in Files : f # man.incr => synced'[f] = synced[f]
           /\ synced' \in [Files -> Nat] /\ synced'[man.incr] = Len(os[man.incr]) /\ buf = <<>>
<1>1. wpc = "sync" /\ UNCHANGED <<os, buf, man>> /\ synced' = [synced EXCEPT ![wfile] = Len(os[wfile])]
  BY DEF WorkerSync
<1>2. /\ srv = "up" /\ man # NoManifest /\ wfile = man.incr /\ man.incr \in Files /\ buf = <<>> /\ Log = os[man.incr]
      /\ os[man.incr] \in Seq(FrameSet) /\ synced \in [Files -> Nat] /\ Log \in Seq(FrameSet)
  BY <1>1, LogFacts DEF Phases, Stages, Contents, TypeOK
<1>3. Log' = Log /\ Logged' = Logged
  BY <1>1, NoWrite
<1>4. synced'[man.incr] = Len(os[man.incr]) /\ Len(os[man.incr]) \in Nat /\ synced' \in [Files -> Nat]
      /\ \A f \in Files : f # man.incr => synced'[f] = synced[f]
  BY <1>1, <1>2
<1>5. AllSynced'
  BY <1>1, <1>2, <1>4 DEF AllSynced
<1>6. OnDisk' = First(os[man.incr], Len(os[man.incr]))
  BY <1>1, <1>4 DEF OnDisk
<1>7. Len(Log) \in 0 .. Len(Log) /\ First(Log, Len(Log)) = Log
  BY <1>2, FirstAll
<1> QED BY <1>1, <1>2, <1>3, <1>4, <1>5, <1>6, <1>7

\* A new file is prepared beside the log.
LEMMA PrepareStep ==
    ASSUME TypeOK, Phases, Rewrites, Layout, Frames, Contents, MaterializeOpen \/ MaterializeSync
    PROVE  /\ man # NoManifest /\ srv = "up" /\ UNCHANGED <<buf, man>> /\ Log' = Log /\ Logged' = Logged /\ OnDisk' = OnDisk
           /\ AllSynced' = AllSynced
           /\ NextIncr \in Files /\ NextIncr > man.incr
           /\ \A f \in Files : f # NextIncr => os'[f] = os[f] /\ synced'[f] = synced[f]
           /\ os' = os \/ (os' = [os EXCEPT ![NextIncr] = <<Header>>] /\ synced' = synced)
           /\ synced' = synced \/ (synced' = [synced EXCEPT ![NextIncr] = Len(os[NextIncr])] /\ os' = os)
<1>1. mat.pc # "none"
  BY DEF MaterializeOpen, MaterializeSync
<1>2. srv = "up" /\ man # NoManifest /\ NextIncr \in Files /\ man.incr \in Files /\ man.next = man.incr + 1
  BY <1>1, Fields DEF Phases, Contents, Rewrites, Layout, NextIncr
<1>3. NextIncr > man.incr /\ NextIncr # man.incr
  BY <1>2 DEF NextIncr, Files
<1>4. UNCHANGED <<buf, man>>
  BY DEF MaterializeOpen, MaterializeSync, worker
<1>5. os \in [Files -> Seq(FrameSet)] /\ synced \in [Files -> Nat]
  BY DEF TypeOK
<1>6. /\ os' = os \/ (os' = [os EXCEPT ![NextIncr] = <<Header>>] /\ synced' = synced)
      /\ synced' = synced \/ (synced' = [synced EXCEPT ![NextIncr] = Len(os[NextIncr])] /\ os' = os)
  BY DEF MaterializeOpen, MaterializeSync, SyncNew
<1>7. \A f \in Files : f # NextIncr => os'[f] = os[f] /\ synced'[f] = synced[f]
  BY <1>5, <1>6
<1>8. os'[man.incr] = os[man.incr] /\ synced'[man.incr] = synced[man.incr]
  BY <1>2, <1>3, <1>7
<1>9. Log' = Log /\ OnDisk' = OnDisk /\ Logged' = Logged /\ AllSynced' = AllSynced
  BY <1>4, <1>8 DEF Log, OnDisk, Logged, AllSynced
<1> QED BY <1>2, <1>3, <1>4, <1>6, <1>7, <1>9

\* The switch to the new file.
LEMMA CommitStep ==
    ASSUME TypeOK, Phases, Rewrites, Layout, Frames, Contents, CommitManifestSwitch
    PROVE  /\ man # NoManifest /\ srv = "up" /\ man' # NoManifest /\ man'.base = mat.snap /\ man'.incr = NextIncr
           /\ man'.next = NextIncr + 1 /\ NextIncr \in Files /\ NextIncr > man.incr
           /\ UNCHANGED <<os, synced, files>> /\ Log' = <<Header>> /\ OnDisk' = <<Header>> /\ Logged' = mat.snap
           /\ os[NextIncr] = <<Header>> /\ synced[NextIncr] = 1 /\ NextIncr \in files /\ buf' = <<>> /\ wdb' = NoDb /\ wfile' = NextIncr
<1>1. mat.pc = "commit" /\ man' = [base |-> mat.snap, incr |-> NextIncr, next |-> NextIncr + 1] /\ buf' = <<>> /\ UNCHANGED <<os, synced, files>>
      /\ wdb' = NoDb /\ wfile' = NextIncr
  BY DEF CommitManifestSwitch, ReopenedDb
<1>2. srv = "up" /\ man # NoManifest /\ NextIncr \in Files /\ man.incr \in Files /\ man.next = man.incr + 1
  BY <1>1, Fields DEF Phases, Contents, Rewrites, Layout, NextIncr
<1>3. NextIncr > man.incr /\ man' # NoManifest
  BY <1>1, <1>2 DEF NextIncr, Files, NoManifest
<1>4. os[NextIncr] = <<Header>> /\ synced[NextIncr] = 1 /\ NextIncr \in files
  BY <1>1 DEF Layout
<1>5. man'.base = mat.snap /\ man'.incr = NextIncr /\ man'.next = NextIncr + 1
  BY <1>1
<1>6. <<Header>> \in Seq(FrameSet) /\ <<Header>> \o <<>> = <<Header>> /\ CmdsOf(<<Header>>) = {} /\ First(<<Header>>, 1) = <<Header>>
  <2>1. PICK h \in Seq(FrameSet) : h = <<Header>> /\ Len(h) = 1
    BY FreshLog
  <2>2. h \o <<>> = h /\ First(h, Len(h)) = h
    BY <2>1, Joined, FirstAll
  <2> QED BY <2>1, <2>2, FreshLog
<1> DEFINE n == NextIncr
<1> HIDE DEF n
<1>7. Log' = <<Header>> /\ OnDisk' = <<Header>>
  <2>1. man'.incr = n /\ os'[n] = <<Header>> /\ synced'[n] = 1 /\ buf' = <<>>
    BY <1>1, <1>4, <1>5 DEF n
  <2> QED BY <1>6, <2>1 DEF Log, OnDisk
<1>8. Logged' = mat.snap
  BY <1>5, <1>6, <1>7 DEF Logged
<1> QED BY <1>1, <1>2, <1>3, <1>4, <1>5, <1>7, <1>8

-----------------------------------------------------------------------------
(* What start-up and a crash do to the log.                                *)

\* The first start creates the manifest.
LEMMA BootstrapStep ==
    ASSUME TypeOK, Phases, Layout, Frames, Contents, BootstrapAofLayout
    PROVE  /\ man' # NoManifest /\ UNCHANGED <<os, buf, synced, files>> /\ buf = <<>>
           /\ man # NoManifest => man' = man /\ Log' = Log /\ Logged' = Logged /\ OnDisk' = OnDisk /\ srv' \in {"boot", "refused"}
           /\ man = NoManifest => /\ man'.base = {} /\ man'.incr = 1 /\ man'.next = 2 /\ 1 \in Files /\ srv' = "boot"
                                  /\ Log' = <<>> /\ OnDisk' = <<>> /\ Logged' = {} /\ os[1] = <<>> /\ synced[1] = 0
<1>1. srv = "off" /\ UNCHANGED <<os, buf, synced, files>>
  BY DEF BootstrapAofLayout, worker
<1>2. buf = <<>>
  BY <1>1 DEF Phases
<1>3. CASE man # NoManifest
  <2>1. man' = man /\ srv' \in {"boot", "refused"}
    BY <1>3 DEF BootstrapAofLayout
  <2> QED BY <1>1, <1>2, <1>3, <2>1, NoWrite
<1>4. CASE man = NoManifest
  <2>1. man' = [base |-> {}, incr |-> 1, next |-> 2] /\ srv' = "boot"
    BY <1>4 DEF BootstrapAofLayout
  <2>2. os[1] = <<>> /\ synced[1] = 0
    BY <1>4 DEF Layout
  <2>3. 1 \in Files /\ man' # NoManifest /\ man'.base = {} /\ man'.incr = 1 /\ man'.next = 2
    BY <2>1, BoundAssumption DEF Files, NoManifest
  <2>4. <<>> \in Seq(FrameSet) /\ CmdsOf(<<>>) = {} /\ <<>> \o <<>> = <<>> /\ First(<<>>, 0) = <<>>
    BY FreshLog, Joined DEF First
  <2>5. Log' = <<>> /\ OnDisk' = <<>>
    BY <1>1, <1>2, <2>2, <2>3, <2>4 DEF Log, OnDisk
  <2>6. Logged' = {}
    BY <2>3, <2>4, <2>5 DEF Logged
  <2> QED BY <1>1, <1>2, <1>4, <2>1, <2>2, <2>3, <2>5, <2>6
<1> QED BY <1>3, <1>4

\* A writer is opened; the header of an empty file is in its buffer.
LEMMA OpenStep ==
    ASSUME TypeOK, Phases, Layout, Frames, Contents, NEW p \in Policies, OpenWriter(p)
    PROVE  /\ man # NoManifest /\ UNCHANGED <<man, os, synced>> /\ OnDisk' = OnDisk /\ Logged' = Logged
           /\ Good(Log') /\ CmdsOf(Log') = CmdsOf(Log)
           /\ buf = <<>> /\ man.incr \in Files
           /\ srv' = "refused" => BadHeader(man.incr) /\ UNCHANGED <<files, worker>>
           /\ srv' # "refused" => /\ srv' = "open" /\ ~BadHeader(man.incr) /\ files' = files \union {man.incr} /\ wfile' = man.incr
                                  /\ wdb' = NoDb /\ policy' = p /\ buf' = (IF os[man.incr] = <<>> THEN <<Header>> ELSE <<>>)
                                  /\ queue' = <<>> /\ wpc' = "idle" /\ cur' = NoCmd /\ wres' = "ok"
<1>1. srv = "boot" /\ UNCHANGED <<man, os, synced>>
  BY DEF OpenWriter
<1>2. man # NoManifest /\ buf = <<>>
  BY <1>1 DEF Phases, Contents
<1>3. man.incr \in Files /\ os[man.incr] \in Seq(FrameSet) /\ Log = os[man.incr] /\ Good(Log) /\ Log \in Seq(FrameSet)
  BY <1>2, LogFacts
<1>4. OnDisk' = OnDisk
  BY <1>1 DEF OnDisk
<1>5. CASE BadHeader(man.incr)
  <2>1. srv' = "refused" /\ UNCHANGED <<files, worker>>
    BY <1>5 DEF OpenWriter
  <2>2. Log' = Log /\ Logged' = Logged
    BY <1>1, <2>1, NoWrite DEF worker
  <2> QED BY <1>1, <1>2, <1>3, <1>4, <1>5, <2>1, <2>2
<1>6. CASE ~BadHeader(man.incr)
  <2>1. /\ srv' = "open" /\ files' = files \union {man.incr} /\ wfile' = man.incr
        /\ wdb' = NoDb /\ policy' = p /\ buf' = (IF os[man.incr] = <<>> THEN <<Header>> ELSE <<>>)
        /\ queue' = <<>> /\ wpc' = "idle" /\ cur' = NoCmd /\ wres' = "ok"
    BY <1>6 DEF OpenWriter
  <2>2. Good(Log') /\ CmdsOf(Log') = CmdsOf(Log)
    <3>1. CASE os[man.incr] = <<>>
      <4>1. <<Header>> \in Seq(FrameSet) /\ <<>> \o <<Header>> = <<Header>>
        BY FreshLog, Joined
      <4>2. Log' = <<Header>>
        BY <1>1, <2>1, <3>1, <4>1 DEF Log
      <4> QED BY <1>3, <3>1, <4>2, FreshLog
    <3>2. CASE os[man.incr] # <<>>
      <4>1. UNCHANGED <<os, buf, man>>
        BY <1>1, <1>2, <2>1, <3>2
      <4> QED BY <1>3, <4>1, NoWrite
    <3> QED BY <3>1, <3>2
  <2>3. Logged' = Logged
    BY <1>1, <2>2 DEF Logged
  <2> QED BY <1>1, <1>2, <1>3, <1>4, <1>6, <2>1, <2>2, <2>3
<1> QED BY <1>5, <1>6

\* The log is read: what is not committed is cut off.
LEMMA LoadStep ==
    ASSUME TypeOK, Phases, Layout, Frames, Contents, LoadStartupData
    PROVE  /\ man # NoManifest /\ srv' = "up" /\ UNCHANGED <<man, files, buf>>
           /\ Good(Log') /\ Ready(Log', NoDb) /\ mem' = Logged' /\ \E n \in 0 .. Len(Log) : Log' = First(Log, n)
           /\ Logged' = man.base \union Committed(Log') /\ Committed(OnDisk) \subseteq Committed(OnDisk')
           /\ os' \in [Files -> Seq(FrameSet)] /\ synced' \in [Files -> Nat] /\ synced'[man.incr] <= Len(os'[man.incr])
           /\ (\A f \in Files : f # man.incr => os'[f] = os[f] /\ synced'[f] = synced[f])
           /\ os[man.incr] = <<>> => os' = os /\ synced' = synced
           /\ os[man.incr] # <<>> => os'[man.incr] # <<>> /\ os'[man.incr][1] = Header /\ synced'[man.incr] \in {synced[man.incr], Len(os'[man.incr])}
           /\ holder' = Free /\ enabled' = TRUE /\ latched' = FALSE /\ acked' = acked \intersect mem' /\ UNCHANGED <<next, safe, worker, mat, counts>>
<1>1. srv = "open" /\ UNCHANGED <<man, files, worker, mat, counts>>
  BY DEF LoadStartupData
<1>2. man # NoManifest
  BY <1>1 DEF Contents
<1> DEFINE c == os[man.incr]
           n == Cut(c)
<1>3. /\ man.incr \in Files /\ c \in Seq(FrameSet) /\ Good(c) /\ buf = (IF c = <<>> THEN <<Header>> ELSE <<>>) /\ (c # <<>> => c[1] = Header)
      /\ os \in [Files -> Seq(FrameSet)] /\ synced \in [Files -> Nat] /\ synced[man.incr] \in 0 .. Len(c) /\ Log = c \o buf
      /\ Log \in Seq(FrameSet)
  BY <1>1, <1>2, LogFacts DEF TypeOK, Layout, BadHeader, Log
<1>4. /\ srv' = "up" /\ os' = [os EXCEPT ![man.incr] = First(c, n)]
      /\ synced' = (IF n < Len(c) THEN [synced EXCEPT ![man.incr] = n] ELSE synced)
      /\ mem' = man.base \union Applied(First(c, n))
      /\ holder' = Free /\ enabled' = TRUE /\ latched' = FALSE /\ acked' = acked \intersect mem' /\ UNCHANGED <<next, safe>>
  <2>1. ~Damaged(c)
    BY <1>3, NotDamaged DEF Good
  <2> QED BY <2>1 DEF LoadStartupData, First
<1>a. OnDisk = First(c, synced[man.incr])
  BY DEF OnDisk
<1> HIDE DEF c
<1>5. /\ n \in 0 .. Len(c) /\ After(c, n) = "out" /\ (n < Len(c) => c[n + 1].kind \in {"torn", "multi"})
      /\ \A m \in 0 .. Len(c) : Committed(First(c, m)) \subseteq Committed(First(c, n))
  BY <1>3, CutFacts DEF Good
<1> HIDE DEF n
<1> DEFINE x == First(c, n)
<1>6. /\ x \in Seq(FrameSet) /\ Len(x) = n /\ Good(x) /\ Closed(x) /\ (n >= 1 => x[1] = c[1]) /\ n \in Nat /\ Len(c) \in Nat
  <2>1. /\ x \in Seq(FrameSet) /\ Len(x) = n /\ Good(x) /\ (\A i \in 1 .. n : x[i] = c[i]) /\ \A i \in 0 .. n : After(x, i) = After(c, i)
    BY <1>3, <1>5, Beginning DEF Good
  <2>2. Closed(x)
    BY <1>5, <2>1 DEF Closed
  <2> QED BY <1>3, <1>5, <2>1, <2>2
<1>7. Applied(x) = Committed(x) /\ Committed(x) = CmdsOf(x)
  BY <1>6, AppliedCommitted, ClosedCommitted DEF Good
<1>8. Len(x) \in 0 .. Len(x) /\ First(x, Len(x)) = x
  BY <1>6, FirstAll
<1>b. os'[man.incr] = x /\ os' \in [Files -> Seq(FrameSet)] /\ (\A f \in Files : f # man.incr => os'[f] = os[f] /\ synced'[f] = synced[f])
      /\ synced' \in [Files -> Nat]
  <2> HIDE DEF x
  <2>1. os' = [os EXCEPT ![man.incr] = x]
    BY <1>4 DEF x
  <2> QED BY <1>3, <1>4, <1>6, <2>1
<1>9. CASE c = <<>>
  <2>1. n = 0 /\ n = Len(c) /\ x = <<>>
    BY <1>5, <1>9 DEF First
  <2>2. os' = os /\ synced' = synced /\ buf' = buf /\ man' = man
    BY <1>1, <1>3, <1>4, <1>9, <2>1 DEF c, worker
  <2>3. <<Header>> \in Seq(FrameSet) /\ <<>> \o <<Header>> = <<Header>>
    BY FreshLog, Joined
  <2>4. Log = <<Header>> /\ Log' = Log /\ OnDisk' = OnDisk
    BY <1>3, <1>9, <2>2, <2>3, NoWrite
  <2>5. Logged' = man.base /\ mem' = man.base
    <3>1. Logged' = man.base
      BY <2>2, <2>4, FreshLog DEF Logged
    <3>2. Committed(x) = {}
      BY <2>1, FreshLog
    <3> QED BY <1>4, <1>7, <3>1, <3>2
  <2>6. \E m \in 0 .. Len(Log) : Log' = First(Log, m)
    BY <1>3, <2>4, FirstAll
  <2>7. synced'[man.incr] <= Len(os'[man.incr])
    BY <1>3, <2>2 DEF c
  <2> QED BY <1>1, <1>2, <1>4, <1>9, <1>b, <2>2, <2>4, <2>5, <2>6, <2>7, FreshLog DEF c
<1>10. CASE c # <<>>
  <2>1. n >= 1
    <3>1. Len(c) >= 1
      BY <1>3, <1>10
    <3>2. n = 0 => c[1].kind \in {"torn", "multi"}
      BY <1>5, <3>1
    <3>3. c[1].kind = "header"
      BY <1>3, <1>10, FrameTypes
    <3> QED BY <1>6, <3>2, <3>3
  <2>2. x # <<>> /\ x[1] = Header
    BY <1>3, <1>6, <1>10, <2>1
  <2>3. buf' = <<>> /\ man' = man /\ buf = <<>>
    BY <1>1, <1>3, <1>10 DEF worker
  <2>4. Log = c /\ x \o <<>> = x
    BY <1>3, <1>6, <1>10, Joined
  <2> HIDE DEF x
  <2>5. Log' = x
    BY <1>b, <2>3, <2>4 DEF Log
  <2>6. Logged' = man.base \union CmdsOf(x) /\ mem' = Logged' /\ Logged' = man.base \union Committed(x)
    BY <1>4, <1>7, <2>3, <2>5 DEF Logged, x
  <2>7. \E m \in 0 .. Len(Log) : Log' = First(Log, m)
    BY <1>5, <2>4, <2>5 DEF x
  <2>8. Ready(x, NoDb)
    BY <1>6, <2>1 DEF Ready
  <2>9. synced'[man.incr] \in {synced[man.incr], Len(x)} /\ synced'[man.incr] <= Len(x) /\ Committed(OnDisk) \subseteq Committed(OnDisk')
    <3>1. CASE n < Len(c)
      <4>1. synced'[man.incr] = Len(x)
        BY <1>3, <1>4, <1>6, <3>1
      <4>2. OnDisk' = x
        BY <1>8, <1>b, <2>3, <4>1 DEF OnDisk
      <4>3. Committed(OnDisk) \subseteq Committed(x)
        BY <1>3, <1>5, <1>a DEF x
      <4> QED BY <1>6, <4>1, <4>2, <4>3
    <3>2. CASE ~(n < Len(c))
      <4>1. n = Len(c) /\ synced' = synced
        BY <1>4, <1>5, <1>6, <3>2
      <4>2. x = c
        BY <1>3, <4>1, FirstAll DEF x
      <4>3. OnDisk' = OnDisk
        BY <1>a, <1>b, <2>3, <4>1, <4>2 DEF OnDisk
      <4> QED BY <1>3, <4>1, <4>2, <4>3
    <3> QED BY <3>1, <3>2
  <2> QED BY <1>1, <1>2, <1>4, <1>6, <1>10, <1>b, <2>2, <2>3, <2>5, <2>6, <2>7, <2>8, <2>9 DEF c
<1> QED BY <1>9, <1>10

\* What a crash leaves of a file that is no longer than its header.
LEMMA HeaderLeftovers ==
    ASSUME NEW f \in Files, TypeOK, os[f] = <<Header>>, f # wfile, NEW d \in Leftovers(f)
    PROVE  /\ d \in Seq(FrameSet) /\ Len(d) <= 1 /\ synced[f] <= Len(d) /\ (synced[f] >= 1 => d = <<Header>>)
<1>1. synced[f] \in Nat /\ synced[f] <= Len(os[f])
  BY DEF TypeOK
<1> DEFINE h == <<Header>>
<1>2. h \in Seq(FrameSet) /\ Len(h) = 1 /\ Torn \in FrameSet /\ <<>> \in Seq(FrameSet)
  BY FreshLog, FrameTypes
<1>3. h \o <<>> = h /\ First(h, 0) = <<>> /\ First(h, 1) = h
  <2>1. First(h, Len(h)) = h
    BY <1>2, FirstAll
  <2>2. h \o <<>> = h
    BY <1>2, Joined
  <2>3. First(h, 0) = <<>>
    BY <1>2 DEF First
  <2> QED BY <1>2, <2>1, <2>2, <2>3
<1>4. PICK k \in synced[f] .. 1 : d = First(h, k) \/ (k < 1 /\ d = Append(First(h, k), Torn))
  <2>1. Leftovers(f) = {First(h, k) : k \in synced[f] .. Len(h)} \union
                       {Append(First(h, k), Torn) : k \in {j \in synced[f] .. Len(h) : j < Len(h \o <<>>)}}
    BY DEF Leftovers, First
  <2> HIDE DEF h
  <2> QED BY <1>2, <1>3, <2>1
<1>5. k \in {0, 1} /\ synced[f] <= k
  BY <1>1
<1> HIDE DEF h
<1>6. CASE k = 1
  <2>1. d = h
    BY <1>3, <1>4, <1>6
  <2> QED BY <1>2, <1>5, <1>6, <2>1 DEF h
<1>7. CASE k = 0
  <2>1. Append(<<>>, Torn) \in Seq(FrameSet) /\ Len(Append(<<>>, Torn)) = 1 /\ Len(<<>>) = 0
    BY <1>2
  <2>2. d = <<>> \/ d = Append(<<>>, Torn)
    BY <1>3, <1>4, <1>7
  <2>3. synced[f] = 0
    BY <1>1, <1>5, <1>7
  <2>4. d \in Seq(FrameSet) /\ Len(d) \in {0, 1}
    BY <1>2, <2>1, <2>2
  <2>5. Len(d) <= 1 /\ synced[f] <= Len(d) /\ ~(synced[f] >= 1)
    <3>1. PICK n \in {0, 1} : n = Len(d)
      BY <2>4
    <3>2. n <= 1 /\ 0 <= n /\ ~(0 >= 1)
      OBVIOUS
    <3> QED BY <2>3, <3>1, <3>2
  <2> QED BY <2>4, <2>5
<1> QED BY <1>5, <1>6, <1>7

\* A crash keeps what is synced.
LEMMA CrashStep ==
    ASSUME TypeOK, Phases, Rewrites, Layout, Frames, Contents, Crash
    PROVE  /\ man # NoManifest /\ UNCHANGED <<man, synced, files>> /\ OnDisk' = OnDisk /\ buf' = <<>>
           /\ Good(Log') /\ \E n \in 0 .. Len(Log) : CmdsOf(Log') = CmdsOf(First(Log, n))
           /\ os' \in [Files -> Seq(FrameSet)] /\ \A f \in Files : synced[f] <= Len(os'[f])
           /\ synced[man.incr] >= 1 => os'[man.incr][1] = os[man.incr][1]
           /\ \A f \in Files : f > man.incr => Len(os'[f]) <= 1 /\ (synced[f] >= 1 => os'[f] = <<Header>>)
<1>1. srv \in {"boot", "open", "up"} /\ UNCHANGED <<man, synced, files>> /\ buf' = <<>>
  BY DEF Crash
<1>2. man # NoManifest
  BY <1>1 DEF Contents
<1> DEFINE s == os[man.incr]
           n == synced[man.incr]
<1>3. /\ man.incr \in Files /\ s \in Seq(FrameSet) /\ buf \in Seq(FrameSet) /\ n \in 0 .. Len(s) /\ Len(s) \in 0 .. Len(Log)
      /\ Log \in Seq(FrameSet) /\ Good(Log) /\ First(Log, Len(s)) = s /\ OnDisk = First(Log, n) /\ Log = s \o buf
      /\ os \in [Files -> Seq(FrameSet)] /\ synced \in [Files -> Nat] /\ Len(Log) \in Nat /\ Len(s) \in Nat /\ n \in Nat
      /\ Log = s \o (IF man.incr = wfile THEN buf ELSE <<>>)
  <2>1. buf = <<>> \/ man.incr = wfile
    BY <1>1 DEF Phases
  <2>2. /\ man.incr \in Files /\ s \in Seq(FrameSet) /\ buf \in Seq(FrameSet) /\ n \in 0 .. Len(s) /\ Len(s) \in 0 .. Len(Log)
        /\ Log \in Seq(FrameSet) /\ Good(Log) /\ First(Log, Len(s)) = s /\ OnDisk = First(Log, n)
    BY <1>2, LogFacts
  <2>3. Log = s \o buf /\ os \in [Files -> Seq(FrameSet)] /\ synced \in [Files -> Nat]
    BY DEF TypeOK, Log
  <2>4. Log = s \o (IF man.incr = wfile THEN buf ELSE <<>>)
    BY <2>1, <2>3
  <2>5. Len(Log) \in Nat /\ Len(s) \in Nat /\ n \in Nat
    BY <2>2
  <2> QED BY <2>2, <2>3, <2>4, <2>5
<1>4. PICK c \in Leftovers(man.incr) :
         IF mat.pc \in {"sync", "commit"}
         THEN \E d \in Leftovers(NextIncr) : os' = [os EXCEPT ![man.incr] = c, ![NextIncr] = d]
         ELSE os' = [os EXCEPT ![man.incr] = c]
  BY DEF Crash
<1>5. PICK k \in n .. Len(s) : Remains(Log, k, c)
  <2>1. Leftovers(man.incr) = {First(s, k) : k \in n .. Len(s)} \union
                              {Append(First(s, k), Torn) : k \in {j \in n .. Len(s) : j < Len(Log)}}
    BY <1>3 DEF Leftovers, First
  <2> HIDE DEF s, n
  <2>2. PICK k \in n .. Len(s) : c = First(s, k) \/ (c = Append(First(s, k), Torn) /\ k < Len(Log))
    BY <2>1
  <2>3. First(s, k) = First(Log, k)
    <3>1. k \in 0 .. Len(s)
      BY <1>3
    <3>2. First(First(Log, Len(s)), k) = First(Log, k)
      BY <1>3, <3>1, FirstFirst
    <3> QED BY <1>3, <3>2
  <2> QED BY <2>2, <2>3 DEF Remains
<1> HIDE DEF s, n, Log, OnDisk
<1>6. k \in 0 .. Len(Log) /\ n \in 0 .. k
  BY <1>3
<1>7. /\ Good(c) /\ Len(c) >= k /\ CmdsOf(c) = CmdsOf(First(Log, k)) /\ First(c, n) = First(Log, n) /\ (k >= 1 => c[1] = Log[1])
      /\ c \in Seq(FrameSet)
  <2>1. /\ Good(c) /\ Len(c) >= k /\ CmdsOf(c) = CmdsOf(First(Log, k)) /\ (\A m \in 0 .. k : First(c, m) = First(Log, m)) /\ (k >= 1 => c[1] = Log[1])
    <3>1. Good(Log) /\ Remains(Log, k, c) /\ k \in 0 .. Len(Log)
      BY <1>3, <1>5, <1>6
    <3> QED BY <3>1, RemainsFacts
  <2> QED BY <1>6, <2>1 DEF Good
<1>8. n >= 1 => c[1] = s[1]
  <2>1. n >= 1 => s[1] = Log[1]
    BY <1>3 DEF First
  <2> QED BY <1>6, <1>7, <2>1
<1>9. ASSUME mat.pc \in {"sync", "commit"}
      PROVE  NextIncr \in Files /\ NextIncr > man.incr /\ NextIncr # wfile /\ os[NextIncr] = <<Header>>
  <2>1. mat # NoMat
    BY <1>9, Fields
  <2>2. srv = "up" /\ wfile = man.incr
    BY <2>1 DEF Phases
  <2>3. man.next + 1 \in Files /\ man.next = man.incr + 1 /\ os[NextIncr] = <<Header>>
    BY <1>2, <1>9 DEF Rewrites, Layout
  <2> QED BY <1>3, <2>2, <2>3 DEF NextIncr, Files
<1>10. ASSUME NEW f \in Files, f > man.incr PROVE Len(os[f]) <= 1 /\ (synced[f] >= 1 => os[f] = <<Header>>)
  BY <1>10 DEF Layout, OnlyHeader
<1>a. \A f \in Files : synced[f] \in Nat /\ synced[f] <= Len(os[f])
  BY DEF TypeOK
<1>11. /\ os' \in [Files -> Seq(FrameSet)] /\ os'[man.incr] = c
       /\ \A f \in Files : f # man.incr => synced[f] <= Len(os'[f])
       /\ \A f \in Files : f > man.incr => Len(os'[f]) <= 1 /\ (synced[f] >= 1 => os'[f] = <<Header>>)
  <2>1. CASE mat.pc \in {"sync", "commit"}
    <3>1. PICK d \in Leftovers(NextIncr) : os' = [os EXCEPT ![man.incr] = c, ![NextIncr] = d]
      BY <1>4, <2>1
    <3> DEFINE g == NextIncr
    <3>2. g \in Files /\ g > man.incr /\ d \in Seq(FrameSet) /\ Len(d) <= 1 /\ synced[g] <= Len(d) /\ (synced[g] >= 1 => d = <<Header>>)
      BY <1>9, <2>1, HeaderLeftovers
    <3>3. os' = [os EXCEPT ![man.incr] = c, ![g] = d]
      BY <3>1
    <3> HIDE DEF g
    <3>4. man.incr # g
      BY <1>3, <3>2 DEF Files
    <3>5. os' \in [Files -> Seq(FrameSet)] /\ os'[man.incr] = c /\ os'[g] = d /\ \A f \in Files : (f # man.incr /\ f # g) => os'[f] = os[f]
      BY <1>3, <1>7, <3>2, <3>3, <3>4
    <3>6. \A f \in Files : f > man.incr => f # man.incr
      BY <1>3 DEF Files
    <3> QED BY <1>10, <1>a, <3>2, <3>5, <3>6
  <2>2. CASE mat.pc \notin {"sync", "commit"}
    <3>1. os' = [os EXCEPT ![man.incr] = c]
      BY <1>4, <2>2
    <3>2. os' \in [Files -> Seq(FrameSet)] /\ os'[man.incr] = c /\ \A f \in Files : f # man.incr => os'[f] = os[f]
      BY <1>3, <1>7, <3>1
    <3>6. \A f \in Files : f > man.incr => f # man.incr
      BY <1>3 DEF Files
    <3> QED BY <1>10, <1>a, <3>2, <3>6
  <2> QED BY <2>1, <2>2
<1>12. Log' = c
  <2>1. c \o <<>> = c
    BY <1>7, Joined
  <2> QED BY <1>1, <1>11, <2>1 DEF Log
<1>13. OnDisk' = OnDisk
  <2>1. OnDisk' = First(c, n)
    BY <1>1, <1>11 DEF OnDisk, n
  <2> QED BY <1>3, <1>7, <2>1
<1>14. n <= Len(c)
  BY <1>6, <1>7
<1> QED BY <1>1, <1>2, <1>3, <1>6, <1>7, <1>8, <1>11, <1>12, <1>13, <1>14 DEF n, s

\* A received command is no longer in the queue.
LEMMA SnapshotsReceived ==
    ASSUME ControlTypes, Phases, Stages, Waits, Snapshots, Received
    PROVE  Snapshots'
<1>1. /\ srv = "up" /\ cur.op = "none"
      /\ Len(queue) \in Nat /\ Len(queue) >= 1 /\ Len(queue') = Len(queue) - 1
      /\ (\A i \in 1 .. Len(queue') : queue'[i] = queue[i + 1] /\ i + 1 \in 1 .. Len(queue))
      /\ cur' = queue[1] /\ 1 \in 1 .. Len(queue)
  BY ReceivedFacts
<1>2. UNCHANGED <<srv, mem, next, acked, safe, latched, holder>>
  BY DEF Received
<1>3. \A s : SnapOk(s)' <=> SnapOk(s)
  BY <1>2 DEF SnapOk, Stopped, InHand, HolderAppends
<1>4. Sending' = Sending /\ (HasAppend' => HasAppend)
  BY <1>1, <1>2 DEF Sending, HasAppend
<1>5. ASSUME NEW i \in 1 .. Len(queue'), queue'[i].op = "rewrite"
      PROVE  /\ SnapOk(queue'[i].snap)
             /\ \A j \in 1 .. Len(queue') : queue'[j].op = "append" => (next - 1 \in queue'[i].snap <=> j < i)
             /\ Sending => next - 1 \notin queue'[i].snap
  <2>1. i + 1 \in 1 .. Len(queue) /\ queue[i + 1].op = "rewrite" /\ queue'[i] = queue[i + 1]
    BY <1>1, <1>5
  <2>2. /\ SnapOk(queue[i + 1].snap) /\ (Sending => next - 1 \notin queue[i + 1].snap)
        /\ \A j \in 1 .. Len(queue) : queue[j].op = "append" => (next - 1 \in queue[i + 1].snap <=> j < i + 1)
    BY <1>1, <2>1 DEF Snapshots
  <2>3. \A j \in 1 .. Len(queue') : queue'[j].op = "append" => (next - 1 \in queue[i + 1].snap <=> j + 1 < i + 1)
    BY <1>1, <2>2
  <2> QED BY <1>1, <2>1, <2>2, <2>3
<1>6. ASSUME cur'.op = "rewrite" PROVE SnapOk(cur'.snap) /\ (OnWay' => next - 1 \notin cur'.snap)
  <2>1. /\ SnapOk(cur'.snap) /\ (Sending => next - 1 \notin cur'.snap)
        /\ \A j \in 1 .. Len(queue) : queue[j].op = "append" => (next - 1 \in cur'.snap <=> j < 1)
    BY <1>1, <1>6 DEF Snapshots
  <2>2. HasAppend' => next - 1 \notin cur'.snap
    BY <1>1, <2>1, SMTT(30) DEF HasAppend
  <2> QED BY <1>4, <2>1, <2>2 DEF OnWay
<1>7. holder.cmd.op = "rewrite" => SnapOk(holder.cmd.snap) /\ (HasAppend' => next - 1 \in holder.cmd.snap)
  BY <1>4 DEF Snapshots
<1> QED BY <1>2, <1>3, <1>4, <1>5, <1>6, <1>7 DEF Snapshots

\* Every step keeps the snapshots of pending rewrites complete.
LEMMA SnapshotsStep ==
    ASSUME ControlTypes, Phases, Stages, Waits, Rewrites, Appends, Snapshots,
           mem \subseteq 1 .. next - 1, acked \subseteq mem, safe \subseteq mem, [Next]_vars
    PROVE  Snapshots'
<1>1. CASE FlushEverysec
  BY <1>1, Fields, HolderTypes, Enqueued DEF ControlTypes, Phases, Stages, Waits, Rewrites,
     Appends, Snapshots, SnapOk, InHand, HolderAppends, OnWay, HasAppend, Sending, Stopped,
     FlushEverysec, Unlocked, worker, disk
<1>2. CASE StartBgRewriteAof
  BY <1>2, Fields, HolderTypes, Enqueued DEF ControlTypes, Phases, Stages, Waits, Rewrites,
     Appends, Snapshots, SnapOk, InHand, HolderAppends, OnWay, HasAppend, Sending, Stopped,
     StartBgRewriteAof, Unlocked, RewriteInProgress, worker, disk
<1>3. CASE DisableAof
  BY <1>3, Fields, HolderTypes, Enqueued DEF ControlTypes, Phases, Stages, Waits, Rewrites,
     Appends, Snapshots, SnapOk, InHand, HolderAppends, OnWay, HasAppend, Sending, Stopped,
     DisableAof, Unlocked, worker, disk
<1>4. CASE ShutdownAofForExit
  BY <1>4, Fields, HolderTypes, Enqueued DEF ControlTypes, Phases, Stages, Waits, Rewrites,
     Appends, Snapshots, SnapOk, InHand, HolderAppends, OnWay, HasAppend, Sending, Stopped,
     ShutdownAofForExit, Unlocked, worker, disk
<1>5. CASE AbortClientTask
  BY <1>5, Fields, HolderTypes, Enqueued DEF ControlTypes, Phases, Stages, Waits, Rewrites,
     Appends, Snapshots, SnapOk, InHand, HolderAppends, OnWay, HasAppend, Sending, Stopped,
     AbortClientTask, worker, disk
<1>6. CASE Enqueue
  BY <1>6, Fields, HolderTypes, Enqueued DEF ControlTypes, Phases, Stages, Waits, Rewrites,
     Appends, Snapshots, SnapOk, InHand, HolderAppends, OnWay, HasAppend, Sending, Stopped,
     Enqueue, disk
<1>7. CASE EnqueueTimeout
  <2>1. /\ srv = "up" /\ holder.st = "send" /\ holder.cmd.op # "exit" /\ holder' = Free /\ Free.cmd.op = "none" /\ Free.st = "free"
        /\ UNCHANGED <<srv, mem, next, acked, safe, queue, wpc, cur>>
    BY <1>7, Fields DEF EnqueueTimeout, worker
  <2>2. (latched => latched') /\ (holder.cmd.op = "append" => latched')
    BY <1>7 DEF EnqueueTimeout, LatchOnTimeout
  <2>3. ~Stopped' => ~Stopped /\ ~HolderAppends
    BY <2>1, <2>2 DEF Stopped, HolderAppends
  <2>4. \A s : SnapOk(s) => SnapOk(s)'
    BY <2>1, <2>3 DEF SnapOk, InHand
  <2>5. ~Sending' /\ HasAppend' = HasAppend /\ (OnWay' => OnWay)
    BY <2>1 DEF Sending, HasAppend, OnWay
  <2> QED BY <2>1, <2>4, <2>5 DEF Snapshots
<1>8. CASE ReplyTimeout
  BY <1>8, Fields, HolderTypes, Enqueued DEF ControlTypes, Phases, Stages, Waits, Rewrites,
     Appends, Snapshots, SnapOk, InHand, HolderAppends, OnWay, HasAppend, Sending, Stopped,
     ReplyTimeout, worker, disk
<1>9. CASE AppendDone
  BY <1>9, Fields, HolderTypes, Enqueued DEF ControlTypes, Phases, Stages, Waits, Rewrites,
     Appends, Snapshots, SnapOk, InHand, HolderAppends, OnWay, HasAppend, Sending, Stopped,
     AppendDone, worker, disk
<1>10. CASE FlushDone
  BY <1>10, Fields, HolderTypes, Enqueued DEF ControlTypes, Phases, Stages, Waits, Rewrites,
     Appends, Snapshots, SnapOk, InHand, HolderAppends, OnWay, HasAppend, Sending, Stopped,
     FlushDone, worker, disk
<1>11. CASE PolicyDone
  BY <1>11, Fields, HolderTypes, Enqueued DEF ControlTypes, Phases, Stages, Waits, Rewrites,
     Appends, Snapshots, SnapOk, InHand, HolderAppends, OnWay, HasAppend, Sending, Stopped,
     PolicyDone, worker, disk
<1>12. CASE DisableDone
  BY <1>12, Fields, HolderTypes, Enqueued DEF ControlTypes, Phases, Stages, Waits, Rewrites,
     Appends, Snapshots, SnapOk, InHand, HolderAppends, OnWay, HasAppend, Sending, Stopped,
     DisableDone, worker, disk
<1>13. CASE ExitDone
  BY <1>13, Fields, HolderTypes, Enqueued DEF ControlTypes, Phases, Stages, Waits, Rewrites,
     Appends, Snapshots, SnapOk, InHand, HolderAppends, OnWay, HasAppend, Sending, Stopped,
     ExitDone, worker, disk
<1>14. CASE WorkerAppend
  <2>1. Received
    BY <1>14 DEF Received, WorkerAppend, FsyncSteps, client
  <2> QED BY <2>1, SnapshotsReceived
<1>15. CASE WorkerAppendError
  <2>1. Received
    BY <1>15 DEF Received, WorkerAppendError, client, disk
  <2> QED BY <2>1, SnapshotsReceived
<1>16. CASE WorkerForceFsync
  <2>1. Received
    BY <1>16 DEF Received, WorkerForceFsync, client, disk
  <2> QED BY <2>1, SnapshotsReceived
<1>17. CASE WorkerSetPolicy
  <2>1. Received
    BY <1>17 DEF Received, WorkerSetPolicy, client, disk
  <2> QED BY <2>1, SnapshotsReceived
<1>18. CASE WorkerFlush
  BY <1>18, Fields, HolderTypes, Enqueued DEF ControlTypes, Phases, Stages, Waits, Rewrites,
     Appends, Snapshots, SnapOk, InHand, HolderAppends, OnWay, HasAppend, Sending, Stopped,
     WorkerFlush, client
<1>19. CASE WorkerSync
  BY <1>19, Fields, HolderTypes, Enqueued DEF ControlTypes, Phases, Stages, Waits, Rewrites,
     Appends, Snapshots, SnapOk, InHand, HolderAppends, OnWay, HasAppend, Sending, Stopped,
     WorkerSync, RewriteBase, client, worker
<1>20. CASE WorkerIoError
  BY <1>20, Fields, HolderTypes, Enqueued, SMTT(30) DEF ControlTypes, Phases, Stages, Waits, Rewrites,
     Appends, Snapshots, SnapOk, InHand, HolderAppends, OnWay, HasAppend, Sending, Stopped,
     WorkerIoError, client
<1>21. CASE WorkerReply
  BY <1>21, Fields, HolderTypes, Enqueued DEF ControlTypes, Phases, Stages, Waits, Rewrites,
     Appends, Snapshots, SnapOk, InHand, HolderAppends, OnWay, HasAppend, Sending, Stopped,
     WorkerReply, DropWriter, Answered
<1>22. CASE MaterializeOpen
  BY <1>22, Fields, HolderTypes, Enqueued DEF ControlTypes, Phases, Stages, Waits, Rewrites,
     Appends, Snapshots, SnapOk, InHand, HolderAppends, OnWay, HasAppend, Sending, Stopped,
     MaterializeOpen, GiveUp, client
<1>23. CASE MaterializeSync
  BY <1>23, Fields, HolderTypes, Enqueued DEF ControlTypes, Phases, Stages, Waits, Rewrites,
     Appends, Snapshots, SnapOk, InHand, HolderAppends, OnWay, HasAppend, Sending, Stopped,
     MaterializeSync, client, worker
<1>24. CASE MaterializeError
  BY <1>24, Fields, HolderTypes, Enqueued DEF ControlTypes, Phases, Stages, Waits, Rewrites,
     Appends, Snapshots, SnapOk, InHand, HolderAppends, OnWay, HasAppend, Sending, Stopped,
     MaterializeError, GiveUp, client, disk
<1>25. CASE CommitManifestSwitch
  BY <1>25, Fields, HolderTypes, Enqueued DEF ControlTypes, Phases, Stages, Waits, Rewrites,
     Appends, Snapshots, SnapOk, InHand, HolderAppends, OnWay, HasAppend, Sending, Stopped,
     CommitManifestSwitch, worker
<1>26. CASE BootstrapAofLayout
  BY <1>26, Fields, HolderTypes, Enqueued DEF ControlTypes, Phases, Stages, Waits, Rewrites,
     Appends, Snapshots, SnapOk, InHand, HolderAppends, OnWay, HasAppend, Sending, Stopped,
     BootstrapAofLayout, client, worker
<1>27. CASE LoadStartupData
  BY <1>27, Fields, HolderTypes, Enqueued DEF ControlTypes, Phases, Stages, Waits, Rewrites,
     Appends, Snapshots, SnapOk, InHand, HolderAppends, OnWay, HasAppend, Sending, Stopped,
     LoadStartupData, client, worker
<1>28. CASE Crash
  BY <1>28, Fields, HolderTypes, Enqueued DEF ControlTypes, Phases, Stages, Waits, Rewrites,
     Appends, Snapshots, SnapOk, InHand, HolderAppends, OnWay, HasAppend, Sending, Stopped, Crash
<1>29. ASSUME NEW off \in BOOLEAN, Execute(off) PROVE Snapshots'
  <2>1. /\ srv = "up" /\ holder = Free /\ Free.cmd.op = "none" /\ Free.st = "free" /\ next \in Units /\ next \in Nat
        /\ UNCHANGED <<srv, acked, safe, queue, wpc, cur, latched>> /\ next' = next + 1 /\ mem' = mem \union {next}
    BY <1>29, Fields DEF Execute, Unlocked, worker, ControlTypes
  <2>2. CASE ~enabled
    <3>1. holder' = Free /\ queue = <<>> /\ cur.op = "none"
      BY <1>29, <2>1, <2>2, Fields DEF Execute, Phases, Stages
    <3> QED BY <2>1, <3>1 DEF Snapshots
  <2>3. CASE enabled
    <3>1. ~latched /\ holder'.cmd = AppendCmd(next) /\ holder'.st = "send" /\ AppendCmd(next).op = "append"
      BY <1>29, <2>1, <2>3, Fields, HolderTypes DEF Execute, Admitted
    <3>2. ~Stopped /\ InHand = {} /\ InHand' = {next}
      BY <2>1, <3>1 DEF Stopped, InHand, HolderAppends
    <3>3. ~HasAppend /\ ~HasAppend'
      BY <2>1, <3>2 DEF HasAppend, Appends
    <3>4. next \notin mem
      BY <2>1
    <3>5. ASSUME NEW s, SnapOk(s) PROVE SnapOk(s)' /\ next' - 1 \notin s
      BY <2>1, <3>2, <3>4, <3>5 DEF SnapOk
    <3>7. \A j \in 1 .. Len(queue) : queue[j].op # "append"
      BY <3>3 DEF HasAppend
    <3> QED BY <2>1, <3>1, <3>3, <3>5, <3>7 DEF Snapshots
  <2> QED BY <2>2, <2>3
<1>30. ASSUME NEW p \in Policies, SetAofFsyncPolicy(p) PROVE Snapshots'
  BY <1>30, Fields, HolderTypes, Enqueued DEF ControlTypes, Phases, Stages, Waits, Rewrites,
     Appends, Snapshots, SnapOk, InHand, HolderAppends, OnWay, HasAppend, Sending, Stopped,
     SetAofFsyncPolicy, Unlocked, disk
<1>31. ASSUME NEW w \in BOOLEAN, EnableAofFromSnapshot(w) PROVE Snapshots'
  BY <1>31, Fields, HolderTypes, Enqueued DEF ControlTypes, Phases, Stages, Waits, Rewrites,
     Appends, Snapshots, SnapOk, InHand, HolderAppends, OnWay, HasAppend, Sending, Stopped,
     EnableAofFromSnapshot, Unlocked, worker, disk
<1>32. ASSUME NEW p \in Policies, OpenWriter(p) PROVE Snapshots'
  BY <1>32, Fields, HolderTypes, Enqueued DEF ControlTypes, Phases, Stages, Waits, Rewrites,
     Appends, Snapshots, SnapOk, InHand, HolderAppends, OnWay, HasAppend, Sending, Stopped,
     OpenWriter, client, worker
<1>33. CASE UNCHANGED vars
  BY <1>33, Fields, HolderTypes, Enqueued DEF ControlTypes, Phases, Stages, Waits, Rewrites,
     Appends, Snapshots, SnapOk, InHand, HolderAppends, OnWay, HasAppend, Sending, Stopped, vars,
     client, worker, disk, counts
<1> QED BY <1>1, <1>2, <1>3, <1>4, <1>5, <1>6, <1>7, <1>8, <1>9, <1>10, <1>11, <1>12, <1>13, <1>14,
           <1>15, <1>16, <1>17, <1>18, <1>19, <1>20, <1>21, <1>22, <1>23, <1>24, <1>25, <1>26,
           <1>27, <1>28, <1>29, <1>30, <1>31, <1>32, <1>33 DEF Next, ClientStep, HolderStep,
           WorkerStep, StartStep

\* A beginning of the log holds the earliest of its writes.
LEMMA ShorterLog ==
    ASSUME TypeOK, Layout, Frames, Contents, man # NoManifest, man' = man,
           NEW n \in 0 .. Len(Log), CmdsOf(Log') = CmdsOf(First(Log, n))
    PROVE  /\ Logged' \subseteq Logged /\ Logged' \subseteq mem
           /\ \A v \in mem, w \in Logged' : v < w => v \in Logged'
<1>1. Log \in Seq(FrameSet) /\ Good(Log) /\ CmdsOf(First(Log, n)) \subseteq CmdsOf(Log)
  BY LogFacts, Beginning
<1>2. Logged' = man.base \union CmdsOf(First(Log, n)) /\ Logged = man.base \union CmdsOf(Log)
  BY DEF Logged
<1>3. Logged \subseteq mem /\ (\A v \in mem, w \in Logged : v < w => v \in Logged) /\ mem \subseteq Int
  BY DEF Contents, TypeOK, Units
<1>4. \A u \in man.base, v \in CmdsOf(Log) : u < v
  BY DEF Frames
<1> HIDE DEF Log, Logged
<1>5. ASSUME NEW v \in mem, NEW w \in Logged', v < w PROVE v \in Logged'
  <2>1. w \in Logged /\ v \in Logged /\ v \in Int /\ w \in Int
    BY <1>1, <1>2, <1>3, <1>5
  <2>2. CASE v \in man.base
    BY <1>2, <2>2
  <2>3. CASE v \notin man.base
    <3>1. v \in CmdsOf(Log)
      BY <1>2, <2>1, <2>3
    <3>2. w \notin man.base
      BY <1>4, <1>5, <2>1, <3>1
    <3>3. w \in CmdsOf(First(Log, n))
      BY <1>2, <3>2
    <3>4. v \in CmdsOf(First(Log, n))
      BY <1>1, <1>5, <2>1, <3>1, <3>3, EarliestCommands DEF Good
    <3> QED BY <1>2, <3>4
  <2> QED BY <2>2, <2>3
<1> QED BY <1>1, <1>2, <1>3, <1>5

\* The write on its way is later than those in the log.
LEMMA LogBelow ==
    ASSUME ControlTypes, Contents, man # NoManifest, Live, OnWay
    PROVE  \A v \in CmdsOf(Log) : v < next - 1
<1>1. next - 1 \notin Logged /\ Logged \subseteq mem /\ mem \subseteq 1 .. next - 1 /\ next \in Nat
  BY DEF Contents, ControlTypes
<1>2. \A v \in CmdsOf(Log) : v \in Logged
  BY DEF Logged
<1> HIDE DEF Logged
<1>3. \A v \in Logged : v < next - 1
  BY <1>1
<1> QED BY <1>2, <1>3

\* The next write is later than those in memory.
LEMMA OneLater ==
    ASSUME NEW M, NEW L, NEW n \in Nat, n >= 1, M \subseteq 1 .. n - 1, L \subseteq M,
           \A v \in M, w \in L : v < w => v \in L
    PROVE  /\ M \union {n} \subseteq 1 .. n /\ n \notin L
           /\ \A v \in M \union {n}, w \in L : v < w => v \in L
<1>1. \A v \in M : v \in Nat /\ v >= 1 /\ v <= n - 1
  OBVIOUS
<1>2. M \union {n} \subseteq 1 .. n
  BY <1>1
<1>3. \A w \in L : ~(n < w) /\ w # n
  BY <1>1
<1> QED BY <1>2, <1>3

\* A command that is no append is received.
LEMMA ContentsReceived ==
    ASSUME ControlTypes, Phases, Stages, Waits, Contents, Received, Logged' = Logged
    PROVE  Contents'
<1>1. UNCHANGED <<srv, mem, next, acked, safe, latched, holder, man>> /\ srv = "up" /\ wpc = "idle"
  BY ReceivedFacts DEF Received
<1>2. HasAppend' => HasAppend
  BY ReceivedFacts DEF HasAppend
<1>3. Sending' = Sending /\ Stopped' = Stopped /\ InHand' = InHand /\ (OnWay' => OnWay) /\ Live
  BY <1>1, <1>2 DEF Sending, Stopped, InHand, HolderAppends, OnWay, Live
<1> QED BY <1>1, <1>3 DEF Contents

\* The writes in memory and in the log stay in step.
LEMMA ContentsStep ==
    ASSUME TypeOK, ControlTypes, Phases, Stages, Waits, Rewrites, Appends, Snapshots, Contents, Frames, Layout, [Next]_vars
    PROVE  Contents'
<1>1. CASE FlushEverysec
  BY <1>1, NoWrite, Fields, HolderTypes, Enqueued DEF ControlTypes, Phases, Stages, Waits, Appends,
     Contents, OnWay, HasAppend, Sending, Stopped, InHand, HolderAppends, Live, FlushEverysec,
     Unlocked, worker, disk
<1>2. CASE StartBgRewriteAof
  BY <1>2, NoWrite, Fields, HolderTypes, Enqueued DEF ControlTypes, Phases, Stages, Waits, Appends,
     Contents, OnWay, HasAppend, Sending, Stopped, InHand, HolderAppends, Live, StartBgRewriteAof,
     Unlocked, RewriteInProgress, worker, disk
<1>3. CASE DisableAof
  BY <1>3, NoWrite, Fields, HolderTypes, Enqueued DEF ControlTypes, Phases, Stages, Waits, Appends,
     Contents, OnWay, HasAppend, Sending, Stopped, InHand, HolderAppends, Live, DisableAof,
     Unlocked, worker, disk
<1>4. CASE ShutdownAofForExit
  BY <1>4, NoWrite, Fields, HolderTypes, Enqueued DEF ControlTypes, Phases, Stages, Waits, Appends,
     Contents, OnWay, HasAppend, Sending, Stopped, InHand, HolderAppends, Live, ShutdownAofForExit,
     Unlocked, worker, disk
<1>5. CASE AbortClientTask
  BY <1>5, NoWrite, Fields, HolderTypes, Enqueued DEF ControlTypes, Phases, Stages, Waits, Appends,
     Contents, OnWay, HasAppend, Sending, Stopped, InHand, HolderAppends, Live, AbortClientTask,
     worker, disk
<1>6. CASE Enqueue
  BY <1>6, NoWrite, Fields, HolderTypes, Enqueued DEF ControlTypes, Phases, Stages, Waits, Appends,
     Contents, OnWay, HasAppend, Sending, Stopped, InHand, HolderAppends, Live, Enqueue, disk
<1>7. CASE EnqueueTimeout
  <2>1. /\ srv = "up" /\ UNCHANGED <<srv, mem, next, acked, man, queue, wpc, cur, wres, wdb, safe>>
        /\ holder' = Free /\ Free.st = "free" /\ Free.cmd.op = "none"
        /\ holder.st = "send" /\ holder.cmd.op # "exit"
        /\ ~latched' => ~latched /\ holder.cmd.op # "append"
    BY <1>7, Fields DEF EnqueueTimeout, LatchOnTimeout, worker, disk
  <2>2. Log' = Log /\ Logged' = Logged
    BY <1>7, NoWrite DEF EnqueueTimeout, worker, disk
  <2>3. /\ OnWay' => OnWay
        /\ ~Stopped' => ~Stopped /\ InHand = {}
        /\ Live' = Live
    BY <2>1 DEF OnWay, HasAppend, Sending, Stopped, InHand, HolderAppends, Live
  <2>4. man # NoManifest
    BY <2>1 DEF Contents
  <2> QED BY <2>1, <2>2, <2>3, <2>4 DEF Contents
<1>8. CASE ReplyTimeout
  BY <1>8, NoWrite, Fields, HolderTypes, Enqueued DEF ControlTypes, Phases, Stages, Waits, Appends,
     Contents, OnWay, HasAppend, Sending, Stopped, InHand, HolderAppends, Live, ReplyTimeout,
     worker, disk
<1>9. CASE AppendDone
  BY <1>9, NoWrite, Fields, HolderTypes, Enqueued DEF ControlTypes, Phases, Stages, Waits, Appends,
     Contents, OnWay, HasAppend, Sending, Stopped, InHand, HolderAppends, Live, AppendDone, worker,
     disk
<1>10. CASE FlushDone
  <2>1. srv = "up" /\ UNCHANGED <<srv, mem, next, acked, man, queue, wpc>> /\ holder' = Free /\ Free.st = "free" /\ Free.cmd.op = "none"
        /\ holder.cmd.op = "flush" /\ (latched => latched')
    BY <1>10, Fields DEF FlushDone, worker, disk
  <2>2. Logged' = Logged
    BY <1>10, NoWrite DEF FlushDone, worker, disk
  <2>3. (OnWay' => OnWay) /\ (~Stopped' => ~Stopped) /\ InHand = {} /\ InHand' = {} /\ Live' = Live
    BY <2>1 DEF OnWay, HasAppend, Sending, Stopped, InHand, HolderAppends, Live
  <2>4. man # NoManifest
    BY <2>1 DEF Contents
  <2> QED BY <2>1, <2>2, <2>3, <2>4 DEF Contents
<1>11. CASE PolicyDone
  BY <1>11, NoWrite, Fields, HolderTypes, Enqueued DEF ControlTypes, Phases, Stages, Waits,
     Appends, Contents, OnWay, HasAppend, Sending, Stopped, InHand, HolderAppends, Live,
     PolicyDone, worker, disk
<1>12. CASE DisableDone
  BY <1>12, NoWrite, Fields, HolderTypes, Enqueued DEF ControlTypes, Phases, Stages, Waits,
     Appends, Contents, OnWay, HasAppend, Sending, Stopped, InHand, HolderAppends, Live,
     DisableDone, worker, disk
<1>13. CASE ExitDone
  BY <1>13, NoWrite, Fields, HolderTypes, Enqueued DEF ControlTypes, Phases, Stages, Waits,
     Appends, Contents, OnWay, HasAppend, Sending, Stopped, InHand, HolderAppends, Live, ExitDone,
     worker, disk
<1>14. CASE WorkerAppend
  <2>1. Received
    BY <1>14 DEF Received, WorkerAppend, FsyncSteps, client
  <2>2. /\ cur'.op = "append" /\ srv = "up" /\ OnWay /\ man # NoManifest /\ man' = man /\ next - 1 \in Units
        /\ Log' = Log \o Record(next - 1) /\ UNCHANGED <<srv, mem, next, acked, safe, latched, holder>> /\ wpc = "idle"
    BY <1>14, AppendStep DEF WorkerAppend, client
  <2>3. next - 1 \in mem
    BY <2>2 DEF Appends, OnWay, HasAppend, Sending
  <2>4. ~OnWay'
    BY <2>1, <2>2, AppendsReceived DEF Appends, OnWay
  <2>5. next - 1 \notin Logged /\ mem \subseteq Logged \union {next - 1} /\ Logged \subseteq mem
    BY <2>2 DEF Contents, Live
  <2>6. Logged' = Logged \union {next - 1}
    <3>1. Good(Log) /\ Ready(Log, wdb)
      BY <2>2 DEF Frames, Live, CanAppend
    <3>2. \A v \in CmdsOf(Log) : v < next - 1
      BY <2>2, LogBelow DEF Live
    <3>3. CmdsOf(Log \o Record(next - 1)) = CmdsOf(Log) \union {next - 1}
      BY <2>2, <3>1, <3>2, RecordAppended
    <3> QED BY <2>2, <3>3 DEF Logged
  <2>7. \A v \in mem : v \in Int
    BY DEF ControlTypes, Units
  <2> QED BY <2>2, <2>3, <2>4, <2>5, <2>6, <2>7 DEF Contents
<1>15. CASE WorkerAppendError
  <2>1. Received
    BY <1>15 DEF Received, WorkerAppendError, client, disk
  <2>2. /\ cur'.op = "append" /\ srv = "up" /\ OnWay /\ man # NoManifest /\ man' = man /\ next - 1 \in Units
        /\ UNCHANGED <<srv, mem, next, acked, safe, latched, holder>> /\ wpc = "idle"
    BY <1>15, AppendErrorStep DEF WorkerAppendError, client
  <2>3. next - 1 \in mem
    BY <2>2 DEF Appends, OnWay, HasAppend, Sending
  <2>4. ~OnWay' /\ (~Stopped' => HolderAppends')
    <3>1. Appends'
      BY <2>1, AppendsReceived
    <3> QED BY <2>2, <3>1 DEF Appends, OnWay, HolderAppends
  <2>5. next - 1 \notin Logged /\ mem \subseteq Logged \union {next - 1} /\ Logged \subseteq mem
    BY <2>2 DEF Contents, Live
  <2>6. Logged \subseteq Logged' /\ Logged' \subseteq Logged \union {next - 1}
    <3>1. Good(Log) /\ Ready(Log, wdb)
      BY <2>2 DEF Frames, Live, CanAppend
    <3>2. \A v \in CmdsOf(Log) : v < next - 1
      BY <2>2, LogBelow DEF Live
    <3>3. CmdsOf(Log) \subseteq CmdsOf(Log') /\ CmdsOf(Log') \subseteq CmdsOf(Log) \union {next - 1}
      <4>1. PICK k \in 0 .. Len(Record(next - 1)) - 1 :
                 \/ Log' = First(Log \o Record(next - 1), Len(Log) + k)
                 \/ Log' = Append(First(Log \o Record(next - 1), Len(Log) + k), Torn)
        BY <1>15, AppendErrorStep
      <4> QED BY <2>2, <3>1, <3>2, <4>1, PartAppended
    <3> QED BY <2>2, <3>3 DEF Logged
  <2>7. \A v \in mem : v \in Int
    BY DEF ControlTypes, Units
  <2> QED BY <2>2, <2>3, <2>4, <2>5, <2>6, <2>7 DEF Contents, InHand
<1>16. CASE WorkerForceFsync
  <2>1. Received
    BY <1>16 DEF Received, WorkerForceFsync, client, disk
  <2>2. Logged' = Logged
    BY <1>16, NoWrite DEF WorkerForceFsync, disk
  <2> QED BY <2>1, <2>2, ContentsReceived
<1>17. CASE WorkerSetPolicy
  <2>1. Received
    BY <1>17 DEF Received, WorkerSetPolicy, client, disk
  <2>2. Logged' = Logged
    BY <1>17, NoWrite DEF WorkerSetPolicy, disk
  <2> QED BY <2>1, <2>2, ContentsReceived
<1>18. CASE WorkerFlush
  <2>1. Logged' = Logged /\ wpc \notin {"none", "idle"}
    BY <1>18, FlushSteps DEF WorkerFlush
  <2> QED BY <1>18, <2>1 DEF Contents, OnWay, HasAppend, Sending, Stopped, InHand, HolderAppends,
             Live, WorkerFlush, client
<1>19. CASE WorkerSync
  <2>1. Logged' = Logged
    BY <1>19, SyncStep
  <2> QED BY <1>19, <2>1 DEF Contents, OnWay, HasAppend, Sending, Stopped, InHand, HolderAppends,
             Live, WorkerSync, client
<1>20. CASE WorkerIoError
  <2>1. Logged' = Logged /\ wpc \notin {"none", "idle"}
    BY <1>20, FlushSteps DEF WorkerIoError
  <2> QED BY <1>20, <2>1 DEF Contents, OnWay, HasAppend, Sending, Stopped, InHand, HolderAppends,
             Live, WorkerIoError, client
<1>21. CASE WorkerReply
  <2>1. /\ wpc = "reply" /\ srv = "up" /\ man # NoManifest /\ UNCHANGED <<srv, mem, next, acked, safe, latched, queue, man>>
    BY <1>21, ReplyStep DEF WorkerReply
  <2>2. /\ holder'.cmd = holder.cmd /\ wpc' = (IF cur.op \in {"disable", "exit"} THEN "none" ELSE "idle")
        /\ (queue = <<>> /\ holder.st = "await") => holder'.st = wres /\ cur = holder.cmd
        /\ ~(queue = <<>> /\ holder.st = "await") => holder' = holder
    BY <1>21, Replied
  <2>3. CASE cur.op \in {"disable", "exit"}
    <3>1. PICK n \in 0 .. Len(Log) : Log' = First(Log, n)
      BY <1>21, ReplyStep
    <3>2. Logged' \subseteq mem /\ \A v \in mem, w \in Logged' : v < w => v \in Logged'
      BY <2>1, <3>1, ShorterLog
    <3>3. ~Live'
      BY <2>2, <2>3 DEF Live
    <3> QED BY <2>1, <3>2, <3>3 DEF Contents
  <2>4. CASE cur.op \notin {"disable", "exit"}
    <3>1. Log' = Log /\ Logged' = Logged
      BY <1>21, <2>1, <2>4, ReplyStep DEF Logged
    <3>2. Stopped' = Stopped /\ (OnWay' => OnWay) /\ Live
      BY <2>1, <2>2 DEF Stopped, OnWay, HasAppend, Sending, Live, ControlTypes
    <3>3. ~Stopped => mem \subseteq Logged \union InHand'
      <4>1. CASE InHand' = InHand
        BY <3>2, <4>1 DEF Contents
      <4>2. CASE InHand' # InHand
        <5>1. queue = <<>> /\ holder.st = "await" /\ holder.cmd.op = "append" /\ holder'.st = wres /\ wres = "ok"
          BY <2>1, <2>2, <4>2 DEF InHand, HolderAppends, ControlTypes
        <5>2. next - 1 \in Committed(Log)
          BY <2>2, <5>1 DEF Frames
        <5>3. next - 1 \in Logged
          BY <2>1, <5>2, LogFacts DEF Logged
        <5> QED BY <3>2, <5>3 DEF Contents, InHand
      <4> QED BY <4>1, <4>2
    <3> QED BY <2>1, <3>1, <3>2, <3>3 DEF Contents
  <2> QED BY <2>3, <2>4
<1>22. CASE MaterializeOpen
  <2>1. Logged' = Logged
    BY <1>22, PrepareStep
  <2> QED BY <1>22, <2>1, Fields DEF Contents, OnWay, HasAppend, Sending, Stopped, InHand,
             HolderAppends, Live, ControlTypes, Phases, Stages, MaterializeOpen, GiveUp, client
<1>23. CASE MaterializeSync
  <2>1. Logged' = Logged
    BY <1>23, PrepareStep
  <2> QED BY <1>23, <2>1, Fields DEF Contents, OnWay, HasAppend, Sending, Stopped, InHand,
             HolderAppends, Live, ControlTypes, Phases, Stages, MaterializeSync, GiveUp, client,
             worker
<1>24. CASE MaterializeError
  BY <1>24, NoWrite, Fields, HolderTypes, Enqueued DEF ControlTypes, Phases, Stages, Waits,
     Appends, Contents, OnWay, HasAppend, Sending, Stopped, InHand, HolderAppends, Live,
     MaterializeError, GiveUp, client, disk
<1>25. CASE CommitManifestSwitch
  <2>1. /\ srv = "up" /\ man # NoManifest /\ man' # NoManifest /\ Logged' = mat.snap /\ mat.pc = "commit"
        /\ UNCHANGED <<srv, mem, next, acked, holder>>
    BY <1>25, CommitStep DEF CommitManifestSwitch
  <2>2. \A v \in mem : v \in Int
    BY DEF ControlTypes, Units
  <2>3. CASE mat.by = "worker"
    <3>1. wpc = "mat" /\ cur.op = "rewrite" /\ mat.snap = cur.snap /\ UNCHANGED <<queue, latched>> /\ Live
      BY <1>25, <2>1, <2>3 DEF Stages, CommitManifestSwitch, Live
    <3>2. SnapOk(cur.snap) /\ (OnWay => next - 1 \notin cur.snap)
      BY <3>1 DEF Snapshots
    <3>3. OnWay' = OnWay /\ Stopped' = Stopped /\ InHand' = InHand
      BY <2>1, <3>1 DEF OnWay, HasAppend, Sending, Stopped, InHand, HolderAppends
    <3> QED BY <2>1, <2>2, <3>1, <3>2, <3>3 DEF Contents, SnapOk, ControlTypes
  <2>4. CASE mat.by # "worker"
    <3>1. mat.by = "enable" /\ mat.snap = mem /\ ~enabled
      BY <2>4 DEF ControlTypes, Stages
    <3>2. holder = Free /\ queue' = <<>> /\ Free.st = "free" /\ Free.cmd.op = "none"
      BY <1>25, <2>1, <2>4, <3>1, Fields DEF Phases, CommitManifestSwitch
    <3>3. ~OnWay'
      BY <2>1, <3>2 DEF OnWay, HasAppend, Sending
    <3> QED BY <2>1, <3>1, <3>3 DEF Contents
  <2> QED BY <2>3, <2>4
<1>26. CASE BootstrapAofLayout
  <2>1. srv = "off" /\ UNCHANGED <<mem, next, acked, safe>> /\ srv' \in {"boot", "refused"} /\ ~Live'
    BY <1>26 DEF BootstrapAofLayout, client, Live
  <2>2. CASE man = NoManifest
    BY <1>26, <2>1, <2>2, BootstrapStep DEF Contents
  <2>3. CASE man # NoManifest
    BY <1>26, <2>1, <2>3, BootstrapStep DEF Contents
  <2> QED BY <2>2, <2>3
<1>27. CASE LoadStartupData
  <2>1. /\ man # NoManifest /\ man' = man /\ mem' = Logged' /\ acked' = acked \intersect mem' /\ UNCHANGED <<next, safe, worker>>
        /\ holder' = Free /\ Free.st = "free" /\ Free.cmd.op = "none" /\ srv = "open"
    BY <1>27, LoadStep, Fields DEF LoadStartupData
  <2>2. PICK n \in 0 .. Len(Log) : Log' = First(Log, n)
    BY <1>27, LoadStep
  <2>3. CmdsOf(First(Log, n)) \subseteq CmdsOf(Log)
    BY <2>1, LogFacts, Beginning
  <2>4. Logged' \subseteq Logged
    BY <2>1, <2>2, <2>3 DEF Logged
  <2>5. Logged \subseteq 1 .. next - 1
    BY <2>1 DEF Contents
  <2>6. queue' = <<>>
    BY <2>1 DEF Phases, worker
  <2>7. ~OnWay'
    BY <2>1, <2>6 DEF OnWay, HasAppend, Sending
  <2> QED BY <2>1, <2>4, <2>5, <2>7 DEF Contents
<1>28. CASE Crash
  <2>1. man # NoManifest /\ man' = man /\ UNCHANGED <<mem, next, acked, safe>> /\ ~Live'
    BY <1>28, CrashStep DEF Crash, Live
  <2>2. PICK n \in 0 .. Len(Log) : CmdsOf(Log') = CmdsOf(First(Log, n))
    BY <1>28, CrashStep
  <2>3. Logged' \subseteq mem /\ \A v \in mem, w \in Logged' : v < w => v \in Logged'
    BY <2>1, <2>2, ShorterLog
  <2> QED BY <2>1, <2>3 DEF Contents
<1>29. ASSUME NEW off \in BOOLEAN, Execute(off) PROVE Contents'
  <2>1. /\ srv = "up" /\ holder = Free /\ Free.cmd.op = "none" /\ Free.st = "free" /\ next \in Units /\ next \in Nat
        /\ UNCHANGED <<srv, acked, safe, queue, wpc, latched, man>> /\ next' = next + 1 /\ mem' = mem \union {next} /\ next' - 1 = next
    BY <1>29, Fields DEF Execute, Unlocked, worker, disk, ControlTypes
  <2>2. Logged' = Logged
    BY <1>29, NoWrite DEF Execute, worker, disk
  <2>3. mem \subseteq 1 .. next - 1 /\ man # NoManifest /\ Logged \subseteq mem /\ (\A v \in mem, w \in Logged : v < w => v \in Logged)
    BY <2>1 DEF Contents
  <2>4. mem' \subseteq 1 .. next' - 1 /\ next \notin Logged /\ (\A v \in mem', w \in Logged : v < w => v \in Logged)
    <3>1. next >= 1
      BY <2>1, UnitAssumption DEF Units
    <3> QED BY <2>1, <2>3, <3>1, OneLater
  <2>5. CASE ~enabled
    <3>1. ~Live'
      BY <2>1, <2>5 DEF Phases, Live
    <3> QED BY <2>1, <2>2, <2>3, <2>4, <3>1 DEF Contents
  <2>6. CASE enabled
    <3>1. ~latched /\ holder'.cmd = AppendCmd(next) /\ holder'.st = "send" /\ AppendCmd(next).op = "append"
      BY <1>29, <2>1, <2>6, Fields, HolderTypes DEF Execute, Admitted
    <3>2. ~Stopped /\ InHand = {} /\ InHand' = {next} /\ Live' = Live
      BY <2>1, <3>1 DEF Stopped, InHand, HolderAppends, Live
    <3>3. Live => mem \subseteq Logged
      BY <3>2 DEF Contents
    <3> QED BY <2>1, <2>2, <2>3, <2>4, <3>2, <3>3 DEF Contents
  <2> QED BY <2>5, <2>6
<1>30. ASSUME NEW p \in Policies, SetAofFsyncPolicy(p) PROVE Contents'
  BY <1>30, NoWrite, Fields, HolderTypes, Enqueued DEF ControlTypes, Phases, Stages, Waits,
     Appends, Contents, OnWay, HasAppend, Sending, Stopped, InHand, HolderAppends, Live,
     SetAofFsyncPolicy, Unlocked, disk
<1>31. ASSUME NEW w \in BOOLEAN, EnableAofFromSnapshot(w) PROVE Contents'
  <2>1. /\ srv = "up" /\ ~enabled /\ UNCHANGED <<srv, acked, safe, wpc, man>> /\ next \in Nat
        /\ (mem' = mem /\ next' = next) \/ (mem' = mem \union {next} /\ next' = next + 1 /\ next >= 1)
    BY <1>31, UnitAssumption DEF Units, EnableAofFromSnapshot, Unlocked, worker, disk, ControlTypes
  <2>2. Logged' = Logged
    BY <1>31, NoWrite DEF EnableAofFromSnapshot, worker, disk
  <2>3. mem \subseteq 1 .. next - 1 /\ man # NoManifest /\ Logged \subseteq mem /\ (\A v \in mem, u \in Logged : v < u => v \in Logged)
    BY <2>1 DEF Contents
  <2>4. mem' \subseteq 1 .. next' - 1 /\ mem \subseteq mem' /\ (\A v \in mem', u \in Logged : v < u => v \in Logged)
    <3>1. CASE mem' = mem /\ next' = next
      BY <2>3, <3>1
    <3>2. CASE mem' = mem \union {next} /\ next' = next + 1 /\ next >= 1
      <4>1. next' - 1 = next
        BY <2>1, <3>2
      <4> QED BY <2>1, <2>3, <3>2, <4>1, OneLater
    <3> QED BY <2>1, <3>1, <3>2
  <2>5. ~Live'
    BY <2>1 DEF Phases, Live
  <2> QED BY <2>1, <2>2, <2>3, <2>4, <2>5 DEF Contents
<1>32. ASSUME NEW p \in Policies, OpenWriter(p) PROVE Contents'
  <2>1. srv = "boot" /\ UNCHANGED <<mem, next, acked, safe>> /\ ~Live'
    BY <1>32 DEF OpenWriter, client, Live
  <2>2. man # NoManifest /\ man' = man /\ Logged' = Logged
    BY <1>32, OpenStep
  <2> QED BY <2>1, <2>2 DEF Contents
<1>33. CASE UNCHANGED vars
  BY <1>33, NoWrite, Fields, HolderTypes, Enqueued DEF ControlTypes, Phases, Stages, Waits,
     Appends, Contents, OnWay, HasAppend, Sending, Stopped, InHand, HolderAppends, Live, vars,
     client, worker, disk, counts
<1> QED BY <1>1, <1>2, <1>3, <1>4, <1>5, <1>6, <1>7, <1>8, <1>9, <1>10, <1>11, <1>12, <1>13, <1>14,
           <1>15, <1>16, <1>17, <1>18, <1>19, <1>20, <1>21, <1>22, <1>23, <1>24, <1>25, <1>26,
           <1>27, <1>28, <1>29, <1>30, <1>31, <1>32, <1>33 DEF Next, ClientStep, HolderStep,
           WorkerStep, StartStep

\* A command that is no append is received.
LEMMA FramesReceived ==
    ASSUME ControlTypes, Phases, Stages, Waits, Frames, Received, Log' = Log, wdb' = wdb, cur'.op # "append"
    PROVE  Frames'
<1>1. UNCHANGED <<srv, latched, holder, man, next>> /\ srv = "up" /\ wpc = "idle" /\ holder.st # "ok"
  BY ReceivedFacts DEF Received
<1>2. HasAppend' => HasAppend
  BY ReceivedFacts DEF HasAppend
<1>3. (CanAppend' => CanAppend) /\ Live
  BY <1>1, <1>2 DEF Sending, Stopped, HolderAppends, OnWay, CanAppend, Live
<1> QED BY <1>1, <1>3 DEF Frames

\* The writes of the BASE are earlier than the one on its way.
LEMMA BaseBelow ==
    ASSUME ControlTypes, Contents, man # NoManifest, Live, OnWay
    PROVE  \A u \in man.base : u < next - 1
<1>1. next - 1 \notin Logged /\ Logged \subseteq mem /\ mem \subseteq 1 .. next - 1 /\ next \in Nat
  BY DEF Contents, ControlTypes
<1>2. \A v \in man.base : v \in Logged
  BY DEF Logged
<1> HIDE DEF Logged
<1>3. \A v \in Logged : v < next - 1
  BY <1>1
<1> QED BY <1>2, <1>3

\* The log stays one that replay accepts.
LEMMA FramesStep ==
    ASSUME TypeOK, ControlTypes, Phases, Stages, Waits, Rewrites, Appends, Contents, Frames, Layout, [Next]_vars
    PROVE  Frames'
<1>1. CASE FlushEverysec
  BY <1>1, NoWrite, Fields, HolderTypes, Enqueued DEF ControlTypes, Phases, Stages, Waits, Appends,
     Frames, CanAppend, OnWay, HasAppend, Sending, Stopped, HolderAppends, Live, FlushEverysec,
     Unlocked, worker, disk
<1>2. CASE StartBgRewriteAof
  BY <1>2, NoWrite, Fields, HolderTypes, Enqueued DEF ControlTypes, Phases, Stages, Waits, Appends,
     Frames, CanAppend, OnWay, HasAppend, Sending, Stopped, HolderAppends, Live, StartBgRewriteAof,
     Unlocked, RewriteInProgress, worker, disk
<1>3. CASE DisableAof
  BY <1>3, NoWrite, Fields, HolderTypes, Enqueued DEF ControlTypes, Phases, Stages, Waits, Appends,
     Frames, CanAppend, OnWay, HasAppend, Sending, Stopped, HolderAppends, Live, DisableAof,
     Unlocked, worker, disk
<1>4. CASE ShutdownAofForExit
  BY <1>4, NoWrite, Fields, HolderTypes, Enqueued DEF ControlTypes, Phases, Stages, Waits, Appends,
     Frames, CanAppend, OnWay, HasAppend, Sending, Stopped, HolderAppends, Live,
     ShutdownAofForExit, Unlocked, worker, disk
<1>5. CASE AbortClientTask
  BY <1>5, NoWrite, Fields, HolderTypes, Enqueued DEF ControlTypes, Phases, Stages, Waits, Appends,
     Frames, CanAppend, OnWay, HasAppend, Sending, Stopped, HolderAppends, Live, AbortClientTask,
     worker, disk
<1>6. CASE Enqueue
  BY <1>6, NoWrite, Fields, HolderTypes, Enqueued DEF ControlTypes, Phases, Stages, Waits, Appends,
     Frames, CanAppend, OnWay, HasAppend, Sending, Stopped, HolderAppends, Live, Enqueue, disk
<1>7. CASE EnqueueTimeout
  <2>1. /\ srv = "up" /\ UNCHANGED <<srv, mem, next, acked, man, queue, wpc, cur, wres, wdb, safe>>
        /\ holder' = Free /\ Free.st = "free" /\ Free.cmd.op = "none"
        /\ holder.st = "send" /\ holder.cmd.op # "exit"
        /\ ~latched' => ~latched /\ holder.cmd.op # "append"
    BY <1>7, Fields DEF EnqueueTimeout, LatchOnTimeout, worker, disk
  <2>2. Log' = Log /\ Logged' = Logged
    BY <1>7, NoWrite DEF EnqueueTimeout, worker, disk
  <2>3. (CanAppend' => CanAppend) /\ Live' = Live
    BY <2>1 DEF CanAppend, OnWay, HasAppend, Sending, Stopped, HolderAppends, Live
  <2> QED BY <2>1, <2>2, <2>3 DEF Frames
<1>8. CASE ReplyTimeout
  BY <1>8, NoWrite, Fields, HolderTypes, Enqueued DEF ControlTypes, Phases, Stages, Waits, Appends,
     Frames, CanAppend, OnWay, HasAppend, Sending, Stopped, HolderAppends, Live, ReplyTimeout,
     worker, disk
<1>9. CASE AppendDone
  BY <1>9, NoWrite, Fields, HolderTypes, Enqueued DEF ControlTypes, Phases, Stages, Waits, Appends,
     Frames, CanAppend, OnWay, HasAppend, Sending, Stopped, HolderAppends, Live, AppendDone,
     worker, disk
<1>10. CASE FlushDone
  <2>1. /\ srv = "up" /\ UNCHANGED <<srv, mem, next, acked, man, queue, wpc, cur, wres, wdb, enabled>>
        /\ holder' = Free /\ Free.st = "free" /\ Free.cmd.op = "none"
        /\ holder.cmd.op = "flush" /\ (~latched' => ~latched)
    BY <1>10, Fields DEF FlushDone, LatchOnTimeout, worker, disk
  <2>2. Log' = Log /\ Logged' = Logged
    BY <1>10, NoWrite DEF FlushDone, worker, disk
  <2>3. (CanAppend' => CanAppend) /\ Live' = Live
    BY <2>1 DEF CanAppend, OnWay, HasAppend, Sending, Stopped, HolderAppends, Live
  <2> QED BY <2>1, <2>2, <2>3 DEF Frames
<1>11. CASE PolicyDone
  BY <1>11, NoWrite, Fields, HolderTypes, Enqueued DEF ControlTypes, Phases, Stages, Waits,
     Appends, Frames, CanAppend, OnWay, HasAppend, Sending, Stopped, HolderAppends, Live,
     PolicyDone, worker, disk
<1>12. CASE DisableDone
  BY <1>12, NoWrite, Fields, HolderTypes, Enqueued DEF ControlTypes, Phases, Stages, Waits,
     Appends, Frames, CanAppend, OnWay, HasAppend, Sending, Stopped, HolderAppends, Live,
     DisableDone, worker, disk
<1>13. CASE ExitDone
  BY <1>13, NoWrite, Fields, HolderTypes, Enqueued DEF ControlTypes, Phases, Stages, Waits,
     Appends, Frames, CanAppend, OnWay, HasAppend, Sending, Stopped, HolderAppends, Live, ExitDone,
     worker, disk
<1>14. CASE WorkerAppend
  <2>1. Received
    BY <1>14 DEF Received, WorkerAppend, FsyncSteps, client
  <2>2. /\ cur'.op = "append" /\ srv = "up" /\ OnWay /\ man # NoManifest /\ man' = man /\ next - 1 \in Units
        /\ Log' = Log \o Record(next - 1) /\ UNCHANGED <<srv, next, holder>> /\ wpc = "idle" /\ wdb' = DbOf[next - 1]
    BY <1>14, AppendStep DEF WorkerAppend, client
  <2>3. holder.st # "ok"
    BY <2>1, ReceivedFacts
  <2>4. Good(Log) /\ Ready(Log, wdb) /\ \A u \in man.base, v \in CmdsOf(Log) : u < v
    BY <2>2 DEF Frames, Live, CanAppend
  <2>5. \A v \in CmdsOf(Log) : v < next - 1
    BY <2>2, LogBelow DEF Live
  <2>6. \A v \in man.base : v < next - 1
    BY <2>2, BaseBelow DEF Live
  <2>7. /\ Good(Log') /\ Ready(Log', wdb') /\ CmdsOf(Log') = CmdsOf(Log) \union {next - 1} /\ next - 1 \in Committed(Log')
    BY <2>2, <2>4, <2>5, RecordAppended
  <2> QED BY <2>2, <2>3, <2>4, <2>6, <2>7 DEF Frames
<1>15. CASE WorkerAppendError
  <2>1. Received
    BY <1>15 DEF Received, WorkerAppendError, client, disk
  <2>2. /\ cur'.op = "append" /\ srv = "up" /\ OnWay /\ man # NoManifest /\ man' = man /\ next - 1 \in Units
        /\ UNCHANGED <<srv, next, holder>> /\ wpc = "idle" /\ wres' = "err"
    BY <1>15, AppendErrorStep DEF WorkerAppendError, client
  <2>3. holder.st # "ok"
    BY <2>1, ReceivedFacts
  <2>4. Good(Log) /\ Ready(Log, wdb) /\ \A u \in man.base, v \in CmdsOf(Log) : u < v
    BY <2>2 DEF Frames, Live, CanAppend
  <2>5. \A v \in CmdsOf(Log) : v < next - 1
    BY <2>2, LogBelow DEF Live
  <2>6. \A v \in man.base : v < next - 1
    BY <2>2, BaseBelow DEF Live
  <2>7. Good(Log') /\ CmdsOf(Log') \subseteq CmdsOf(Log) \union {next - 1}
    <3>1. PICK k \in 0 .. Len(Record(next - 1)) - 1 :
                 \/ Log' = First(Log \o Record(next - 1), Len(Log) + k)
                 \/ Log' = Append(First(Log \o Record(next - 1), Len(Log) + k), Torn)
      BY <1>15, AppendErrorStep
    <3>2. Good(Log) /\ Ready(Log, wdb) /\ next - 1 \in Units
      BY <2>2, <2>4
    <3>3. Good(Log')
      BY <2>5, <3>1, <3>2, PartAppended
    <3>4. CmdsOf(Log') \subseteq CmdsOf(Log) \union {next - 1}
      BY <2>5, <3>1, <3>2, PartAppended
    <3> QED BY <3>3, <3>4
  <2>8. ~CanAppend'
    <3>1. Appends'
      BY <2>1, AppendsReceived
    <3> QED BY <2>2, <3>1 DEF Appends, CanAppend, OnWay, HolderAppends
  <2> QED BY <2>2, <2>3, <2>4, <2>6, <2>7, <2>8 DEF Frames
<1>16. CASE WorkerForceFsync
  <2>1. Received
    BY <1>16 DEF Received, WorkerForceFsync, client, disk
  <2>2. Log' = Log /\ wdb' = wdb /\ cur'.op # "append"
    BY <1>16, NoWrite DEF WorkerForceFsync, disk
  <2> QED BY <2>1, <2>2, FramesReceived
<1>17. CASE WorkerSetPolicy
  <2>1. Received
    BY <1>17 DEF Received, WorkerSetPolicy, client, disk
  <2>2. Log' = Log /\ wdb' = wdb /\ cur'.op # "append"
    BY <1>17, NoWrite DEF WorkerSetPolicy, disk
  <2> QED BY <2>1, <2>2, FramesReceived
<1>18. CASE WorkerFlush
  <2>1. Log' = Log /\ man # NoManifest /\ man' = man /\ wpc \notin {"none", "idle"}
    BY <1>18, FlushSteps DEF WorkerFlush, Wrote
  <2> QED BY <1>18, <2>1 DEF Frames, CanAppend, OnWay, HasAppend, Sending, Stopped, HolderAppends,
             Live, WorkerFlush, client
<1>19. CASE WorkerSync
  <2>1. Log' = Log /\ man' = man
    BY <1>19, SyncStep
  <2> QED BY <1>19, <2>1 DEF Frames, CanAppend, OnWay, HasAppend, Sending, Stopped, HolderAppends,
             Live, WorkerSync, client
<1>20. CASE WorkerIoError
  <2>1. Log' = Log /\ man # NoManifest /\ man' = man /\ wpc \notin {"none", "idle"}
    BY <1>20, FlushSteps DEF WorkerIoError, Wrote
  <2> QED BY <1>20, <2>1 DEF Frames, CanAppend, OnWay, HasAppend, Sending, Stopped, HolderAppends,
             Live, WorkerIoError, client
<1>21. CASE WorkerReply
  <2>1. /\ wpc = "reply" /\ srv = "up" /\ man # NoManifest /\ UNCHANGED <<srv, next, latched, queue, man, wdb>>
        /\ Good(Log) /\ \A u \in man.base, v \in CmdsOf(Log) : u < v
    BY <1>21, ReplyStep DEF WorkerReply, Frames
  <2>2. /\ holder'.cmd = holder.cmd /\ wpc' = (IF cur.op \in {"disable", "exit"} THEN "none" ELSE "idle") /\ cur' = NoCmd
        /\ (queue = <<>> /\ holder.st = "await") => holder'.st = wres /\ cur = holder.cmd
        /\ ~(queue = <<>> /\ holder.st = "await") => holder' = holder
    BY <1>21, Replied
  <2>3. NoCmd.op = "none" /\ holder.st # "ok" /\ Live
    BY <2>1, Fields DEF Waits, Live
  <2>4. CASE cur.op \in {"disable", "exit"}
    <3>1. PICK n \in 0 .. Len(Log) : Log' = First(Log, n)
      BY <1>21, ReplyStep
    <3>2. Good(Log') /\ CmdsOf(Log') \subseteq CmdsOf(Log)
      BY <2>1, <3>1, Beginning DEF Good
    <3>3. ~Live'
      BY <2>2, <2>4 DEF Live
    <3>4. ~(holder'.st = "ok" /\ holder'.cmd.op = "append")
      BY <2>2, <2>3, <2>4
    <3> QED BY <2>1, <2>2, <2>3, <3>2, <3>3, <3>4 DEF Frames
  <2>5. CASE cur.op \notin {"disable", "exit"}
    <3>1. Log' = Log
      BY <1>21, <2>5, ReplyStep
    <3>2. (holder'.st = "ok" /\ holder'.cmd.op = "append") => next - 1 \in Committed(Log) /\ Ready(Log, wdb)
      BY <2>1, <2>2, <2>3 DEF Frames
    <3>3. CanAppend' => CanAppend \/ Ready(Log, wdb)
      <4>1. CASE holder' = holder
        BY <2>1, <4>1 DEF CanAppend, OnWay, HasAppend, Sending, Stopped, HolderAppends
      <4>2. CASE holder' # holder
        <5>1. holder.st = "await" /\ holder'.st = wres /\ wres \in {"ok", "err"} /\ cur = holder.cmd
          BY <2>2, <4>2 DEF ControlTypes
        <5>2. Stopped' = Stopped /\ (OnWay' => OnWay)
          BY <2>1, <2>2, <5>1 DEF OnWay, HasAppend, Sending, Stopped
        <5>3. (HolderAppends /\ ~HolderAppends') => Ready(Log, wdb)
          BY <2>2, <3>2, <5>1 DEF HolderAppends
        <5> QED BY <5>2, <5>3 DEF CanAppend
      <4> QED BY <4>1, <4>2
    <3> QED BY <2>1, <2>2, <2>3, <3>1, <3>2, <3>3 DEF Frames
  <2> QED BY <2>4, <2>5
<1>22. CASE MaterializeOpen
  <2>1. Log' = Log /\ man' = man
    BY <1>22, PrepareStep
  <2> QED BY <1>22, <2>1, Fields DEF Frames, CanAppend, OnWay, HasAppend, Sending, Stopped,
             HolderAppends, Live, ControlTypes, Phases, Stages, MaterializeOpen, GiveUp, client
<1>23. CASE MaterializeSync
  <2>1. Log' = Log /\ man' = man
    BY <1>23, PrepareStep
  <2> QED BY <1>23, <2>1, Fields DEF Frames, CanAppend, OnWay, HasAppend, Sending, Stopped,
             HolderAppends, Live, ControlTypes, Phases, Stages, MaterializeSync, GiveUp, client,
             worker
<1>24. CASE MaterializeError
  BY <1>24, NoWrite, Fields, HolderTypes, Enqueued DEF ControlTypes, Phases, Stages, Waits,
     Appends, Frames, CanAppend, OnWay, HasAppend, Sending, Stopped, HolderAppends, Live,
     MaterializeError, GiveUp, client, disk
<1>25. CASE CommitManifestSwitch
  <2>1. /\ Log' = <<Header>> /\ wdb' = NoDb /\ mat.pc = "commit" /\ UNCHANGED <<cur, holder>> /\ srv = "up"
    BY <1>25, CommitStep DEF CommitManifestSwitch
  <2>2. Good(<<Header>>) /\ CmdsOf(<<Header>>) = {} /\ Ready(<<Header>>, NoDb)
    BY FreshLog
  <2>3. cur.op # "append" /\ holder.st # "ok"
    <3>1. CASE mat.by = "worker"
      BY <2>1, <3>1 DEF Stages, Waits
    <3>2. CASE mat.by = "enable"
      BY <2>1, <3>2, Fields DEF Stages, Phases
    <3> QED BY <3>1, <3>2 DEF ControlTypes
  <2> HIDE DEF Log
  <2> QED BY <2>1, <2>2, <2>3 DEF Frames
<1>26. CASE BootstrapAofLayout
  <2>1. srv = "off" /\ srv' \in {"boot", "refused"} /\ ~Live' /\ UNCHANGED <<holder, cur>>
    BY <1>26 DEF BootstrapAofLayout, client, worker, Live
  <2>2. cur.op # "append" /\ holder.st # "ok"
    BY <2>1, Fields DEF Phases, Stages
  <2>3. CASE man = NoManifest
    <3>1. Log' = <<>> /\ man'.base = {}
      BY <1>26, <2>3, BootstrapStep
    <3> QED BY <2>1, <2>2, <3>1, FreshLog DEF Frames
  <2>4. CASE man # NoManifest
    <3>1. Log' = Log /\ man' = man
      BY <1>26, <2>4, BootstrapStep
    <3> QED BY <2>1, <2>2, <2>4, <3>1 DEF Frames
  <2> QED BY <2>3, <2>4
<1>27. CASE LoadStartupData
  <2>1. /\ man # NoManifest /\ man' = man /\ Good(Log') /\ Ready(Log', NoDb) /\ srv = "open"
        /\ holder' = Free /\ Free.st = "free" /\ UNCHANGED <<cur, wdb>>
    BY <1>27, LoadStep, Fields DEF LoadStartupData, worker
  <2>2. PICK n \in 0 .. Len(Log) : Log' = First(Log, n)
    BY <1>27, LoadStep
  <2>3. CmdsOf(Log') \subseteq CmdsOf(Log)
    BY <2>1, <2>2, LogFacts, Beginning
  <2>4. wdb = NoDb /\ cur.op # "append"
    BY <2>1, Fields DEF Phases, Stages
  <2> QED BY <2>1, <2>3, <2>4 DEF Frames
<1>28. CASE Crash
  <2>1. man # NoManifest /\ man' = man /\ ~Live' /\ cur' = NoCmd /\ holder' = Free /\ Good(Log')
    BY <1>28, CrashStep DEF Crash, Live
  <2>2. PICK n \in 0 .. Len(Log) : CmdsOf(Log') = CmdsOf(First(Log, n))
    BY <1>28, CrashStep
  <2>3. CmdsOf(Log') \subseteq CmdsOf(Log)
    BY <2>1, <2>2, LogFacts, Beginning
  <2> QED BY <2>1, <2>3, Fields DEF Frames
<1>29. ASSUME NEW off \in BOOLEAN, Execute(off) PROVE Frames'
  <2>1. /\ srv = "up" /\ holder = Free /\ Free.cmd.op = "none" /\ Free.st = "free" /\ next \in Units
        /\ UNCHANGED <<srv, queue, wpc, cur, latched, man, wdb>>
    BY <1>29, Fields DEF Execute, Unlocked, worker, disk
  <2>2. Log' = Log
    BY <1>29, NoWrite DEF Execute, worker, disk
  <2>3. CASE ~enabled
    <3>1. ~Live' /\ cur.op # "append" /\ holder'.st = "free"
      BY <1>29, <2>1, <2>3, Fields DEF Phases, Stages, Live, Execute
    <3> QED BY <2>1, <2>2, <3>1 DEF Frames
  <2>4. CASE enabled
    <3>1. ~latched /\ holder'.st = "send"
      BY <1>29, <2>1, <2>4, Fields, HolderTypes DEF Execute, Admitted
    <3>2. ~Stopped /\ CanAppend /\ Live' = Live
      BY <2>1, <3>1 DEF Stopped, CanAppend, HolderAppends, Live
    <3>3. cur.op # "append"
      BY <2>1, <3>2 DEF Appends
    <3> QED BY <2>1, <2>2, <3>1, <3>2, <3>3 DEF Frames
  <2> QED BY <2>3, <2>4
<1>30. ASSUME NEW p \in Policies, SetAofFsyncPolicy(p) PROVE Frames'
  BY <1>30, NoWrite, Fields, HolderTypes, Enqueued DEF ControlTypes, Phases, Stages, Waits,
     Appends, Frames, CanAppend, OnWay, HasAppend, Sending, Stopped, HolderAppends, Live,
     SetAofFsyncPolicy, Unlocked, disk
<1>31. ASSUME NEW w \in BOOLEAN, EnableAofFromSnapshot(w) PROVE Frames'
  BY <1>31, NoWrite, Fields, HolderTypes, Enqueued DEF ControlTypes, Phases, Stages, Waits,
     Appends, Frames, CanAppend, OnWay, HasAppend, Sending, Stopped, HolderAppends, Live,
     EnableAofFromSnapshot, Unlocked, worker, disk
<1>32. ASSUME NEW p \in Policies, OpenWriter(p) PROVE Frames'
  <2>1. srv = "boot" /\ ~Live' /\ UNCHANGED holder
    BY <1>32 DEF OpenWriter, client, Live
  <2>2. cur'.op # "append" /\ holder.st # "ok"
    BY <1>32, <2>1, Fields DEF Phases, Stages, OpenWriter, worker
  <2>3. man # NoManifest /\ man' = man /\ Good(Log') /\ CmdsOf(Log') = CmdsOf(Log)
    BY <1>32, OpenStep
  <2> QED BY <2>1, <2>2, <2>3 DEF Frames
<1>33. CASE UNCHANGED vars
  BY <1>33, NoWrite, Fields, HolderTypes, Enqueued DEF ControlTypes, Phases, Stages, Waits,
     Appends, Frames, CanAppend, OnWay, HasAppend, Sending, Stopped, HolderAppends, Live, vars,
     client, worker, disk, counts
<1> QED BY <1>1, <1>2, <1>3, <1>4, <1>5, <1>6, <1>7, <1>8, <1>9, <1>10, <1>11, <1>12, <1>13, <1>14,
           <1>15, <1>16, <1>17, <1>18, <1>19, <1>20, <1>21, <1>22, <1>23, <1>24, <1>25, <1>26,
           <1>27, <1>28, <1>29, <1>30, <1>31, <1>32, <1>33 DEF Next, ClientStep, HolderStep,
           WorkerStep, StartStep

\* Nothing is promised while no file was synced.
LEMMA NothingOnDisk ==
    ASSUME TypeOK, Layout, Frames, Promises, man # NoManifest, ~(synced[man.incr] >= 1)
    PROVE  safe = {}
<1>1. synced[man.incr] = 0 /\ os[man.incr] \in Seq(FrameSet)
  <2>1. synced[man.incr] \in 0 .. Len(os[man.incr]) /\ os[man.incr] \in Seq(FrameSet)
    BY LogFacts
  <2> QED BY <2>1
<1>2. man.base = {}
  BY DEF Layout
<1>3. OnDisk = <<>>
  BY <1>1 DEF OnDisk, First
<1> QED BY <1>2, <1>3, FreshLog DEF Promises

\* What is promised stays on disk.
LEMMA PromisesStep ==
    ASSUME TypeOK, ControlTypes, Phases, Stages, Waits, Rewrites, Appends, Snapshots, Contents, Frames, Promises, Layout, [Next]_vars
    PROVE  Promises'
<1>1. CASE FlushEverysec
  BY <1>1, NoWrite, Fields, HolderTypes DEF ControlTypes, Phases, Stages, Waits, Promises, Forced,
     FlushEverysec, Unlocked, worker, disk
<1>2. CASE StartBgRewriteAof
  BY <1>2, NoWrite, Fields, HolderTypes DEF ControlTypes, Phases, Stages, Waits, Promises, Forced,
     StartBgRewriteAof, Unlocked, RewriteInProgress, worker, disk
<1>3. CASE DisableAof
  BY <1>3, NoWrite, Fields, HolderTypes DEF ControlTypes, Phases, Stages, Waits, Promises, Forced,
     DisableAof, Unlocked, worker, disk
<1>4. CASE ShutdownAofForExit
  BY <1>4, NoWrite, Fields, HolderTypes DEF ControlTypes, Phases, Stages, Waits, Promises, Forced,
     ShutdownAofForExit, Unlocked, worker, disk
<1>5. CASE AbortClientTask
  BY <1>5, NoWrite, Fields, HolderTypes DEF ControlTypes, Phases, Stages, Waits, Promises, Forced,
     AbortClientTask, worker, disk
<1>6. CASE Enqueue
  BY <1>6, NoWrite, Fields, HolderTypes DEF ControlTypes, Phases, Stages, Waits, Promises, Forced,
     Enqueue, disk
<1>7. CASE EnqueueTimeout
  BY <1>7, NoWrite, Fields, HolderTypes DEF ControlTypes, Phases, Stages, Waits, Promises, Forced,
     EnqueueTimeout, LatchOnTimeout, worker, disk
<1>8. CASE ReplyTimeout
  BY <1>8, NoWrite, Fields, HolderTypes DEF ControlTypes, Phases, Stages, Waits, Promises, Forced,
     ReplyTimeout, worker, disk
<1>9. CASE AppendDone
  <2>1. /\ srv = "up" /\ UNCHANGED <<man, wpc, wres, cur, policy>> /\ holder.st \in {"ok", "err"}
        /\ Log' = Log /\ OnDisk' = OnDisk /\ AllSynced' = AllSynced
    BY <1>9, NoWrite DEF AppendDone, worker, disk
  <2>2. wpc \in {"none", "idle"} /\ man # NoManifest /\ holder'.st # "ok"
    BY <1>9, <2>1, Fields DEF Waits, Contents, AppendDone
  <2>3. holder.st = "ok" => acked \subseteq man.base \union Committed(Log)
    BY <2>1 DEF Promises
  <2>4. AllSynced => OnDisk = Log
    BY <2>2, LogFacts
  <2>5. wpc = "idle"
    BY <1>9, <2>1 DEF AppendDone, Waits
  <2>6. holder.st = "ok" => holder.cmd.u \in Committed(Log) /\ (policy = "always" => AllSynced)
    BY <1>9 DEF AppendDone, Appends, Frames, Promises, Forced
  <2>7. CASE holder.st = "ok"
    <3>1. acked' = acked \union {holder.cmd.u} /\ safe' = (IF policy = "always" THEN safe \union {holder.cmd.u} ELSE safe) /\ srv' = srv
      BY <1>9, <2>7 DEF AppendDone
    <3> QED BY <2>1, <2>2, <2>3, <2>4, <2>5, <2>6, <2>7, <3>1 DEF Promises
  <2>8. CASE holder.st # "ok"
    <3>1. acked' = acked /\ safe' = safe /\ srv' = srv
      BY <1>9, <2>8 DEF AppendDone
    <3> QED BY <2>1, <2>2, <2>5, <2>8, <3>1 DEF Promises
  <2> QED BY <2>7, <2>8
<1>10. CASE FlushDone
  <2>1. /\ srv = "up" /\ UNCHANGED <<man, wpc, wres, cur, policy>> /\ holder.st \in {"ok", "err"}
        /\ Log' = Log /\ OnDisk' = OnDisk /\ AllSynced' = AllSynced
    BY <1>10, NoWrite DEF FlushDone, worker, disk
  <2>2. wpc \in {"none", "idle"} /\ man # NoManifest /\ holder'.st # "ok"
    BY <1>10, <2>1, Fields DEF Waits, Contents, FlushDone
  <2>3. holder.st = "ok" => acked \subseteq man.base \union Committed(Log)
    BY <2>1 DEF Promises
  <2>4. AllSynced => OnDisk = Log
    BY <2>2, LogFacts
  <2>5. wpc = "idle" /\ UNCHANGED <<acked, srv>>
    BY <1>10, <2>1 DEF FlushDone, Waits
  <2>6. holder.st = "ok" => AllSynced
    BY <1>10 DEF FlushDone, Promises, Forced
  <2>7. safe' = (IF holder.st = "ok" THEN safe \union acked ELSE safe)
    BY <1>10 DEF FlushDone
  <2> QED BY <2>1, <2>2, <2>3, <2>4, <2>5, <2>6, <2>7 DEF Promises
<1>11. CASE PolicyDone
  BY <1>11, NoWrite, Fields, HolderTypes DEF ControlTypes, Phases, Stages, Waits, Promises, Forced,
     PolicyDone, worker, disk
<1>12. CASE DisableDone
  <2>1. /\ srv = "up" /\ UNCHANGED <<man, wpc, wres, cur, policy>> /\ holder.st \in {"ok", "err"}
        /\ Log' = Log /\ OnDisk' = OnDisk /\ AllSynced' = AllSynced
    BY <1>12, NoWrite DEF DisableDone, worker, disk
  <2>2. wpc \in {"none", "idle"} /\ man # NoManifest /\ holder'.st # "ok"
    BY <1>12, <2>1, Fields DEF Waits, Contents, DisableDone
  <2>3. holder.st = "ok" => acked \subseteq man.base \union Committed(Log)
    BY <2>1 DEF Promises
  <2>4. AllSynced => OnDisk = Log
    BY <2>2, LogFacts
  <2>5. wpc = "none" /\ UNCHANGED <<acked, srv>>
    BY <1>12, <2>1 DEF DisableDone, Waits
  <2>6. holder.st = "ok" => AllSynced
    BY <1>12 DEF DisableDone, Promises, Forced
  <2>7. safe' = (IF holder.st = "ok" THEN safe \union acked ELSE safe)
    BY <1>12 DEF DisableDone
  <2> QED BY <2>1, <2>2, <2>3, <2>4, <2>5, <2>6, <2>7 DEF Promises
<1>13. CASE ExitDone
  <2>1. /\ srv = "up" /\ UNCHANGED <<man, wpc>> /\ Log' = Log /\ OnDisk' = OnDisk /\ srv' = "off" /\ holder' = Free
    BY <1>13, NoWrite DEF ExitDone, worker, disk
  <2>2. wpc = "none" /\ man # NoManifest /\ holder'.st # "ok"
    BY <1>13, <2>1, Fields DEF Waits, Contents, ExitDone
  <2>3. holder.st = "ok" => acked \subseteq man.base \union Committed(Log)
    BY <2>1 DEF Promises
  <2>4. AllSynced => OnDisk = Log
    BY <2>2, LogFacts
  <2>6. holder.st = "ok" => AllSynced
    BY <1>13 DEF ExitDone, Promises, Forced
  <2>7. safe' = (IF holder.st = "ok" THEN safe \union acked ELSE safe)
    BY <1>13 DEF ExitDone
  <2> QED BY <2>1, <2>2, <2>3, <2>4, <2>6, <2>7 DEF Promises
<1>14. CASE WorkerAppend
  <2>1. Received
    BY <1>14 DEF Received, WorkerAppend, FsyncSteps, client
  <2>2. /\ cur'.op = "append" /\ srv = "up" /\ OnWay /\ man # NoManifest /\ man' = man /\ next - 1 \in Units
        /\ Log' = Log \o Record(next - 1) /\ UNCHANGED <<srv, acked, safe, holder, policy>> /\ wpc = "idle"
    BY <1>14, AppendStep DEF WorkerAppend, client
  <2>3. holder.st # "ok"
    BY <2>1, ReceivedFacts
  <2>4. Good(Log) /\ Ready(Log, wdb)
    BY <2>2 DEF Frames, Live, CanAppend
  <2>5. \A v \in CmdsOf(Log) : v < next - 1
    BY <2>2, LogBelow DEF Live
  <2>6. Committed(Log) \subseteq Committed(Log')
    BY <2>2, <2>4, <2>5, RecordAppended
  <2>7. OnDisk' = OnDisk
    BY <1>14, AppendStep, WroteLog
  <2>8. wpc' = "reply" => policy # "always"
    BY <1>14 DEF WorkerAppend, FsyncSteps
  <2> QED BY <2>2, <2>3, <2>6, <2>7, <2>8 DEF Promises, Forced
<1>15. CASE WorkerAppendError
  <2>1. Received
    BY <1>15 DEF Received, WorkerAppendError, client, disk
  <2>2. /\ srv = "up" /\ OnWay /\ man # NoManifest /\ man' = man /\ next - 1 \in Units /\ UNCHANGED <<os, synced>>
        /\ UNCHANGED <<srv, acked, safe, holder>> /\ wpc = "idle" /\ wres' = "err"
    BY <1>15, AppendErrorStep DEF WorkerAppendError, client
  <2>3. holder.st # "ok"
    BY <2>1, ReceivedFacts
  <2>4. Good(Log) /\ Ready(Log, wdb)
    BY <2>2 DEF Frames, Live, CanAppend
  <2>5. \A v \in CmdsOf(Log) : v < next - 1
    BY <2>2, LogBelow DEF Live
  <2>6. Committed(Log) \subseteq Committed(Log')
    <3>1. PICK k \in 0 .. Len(Record(next - 1)) - 1 :
                 \/ Log' = First(Log \o Record(next - 1), Len(Log) + k)
                 \/ Log' = Append(First(Log \o Record(next - 1), Len(Log) + k), Torn)
      BY <1>15, AppendErrorStep
    <3> QED BY <2>2, <2>4, <2>5, <3>1, PartAppended
  <2>7. OnDisk' = OnDisk
    BY <2>2 DEF OnDisk
  <2> QED BY <2>2, <2>3, <2>6, <2>7 DEF Promises
<1>16. CASE WorkerForceFsync
  <2>1. Received
    BY <1>16 DEF Received, WorkerForceFsync, client, disk
  <2>2. Log' = Log /\ OnDisk' = OnDisk /\ UNCHANGED <<safe, acked, man, srv, holder>> /\ wpc = "idle"
    BY <1>16, NoWrite DEF WorkerForceFsync, client, disk
  <2>3. holder.st # "ok" /\ srv = "up"
    BY <2>1, ReceivedFacts
  <2>4. wpc' = "reply" => cur'.op = "policy"
    BY <1>16 DEF WorkerForceFsync
  <2> QED BY <2>2, <2>3, <2>4 DEF Promises, Forced
<1>17. CASE WorkerSetPolicy
  <2>1. Received
    BY <1>17 DEF Received, WorkerSetPolicy, client, disk
  <2>2. Log' = Log /\ OnDisk' = OnDisk /\ UNCHANGED <<safe, acked, man, srv, holder>> /\ wpc = "idle"
    BY <1>17, NoWrite DEF WorkerSetPolicy, client, disk
  <2>3. holder.st # "ok" /\ srv = "up"
    BY <2>1, ReceivedFacts
  <2>4. wpc' = "reply" => cur'.op = "policy"
    BY <1>17 DEF WorkerSetPolicy
  <2> QED BY <2>2, <2>3, <2>4 DEF Promises, Forced
<1>18. CASE WorkerFlush
  <2>1. Log' = Log /\ man # NoManifest /\ man' = man /\ wpc \notin {"none", "idle"}
    BY <1>18, FlushSteps DEF WorkerFlush, Wrote
  <2>2. OnDisk' = OnDisk
    BY <1>18, FlushSteps, WroteLog
  <2>3. UNCHANGED <<safe, acked, srv, holder, cur, policy>> /\ holder.st # "ok"
    BY <1>18, <2>1 DEF WorkerFlush, client, Waits
  <2>4. wpc' = "reply" => ~Forced(cur)'
    BY <1>18, <2>3 DEF WorkerFlush, Stages, Forced
  <2> QED BY <2>1, <2>2, <2>3, <2>4 DEF Promises
<1>19. CASE WorkerSync
  <2>1. Log' = Log /\ man # NoManifest /\ man' = man /\ AllSynced' /\ OnDisk' = Log /\ wpc = "sync"
    BY <1>19, SyncStep DEF WorkerSync
  <2>2. UNCHANGED <<safe, acked, srv, holder>>
    BY <1>19 DEF WorkerSync, client
  <2>3. Committed(OnDisk) \subseteq Committed(Log)
    BY <2>1, LogFacts
  <2> QED BY <2>1, <2>2, <2>3 DEF Promises
<1>20. CASE WorkerIoError
  <2>1. Log' = Log /\ man # NoManifest /\ man' = man /\ wpc \notin {"none", "idle"}
    BY <1>20, FlushSteps DEF WorkerIoError, Wrote
  <2>2. OnDisk' = OnDisk
    BY <1>20, FlushSteps, WroteLog
  <2>3. UNCHANGED <<safe, acked, srv, holder>> /\ holder.st # "ok" /\ wres' = "err"
    BY <1>20, <2>1 DEF WorkerIoError, client, Waits
  <2> QED BY <2>1, <2>2, <2>3 DEF Promises
<1>21. CASE WorkerReply
  <2>1. /\ wpc = "reply" /\ srv = "up" /\ man # NoManifest /\ UNCHANGED <<srv, acked, safe, policy, man, synced>> /\ OnDisk' = OnDisk
    BY <1>21, ReplyStep DEF WorkerReply
  <2>2. /\ holder'.cmd = holder.cmd /\ wpc' = (IF cur.op \in {"disable", "exit"} THEN "none" ELSE "idle")
        /\ (queue = <<>> /\ holder.st = "await") => holder'.st = wres /\ cur = holder.cmd
        /\ ~(queue = <<>> /\ holder.st = "await") => holder' = holder
    BY <1>21, Replied
  <2>3. holder.st # "ok" /\ acked \subseteq man.base \union Committed(Log)
    BY <2>1 DEF Waits, Promises
  <2>4. (holder'.st = "ok" /\ Forced(cur)) => AllSynced
    BY <2>1, <2>2, <2>3 DEF Promises
  <2>5. (cur.op \notin {"disable", "exit"} \/ buf = <<>>) => UNCHANGED <<os, buf>> /\ Log' = Log
    BY <1>21, ReplyStep
  <2>6. CASE cur.op \notin {"disable", "exit"} \/ (holder'.st = "ok" /\ Forced(cur))
    <3>1. UNCHANGED <<os, buf>> /\ Log' = Log
      BY <2>4, <2>5, <2>6 DEF AllSynced
    <3>2. AllSynced' = AllSynced
      BY <2>1, <3>1 DEF AllSynced
    <3>3. holder'.st = "ok" => holder'.cmd = cur
      BY <2>2, <2>3
    <3>4. (Forced(holder.cmd)' <=> Forced(holder'.cmd)) /\ (holder'.cmd = cur => (Forced(holder'.cmd) <=> Forced(cur)))
      BY <2>1 DEF Forced
    <3> QED BY <2>1, <2>2, <2>3, <2>4, <3>1, <3>2, <3>3, <3>4 DEF Promises
  <2>7. CASE cur.op \in {"disable", "exit"} /\ holder'.st # "ok"
    BY <2>1, <2>2, <2>7 DEF Promises
  <2>8. cur.op \in {"disable", "exit"} => Forced(cur)
    BY DEF Forced
  <2> QED BY <2>6, <2>7, <2>8
<1>22. CASE MaterializeOpen
  <2>1. Log' = Log /\ man' = man /\ OnDisk' = OnDisk /\ AllSynced' = AllSynced
    BY <1>22, PrepareStep
  <2>2. UNCHANGED <<safe, acked, srv, holder, cur, policy>> /\ (UNCHANGED <<wpc, wres>> \/ (wres' = "err" /\ wpc = "mat"))
    BY <1>22 DEF MaterializeOpen, GiveUp, client, Stages
  <2> QED BY <2>1, <2>2 DEF Promises, Forced
<1>23. CASE MaterializeSync
  <2>1. Log' = Log /\ man' = man /\ OnDisk' = OnDisk /\ AllSynced' = AllSynced
    BY <1>23, PrepareStep
  <2>2. UNCHANGED <<safe, acked, srv, holder, cur, policy>> /\ (UNCHANGED <<wpc, wres>> \/ (wres' = "err" /\ wpc = "mat"))
    BY <1>23 DEF MaterializeSync, GiveUp, client, worker, Stages
  <2> QED BY <2>1, <2>2 DEF Promises, Forced
<1>24. CASE MaterializeError
  <2>1. Log' = Log /\ man' = man /\ OnDisk' = OnDisk /\ AllSynced' = AllSynced
    BY <1>24, NoWrite DEF MaterializeError, disk
  <2>2. UNCHANGED <<safe, acked, srv, holder, cur, policy>> /\ (UNCHANGED <<wpc, wres>> \/ (wres' = "err" /\ wpc = "mat"))
    BY <1>24 DEF MaterializeError, GiveUp, client, Stages
  <2> QED BY <2>1, <2>2 DEF Promises, Forced
<1>25. CASE CommitManifestSwitch
  <2>1. /\ man # NoManifest /\ man'.base = mat.snap /\ mat.pc = "commit" /\ UNCHANGED <<acked, cur, holder, srv>> /\ srv = "up"
    BY <1>25, CommitStep DEF CommitManifestSwitch
  <2>2. CASE mat.by = "worker"
    <3>1. wpc = "mat" /\ cur.op = "rewrite" /\ mat.snap = cur.snap /\ safe' = safe /\ wpc' = "reply"
      BY <1>25, <2>1, <2>2 DEF Stages, CommitManifestSwitch
    <3>2. SnapOk(cur.snap)
      BY <3>1 DEF Snapshots
    <3>3. holder.st # "ok"
      BY <3>1 DEF Waits
    <3> QED BY <2>1, <3>1, <3>2, <3>3 DEF Promises, SnapOk, Forced
  <2>3. CASE mat.by # "worker"
    <3>1. mat.by = "enable" /\ mat.snap = mem /\ ~enabled /\ safe' = safe \union mat.snap /\ wpc' = "idle"
      BY <1>25, <2>3 DEF ControlTypes, Stages, CommitManifestSwitch
    <3>2. holder.st # "ok"
      BY <2>1, <3>1, Fields DEF Phases
    <3>3. safe \subseteq mem /\ acked \subseteq mem
      BY SafeInMem DEF Contents
    <3> QED BY <2>1, <3>1, <3>2, <3>3 DEF Promises
  <2> QED BY <2>2, <2>3
<1>26. CASE BootstrapAofLayout
  <2>1. srv = "off" /\ srv' \in {"boot", "refused"} /\ UNCHANGED <<holder, wpc, safe, acked>> /\ wpc = "none" /\ holder.st # "ok"
    BY <1>26, Fields DEF BootstrapAofLayout, client, worker, Phases
  <2>2. CASE man = NoManifest
    <3>1. safe = {}
      BY <2>2 DEF Contents
    <3> QED BY <2>1, <3>1 DEF Promises
  <2>3. CASE man # NoManifest
    <3>1. OnDisk' = OnDisk /\ man' = man
      BY <1>26, <2>3, BootstrapStep
    <3>2. srv' = "refused" => man.incr \notin files
      BY <1>26, <2>3 DEF BootstrapAofLayout
    <3>3. srv' = "refused" => safe = {}
      BY <2>3, <3>2, NothingOnDisk DEF Layout
    <3> QED BY <2>1, <2>3, <3>1, <3>3 DEF Promises
  <2> QED BY <2>2, <2>3
<1>27. CASE LoadStartupData
  <2>1. /\ man # NoManifest /\ man' = man /\ srv = "open" /\ holder' = Free /\ Free.st = "free" /\ UNCHANGED <<safe, worker>> /\ srv' = "up"
        /\ mem' = Logged' /\ Logged' = man.base \union Committed(Log') /\ Committed(OnDisk) \subseteq Committed(OnDisk') /\ acked' \subseteq mem'
    BY <1>27, LoadStep, Fields DEF LoadStartupData
  <2>2. wpc = "idle" /\ wpc' = wpc
    BY <2>1 DEF Phases, worker
  <2> QED BY <2>1, <2>2 DEF Promises
<1>28. CASE Crash
  <2>1. man # NoManifest /\ man' = man /\ srv' = "off" /\ holder' = Free /\ OnDisk' = OnDisk /\ wpc' = "none" /\ safe' = safe
    BY <1>28, CrashStep DEF Crash
  <2> QED BY <2>1, Fields DEF Promises
<1>29. ASSUME NEW off \in BOOLEAN, Execute(off) PROVE Promises'
  BY <1>29, NoWrite, Fields, HolderTypes DEF ControlTypes, Phases, Stages, Waits, Promises, Forced,
     Execute, Unlocked, Admitted, worker, disk
<1>30. ASSUME NEW p \in Policies, SetAofFsyncPolicy(p) PROVE Promises'
  BY <1>30, NoWrite, Fields, HolderTypes DEF ControlTypes, Phases, Stages, Waits, Promises, Forced,
     SetAofFsyncPolicy, Unlocked, disk
<1>31. ASSUME NEW w \in BOOLEAN, EnableAofFromSnapshot(w) PROVE Promises'
  BY <1>31, NoWrite, Fields, HolderTypes DEF ControlTypes, Phases, Stages, Waits, Promises, Forced,
     EnableAofFromSnapshot, Unlocked, worker, disk
<1>32. ASSUME NEW p \in Policies, OpenWriter(p) PROVE Promises'
  <2>1. srv = "boot" /\ UNCHANGED <<holder, safe, acked>> /\ wpc' # "reply" /\ holder.st # "ok"
    BY <1>32, Fields DEF OpenWriter, client, worker, Phases
  <2>2. man # NoManifest /\ man' = man /\ OnDisk' = OnDisk /\ (srv' = "refused" => BadHeader(man.incr)) /\ (srv' # "refused" => srv' = "open")
    BY <1>32, OpenStep
  <2>3. srv' = "refused" => safe = {}
    BY <2>2, NothingOnDisk DEF Layout, BadHeader
  <2> QED BY <2>1, <2>2, <2>3 DEF Promises
<1>33. CASE UNCHANGED vars
  BY <1>33, NoWrite, Fields, HolderTypes DEF ControlTypes, Phases, Stages, Waits, Promises, Forced,
     vars, client, worker, disk, counts
<1> QED BY <1>1, <1>2, <1>3, <1>4, <1>5, <1>6, <1>7, <1>8, <1>9, <1>10, <1>11, <1>12, <1>13, <1>14,
           <1>15, <1>16, <1>17, <1>18, <1>19, <1>20, <1>21, <1>22, <1>23, <1>24, <1>25, <1>26,
           <1>27, <1>28, <1>29, <1>30, <1>31, <1>32, <1>33 DEF Next, ClientStep, HolderStep,
           WorkerStep, StartStep

\* The new file is not the old one.
LEMMA NewFile ==
    ASSUME Rewrites, Layout, man # NoManifest, mat.pc # "none"
    PROVE  NextIncr \in Files /\ NextIncr > man.incr /\ NextIncr # man.incr
<1>1. man.next + 1 \in Files /\ man.next = man.incr + 1 /\ man.incr \in Files
  BY DEF Rewrites, Layout
<1> QED BY <1>1 DEF NextIncr, Files

\* The first frame of a concatenation.
LEMMA FirstFrame ==
    ASSUME NEW s \in Seq(FrameSet), NEW t \in Seq(FrameSet)
    PROVE  s # <<>> => s \o t # <<>> /\ (s \o t)[1] = s[1]
<1>1. s # <<>> => Len(s) >= 1
  OBVIOUS
<1> QED BY <1>1

\* The worker's file keeps its header.
LEMMA WroteLayout ==
    ASSUME TypeOK, Rewrites, Layout, Frames, NEW a, NEW b, Wrote(a, b), srv = "up",
           UNCHANGED <<srv, mat, files>>, Log' # <<>>, Log'[1] = Header
    PROVE  Layout'
<1>1. man # NoManifest /\ UNCHANGED <<man, synced, files, mat, srv>> /\ b \in Seq(FrameSet) /\ buf' = b
  BY DEF Wrote
<1>2. /\ man.incr \in Files /\ os' \in [Files -> Seq(FrameSet)] /\ (\A f \in Files : f # man.incr => os'[f] = os[f])
      /\ Len(os[man.incr]) >= 1 => os'[man.incr][1] = os[man.incr][1]
  BY <1>1, WroteLog DEF Layout
<1>3. os'[man.incr] # <<>> => os'[man.incr][1] = Header
  <2>1. PICK f \in Seq(FrameSet) : f = os'[man.incr]
    BY <1>2
  <2>2. Log' = f \o b
    BY <1>1, <2>1 DEF Log
  <2>3. f # <<>> => (f \o b)[1] = f[1]
    BY <1>1, FirstFrame
  <2> QED BY <2>1, <2>2, <2>3
<1>4. synced[man.incr] >= 1 => os'[man.incr][1] = Header
  <2>1. synced[man.incr] >= 1 => Len(os[man.incr]) >= 1
    BY <1>2 DEF TypeOK
  <2> QED BY <1>1, <1>2, <2>1 DEF Layout
<1>5. ~BadHeader(man.incr)'
  BY <1>1, <1>3 DEF BadHeader
<1>6. OnlyHeader'
  <2>1. \A f \in Files : f > man.incr => f # man.incr
    BY <1>2 DEF Files
  <2> QED BY <1>1, <1>2, <2>1 DEF Layout, OnlyHeader
<1>7. mat.pc # "none" => os'[NextIncr] = os[NextIncr] /\ NextIncr' = NextIncr
  BY <1>1, <1>2, NewFile DEF NextIncr
<1> HIDE DEF Log
<1> QED BY <1>1, <1>4, <1>5, <1>6, <1>7 DEF Layout

\* The files keep their places.
LEMMA LayoutStep ==
    ASSUME TypeOK, ControlTypes, Phases, Stages, Waits, Rewrites, Appends, Contents, Frames, Layout, [Next]_vars
    PROVE  Layout'
<1>1. CASE FlushEverysec
  BY <1>1, NoWrite, Fields DEF ControlTypes, Phases, Stages, Waits, Layout, OnlyHeader, BadHeader,
     Live, NextIncr, FlushEverysec, Unlocked, worker, disk
<1>2. CASE StartBgRewriteAof
  BY <1>2, NoWrite, Fields DEF ControlTypes, Phases, Stages, Waits, Layout, OnlyHeader, BadHeader,
     Live, NextIncr, StartBgRewriteAof, Unlocked, RewriteInProgress, worker, disk
<1>3. CASE DisableAof
  BY <1>3, NoWrite, Fields DEF ControlTypes, Phases, Stages, Waits, Layout, OnlyHeader, BadHeader,
     Live, NextIncr, DisableAof, Unlocked, worker, disk
<1>4. CASE ShutdownAofForExit
  BY <1>4, NoWrite, Fields DEF ControlTypes, Phases, Stages, Waits, Layout, OnlyHeader, BadHeader,
     Live, NextIncr, ShutdownAofForExit, Unlocked, worker, disk
<1>5. CASE AbortClientTask
  BY <1>5, NoWrite, Fields DEF ControlTypes, Phases, Stages, Waits, Layout, OnlyHeader, BadHeader,
     Live, NextIncr, AbortClientTask, worker, disk
<1>6. CASE Enqueue
  BY <1>6, NoWrite, Fields DEF ControlTypes, Phases, Stages, Waits, Layout, OnlyHeader, BadHeader,
     Live, NextIncr, Enqueue, disk
<1>7. CASE EnqueueTimeout
  BY <1>7, NoWrite, Fields DEF ControlTypes, Phases, Stages, Waits, Layout, OnlyHeader, BadHeader,
     Live, NextIncr, EnqueueTimeout, LatchOnTimeout, worker, disk
<1>8. CASE ReplyTimeout
  BY <1>8, NoWrite, Fields DEF ControlTypes, Phases, Stages, Waits, Layout, OnlyHeader, BadHeader,
     Live, NextIncr, ReplyTimeout, worker, disk
<1>9. CASE AppendDone
  BY <1>9, NoWrite, Fields DEF ControlTypes, Phases, Stages, Waits, Layout, OnlyHeader, BadHeader,
     Live, NextIncr, AppendDone, worker, disk
<1>10. CASE FlushDone
  BY <1>10, NoWrite, Fields DEF ControlTypes, Phases, Stages, Waits, Layout, OnlyHeader, BadHeader,
     Live, NextIncr, FlushDone, worker, disk
<1>11. CASE PolicyDone
  BY <1>11, NoWrite, Fields DEF ControlTypes, Phases, Stages, Waits, Layout, OnlyHeader, BadHeader,
     Live, NextIncr, PolicyDone, worker, disk
<1>12. CASE DisableDone
  BY <1>12, NoWrite, Fields DEF ControlTypes, Phases, Stages, Waits, Layout, OnlyHeader, BadHeader,
     Live, NextIncr, DisableDone, worker, disk
<1>13. CASE ExitDone
  BY <1>13, NoWrite, Fields DEF ControlTypes, Phases, Stages, Waits, Layout, OnlyHeader, BadHeader,
     Live, NextIncr, ExitDone, worker, disk
<1>14. CASE WorkerAppend
  <2>1. srv = "up" /\ wpc # "none" /\ UNCHANGED <<srv, mat, files>> /\ next - 1 \in Units /\ Log' = Log \o Record(next - 1) /\ man # NoManifest
    BY <1>14, AppendStep DEF WorkerAppend
  <2>2. Log # <<>> /\ Log[1] = Header
    BY <2>1 DEF Layout, Live
  <2>3. Log \in Seq(FrameSet) /\ Record(next - 1) \in Seq(FrameSet)
    BY <2>1, LogFacts, RecordLen
  <2>4. Log' # <<>> /\ Log'[1] = Header
    BY <2>1, <2>2, <2>3, FirstFrame
  <2> QED BY <1>14, <2>1, <2>4, AppendStep, WroteLayout
<1>15. CASE WorkerAppendError
  <2>1. srv = "up" /\ wpc # "none" /\ UNCHANGED <<srv, mat, files, os, synced, man>> /\ next - 1 \in Units /\ man # NoManifest
    BY <1>15, AppendErrorStep DEF WorkerAppendError, disk
  <2>2. Log # <<>> /\ Log[1] = Header
    BY <2>1 DEF Layout, Live
  <2>3. Log' # <<>> /\ Log'[1] = Header
    <3> DEFINE r == Record(next - 1)
    <3>1. Log \in Seq(FrameSet) /\ r \in Seq(FrameSet) /\ Len(Log) \in Nat /\ Len(Log) >= 1 /\ Torn \in FrameSet
      BY <2>1, <2>2, LogFacts, RecordLen, FrameTypes
    <3>2. PICK k \in 0 .. Len(r) - 1 :
             Log' = First(Log \o r, Len(Log) + k) \/ Log' = Append(First(Log \o r, Len(Log) + k), Torn)
      BY <1>15, AppendErrorStep
    <3> HIDE DEF r
    <3>3. k \in 0 .. Len(r) /\ First(r, k) \in Seq(FrameSet)
      BY <3>1, Pieces
    <3>4. Log \o First(r, k) = First(Log \o r, Len(Log) + k)
      BY <3>1, <3>3, Pieces
    <3>5. PICK x \in Seq(FrameSet) : x = Log \o First(r, k)
      BY <3>1, <3>3, Joined
    <3>6. x # <<>> /\ x[1] = Header
      BY <2>2, <3>1, <3>3, <3>5, FirstFrame
    <3>7. Append(x, Torn) # <<>> /\ Append(x, Torn)[1] = x[1]
      <4>1. Len(x) >= 1
        BY <3>6
      <4> QED BY <3>1, <4>1, OneMore
    <3> QED BY <3>2, <3>4, <3>5, <3>6, <3>7
  <2> HIDE DEF Log
  <2> QED BY <2>1, <2>3 DEF Layout, OnlyHeader, BadHeader, NextIncr
<1>16. CASE WorkerForceFsync
  BY <1>16, NoWrite, Fields DEF ControlTypes, Phases, Stages, Waits, Layout, OnlyHeader, BadHeader,
     Live, NextIncr, WorkerForceFsync, client, disk
<1>17. CASE WorkerSetPolicy
  BY <1>17, NoWrite, Fields DEF ControlTypes, Phases, Stages, Waits, Layout, OnlyHeader, BadHeader,
     Live, NextIncr, WorkerSetPolicy, client, disk
<1>18. CASE WorkerFlush
  <2>1. srv = "up" /\ wpc # "none" /\ UNCHANGED <<srv, mat, files>> /\ Log' = Log
    BY <1>18, FlushSteps DEF Phases, WorkerFlush
  <2>2. Log # <<>> /\ Log[1] = Header
    BY <2>1 DEF Layout, Live
  <2> QED BY <1>18, <2>1, <2>2, FlushSteps, WroteLayout
<1>19. CASE WorkerSync
  <2>1. /\ man # NoManifest /\ srv = "up" /\ UNCHANGED <<srv, os, buf, man, files>> /\ Log' = Log /\ wpc = "sync"
        /\ (\A f \in Files : f # man.incr => synced'[f] = synced[f]) /\ synced'[man.incr] = Len(os[man.incr])
    BY <1>19, SyncStep DEF WorkerSync
  <2>2. os[man.incr] \in Seq(FrameSet) /\ man.incr \in Files /\ synced[man.incr] \in 0 .. Len(os[man.incr])
    BY <2>1, LogFacts
  <2>3. synced'[man.incr] >= 1 => os[man.incr] # <<>>
    BY <2>1, <2>2
  <2>4. synced[man.incr] >= 1 => synced'[man.incr] >= 1
    BY <2>1, <2>2
  <2>5. OnlyHeader'
    <3>1. \A f \in Files : f > man.incr => f # man.incr
      BY <2>2 DEF Files
    <3> QED BY <2>1, <3>1 DEF Layout, OnlyHeader
  <2>6. mat'.pc \notin {"sync", "commit"}
    <3>1. mat.pc = "none"
      BY <2>1 DEF Stages, Phases, ControlTypes
    <3>2. mat'.pc = "open" \/ mat' = mat
      BY <1>19 DEF WorkerSync
    <3> QED BY <3>1, <3>2
  <2> QED BY <2>1, <2>2, <2>3, <2>4, <2>5, <2>6 DEF Layout, BadHeader, Live
<1>20. CASE WorkerIoError
  <2>1. srv = "up" /\ wpc # "none" /\ UNCHANGED <<srv, mat, files>> /\ Log' = Log
    BY <1>20, FlushSteps DEF Phases, WorkerIoError
  <2>2. Log # <<>> /\ Log[1] = Header
    BY <2>1 DEF Layout, Live
  <2> QED BY <1>20, <2>1, <2>2, FlushSteps, WroteLayout
<1>21. CASE WorkerReply
  <2>1. /\ srv = "up" /\ wpc # "none" /\ man # NoManifest /\ UNCHANGED <<srv, mat, files, man, synced>>
    BY <1>21, ReplyStep DEF WorkerReply
  <2>2. Log # <<>> /\ Log[1] = Header
    BY <2>1 DEF Layout, Live
  <2>3. CASE cur.op \notin {"disable", "exit"}
    <3>1. UNCHANGED <<os, buf>> /\ Log' = Log
      BY <1>21, <2>3, ReplyStep
    <3> HIDE DEF Log
    <3> QED BY <2>1, <2>2, <3>1 DEF Layout, OnlyHeader, BadHeader, NextIncr
  <2>4. CASE cur.op \in {"disable", "exit"}
    <3>1. wpc' = "none" /\ buf' = <<>>
      BY <1>21, <2>4 DEF WorkerReply, DropWriter
    <3>2. /\ man.incr \in Files /\ os' \in [Files -> Seq(FrameSet)] /\ (\A f \in Files : f # man.incr => os'[f] = os[f])
          /\ Len(os[man.incr]) >= 1 => os'[man.incr][1] = os[man.incr][1]
      BY <1>21, <2>1, ReplyStep DEF Layout
    <3>3. PICK n \in 0 .. Len(Log) : Log' = First(Log, n)
      BY <1>21, ReplyStep
    <3>4. os'[man.incr] # <<>> => os'[man.incr][1] = Header
      <4>1. PICK f \in Seq(FrameSet) : f = os'[man.incr]
        BY <3>2
      <4>2. f \o <<>> = f
        BY Joined
      <4>3. Log' = f
        BY <2>1, <3>1, <4>1, <4>2 DEF Log
      <4>4. Log \in Seq(FrameSet)
        BY <2>1, LogFacts
      <4>5. Len(f) = n /\ \A i \in 1 .. n : f[i] = Log[i]
        BY <3>3, <4>3, <4>4, Beginning
      <4>6. f # <<>> => 1 \in 1 .. n
        BY <4>5
      <4> QED BY <2>2, <4>1, <4>5, <4>6
    <3>5. synced[man.incr] >= 1 => os'[man.incr][1] = Header
      <4>1. synced[man.incr] >= 1 => Len(os[man.incr]) >= 1
        BY <3>2 DEF TypeOK
      <4> QED BY <2>1, <3>2, <4>1 DEF Layout
    <3>6. OnlyHeader'
      <4>1. \A f \in Files : f > man.incr => f # man.incr
        BY <3>2 DEF Files
      <4> QED BY <2>1, <3>2, <4>1 DEF Layout, OnlyHeader
    <3>7. mat.pc # "none" => os'[NextIncr] = os[NextIncr] /\ NextIncr' = NextIncr
      BY <2>1, <3>2, NewFile DEF NextIncr
    <3>8. ~Live' /\ ~BadHeader(man.incr)'
      BY <2>1, <3>1, <3>4 DEF Live, BadHeader
    <3> QED BY <2>1, <3>5, <3>6, <3>7, <3>8 DEF Layout
  <2> QED BY <2>3, <2>4
<1>22. CASE MaterializeOpen
  <2>1. /\ man # NoManifest /\ srv = "up" /\ UNCHANGED <<srv, buf, man, synced>> /\ Log' = Log /\ mat.pc = "open"
        /\ (\A f \in Files : f # NextIncr => os'[f] = os[f]) /\ NextIncr' = NextIncr
    BY <1>22, PrepareStep DEF MaterializeOpen, NextIncr
  <2>2. NextIncr \in Files /\ NextIncr > man.incr /\ NextIncr # man.incr /\ man.incr \in Files /\ os'[man.incr] = os[man.incr]
    BY <2>1, NewFile DEF Layout
  <2>3. /\ wpc' # "none" => wpc # "none" 
        /\ files \subseteq files'
        /\ (UNCHANGED os /\ mat' = NoMat) \/ (os' = [os EXCEPT ![NextIncr] = <<Header>>] /\ NextIncr \in files' /\ mat'.pc # "commit")
    BY <1>22, <2>1 DEF MaterializeOpen, GiveUp, Stages, ControlTypes
  <2>4. os \in [Files -> Seq(FrameSet)] /\ Len(<<Header>>) = 1
    BY FreshLog DEF TypeOK
  <2>5. os' = os \/ os'[NextIncr] = <<Header>>
    BY <2>2, <2>3, <2>4
  <2>6. OnlyHeader'
    <3> SUFFICES ASSUME NEW f \in Files, f > man.incr PROVE Len(os'[f]) <= 1 /\ (synced[f] >= 1 => os'[f] = <<Header>>)
      BY <2>1 DEF OnlyHeader
    <3>1. CASE os'[f] = os[f]
      BY <3>1 DEF Layout, OnlyHeader
    <3>2. CASE os'[f] = <<Header>>
      BY <2>4, <3>2
    <3> QED BY <2>1, <2>5, <3>1, <3>2
  <2>7. mat'.pc \in {"sync", "commit"} => mat'.pc # "commit" /\ os'[NextIncr] = <<Header>> /\ NextIncr \in files'
    BY <2>2, <2>3, <2>4, Fields
  <2> QED BY <2>1, <2>2, <2>3, <2>6, <2>7 DEF Layout, BadHeader, Live
<1>23. CASE MaterializeSync
  <2>1. /\ man # NoManifest /\ srv = "up" /\ UNCHANGED <<srv, wpc, buf, man, os, files>> /\ Log' = Log /\ mat.pc = "sync"
        /\ (\A f \in Files : f # NextIncr => synced'[f] = synced[f]) /\ NextIncr' = NextIncr /\ synced' = [synced EXCEPT ![NextIncr] = Len(os[NextIncr])]
    BY <1>23, PrepareStep DEF MaterializeSync, NextIncr, SyncNew, worker
  <2>2. NextIncr \in Files /\ NextIncr > man.incr /\ NextIncr # man.incr /\ man.incr \in Files /\ synced'[man.incr] = synced[man.incr]
    BY <2>1, NewFile DEF Layout
  <2>3. os[NextIncr] = <<Header>> /\ NextIncr \in files
    BY <2>1 DEF Layout
  <2>4. synced'[NextIncr] = 1
    BY <2>1, <2>2, <2>3 DEF TypeOK
  <2>5. OnlyHeader'
    BY <2>1, <2>2, <2>3 DEF Layout, OnlyHeader
  <2> QED BY <2>1, <2>2, <2>3, <2>4, <2>5 DEF Layout, BadHeader, Live
<1>24. CASE MaterializeError
  BY <1>24, NoWrite, Fields DEF ControlTypes, Phases, Stages, Waits, Layout, OnlyHeader, BadHeader,
     Live, NextIncr, MaterializeError, GiveUp, client, disk
<1>25. CASE CommitManifestSwitch
  <2>1. /\ man # NoManifest /\ srv = "up" /\ man' # NoManifest /\ man'.incr = NextIncr /\ man'.next = NextIncr + 1 /\ NextIncr \in Files /\ NextIncr > man.incr
        /\ UNCHANGED <<srv, os, synced, files>> /\ Log' = <<Header>> /\ os[NextIncr] = <<Header>> /\ synced[NextIncr] = 1 /\ NextIncr \in files /\ mat' = NoMat
    BY <1>25, CommitStep DEF CommitManifestSwitch
  <2>2. <<Header>> # <<>> /\ <<Header>>[1] = Header
    OBVIOUS
  <2>3. OnlyHeader'
    <3>1. \A f \in Files : f > NextIncr => f > man.incr
      BY <2>1 DEF Layout, Files
    <3> QED BY <2>1, <3>1 DEF Layout, OnlyHeader
  <2>4. ~BadHeader(man.incr)'
    BY <2>1, <2>2 DEF BadHeader
  <2> DEFINE g == NextIncr
  <2> HIDE DEF g, Log
  <2>5. man' # NoManifest /\ man'.incr = g /\ man'.next = g + 1 /\ g \in Files /\ g \in files' /\ os'[g] = <<Header>> /\ synced'[g] = 1 /\ srv' = "up"
    BY <2>1 DEF g
  <2>6. mat'.pc = "none"
    BY <2>1, Fields
  <2>7. Log' # <<>> /\ Log'[1] = Header
    BY <2>1, <2>2
  <2> QED BY <2>2, <2>3, <2>4, <2>5, <2>6, <2>7 DEF Layout
<1>26. CASE BootstrapAofLayout
  <2>1. srv = "off" /\ srv' \in {"boot", "refused"} /\ ~Live' /\ mat' = mat /\ mat.pc = "none"
    BY <1>26, Fields DEF BootstrapAofLayout, Live, Phases
  <2>2. man' # NoManifest /\ UNCHANGED <<os, synced, files>>
    BY <1>26, BootstrapStep
  <2>3. CASE man = NoManifest
    <3>1. man'.base = {} /\ man'.incr = 1 /\ man'.next = 2 /\ 1 \in Files /\ os[1] = <<>> /\ synced[1] = 0
      BY <1>26, <2>3, BootstrapStep
    <3>2. OnlyHeader'
      <4>1. man.incr = 0
        BY <2>3, Fields
      <4>2. \A f \in Files : f > 1 => f > 0
        BY DEF Files
      <4> QED BY <2>2, <3>1, <4>1, <4>2 DEF Layout, OnlyHeader
    <3> QED BY <2>1, <2>2, <3>1, <3>2 DEF Layout
  <2>4. CASE man # NoManifest
    <3>1. man' = man
      BY <1>26, <2>4, BootstrapStep
    <3> QED BY <2>1, <2>2, <2>4, <3>1 DEF Layout, OnlyHeader
  <2> QED BY <2>3, <2>4
<1>27. CASE LoadStartupData
  <2>1. /\ man # NoManifest /\ srv = "open" /\ srv' = "up" /\ UNCHANGED <<man, files, buf, mat>>
        /\ Good(Log') /\ Ready(Log', NoDb) /\ os' \in [Files -> Seq(FrameSet)]
        /\ (\A f \in Files : f # man.incr => os'[f] = os[f] /\ synced'[f] = synced[f])
        /\ os[man.incr] = <<>> => os' = os /\ synced' = synced
        /\ os[man.incr] # <<>> => os'[man.incr] # <<>> /\ os'[man.incr][1] = Header /\ synced'[man.incr] \in {synced[man.incr], Len(os'[man.incr])}
    BY <1>27, LoadStep DEF LoadStartupData
  <2>2. man.incr \in Files /\ buf = (IF os[man.incr] = <<>> THEN <<Header>> ELSE <<>>) /\ mat.pc = "none" /\ man.incr \in files
    BY <2>1, Fields DEF Layout, Phases
  <2>3. os'[man.incr] = <<>> \/ os'[man.incr][1] = Header
    BY <2>1
  <2>4. Log' # <<>> /\ Log'[1] = Header
    <3>1. PICK f \in Seq(FrameSet) : f = os'[man.incr]
      BY <2>1, <2>2
    <3>2. Log' = f \o buf
      BY <2>1, <3>1 DEF Log
    <3>3. CASE os[man.incr] = <<>>
      <4>1. f = <<>> /\ buf = <<Header>>
        BY <2>1, <2>2, <3>1, <3>3
      <4>2. <<>> \o <<Header>> = <<Header>> /\ <<Header>> # <<>> /\ <<Header>>[1] = Header
        BY FreshLog, Joined
      <4> QED BY <3>2, <4>1, <4>2
    <3>4. CASE os[man.incr] # <<>>
      <4>1. f # <<>> /\ f[1] = Header /\ buf = <<>>
        BY <2>1, <2>2, <3>1, <3>4
      <4>2. f \o <<>> = f
        BY Joined
      <4> QED BY <3>2, <4>1, <4>2
    <3> QED BY <3>3, <3>4
  <2>5. OnlyHeader'
    <3>1. \A f \in Files : f > man.incr => f # man.incr
      BY <2>2 DEF Files
    <3> QED BY <2>1, <3>1 DEF Layout, OnlyHeader
  <2>6. (synced[man.incr] >= 1 => synced'[man.incr] >= 1) /\ (synced'[man.incr] >= 1 => os'[man.incr][1] = Header)
    <3>1. CASE os[man.incr] = <<>>
      <4>1. synced' = synced /\ os' = os
        BY <2>1, <3>1
      <4> QED BY <2>1, <4>1 DEF Layout
    <3>2. CASE os[man.incr] # <<>>
      <4>1. PICK f \in Seq(FrameSet) : f = os'[man.incr] /\ f # <<>>
        BY <2>1, <2>2, <3>2
      <4>2. Len(f) >= 1
        BY <4>1
      <4> QED BY <2>1, <3>2, <4>1, <4>2
    <3> QED BY <3>1, <3>2
  <2> HIDE DEF Log
  <2> QED BY <2>1, <2>2, <2>3, <2>4, <2>5, <2>6 DEF Layout, BadHeader
<1>28. CASE Crash
  <2>1. /\ man # NoManifest /\ UNCHANGED <<man, synced, files>> /\ srv' = "off" /\ mat' = NoMat
        /\ synced[man.incr] >= 1 => os'[man.incr][1] = os[man.incr][1]
        /\ \A f \in Files : f > man.incr => Len(os'[f]) <= 1 /\ (synced[f] >= 1 => os'[f] = <<Header>>)
    BY <1>28, CrashStep DEF Crash
  <2>2. OnlyHeader' /\ ~Live'
    BY <2>1 DEF OnlyHeader, Live
  <2> QED BY <2>1, <2>2, Fields DEF Layout
<1>29. ASSUME NEW off \in BOOLEAN, Execute(off) PROVE Layout'
  BY <1>29, NoWrite, Fields DEF ControlTypes, Phases, Stages, Waits, Layout, OnlyHeader, BadHeader,
     Live, NextIncr, Execute, Unlocked, Admitted, worker, disk
<1>30. ASSUME NEW p \in Policies, SetAofFsyncPolicy(p) PROVE Layout'
  BY <1>30, NoWrite, Fields DEF ControlTypes, Phases, Stages, Waits, Layout, OnlyHeader, BadHeader,
     Live, NextIncr, SetAofFsyncPolicy, Unlocked, disk
<1>31. ASSUME NEW w \in BOOLEAN, EnableAofFromSnapshot(w) PROVE Layout'
  BY <1>31, NoWrite, Fields DEF ControlTypes, Phases, Stages, Waits, Layout, OnlyHeader, BadHeader,
     Live, NextIncr, EnableAofFromSnapshot, Unlocked, worker, disk
<1>32. ASSUME NEW p \in Policies, OpenWriter(p) PROVE Layout'
  <2>1. srv = "boot" /\ mat' = mat /\ mat.pc = "none"
    BY <1>32, Fields DEF OpenWriter, Phases
  <2>2. /\ man # NoManifest /\ UNCHANGED <<man, os, synced>> /\ man.incr \in Files
        /\ srv' = "refused" => UNCHANGED files
        /\ srv' # "refused" => /\ srv' = "open" /\ ~BadHeader(man.incr) /\ files' = files \union {man.incr}
                               /\ buf' = (IF os[man.incr] = <<>> THEN <<Header>> ELSE <<>>)
    BY <1>32, OpenStep
  <2>3. ~Live'
    BY <2>2 DEF Live
  <2> QED BY <2>1, <2>2, <2>3 DEF Layout, OnlyHeader, BadHeader
<1>33. CASE UNCHANGED vars
  BY <1>33, NoWrite, Fields DEF ControlTypes, Phases, Stages, Waits, Layout, OnlyHeader, BadHeader,
     Live, NextIncr, vars, client, worker, disk, counts
<1> QED BY <1>1, <1>2, <1>3, <1>4, <1>5, <1>6, <1>7, <1>8, <1>9, <1>10, <1>11, <1>12, <1>13, <1>14,
           <1>15, <1>16, <1>17, <1>18, <1>19, <1>20, <1>21, <1>22, <1>23, <1>24, <1>25, <1>26,
           <1>27, <1>28, <1>29, <1>30, <1>31, <1>32, <1>33 DEF Next, ClientStep, HolderStep,
           WorkerStep, StartStep

\* The types of the client's and the worker's variables, and of the disk's.
ProcessTypes ==
    /\ srv \in {"off", "boot", "open", "up", "refused"}
    /\ mem \subseteq Units /\ acked \subseteq Units /\ safe \subseteq Units
    /\ next \in 1 .. MaxUnits + 1
    /\ holder \in Holders
    /\ queue \in Seq(CmdSet) /\ Len(queue) <= QueueCap
    /\ wpc \in {"none", "idle", "flushsync", "flush", "sync", "reply", "mat"}
    /\ cur \in CmdSet /\ wres \in {"ok", "err"}
    /\ policy \in {"always", "everysec", "no"}
    /\ mat \in [pc : {"none", "open", "sync", "commit"}, by : {"worker", "enable"}, snap : SUBSET Units]

Switches == enabled \in BOOLEAN /\ latched \in BOOLEAN

DiskTypes ==
    /\ wfile \in Files /\ wdb \in Dbs \union {NoDb}
    /\ buf \in Seq(FrameSet)
    /\ man.base \subseteq Units /\ man.incr \in 0 .. MaxSeq /\ man.next \in 1 .. MaxSeq + 1
    /\ files \subseteq Files
    /\ os \in [Files -> Seq(FrameSet)]
    /\ synced \in [Files -> Nat] /\ \A f \in Files : synced[f] <= Len(os[f])

\* The type invariant falls into the parts its proof uses.
LEMMA TypeParts == TypeOK <=> ProcessTypes /\ Switches /\ DiskTypes
BY DEF TypeOK, ProcessTypes, Switches, DiskTypes, Holders

\* The same of the next state.
LEMMA TypePartsNext == TypeOK' <=> ProcessTypes' /\ Switches' /\ DiskTypes'
BY DEF TypeOK, ProcessTypes, Switches, DiskTypes, Holders

\* Every step keeps the types of the process's variables.
LEMMA ProcessTypesStep ==
    ASSUME TypeOK, ProcessTypes, Phases, Appends, Contents, Frames, Layout, [Next]_vars
    PROVE  ProcessTypes'
<1>1. CASE FlushEverysec
  BY <1>1, Fields, HolderTypes DEF ProcessTypes, NoMat, FlushEverysec, Unlocked, worker, disk
<1>2. CASE StartBgRewriteAof
  <2>1. UNCHANGED <<srv, mem, next, acked, safe, queue, wpc, cur, wres, policy, mat>> /\ holder' = Send(RewriteCmd(mem))
    BY <1>2 DEF StartBgRewriteAof, worker
  <2>2. RewriteCmd(mem) \in CmdSet
    BY Fields DEF ProcessTypes
  <2> QED BY <2>1, <2>2, HolderTypes DEF ProcessTypes
<1>3. CASE DisableAof
  BY <1>3, Fields, HolderTypes DEF ProcessTypes, NoMat, DisableAof, Unlocked, worker, disk
<1>4. CASE ShutdownAofForExit
  BY <1>4, Fields, HolderTypes DEF ProcessTypes, NoMat, ShutdownAofForExit, Unlocked, worker, disk
<1>5. CASE AbortClientTask
  BY <1>5, Fields, HolderTypes DEF ProcessTypes, NoMat, AbortClientTask, worker, disk
<1>6. CASE Enqueue
  <2>1. /\ queue \in Seq(CmdSet) /\ holder \in Holders /\ queue' = Append(queue, holder.cmd) /\ Len(queue) < QueueCap
        /\ UNCHANGED <<srv, mem, acked, safe, next, wpc, cur, wres, policy, mat>> /\ (holder' = Free \/ holder' = [holder EXCEPT !.st = "await"])
    BY <1>6 DEF Enqueue, HasRoom, ProcessTypes
  <2>2. holder.cmd \in CmdSet /\ holder' \in Holders
    BY <2>1, HolderTypes DEF Holders
  <2>3. Append(queue, holder.cmd) \in Seq(CmdSet) /\ Len(Append(queue, holder.cmd)) = Len(queue) + 1 /\ Len(queue) \in Nat
    BY <2>1, <2>2, Enqueued
  <2>4. Len(Append(queue, holder.cmd)) <= QueueCap
    BY <2>1, <2>3, CapAssumption
  <2> QED BY <2>1, <2>2, <2>3, <2>4 DEF ProcessTypes
<1>7. CASE EnqueueTimeout
  BY <1>7, Fields, HolderTypes DEF ProcessTypes, NoMat, EnqueueTimeout, LatchOnTimeout, worker, disk
<1>8. CASE ReplyTimeout
  BY <1>8, Fields, HolderTypes DEF ProcessTypes, NoMat, ReplyTimeout, worker, disk
<1>9. CASE AppendDone
  <2>1. UNCHANGED <<srv, mem, next, queue, wpc, cur, wres, policy, mat>>
    BY <1>9 DEF AppendDone, worker
  <2>2. holder.cmd.u \in Units
    BY <1>9 DEF AppendDone, Appends, ProcessTypes
  <2>3. acked' \subseteq acked \union {holder.cmd.u} /\ safe' \subseteq safe \union {holder.cmd.u}
    BY <1>9 DEF AppendDone
  <2>4. holder' \in Holders
    BY <1>9, HolderTypes, Fields DEF AppendDone
  <2> QED BY <2>1, <2>2, <2>3, <2>4 DEF ProcessTypes
<1>10. CASE FlushDone
  BY <1>10, Fields, HolderTypes DEF ProcessTypes, NoMat, FlushDone, worker, disk
<1>11. CASE PolicyDone
  BY <1>11, Fields, HolderTypes DEF ProcessTypes, NoMat, PolicyDone, worker, disk
<1>12. CASE DisableDone
  BY <1>12, Fields, HolderTypes DEF ProcessTypes, NoMat, DisableDone, worker, disk
<1>13. CASE ExitDone
  BY <1>13, Fields, HolderTypes DEF ProcessTypes, NoMat, ExitDone, worker, disk
<1>14. CASE WorkerAppend
  <2>1. queue \in Seq(CmdSet) /\ queue # <<>> /\ cur' = Head(queue) /\ queue' = Tail(queue) /\ Len(queue) <= QueueCap
    BY <1>14 DEF WorkerAppend, ProcessTypes
  <2>2. Tail(queue) \in Seq(CmdSet) /\ Len(queue) \in Nat /\ Len(Tail(queue)) = Len(queue) - 1 /\ Head(queue) \in CmdSet
    BY <2>1, Dequeued
  <2>3. Len(Tail(queue)) <= QueueCap
    BY <2>1, <2>2, CapAssumption
  <2>4. UNCHANGED <<srv, mem, acked, safe, next, holder, mat>> /\ wpc' \in {"flushsync", "flush", "reply"} /\ wres' \in {"ok", "err"}
    BY <1>14 DEF WorkerAppend, client, FsyncSteps, ProcessTypes
  <2>5. policy' \in {"always", "everysec", "no"}
    BY <1>14, <2>2 DEF WorkerAppend, ProcessTypes, CmdSet
  <2> QED BY <2>1, <2>2, <2>3, <2>4, <2>5 DEF ProcessTypes
<1>15. CASE WorkerAppendError
  <2>1. queue \in Seq(CmdSet) /\ queue # <<>> /\ cur' = Head(queue) /\ queue' = Tail(queue) /\ Len(queue) <= QueueCap
    BY <1>15 DEF WorkerAppendError, ProcessTypes
  <2>2. Tail(queue) \in Seq(CmdSet) /\ Len(queue) \in Nat /\ Len(Tail(queue)) = Len(queue) - 1 /\ Head(queue) \in CmdSet
    BY <2>1, Dequeued
  <2>3. Len(Tail(queue)) <= QueueCap
    BY <2>1, <2>2, CapAssumption
  <2>4. UNCHANGED <<srv, mem, acked, safe, next, holder, mat>> /\ wpc' \in {"flushsync", "flush", "reply"} /\ wres' \in {"ok", "err"}
    BY <1>15 DEF WorkerAppendError, client, FsyncSteps, ProcessTypes
  <2>5. policy' \in {"always", "everysec", "no"}
    BY <1>15, <2>2 DEF WorkerAppendError, ProcessTypes, CmdSet
  <2> QED BY <2>1, <2>2, <2>3, <2>4, <2>5 DEF ProcessTypes
<1>16. CASE WorkerForceFsync
  <2>1. queue \in Seq(CmdSet) /\ queue # <<>> /\ cur' = Head(queue) /\ queue' = Tail(queue) /\ Len(queue) <= QueueCap
    BY <1>16 DEF WorkerForceFsync, ProcessTypes
  <2>2. Tail(queue) \in Seq(CmdSet) /\ Len(queue) \in Nat /\ Len(Tail(queue)) = Len(queue) - 1 /\ Head(queue) \in CmdSet
    BY <2>1, Dequeued
  <2>3. Len(Tail(queue)) <= QueueCap
    BY <2>1, <2>2, CapAssumption
  <2>4. UNCHANGED <<srv, mem, acked, safe, next, holder, mat>> /\ wpc' \in {"flushsync", "flush", "reply"} /\ wres' \in {"ok", "err"}
    BY <1>16 DEF WorkerForceFsync, client, FsyncSteps, ProcessTypes
  <2>5. policy' \in {"always", "everysec", "no"}
    BY <1>16, <2>2 DEF WorkerForceFsync, ProcessTypes, CmdSet
  <2> QED BY <2>1, <2>2, <2>3, <2>4, <2>5 DEF ProcessTypes
<1>17. CASE WorkerSetPolicy
  <2>1. queue \in Seq(CmdSet) /\ queue # <<>> /\ cur' = Head(queue) /\ queue' = Tail(queue) /\ Len(queue) <= QueueCap
    BY <1>17 DEF WorkerSetPolicy, ProcessTypes
  <2>2. Tail(queue) \in Seq(CmdSet) /\ Len(queue) \in Nat /\ Len(Tail(queue)) = Len(queue) - 1 /\ Head(queue) \in CmdSet
    BY <2>1, Dequeued
  <2>3. Len(Tail(queue)) <= QueueCap
    BY <2>1, <2>2, CapAssumption
  <2>4. UNCHANGED <<srv, mem, acked, safe, next, holder, mat>> /\ wpc' \in {"flushsync", "flush", "reply"} /\ wres' \in {"ok", "err"}
    BY <1>17 DEF WorkerSetPolicy, client, FsyncSteps, ProcessTypes
  <2>5. policy' \in {"always", "everysec", "no"}
    BY <1>17, <2>2 DEF WorkerSetPolicy, ProcessTypes, CmdSet
  <2> QED BY <2>1, <2>2, <2>3, <2>4, <2>5 DEF ProcessTypes
<1>18. CASE WorkerFlush
  BY <1>18, Fields, HolderTypes DEF ProcessTypes, NoMat, WorkerFlush, client
<1>19. CASE WorkerSync
  <2>1. UNCHANGED <<srv, mem, next, acked, safe, holder, queue, cur, wres, policy>> /\ wpc' \in {"mat", "reply"}
        /\ (mat' = mat \/ mat' = [pc |-> "open", by |-> "worker", snap |-> cur.snap])
    BY <1>19 DEF WorkerSync, RewriteBase, client
  <2>2. cur.snap \subseteq Units
    BY DEF ProcessTypes, CmdSet
  <2> QED BY <2>1, <2>2 DEF ProcessTypes
<1>20. CASE WorkerIoError
  BY <1>20, Fields, HolderTypes DEF ProcessTypes, NoMat, WorkerIoError, client
<1>21. CASE WorkerReply
  <2>1. /\ UNCHANGED <<srv, mem, acked, safe, next, queue, policy, mat>> /\ wres' = "ok" /\ cur' = NoCmd /\ wpc' \in {"none", "idle"}
        /\ (holder' = holder \/ holder' = [holder EXCEPT !.st = wres])
    BY <1>21 DEF WorkerReply, DropWriter
  <2>2. holder' \in Holders /\ NoCmd \in CmdSet
    <3>1. holder \in Holders /\ wres \in {"await", "ok", "err"}
      BY DEF ProcessTypes
    <3>2. [holder EXCEPT !.st = wres] \in Holders
      BY <3>1, HolderTypes
    <3> QED BY <2>1, <3>1, <3>2, Fields
  <2> QED BY <2>1, <2>2 DEF ProcessTypes
<1>22. CASE MaterializeOpen
  BY <1>22, Fields, HolderTypes DEF ProcessTypes, NoMat, MaterializeOpen, GiveUp, client
<1>23. CASE MaterializeSync
  BY <1>23, Fields, HolderTypes DEF ProcessTypes, NoMat, MaterializeSync, client, worker
<1>24. CASE MaterializeError
  BY <1>24, Fields, HolderTypes DEF ProcessTypes, NoMat, MaterializeError, GiveUp, client, disk
<1>25. CASE CommitManifestSwitch
  <2>1. UNCHANGED <<srv, mem, next, acked, holder, cur, policy>> /\ mat' = NoMat /\ wpc' \in {"reply", "idle"} /\ (queue' = queue \/ queue' = <<>>) /\ wres' \in {wres, "ok"}
        /\ safe' \subseteq safe \union mat.snap
    BY <1>25 DEF CommitManifestSwitch
  <2>2. <<>> \in Seq(CmdSet) /\ Len(<<>>) <= QueueCap /\ mat.snap \subseteq Units
    BY CapAssumption DEF ProcessTypes
  <2> QED BY <2>1, <2>2 DEF ProcessTypes, NoMat
<1>26. CASE BootstrapAofLayout
  BY <1>26, Fields, HolderTypes DEF ProcessTypes, NoMat, BootstrapAofLayout, client, worker
<1>27. CASE LoadStartupData
  <2>1. man # NoManifest /\ mem' = Logged' /\ holder' = Free /\ acked' \subseteq mem' /\ srv' = "up" /\ UNCHANGED <<next, safe, worker, mat>> /\ man' = man
    BY <1>27, LoadStep
  <2>2. PICK n \in 0 .. Len(Log) : Log' = First(Log, n)
    BY <1>27, LoadStep
  <2>3. CmdsOf(Log') \subseteq CmdsOf(Log)
    BY <2>1, <2>2, LogFacts, Beginning
  <2>4. Logged' \subseteq mem
    BY <2>1, <2>3 DEF Logged, Contents
  <2> QED BY <2>1, <2>4, HolderTypes DEF ProcessTypes, worker
<1>28. CASE Crash
  <2>1. UNCHANGED <<mem, next, acked, safe, policy>> /\ srv' = "off" /\ holder' = Free /\ queue' = <<>> /\ wpc' = "none" /\ cur' = NoCmd /\ wres' = "ok" /\ mat' = NoMat
    BY <1>28 DEF Crash
  <2>2. <<>> \in Seq(CmdSet) /\ Len(<<>>) <= QueueCap /\ NoCmd \in CmdSet /\ Free \in Holders
    BY CapAssumption, Fields, HolderTypes
  <2> QED BY <2>1, <2>2 DEF ProcessTypes, NoMat
<1>29. ASSUME NEW off \in BOOLEAN, Execute(off) PROVE ProcessTypes'
  <2>1. UNCHANGED <<srv, acked, safe, queue, wpc, cur, wres, policy, mat>> /\ mem' = mem \union {next} /\ next' = next + 1 /\ next \in Units
    BY <1>29 DEF Execute, worker
  <2>2. next' \in 1 .. MaxUnits + 1
    BY <2>1, UnitAssumption DEF Units
  <2>3. holder' \in Holders
    <3>1. AppendCmd(next) \in CmdSet
      BY <2>1, Fields
    <3>2. [Send(AppendCmd(next)) EXCEPT !.then = off] \in Holders /\ Free \in Holders
      BY <3>1, HolderTypes
    <3> QED BY <1>29, <3>2 DEF Execute
  <2> QED BY <2>1, <2>2, <2>3 DEF ProcessTypes
<1>30. ASSUME NEW p \in Policies, SetAofFsyncPolicy(p) PROVE ProcessTypes'
  <2>1. UNCHANGED <<srv, mem, next, acked, safe, queue, wpc, cur, wres, mat>> /\ (holder' = Send(PolicyCmd(p)) \/ holder' = holder) /\ policy' \in {policy, p}
    BY <1>30 DEF SetAofFsyncPolicy
  <2>2. PolicyCmd(p) \in CmdSet /\ p \in {"always", "everysec", "no"}
    BY Fields, PolicyAssumption
  <2> QED BY <2>1, <2>2, HolderTypes DEF ProcessTypes
<1>31. ASSUME NEW w \in BOOLEAN, EnableAofFromSnapshot(w) PROVE ProcessTypes'
  <2>1. UNCHANGED <<srv, acked, safe, holder, queue, wpc, cur, wres, policy>> /\ mat' = [pc |-> "open", by |-> "enable", snap |-> mem']
    BY <1>31 DEF EnableAofFromSnapshot, worker
  <2>2. (mem' = mem /\ next' = next) \/ (next \in Units /\ mem' = mem \union {next} /\ next' = next + 1)
    BY <1>31, UnitAssumption DEF EnableAofFromSnapshot
  <2>3. mem' \subseteq Units /\ next' \in 1 .. MaxUnits + 1
    <3>1. mem' \subseteq Units
      BY <2>2 DEF ProcessTypes
    <3>2. next \in Units => next + 1 \in 1 .. MaxUnits + 1
      BY UnitAssumption DEF Units
    <3> QED BY <2>2, <3>1, <3>2 DEF ProcessTypes
  <2> QED BY <2>1, <2>3 DEF ProcessTypes
<1>32. ASSUME NEW p \in Policies, OpenWriter(p) PROVE ProcessTypes'
  <2>1. UNCHANGED <<mem, next, acked, safe, holder, mat>> /\ srv' \in {"refused", "open"}
    BY <1>32 DEF OpenWriter, client
  <2>2. UNCHANGED worker \/ (queue' = <<>> /\ wpc' = "idle" /\ cur' = NoCmd /\ wres' = "ok" /\ policy' = p)
    BY <1>32 DEF OpenWriter
  <2>3. <<>> \in Seq(CmdSet) /\ Len(<<>>) <= QueueCap /\ NoCmd \in CmdSet /\ p \in {"always", "everysec", "no"}
    BY CapAssumption, PolicyAssumption, Fields
  <2>4. UNCHANGED <<queue, wpc, cur, wres, policy>> \/ (queue' = <<>> /\ wpc' = "idle" /\ cur' = NoCmd /\ wres' = "ok" /\ policy' = p)
    BY <2>2 DEF worker
  <2>5. CASE UNCHANGED <<queue, wpc, cur, wres, policy>>
    BY <2>1, <2>5 DEF ProcessTypes
  <2>6. CASE queue' = <<>> /\ wpc' = "idle" /\ cur' = NoCmd /\ wres' = "ok" /\ policy' = p
    BY <2>1, <2>3, <2>6 DEF ProcessTypes
  <2> QED BY <2>4, <2>5, <2>6
<1>33. CASE UNCHANGED vars
  BY <1>33, Fields, HolderTypes DEF ProcessTypes, NoMat, vars, client, worker, disk, counts
<1> QED BY <1>1, <1>2, <1>3, <1>4, <1>5, <1>6, <1>7, <1>8, <1>9, <1>10, <1>11, <1>12, <1>13, <1>14,
           <1>15, <1>16, <1>17, <1>18, <1>19, <1>20, <1>21, <1>22, <1>23, <1>24, <1>25, <1>26,
           <1>27, <1>28, <1>29, <1>30, <1>31, <1>32, <1>33 DEF Next, ClientStep, HolderStep,
           WorkerStep, StartStep

\* Every step keeps enabled and latched Boolean.
LEMMA SwitchesStep ==
    ASSUME Switches, [Next]_vars
    PROVE  Switches'
<1>1. CASE FlushEverysec
  BY <1>1 DEF Switches, FlushEverysec, Unlocked, worker, disk
<1>2. CASE StartBgRewriteAof
  BY <1>2 DEF Switches, StartBgRewriteAof, Unlocked, RewriteInProgress, worker, disk
<1>3. CASE DisableAof
  BY <1>3 DEF Switches, DisableAof, Unlocked, worker, disk
<1>4. CASE ShutdownAofForExit
  BY <1>4 DEF Switches, ShutdownAofForExit, Unlocked, worker, disk
<1>5. CASE AbortClientTask
  BY <1>5 DEF Switches, AbortClientTask, worker, disk
<1>6. CASE Enqueue
  BY <1>6 DEF Switches, Enqueue, disk
<1>7. CASE EnqueueTimeout
  BY <1>7 DEF Switches, EnqueueTimeout, LatchOnTimeout, worker, disk
<1>8. CASE ReplyTimeout
  BY <1>8 DEF Switches, ReplyTimeout, worker, disk
<1>9. CASE AppendDone
  BY <1>9 DEF Switches, AppendDone, worker, disk
<1>10. CASE FlushDone
  BY <1>10 DEF Switches, FlushDone, worker, disk
<1>11. CASE PolicyDone
  BY <1>11 DEF Switches, PolicyDone, worker, disk
<1>12. CASE DisableDone
  BY <1>12 DEF Switches, DisableDone, worker, disk
<1>13. CASE ExitDone
  BY <1>13 DEF Switches, ExitDone, worker, disk
<1>14. CASE WorkerAppend
  BY <1>14 DEF Switches, WorkerAppend, FsyncSteps, client
<1>15. CASE WorkerAppendError
  BY <1>15 DEF Switches, WorkerAppendError, client, disk
<1>16. CASE WorkerForceFsync
  BY <1>16 DEF Switches, WorkerForceFsync, client, disk
<1>17. CASE WorkerSetPolicy
  BY <1>17 DEF Switches, WorkerSetPolicy, client, disk
<1>18. CASE WorkerFlush
  BY <1>18 DEF Switches, WorkerFlush, client
<1>19. CASE WorkerSync
  BY <1>19 DEF Switches, WorkerSync, RewriteBase, client, worker
<1>20. CASE WorkerIoError
  BY <1>20 DEF Switches, WorkerIoError, client
<1>21. CASE WorkerReply
  BY <1>21 DEF Switches, WorkerReply, DropWriter, Answered
<1>22. CASE MaterializeOpen
  BY <1>22 DEF Switches, MaterializeOpen, GiveUp, client
<1>23. CASE MaterializeSync
  BY <1>23 DEF Switches, MaterializeSync, client, worker
<1>24. CASE MaterializeError
  BY <1>24 DEF Switches, MaterializeError, GiveUp, client, disk
<1>25. CASE CommitManifestSwitch
  BY <1>25 DEF Switches, CommitManifestSwitch, worker
<1>26. CASE BootstrapAofLayout
  BY <1>26 DEF Switches, BootstrapAofLayout, client, worker
<1>27. CASE LoadStartupData
  BY <1>27 DEF Switches, LoadStartupData, client, worker
<1>28. CASE Crash
  BY <1>28 DEF Switches, Crash
<1>29. ASSUME NEW off \in BOOLEAN, Execute(off) PROVE Switches'
  BY <1>29 DEF Switches, Execute, Unlocked, Admitted, worker, disk
<1>30. ASSUME NEW p \in Policies, SetAofFsyncPolicy(p) PROVE Switches'
  BY <1>30 DEF Switches, SetAofFsyncPolicy, Unlocked, disk
<1>31. ASSUME NEW w \in BOOLEAN, EnableAofFromSnapshot(w) PROVE Switches'
  BY <1>31 DEF Switches, EnableAofFromSnapshot, Unlocked, worker, disk
<1>32. ASSUME NEW p \in Policies, OpenWriter(p) PROVE Switches'
  BY <1>32 DEF Switches, OpenWriter, client, worker
<1>33. CASE UNCHANGED vars
  BY <1>33 DEF Switches, vars, client, worker, disk, counts
<1> QED BY <1>1, <1>2, <1>3, <1>4, <1>5, <1>6, <1>7, <1>8, <1>9, <1>10, <1>11, <1>12, <1>13, <1>14,
           <1>15, <1>16, <1>17, <1>18, <1>19, <1>20, <1>21, <1>22, <1>23, <1>24, <1>25, <1>26,
           <1>27, <1>28, <1>29, <1>30, <1>31, <1>32, <1>33 DEF Next, ClientStep, HolderStep,
           WorkerStep, StartStep

\* Every step keeps the types of the disk's variables.
LEMMA DiskTypesStep ==
    ASSUME TypeOK, ProcessTypes, DiskTypes, Phases, Stages, Waits, Rewrites, Appends, Contents, Frames, Layout, [Next]_vars
    PROVE  DiskTypes'
<1>1. CASE FlushEverysec
  BY <1>1 DEF DiskTypes, FlushEverysec, Unlocked, worker, disk
<1>2. CASE StartBgRewriteAof
  BY <1>2 DEF DiskTypes, StartBgRewriteAof, Unlocked, RewriteInProgress, worker, disk
<1>3. CASE DisableAof
  BY <1>3 DEF DiskTypes, DisableAof, Unlocked, worker, disk
<1>4. CASE ShutdownAofForExit
  BY <1>4 DEF DiskTypes, ShutdownAofForExit, Unlocked, worker, disk
<1>5. CASE AbortClientTask
  BY <1>5 DEF DiskTypes, AbortClientTask, worker, disk
<1>6. CASE Enqueue
  BY <1>6 DEF DiskTypes, Enqueue, disk
<1>7. CASE EnqueueTimeout
  BY <1>7 DEF DiskTypes, EnqueueTimeout, LatchOnTimeout, worker, disk
<1>8. CASE ReplyTimeout
  BY <1>8 DEF DiskTypes, ReplyTimeout, worker, disk
<1>9. CASE AppendDone
  BY <1>9 DEF DiskTypes, AppendDone, worker, disk
<1>10. CASE FlushDone
  BY <1>10 DEF DiskTypes, FlushDone, worker, disk
<1>11. CASE PolicyDone
  BY <1>11 DEF DiskTypes, PolicyDone, worker, disk
<1>12. CASE DisableDone
  BY <1>12 DEF DiskTypes, DisableDone, worker, disk
<1>13. CASE ExitDone
  BY <1>13 DEF DiskTypes, ExitDone, worker, disk
<1>14. CASE WorkerAppend
  <2>1. PICK a, b : Wrote(a, b)
    BY <1>14, AppendStep
  <2>2. man # NoManifest /\ buf' \in Seq(FrameSet) /\ UNCHANGED <<man, synced>>
    BY <2>1 DEF Wrote
  <2>3. /\ os' \in [Files -> Seq(FrameSet)] /\ Len(os'[man.incr]) >= Len(os[man.incr])
        /\ \A f \in Files : f # man.incr => os'[f] = os[f]
    BY <2>1, WroteLog
  <2>4. UNCHANGED <<wfile, files>> /\ wdb' \in Dbs \union {NoDb}
    <3>1. next - 1 \in Units /\ wdb' = DbOf[next - 1] /\ UNCHANGED <<wfile, files>>
      BY <1>14, AppendStep DEF WorkerAppend
    <3> QED BY <3>1, UnitAssumption
  <2>5. ASSUME NEW f \in Files PROVE synced[f] <= Len(os'[f])
    <3>1. synced[f] \in Nat /\ synced[f] <= Len(os[f]) /\ Len(os[f]) \in Nat /\ Len(os'[f]) \in Nat
      BY <2>3 DEF DiskTypes
    <3>2. Len(os'[f]) >= Len(os[f])
      BY <2>3, <3>1
    <3> QED BY <3>1, <3>2
  <2> QED BY <2>2, <2>3, <2>4, <2>5 DEF DiskTypes
<1>15. CASE WorkerAppendError
  <2>1. UNCHANGED <<wfile, files, os, man, synced>> /\ buf' \in Seq(FrameSet) /\ wdb' \in Dbs \union {NoDb}
    BY <1>15, AppendErrorStep DEF WorkerAppendError, disk
  <2> QED BY <2>1 DEF DiskTypes
<1>16. CASE WorkerForceFsync
  BY <1>16 DEF DiskTypes, WorkerForceFsync, client, disk
<1>17. CASE WorkerSetPolicy
  BY <1>17 DEF DiskTypes, WorkerSetPolicy, client, disk
<1>18. CASE WorkerFlush
  <2>1. PICK a, b : Wrote(a, b)
    BY <1>18, FlushSteps
  <2>2. man # NoManifest /\ buf' \in Seq(FrameSet) /\ UNCHANGED <<man, synced>>
    BY <2>1 DEF Wrote
  <2>3. /\ os' \in [Files -> Seq(FrameSet)] /\ Len(os'[man.incr]) >= Len(os[man.incr])
        /\ \A f \in Files : f # man.incr => os'[f] = os[f]
    BY <2>1, WroteLog
  <2>4. UNCHANGED <<wfile, files>> /\ wdb' \in Dbs \union {NoDb}
    BY <1>18 DEF WorkerFlush, DiskTypes
  <2>5. ASSUME NEW f \in Files PROVE synced[f] <= Len(os'[f])
    <3>1. synced[f] \in Nat /\ synced[f] <= Len(os[f]) /\ Len(os[f]) \in Nat /\ Len(os'[f]) \in Nat
      BY <2>3 DEF DiskTypes
    <3>2. Len(os'[f]) >= Len(os[f])
      BY <2>3, <3>1
    <3> QED BY <3>1, <3>2
  <2> QED BY <2>2, <2>3, <2>4, <2>5 DEF DiskTypes
<1>19. CASE WorkerSync
  <2>1. /\ UNCHANGED <<wfile, wdb, files, man, os, buf>> /\ synced' \in [Files -> Nat] /\ synced'[man.incr] = Len(os[man.incr])
        /\ \A f \in Files : f # man.incr => synced'[f] = synced[f]
    BY <1>19, SyncStep DEF WorkerSync
  <2>2. \A f \in Files : Len(os[f]) \in Nat
    BY DEF DiskTypes
  <2>3. ASSUME NEW f \in Files PROVE synced'[f] <= Len(os[f])
    <3>1. CASE f = man.incr
      BY <2>1, <2>2, <3>1
    <3>2. CASE f # man.incr
      BY <2>1, <3>2 DEF DiskTypes
    <3> QED BY <3>1, <3>2
  <2> QED BY <2>1, <2>3 DEF DiskTypes
<1>20. CASE WorkerIoError
  <2>1. PICK a, b : Wrote(a, b)
    BY <1>20, FlushSteps
  <2>2. man # NoManifest /\ buf' \in Seq(FrameSet) /\ UNCHANGED <<man, synced>>
    BY <2>1 DEF Wrote
  <2>3. /\ os' \in [Files -> Seq(FrameSet)] /\ Len(os'[man.incr]) >= Len(os[man.incr])
        /\ \A f \in Files : f # man.incr => os'[f] = os[f]
    BY <2>1, WroteLog
  <2>4. UNCHANGED <<wfile, files>> /\ wdb' \in Dbs \union {NoDb}
    BY <1>20 DEF WorkerIoError, DiskTypes
  <2>5. ASSUME NEW f \in Files PROVE synced[f] <= Len(os'[f])
    <3>1. synced[f] \in Nat /\ synced[f] <= Len(os[f]) /\ Len(os[f]) \in Nat /\ Len(os'[f]) \in Nat
      BY <2>3 DEF DiskTypes
    <3>2. Len(os'[f]) >= Len(os[f])
      BY <2>3, <3>1
    <3> QED BY <3>1, <3>2
  <2> QED BY <2>2, <2>3, <2>4, <2>5 DEF DiskTypes
<1>21. CASE WorkerReply
  <2>1. UNCHANGED <<wfile, wdb, files, man, synced>> /\ man # NoManifest
    BY <1>21, ReplyStep DEF WorkerReply
  <2>2. /\ os' \in [Files -> Seq(FrameSet)] /\ buf' \in Seq(FrameSet) /\ Len(os'[man.incr]) >= Len(os[man.incr])
        /\ \A f \in Files : f # man.incr => os'[f] = os[f]
    BY <1>21, ReplyStep
  <2>3. ASSUME NEW f \in Files PROVE synced[f] <= Len(os'[f])
    <3>1. synced[f] \in Nat /\ synced[f] <= Len(os[f]) /\ Len(os[f]) \in Nat /\ Len(os'[f]) \in Nat
      BY <2>2 DEF DiskTypes
    <3>2. Len(os'[f]) >= Len(os[f])
      BY <2>2, <3>1
    <3> QED BY <3>1, <3>2
  <2> QED BY <2>1, <2>2, <2>3 DEF DiskTypes
<1>22. CASE MaterializeOpen
  <2>1. /\ UNCHANGED <<wfile, wdb, man, buf, synced>> /\ mat.pc = "open" /\ man # NoManifest
        /\ UNCHANGED <<os, files>> \/ (files' = files \union {NextIncr} /\ os' = [os EXCEPT ![NextIncr] = <<Header>>])
    BY <1>22, PrepareStep DEF MaterializeOpen
  <2>2. NextIncr \in Files /\ NextIncr > man.incr
    BY <2>1, NewFile
  <2>3. <<Header>> \in Seq(FrameSet) /\ Len(<<Header>>) = 1
    BY FreshLog
  <2>4. os' \in [Files -> Seq(FrameSet)] /\ files' \subseteq Files
    BY <2>1, <2>2, <2>3 DEF DiskTypes
  <2>5. ASSUME NEW f \in Files PROVE synced[f] <= Len(os'[f])
    <3>1. CASE os'[f] = os[f]
      BY <3>1 DEF DiskTypes
    <3>2. CASE f = NextIncr /\ os'[f] = <<Header>>
      <4>1. synced[f] \in Nat /\ synced[f] <= Len(os[f]) /\ Len(os[f]) <= 1 /\ Len(os[f]) \in Nat
        BY <2>2, <3>2 DEF DiskTypes, Layout, OnlyHeader
      <4> QED BY <2>3, <3>2, <4>1
    <3> QED BY <2>1, <2>2, <3>1, <3>2 DEF DiskTypes
  <2> QED BY <2>1, <2>4, <2>5 DEF DiskTypes
<1>23. CASE MaterializeSync
  <2>1. /\ UNCHANGED <<wfile, wdb, man, buf, os, files>> /\ mat.pc = "sync" /\ man # NoManifest
        /\ synced' = [synced EXCEPT ![NextIncr] = Len(os[NextIncr])] /\ NextIncr \in Files
    BY <1>23, PrepareStep DEF MaterializeSync, SyncNew, worker
  <2>2. \A f \in Files : Len(os[f]) \in Nat
    BY DEF DiskTypes
  <2>3. synced' \in [Files -> Nat] /\ \A f \in Files : synced'[f] <= Len(os[f])
    BY <2>1, <2>2 DEF DiskTypes
  <2> QED BY <2>1, <2>3 DEF DiskTypes
<1>24. CASE MaterializeError
  BY <1>24 DEF DiskTypes, MaterializeError, GiveUp, client, disk
<1>25. CASE CommitManifestSwitch
  <2>1. /\ man'.base = mat.snap /\ man'.incr = NextIncr /\ man'.next = NextIncr + 1 /\ NextIncr \in Files
        /\ UNCHANGED <<os, synced, files>> /\ buf' = <<>> /\ wdb' = NoDb /\ wfile' = NextIncr
    BY <1>25, CommitStep
  <2>2. NextIncr \in 0 .. MaxSeq /\ NextIncr + 1 \in 1 .. MaxSeq + 1
    BY <2>1, BoundAssumption DEF Files
  <2>3. mat.snap \subseteq Units /\ <<>> \in Seq(FrameSet)
    BY FreshLog DEF ProcessTypes
  <2> QED BY <2>1, <2>2, <2>3 DEF DiskTypes
<1>26. CASE BootstrapAofLayout
  <2>1. UNCHANGED <<os, buf, synced, files, wfile, wdb>>
    BY <1>26, BootstrapStep DEF BootstrapAofLayout, worker
  <2>2. man' = man \/ (man'.base = {} /\ man'.incr = 1 /\ man'.next = 2)
    BY <1>26, BootstrapStep
  <2>3. 1 \in 0 .. MaxSeq /\ 2 \in 1 .. MaxSeq + 1
    BY BoundAssumption
  <2> QED BY <2>1, <2>2, <2>3 DEF DiskTypes
<1>27. CASE LoadStartupData
  <2>1. UNCHANGED <<man, files, buf>> /\ os' \in [Files -> Seq(FrameSet)] /\ synced' \in [Files -> Nat]
    BY <1>27, LoadStep
  <2>2. synced'[man.incr] <= Len(os'[man.incr]) /\ (\A f \in Files : f # man.incr => os'[f] = os[f] /\ synced'[f] = synced[f])
    BY <1>27, LoadStep
  <2>3. UNCHANGED <<wfile, wdb>>
    BY <1>27 DEF LoadStartupData, worker
  <2>4. \A f \in Files : synced'[f] <= Len(os'[f])
    BY <2>2 DEF DiskTypes
  <2> QED BY <2>1, <2>3, <2>4 DEF DiskTypes
<1>28. CASE Crash
  <2>1. UNCHANGED <<man, synced, files, wfile>> /\ os' \in [Files -> Seq(FrameSet)] /\ (\A f \in Files : synced[f] <= Len(os'[f])) /\ buf' = <<>> /\ wdb' = NoDb
    BY <1>28, CrashStep DEF Crash
  <2> QED BY <2>1, FreshLog DEF DiskTypes
<1>29. ASSUME NEW off \in BOOLEAN, Execute(off) PROVE DiskTypes'
  BY <1>29 DEF DiskTypes, Execute, Unlocked, Admitted, worker, disk
<1>30. ASSUME NEW p \in Policies, SetAofFsyncPolicy(p) PROVE DiskTypes'
  BY <1>30 DEF DiskTypes, SetAofFsyncPolicy, Unlocked, disk
<1>31. ASSUME NEW w \in BOOLEAN, EnableAofFromSnapshot(w) PROVE DiskTypes'
  BY <1>31 DEF DiskTypes, EnableAofFromSnapshot, Unlocked, worker, disk
<1>32. ASSUME NEW p \in Policies, OpenWriter(p) PROVE DiskTypes'
  <2>1. UNCHANGED <<man, os, synced>> /\ man.incr \in Files
    BY <1>32, OpenStep
  <2>2. UNCHANGED <<files, wfile, wdb, buf>> \/ (files' = files \union {man.incr} /\ wfile' = man.incr /\ wdb' = NoDb /\ (buf' = <<>> \/ buf' = <<Header>>))
    BY <1>32 DEF OpenWriter, worker
  <2>3. <<>> \in Seq(FrameSet) /\ <<Header>> \in Seq(FrameSet)
    BY FreshLog
  <2> QED BY <2>1, <2>2, <2>3 DEF DiskTypes
<1>33. CASE UNCHANGED vars
  BY <1>33 DEF DiskTypes, vars, client, worker, disk, counts
<1> QED BY <1>1, <1>2, <1>3, <1>4, <1>5, <1>6, <1>7, <1>8, <1>9, <1>10, <1>11, <1>12, <1>13, <1>14,
           <1>15, <1>16, <1>17, <1>18, <1>19, <1>20, <1>21, <1>22, <1>23, <1>24, <1>25, <1>26,
           <1>27, <1>28, <1>29, <1>30, <1>31, <1>32, <1>33 DEF Next, ClientStep, HolderStep,
           WorkerStep, StartStep

-----------------------------------------------------------------------------
(* The invariant.                                                          *)

\* A server that was never started has an empty disk.
LEMMA InitInv == Init => Inv
<1> SUFFICES ASSUME Init PROVE Inv
  OBVIOUS
<1>1. /\ srv = "off" /\ mem = {} /\ next = 1 /\ acked = {} /\ safe = {} /\ enabled = FALSE /\ latched = FALSE
      /\ holder = Free /\ queue = <<>> /\ wpc = "none" /\ cur = NoCmd /\ wres = "ok" /\ wfile = 1 /\ wdb = NoDb
      /\ policy = "always" /\ buf = <<>> /\ mat = NoMat /\ man = NoManifest /\ files = {}
      /\ os = [f \in Files |-> <<>>] /\ synced = [f \in Files |-> 0]
  BY DEF Init
<1>2. /\ NoCmd \in CmdSet /\ NoCmd.op = "none" /\ Free.st = "free" /\ Free.cmd = NoCmd /\ NoMat.pc = "none" /\ NoMat.by = "worker"
      /\ NoMat.snap = {} /\ NoManifest.base = {} /\ NoManifest.incr = 0 /\ NoManifest.next = 1 /\ Free \in Holders
  BY Fields, HolderTypes
<1>3. 1 \in Files /\ 0 \in 0 .. MaxSeq /\ 1 \in 1 .. MaxSeq + 1 /\ 1 \in 1 .. MaxUnits + 1 /\ 0 <= QueueCap
  BY BoundAssumption, UnitAssumption, CapAssumption DEF Files
<1>4. <<>> \in Seq(FrameSet) /\ <<>> \in Seq(CmdSet) /\ Len(<<>>) = 0
  OBVIOUS
<1>5. ProcessTypes
  BY <1>1, <1>2, <1>3, <1>4 DEF ProcessTypes, NoMat
<1>6. Switches
  BY <1>1 DEF Switches
<1>7. DiskTypes
  BY <1>1, <1>2, <1>3, <1>4 DEF DiskTypes
<1>8. Phases /\ Stages
  BY <1>1, <1>2 DEF Phases, Stages
<1>9. Waits
  BY <1>1, <1>2, <1>4 DEF Waits
<1>10. Rewrites /\ Appends /\ Snapshots
  BY <1>1, <1>2, <1>4 DEF Rewrites, Appends, Snapshots
<1>11. Contents
  BY <1>1 DEF Contents, Live
<1>12. Frames
  BY <1>1, <1>2 DEF Frames, Live
<1>13. Promises
  BY <1>1, <1>2 DEF Promises
<1>14. Layout
  <2>1. os[1] = <<>> /\ synced[1] = 0
    BY <1>1, <1>3
  <2>2. OnlyHeader
    BY <1>1, <1>4 DEF OnlyHeader
  <2> QED BY <1>1, <1>2, <2>1, <2>2 DEF Layout, Live
<1> QED BY <1>5, <1>6, <1>7, <1>8, <1>9, <1>10, <1>11, <1>12, <1>13, <1>14, TypeParts DEF Inv

\* Every step keeps the invariant.
LEMMA NextInv == Inv /\ [Next]_vars => Inv'
<1> SUFFICES ASSUME Inv, [Next]_vars PROVE Inv'
  OBVIOUS
<1>1. TypeOK /\ Phases /\ Stages /\ Waits /\ Rewrites /\ Appends /\ Snapshots /\ Contents /\ Frames /\ Promises /\ Layout
  BY DEF Inv
<1>2. ControlTypes /\ ProcessTypes /\ Switches /\ DiskTypes
  BY <1>1, ControlTyped, TypeParts
<1>3. mem \subseteq 1 .. next - 1 /\ acked \subseteq mem /\ safe \subseteq mem
  BY <1>1, SafeInMem DEF Contents
<1>4. Phases'
  BY <1>1, <1>2, PhasesStep
<1>5. Stages'
  BY <1>1, <1>2, StagesStep
<1>6. Waits'
  BY <1>1, <1>2, WaitsStep
<1>7. Rewrites'
  BY <1>1, <1>2, RewritesStep
<1>8. Appends'
  BY <1>1, <1>2, AppendsStep
<1>9. Snapshots'
  BY <1>1, <1>2, <1>3, SnapshotsStep
<1>10. Contents'
  BY <1>1, <1>2, ContentsStep
<1>11. Frames'
  BY <1>1, <1>2, FramesStep
<1>12. Promises'
  BY <1>1, <1>2, PromisesStep
<1>13. Layout'
  BY <1>1, <1>2, LayoutStep
<1>14. ProcessTypes'
  BY <1>1, <1>2, ProcessTypesStep
<1>15. Switches'
  BY <1>2, SwitchesStep
<1>16. DiskTypes'
  BY <1>1, <1>2, DiskTypesStep
<1>17. TypeOK'
  BY <1>14, <1>15, <1>16, TypePartsNext
<1> QED BY <1>4, <1>5, <1>6, <1>7, <1>8, <1>9, <1>10, <1>11, <1>12, <1>13, <1>17 DEF Inv

\* The pipeline's inductive invariant holds in every reachable state.
THEOREM PipelineInvariance == Spec => []Inv
<1>1. Init => Inv
  BY InitInv
<1>2. Inv /\ [Next]_vars => Inv'
  BY NextInv
<1> QED BY <1>1, <1>2, PTL DEF Spec

\* Every variable keeps its type, and no file is shorter than its synced part.
THEOREM TypeCorrect == Spec => []TypeOK
<1>1. Inv => TypeOK
  BY DEF Inv
<1> QED BY <1>1, PipelineInvariance, PTL

-----------------------------------------------------------------------------
(* What a restart would read.                                              *)

\* The lineage is the log, or the part of it that has left the buffer.
LEMMA LineageFacts ==
    ASSUME Inv, man # NoManifest
    PROVE  /\ Good(Lineage) /\ CmdsOf(Lineage) \subseteq CmdsOf(Log) /\ Commands = CmdAt(Lineage)
           /\ srv = "up" => Lineage = Log
<1>1. TypeOK /\ Phases /\ Layout /\ Frames
  BY DEF Inv
<1>2. /\ os[man.incr] \in Seq(FrameSet) /\ Good(Log) /\ Good(os[man.incr]) /\ CmdsOf(os[man.incr]) \subseteq CmdsOf(Log)
  BY <1>1, LogFacts
<1>3. Lineage = Log \/ Lineage = os[man.incr]
  <2>1. os[man.incr] \o <<>> = os[man.incr]
    BY <1>2, Joined
  <2> QED BY <2>1 DEF Lineage, Log
<1>4. srv = "up" => Lineage = Log
  BY <1>1 DEF Phases, Lineage, Log
<1>5. Good(Lineage) /\ CmdsOf(Lineage) \subseteq CmdsOf(Log)
  BY <1>2, <1>3
<1>6. Commands = CmdAt(Lineage)
  <2>1. Lineage \in Seq(FrameSet)
    BY <1>5 DEF Good
  <2> HIDE DEF Lineage
  <2>2. DOMAIN Lineage = 1 .. Len(Lineage)
    BY <2>1
  <2> QED BY <2>2 DEF Commands, CmdAt
<1> QED BY <1>4, <1>5, <1>6

\* Without a manifest there is nothing to read.
LEMMA NoLineage ==
    ASSUME man = NoManifest
    PROVE  Commands = {} /\ man.base = {}
<1>1. Lineage = <<>> /\ man.base = {}
  BY Fields DEF Lineage
<1>2. DOMAIN <<>> = {}
  OBVIOUS
<1> HIDE DEF Lineage
<1> QED BY <1>1, <1>2 DEF Commands

\* The records of the INCR file follow the order in which the writes ran, and
\* all of them ran after the snapshot of the BASE.
THEOREM LogIsOrdered == Spec => []LogOrdered
<1>1. ASSUME Inv PROVE LogOrdered
  <2>1. CASE man = NoManifest
    BY <2>1, NoLineage DEF LogOrdered
  <2>2. CASE man # NoManifest
    <3>1. /\ Good(Lineage) /\ CmdsOf(Lineage) \subseteq CmdsOf(Log) /\ Commands = CmdAt(Lineage)
      BY <1>1, <2>2, LineageFacts
    <3>2. \A u \in man.base, v \in CmdsOf(Log) : u < v
      BY <1>1, <2>2 DEF Inv, Frames
    <3> HIDE DEF Lineage, Commands
    <3>3. \A i, j \in Commands : i < j => Lineage[i].arg < Lineage[j].arg
      BY <3>1 DEF Good, Ordered
    <3>4. \A i \in Commands : Lineage[i].arg \in CmdsOf(Log)
      BY <3>1 DEF CmdsOf
    <3> QED BY <3>2, <3>3, <3>4 DEF LogOrdered
  <2> QED BY <2>1, <2>2
<1> QED BY <1>1, PipelineInvariance, PTL

\* Every record is replayed in the database it ran in.
THEOREM RecordsInRightDb == Spec => []RightDb
<1>1. ASSUME Inv PROVE RightDb
  <2>1. CASE man = NoManifest
    BY <2>1, NoLineage DEF RightDb
  <2>2. CASE man # NoManifest
    <3>1. Good(Lineage) /\ Commands = CmdAt(Lineage)
      BY <1>1, <2>2, LineageFacts
    <3> HIDE DEF Lineage, Commands
    <3> SUFFICES ASSUME NEW i \in Commands
                 PROVE  \E j \in 1 .. i - 1 : /\ Lineage[j] = Frame("select", DbOf[Lineage[i].arg])
                                              /\ \A l \in j + 1 .. i : Lineage[l].kind # "select"
      BY DEF RightDb
    <3>2. i \in 1 .. Len(Lineage) /\ Lineage[i].kind = "cmd" /\ Lineage \in Seq(FrameSet)
      BY <3>1 DEF CmdAt, Good
    <3>3. PICK j \in 1 .. i : /\ Lineage[j] = Frame("select", DbOf[Lineage[i].arg])
                              /\ \A l \in j + 1 .. i : Lineage[l].kind # "select"
      BY <3>1 DEF Good, Selected, LastSelect
    <3>4. j # i
      BY <3>2, <3>3, FrameTypes
    <3>5. j \in 1 .. i - 1
      BY <3>2, <3>4
    <3> QED BY <3>3, <3>5
  <2> QED BY <2>1, <2>2
<1> QED BY <1>1, PipelineInvariance, PTL

\* While writes are accepted and none is under way, every applied write is in
\* the BASE, in the log or on its way there.
THEOREM NoHole == Spec => []NoHoleInLog
<1>1. ASSUME Inv PROVE NoHoleInLog
  <2> SUFFICES ASSUME srv = "up", enabled, holder = Free, ~latched, NEW u \in mem, u \notin man.base
               PROVE  \E i \in Commands : Lineage[i].arg = u
    BY DEF NoHoleInLog
  <2>1. Phases /\ Contents
    BY <1>1 DEF Inv
  <2>2. Free.st = "free" /\ Free.cmd.op = "none"
    BY Fields
  <2>3. Live /\ ~Stopped /\ InHand = {}
    BY <2>1, <2>2 DEF Phases, Live, Stopped, InHand, HolderAppends
  <2>4. u \in Logged /\ man # NoManifest
    BY <2>1, <2>3 DEF Contents
  <2>5. u \in CmdsOf(Log)
    BY <2>4 DEF Logged
  <2>6. Lineage = Log /\ Commands = CmdAt(Lineage)
    BY <1>1, <2>4, LineageFacts
  <2> HIDE DEF Lineage, Commands, Log
  <2> QED BY <2>5, <2>6 DEF CmdsOf
<1> QED BY <1>1, PipelineInvariance, PTL

\* Start-up is refused only if no write was ever promised.
THEOREM NoPromiseRefused == Spec => []RefusedOnlyWhenNothingPromised
<1>1. Inv => RefusedOnlyWhenNothingPromised
  BY DEF Inv, Promises, RefusedOnlyWhenNothingPromised
<1> QED BY <1>1, PipelineInvariance, PTL

-----------------------------------------------------------------------------
(* The pipeline implements the durability contract.                        *)

\* L holds the elements of M before any of its own; those up to k.
Earliest(L, M) == \A v \in M, w \in L : v < w => v \in L
UpTo(L, M, k)  == \A u \in M : u \in L <=> u <= k

\* A finite set of positive numbers that holds all smaller elements of a
\* larger set is a prefix of it.
LEMMA PrefixOf ==
    ASSUME NEW n \in Nat, NEW M \in SUBSET (1 .. n), NEW L \in SUBSET M, Earliest(L, M)
    PROVE  \E k \in {0} \union M : UpTo(L, M, k)
<1>1. \A v \in M : v \in Nat /\ v >= 1 /\ v <= n
  OBVIOUS
<1>2. CASE L = {}
  <2>1. \A u \in M : ~(u <= 0)
    BY <1>1
  <2> QED BY <1>2, <2>1 DEF UpTo
<1>3. CASE L # {}
  <2> DEFINE T == {x \in 0 .. n : n - x \in L}
  <2>1. T \subseteq Nat /\ T # {}
    <3>1. PICK w \in L : TRUE
      BY <1>3
    <3>2. n - w \in 0 .. n /\ n - (n - w) = w
      BY <1>1
    <3>3. n - w \in T
      BY <3>2
    <3>4. T # {}
      BY <3>3, Zenon
    <3>5. \A x \in T : x \in Nat
      OBVIOUS
    <3> QED BY <3>4, <3>5
  <2>2. PICK m \in T : \A x \in T : m <= x
    <3> HIDE DEF T
    <3> QED BY <2>1, LeastNat
  <2>3. n - m \in L /\ n - m \in M
    BY <2>2
  <2>4. \A w \in L : w <= n - m
    <3> SUFFICES ASSUME NEW w \in L PROVE w <= n - m
      OBVIOUS
    <3>1. w \in 1 .. n
      OBVIOUS
    <3>2. n - w \in 0 .. n /\ n - (n - w) = w
      BY <3>1
    <3>3. n - w \in T
      BY <3>2
    <3>4. m \in 0 .. n /\ m <= n - w
      BY <2>2, <3>3
    <3> QED BY <3>1, <3>4
  <2>5. \A u \in M : u \in L <=> u <= n - m
    <3> SUFFICES ASSUME NEW u \in M PROVE u \in L <=> u <= n - m
      OBVIOUS
    <3>1. u <= n - m => u = n - m \/ u < n - m
      BY <1>1, <2>2
    <3> QED BY <2>3, <2>4, <3>1 DEF Earliest
  <2> QED BY <2>3, <2>5 DEF UpTo
<1> QED BY <1>2, <1>3

SafeApplied == safe \subseteq mem

\* What is promised is in memory, or was when the server stopped.
THEOREM PromisedIsApplied == Spec => []SafeApplied
<1>1. Inv => SafeApplied
  BY SafeInMem DEF Inv, SafeApplied
<1> QED BY <1>1, PipelineInvariance, PTL

\* Each step is a step of the contract, or changes nothing it speaks of.
LEMMA DurableStep ==
    ASSUME Inv, SafeApplied', [Next]_vars
    PROVE  [D!DNext]_(D!dvars)
<1>1. /\ TypeOK /\ Phases /\ Stages /\ Rewrites /\ Layout /\ Frames /\ Contents
  BY DEF Inv
<1>2. CASE FlushEverysec
  <2>1. UNCHANGED <<mem, safe, srv>>
    BY <1>2 DEF FlushEverysec, Unlocked, worker
  <2> QED BY <2>1 DEF D!dvars
<1>3. CASE StartBgRewriteAof
  <2>1. UNCHANGED <<mem, safe, srv>>
    BY <1>3 DEF StartBgRewriteAof, Unlocked, RewriteInProgress, worker
  <2> QED BY <2>1 DEF D!dvars
<1>4. CASE DisableAof
  <2>1. UNCHANGED <<mem, safe, srv>>
    BY <1>4 DEF DisableAof, Unlocked, worker
  <2> QED BY <2>1 DEF D!dvars
<1>5. CASE ShutdownAofForExit
  <2>1. UNCHANGED <<mem, safe, srv>>
    BY <1>5 DEF ShutdownAofForExit, Unlocked, worker
  <2> QED BY <2>1 DEF D!dvars
<1>6. CASE AbortClientTask
  <2>1. UNCHANGED <<mem, safe, srv>>
    BY <1>6 DEF AbortClientTask, worker
  <2> QED BY <2>1 DEF D!dvars
<1>7. CASE Enqueue
  <2>1. UNCHANGED <<mem, safe, srv>>
    BY <1>7 DEF Enqueue
  <2> QED BY <2>1 DEF D!dvars
<1>8. CASE EnqueueTimeout
  <2>1. UNCHANGED <<mem, safe, srv>>
    BY <1>8 DEF EnqueueTimeout, LatchOnTimeout, worker
  <2> QED BY <2>1 DEF D!dvars
<1>9. CASE ReplyTimeout
  <2>1. UNCHANGED <<mem, safe, srv>>
    BY <1>9 DEF ReplyTimeout, worker
  <2> QED BY <2>1 DEF D!dvars
<1>10. CASE AppendDone
  <2>1. srv = "up" /\ UNCHANGED <<mem, srv>> /\ safe \subseteq safe'
    BY <1>10 DEF AppendDone
  <2>2. safe' \subseteq mem
    BY <2>1 DEF SafeApplied
  <2>3. D!DPromise
    BY <2>1, <2>2 DEF D!DPromise
  <2> QED BY <2>3 DEF D!DNext
<1>11. CASE FlushDone
  <2>1. srv = "up" /\ UNCHANGED <<mem, srv>> /\ safe \subseteq safe'
    BY <1>11 DEF FlushDone
  <2>2. safe' \subseteq mem
    BY <2>1 DEF SafeApplied
  <2>3. D!DPromise
    BY <2>1, <2>2 DEF D!DPromise
  <2> QED BY <2>3 DEF D!DNext
<1>12. CASE PolicyDone
  <2>1. UNCHANGED <<mem, safe, srv>>
    BY <1>12 DEF PolicyDone, worker
  <2> QED BY <2>1 DEF D!dvars
<1>13. CASE DisableDone
  <2>1. srv = "up" /\ UNCHANGED <<mem, srv>> /\ safe \subseteq safe'
    BY <1>13 DEF DisableDone
  <2>2. safe' \subseteq mem
    BY <2>1 DEF SafeApplied
  <2>3. D!DPromise
    BY <2>1, <2>2 DEF D!DPromise
  <2> QED BY <2>3 DEF D!DNext
<1>14. CASE ExitDone
  <2>1. srv = "up" /\ srv' = "off" /\ mem' = mem /\ safe \subseteq safe'
    BY <1>14 DEF ExitDone
  <2>2. safe' \subseteq mem
    BY <2>1 DEF SafeApplied
  <2>3. D!DStop
    BY <2>1, <2>2 DEF D!DStop
  <2> QED BY <2>3 DEF D!DNext
<1>15. CASE WorkerAppend
  <2>1. UNCHANGED <<mem, safe, srv>>
    BY <1>15 DEF WorkerAppend, FsyncSteps, client
  <2> QED BY <2>1 DEF D!dvars
<1>16. CASE WorkerAppendError
  <2>1. UNCHANGED <<mem, safe, srv>>
    BY <1>16 DEF WorkerAppendError, client
  <2> QED BY <2>1 DEF D!dvars
<1>17. CASE WorkerForceFsync
  <2>1. UNCHANGED <<mem, safe, srv>>
    BY <1>17 DEF WorkerForceFsync, client
  <2> QED BY <2>1 DEF D!dvars
<1>18. CASE WorkerSetPolicy
  <2>1. UNCHANGED <<mem, safe, srv>>
    BY <1>18 DEF WorkerSetPolicy, client
  <2> QED BY <2>1 DEF D!dvars
<1>19. CASE WorkerFlush
  <2>1. UNCHANGED <<mem, safe, srv>>
    BY <1>19 DEF WorkerFlush, client
  <2> QED BY <2>1 DEF D!dvars
<1>20. CASE WorkerSync
  <2>1. UNCHANGED <<mem, safe, srv>>
    BY <1>20 DEF WorkerSync, RewriteBase, client, worker
  <2> QED BY <2>1 DEF D!dvars
<1>21. CASE WorkerIoError
  <2>1. UNCHANGED <<mem, safe, srv>>
    BY <1>21 DEF WorkerIoError, client
  <2> QED BY <2>1 DEF D!dvars
<1>22. CASE WorkerReply
  <2>1. UNCHANGED <<mem, safe, srv>>
    BY <1>22 DEF WorkerReply, DropWriter, Answered
  <2> QED BY <2>1 DEF D!dvars
<1>23. CASE MaterializeOpen
  <2>1. UNCHANGED <<mem, safe, srv>>
    BY <1>23 DEF MaterializeOpen, GiveUp, client
  <2> QED BY <2>1 DEF D!dvars
<1>24. CASE MaterializeSync
  <2>1. UNCHANGED <<mem, safe, srv>>
    BY <1>24 DEF MaterializeSync, client, worker
  <2> QED BY <2>1 DEF D!dvars
<1>25. CASE MaterializeError
  <2>1. UNCHANGED <<mem, safe, srv>>
    BY <1>25 DEF MaterializeError, GiveUp, client
  <2> QED BY <2>1 DEF D!dvars
<1>26. CASE CommitManifestSwitch
  <2>1. srv = "up" /\ UNCHANGED <<mem, srv>> /\ safe \subseteq safe'
    BY <1>1, CommitStep, <1>26 DEF CommitManifestSwitch
  <2>2. safe' \subseteq mem
    BY <2>1 DEF SafeApplied
  <2>3. D!DPromise
    BY <2>1, <2>2 DEF D!DPromise
  <2> QED BY <2>3 DEF D!DNext
<1>27. CASE BootstrapAofLayout
  <2>1. UNCHANGED <<mem, safe>> /\ srv # "up" /\ srv' # "up"
    BY <1>27 DEF BootstrapAofLayout, client, worker
  <2> QED BY <2>1 DEF D!dvars
<1>28. CASE LoadStartupData
  <2>1. man # NoManifest /\ man' = man /\ srv' = "up" /\ mem' = Logged' /\ safe' = safe /\ srv = "open"
    BY <1>1, <1>28, LoadStep DEF LoadStartupData
  <2>2. PICK n \in 0 .. Len(Log) : Log' = First(Log, n)
    BY <1>1, <1>28, LoadStep
  <2>3. Logged' \subseteq mem /\ \A v \in mem, w \in Logged' : v < w => v \in Logged'
    BY <1>1, <2>1, <2>2, ShorterLog
  <2>4. mem \subseteq 1 .. next - 1 /\ next - 1 \in Nat
    BY <1>1 DEF TypeOK, Contents
  <2> HIDE DEF Logged
  <2>5. \E k \in {0} \union mem : Logged' = {u \in mem : u <= k}
    <3>1. PICK L \in {Logged'} : L = Logged'
      OBVIOUS
    <3>2. PICK M \in {mem} : M = mem
      OBVIOUS
    <3>3. PICK b \in Nat : b = next - 1
      BY <2>4
    <3>4. M \in SUBSET (1 .. b) /\ L \in SUBSET M /\ Earliest(L, M)
      BY <2>3, <2>4, <3>1, <3>2, <3>3 DEF Earliest
    <3>5. PICK k \in {0} \union M : UpTo(L, M, k)
      BY <3>3, <3>4, PrefixOf
    <3>6. L = {u \in M : u <= k}
      BY <3>4, <3>5, Zenon DEF UpTo
    <3> QED BY <3>1, <3>2, <3>6
  <2>6. safe \subseteq mem'
    BY <2>1 DEF SafeApplied
  <2>7. D!DRestart
    BY <2>1, <2>5, <2>6 DEF D!DRestart
  <2> QED BY <2>7 DEF D!DNext
<1>29. CASE Crash
  <2>1. srv' = "off" /\ mem' = mem /\ safe' = safe
    BY <1>29 DEF Crash
  <2>2. safe' \subseteq mem
    BY <2>1 DEF SafeApplied
  <2>3. CASE srv = "up"
    <3>1. D!DStop
      BY <2>1, <2>2, <2>3 DEF D!DStop
    <3> QED BY <3>1 DEF D!DNext
  <2>4. CASE srv # "up"
    BY <2>1, <2>4 DEF D!dvars
  <2> QED BY <2>3, <2>4
<1>30. ASSUME NEW off \in BOOLEAN, Execute(off) PROVE [D!DNext]_(D!dvars)
  <2>1. srv = "up" /\ UNCHANGED <<srv, safe>> /\ mem' = mem \union {next} /\ \A v \in mem : v < next
    BY <1>1, <1>30 DEF Execute, Unlocked, Contents, TypeOK
  <2>2. D!DWrite
    <3>1. next \in mem'
      BY <2>1
    <3> QED BY <2>1, <3>1 DEF D!DWrite
  <2> QED BY <2>2 DEF D!DNext
<1>31. ASSUME NEW p \in Policies, SetAofFsyncPolicy(p) PROVE [D!DNext]_(D!dvars)
  <2>1. UNCHANGED <<mem, safe, srv>>
    BY <1>31 DEF SetAofFsyncPolicy
  <2> QED BY <2>1 DEF D!dvars
<1>32. ASSUME NEW w \in BOOLEAN, EnableAofFromSnapshot(w) PROVE [D!DNext]_(D!dvars)
  <2>3. CASE w
    <3>1. srv = "up" /\ UNCHANGED <<srv, safe>> /\ mem' = mem \union {next} /\ \A v \in mem : v < next
      BY <1>1, <1>32, <2>3 DEF EnableAofFromSnapshot, Unlocked, Contents, TypeOK
    <3>2. D!DWrite
      <4>1. next \in mem'
        BY <3>1
      <4> QED BY <3>1, <4>1 DEF D!DWrite
    <3> QED BY <3>2 DEF D!DNext
  <2>4. CASE ~w
    <3>1. UNCHANGED <<mem, safe, srv>>
      BY <1>32, <2>4 DEF EnableAofFromSnapshot
    <3> QED BY <3>1 DEF D!dvars
  <2> QED BY <2>3, <2>4
<1>33. ASSUME NEW p \in Policies, OpenWriter(p) PROVE [D!DNext]_(D!dvars)
  <2>1. UNCHANGED <<mem, safe>> /\ srv # "up" /\ srv' # "up"
    BY <1>33 DEF OpenWriter, client
  <2> QED BY <2>1 DEF D!dvars
<1>34. CASE UNCHANGED vars
  <2>1. UNCHANGED <<mem, safe, srv>>
    BY <1>34 DEF vars, client
  <2> QED BY <2>1 DEF D!dvars
<1> QED BY <1>2, <1>3, <1>4, <1>5, <1>6, <1>7, <1>8, <1>9, <1>10, <1>11, <1>12, <1>13, <1>14,
           <1>15, <1>16, <1>17, <1>18, <1>19, <1>20, <1>21, <1>22, <1>23, <1>24, <1>25, <1>26,
           <1>27, <1>28, <1>29, <1>30, <1>31, <1>32, <1>33, <1>34 DEF Next, ClientStep, HolderStep,
           WorkerStep, StartStep

\* The pipeline implements the durability contract: whatever the policy, the
\* failures and the crash points, a restart recovers a prefix of the writes
\* with every write acknowledged under always, flushed, or snapshotted.
THEOREM PipelineIsDurable == Spec => Durable
<1>1. Init => D!DInit
  BY DEF Init, D!DInit
<1>2. Inv /\ SafeApplied' /\ [Next]_vars => [D!DNext]_(D!dvars)
  BY DurableStep
<1> QED BY <1>1, <1>2, PipelineInvariance, PromisedIsApplied, PTL DEF Spec, Durable, D!DSpec
=============================================================================
