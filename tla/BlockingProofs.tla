--------------------------- MODULE BlockingProofs ---------------------------
(***************************************************************************)
(* Proofs about Blocking for every set of clients, keys and commands and   *)
(* every bound: the registry of blocked clients is exact, and no value is  *)
(* lost or given twice.                                                    *)
(***************************************************************************)
EXTENDS Blocking, SubsequencesProofs, FiniteSetTheorems, TLAPS

USE CommandsAssumption, BoundsAssumption

\* The types of what a session and the registry keep.
SessionTypes ==
    /\ keyWaiters \in [Keys -> Seq(Clients)]
    /\ clientKeys \in [Clients -> SUBSET Keys]
    /\ blocked \in [Clients -> BOOLEAN]
    /\ pc \in [Clients -> PcStates]
    /\ cmd \in [Clients -> Commands \cup {NoCmd}]

\* The two indexes hold the same registrations, without duplicates.
IndexesAgree ==
    /\ \A k \in Keys, c \in Clients : k \in clientKeys[c] <=> c \in ToSet(keyWaiters[k])
    /\ \A k \in Keys : IsInjective(keyWaiters[k])

\* A registered client is shown as blocked and is in the retry loop.  The last
\* conjunct is what makes this inductive: the flag is set before registration.
InLoop(c) ==
    /\ clientKeys[c] # {} => blocked[c] /\ pc[c] \in {"register", "check", "wait", "retry", "clear", "finish"}
    /\ pc[c] \in {"check", "wait", "retry"} => clientKeys[c] = WatchKeys(cmd[c])
    /\ pc[c] \in {"idle", "gone"} => clientKeys[c] = {} /\ ~blocked[c]
    /\ pc[c] \in {"register", "check", "wait", "retry", "clear"} => blocked[c]

RegistryInv == SessionTypes /\ IndexesAgree /\ \A c \in Clients : InLoop(c)

-----------------------------------------------------------------------------
(* The registry.                                                           *)

\* The community modules' names for what Subsequences is proved with.
LEMMA SameNotions == \A s : ToSet(s) = Elements(s) /\ (IsInjective(s) <=> NoRepeats(s))
BY DEF ToSet, Elements, IsInjective, NoRepeats

\* A command waits for keys only.
LEMMA WatchKeysType == \A m \in Commands \cup {NoCmd} : WatchKeys(m) \subseteq Keys
<1> SUFFICES ASSUME NEW m \in Commands \cup {NoCmd} PROVE WatchKeys(m) \subseteq Keys
  OBVIOUS
<1>1. CASE m = NoCmd
  BY <1>1 DEF NoCmd, WatchKeys, ToSet
<1>2. CASE m \in Commands
  <2>1. m.keys \in Seq(Keys) /\ Len(m.keys) >= 1
    BY <1>2
  <2>2. m.keys[1] \in Keys /\ ToSet(m.keys) \subseteq Keys
    BY <2>1 DEF ToSet
  <2> QED BY <2>2 DEF WatchKeys
<1> QED BY <1>1, <1>2

\* clear takes the client, and nobody else, out of the queues.
LEMMA ClearedQueues ==
    ASSUME SessionTypes, IndexesAgree, NEW c \in Clients, NEW k \in Keys
    PROVE  /\ Cleared(c)[k] \in Seq(Clients) /\ IsInjective(Cleared(c)[k])
           /\ ToSet(Cleared(c)[k]) = ToSet(keyWaiters[k]) \ {c}
<1> DEFINE q == keyWaiters[k]
           o == Only(q, Clients \ {c})
<1>1. q \in Seq(Clients) /\ ToSet(q) \subseteq Clients /\ IsInjective(q)
  BY DEF SessionTypes, IndexesAgree, ToSet
<1>2. CASE k \in clientKeys[c]
  <2>1. Cleared(c)[k] = o
    BY <1>2 DEF Cleared
  <2> HIDE DEF q
  <2>2. o \in Seq(Clients) /\ Elements(o) = Elements(q) \intersect (Clients \ {c}) /\ (NoRepeats(q) => NoRepeats(o))
    BY <1>1, OnlyType, OnlyElements
  <2> HIDE DEF o
  <2> QED BY <1>1, <2>1, <2>2, SameNotions DEF q
<1>3. CASE k \notin clientKeys[c]
  <2>1. Cleared(c)[k] = q
    BY <1>3 DEF Cleared
  <2>2. c \notin ToSet(q)
    BY <1>3 DEF IndexesAgree
  <2> QED BY <1>1, <2>1, <2>2
<1> QED BY <1>2, <1>3

\* clear_blocked_client takes one client out of both indexes.
LEMMA ClearStep ==
    ASSUME SessionTypes, IndexesAgree, NEW c \in Clients, ClearBlockedClient(c)
    PROVE  /\ keyWaiters' \in [Keys -> Seq(Clients)] /\ clientKeys' \in [Clients -> SUBSET Keys] /\ IndexesAgree'
           /\ clientKeys'[c] = {} /\ \A d \in Clients : d # c => clientKeys'[d] = clientKeys[d]
<1>1. keyWaiters' = Cleared(c) /\ clientKeys' = [clientKeys EXCEPT ![c] = {}]
  BY DEF ClearBlockedClient
<1>2. keyWaiters' \in [Keys -> Seq(Clients)]
  <2>1. Cleared(c) = [k \in Keys |-> Cleared(c)[k]]
    BY DEF Cleared
  <2> QED BY <1>1, <2>1, ClearedQueues
<1>3. clientKeys' \in [Clients -> SUBSET Keys] /\ clientKeys'[c] = {} /\ \A d \in Clients : d # c => clientKeys'[d] = clientKeys[d]
  BY <1>1 DEF SessionTypes
<1>4. \A k \in Keys : ToSet(keyWaiters'[k]) = ToSet(keyWaiters[k]) \ {c} /\ IsInjective(keyWaiters'[k])
  BY <1>1, ClearedQueues
<1>5. IndexesAgree'
  BY <1>3, <1>4 DEF IndexesAgree
<1> QED BY <1>2, <1>3, <1>5

\* register_blocked_client replaces the client's keys in both indexes.
LEMMA RegisterStep ==
    ASSUME SessionTypes, IndexesAgree, NEW c \in Clients, NEW keys \in SUBSET Keys, RegisterBlockedClient(c, keys)
    PROVE  /\ keyWaiters' \in [Keys -> Seq(Clients)] /\ clientKeys' \in [Clients -> SUBSET Keys] /\ IndexesAgree'
           /\ clientKeys'[c] = keys /\ \A d \in Clients : d # c => clientKeys'[d] = clientKeys[d]
<1>1. /\ keyWaiters' = [k \in Keys |-> IF k \in keys /\ c \notin ToSet(Cleared(c)[k])
                                       THEN Append(Cleared(c)[k], c) ELSE Cleared(c)[k]]
      /\ clientKeys' = [clientKeys EXCEPT ![c] = keys]
  BY DEF RegisterBlockedClient
<1>2. clientKeys' \in [Clients -> SUBSET Keys] /\ clientKeys'[c] = keys /\ \A d \in Clients : d # c => clientKeys'[d] = clientKeys[d]
  BY <1>1 DEF SessionTypes
<1>3. ASSUME NEW k \in Keys
      PROVE  /\ keyWaiters'[k] \in Seq(Clients) /\ IsInjective(keyWaiters'[k])
             /\ ToSet(keyWaiters'[k]) = IF k \in keys THEN (ToSet(keyWaiters[k]) \ {c}) \union {c}
                                        ELSE ToSet(keyWaiters[k]) \ {c}
  <2> DEFINE q == Cleared(c)[k]
  <2>1. q \in Seq(Clients) /\ IsInjective(q) /\ ToSet(q) = ToSet(keyWaiters[k]) \ {c}
    BY ClearedQueues
  <2>2. keyWaiters'[k] = IF k \in keys THEN Append(q, c) ELSE q
    <3>1. c \notin ToSet(q)
      BY <2>1
    <3> QED BY <1>1, <3>1
  <2> HIDE DEF q
  <2>3. Append(q, c) \in Seq(Clients) /\ IsInjective(Append(q, c)) /\ ToSet(Append(q, c)) = ToSet(q) \union {c}
    <3>1. Elements(Append(q, c)) = Elements(q) \union {c} /\ (NoRepeats(q) /\ c \notin Elements(q) => NoRepeats(Append(q, c)))
      BY <2>1, AppendElements
    <3>2. Append(q, c) \in Seq(Clients)
      BY <2>1
    <3> QED BY <2>1, <3>1, <3>2, SameNotions, Zenon
  <2> QED BY <2>1, <2>2, <2>3
<1>4. keyWaiters' \in [Keys -> Seq(Clients)]
  <2>1. keyWaiters' = [k \in Keys |-> keyWaiters'[k]]
    BY <1>1
  <2> QED BY <1>3, <2>1
<1>5. IndexesAgree'
  <2>1. \A k \in Keys : IsInjective(keyWaiters'[k])
    BY <1>3
  <2>2. ASSUME NEW k \in Keys, NEW d \in Clients
        PROVE  k \in clientKeys'[d] <=> d \in ToSet(keyWaiters'[k])
    <3> DEFINE w == ToSet(keyWaiters[k])
               v == ToSet(keyWaiters'[k])
    <3>1. v = IF k \in keys THEN (w \ {c}) \union {c} ELSE w \ {c}
      BY <1>3
    <3>2. k \in clientKeys[d] <=> d \in w
      BY DEF IndexesAgree
    <3> HIDE DEF w, v
    <3>3. CASE d = c
      BY <1>2, <3>1, <3>3 DEF v
    <3>4. CASE d # c
      BY <1>2, <3>1, <3>2, <3>4 DEF v
    <3> QED BY <3>3, <3>4
  <2> QED BY <2>1, <2>2 DEF IndexesAgree
<1> QED BY <1>2, <1>4, <1>5

-----------------------------------------------------------------------------
(* The session's steps.                                                    *)

\* What one execution leaves of the session: it waits, or was answered.
LEMMA ExecuteSession ==
    ASSUME NEW c, NEW m, NEW wait, NEW answered, NEW isDue, Execute(c, m, wait, answered, isDue)
    PROVE  \/ pc' = [pc EXCEPT ![c] = wait] /\ cmd' = [cmd EXCEPT ![c] = m]
           \/ pc' = [pc EXCEPT ![c] = answered] /\ cmd' = [cmd EXCEPT ![c] = NoCmd]
BY DEF Execute, Forget

\* A step of one session keeps the registry exact when it does so for that
\* session: nobody else's flag, place or registration changes.
LEMMA OneSession ==
    ASSUME RegistryInv, NEW c \in Clients, SessionTypes', IndexesAgree', InLoop(c)',
           \A d \in Clients : d # c => /\ clientKeys'[d] = clientKeys[d] /\ blocked'[d] = blocked[d]
                                       /\ pc'[d] = pc[d] /\ cmd'[d] = cmd[d]
    PROVE  RegistryInv'
<1>1. ASSUME NEW d \in Clients, d # c PROVE InLoop(d)'
  BY <1>1 DEF RegistryInv, InLoop
<1> QED BY <1>1 DEF RegistryInv

\* No client is registered at first.
LEMMA RegistryInit == Init => RegistryInv
<1> SUFFICES ASSUME Init PROVE RegistryInv
  OBVIOUS
<1>1. SessionTypes
  BY DEF Init, SessionTypes, PcStates
<1>2. IndexesAgree
  BY DEF Init, IndexesAgree, ToSet, IsInjective
<1>3. \A c \in Clients : InLoop(c)
  BY DEF Init, InLoop
<1> QED BY <1>1, <1>2, <1>3 DEF RegistryInv

\* The steps of a session that leave both indexes as they are.
LEMMA QuietSteps ==
    ASSUME RegistryInv, NEW c \in Clients, UNCHANGED registry,
           \/ Flag(c) \/ CheckDeadline(c) \/ Notified(c) \/ Sleep(c) \/ ReadBytes(c) \/ PeerClosed(c)
           \/ Unflag(c) \/ Disconnect(c) \/ Expire(c) \/ Retry(c) \/ (\E m \in Commands : Call(c, m))
    PROVE  RegistryInv'
<1>0. keyWaiters' = keyWaiters /\ clientKeys' = clientKeys
  BY DEF registry
<1>1. IndexesAgree'
  BY <1>0 DEF RegistryInv, IndexesAgree
<1>2. SessionTypes /\ InLoop(c)
  BY DEF RegistryInv
<1> DEFINE Goal == /\ SessionTypes' /\ InLoop(c)'
                   /\ \A d \in Clients : d # c => blocked'[d] = blocked[d] /\ pc'[d] = pc[d] /\ cmd'[d] = cmd[d]
<1> SUFFICES Goal
  BY <1>0, <1>1, OneSession
<1>3. CASE Flag(c)
  BY <1>0, <1>2, <1>3 DEF Flag, Goto, SessionTypes, InLoop, PcStates
<1>4. CASE CheckDeadline(c)
  BY <1>0, <1>2, <1>4 DEF CheckDeadline, Goto, Forget, SessionTypes, InLoop, PcStates
<1>5. CASE Notified(c)
  BY <1>0, <1>2, <1>5 DEF Notified, Goto, SessionTypes, InLoop, PcStates
<1>6. CASE Sleep(c)
  BY <1>0, <1>2, <1>6 DEF Sleep, Goto, SessionTypes, InLoop, PcStates
<1>7. CASE ReadBytes(c)
  BY <1>0, <1>2, <1>7 DEF ReadBytes, Goto, SessionTypes, InLoop, PcStates
<1>8. CASE PeerClosed(c)
  BY <1>0, <1>2, <1>8 DEF PeerClosed, Goto, Forget, SessionTypes, InLoop, PcStates
<1>9. CASE Unflag(c)
  BY <1>0, <1>2, <1>9 DEF Unflag, Goto, SessionTypes, InLoop, PcStates
<1>10. CASE Disconnect(c)
  BY <1>0, <1>2, <1>10 DEF Disconnect, Goto, SessionTypes, InLoop, PcStates
<1>11. CASE Expire(c)
  BY <1>0, <1>2, <1>11 DEF Expire, Goto, SessionTypes, InLoop, PcStates
<1>12. CASE Retry(c)
  <2>0. PICK m, isDue : m = cmd[c] /\ isDue = Deadline(c)
    OBVIOUS
  <2>1. pc[c] = "retry" /\ Execute(c, m, "register", "clear", isDue) /\ UNCHANGED blocked
    BY <1>12, <2>0 DEF Retry
  <2>2. m \in Commands \cup {NoCmd} /\ "register" \in PcStates /\ "clear" \in PcStates
    BY <1>2, <2>0 DEF SessionTypes, PcStates
  <2>3. \/ pc' = [pc EXCEPT ![c] = "register"] /\ cmd' = [cmd EXCEPT ![c] = m]
        \/ pc' = [pc EXCEPT ![c] = "clear"] /\ cmd' = [cmd EXCEPT ![c] = NoCmd]
    BY <2>1, ExecuteSession
  <2>4. SessionTypes'
    <3>1. NoCmd \in Commands \cup {NoCmd} /\ m \in Commands \cup {NoCmd}
      BY <2>2
    <3> DEFINE A == Commands \cup {NoCmd}
    <3> HIDE DEF A, NoCmd
    <3>2. cmd \in [Clients -> A] /\ pc \in [Clients -> PcStates]
      BY <1>2 DEF SessionTypes, A
    <3>3. cmd' \in [Clients -> A] /\ pc' \in [Clients -> PcStates]
      BY <2>2, <2>3, <3>1, <3>2 DEF A
    <3> QED BY <1>0, <1>2, <2>1, <3>3 DEF SessionTypes, A
  <2>5. InLoop(c)'
    BY <1>0, <1>2, <2>1, <2>2, <2>3 DEF SessionTypes, InLoop
  <2>6. \A d \in Clients : d # c => blocked'[d] = blocked[d] /\ pc'[d] = pc[d] /\ cmd'[d] = cmd[d]
    BY <1>2, <2>1, <2>3 DEF SessionTypes
  <2> QED BY <2>4, <2>5, <2>6
<1>13. CASE \E m \in Commands : Call(c, m)
  <2>0. PICK m \in Commands : Call(c, m)
    BY <1>13
  <2>1. pc[c] = "idle" /\ Execute(c, m, "flag", "unflag", FALSE) /\ UNCHANGED blocked
    BY <2>0 DEF Call
  <2>2. "flag" \in PcStates /\ "unflag" \in PcStates
    BY DEF PcStates
  <2>3. \/ pc' = [pc EXCEPT ![c] = "flag"] /\ cmd' = [cmd EXCEPT ![c] = m]
        \/ pc' = [pc EXCEPT ![c] = "unflag"] /\ cmd' = [cmd EXCEPT ![c] = NoCmd]
    BY <2>1, ExecuteSession
  <2>4. SessionTypes'
    <3>1. NoCmd \in Commands \cup {NoCmd} /\ m \in Commands \cup {NoCmd}
      BY <2>2
    <3> DEFINE A == Commands \cup {NoCmd}
    <3> HIDE DEF A, NoCmd
    <3>2. cmd \in [Clients -> A] /\ pc \in [Clients -> PcStates]
      BY <1>2 DEF SessionTypes, A
    <3>3. cmd' \in [Clients -> A] /\ pc' \in [Clients -> PcStates]
      BY <2>2, <2>3, <3>1, <3>2 DEF A
    <3> QED BY <1>0, <1>2, <2>1, <3>3 DEF SessionTypes, A
  <2>5. InLoop(c)'
    BY <1>0, <1>2, <2>1, <2>2, <2>3 DEF SessionTypes, InLoop
  <2>6. \A d \in Clients : d # c => blocked'[d] = blocked[d] /\ pc'[d] = pc[d] /\ cmd'[d] = cmd[d]
    BY <1>2, <2>1, <2>3 DEF SessionTypes
  <2> QED BY <2>4, <2>5, <2>6
<1> QED
  BY <1>3, <1>4, <1>5, <1>6, <1>7, <1>8, <1>9, <1>10, <1>11, <1>12, <1>13

\* The steps of a session that change its registration.
LEMMA RegisteringSteps ==
    ASSUME RegistryInv, NEW c \in Clients, Register(c) \/ Clear(c) \/ Finish(c)
    PROVE  RegistryInv'
<1>2. SessionTypes /\ InLoop(c) /\ IndexesAgree
  BY DEF RegistryInv
<1> DEFINE Others == \A d \in Clients : d # c => /\ clientKeys'[d] = clientKeys[d] /\ blocked'[d] = blocked[d]
                                                 /\ pc'[d] = pc[d] /\ cmd'[d] = cmd[d]
<1>3. CASE Register(c)
  <2>1. WatchKeys(cmd[c]) \in SUBSET Keys
    BY <1>2, WatchKeysType DEF SessionTypes
  <2>2. RegisterBlockedClient(c, WatchKeys(cmd[c]))
    BY <1>3 DEF Register
  <2> DEFINE w == WatchKeys(cmd[c])
  <2>3. /\ keyWaiters' \in [Keys -> Seq(Clients)] /\ clientKeys' \in [Clients -> SUBSET Keys] /\ IndexesAgree'
        /\ clientKeys'[c] = w /\ \A d \in Clients : d # c => clientKeys'[d] = clientKeys[d]
    <3> HIDE DEF w
    <3> QED BY <1>2, <2>1, <2>2, RegisterStep DEF w
  <2>4. /\ pc[c] = "register" /\ pc' = [pc EXCEPT ![c] = "check"]
        /\ UNCHANGED <<blocked, cmd>>
    BY <1>3 DEF Register, Goto
  <2>5. SessionTypes' /\ Others
    BY <1>2, <2>3, <2>4 DEF SessionTypes, PcStates
  <2>6. InLoop(c)'
    BY <1>2, <2>3, <2>4 DEF InLoop, SessionTypes
  <2> QED BY <2>3, <2>5, <2>6, OneSession
<1>4. CASE Clear(c) \/ Finish(c)
  <2>1. ClearBlockedClient(c)
    BY <1>4 DEF Clear, Finish
  <2>2. /\ keyWaiters' \in [Keys -> Seq(Clients)] /\ clientKeys' \in [Clients -> SUBSET Keys] /\ IndexesAgree'
        /\ clientKeys'[c] = {} /\ \A d \in Clients : d # c => clientKeys'[d] = clientKeys[d]
    BY <1>2, <2>1, ClearStep
  <2>3. \/ /\ pc[c] = "clear" /\ pc' = [pc EXCEPT ![c] = "unflag"]
           /\ UNCHANGED <<blocked, cmd>>
        \/ /\ pc[c] = "finish" /\ pc' = [pc EXCEPT ![c] = "gone"]
           /\ blocked' = [blocked EXCEPT ![c] = FALSE]
           /\ UNCHANGED cmd
    BY <1>4 DEF Clear, Finish, Goto
  <2>5. SessionTypes' /\ Others
    BY <1>2, <2>2, <2>3 DEF SessionTypes, PcStates
  <2>6. InLoop(c)'
    BY <1>2, <2>2, <2>3 DEF InLoop, SessionTypes
  <2> QED BY <2>2, <2>5, <2>6, OneSession
<1> QED BY <1>3, <1>4

\* Every step of every client keeps the registry exact.
LEMMA RegistryStep == RegistryInv /\ [Next]_vars => RegistryInv'
<1> SUFFICES ASSUME RegistryInv, [Next]_vars PROVE RegistryInv'
  OBVIOUS
<1>1. ASSUME NEW c \in Clients,
             \/ Flag(c) \/ CheckDeadline(c) \/ Notified(c) \/ Sleep(c) \/ ReadBytes(c) \/ PeerClosed(c)
             \/ Unflag(c) \/ Disconnect(c) \/ Expire(c) \/ Retry(c) \/ (\E m \in Commands : Call(c, m))
      PROVE  RegistryInv'
  <2>1. UNCHANGED registry
    BY <1>1 DEF Flag, CheckDeadline, Notified, Sleep, ReadBytes, PeerClosed, Unflag, Disconnect,
       Expire, Retry, Call
  <2> QED BY <1>1, <2>1, QuietSteps
<1>2. ASSUME NEW c \in Clients, Register(c) \/ Clear(c) \/ Finish(c) PROVE RegistryInv'
  BY <1>2, RegisteringSteps
<1>3. CASE SwapDb \/ (\E k \in Keys, n \in PushSizes : Push(k, n)) \/ UNCHANGED vars
  <2>1. UNCHANGED <<keyWaiters, clientKeys, blocked, pc, cmd>>
    BY <1>3 DEF SwapDb, Push, registry, vars
  <2> QED BY <2>1 DEF RegistryInv, SessionTypes, IndexesAgree, InLoop
<1> QED BY <1>1, <1>2, <1>3 DEF Next, Own

\* The registry, the flags and the sessions always agree.
THEOREM RegistryInvariance == Spec => []RegistryInv
<1> QED BY RegistryInit, RegistryStep, PTL DEF Spec

\* A client that is registered is blocked and in the loop of
\* run_with_blocking_retry, and an answered one has left nothing behind.
THEOREM RegistryIsExact == Spec => []RegistryExact
<1>1. RegistryInv => RegistryExact
  BY DEF RegistryInv, IndexesAgree, InLoop, RegistryExact
<1> QED BY <1>1, RegistryInvariance, PTL

-----------------------------------------------------------------------------
(* Where the values are.                                                   *)

\* The values in the lists of a database, which hold each of them once.
All(lists) == UNION {Elements(lists[k]) : k \in Keys}

Separate(lists) ==
    /\ \A k \in Keys : NoRepeats(lists[k])
    /\ \A k, l \in Keys : k # l => Elements(lists[k]) \intersect Elements(lists[l]) = {}

\* Every value pushed so far is in one of four places.
ValuesInv ==
    /\ dbs \in [1 .. 2 -> Db]
    /\ pushed \in 0 .. MaxValues
    /\ Separate(dbs[1].lists) /\ Separate(dbs[2].lists)
    /\ All(dbs[1].lists) \intersect All(dbs[2].lists) = {}
    /\ (All(dbs[1].lists) \union All(dbs[2].lists)) \intersect (taken \union refused) = {}
    /\ taken \intersect refused = {}
    /\ All(dbs[1].lists) \union All(dbs[2].lists) \union taken \union refused = 1 .. pushed

\* A list without repetitions is not longer than there are values.
LEMMA PigeonHole ==
    ASSUME NEW A, IsFiniteSet(A), NEW s, Len(s) \in Nat, DOMAIN s = 1 .. Len(s), s = [i \in DOMAIN s |-> s[i]],
           Elements(s) \subseteq A, NoRepeats(s)
    PROVE  Len(s) <= Cardinality(A)
<1>1. s \in [1 .. Len(s) -> A]
  BY DEF Elements
<1>2. s \in Injection(1 .. Len(s), A)
  BY <1>1 DEF Injection, IsInjective, NoRepeats
<1>3. Cardinality(1 .. Len(s)) <= Cardinality(A)
  BY <1>2, FS_Injection
<1>4. Cardinality(1 .. Len(s)) = Len(s)
  BY FS_Interval
<1> QED BY <1>3, <1>4

\* The two parts of a list, and a table of lists with one of them replaced.
FirstOf(s, n) == SubSeq(s, 1, n)
RestOf(s, n)  == SubSeq(s, n + 1, Len(s))
Replaced(L, k, s) == [L EXCEPT ![k] = s]

\* Cutting a list in two divides its elements.
LEMMA CutElements ==
    ASSUME NEW A, NEW s \in Seq(A), NEW n \in 0 .. Len(s)
    PROVE  /\ FirstOf(s, n) \in Seq(A) /\ RestOf(s, n) \in Seq(A)
           /\ Elements(FirstOf(s, n)) \union Elements(RestOf(s, n)) = Elements(s)
           /\ NoRepeats(s) => /\ NoRepeats(FirstOf(s, n)) /\ NoRepeats(RestOf(s, n))
                              /\ Elements(FirstOf(s, n)) \intersect Elements(RestOf(s, n)) = {}
<1> DEFINE a == FirstOf(s, n)
           b == RestOf(s, n)
<1>1. a \in Seq(A) /\ b \in Seq(A) /\ Len(a) = n /\ Len(b) = Len(s) - n
  BY DEF FirstOf, RestOf
<1>2. /\ \A i \in 1 .. n : a[i] = s[i]
      /\ \A i \in 1 .. Len(s) - n : b[i] = s[n + i]
  BY DEF FirstOf, RestOf
<1> HIDE DEF a, b
<1>3. DOMAIN a = 1 .. n /\ DOMAIN b = 1 .. Len(s) - n /\ DOMAIN s = 1 .. Len(s) /\ Len(s) \in Nat
  BY <1>1
<1>4. Elements(a) \union Elements(b) = Elements(s)
  <2>0. ASSUME NEW i \in 1 .. Len(s) PROVE s[i] \in Elements(s)
    BY <1>3 DEF Elements
  <2>1. Elements(a) \subseteq Elements(s) /\ Elements(b) \subseteq Elements(s)
    <3>1. ASSUME NEW x \in Elements(a) PROVE x \in Elements(s)
      <4>1. PICK i \in DOMAIN a : x = a[i]
        BY <3>1 DEF Elements
      <4>2. i \in 1 .. Len(s) /\ a[i] = s[i]
        BY <1>2, <1>3
      <4> QED BY <2>0, <4>1, <4>2
    <3>2. ASSUME NEW x \in Elements(b) PROVE x \in Elements(s)
      <4>1. PICK i \in DOMAIN b : x = b[i]
        BY <3>2 DEF Elements
      <4>2. n + i \in 1 .. Len(s) /\ b[i] = s[n + i]
        BY <1>2, <1>3
      <4> QED BY <2>0, <4>1, <4>2
    <3> QED BY <3>1, <3>2
  <2>2. ASSUME NEW i \in 1 .. Len(s) PROVE s[i] \in Elements(a) \union Elements(b)
    <3>1. CASE i <= n
      <4>1. i \in DOMAIN a /\ a[i] = s[i]
        BY <1>2, <1>3, <3>1
      <4> QED BY <4>1 DEF Elements
    <3>2. CASE i > n
      <4>1. i - n \in 1 .. Len(s) - n /\ n + (i - n) = i
        BY <3>2
      <4> QED BY <1>2, <1>3, <4>1 DEF Elements
    <3> QED BY <3>1, <3>2
  <2> QED BY <1>3, <2>1, <2>2 DEF Elements
<1>5. ASSUME NoRepeats(s) PROVE NoRepeats(a) /\ NoRepeats(b) /\ Elements(a) \intersect Elements(b) = {}
  <2>1. NoRepeats(a)
    BY <1>2, <1>3, <1>5 DEF NoRepeats
  <2>2. NoRepeats(b)
    BY <1>2, <1>3, <1>5, SMTT(30) DEF NoRepeats
  <2>3. ASSUME NEW i \in DOMAIN a, NEW j \in DOMAIN b PROVE a[i] # b[j]
    <3>1. i \in DOMAIN s /\ n + j \in DOMAIN s /\ i # n + j /\ a[i] = s[i] /\ b[j] = s[n + j]
      BY <1>2, <1>3
    <3> QED BY <1>5, <3>1 DEF NoRepeats
  <2> QED BY <2>1, <2>2, <2>3 DEF Elements
<1> QED BY <1>1, <1>4, <1>5 DEF a, b

\* Joining two lists joins their elements.
LEMMA JoinElements ==
    ASSUME NEW A, NEW s \in Seq(A), NEW t \in Seq(A)
    PROVE  /\ s \o t \in Seq(A) /\ Elements(s \o t) = Elements(s) \union Elements(t)
           /\ (NoRepeats(s) /\ NoRepeats(t) /\ Elements(s) \intersect Elements(t) = {}) => NoRepeats(s \o t)
<1> DEFINE u == s \o t
<1>1. u \in Seq(A) /\ Len(u) = Len(s) + Len(t)
  OBVIOUS
<1>2. /\ \A i \in 1 .. Len(s) : u[i] = s[i]
      /\ \A i \in 1 .. Len(t) : u[Len(s) + i] = t[i]
  OBVIOUS
<1> HIDE DEF u
<1>3. DOMAIN u = 1 .. Len(s) + Len(t) /\ DOMAIN s = 1 .. Len(s) /\ DOMAIN t = 1 .. Len(t) /\ Len(s) \in Nat /\ Len(t) \in Nat
  BY <1>1
<1>4. ASSUME NEW i \in DOMAIN u
      PROVE  \/ i \in DOMAIN s /\ u[i] = s[i]
             \/ i - Len(s) \in DOMAIN t /\ u[i] = t[i - Len(s)] /\ i \notin DOMAIN s
  <2>1. CASE i <= Len(s)
    BY <1>2, <1>3, <2>1
  <2>2. CASE i > Len(s)
    <3>1. i - Len(s) \in 1 .. Len(t) /\ Len(s) + (i - Len(s)) = i
      BY <1>3, <2>2
    <3> QED BY <1>2, <1>3, <3>1
  <2> QED BY <1>3, <2>1, <2>2
<1>5. Elements(u) = Elements(s) \union Elements(t)
  <2>1. Elements(u) \subseteq Elements(s) \union Elements(t)
    BY <1>4 DEF Elements
  <2>2. Elements(s) \subseteq Elements(u)
    BY <1>2, <1>3 DEF Elements
  <2>3. ASSUME NEW i \in DOMAIN t PROVE t[i] \in Elements(u)
    <3>1. Len(s) + i \in DOMAIN u /\ u[Len(s) + i] = t[i]
      BY <1>2, <1>3
    <3> QED BY <3>1 DEF Elements
  <2>4. Elements(t) \subseteq Elements(u)
    BY <2>3 DEF Elements
  <2> QED BY <2>1, <2>2, <2>4
<1>6. ASSUME NoRepeats(s), NoRepeats(t), Elements(s) \intersect Elements(t) = {} PROVE NoRepeats(u)
  <2> SUFFICES ASSUME NEW i \in DOMAIN u, NEW j \in DOMAIN u, u[i] = u[j] PROVE i = j
    BY DEF NoRepeats
  <2>1. CASE i \in DOMAIN s /\ j \in DOMAIN s
    BY <1>4, <1>6, <2>1 DEF NoRepeats
  <2>2. CASE i \notin DOMAIN s /\ j \notin DOMAIN s
    <3>1. i - Len(s) \in DOMAIN t /\ j - Len(s) \in DOMAIN t /\ t[i - Len(s)] = t[j - Len(s)]
      BY <1>4, <2>2
    <3>2. i - Len(s) = j - Len(s)
      BY <1>6, <3>1 DEF NoRepeats
    <3> QED BY <1>3, <3>2
  <2>3. ASSUME NEW x \in DOMAIN u, NEW y \in DOMAIN u, u[x] = u[y], x \in DOMAIN s, y \notin DOMAIN s PROVE FALSE
    <3>1. u[x] \in Elements(s)
      BY <1>4, <2>3 DEF Elements
    <3>2. y - Len(s) \in DOMAIN t /\ u[y] = t[y - Len(s)]
      BY <1>4, <2>3
    <3>3. u[y] \in Elements(t)
      BY <3>2 DEF Elements
    <3> QED BY <1>6, <2>3, <3>1, <3>3
  <2> QED BY <2>1, <2>2, <2>3
<1> QED BY <1>1, <1>5, <1>6 DEF u

\* A list is replaced by one whose elements no other list has.
LEMMA ReplaceOne ==
    ASSUME NEW L \in [Keys -> Seq(Values)], Separate(L), NEW k \in Keys, NEW s \in Seq(Values), NoRepeats(s),
           Elements(s) \intersect (All(L) \ Elements(L[k])) = {}
    PROVE  /\ Replaced(L, k, s) \in [Keys -> Seq(Values)]
           /\ Separate(Replaced(L, k, s))
           /\ All(Replaced(L, k, s)) = (All(L) \ Elements(L[k])) \union Elements(s)
<1> DEFINE M == Replaced(L, k, s)
<1>1. M \in [Keys -> Seq(Values)] /\ M[k] = s /\ \A l \in Keys : l # k => M[l] = L[l]
  BY DEF Replaced
<1> HIDE DEF M
<1>2. \A l \in Keys : l # k => Elements(L[l]) \subseteq All(L) \ Elements(L[k])
  BY DEF All, Separate
<1>3. Separate(M)
  <2>1. \A l \in Keys : NoRepeats(M[l])
    BY <1>1 DEF Separate
  <2>2. ASSUME NEW l \in Keys, NEW n \in Keys, l # n PROVE Elements(M[l]) \intersect Elements(M[n]) = {}
    <3>1. CASE l # k /\ n # k
      BY <1>1, <2>2, <3>1 DEF Separate
    <3>2. CASE l = k
      BY <1>1, <1>2, <2>2, <3>2
    <3>3. CASE n = k
      BY <1>1, <1>2, <2>2, <3>3
    <3> QED BY <3>1, <3>2, <3>3
  <2> QED BY <2>1, <2>2 DEF Separate
<1>4. All(M) = (All(L) \ Elements(L[k])) \union Elements(s)
  <2>1. ASSUME NEW v \in All(M) PROVE v \in (All(L) \ Elements(L[k])) \union Elements(s)
    <3>1. PICK l \in Keys : v \in Elements(M[l])
      BY DEF All
    <3> QED BY <1>1, <1>2, <3>1
  <2>2. ASSUME NEW v \in All(L) \ Elements(L[k]) PROVE v \in All(M)
    <3>1. PICK l \in Keys : v \in Elements(L[l]) /\ l # k
      BY DEF All
    <3> QED BY <1>1, <3>1 DEF All
  <2>3. Elements(s) \subseteq All(M)
    BY <1>1 DEF All
  <2> QED BY <2>1, <2>2, <2>3
<1> QED BY <1>1, <1>3, <1>4 DEF M

\* The least of a set of numbers is in it.
LEMMA LeastOf == ASSUME NEW S, S \subseteq Nat, S # {} PROVE Min(S) \in S /\ \A x \in S : Min(S) <= x
<1>1. \E m \in S : \A x \in S : m <= x
  BY LeastNat
<1> QED BY <1>1 DEF Min

\* What a command finds, keeps: a database without double values stays one, and
\* the values that leave it are those the reply carries.
Conserves(d, r) ==
    /\ r.db \in Db /\ Separate(r.db.lists)
    /\ All(r.db.lists) \intersect Elements(r.values) = {}
    /\ All(r.db.lists) \union Elements(r.values) = All(d.lists)

\* The database after a pop of n values of key k, and after a move.
Popped(d, k, n) == [d EXCEPT !.lists[k] = SubSeq(@, n + 1, Len(@))]
Moved(d, src, dst) ==
    [d EXCEPT !.lists = [[d.lists EXCEPT ![src] = Tail(@)] EXCEPT ![dst] = Append(@, Head(d.lists[src]))]]

\* A pop hands out what it takes off the list.
LEMMA PopConserves ==
    ASSUME NEW d \in Db, Separate(d.lists), NEW k \in Keys, NEW n \in 0 .. Len(d.lists[k]), NEW kind
    PROVE  Conserves(d, Result(kind, Popped(d, k, n), FirstOf(d.lists[k], n)))
<1> DEFINE L == d.lists
           q == L[k]
           a == FirstOf(q, n)
           b == RestOf(q, n)
           M == Replaced(L, k, b)
           e == Popped(d, k, n)
<1>1. L \in [Keys -> Seq(Values)] /\ q \in Seq(Values) /\ Separate(L) /\ n \in 0 .. Len(q)
  BY DEF Db
<1>2. NoRepeats(q) /\ Elements(q) \subseteq All(L)
  BY <1>1 DEF Separate, All
<1>3. e \in Db /\ e.lists = M
  <2>1. b \in Seq(Values)
    BY <1>1 DEF RestOf
  <2> QED BY <1>1, <2>1 DEF Db, Popped, Replaced, RestOf
<1>4. Result(kind, e, a).db = e /\ Result(kind, e, a).values = a
  BY DEF Result
<1> HIDE DEF q, e, L
<1>5. /\ a \in Seq(Values) /\ b \in Seq(Values) /\ Elements(a) \union Elements(b) = Elements(q)
      /\ NoRepeats(a) /\ NoRepeats(b) /\ Elements(a) \intersect Elements(b) = {}
  BY <1>1, <1>2, CutElements
<1> HIDE DEF a, b
<1>6. Elements(b) \intersect (All(L) \ Elements(L[k])) = {}
  BY <1>5 DEF q
<1>7. Separate(M) /\ All(M) = (All(L) \ Elements(L[k])) \union Elements(b)
  BY <1>1, <1>5, <1>6, ReplaceOne
<1> HIDE DEF M
<1>8. All(M) = (All(L) \ Elements(q)) \union Elements(b)
  BY <1>7 DEF q
<1>9. All(M) \intersect Elements(a) = {} /\ All(M) \union Elements(a) = All(L)
  BY <1>2, <1>5, <1>8
<1>10. Conserves(d, Result(kind, e, a))
  BY <1>3, <1>7, <1>4, <1>9 DEF Conserves, L
<1> QED BY <1>10 DEF e, a, q, L

\* A move takes a value off one list and puts it on another.
LEMMA MoveConserves ==
    ASSUME NEW d \in Db, Separate(d.lists), NEW src \in Keys, NEW dst \in Keys, d.lists[src] # <<>>, NEW kind
    PROVE  Conserves(d, Result(kind, Moved(d, src, dst), <<>>))
<1> DEFINE L == d.lists
           q == L[src]
           h == Head(q)
           t == RestOf(q, 1)
           M == Replaced(L, src, t)
           p == M[dst]
           s == Append(p, h)
           N == Replaced(M, dst, s)
           e == Moved(d, src, dst)
<1>1. L \in [Keys -> Seq(Values)] /\ q \in Seq(Values) /\ q # <<>> /\ Separate(L) /\ 1 \in 0 .. Len(q)
  BY DEF Db
<1>2. NoRepeats(q) /\ Elements(q) \subseteq All(L)
  BY <1>1 DEF Separate, All
<1>3. e = [d EXCEPT !.lists = N]
  <2>1. t = Tail(q)
    BY <1>1 DEF RestOf
  <2> QED BY <1>1, <2>1 DEF Moved, Replaced
<1>4. e.lists = N /\ (N \in [Keys -> Seq(Values)] => e \in Db)
  BY <1>3 DEF Db
<1>5. Result(kind, e, <<>>).db = e /\ Result(kind, e, <<>>).values = <<>>
  BY DEF Result
<1>a. h \in Values /\ h = q[1]
  BY <1>1
<1> HIDE DEF L, q, h, e, N
<1>6. t \in Seq(Values) /\ Elements(t) = Elements(q) \ {h} /\ NoRepeats(t) /\ h \in Elements(q)
  <2> DEFINE a == FirstOf(q, 1)
  <2>1. Elements(a) = {h}
    <3>1. DOMAIN a = {1} /\ a[1] = h
      BY <1>1, <1>a DEF FirstOf
    <3> QED BY <3>1 DEF Elements
  <2>2. /\ a \in Seq(Values) /\ t \in Seq(Values) /\ Elements(a) \union Elements(t) = Elements(q)
        /\ NoRepeats(a) /\ NoRepeats(t) /\ Elements(a) \intersect Elements(t) = {}
    BY <1>1, <1>2, CutElements
  <2> HIDE DEF a, t
  <2> QED BY <2>1, <2>2
<1> HIDE DEF t
<1>7. M \in [Keys -> Seq(Values)] /\ Separate(M) /\ All(M) = All(L) \ {h}
  <2>1. Elements(t) \intersect (All(L) \ Elements(L[src])) = {}
    BY <1>6 DEF q
  <2>2. /\ M \in [Keys -> Seq(Values)] /\ Separate(M)
        /\ All(M) = (All(L) \ Elements(L[src])) \union Elements(t)
    BY <1>1, <1>6, <2>1, ReplaceOne
  <2> HIDE DEF M
  <2>3. All(M) = (All(L) \ Elements(q)) \union Elements(t)
    BY <2>2 DEF q
  <2> QED BY <1>2, <1>6, <2>2, <2>3
<1> HIDE DEF M
<1>8. s \in Seq(Values) /\ NoRepeats(s) /\ Elements(s) = Elements(p) \union {h} /\ Elements(p) \subseteq All(M)
  <2>1. p \in Seq(Values) /\ NoRepeats(p) /\ Elements(p) \subseteq All(M)
    BY <1>7 DEF Separate, All
  <2> HIDE DEF p
  <2>2. h \notin Elements(p)
    BY <1>7, <2>1
  <2>3. s \in Seq(Values)
    BY <1>a, <2>1
  <2>4. Elements(Append(p, h)) = Elements(p) \union {h} /\ ((NoRepeats(p) /\ h \notin Elements(p)) => NoRepeats(Append(p, h)))
    BY <1>a, <2>1, AppendElements
  <2> QED BY <2>1, <2>2, <2>3, <2>4
<1> HIDE DEF s
<1>9. N \in [Keys -> Seq(Values)] /\ Separate(N) /\ All(N) = (All(M) \ Elements(M[dst])) \union Elements(s)
  <2>1. Elements(s) \intersect (All(M) \ Elements(M[dst])) = {}
    BY <1>7, <1>8
  <2> QED BY <1>7, <1>8, <2>1, ReplaceOne DEF N
<1> HIDE DEF p
<1>10. All(N) = (All(M) \ Elements(p)) \union Elements(s)
  BY <1>9 DEF p
<1>11. All(N) = All(L)
  BY <1>2, <1>6, <1>7, <1>8, <1>10
<1>12. Elements(<<>>) = {}
  BY DEF Elements
<1>13. Conserves(d, Result(kind, e, <<>>))
  BY <1>4, <1>5, <1>9, <1>11, <1>12 DEF Conserves, L
<1> QED BY <1>13 DEF e

\* A command that changes nothing conserves every value.
LEMMA NothingConserves ==
    ASSUME NEW d \in Db, Separate(d.lists), NEW kind PROVE Conserves(d, Result(kind, d, <<>>))
<1>1. Elements(<<>>) = {}
  BY DEF Elements
<1>2. Result(kind, d, <<>>).db = d /\ Result(kind, d, <<>>).values = <<>>
  BY DEF Result
<1> QED BY <1>1, <1>2 DEF Conserves

\* One execution of any blocking command.
LEMMA TryConserves ==
    ASSUME NEW d \in Db, Separate(d.lists), NEW m \in Commands \cup {NoCmd}
    PROVE  Conserves(d, TryOnce(d, m))
<1>1. CASE m.op = "BLMOVE"
  <2>1. m \in Commands
    BY <1>1 DEF NoCmd
  <2> DEFINE src == m.keys[1]
             dst == m.keys[2]
  <2>2. src \in Keys /\ dst \in Keys
    <3>1. m.keys \in Seq(Keys) /\ Len(m.keys) >= 2
      BY <1>1, <2>1
    <3> QED BY <3>1
  <2> HIDE DEF src, dst
  <2>3. TryOnce(d, m) = TryMove(d, src, dst)
    BY <1>1 DEF TryOnce, src, dst
  <2>4. CASE src \in d.strings \/ d.lists[src] = <<>> \/ dst \in d.strings
    <3>1. TryMove(d, src, dst) = Result("error", d, <<>>) \/ TryMove(d, src, dst) = Result("nil", d, <<>>)
      BY <2>4 DEF TryMove
    <3> QED BY <2>3, <3>1, NothingConserves
  <2>5. CASE ~(src \in d.strings \/ d.lists[src] = <<>> \/ dst \in d.strings)
    <3>1. TryMove(d, src, dst) = Result("value", Moved(d, src, dst), <<>>)
      BY <2>5 DEF TryMove, Moved
    <3>2. d.lists[src] # <<>>
      BY <2>5
    <3>3. Conserves(d, Result("value", Moved(d, src, dst), <<>>))
      BY <2>2, <3>2, MoveConserves
    <3> QED BY <2>3, <3>1, <3>3
  <2> QED BY <2>4, <2>5
<1>2. CASE m.op # "BLMOVE"
  <2> DEFINE keys == m.keys
             found == {i \in DOMAIN keys : Occupied(d, keys[i])}
             k == keys[Min(found)]
             n == Min({m.count, Len(d.lists[k])})
  <2>1. keys \in Seq(Keys) /\ m.count \in Nat
    <3>1. CASE m = NoCmd
      BY <3>1 DEF NoCmd
    <3>2. CASE m \in Commands
      BY <3>2
    <3> QED BY <3>1, <3>2
  <2>2. TryOnce(d, m) = IF found = {} THEN Result("nil", d, <<>>)
        ELSE IF k \in d.strings THEN Result("error", d, <<>>)
        ELSE Result("value", [d EXCEPT !.lists[k] = SubSeq(@, n + 1, Len(@))],
                    SubSeq(d.lists[k], 1, n))
    BY <1>2 DEF TryOnce, TryPop
  <2>3. CASE found = {} \/ k \in d.strings
    <3>1. TryOnce(d, m) = Result("error", d, <<>>) \/ TryOnce(d, m) = Result("nil", d, <<>>)
      BY <2>2, <2>3
    <3> QED BY <3>1, NothingConserves
  <2>4. CASE found # {} /\ k \notin d.strings
    <3>1. found \subseteq Nat /\ found \subseteq DOMAIN keys
      BY <2>1
    <3>2. Min(found) \in found
      BY <2>4, <3>1, LeastOf
    <3>3. k \in Keys
      <4> DEFINE i == Min(found)
      <4>1. i \in DOMAIN keys
        BY <3>1, <3>2
      <4> HIDE DEF i, keys
      <4>2. keys[i] \in Keys
        BY <2>1, <4>1
      <4> QED BY <4>2 DEF i
    <3> HIDE DEF k
    <3>4. Len(d.lists[k]) \in Nat
      BY <3>3 DEF Db
    <3>5. n \in {m.count, Len(d.lists[k])} /\ n <= Len(d.lists[k])
      <4> DEFINE S == {m.count, Len(d.lists[k])}
      <4>1. S \subseteq Nat /\ S # {} /\ Len(d.lists[k]) \in S
        BY <2>1, <3>4
      <4> HIDE DEF S
      <4>2. Min(S) \in S /\ \A x \in S : Min(S) <= x
        BY <4>1, LeastOf
      <4> QED BY <4>1, <4>2 DEF S
    <3>6. n \in 0 .. Len(d.lists[k])
      BY <2>1, <3>4, <3>5
    <3> HIDE DEF n
    <3>8. TryOnce(d, m) = Result("value", Popped(d, k, n), FirstOf(d.lists[k], n))
      BY <2>2, <2>4 DEF Popped, FirstOf
    <3>9. Conserves(d, Result("value", Popped(d, k, n), FirstOf(d.lists[k], n)))
      BY <3>3, <3>6, PopConserves
    <3> QED BY <3>8, <3>9
  <2> QED BY <2>3, <2>4
<1> QED BY <1>1, <1>2

-----------------------------------------------------------------------------
(* Every step keeps every value.                                           *)

\* At first every value is in a list and no value was handed out.
LEMMA ValuesInit == Init => ValuesInv
<1> SUFFICES ASSUME Init PROVE ValuesInv
  OBVIOUS
<1> DEFINE E == Empty.lists
           O == Other.lists
<1>1. dbs = <<Empty, Other>> /\ taken = {} /\ refused = {} /\ dbs[1].lists = E /\ dbs[2].lists = O
  BY DEF Init
<1>2. Empty \in Db /\ E = [k \in Keys |-> <<>>]
  BY DEF Db, Empty
<1>3. Separate(E) /\ All(E) = {}
  <2>1. \A k \in Keys : E[k] = <<>> /\ Elements(E[k]) = {} /\ NoRepeats(E[k])
    BY <1>2 DEF Elements, NoRepeats
  <2> QED BY <2>1 DEF Separate, All
<1>4. Other \in Db /\ O \in [Keys -> Seq(Values)]
  BY OtherAssumption DEF Db
<1>5. Separate(O)
  BY OtherAssumption DEF Separate, NoRepeats, Elements
<1>6. All(O) = 1 .. pushed
  <2>1. UNION {ToSet(O[k]) : k \in Keys} = All(O)
    BY SameNotions DEF All
  <2> QED BY <2>1, OtherAssumption DEF Init
<1>7. pushed \in 0 .. MaxValues
  <2>1. All(O) \subseteq Values
    BY <1>4 DEF All, Elements
  <2>2. IsFiniteSet(Values) /\ Cardinality(Values) = MaxValues
    BY FS_Interval DEF Values
  <2>3. IsFiniteSet(All(O)) /\ Cardinality(All(O)) <= MaxValues
    BY <2>1, <2>2, FS_Subset
  <2>4. pushed = Cardinality(All(O))
    BY SameNotions DEF Init, All
  <2>5. pushed \in Nat
    BY <2>3, <2>4, FS_CardinalityType
  <2> QED BY <2>3, <2>4, <2>5
<1>8. dbs \in [1 .. 2 -> Db]
  BY <1>1, <1>2, <1>4
<1> HIDE DEF E, O
<1> QED BY <1>1, <1>3, <1>5, <1>6, <1>7, <1>8 DEF ValuesInv

\* An execution moves values from database 1 to the client, or to the refused.
LEMMA ExecuteValues ==
    ASSUME ValuesInv, NEW c, NEW m \in Commands \cup {NoCmd}, NEW wait, NEW answered, NEW isDue,
           Execute(c, m, wait, answered, isDue), UNCHANGED pushed
    PROVE  ValuesInv'
<1>1. CASE UNCHANGED <<dbs, taken, refused>>
  BY <1>1 DEF ValuesInv
<1>2. CASE /\ dbs' = [dbs EXCEPT ![1] = TryOnce(dbs[1], m).db]
           /\ taken' = IF latched' THEN taken ELSE taken \cup ToSet(TryOnce(dbs[1], m).values)
           /\ refused' = IF latched' THEN refused \cup ToSet(TryOnce(dbs[1], m).values) ELSE refused
  <2> DEFINE d == dbs[1]
             r == TryOnce(d, m)
             A == All(d.lists)
             B == All(dbs[2].lists)
             C == All(r.db.lists)
             W == Elements(r.values)
  <2>1. d \in Db /\ Separate(d.lists) /\ dbs \in [1 .. 2 -> Db]
    BY DEF ValuesInv
  <2> HIDE DEF d
  <2>2. Conserves(d, r)
    BY <2>1, TryConserves
  <2> HIDE DEF r
  <2>3. r.db \in Db /\ Separate(r.db.lists) /\ C \intersect W = {} /\ C \union W = A
    BY <2>2 DEF Conserves
  <2>4. dbs' \in [1 .. 2 -> Db] /\ dbs'[1] = r.db /\ dbs'[2] = dbs[2]
    BY <1>2, <2>1, <2>3 DEF r, d
  <2>5. \/ taken' = taken \union W /\ refused' = refused
        \/ taken' = taken /\ refused' = refused \union W
    BY <1>2, SameNotions DEF r, d
  <2>6. /\ Separate(dbs[2].lists) /\ A \intersect B = {} /\ (A \union B) \intersect (taken \union refused) = {}
        /\ taken \intersect refused = {} /\ A \union B \union taken \union refused = 1 .. pushed /\ pushed \in 0 .. MaxValues
    BY DEF ValuesInv, d
  <2> HIDE DEF A, B, C, W
  <2>7. /\ C \intersect B = {} /\ (C \union B) \intersect (taken' \union refused') = {}
        /\ taken' \intersect refused' = {} /\ C \union B \union taken' \union refused' = 1 .. pushed
    BY <2>3, <2>5, <2>6
  <2> QED BY <2>3, <2>4, <2>6, <2>7 DEF ValuesInv, B, C
<1> QED BY <1>1, <1>2 DEF Execute

\* A push adds the next values, which no list has.
LEMMA PushValues ==
    ASSUME ValuesInv, NEW k \in Keys, NEW n \in PushSizes, Push(k, n)
    PROVE  ValuesInv'
<1> DEFINE d == dbs[1]
           L == d.lists
           q == L[k]
           t == [i \in 1 .. n |-> pushed + i]
           u == q \o t
           M == Replaced(L, k, u)
           e == [d EXCEPT !.lists[k] = u]
           A == All(L)
           B == All(dbs[2].lists)
<1>1. /\ d \in Db /\ Separate(L) /\ dbs \in [1 .. 2 -> Db] /\ pushed \in 0 .. MaxValues /\ n \in Nat /\ pushed + n <= MaxValues
      /\ pushed' = pushed + n /\ UNCHANGED <<taken, refused>> /\ dbs' = [dbs EXCEPT ![1] = e]
  BY DEF ValuesInv, Push
<1>2. /\ Separate(dbs[2].lists) /\ A \intersect B = {} /\ (A \union B) \intersect (taken \union refused) = {}
      /\ taken \intersect refused = {} /\ A \union B \union taken \union refused = 1 .. pushed
  BY DEF ValuesInv
<1> HIDE DEF d
<1>3. L \in [Keys -> Seq(Values)] /\ q \in Seq(Values) /\ NoRepeats(q) /\ Elements(q) \subseteq A
  BY <1>1 DEF Db, Separate, All
<1>4. t \in Seq(Values) /\ NoRepeats(t) /\ Elements(t) = (pushed + 1) .. (pushed + n)
  <2>1. \A i \in 1 .. n : pushed + i \in Values
    BY <1>1 DEF Values
  <2>2. t \in Seq(Values)
    BY <1>1, <2>1
  <2>3. NoRepeats(t)
    BY <1>1 DEF NoRepeats
  <2>4. ASSUME NEW v \in (pushed + 1) .. (pushed + n) PROVE v \in Elements(t)
    <3>1. v - pushed \in 1 .. n /\ t[v - pushed] = v
      BY <1>1
    <3> QED BY <3>1 DEF Elements
  <2>5. Elements(t) \subseteq (pushed + 1) .. (pushed + n)
    BY <1>1 DEF Elements
  <2> QED BY <2>2, <2>3, <2>4, <2>5
<1> HIDE DEF t, L, q
<1>5. Elements(t) \intersect (1 .. pushed) = {} /\ (1 .. pushed) \union Elements(t) = 1 .. pushed'
  BY <1>1, <1>4
<1>6. Elements(q) \intersect Elements(t) = {}
  BY <1>2, <1>3, <1>5
<1>7. u \in Seq(Values) /\ Elements(u) = Elements(q) \union Elements(t) /\ NoRepeats(u)
  <2> HIDE DEF A, B
  <2>1. q \in Seq(Values) /\ t \in Seq(Values)
    BY <1>3, <1>4
  <2>2. /\ q \o t \in Seq(Values) /\ Elements(q \o t) = Elements(q) \union Elements(t)
        /\ (NoRepeats(q) /\ NoRepeats(t) /\ Elements(q) \intersect Elements(t) = {}) => NoRepeats(q \o t)
    BY <2>1, JoinElements, Zenon
  <2> QED BY <1>3, <1>4, <1>6, <2>2, Zenon
<1>8. e \in Db /\ e.lists = M
  <2> HIDE DEF u
  <2> QED BY <1>1, <1>3, <1>7 DEF Db, Replaced, L
<1> HIDE DEF u, e
<1>9. Separate(M) /\ All(M) = (A \ Elements(L[k])) \union Elements(u)
  <2>1. Elements(u) \intersect (All(L) \ Elements(L[k])) = {}
    <3>1. Elements(u) \intersect (All(L) \ Elements(q)) = {}
      BY <1>2, <1>5, <1>7
    <3> QED BY <3>1 DEF q
  <2> QED BY <1>1, <1>3, <1>7, <2>1, ReplaceOne
<1> HIDE DEF M
<1>10. All(M) = A \union Elements(t)
  <2>1. All(M) = (A \ Elements(q)) \union Elements(u)
    BY <1>9 DEF q
  <2> HIDE DEF A
  <2> QED BY <1>3, <1>7, <2>1
<1>11. dbs' \in [1 .. 2 -> Db] /\ dbs'[1] = e /\ dbs'[2] = dbs[2]
  BY <1>1, <1>8
<1> DEFINE C == All(M)
<1>12. /\ C \intersect B = {} /\ (C \union B) \intersect (taken' \union refused') = {}
       /\ taken' \intersect refused' = {} /\ C \union B \union taken' \union refused' = 1 .. pushed'
  <2> HIDE DEF A, B, C
  <2>1. C = A \union Elements(t)
    BY <1>10 DEF C
  <2> QED BY <1>1, <1>2, <1>5, <2>1
<1>13. pushed' \in 0 .. MaxValues
  BY <1>1
<1> QED BY <1>1, <1>2, <1>8, <1>9, <1>11, <1>12, <1>13 DEF ValuesInv

\* Every step of every client keeps each value in exactly one place.
LEMMA ValuesStep == RegistryInv /\ ValuesInv /\ [Next]_vars => ValuesInv'
<1> SUFFICES ASSUME RegistryInv, ValuesInv, [Next]_vars PROVE ValuesInv'
  OBVIOUS
<1>1. ASSUME NEW c \in Clients, Retry(c) PROVE ValuesInv'
  <2>0. PICK m, isDue : m = cmd[c] /\ isDue = Deadline(c)
    OBVIOUS
  <2>1. m \in Commands \cup {NoCmd}
    BY <2>0 DEF RegistryInv, SessionTypes
  <2>2. Execute(c, m, "register", "clear", isDue) /\ UNCHANGED pushed
    BY <1>1, <2>0 DEF Retry
  <2> QED BY <2>1, <2>2, ExecuteValues
<1>2. ASSUME NEW c \in Clients, NEW m \in Commands, Call(c, m) PROVE ValuesInv'
  <2>1. Execute(c, m, "flag", "unflag", FALSE) /\ UNCHANGED pushed /\ m \in Commands \cup {NoCmd}
    BY <1>2 DEF Call
  <2> QED BY <2>1, ExecuteValues
<1>3. CASE SwapDb
  <2>1. dbs' = <<dbs[2], dbs[1]>> /\ UNCHANGED <<pushed, taken, refused>>
    BY <1>3 DEF SwapDb
  <2>2. dbs' \in [1 .. 2 -> Db] /\ dbs'[1] = dbs[2] /\ dbs'[2] = dbs[1]
    BY <2>1 DEF ValuesInv
  <2> QED BY <2>1, <2>2 DEF ValuesInv
<1>4. ASSUME UNCHANGED <<dbs, pushed, taken, refused>> PROVE ValuesInv'
  BY <1>4 DEF ValuesInv
<1>5. ASSUME NEW c \in Clients,
             \/ Flag(c) \/ Register(c) \/ CheckDeadline(c) \/ Notified(c) \/ Sleep(c) \/ ReadBytes(c) \/ PeerClosed(c)
             \/ Clear(c) \/ Unflag(c) \/ Disconnect(c) \/ Finish(c) \/ Expire(c)
      PROVE  ValuesInv'
  <2>1. UNCHANGED <<dbs, pushed, taken, refused>>
    BY <1>5 DEF Flag, Register, CheckDeadline, Notified, Sleep, ReadBytes, PeerClosed, Clear,
       Unflag, Disconnect, Finish, Expire, history
  <2> QED BY <1>4, <2>1
<1>6. CASE UNCHANGED vars
  BY <1>4, <1>6 DEF vars, history
<1> QED BY <1>1, <1>2, <1>3, <1>5, <1>6, PushValues DEF Next, Own

\* Every value is in one list, with a client, or refused.
THEOREM ValuesInvariance == Spec => []ValuesInv
<1> QED BY RegistryInvariance, ValuesInit, ValuesStep, PTL DEF Spec

\* Where a value is found in the lists.
Places(v) ==
    LET list(p) == dbs[p[1]].lists[p[2]]
    IN  {p \in (1 .. 2) \X Keys \X Values : p[3] \in DOMAIN list(p) /\ list(p)[p[3]] = v}

\* A value has one place in the lists, or none.
LEMMA OnePlace ==
    ASSUME ValuesInv, NEW v \in 1 .. pushed
    PROVE  /\ v \in All(dbs[1].lists) \union All(dbs[2].lists) => Cardinality(Places(v)) = 1
           /\ v \notin All(dbs[1].lists) \union All(dbs[2].lists) => Cardinality(Places(v)) = 0
<1>0. /\ \A p \in Places(v) : /\ p \in (1 .. 2) \X Keys \X Values /\ p[3] \in DOMAIN dbs[p[1]].lists[p[2]]
                              /\ dbs[p[1]].lists[p[2]][p[3]] = v
      /\ \A p \in (1 .. 2) \X Keys \X Values :
            (p[3] \in DOMAIN dbs[p[1]].lists[p[2]] /\ dbs[p[1]].lists[p[2]][p[3]] = v) => p \in Places(v)
  BY DEF Places
<1>1. ASSUME NEW p \in Places(v)
      PROVE  /\ p[1] \in 1 .. 2 /\ p[2] \in Keys /\ p[3] \in Values /\ p = <<p[1], p[2], p[3]>>
             /\ v \in Elements(dbs[p[1]].lists[p[2]]) /\ v \in All(dbs[p[1]].lists)
  <2>1. p[1] \in 1 .. 2 /\ p[2] \in Keys /\ p[3] \in Values /\ p = <<p[1], p[2], p[3]>>
    BY <1>0
  <2>2. v \in Elements(dbs[p[1]].lists[p[2]])
    BY <1>0 DEF Elements
  <2> QED BY <2>1, <2>2 DEF All
<1>2. ASSUME NEW j \in 1 .. 2, v \in All(dbs[j].lists) PROVE Cardinality(Places(v)) = 1
  <2>1. PICK k \in Keys : v \in Elements(dbs[j].lists[k])
    BY <1>2 DEF All
  <2> DEFINE q == dbs[j].lists[k]
  <2>2. PICK i \in DOMAIN q : q[i] = v
    BY <2>1 DEF Elements
  <2>3. q \in Seq(Values) /\ NoRepeats(q) /\ Separate(dbs[j].lists)
    <3>1. dbs[j] \in Db /\ (j = 1 \/ j = 2)
      BY DEF ValuesInv
    <3>2. Separate(dbs[j].lists)
      BY <3>1 DEF ValuesInv
    <3> QED BY <3>1, <3>2 DEF Db, Separate
  <2>4. i \in Values
    <3>1. IsFiniteSet(Values) /\ Cardinality(Values) = MaxValues
      BY FS_Interval DEF Values
    <3> HIDE DEF q
    <3>2. Elements(q) \subseteq Values /\ Len(q) \in Nat /\ DOMAIN q = 1 .. Len(q) /\ q = [x \in DOMAIN q |-> q[x]]
      BY <2>3 DEF Elements
    <3>3. Len(q) <= MaxValues
      BY <2>3, <3>1, <3>2, PigeonHole
    <3>4. i \in 1 .. Len(q)
      BY <2>2, <3>2
    <3> QED BY <3>2, <3>3, <3>4 DEF Values
  <2> DEFINE here == <<j, k, i>>
  <2>5. here \in Places(v)
    <3>1. here \in (1 .. 2) \X Keys \X Values /\ here[1] = j /\ here[2] = k /\ here[3] = i
      BY <2>4
    <3> HIDE DEF here
    <3> QED BY <1>0, <2>2, <3>1
  <2>6. ASSUME NEW p \in Places(v) PROVE p = here
    <3>1. p[1] = j
      <4>1. All(dbs[1].lists) \intersect All(dbs[2].lists) = {}
        BY DEF ValuesInv
      <4>2. v \in All(dbs[p[1]].lists) /\ p[1] \in 1 .. 2
        BY <1>1
      <4> QED BY <1>2, <4>1, <4>2
    <3>2. p[2] = k
      BY <1>1, <2>1, <2>3, <3>1 DEF Separate
    <3>3. p[3] = i
      <4>1. p[3] \in DOMAIN q /\ q[p[3]] = v
        BY <1>0, <3>1, <3>2
      <4> QED BY <2>2, <2>3, <4>1 DEF NoRepeats
    <3>4. p = <<p[1], p[2], p[3]>>
      BY <1>1
    <3> QED BY <3>1, <3>2, <3>3, <3>4
  <2>7. Places(v) = {here}
    BY <2>5, <2>6
  <2> QED BY <2>7, FS_Singleton
<1>3. ASSUME v \notin All(dbs[1].lists) \union All(dbs[2].lists) PROVE Cardinality(Places(v)) = 0
  <2>1. Places(v) = {}
    <3> SUFFICES ASSUME NEW p \in Places(v) PROVE FALSE
      OBVIOUS
    <3>1. p[1] \in 1 .. 2 /\ v \in All(dbs[p[1]].lists)
      BY <1>1
    <3>2. p[1] = 1 \/ p[1] = 2
      BY <3>1
    <3> QED BY <1>3, <3>1, <3>2
  <2> QED BY <2>1, FS_EmptySet
<1> QED BY <1>2, <1>3

\* Nothing is lost or given twice (cmd_list_blocking.rs), for every number of
\* clients, keys and values and every order of pushes, retries and swaps.
THEOREM NothingIsLost == Spec => []NothingLost
<1>1. ASSUME ValuesInv PROVE NothingLost
  <2>1. ASSUME NEW v \in 1 .. pushed
        PROVE  Cardinality(Places(v)) + Cardinality(taken \cap {v}) + Cardinality(refused \cap {v}) = 1
    <3> DEFINE U == All(dbs[1].lists) \union All(dbs[2].lists)
    <3>1. /\ U \intersect (taken \union refused) = {} /\ taken \intersect refused = {}
          /\ v \in U \union taken \union refused
      BY <1>1 DEF ValuesInv
    <3>2. /\ v \in U => Cardinality(Places(v)) = 1
          /\ v \notin U => Cardinality(Places(v)) = 0
      BY <1>1, OnePlace
    <3> HIDE DEF U
    <3>3. ASSUME NEW S PROVE Cardinality(S \cap {v}) = IF v \in S THEN 1 ELSE 0
      <4>1. CASE v \in S
        <5>1. S \cap {v} = {v}
          BY <4>1
        <5> QED BY <4>1, <5>1, FS_Singleton
      <4>2. CASE v \notin S
        <5>1. S \cap {v} = {}
          BY <4>2
        <5> QED BY <4>2, <5>1, FS_EmptySet
      <4> QED BY <4>1, <4>2
    <3> QED BY <3>1, <3>2, <3>3
  <2> QED BY <2>1 DEF NothingLost, Places
<1> QED BY <1>1, ValuesInvariance, PTL

-----------------------------------------------------------------------------
(* The remaining types.                                                    *)

\* The types of what neither invariant speaks of.
FlagTypes ==
    /\ permit \in [Clients -> BOOLEAN]
    /\ due \in [Clients -> BOOLEAN]
    /\ latched \in BOOLEAN
    /\ swaps \in 0 .. MaxSwaps

\* Every step keeps the types of the flags and counters.
LEMMA FlagTypesStep == FlagTypes /\ [Next]_vars => FlagTypes'
<1> SUFFICES ASSUME FlagTypes, [Next]_vars PROVE FlagTypes'
  OBVIOUS
<1>1. ASSUME NEW c, NEW m, NEW wait, NEW answered, NEW isDue, Execute(c, m, wait, answered, isDue), UNCHANGED swaps,
             due' \in [Clients -> BOOLEAN]
      PROVE  FlagTypes'
  <2>1. permit' \in [Clients -> BOOLEAN]
    BY <1>1 DEF Execute, NotifyKeys, FlagTypes
  <2>2. latched' \in BOOLEAN
    BY <1>1 DEF Execute, FlagTypes
  <2> QED BY <1>1, <2>1, <2>2 DEF FlagTypes
<1>2. ASSUME NEW c \in Clients, Retry(c) PROVE FlagTypes'
  <2>1. Execute(c, cmd[c], "register", "clear", Deadline(c)) /\ UNCHANGED swaps
    BY <1>2 DEF Retry
  <2>2. due' \in [Clients -> BOOLEAN]
    BY <2>1 DEF Execute, Forget, Deadline, FlagTypes
  <2> QED BY <1>1, <2>1, <2>2
<1>3. ASSUME NEW c \in Clients, NEW m \in Commands, Call(c, m) PROVE FlagTypes'
  <2>1. Execute(c, m, "flag", "unflag", FALSE) /\ UNCHANGED swaps
    BY <1>3 DEF Call
  <2>2. due' \in [Clients -> BOOLEAN]
    BY <2>1 DEF Execute, Forget, FlagTypes
  <2> QED BY <1>1, <2>1, <2>2
<1>4. ASSUME NEW c \in Clients,
             Flag(c) \/ Register(c) \/ Sleep(c) \/ ReadBytes(c) \/ Clear(c) \/ Unflag(c) \/ Disconnect(c)
      PROVE  FlagTypes'
  <2>1. UNCHANGED <<permit, due, latched, swaps>>
    BY <1>4 DEF Flag, Register, Sleep, ReadBytes, Clear, Unflag, Disconnect, history
  <2> QED BY <2>1 DEF FlagTypes
<1>5. ASSUME NEW c \in Clients, CheckDeadline(c) \/ PeerClosed(c) \/ Expire(c)
      PROVE  FlagTypes'
  <2>1. UNCHANGED <<permit, latched, swaps>>
    BY <1>5 DEF CheckDeadline, PeerClosed, Expire, history
  <2>2. due' = due \/ due' = [due EXCEPT ![c] = TRUE] \/ due' = [due EXCEPT ![c] = FALSE]
    BY <1>5 DEF CheckDeadline, PeerClosed, Expire, Forget
  <2> QED BY <2>1, <2>2 DEF FlagTypes
<1>6. ASSUME NEW c \in Clients, Notified(c) \/ Finish(c) PROVE FlagTypes'
  <2>1. UNCHANGED <<due, latched, swaps>> /\ permit' = [permit EXCEPT ![c] = FALSE]
    BY <1>6 DEF Notified, Finish, history
  <2> QED BY <2>1 DEF FlagTypes
<1>7. ASSUME NEW k \in Keys, NEW n \in PushSizes, Push(k, n) PROVE FlagTypes'
  <2>1. UNCHANGED <<due, swaps>>
    BY <1>7 DEF Push
  <2>2. permit' \in [Clients -> BOOLEAN]
    BY <1>7 DEF Push, NotifyKeys, FlagTypes
  <2>3. latched' \in BOOLEAN
    BY <1>7 DEF Push
  <2> QED BY <2>1, <2>2, <2>3 DEF FlagTypes
<1>8. CASE SwapDb
  BY <1>8 DEF SwapDb, FlagTypes
<1>9. CASE UNCHANGED vars
  BY <1>9 DEF vars, history, FlagTypes
<1> QED BY <1>2, <1>3, <1>4, <1>5, <1>6, <1>7, <1>8, <1>9 DEF Next, Own

\* Every variable has its type, and no queue of waiters outgrows the clients
\* (BlockingState::register), however often each of them registers.
THEOREM TypeCorrect == Spec => []TypeOK
<1>1. ASSUME Init PROVE FlagTypes
  <2>1. swaps \in 0 .. MaxSwaps
    BY <1>1 DEF Init
  <2> QED BY <1>1, <2>1 DEF Init, FlagTypes
<1>2. ASSUME RegistryInv, ValuesInv, FlagTypes PROVE TypeOK
  <2>1. ASSUME NEW k \in Keys PROVE Len(keyWaiters[k]) <= Cardinality(Clients)
    <3> DEFINE q == keyWaiters[k]
    <3>1. q \in Seq(Clients) /\ IsInjective(q)
      BY <1>2 DEF RegistryInv, SessionTypes, IndexesAgree
    <3> HIDE DEF q
    <3>2. Elements(q) \subseteq Clients /\ Len(q) \in Nat /\ DOMAIN q = 1 .. Len(q) /\ q = [x \in DOMAIN q |-> q[x]]
      BY <3>1 DEF Elements
    <3>3. Len(q) <= Cardinality(Clients)
      BY <3>1, <3>2, SameNotions, ClientsAssumption, PigeonHole
    <3> QED BY <3>3 DEF q
  <2>2. taken \subseteq Values /\ refused \subseteq Values
    <3>1. taken \subseteq 1 .. pushed /\ refused \subseteq 1 .. pushed /\ pushed \in 0 .. MaxValues
      BY <1>2 DEF ValuesInv
    <3> QED BY <3>1 DEF Values
  <2> QED BY <1>2, <2>1, <2>2 DEF TypeOK, RegistryInv, SessionTypes, ValuesInv, FlagTypes
<1>3. Spec => []FlagTypes
  BY <1>1, FlagTypesStep, PTL DEF Spec
<1> QED BY <1>2, <1>3, RegistryInvariance, ValuesInvariance, PTL
=============================================================================
