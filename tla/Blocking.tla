------------------------------ MODULE Blocking ------------------------------
(***************************************************************************)
(* Blocking list commands: the probe and retry loop of a session           *)
(* (client/execution.rs, run_with_blocking_retry), the registry of blocked  *)
(* clients (clients.rs, BlockingState) and the commands that are retried    *)
(* (command/cmd_list_blocking.rs).                                          *)
(*                                                                          *)
(* A session takes the server lock for each of its steps and gives it back  *)
(* between them, so pushes, swaps of databases and other sessions come      *)
(* between the probe and the registration, between two retries, and between *)
(* the last retry and the removal of the registration.                      *)
(*                                                                          *)
(* All clients have database 1 selected.  Values are numbered in the order  *)
(* in which they are pushed, so each value can be followed.  Lists are      *)
(* pushed at the right and popped at the left; the other sides, BRPOP and   *)
(* BRPOPLPUSH differ in nothing the properties tell apart.  Lists have no   *)
(* deadline here.                                                           *)
(***************************************************************************)
EXTENDS Integers, Sequences, FiniteSets, FiniteSetsExt, SequencesExt, Subsequences

CONSTANTS
    Clients,    \* the sessions that send blocking commands
    Keys,
    Commands,   \* the blocking commands they send
    Other,      \* what database 2 holds at first
    PushSizes,  \* how many values one RPUSH may have
    MaxValues,  \* bound: values ever pushed
    MaxSwaps,   \* bound: SWAPDB commands
    AofEnabled

\* The arity of each command is checked before it runs.
ASSUME CommandsAssumption ==
    /\ Commands \subseteq [op: {"BLPOP", "BLMOVE", "BLMPOP"}, keys: Seq(Keys),
                           count: Nat \ {0}, timed: BOOLEAN]
    /\ \A m \in Commands : Len(m.keys) >= (IF m.op = "BLMOVE" THEN 2 ELSE 1)

ASSUME ClientsAssumption == IsFiniteSet(Clients)

ASSUME BoundsAssumption ==
    /\ PushSizes \subseteq Nat \ {0}
    /\ MaxValues \in Nat
    /\ MaxSwaps \in Nat
    /\ AofEnabled \in BOOLEAN

VARIABLES
    dbs,         \* two databases: lists, and the keys that hold strings
    keyWaiters,  \* BlockingState.key_waiters of database 1
    clientKeys,  \* BlockingState.client_keys
    permit,      \* the permit stored in the client's tokio Notify
    blocked,     \* ClientRegistry.blocked_clients
    latched,     \* aof_last_error is set
    pc,          \* where each session is
    cmd,         \* the command it runs
    due,         \* the deadline of that command has passed
    pushed,      \* number of values pushed so far
    taken,       \* history: values that were popped for a client
    refused,     \* history: values popped by a command that was answered with an AOF error
    swaps        \* number of SWAPDB so far

registry == <<keyWaiters, clientKeys>>
history  == <<pushed, taken, refused, swaps>>
vars == <<dbs, keyWaiters, clientKeys, permit, blocked, latched, pc, cmd, due, history>>

Values == 1..MaxValues
Db     == [lists: [Keys -> Seq(Values)], strings: SUBSET Keys]
NoCmd  == [op |-> "none", keys |-> <<>>, count |-> 1, timed |-> FALSE]
Empty  == [lists |-> [k \in Keys |-> <<>>], strings |-> {}]

\* The values of database 2 are the first that were pushed, each in one place.
ASSUME OtherAssumption ==
    /\ Other \in Db
    /\ \A k, l \in Keys : \A i \in DOMAIN Other.lists[k], j \in DOMAIN Other.lists[l] :
          Other.lists[k][i] = Other.lists[l][j] => k = l /\ i = j
    /\ UNION {ToSet(Other.lists[k]) : k \in Keys} = 1..Cardinality(UNION {ToSet(Other.lists[k]) : k \in Keys})

\* The states of a session: nothing to do, before refresh_client_snapshot(true),
\* before register_blocked_client, at the head of the retry loop, in
\* wait_for_blocking_ready, before a retry, before clear_blocked_client, before
\* refresh_client_snapshot(false), before finish_client_connection, ended.
PcStates == {"idle", "flag", "register", "check", "wait", "retry", "clear",
             "unflag", "finish", "gone"}
-----------------------------------------------------------------------------
(* The commands, run once: try_bpop_once, try_lmpop_once and cmd_lmove      *)

\* What one execution gives: the kind of reply, the database after it and the
\* values that left the database.
Result(kind, d, values) == [kind |-> kind, db |-> d, values |-> values]

Occupied(d, k) == k \in d.strings \/ d.lists[k] # <<>>

\* BLPOP and BLMPOP: the first key that exists decides.
TryPop(d, keys, count) ==
    LET found == {i \in DOMAIN keys : Occupied(d, keys[i])}
        k     == keys[Min(found)]
        n     == Min({count, Len(d.lists[k])})
    IN  IF found = {} THEN Result("nil", d, <<>>)
        ELSE IF k \in d.strings THEN Result("error", d, <<>>)
        ELSE Result("value", [d EXCEPT !.lists[k] = SubSeq(@, n + 1, Len(@))],
                    SubSeq(d.lists[k], 1, n))

\* Mutant: the value is popped before the destination's type is looked at.
MutTryMove(d, src, dst) ==
    IF src \in d.strings THEN Result("error", d, <<>>)
    ELSE IF d.lists[src] = <<>> THEN Result("nil", d, <<>>)
    ELSE LET popped == [d.lists EXCEPT ![src] = Tail(@)]
         IN  IF dst \in d.strings THEN Result("error", [d EXCEPT !.lists = popped], <<>>)
             ELSE Result("value",
                    [d EXCEPT !.lists = [popped EXCEPT ![dst] = Append(@, Head(d.lists[src]))]],
                    <<>>)

\* The type of the destination is looked at before anything is popped.
TryMove(d, src, dst) ==
    IF src \in d.strings THEN Result("error", d, <<>>)
    ELSE IF d.lists[src] = <<>> THEN Result("nil", d, <<>>)
    ELSE IF dst \in d.strings THEN Result("error", d, <<>>)
    ELSE LET popped == [d.lists EXCEPT ![src] = Tail(@)]
         IN  Result("value",
                    [d EXCEPT !.lists = [popped EXCEPT ![dst] = Append(@, Head(d.lists[src]))]],
                    <<>>)

TryOnce(d, m) ==
    IF m.op = "BLMOVE" THEN TryMove(d, m.keys[1], m.keys[2]) ELSE TryPop(d, m.keys, m.count)

\* The keys a client waits for.
WatchKeys(m) == IF m.op = "BLMOVE" THEN {m.keys[1]} ELSE ToSet(m.keys)

\* The keys whose waiters a successful command notifies: those at the key
\* positions of the command table, which has none for BLMPOP.
TouchedKeys(m) == IF m.op = "BLMPOP" THEN {} ELSE ToSet(m.keys)
-----------------------------------------------------------------------------
(* BlockingState                                                            *)

\* Mutant: a registration is forgotten by the client and not by the key.
MutCleared(c) == keyWaiters

\* clear: the client leaves the queue of each key it is registered for.
Cleared(c) ==
    [k \in Keys |-> IF k \in clientKeys[c] THEN Only(keyWaiters[k], Clients \ {c})
                    ELSE keyWaiters[k]]

ClearBlockedClient(c) ==
    /\ keyWaiters' = Cleared(c)
    /\ clientKeys' = [clientKeys EXCEPT ![c] = {}]

\* register: clear, then join the back of the queue of each watched key.
RegisterBlockedClient(c, keys) ==
    /\ keyWaiters' = [k \in Keys |-> IF k \in keys /\ c \notin ToSet(Cleared(c)[k])
                                     THEN Append(Cleared(c)[k], c) ELSE Cleared(c)[k]]
    /\ clientKeys' = [clientKeys EXCEPT ![c] = keys]

\* notify_keys: the first waiter of each key, and nobody else, gets a permit; a
\* Notify holds at most one.
NotifyKeys(keys) ==
    permit' = [c \in Clients |-> \/ permit[c]
                                 \/ \E k \in keys : keyWaiters[k] # <<>> /\ Head(keyWaiters[k]) = c]
-----------------------------------------------------------------------------
Init ==
    /\ dbs = <<Empty, Other>>
    /\ keyWaiters = [k \in Keys |-> <<>>]
    /\ clientKeys = [c \in Clients |-> {}]
    /\ permit = [c \in Clients |-> FALSE]
    /\ blocked = [c \in Clients |-> FALSE]
    /\ latched = FALSE
    /\ pc = [c \in Clients |-> "idle"]
    /\ cmd = [c \in Clients |-> NoCmd]
    /\ due = [c \in Clients |-> FALSE]
    /\ pushed = Cardinality(UNION {ToSet(Other.lists[k]) : k \in Keys})
    /\ taken = {}
    /\ refused = {}
    /\ swaps = 0

Goto(c, from, to) == pc[c] = from /\ pc' = [pc EXCEPT ![c] = to]

\* The command c runs and whether its deadline has passed are state only until
\* it is answered.
Forget(c) == cmd' = [cmd EXCEPT ![c] = NoCmd] /\ due' = [due EXCEPT ![c] = FALSE]

\* One execution of command m under the server lock: refused at once when the
\* AOF is latched; otherwise run, its keys' waiters notified, and its effect
\* appended, which may fail and latch.  A reply of nil becomes a wait, unless
\* the deadline the execution computed has passed by then.
Execute(c, m, wait, answered, isDue) ==
    LET r == TryOnce(dbs[1], m)
    IN  \/ /\ AofEnabled /\ latched
           /\ pc' = [pc EXCEPT ![c] = answered]
           /\ Forget(c)
           /\ UNCHANGED <<dbs, permit, latched, taken, refused>>
        \/ /\ ~(AofEnabled /\ latched)
           /\ r.kind = "nil"
           /\ \/ pc' = [pc EXCEPT ![c] = wait] /\ cmd' = [cmd EXCEPT ![c] = m]
                                               /\ due' = [due EXCEPT ![c] = isDue]
              \/ m.timed /\ pc' = [pc EXCEPT ![c] = answered] /\ Forget(c)
           /\ UNCHANGED <<dbs, permit, latched, taken, refused>>
        \/ /\ ~(AofEnabled /\ latched)
           /\ r.kind # "nil"
           /\ pc' = [pc EXCEPT ![c] = answered]
           /\ Forget(c)
           /\ dbs' = [dbs EXCEPT ![1] = r.db]
           /\ IF r.kind = "value" THEN NotifyKeys(TouchedKeys(m)) ELSE UNCHANGED permit
           /\ latched' \in (IF AofEnabled /\ r.kind = "value" THEN BOOLEAN ELSE {FALSE})
           /\ taken' = IF latched' THEN taken ELSE taken \cup ToSet(r.values)
           /\ refused' = IF latched' THEN refused \cup ToSet(r.values) ELSE refused

\* The command arrives and is run for the first time.
Call(c, m) ==
    /\ pc[c] = "idle"
    /\ Execute(c, m, "flag", "unflag", FALSE)
    /\ UNCHANGED <<registry, blocked, pushed, swaps>>

\* refresh_client_snapshot(.., true)
Flag(c) ==
    /\ Goto(c, "flag", "register")
    /\ blocked' = [blocked EXCEPT ![c] = TRUE]
    /\ UNCHANGED <<dbs, registry, permit, latched, cmd, due, history>>

\* register_blocked_client, under a lock of its own after the probe or retry
Register(c) ==
    /\ Goto(c, "register", "check")
    /\ RegisterBlockedClient(c, WatchKeys(cmd[c]))
    /\ UNCHANGED <<dbs, permit, blocked, latched, cmd, due, history>>

\* The head of the loop: a passed deadline ends the command without a retry.
CheckDeadline(c) ==
    /\ Goto(c, "check", IF due[c] THEN "clear" ELSE "wait")
    /\ IF due[c] THEN Forget(c) ELSE UNCHANGED <<cmd, due>>
    /\ UNCHANGED <<dbs, registry, permit, blocked, latched, history>>

\* wait_for_blocking_ready: the permit, the timer, pipelined bytes or the end of
\* the connection, whichever select! takes.
Notified(c) ==
    /\ permit[c]
    /\ Goto(c, "wait", "retry")
    /\ permit' = [permit EXCEPT ![c] = FALSE]
    /\ UNCHANGED <<dbs, registry, blocked, latched, cmd, due, history>>

\* Mutant: the poll only runs for commands with a deadline.
MutTimerSet(c) == cmd[c].timed

\* The timer is set to the time left, at most BLOCKING_RETRY_POLL_CAP, so it
\* also runs for a command without a deadline.
TimerSet(c) == TRUE

Sleep(c) ==
    /\ TimerSet(c)
    /\ Goto(c, "wait", "retry")
    /\ UNCHANGED <<dbs, registry, permit, blocked, latched, cmd, due, history>>

ReadBytes(c) ==
    /\ Goto(c, "wait", "retry")
    /\ UNCHANGED <<dbs, registry, permit, blocked, latched, cmd, due, history>>

\* The peer closed, or sent more than the query buffer may hold.
PeerClosed(c) ==
    /\ Goto(c, "wait", "finish")
    /\ Forget(c)
    /\ UNCHANGED <<dbs, registry, permit, blocked, latched, history>>

\* Mutant: each retry starts a new deadline.
MutDeadline(c) == FALSE

\* A retry keeps the deadline of the first execution.
Deadline(c) == due[c]

Retry(c) ==
    /\ pc[c] = "retry"
    /\ Execute(c, cmd[c], "register", "clear", Deadline(c))
    /\ UNCHANGED <<registry, blocked, pushed, swaps>>

\* clear_blocked_client
Clear(c) ==
    /\ Goto(c, "clear", "unflag")
    /\ ClearBlockedClient(c)
    /\ UNCHANGED <<dbs, permit, blocked, latched, cmd, due, history>>

\* refresh_client_snapshot(.., false), and the reply is given to the session.
Unflag(c) ==
    /\ Goto(c, "unflag", "idle")
    /\ blocked' = [blocked EXCEPT ![c] = FALSE]
    /\ UNCHANGED <<dbs, registry, permit, latched, cmd, due, history>>

\* A session between two commands ends.
Disconnect(c) ==
    /\ Goto(c, "idle", "finish")
    /\ UNCHANGED <<dbs, registry, permit, blocked, latched, cmd, due, history>>

\* finish_client_connection: registration, notifier and snapshot are removed.
Finish(c) ==
    /\ Goto(c, "finish", "gone")
    /\ ClearBlockedClient(c)
    /\ permit' = [permit EXCEPT ![c] = FALSE]
    /\ blocked' = [blocked EXCEPT ![c] = FALSE]
    /\ UNCHANGED <<dbs, latched, cmd, due, history>>

\* Time passes the deadline of the command.
Expire(c) ==
    /\ cmd[c].timed /\ ~due[c]
    /\ pc[c] \in {"flag", "register", "check", "wait", "retry"}
    /\ due' = [due EXCEPT ![c] = TRUE]
    /\ UNCHANGED <<dbs, registry, permit, blocked, latched, pc, cmd, history>>

\* RPUSH of n values by another client; only the first waiter is notified,
\* however many values there are.  The append may fail after the push.
Push(k, n) ==
    /\ pushed + n <= MaxValues
    /\ k \notin dbs[1].strings
    /\ ~(AofEnabled /\ latched)
    /\ dbs' = [dbs EXCEPT ![1].lists[k] = @ \o [i \in 1..n |-> pushed + i]]
    /\ pushed' = pushed + n
    /\ NotifyKeys({k})
    /\ latched' \in (IF AofEnabled THEN BOOLEAN ELSE {FALSE})
    /\ UNCHANGED <<registry, blocked, pc, cmd, due, taken, refused, swaps>>

\* SWAPDB of databases 1 and 2 notifies nobody, and is no write command for the
\* AOF latch.
SwapDb ==
    /\ swaps < MaxSwaps
    /\ dbs' = <<dbs[2], dbs[1]>>
    /\ swaps' = swaps + 1
    /\ UNCHANGED <<registry, permit, blocked, latched, pc, cmd, due, pushed, taken, refused>>

Own(c) ==
    \/ Flag(c) \/ Register(c) \/ CheckDeadline(c)
    \/ Notified(c) \/ Sleep(c)
    \/ Retry(c) \/ Clear(c) \/ Unflag(c) \/ Finish(c)

Next ==
    \/ \E c \in Clients : Own(c) \/ ReadBytes(c) \/ PeerClosed(c) \/ Disconnect(c) \/ Expire(c)
    \/ \E c \in Clients, m \in Commands : Call(c, m)
    \/ \E k \in Keys, n \in PushSizes : Push(k, n)
    \/ SwapDb

\* Tokio runs every session that is ready, its mutex serves waiters in order,
\* timers fire, and time passes.  Nothing is assumed of other clients.
Fairness == \A c \in Clients : WF_vars(Own(c)) /\ WF_vars(Expire(c))

Spec == Init /\ [][Next]_vars /\ Fairness
-----------------------------------------------------------------------------
\* Every variable has its type, and no queue of waiters is longer than there are
\* clients (BlockingState::register, which may be called any number of times).
TypeOK ==
    /\ dbs \in [1..2 -> Db]
    /\ keyWaiters \in [Keys -> Seq(Clients)]
    /\ \A k \in Keys : Len(keyWaiters[k]) <= Cardinality(Clients)
    /\ clientKeys \in [Clients -> SUBSET Keys]
    /\ permit \in [Clients -> BOOLEAN]
    /\ blocked \in [Clients -> BOOLEAN]
    /\ latched \in BOOLEAN
    /\ pc \in [Clients -> PcStates]
    /\ cmd \in [Clients -> Commands \cup {NoCmd}]
    /\ due \in [Clients -> BOOLEAN]
    /\ pushed \in 0..MaxValues
    /\ taken \subseteq Values
    /\ refused \subseteq Values
    /\ swaps \in 0..MaxSwaps

\* key_waiters and client_keys are two indexes over the same registrations
\* (clients.rs, BlockingState), without duplicates; a registered client is shown as
\* blocked and is in the retry loop, a waiting client is registered for all
\* its keys, and a client that was answered or has gone has left nothing behind, so
\* no notification is spent on it.
RegistryExact ==
    /\ \A k \in Keys, c \in Clients : k \in clientKeys[c] <=> c \in ToSet(keyWaiters[k])
    /\ \A k \in Keys : IsInjective(keyWaiters[k])
    /\ \A c \in Clients :
         /\ clientKeys[c] # {} =>
              blocked[c] /\ pc[c] \in {"register", "check", "wait", "retry", "clear", "finish"}
         /\ pc[c] \in {"check", "wait", "retry"} => clientKeys[c] = WatchKeys(cmd[c])
         /\ pc[c] \in {"idle", "gone"} => clientKeys[c] = {} /\ ~blocked[c]

\* A value that was pushed is in exactly one place: in one list, with the
\* client it was popped for, or refused by an append that failed, however often the
\* commands were retried and whatever they met (cmd_list_blocking.rs).
NothingLost ==
    \A v \in 1..pushed :
      LET list(p) == dbs[p[1]].lists[p[2]]
          held == {p \in (1..2) \X Keys \X Values : p[3] \in DOMAIN list(p) /\ list(p)[p[3]] = v}
      IN  Cardinality(held) + Cardinality(taken \cap {v}) + Cardinality(refused \cap {v}) = 1

\* A client that waits beside a value of one of its keys is answered, or its
\* keys are emptied by others: the poll of wait_for_blocking_ready makes up for every notification
\* that was missed, swallowed or never sent.
NoStrandedWaiter ==
    \A c \in Clients :
      LET hasValue == \E k \in clientKeys[c] : dbs[1].lists[k] # <<>>
      IN  (pc[c] = "wait" /\ hasValue) ~> (pc[c] \in {"idle", "gone"} \/ ~hasValue)

\* A command with a timeout is answered, however often it is woken in vain
\* (run_with_blocking_retry keeps the first deadline).
TimedAnswered ==
    \A c \in Clients : cmd[c].timed ~> pc[c] \in {"idle", "gone"}
=============================================================================
