------------------------------- MODULE Fanout -------------------------------
(***************************************************************************)
(* What one session makes the server push to other sessions: pub/sub       *)
(* messages (pubsub.rs), the invalidations of client-side caching          *)
(* (tracking.rs, cmd_client_tracking.rs) and MONITOR lines (keyspace.rs).   *)
(*                                                                          *)
(* Messages and invalidations share one bounded queue per connection; the   *)
(* session of that connection (client/session_runtime.rs, session_loop.rs)  *)
(* drains it before it waits, when it is woken, and after its own replies.  *)
(* A push that finds the queue full is dropped and the sender with it: the  *)
(* session then finds its channel closed and ends the connection.           *)
(*                                                                          *)
(* Every command runs under the server lock except a lock-free read, which  *)
(* takes its value first and does the rest under the lock in a second step. *)
(*                                                                          *)
(* Beside the server the module keeps what the application behind the       *)
(* connections holds in its cache.  It follows the rules of client-side     *)
(* caching: it keeps a reply only where the mode makes the server remember  *)
(* it, drops a key it writes itself, drops what an invalidation names on    *)
(* the connection or on the one it redirects to, and drops everything when  *)
(* it changes the mode or one of these connections ends.                    *)
(***************************************************************************)
EXTENDS Integers, Sequences, FiniteSets, SequencesExt, Subsequences

CONSTANTS
    Clients,        \* the connections, numbered from 1
    Keys,
    NoKey,          \* not a key
    Channels, ShardChannels, Patterns,
    Matches,        \* the channels each pattern matches
    Prefixed,       \* the keys that begin with the prefix of a broadcast mode
    Modes,          \* the arguments of CLIENT TRACKING ON
    WriteSets,      \* the sets of keys one write command touches
    Workloads,      \* what each client may do: the kinds of command and how many of them (a bound)
    Protocol,       \* the protocol version each client chose with HELLO
    HardLimit       \* pubsub-queue-hard-limit

Subscriptions == Channels \union ShardChannels \union Patterns

ASSUME SubscriptionsAssumption ==
    /\ Clients \subseteq Nat \ {0}
    /\ Matches \in [Patterns -> SUBSET Channels]
    /\ NoKey \notin Keys
    /\ Prefixed \subseteq Keys
    /\ WriteSets \subseteq SUBSET Keys

\* Only combinations that cmd_client_tracking accepts.
ASSUME ModesAssumption ==
    /\ Modes \subseteq [redirect: Clients \union {0}, bcast: BOOLEAN, prefix: BOOLEAN, noLoop: BOOLEAN,
                        opt: {"none", "in", "out"}]
    /\ \A m \in Modes : (m.prefix => m.bcast) /\ (m.bcast => m.opt = "none")

Ops == {"subscribe", "publish", "tracking", "read", "fastread", "write", "monitor", "reset", "hangup"}

ASSUME BoundsAssumption ==
    /\ HardLimit \in Nat
    /\ Protocol \in [Clients -> {2, 3}]
    /\ Workloads \subseteq [Clients -> [ops: SUBSET Ops, left: Nat]]

VARIABLES
    subscribers,  \* PubSubState: channels, shard_channels and patterns
    subs,         \* PubSubState: client_channel_subs and its two siblings
    senders,      \* the keys of subscriber_tx
    queue,        \* the messages in each client's mpsc channel
    keyWatchers,  \* ClientTrackingState.key_watchers
    trackerKeys,  \* ClientTrackingState.tracker_keys
    broadcasts,   \* ClientTrackingState.broadcast_watchers
    broken,       \* ClientTrackingState.broken_redirects
    monitors,     \* ServerState.monitor_clients
    pending,      \* the clients with lines in monitor_pending
    notifiers,    \* the keys of monitor_notifiers
    permit,       \* the clients whose monitor Notify stores a permit
    snapshot,     \* ClientRegistry: the protocol version it shows, 0 when the client is not in it
    mode,         \* ClientState: tracking_*, caching_enabled
    protocol,     \* ClientState.protocol_version
    pc,           \* where each session is
    reading,      \* the key of a lock-free read between its two steps
    todo,         \* what each client is still going to do
    cached,       \* application: what it holds of each key
    due,          \* history: published messages each subscriber still has to get
    published     \* number of messages published so far

registries == <<subscribers, subs, keyWatchers, trackerKeys, broadcasts, broken>>
monitoring == <<monitors, pending, notifiers, permit>>
vars == <<registries, senders, queue, monitoring, snapshot, mode, protocol, pc, reading, todo, cached,
          due, published>>

PubSubMessages   == [kind: {"message"}, id: Nat, by: Subscriptions]
Message(n, s)    == [kind |-> "message", id |-> n, by |-> s]
Invalidate(keys) == [kind |-> "invalidate", keys |-> keys]
RedirectBroken(c) == [kind |-> "tracking-redir-broken", of |-> c]

\* The state of ClientState's tracking fields before CLIENT TRACKING and after RESET.
Off == [on |-> FALSE, redirect |-> 0, bcast |-> FALSE, prefix |-> FALSE, noLoop |-> FALSE, opt |-> "none",
        caching |-> TRUE]

Connected(c) == snapshot[c] # 0

-----------------------------------------------------------------------------
(* Queues. *)

Capacity == IF HardLimit > 1 THEN HardLimit ELSE 1

Room(c) == Capacity - Len(queue[c])

\* A full queue drops the message and keeps the sender.
MutSendToClients(open, ms) ==
    /\ queue' = [c \in Clients |-> IF c \in open /\ Len(ms[c]) <= Room(c) THEN queue[c] \o ms[c] ELSE queue[c]]
    /\ senders' = open

\* send_to_client for the messages ms[c] of every client, in order: what fits is queued, and the first
\* message that does not fit takes the sender away.
SendToClients(open, ms) ==
    /\ queue' = [c \in Clients |-> IF c \in open
                                   THEN queue[c] \o SubSeq(ms[c], 1, IF Room(c) < Len(ms[c]) THEN Room(c) ELSE Len(ms[c]))
                                   ELSE queue[c]]
    /\ senders' = {c \in open : Len(ms[c]) <= Room(c)}

NoMessages == [c \in Clients |-> <<>>]

KeysIn(ms) == UNION {ms[i].keys : i \in {j \in DOMAIN ms : ms[j].kind = "invalidate"}}

Published(ms) == Only(ms, PubSubMessages)

\* The connections whose cache an invalidation on connection c is about.
ServedBy(c) == {d \in Clients : d = c \/ mode[d].redirect = c}

\* The first n messages of the queue go out on the connection, and the application acts on them.
Deliver(c, n) ==
    LET out == SubSeq(queue[c], 1, n) IN
    /\ queue' = [queue EXCEPT ![c] = SubSeq(@, n + 1, Len(@))]
    /\ due' = [due EXCEPT ![c] = SubSeq(@, Len(Published(out)) + 1, Len(@))]
    /\ cached' = [d \in Clients |-> [k \in Keys |-> IF d \in ServedBy(c) /\ k \in KeysIn(out)
                                                    THEN "none" ELSE cached[d][k]]]

-----------------------------------------------------------------------------
(* Pub/sub. *)

Subscribe(c, s) ==
    /\ subscribers' = [subscribers EXCEPT ![s] = @ \union {c}]
    /\ subs' = [subs EXCEPT ![c] = @ \union {s}]

Unsubscribe(c, ss) ==
    /\ subscribers' = [s \in Subscriptions |-> IF s \in ss THEN subscribers[s] \ {c} ELSE subscribers[s]]
    /\ subs' = [subs EXCEPT ![c] = @ \ ss]

\* Message n on channel or shard channel ch for client c: one copy for the channel itself, then one for
\* each pattern (publish, publish_shard).
Copies(c, ch, n) ==
    LET byPattern == {p \in Patterns : ch \in Matches[p] /\ c \in subscribers[p]}
        by == (IF c \in subscribers[ch] THEN <<ch>> ELSE <<>>) \o SetToSeq(byPattern)
    IN  [i \in DOMAIN by |-> Message(n, by[i])]

-----------------------------------------------------------------------------
(* Client tracking. *)

\* tracking_target_client_id
TargetOf(c) ==
    IF mode[c].redirect \notin {0, c} /\ c \notin broken /\ Connected(mode[c].redirect)
    THEN mode[c].redirect
    ELSE c

\* tracking_should_record_reads
RecordsReads(c) == mode[c].on /\ ~mode[c].bcast /\ (mode[c].opt = "none" \/ mode[c].caching)

Covers(b, k) == b.prefix => k \in Prefixed

\* The application keeps the reply of a read when the server is going to tell it of a change.
Keeps(c, k) == RecordsReads(c) \/ (mode[c].bcast /\ Covers(mode[c], k))

\* maybe_track_client_tracking_access, track_key
TrackKey(c, k) ==
    IF RecordsReads(c)
    THEN /\ keyWatchers' = [keyWatchers EXCEPT ![k] =
                {w \in @ : w.tracker # c}
                    \union {[tracker |-> c, target |-> TargetOf(c), noLoop |-> mode[c].noLoop]}]
         /\ trackerKeys' = [trackerKeys EXCEPT ![c] = @ \union {k}]
    ELSE UNCHANGED <<keyWatchers, trackerKeys>>

\* A tracker with NOLOOP hears of no write at all.
MutConcerns(w, writer) == ~w.noLoop

Concerns(w, writer) == ~(w.noLoop /\ w.tracker = writer)

\* invalidate_keys: the keys each client is to be told of.
InvalidKeys(writer, keys) ==
    [t \in Clients |-> {k \in keys :
        \/ \E w \in keyWatchers[k] : w.target = t /\ Concerns(w, writer)
        \/ \E b \in broadcasts : b.target = t /\ Concerns(b, writer) /\ Covers(b, k)}]

ClearTracker(c) ==
    /\ keyWatchers' = [k \in Keys |-> {w \in keyWatchers[k] : w.tracker # c}]
    /\ trackerKeys' = [trackerKeys EXCEPT ![c] = {}]
    /\ broken' = broken \ {c}

\* The trackers clear_target detaches from c, once c's own entries are gone.
Detached(c) == {w.tracker : w \in {v \in broadcasts \union UNION {keyWatchers[k] : k \in Keys} :
                                      v.target = c /\ v.tracker # c}}

\* The entries that point at c are left as they are.
MutRetargeted(ws, c) == {w \in ws : w.tracker # c}

Retargeted(ws, c) == {IF w.target = c THEN [w EXCEPT !.target = w.tracker] ELSE w : w \in {v \in ws : v.tracker # c}}

\* tracking_remove_client: clear_tracker, clear_target and the push to the detached trackers with RESP3.
TrackingRemoveClient(c, open) ==
    /\ keyWatchers' = [k \in Keys |-> Retargeted(keyWatchers[k], c)]
    /\ broadcasts' = Retargeted(broadcasts, c)
    /\ trackerKeys' = [trackerKeys EXCEPT ![c] = {}]
    /\ broken' = (broken \ {c}) \union Detached(c)
    /\ SendToClients(open, [d \in Clients |-> IF d \in Detached(c) /\ snapshot[d] >= 3
                                             THEN <<RedirectBroken(c)>> ELSE <<>>])

EmptyCache(cs) == [c \in Clients |-> [k \in Keys |-> IF c \in cs THEN "none" ELSE cached[c][k]]]

-----------------------------------------------------------------------------
(* What every command does: it is one of the pipeline the session is       *)
(* running, and afterwards the one-shot CLIENT CACHING mode ends and the    *)
(* monitors get a line (apply_post_execute_side_effects_with_spec).         *)

Runs(c, op) ==
    /\ pc[c] = "run"
    /\ op \in todo[c].ops
    /\ todo[c].left > 0
    /\ todo' = [todo EXCEPT ![c].left = @ - 1]

\* finish_tracking_command and reset_tracking_caching_mode
Finished(m) == IF m.on /\ m.opt # "none" THEN [m EXCEPT !.caching = m.opt = "out"] ELSE m

FinishTracking(c) == mode' = [mode EXCEPT ![c] = Finished(@)]

\* broadcast_monitor_message
Broadcast(c, listeners, wakeable) ==
    /\ pending' = (pending \intersect listeners) \union (listeners \ {c})
    /\ permit' = permit \union ((listeners \intersect wakeable) \ {c})

BroadcastMonitor(c) == Broadcast(c, monitors, notifiers) /\ UNCHANGED <<monitors, notifiers>>

-----------------------------------------------------------------------------
(* Commands. *)

CmdSubscribe(c, s) ==
    /\ Runs(c, "subscribe")
    /\ Subscribe(c, s)
    /\ FinishTracking(c) /\ BroadcastMonitor(c)
    /\ UNCHANGED <<keyWatchers, trackerKeys, broadcasts, broken, senders, queue, snapshot, protocol, pc, reading,
                   cached, due, published>>

\* One subscription, or all of a kind.
CmdUnsubscribe(c, ss) ==
    /\ Runs(c, "subscribe")
    /\ Unsubscribe(c, ss)
    /\ FinishTracking(c) /\ BroadcastMonitor(c)
    /\ UNCHANGED <<keyWatchers, trackerKeys, broadcasts, broken, senders, queue, snapshot, protocol, pc, reading,
                   cached, due, published>>

\* PUBLISH and SPUBLISH
CmdPublish(c, ch) ==
    LET copies == [d \in Clients |-> Copies(d, ch, published + 1)] IN
    /\ Runs(c, "publish")
    /\ published' = published + 1
    /\ SendToClients(senders, copies)
    /\ due' = [d \in Clients |-> due[d] \o copies[d]]
    /\ FinishTracking(c) /\ BroadcastMonitor(c)
    /\ UNCHANGED <<registries, snapshot, protocol, pc, reading, cached>>

Configured(m) == [on |-> TRUE, redirect |-> m.redirect, bcast |-> m.bcast, prefix |-> m.prefix,
                  noLoop |-> m.noLoop, opt |-> m.opt, caching |-> m.opt # "in"]

\* A client that is not connected is refused.
Targets(c) == {0, c} \union {d \in Clients : Connected(d)}

CmdTrackingOn(c, m) ==
    /\ Runs(c, "tracking")
    /\ BroadcastMonitor(c)
    /\ \/ /\ m.redirect \in Targets(c)
          /\ ClearTracker(c)
          /\ mode' = [mode EXCEPT ![c] = Configured(m)]
          /\ broadcasts' = {b \in broadcasts : b.tracker # c} \union
                (IF m.bcast THEN {[tracker |-> c, target |-> IF m.redirect = 0 THEN c ELSE m.redirect,
                                   noLoop |-> m.noLoop, prefix |-> m.prefix]}
                 ELSE {})
          /\ cached' = EmptyCache({c})
       \/ /\ m.redirect \notin Targets(c)
          /\ FinishTracking(c)
          /\ UNCHANGED <<keyWatchers, trackerKeys, broken, broadcasts, cached>>
    /\ UNCHANGED <<subscribers, subs, senders, queue, snapshot, protocol, pc, reading, due, published>>

CmdTrackingOff(c) ==
    /\ Runs(c, "tracking")
    /\ ClearTracker(c)
    /\ broadcasts' = {b \in broadcasts : b.tracker # c}
    /\ mode' = [mode EXCEPT ![c] = Off]
    /\ cached' = EmptyCache({c})
    /\ BroadcastMonitor(c)
    /\ UNCHANGED <<subscribers, subs, senders, queue, snapshot, protocol, pc, reading, due, published>>

\* CLIENT CACHING YES or NO
CmdCaching(c, enabled) ==
    /\ Runs(c, "tracking")
    /\ mode[c].on /\ mode[c].opt # "none"
    /\ mode' = [mode EXCEPT ![c].caching = enabled]
    /\ BroadcastMonitor(c)
    /\ UNCHANGED <<registries, senders, queue, snapshot, protocol, pc, reading, cached, due, published>>

\* A read under the server lock.
CmdRead(c, k) ==
    /\ Runs(c, "read")
    /\ TrackKey(c, k)
    /\ cached' = [cached EXCEPT ![c][k] = IF Keeps(c, k) THEN "fresh" ELSE @]
    /\ FinishTracking(c) /\ BroadcastMonitor(c)
    /\ UNCHANGED <<subscribers, subs, broadcasts, broken, senders, queue, snapshot, protocol, pc, reading,
                   due, published>>

\* A lock-free read takes its value.
FastRead(c, k) ==
    /\ Runs(c, "fastread")
    /\ pc' = [pc EXCEPT ![c] = "fast"]
    /\ reading' = [reading EXCEPT ![c] = k]
    /\ cached' = [cached EXCEPT ![c][k] = IF Keeps(c, k) THEN "fresh" ELSE @]
    /\ UNCHANGED <<registries, senders, queue, monitoring, snapshot, mode, protocol, due, published>>

\* Under the server lock it registers the key.  A write in between has made the value "stale"; the
\* registration comes after that write, so the value is "raced".
FastPost(c) ==
    LET k == reading[c] IN
    /\ pc[c] = "fast"
    /\ pc' = [pc EXCEPT ![c] = "run"]
    /\ reading' = [reading EXCEPT ![c] = NoKey]
    /\ TrackKey(c, k)
    /\ cached' = [cached EXCEPT ![c][k] = IF @ = "stale" /\ RecordsReads(c) THEN "raced" ELSE @]
    /\ FinishTracking(c) /\ BroadcastMonitor(c)
    /\ UNCHANGED <<subscribers, subs, broadcasts, broken, senders, queue, snapshot, protocol, todo, due, published>>

\* A write command that touched the keys: maybe_track_write_version, tracking_invalidate_keys.
CmdWrite(c, keys) ==
    LET invalid == InvalidKeys(c, keys) IN
    /\ Runs(c, "write")
    /\ keyWatchers' = [k \in Keys |-> IF k \in keys THEN {} ELSE keyWatchers[k]]
    /\ trackerKeys' = [d \in Clients |-> trackerKeys[d] \ {k \in keys : \E w \in keyWatchers[k] : w.tracker = d}]
    /\ SendToClients(senders, [t \in Clients |-> IF invalid[t] = {} THEN <<>> ELSE <<Invalidate(invalid[t])>>])
    /\ cached' = [d \in Clients |-> [k \in Keys |->
                    IF k \notin keys \/ cached[d][k] = "none" THEN cached[d][k]
                    ELSE IF d = c THEN "none" ELSE "stale"]]
    /\ FinishTracking(c) /\ BroadcastMonitor(c)
    /\ UNCHANGED <<subscribers, subs, broadcasts, broken, snapshot, protocol, pc, reading, due, published>>

CmdMonitor(c) ==
    /\ Runs(c, "monitor")
    /\ monitors' = monitors \union {c}
    /\ FinishTracking(c)
    /\ UNCHANGED <<registries, senders, queue, pending, notifiers, permit, snapshot, protocol, pc, reading, cached,
                   due, published>>

CmdReset(c) ==
    /\ Runs(c, "reset")
    /\ TrackingRemoveClient(c, senders)
    /\ monitors' = monitors \ {c}
    /\ notifiers' = notifiers \ {c}
    /\ Unsubscribe(c, Subscriptions)
    /\ mode' = [mode EXCEPT ![c] = Off]
    /\ protocol' = [protocol EXCEPT ![c] = 2]
    /\ cached' = EmptyCache({c})
    /\ Broadcast(c, monitors', notifiers')
    /\ UNCHANGED <<snapshot, pc, reading, due, published>>

-----------------------------------------------------------------------------
(* Sessions. *)

SessionOnly == UNCHANGED <<registries, monitors, notifiers, mode, protocol, reading, todo, published>>

Goto(c, from, to) == pc[c] = from /\ pc' = [pc EXCEPT ![c] = to]

\* drain_preloop_async_output
Preloop(c) ==
    /\ Goto(c, "top", "wait")
    /\ Deliver(c, Len(queue[c]))
    /\ pending' = pending \ {c}
    /\ SessionOnly
    /\ UNCHANGED <<senders, permit, snapshot>>

\* The branches of the select! in wait_for_session_activity.
PubSubMsg(c) ==
    /\ queue[c] # <<>>
    /\ Goto(c, "wait", "top")
    /\ Deliver(c, 1)
    /\ SessionOnly
    /\ UNCHANGED <<senders, pending, permit, snapshot>>

\* The closed channel is reported and the session goes on.
MutPubSubClosed(c) ==
    /\ c \notin senders /\ queue[c] = <<>>
    /\ Goto(c, "wait", "top")
    /\ SessionOnly
    /\ UNCHANGED <<senders, queue, pending, permit, snapshot, cached, due>>

PubSubClosed(c) ==
    /\ c \notin senders /\ queue[c] = <<>>
    /\ Goto(c, "wait", "end")
    /\ SessionOnly
    /\ UNCHANGED <<senders, queue, pending, permit, snapshot, cached, due>>

\* The session waits again without a look at the pending lines.
MutMonitorWake(c) ==
    /\ c \in permit
    /\ Goto(c, "wait", "wait")
    /\ permit' = permit \ {c}
    /\ SessionOnly
    /\ UNCHANGED <<senders, queue, pending, snapshot, cached, due>>

MonitorWake(c) ==
    /\ c \in permit
    /\ Goto(c, "wait", "top")
    /\ permit' = permit \ {c}
    /\ SessionOnly
    /\ UNCHANGED <<senders, queue, pending, snapshot, cached, due>>

NetworkRead(c) ==
    /\ todo[c].left > 0
    /\ Goto(c, "wait", "run")
    /\ SessionOnly
    /\ UNCHANGED <<senders, queue, pending, permit, snapshot, cached, due>>

\* The pipeline is done: apply_command_outcomes writes the replies, drain_post_command_async_output what
\* came in meanwhile, and the snapshot is refreshed.
PostCommand(c) ==
    /\ Goto(c, "run", "top")
    /\ Deliver(c, IF subs[c] # {} \/ mode[c].on THEN Len(queue[c]) ELSE 0)
    /\ pending' = IF c \in monitors THEN pending \ {c} ELSE pending
    /\ snapshot' = [snapshot EXCEPT ![c] = protocol[c]]
    /\ SessionOnly
    /\ UNCHANGED <<senders, permit>>

\* The peer closes, stays idle for too long, or a write to it fails.
Hangup(c) ==
    /\ pc[c] \in {"top", "wait", "run"}
    /\ "hangup" \in todo[c].ops
    /\ pc' = [pc EXCEPT ![c] = "end"]
    /\ SessionOnly
    /\ UNCHANGED <<senders, queue, pending, permit, snapshot, cached, due>>

\* finish_client_connection; the receiver is dropped with the session.
Finish(c) ==
    /\ Goto(c, "end", "gone")
    /\ Unsubscribe(c, Subscriptions)
    /\ TrackingRemoveClient(c, senders \ {c})
    /\ monitors' = monitors \ {c}
    /\ notifiers' = notifiers \ {c}
    /\ pending' = pending \ {c}
    /\ snapshot' = [snapshot EXCEPT ![c] = 0]
    /\ cached' = EmptyCache(ServedBy(c))
    /\ due' = [due EXCEPT ![c] = <<>>]
    /\ UNCHANGED <<permit, mode, protocol, reading, todo, published>>

-----------------------------------------------------------------------------

Init ==
    /\ subscribers = [s \in Subscriptions |-> {}]
    /\ subs = [c \in Clients |-> {}]
    /\ senders = Clients
    /\ queue = NoMessages
    /\ keyWatchers = [k \in Keys |-> {}]
    /\ trackerKeys = [c \in Clients |-> {}]
    /\ broadcasts = {}
    /\ broken = {}
    /\ monitors = {}
    /\ pending = {}
    /\ notifiers = Clients
    /\ permit = {}
    /\ snapshot = Protocol
    /\ mode = [c \in Clients |-> Off]
    /\ protocol = Protocol
    /\ pc = [c \in Clients |-> "top"]
    /\ reading = [c \in Clients |-> NoKey]
    /\ todo \in Workloads
    /\ cached = [c \in Clients |-> [k \in Keys |-> "none"]]
    /\ due = NoMessages
    /\ published = 0

Command(c) ==
    \/ \E s \in Subscriptions : CmdSubscribe(c, s)
    \/ \E ss \in {{s} : s \in Subscriptions} \union {Channels, ShardChannels, Patterns} : CmdUnsubscribe(c, ss)
    \/ \E ch \in Channels \union ShardChannels : CmdPublish(c, ch)
    \/ \E m \in Modes : CmdTrackingOn(c, m)
    \/ CmdTrackingOff(c)
    \/ \E enabled \in BOOLEAN : CmdCaching(c, enabled)
    \/ \E k \in Keys : CmdRead(c, k) \/ FastRead(c, k)
    \/ \E keys \in WriteSets : CmdWrite(c, keys)
    \/ CmdMonitor(c)
    \/ CmdReset(c)

\* What the session does on its own; the select! may take any branch that is ready.
Session(c) == Preloop(c) \/ PubSubMsg(c) \/ MonitorWake(c) \/ FastPost(c) \/ PostCommand(c) \/ Finish(c)

Next == \E c \in Clients : Command(c) \/ Session(c) \/ PubSubClosed(c) \/ NetworkRead(c) \/ Hangup(c)

Spec == Init /\ [][Next]_vars

\* Sessions are tasks the runtime polls when they are ready (weak fairness).  The select! chooses at random
\* between branches that are ready, so a branch that is ready again and again is taken (strong fairness).
FairSpec == Spec /\ \A c \in Clients : WF_vars(Session(c)) /\ SF_vars(PubSubClosed(c))

-----------------------------------------------------------------------------
(* Properties. *)

\* The application was told, or is about to be, that its copy of k is old: an invalidation waits in the
\* queue of the connection or of the one it redirects to, or that connection overflowed and will be closed.
Told(c, k) ==
    \E t \in {c, mode[c].redirect} \ {0} :
        Connected(t) /\ (k \in KeysIn(queue[t]) \/ t \notin senders)

\* Client-side caching is coherent (tracking.rs, mod.rs apply_post_execute_side_effects_with_spec): a value
\* that was overwritten does not stay in a cache unless its owner is told.  The exception is a lock-free
\* read that a write overtook between its two steps; that copy stays until the next write, for which the
\* key is registered.
Coherent ==
    \A c \in Clients, k \in Keys :
        /\ cached[c][k] = "stale" => Told(c, k) \/ (pc[c] = "fast" /\ reading[c] = k)
        /\ cached[c][k] = "raced" => Told(c, k) \/ \E w \in keyWatchers[k] : w.tracker = c

\* Each subscriber gets what was published to it while it was subscribed, in the order of publication and
\* without a gap (pubsub.rs send_to_client): the queue holds all that is still due, or a first part of it
\* and then nothing more is ever queued.
NoGap ==
    \A c \in Clients : Connected(c) =>
        LET queued == Published(queue[c]) IN
        /\ queued = SubSeq(due[c], 1, Len(queued))
        /\ c \in senders => queued = due[c]

\* The registries name each other and no connection that is gone (pubsub.rs remove_client, tracking.rs
\* clear_tracker and clear_target): subscriptions and watched keys agree with their inverse maps, a watcher
\* belongs to a client that tracks in that way, and its messages go to a connection that is there.
RegistriesExact ==
    /\ \A c \in Clients, s \in Subscriptions : c \in subscribers[s] <=> s \in subs[c]
    /\ \A c \in Clients, k \in Keys : k \in trackerKeys[c] <=> \E w \in keyWatchers[k] : w.tracker = c
    /\ \A w \in broadcasts \union UNION {keyWatchers[k] : k \in Keys} :
            /\ mode[w.tracker].on
            /\ mode[w.tracker].bcast <=> w \in broadcasts
            /\ Connected(w.tracker) /\ Connected(w.target)
    /\ \A c \in broken : Connected(c) /\ mode[c].on /\ mode[c].redirect # 0
    /\ \A c \in Clients : ~Connected(c) => subs[c] = {} /\ c \notin senders \union monitors \union pending

\* A MONITOR client does not sleep beside lines that wait for it (keyspace.rs broadcast_monitor_message),
\* as long as its notifier is registered: RESET removes the notifier and nothing puts it back.
MonitorHears ==
    \A c \in pending \intersect notifiers : pc[c] = "wait" => c \in permit

\* A client that lost a message is disconnected, so that it knows (pubsub.rs send_to_client, session_runtime.rs
\* PubSubClosed).
LossCloses ==
    \A c \in Clients : (c \notin senders) ~> (pc[c] = "gone")

=============================================================================
