---------------------------- MODULE FanoutProofs ----------------------------
(***************************************************************************)
(* Proofs about Fanout for every set of connections, keys, channels and    *)
(* patterns, every workload and every queue limit.                         *)
(***************************************************************************)
EXTENDS Fanout, SubsequencesProofs, FiniteSetTheorems, TLAPS

(***************************************************************************)
(* Types of the registries and of the sessions.                            *)
(***************************************************************************)
PCs == {"top", "wait", "run", "fast", "end", "gone"}

TrackingModes == [on: BOOLEAN, redirect: Clients \union {0}, bcast: BOOLEAN, prefix: BOOLEAN,
                  noLoop: BOOLEAN, opt: {"none", "in", "out"}, caching: BOOLEAN]

KeyWatchers == [tracker: Clients, target: Clients, noLoop: BOOLEAN]

BroadcastWatchers == [tracker: Clients, target: Clients, noLoop: BOOLEAN, prefix: BOOLEAN]

Types ==
    /\ subscribers \in [Subscriptions -> SUBSET Clients]
    /\ subs \in [Clients -> SUBSET Subscriptions]
    /\ senders \subseteq Clients
    /\ keyWatchers \in [Keys -> SUBSET KeyWatchers]
    /\ trackerKeys \in [Clients -> SUBSET Keys]
    /\ broadcasts \subseteq BroadcastWatchers
    /\ broken \subseteq Clients
    /\ monitors \subseteq Clients
    /\ pending \subseteq Clients
    /\ snapshot \in [Clients -> {0, 2, 3}]
    /\ protocol \in [Clients -> {2, 3}]
    /\ mode \in [Clients -> TrackingModes]
    /\ pc \in [Clients -> PCs]
    /\ reading \in [Clients -> Keys \union {NoKey}]
    /\ \A c \in Clients : pc[c] = "fast" => reading[c] \in Keys
    /\ cached \in [Clients -> [Keys -> {"none", "fresh", "stale", "raced"}]]

USE SubscriptionsAssumption, ModesAssumption, BoundsAssumption

-----------------------------------------------------------------------------
\* 0 stands for no redirection and is not a client id.
LEMMA ZeroNoClient == 0 \notin Clients
OBVIOUS

\* Initially nothing is registered.
LEMMA TypesInit == Init => Types
<1> SUFFICES ASSUME Init PROVE Types
  OBVIOUS
<1>1. Off \in TrackingModes
  BY DEF Off, TrackingModes
<1>2. mode \in [Clients -> TrackingModes]
  BY <1>1 DEF Init
<1> QED BY <1>2 DEF Init, Types, PCs

\* A finished command leaves the tracking mode of its client a mode.
LEMMA FinishedType == ASSUME NEW m \in TrackingModes
    PROVE  /\ Finished(m) \in TrackingModes
           /\ Finished(m).on = m.on /\ Finished(m).redirect = m.redirect /\ Finished(m).bcast = m.bcast
           /\ Finished(m).prefix = m.prefix
BY DEF Finished, TrackingModes

\* Where the messages about a tracked key go.
LEMMA TargetType == ASSUME Types, NEW c \in Clients
    PROVE  TargetOf(c) \in Clients /\ TargetOf(c) \in {c, mode[c].redirect}
           /\ (TargetOf(c) # c => Connected(TargetOf(c)))
BY DEF Types, TargetOf, TrackingModes, Connected

\* The entry track_key makes for a key replaces the tracker's earlier one.
LEMMA TrackKeyType ==
    ASSUME Types, NEW c \in Clients, NEW k \in Keys, TrackKey(c, k)
    PROVE  keyWatchers' \in [Keys -> SUBSET KeyWatchers] /\ trackerKeys' \in [Clients -> SUBSET Keys]
<1> DEFINE new == [tracker |-> c, target |-> TargetOf(c), noLoop |-> mode[c].noLoop]
<1>1. new \in KeyWatchers
  <2>1. mode[c] \in TrackingModes
    BY DEF Types
  <2>2. mode[c].noLoop \in BOOLEAN
    BY <2>1, Zenon DEF TrackingModes
  <2> QED BY <2>2, TargetType DEF KeyWatchers
<1>2. CASE ~RecordsReads(c)
  BY <1>2 DEF TrackKey, Types
<1>3. CASE RecordsReads(c)
  <2> HIDE DEF new
  <2>1. keyWatchers' = [keyWatchers EXCEPT ![k] = {w \in @ : w.tracker # c} \union {new}]
        /\ trackerKeys' = [trackerKeys EXCEPT ![c] = @ \union {k}]
    BY <1>3 DEF TrackKey, new
  <2> QED BY <1>1, <2>1 DEF Types
<1> QED BY <1>2, <1>3

\* An entry of a registry that names connection c is pointed at its tracker.
LEMMA RetargetedType ==
    /\ \A ws \in SUBSET KeyWatchers, c \in Clients : Retargeted(ws, c) \in SUBSET KeyWatchers
    /\ \A ws \in SUBSET BroadcastWatchers, c \in Clients : Retargeted(ws, c) \in SUBSET BroadcastWatchers
BY DEF Retargeted, KeyWatchers, BroadcastWatchers

\* The steps one connection can take: a command, its session, or its end.
Step(c) ==
    \/ \E s \in Subscriptions : CmdSubscribe(c, s)
    \/ \E ss \in SUBSET Subscriptions : CmdUnsubscribe(c, ss)
    \/ \E ch \in Channels \union ShardChannels : CmdPublish(c, ch)
    \/ \E m \in Modes : CmdTrackingOn(c, m)
    \/ CmdTrackingOff(c)
    \/ \E enabled \in BOOLEAN : CmdCaching(c, enabled)
    \/ \E k \in Keys : CmdRead(c, k)
    \/ \E k \in Keys : FastRead(c, k)
    \/ \E keys \in SUBSET Keys : CmdWrite(c, keys)
    \/ CmdMonitor(c) \/ CmdReset(c)
    \/ Preloop(c) \/ PubSubMsg(c) \/ MonitorWake(c) \/ FastPost(c) \/ PostCommand(c) \/ Finish(c)
    \/ PubSubClosed(c) \/ NetworkRead(c) \/ Hangup(c)

\* Every step is a step of one connection.
LEMMA NextIsStep == Next => \E c \in Clients : Step(c)
<1> SUFFICES ASSUME NEW c \in Clients,
                    Command(c) \/ Session(c) \/ PubSubClosed(c) \/ NetworkRead(c) \/ Hangup(c)
             PROVE  Step(c)
  BY DEF Next
<1>1. \A ss \in {{s} : s \in Subscriptions} \union {Channels, ShardChannels, Patterns} :
          ss \in SUBSET Subscriptions
  BY DEF Subscriptions
<1>2. \A keys \in WriteSets : keys \in SUBSET Keys
  OBVIOUS
<1> QED BY <1>1, <1>2, Zenon DEF Step, Command, Session

\* Every step keeps the types.
LEMMA TypesStep == Types /\ [Next]_vars => Types'
<1> SUFFICES ASSUME Types, [Next]_vars PROVE Types'
  OBVIOUS
<1>1. CASE UNCHANGED vars
  BY <1>1 DEF vars, registries, monitoring, Types
<1>2. ASSUME NEW c \in Clients, Step(c) PROVE Types'
  <2> USE DEF registries, monitoring, SessionOnly, Goto, Deliver, BroadcastMonitor, Broadcast, Runs,
              FinishTracking, Types, PCs
  <2>0. \A m \in TrackingModes : Finished(m) \in TrackingModes
    BY FinishedType
  <2>1. CASE \E s \in Subscriptions : CmdSubscribe(c, s)
    BY <2>0, <2>1 DEF CmdSubscribe, Subscribe
  <2>2. CASE \E ss \in SUBSET Subscriptions : CmdUnsubscribe(c, ss)
    BY <2>0, <2>2 DEF CmdUnsubscribe, Unsubscribe
  <2>3. CASE \E ch \in Channels \union ShardChannels : CmdPublish(c, ch)
    BY <2>0, <2>3 DEF CmdPublish, SendToClients
  <2>4. CASE \E m \in Modes : CmdTrackingOn(c, m)
    <3> PICK m \in Modes : CmdTrackingOn(c, m)
      BY <2>4
    <3>1. Configured(m) \in TrackingModes /\ m.noLoop \in BOOLEAN /\ m.prefix \in BOOLEAN
          /\ (IF m.redirect = 0 THEN c ELSE m.redirect) \in Clients
      BY DEF Configured, TrackingModes
    <3>2. mode' \in [Clients -> TrackingModes]
      BY <2>0, <3>1 DEF CmdTrackingOn
    <3>3. broadcasts' \subseteq BroadcastWatchers
      BY <3>1 DEF CmdTrackingOn, BroadcastWatchers
    <3>4. cached' \in [Clients -> [Keys -> {"none", "fresh", "stale", "raced"}]]
      BY DEF CmdTrackingOn, EmptyCache
    <3> QED BY <3>2, <3>3, <3>4 DEF CmdTrackingOn, ClearTracker
  <2>5. CASE CmdTrackingOff(c)
    BY <2>5 DEF CmdTrackingOff, ClearTracker, Off, EmptyCache, TrackingModes
  <2>6. CASE \E enabled \in BOOLEAN : CmdCaching(c, enabled)
    <3> PICK enabled \in BOOLEAN : CmdCaching(c, enabled)
      BY <2>6
    <3>1. [mode[c] EXCEPT !.caching = enabled] \in TrackingModes
      <4>1. mode[c] \in TrackingModes
        OBVIOUS
      <4> QED BY <4>1, Zenon DEF TrackingModes
    <3>2. mode' \in [Clients -> TrackingModes]
      BY <3>1 DEF CmdCaching
    <3> QED BY <3>2 DEF CmdCaching
  <2>7. CASE \E k \in Keys : CmdRead(c, k)
    <3> PICK k \in Keys : CmdRead(c, k)
      BY <2>7
    <3>1. TrackKey(c, k)
      BY DEF CmdRead
    <3>2. keyWatchers' \in [Keys -> SUBSET KeyWatchers] /\ trackerKeys' \in [Clients -> SUBSET Keys]
      BY <3>1, TrackKeyType
    <3>3. mode' \in [Clients -> TrackingModes]
      BY <2>0 DEF CmdRead
    <3>4. cached' \in [Clients -> [Keys -> {"none", "fresh", "stale", "raced"}]]
      BY DEF CmdRead
    <3>5. /\ UNCHANGED <<subscribers, subs, broadcasts, broken, senders, snapshot, protocol, pc, reading, monitors>>
          /\ pending' \subseteq Clients
      BY DEF CmdRead
    <3> QED BY <3>2, <3>3, <3>4, <3>5
  <2>8. CASE \E k \in Keys : FastRead(c, k)
    BY <2>8 DEF FastRead
  <2>9. CASE \E keys \in SUBSET Keys : CmdWrite(c, keys)
    BY <2>0, <2>9 DEF CmdWrite, SendToClients
  <2>10. CASE CmdMonitor(c)
    BY <2>0, <2>10 DEF CmdMonitor
  <2>11. CASE CmdReset(c)
    BY <2>11, RetargetedType DEF CmdReset, TrackingRemoveClient, Unsubscribe, Off, SendToClients,
       EmptyCache, TrackingModes, Detached, KeyWatchers, BroadcastWatchers
  <2>12. CASE Preloop(c)
    BY <2>12 DEF Preloop
  <2>13. CASE PubSubMsg(c)
    BY <2>13 DEF PubSubMsg
  <2>14. CASE MonitorWake(c)
    BY <2>14 DEF MonitorWake
  <2>15. CASE FastPost(c)
    <3>1. TrackKey(c, reading[c]) /\ reading[c] \in Keys
      BY <2>15 DEF FastPost
    <3>2. keyWatchers' \in [Keys -> SUBSET KeyWatchers] /\ trackerKeys' \in [Clients -> SUBSET Keys]
      BY <3>1, TrackKeyType
    <3>3. mode' \in [Clients -> TrackingModes]
      BY <2>0, <2>15 DEF FastPost
    <3> QED BY <2>15, <3>2, <3>3 DEF FastPost
  <2>16. CASE PostCommand(c)
    BY <2>16 DEF PostCommand
  <2>17. CASE Finish(c)
    <3>1. Detached(c) \subseteq Clients
      BY DEF Detached, KeyWatchers, BroadcastWatchers
    <3>2. broken' \subseteq Clients /\ senders' \subseteq Clients
      BY <2>17, <3>1 DEF Finish, TrackingRemoveClient, SendToClients
    <3>3. /\ keyWatchers' \in [Keys -> SUBSET KeyWatchers] /\ trackerKeys' \in [Clients -> SUBSET Keys]
          /\ broadcasts' \subseteq BroadcastWatchers
      BY <2>17, RetargetedType DEF Finish, TrackingRemoveClient
    <3>4. subscribers' \in [Subscriptions -> SUBSET Clients] /\ subs' \in [Clients -> SUBSET Subscriptions]
      BY <2>17 DEF Finish, Unsubscribe
    <3>5. cached' \in [Clients -> [Keys -> {"none", "fresh", "stale", "raced"}]]
      BY <2>17 DEF Finish, EmptyCache
    <3>6. /\ monitors' \subseteq Clients /\ pending' \subseteq Clients /\ snapshot' \in [Clients -> {0, 2, 3}]
          /\ pc' \in [Clients -> PCs] /\ \A d \in Clients : pc'[d] = "fast" => reading'[d] \in Keys
          /\ UNCHANGED <<protocol, mode, reading>>
      BY <2>17 DEF Finish
    <3> QED BY <3>2, <3>3, <3>4, <3>5, <3>6
  <2>18. CASE PubSubClosed(c)
    BY <2>18 DEF PubSubClosed
  <2>19. CASE NetworkRead(c)
    BY <2>19 DEF NetworkRead
  <2>20. CASE Hangup(c)
    BY <2>20 DEF Hangup
  <2> QED BY <1>2, <2>1, <2>2, <2>3, <2>4, <2>5, <2>6, <2>7, <2>8, <2>9, <2>10, <2>11, <2>12, <2>13,
             <2>14, <2>15, <2>16, <2>17, <2>18, <2>19, <2>20 DEF Step
<1> QED BY <1>1, <1>2, NextIsStep

-----------------------------------------------------------------------------
(***************************************************************************)
(* The registries of client tracking.                                      *)
(***************************************************************************)
\* ClientRegistry shows exactly the connections whose session has not ended.
Alive == \A c \in Clients : snapshot[c] = 0 <=> pc[c] = "gone"

\* An entry belongs to a connected client that tracks, and its messages go to
\* that client or to the one it redirects to.
WatcherSound(w) ==
    /\ mode[w.tracker].on
    /\ Connected(w.tracker) /\ Connected(w.target)
    /\ w.target \in {w.tracker, mode[w.tracker].redirect}

WatchersSound ==
    /\ \A k \in Keys : \A w \in keyWatchers[k] : WatcherSound(w) /\ ~mode[w.tracker].bcast
    /\ \A b \in broadcasts : WatcherSound(b) /\ mode[b.tracker].bcast

\* A connected client in broadcast mode is in the registry, with its prefix.
BroadcastsListed ==
    \A c \in Clients : Connected(c) /\ mode[c].bcast
        => \E b \in broadcasts : b.tracker = c /\ b.prefix = mode[c].prefix

KeysAgree == \A c \in Clients, k \in Keys : k \in trackerKeys[c] <=> \E w \in keyWatchers[k] : w.tracker = c

BrokenSound == \A c \in broken : Connected(c) /\ mode[c].on /\ mode[c].redirect # 0

TrackingInv == WatchersSound /\ BroadcastsListed /\ KeysAgree /\ BrokenSound

\* What a step may do to modes and connections.
SameMode(d) ==
    /\ mode'[d].on = mode[d].on /\ mode'[d].redirect = mode[d].redirect
    /\ mode'[d].bcast = mode[d].bcast /\ mode'[d].prefix = mode[d].prefix

SameConnected(d) == snapshot'[d] = 0 <=> snapshot[d] = 0

(***************************************************************************)
(* The ways in which a step of connection c changes the tracking state.    *)
(***************************************************************************)
KeepsTracking ==
    /\ \A d \in Clients : SameMode(d) /\ SameConnected(d)
    /\ UNCHANGED <<keyWatchers, trackerKeys, broadcasts, broken>>

TracksKey(c) ==
    /\ \A d \in Clients : SameMode(d) /\ SameConnected(d)
    /\ \E k \in Keys : TrackKey(c, k)
    /\ Connected(c)
    /\ UNCHANGED <<broadcasts, broken>>

WritesKeys ==
    /\ \A d \in Clients : SameMode(d) /\ SameConnected(d)
    /\ \E keys \in SUBSET Keys :
         /\ keyWatchers' = [k \in Keys |-> IF k \in keys THEN {} ELSE keyWatchers[k]]
         /\ trackerKeys' = [d \in Clients |->
                               trackerKeys[d] \ {k \in keys : \E w \in keyWatchers[k] : w.tracker = d}]
    /\ UNCHANGED <<broadcasts, broken>>

Reconfigures(c) ==
    /\ \A d \in Clients : SameConnected(d) /\ (d # c => SameMode(d))
    /\ Connected(c)
    /\ ClearTracker(c)
    /\ \E new \in SUBSET BroadcastWatchers :
         /\ broadcasts' = {b \in broadcasts : b.tracker # c} \union new
         /\ \A b \in new : b.tracker = c /\ WatcherSound(b)' /\ mode'[c].bcast
         /\ mode'[c].bcast => \E b \in new : b.prefix = mode'[c].prefix

Removes(c) ==
    /\ \A d \in Clients \ {c} : SameConnected(d) /\ SameMode(d)
    /\ snapshot'[c] = 0 \/ ~mode'[c].bcast
    /\ keyWatchers' = [k \in Keys |-> Retargeted(keyWatchers[k], c)]
    /\ broadcasts' = Retargeted(broadcasts, c)
    /\ trackerKeys' = [trackerKeys EXCEPT ![c] = {}]
    /\ broken' = (broken \ {c}) \union Detached(c)

\* Sessions come and go one way, and every step is of one of these kinds.
LEMMA TrackingCases ==
    ASSUME Types, Alive, NEW c \in Clients, Step(c)
    PROVE  /\ Alive'
           /\ KeepsTracking \/ TracksKey(c) \/ WritesKeys \/ Reconfigures(c) \/ Removes(c)
<1> USE DEF registries, monitoring, SessionOnly, Goto, BroadcastMonitor, Runs, SameConnected
<1>0. \A d \in Clients : mode[d] \in TrackingModes /\ protocol[d] \in {2, 3} /\ snapshot[d] \in {0, 2, 3}
  BY DEF Types
<1>a. ASSUME FinishTracking(c) PROVE \A d \in Clients : SameMode(d)
  BY <1>0, <1>a, FinishedType DEF FinishTracking, SameMode, Types
<1>b. ASSUME UNCHANGED mode PROVE \A d \in Clients : SameMode(d)
  BY <1>b DEF SameMode
<1>1. CASE \E s \in Subscriptions : CmdSubscribe(c, s)
  BY <1>1, <1>a DEF CmdSubscribe, KeepsTracking, Alive
<1>2. CASE \E ss \in SUBSET Subscriptions : CmdUnsubscribe(c, ss)
  BY <1>2, <1>a DEF CmdUnsubscribe, KeepsTracking, Alive
<1>3. CASE \E ch \in Channels \union ShardChannels : CmdPublish(c, ch)
  BY <1>3, <1>a DEF CmdPublish, KeepsTracking, Alive
<1>4. CASE \E m \in Modes : CmdTrackingOn(c, m)
  <2> PICK m \in Modes : CmdTrackingOn(c, m)
    BY <1>4
  <2>1. UNCHANGED <<snapshot, pc>> /\ pc[c] = "run" /\ Alive' /\ Connected(c)
    BY DEF CmdTrackingOn, Alive, Connected
  <2>2. CASE m.redirect \notin Targets(c)
    BY <2>1, <2>2, <1>a DEF CmdTrackingOn, KeepsTracking
  <2>3. CASE m.redirect \in Targets(c)
    <3> DEFINE b == [tracker |-> c, target |-> IF m.redirect = 0 THEN c ELSE m.redirect,
                     noLoop |-> m.noLoop, prefix |-> m.prefix]
               new == IF m.bcast THEN {b} ELSE {}
    <3>1. /\ ClearTracker(c) /\ mode' = [mode EXCEPT ![c] = Configured(m)]
          /\ broadcasts' = {d \in broadcasts : d.tracker # c} \union new
      BY <2>3 DEF CmdTrackingOn
    <3>2. mode'[c] = Configured(m) /\ \A d \in Clients \ {c} : mode'[d] = mode[d]
      BY <3>1 DEF Types
    <3>3. mode'[c].on /\ mode'[c].bcast = m.bcast /\ mode'[c].redirect = m.redirect /\ mode'[c].prefix = m.prefix
      BY <3>2 DEF Configured
    <3>4. b \in BroadcastWatchers
      BY <2>3 DEF BroadcastWatchers
    <3>5. WatcherSound(b)'
      BY <2>1, <2>3, <3>3 DEF WatcherSound, Targets, Connected
    <3>6. b.tracker = c /\ b.prefix = m.prefix
      OBVIOUS
    <3> HIDE DEF b
    <3>7. new \in SUBSET BroadcastWatchers
      BY <3>4
    <3>8. \A d \in new : d.tracker = c /\ WatcherSound(d)' /\ mode'[c].bcast
      <4> SUFFICES ASSUME m.bcast, NEW d \in {b} PROVE d.tracker = c /\ WatcherSound(d)' /\ mode'[c].bcast
        OBVIOUS
      <4>1. d = b
        OBVIOUS
      <4> QED BY <3>3, <3>5, <3>6, <4>1
    <3>9. mode'[c].bcast => \E d \in new : d.prefix = mode'[c].prefix
      BY <3>3, <3>6
    <3>10. \A d \in Clients \ {c} : SameMode(d)
      BY <3>2 DEF SameMode
    <3> HIDE DEF new
    <3>11. Reconfigures(c)
      BY <2>1, <3>1, <3>7, <3>8, <3>9, <3>10 DEF Reconfigures
    <3> QED BY <2>1, <3>11
  <2> QED BY <2>2, <2>3
<1>5. CASE CmdTrackingOff(c)
  <2>1. UNCHANGED <<snapshot, pc>> /\ pc[c] = "run" /\ Alive' /\ Connected(c) /\ ClearTracker(c)
    BY <1>5 DEF CmdTrackingOff, Alive, Connected
  <2>2. ~mode'[c].bcast /\ \A d \in Clients \ {c} : SameMode(d)
    BY <1>5 DEF CmdTrackingOff, Types, Off, SameMode
  <2>3. broadcasts' = {b \in broadcasts : b.tracker # c} \union {}
    BY <1>5 DEF CmdTrackingOff
  <2>4. {} \in SUBSET BroadcastWatchers
    OBVIOUS
  <2>5. Reconfigures(c)
    BY <2>1, <2>2, <2>3, <2>4, Zenon DEF Reconfigures
  <2> QED BY <2>1, <2>5
<1>6. CASE \E enabled \in BOOLEAN : CmdCaching(c, enabled)
  <2> PICK enabled \in BOOLEAN : CmdCaching(c, enabled)
    BY <1>6
  <2>1. mode' = [mode EXCEPT ![c].caching = enabled]
    BY DEF CmdCaching
  <2>2. \A d \in Clients : SameMode(d)
    BY <1>0, <2>1 DEF SameMode, TrackingModes, Types
  <2> QED BY <2>2 DEF CmdCaching, KeepsTracking, Alive
<1>7. CASE \E k \in Keys : CmdRead(c, k)
  BY <1>7, <1>a DEF CmdRead, TracksKey, Alive, Connected
<1>8. CASE \E k \in Keys : FastRead(c, k)
  BY <1>8, <1>b DEF FastRead, KeepsTracking, Alive, Types
<1>9. CASE \E keys \in SUBSET Keys : CmdWrite(c, keys)
  BY <1>9, <1>a DEF CmdWrite, WritesKeys, Alive
<1>10. CASE CmdMonitor(c)
  BY <1>10, <1>a DEF CmdMonitor, KeepsTracking, Alive
<1>11. CASE CmdReset(c)
  <2>1. UNCHANGED <<snapshot, pc>> /\ Alive'
    BY <1>11 DEF CmdReset, Alive
  <2>2. ~mode'[c].bcast /\ \A d \in Clients \ {c} : SameMode(d)
    BY <1>11 DEF CmdReset, Types, Off, SameMode
  <2> QED BY <1>11, <2>1, <2>2 DEF CmdReset, TrackingRemoveClient, Removes
<1>12. CASE Preloop(c)
  BY <1>12, <1>b DEF Preloop, KeepsTracking, Alive, Types
<1>13. CASE PubSubMsg(c)
  BY <1>13, <1>b DEF PubSubMsg, KeepsTracking, Alive, Types
<1>14. CASE MonitorWake(c)
  BY <1>14, <1>b DEF MonitorWake, KeepsTracking, Alive, Types
<1>15. CASE FastPost(c)
  <2>1. TrackKey(c, reading[c]) /\ reading[c] \in Keys
    BY <1>15 DEF FastPost, Types
  <2> QED BY <1>15, <1>a, <2>1 DEF FastPost, TracksKey, Alive, Connected, Types
<1>16. CASE PostCommand(c)
  BY <1>0, <1>16, <1>b DEF PostCommand, KeepsTracking, Alive, Types
<1>17. CASE Finish(c)
  BY <1>17, <1>b DEF Finish, TrackingRemoveClient, Removes, Alive, Types
<1>18. CASE PubSubClosed(c)
  BY <1>18, <1>b DEF PubSubClosed, KeepsTracking, Alive, Types
<1>19. CASE NetworkRead(c)
  BY <1>19, <1>b DEF NetworkRead, KeepsTracking, Alive, Types
<1>20. CASE Hangup(c)
  BY <1>20, <1>b DEF Hangup, KeepsTracking, Alive, Types
<1> QED BY <1>1, <1>2, <1>3, <1>4, <1>5, <1>6, <1>7, <1>8, <1>9, <1>10, <1>11, <1>12, <1>13,
           <1>14, <1>15, <1>16, <1>17, <1>18, <1>19, <1>20 DEF Step

\* clear_target keeps every other tracker's entry and points it at its owner
\* where it pointed at c.
LEMMA RetargetedKeyWatchers ==
    ASSUME NEW c \in Clients, NEW ws \in SUBSET KeyWatchers
    PROVE  /\ \A v \in Retargeted(ws, c) : \E w \in ws :
                 /\ w.tracker # c /\ v.tracker = w.tracker
                 /\ v.target = IF w.target = c THEN w.tracker ELSE w.target
           /\ \A w \in ws : w.tracker # c => \E v \in Retargeted(ws, c) : v.tracker = w.tracker
<1> DEFINE Moved(w) == IF w.target = c THEN [w EXCEPT !.target = w.tracker] ELSE w
<1>1. Retargeted(ws, c) = {Moved(w) : w \in {v \in ws : v.tracker # c}}
  BY DEF Retargeted
<1>2. \A w \in KeyWatchers : /\ Moved(w).tracker = w.tracker
                             /\ Moved(w).target = IF w.target = c THEN w.tracker ELSE w.target
  BY DEF KeyWatchers
<1> HIDE DEF Moved
<1> QED BY <1>1, <1>2

\* When client c goes, the broadcasts of the others redirected to it go back
\* to their trackers.
LEMMA RetargetedBroadcasts ==
    ASSUME NEW c \in Clients, NEW ws \in SUBSET BroadcastWatchers
    PROVE  /\ \A v \in Retargeted(ws, c) : \E w \in ws :
                 /\ w.tracker # c /\ v.tracker = w.tracker
                 /\ v.target = IF w.target = c THEN w.tracker ELSE w.target
           /\ \A w \in ws : w.tracker # c =>
                 \E v \in Retargeted(ws, c) : v.tracker = w.tracker /\ v.prefix = w.prefix
<1> DEFINE Moved(w) == IF w.target = c THEN [w EXCEPT !.target = w.tracker] ELSE w
<1>1. Retargeted(ws, c) = {Moved(w) : w \in {v \in ws : v.tracker # c}}
  BY DEF Retargeted
<1>2. \A w \in BroadcastWatchers : /\ Moved(w).tracker = w.tracker /\ Moved(w).prefix = w.prefix
                                   /\ Moved(w).target = IF w.target = c THEN w.tracker ELSE w.target
  BY DEF BroadcastWatchers
<1> HIDE DEF Moved
<1> QED BY <1>1, <1>2

\* A step that leaves modes, connections and the broadcast registry alone
\* keeps what depends on them only.
LEMMA ModesKept ==
    ASSUME Types, TrackingInv, \A d \in Clients : SameMode(d) /\ SameConnected(d),
           UNCHANGED <<broadcasts, broken>>
    PROVE  /\ BroadcastsListed' /\ BrokenSound'
           /\ \A b \in broadcasts' : WatcherSound(b)' /\ mode'[b.tracker].bcast
           /\ \A k \in Keys : \A w \in keyWatchers[k] : WatcherSound(w)' /\ ~mode'[w.tracker].bcast
<1>0. /\ \A k \in Keys : \A w \in keyWatchers[k] : w.tracker \in Clients /\ w.target \in Clients
      /\ \A b \in broadcasts : b.tracker \in Clients /\ b.target \in Clients
      /\ broken \subseteq Clients
  BY DEF Types, KeyWatchers, BroadcastWatchers
<1>1. ASSUME NEW w, w.tracker \in Clients, w.target \in Clients, WatcherSound(w)
      PROVE  WatcherSound(w)' /\ (mode'[w.tracker].bcast = mode[w.tracker].bcast)
  BY <1>1 DEF WatcherSound, SameMode, SameConnected, Connected
<1>2. \A b \in broadcasts' : WatcherSound(b)' /\ mode'[b.tracker].bcast
  BY <1>0, <1>1 DEF TrackingInv, WatchersSound
<1>3. \A k \in Keys : \A w \in keyWatchers[k] : WatcherSound(w)' /\ ~mode'[w.tracker].bcast
  BY <1>0, <1>1 DEF TrackingInv, WatchersSound
<1>4. BrokenSound'
  BY <1>0 DEF TrackingInv, BrokenSound, SameMode, SameConnected, Connected
<1>5. BroadcastsListed'
  <2> SUFFICES ASSUME NEW d \in Clients, Connected(d)', mode'[d].bcast
               PROVE  \E b \in broadcasts : b.tracker = d /\ b.prefix = mode'[d].prefix
    BY DEF BroadcastsListed
  <2>1. mode[d].bcast /\ mode'[d].prefix = mode[d].prefix /\ Connected(d)
    BY DEF SameMode, SameConnected, Connected
  <2>2. BroadcastsListed
    BY DEF TrackingInv
  <2>3. PICK b \in broadcasts : b.tracker = d /\ b.prefix = mode[d].prefix
    BY <2>1, <2>2 DEF BroadcastsListed
  <2> QED BY <2>1, <2>3
<1> QED BY <1>2, <1>3, <1>4, <1>5

\* Every step keeps the registries of client tracking sound.
LEMMA TrackingStep ==
    ASSUME Types, Types', Alive, Alive', TrackingInv, NEW c \in Clients,
           KeepsTracking \/ TracksKey(c) \/ WritesKeys \/ Reconfigures(c) \/ Removes(c)
    PROVE  TrackingInv'
<1>0. /\ \A k \in Keys : keyWatchers[k] \subseteq KeyWatchers
      /\ \A k \in Keys : \A w \in keyWatchers[k] : w.tracker \in Clients /\ w.target \in Clients
      /\ \A b \in broadcasts : b.tracker \in Clients /\ b.target \in Clients
      /\ broken \subseteq Clients
  BY DEF Types, KeyWatchers, BroadcastWatchers
<1>1. CASE KeepsTracking
  <2>1. (\A d \in Clients : SameMode(d) /\ SameConnected(d)) /\ UNCHANGED <<keyWatchers, trackerKeys, broadcasts, broken>>
    BY <1>1 DEF KeepsTracking
  <2>2. KeysAgree'
    BY <2>1 DEF TrackingInv, KeysAgree
  <2> QED BY <2>1, <2>2, ModesKept DEF TrackingInv, WatchersSound
<1>2. CASE TracksKey(c)
  <2> PICK k \in Keys : TrackKey(c, k)
    BY <1>2 DEF TracksKey
  <2> DEFINE new == [tracker |-> c, target |-> TargetOf(c), noLoop |-> mode[c].noLoop]
  <2>0. UNCHANGED <<broadcasts, broken>> /\ (\A d \in Clients : SameMode(d) /\ SameConnected(d)) /\ Connected(c)
    BY <1>2 DEF TracksKey
  <2>1. /\ BroadcastsListed' /\ BrokenSound'
        /\ \A b \in broadcasts' : WatcherSound(b)' /\ mode'[b.tracker].bcast
        /\ \A j \in Keys : \A w \in keyWatchers[j] : WatcherSound(w)' /\ ~mode'[w.tracker].bcast
    BY <2>0, ModesKept
  <2>2. CASE ~RecordsReads(c)
    <3>1. UNCHANGED <<keyWatchers, trackerKeys>>
      BY <2>2 DEF TrackKey
    <3>2. WatchersSound' /\ KeysAgree'
      BY <2>1, <3>1 DEF TrackingInv, WatchersSound, KeysAgree
    <3> QED BY <2>1, <3>2 DEF TrackingInv
  <2>3. CASE RecordsReads(c)
    <3>1. mode[c].on /\ ~mode[c].bcast
      BY <2>3 DEF RecordsReads
    <3>2. WatcherSound(new)
      BY <2>0, <3>1, TargetType DEF WatcherSound, Connected
    <3>3. new.tracker = c
      OBVIOUS
    <3> HIDE DEF new
    <3>4. /\ keyWatchers' = [keyWatchers EXCEPT ![k] = {w \in @ : w.tracker # c} \union {new}]
          /\ trackerKeys' = [trackerKeys EXCEPT ![c] = @ \union {k}]
      BY <2>3 DEF TrackKey, new
    <3>5. \A j \in Keys : \A w \in keyWatchers'[j] : w = new \/ w \in keyWatchers[j]
      BY <3>4 DEF Types
    <3>6. \A j \in Keys : \A w \in keyWatchers'[j] : WatcherSound(w) /\ ~mode[w.tracker].bcast
                                                     /\ w.tracker \in Clients /\ w.target \in Clients
      <4>1. new.target \in Clients
        BY TargetType DEF new
      <4> QED BY <1>0, <3>1, <3>2, <3>3, <3>5, <4>1 DEF TrackingInv, WatchersSound
    <3>7. WatchersSound'
      BY <1>0, <2>0, <3>6, ZenonT(30) DEF TrackingInv, WatchersSound, WatcherSound, SameMode,
         SameConnected,
         Connected
    <3>8. KeysAgree'
      <4> SUFFICES ASSUME NEW d \in Clients, NEW j \in Keys
                   PROVE  j \in trackerKeys'[d] <=> \E w \in keyWatchers'[j] : w.tracker = d
        BY DEF KeysAgree
      <4>1. j \in trackerKeys[d] <=> \E w \in keyWatchers[j] : w.tracker = d
        BY DEF TrackingInv, KeysAgree
      <4>2. CASE j # k
        <5>1. keyWatchers'[j] = keyWatchers[j] /\ (j \in trackerKeys'[d] <=> j \in trackerKeys[d])
          BY <3>4, <4>2 DEF Types
        <5> QED BY <4>1, <5>1
      <4>3. CASE j = k
        <5>1. keyWatchers'[k] = {w \in keyWatchers[k] : w.tracker # c} \union {new}
          BY <3>4 DEF Types
        <5>2. k \in trackerKeys'[d] <=> (k \in trackerKeys[d] \/ d = c)
          BY <3>4 DEF Types
        <5> QED BY <3>3, <4>1, <4>3, <5>1, <5>2
      <4> QED BY <4>2, <4>3
    <3> QED BY <2>1, <3>7, <3>8 DEF TrackingInv
  <2> QED BY <2>2, <2>3
<1>3. CASE WritesKeys
  <2> PICK keys \in SUBSET Keys :
         /\ keyWatchers' = [k \in Keys |-> IF k \in keys THEN {} ELSE keyWatchers[k]]
         /\ trackerKeys' = [d \in Clients |->
                               trackerKeys[d] \ {k \in keys : \E w \in keyWatchers[k] : w.tracker = d}]
    BY <1>3 DEF WritesKeys
  <2>0. UNCHANGED <<broadcasts, broken>> /\ (\A d \in Clients : SameMode(d) /\ SameConnected(d))
    BY <1>3 DEF WritesKeys
  <2>1. /\ BroadcastsListed' /\ BrokenSound'
        /\ \A b \in broadcasts' : WatcherSound(b)' /\ mode'[b.tracker].bcast
        /\ \A j \in Keys : \A w \in keyWatchers[j] : WatcherSound(w)' /\ ~mode'[w.tracker].bcast
    BY <2>0, ModesKept
  <2>2. WatchersSound'
    BY <2>1 DEF WatchersSound
  <2>3. KeysAgree'
    BY DEF TrackingInv, KeysAgree
  <2> QED BY <2>1, <2>2, <2>3 DEF TrackingInv
<1>4. CASE Reconfigures(c)
  <2> PICK new \in SUBSET BroadcastWatchers :
         /\ broadcasts' = {b \in broadcasts : b.tracker # c} \union new
         /\ \A b \in new : b.tracker = c /\ WatcherSound(b)' /\ mode'[c].bcast
         /\ mode'[c].bcast => \E b \in new : b.prefix = mode'[c].prefix
    BY <1>4 DEF Reconfigures
  <2>0. /\ \A d \in Clients : SameConnected(d) /\ (d # c => SameMode(d))
        /\ keyWatchers' = [k \in Keys |-> {w \in keyWatchers[k] : w.tracker # c}]
        /\ trackerKeys' = [trackerKeys EXCEPT ![c] = {}]
        /\ broken' = broken \ {c}
    BY <1>4 DEF Reconfigures, ClearTracker
  <2>1. ASSUME NEW w, w.tracker \in Clients \ {c}, w.target \in Clients, WatcherSound(w)
        PROVE  WatcherSound(w)' /\ (mode'[w.tracker].bcast = mode[w.tracker].bcast)
    BY <2>0, <2>1, ZenonT(30) DEF WatcherSound, SameMode, SameConnected, Connected
  <2>2. WatchersSound'
    <3>1. \A k \in Keys : \A w \in keyWatchers'[k] : w \in keyWatchers[k] /\ w.tracker \in Clients \ {c}
      BY <1>0, <2>0
    <3>2. \A k \in Keys : \A w \in keyWatchers'[k] : WatcherSound(w)' /\ ~mode'[w.tracker].bcast
      BY <1>0, <2>1, <3>1 DEF TrackingInv, WatchersSound
    <3>3. \A b \in broadcasts' : WatcherSound(b)' /\ mode'[b.tracker].bcast
      BY <1>0, <2>1 DEF TrackingInv, WatchersSound
    <3> QED BY <3>2, <3>3 DEF WatchersSound
  <2>3. BroadcastsListed'
    <3> SUFFICES ASSUME NEW d \in Clients, Connected(d)', mode'[d].bcast
                 PROVE  \E b \in broadcasts' : b.tracker = d /\ b.prefix = mode'[d].prefix
      BY DEF BroadcastsListed
    <3>1. CASE d = c
      BY <3>1
    <3>2. CASE d # c
      <4>1. mode[d].bcast /\ mode'[d].prefix = mode[d].prefix /\ Connected(d)
        BY <2>0, <3>2 DEF SameMode, SameConnected, Connected
      <4>2. PICK b \in broadcasts : b.tracker = d /\ b.prefix = mode[d].prefix
        BY <4>1 DEF TrackingInv, BroadcastsListed
      <4> QED BY <3>2, <4>1, <4>2
    <3> QED BY <3>1, <3>2
  <2>4. KeysAgree'
    BY <2>0 DEF TrackingInv, KeysAgree, Types
  <2>5. BrokenSound'
    BY <1>0, <2>0 DEF TrackingInv, BrokenSound, SameMode, SameConnected, Connected
  <2> QED BY <2>2, <2>3, <2>4, <2>5 DEF TrackingInv
<1>5. CASE Removes(c)
  <2>0. /\ \A d \in Clients \ {c} : SameConnected(d) /\ SameMode(d)
        /\ snapshot'[c] = 0 \/ ~mode'[c].bcast
        /\ keyWatchers' = [k \in Keys |-> Retargeted(keyWatchers[k], c)]
        /\ broadcasts' = Retargeted(broadcasts, c)
        /\ trackerKeys' = [trackerKeys EXCEPT ![c] = {}]
        /\ broken' = (broken \ {c}) \union Detached(c)
    BY <1>5 DEF Removes
  <2>a. \A w \in broadcasts : w \in BroadcastWatchers
    BY DEF Types
  <2>1. ASSUME NEW w, w.tracker \in Clients \ {c}, w.target \in Clients, WatcherSound(w),
               NEW v, v.tracker = w.tracker, v.target = IF w.target = c THEN w.tracker ELSE w.target
        PROVE  WatcherSound(v)' /\ (mode'[v.tracker].bcast = mode[w.tracker].bcast)
    BY <2>0, <2>1 DEF WatcherSound, SameMode, SameConnected, Connected
  <2>2. WatchersSound'
    <3>1. ASSUME NEW k \in Keys, NEW v \in keyWatchers'[k] PROVE WatcherSound(v)' /\ ~mode'[v.tracker].bcast
      <4>1. v \in Retargeted(keyWatchers[k], c)
        BY <2>0, <3>1
      <4>2. PICK w \in keyWatchers[k] :
              /\ w.tracker # c /\ v.tracker = w.tracker
              /\ v.target = IF w.target = c THEN w.tracker ELSE w.target
        BY <1>0, <4>1, RetargetedKeyWatchers
      <4>3. WatcherSound(w) /\ ~mode[w.tracker].bcast
        BY DEF TrackingInv, WatchersSound
      <4> QED BY <1>0, <2>1, <4>2, <4>3
    <3>2. ASSUME NEW v \in broadcasts' PROVE WatcherSound(v)' /\ mode'[v.tracker].bcast
      <4>1. v \in Retargeted(broadcasts, c)
        BY <2>0, <3>2
      <4>2. PICK w \in broadcasts :
              /\ w.tracker # c /\ v.tracker = w.tracker
              /\ v.target = IF w.target = c THEN w.tracker ELSE w.target
        BY <2>a, <4>1, RetargetedBroadcasts
      <4>3. WatcherSound(w) /\ mode[w.tracker].bcast
        BY DEF TrackingInv, WatchersSound
      <4> QED BY <1>0, <2>1, <4>2, <4>3
    <3> QED BY <3>1, <3>2 DEF WatchersSound
  <2>3. BroadcastsListed'
    <3> SUFFICES ASSUME NEW d \in Clients, Connected(d)', mode'[d].bcast
                 PROVE  \E b \in broadcasts' : b.tracker = d /\ b.prefix = mode'[d].prefix
      BY DEF BroadcastsListed
    <3>1. d # c
      BY <2>0 DEF Connected
    <3>2. mode[d].bcast /\ mode'[d].prefix = mode[d].prefix /\ Connected(d)
      BY <2>0, <3>1 DEF SameMode, SameConnected, Connected
    <3>3. PICK b \in broadcasts : b.tracker = d /\ b.prefix = mode[d].prefix
      BY <3>2 DEF TrackingInv, BroadcastsListed
    <3>4. \E v \in Retargeted(broadcasts, c) : v.tracker = b.tracker /\ v.prefix = b.prefix
      BY <2>a, <3>1, <3>3, RetargetedBroadcasts
    <3> QED BY <2>0, <3>2, <3>3, <3>4
  <2>4. KeysAgree'
    <3> SUFFICES ASSUME NEW d \in Clients, NEW k \in Keys
                 PROVE  k \in trackerKeys'[d] <=> \E w \in keyWatchers'[k] : w.tracker = d
      BY DEF KeysAgree
    <3>1. keyWatchers'[k] = Retargeted(keyWatchers[k], c) /\ keyWatchers[k] \in SUBSET KeyWatchers
      BY <2>0 DEF Types
    <3>2. CASE d = c
      <4>1. k \notin trackerKeys'[d]
        BY <2>0, <3>2 DEF Types
      <4>2. ~\E w \in keyWatchers'[k] : w.tracker = c
        BY <3>1, RetargetedKeyWatchers
      <4> QED BY <3>2, <4>1, <4>2
    <3>3. CASE d # c
      <4>1. k \in trackerKeys'[d] <=> \E w \in keyWatchers[k] : w.tracker = d
        BY <2>0, <3>3 DEF Types, TrackingInv, KeysAgree
      <4>2. ASSUME NEW w \in keyWatchers[k], w.tracker = d PROVE \E v \in keyWatchers'[k] : v.tracker = d
        <5>1. \E v \in Retargeted(keyWatchers[k], c) : v.tracker = w.tracker
          BY <3>1, <3>3, <4>2, RetargetedKeyWatchers
        <5> QED BY <3>1, <4>2, <5>1
      <4>3. ASSUME NEW v \in keyWatchers'[k], v.tracker = d PROVE \E w \in keyWatchers[k] : w.tracker = d
        BY <3>1, <3>3, <4>3, RetargetedKeyWatchers
      <4> QED BY <4>1, <4>2, <4>3
    <3> QED BY <3>2, <3>3
  <2>5. BrokenSound'
    <3>1. ASSUME NEW d \in Detached(c)
          PROVE  d \in Clients \ {c} /\ Connected(d) /\ mode[d].on /\ mode[d].redirect # 0
      <4>1. PICK w \in broadcasts \union UNION {keyWatchers[k] : k \in Keys} :
               w.target = c /\ w.tracker # c /\ d = w.tracker
        BY <3>1 DEF Detached
      <4>2. WatcherSound(w) /\ w.tracker \in Clients
        BY <1>0, <4>1 DEF TrackingInv, WatchersSound
      <4> QED BY <4>1, <4>2, ZeroNoClient DEF WatcherSound
    <3>2. \A d \in broken' : d \in Clients \ {c} /\ Connected(d) /\ mode[d].on /\ mode[d].redirect # 0
      BY <1>0, <2>0, <3>1 DEF TrackingInv, BrokenSound
    <3> QED BY <2>0, <3>2 DEF BrokenSound, SameMode, SameConnected, Connected
  <2> QED BY <2>2, <2>3, <2>4, <2>5 DEF TrackingInv
<1> QED BY <1>1, <1>2, <1>3, <1>4, <1>5

-----------------------------------------------------------------------------
(***************************************************************************)
(* Subscriptions, MONITOR, and connections that are gone.                  *)
(***************************************************************************)
SubsAgree == \A c \in Clients, s \in Subscriptions : c \in subscribers[s] <=> s \in subs[c]

GoneForgotten ==
    \A c \in Clients : ~Connected(c) => subs[c] = {} /\ c \notin senders \union monitors \union pending

\* The two maps of PubSubState stay inverses of each other.
LEMMA SubsStep == ASSUME Types, SubsAgree, NEW c \in Clients, Step(c) PROVE SubsAgree'
<1>1. ASSUME NEW s \in Subscriptions, Subscribe(c, s) PROVE SubsAgree'
  BY <1>1 DEF Subscribe, SubsAgree, Types
<1>2. ASSUME NEW ss \in SUBSET Subscriptions, Unsubscribe(c, ss) PROVE SubsAgree'
  BY <1>2 DEF Unsubscribe, SubsAgree, Types
<1>3. \/ \E s \in Subscriptions : Subscribe(c, s)
      \/ \E ss \in SUBSET Subscriptions : Unsubscribe(c, ss)
      \/ UNCHANGED <<subscribers, subs>>
  <2>1. Subscriptions \in SUBSET Subscriptions
    OBVIOUS
  <2> QED
    BY <2>1 DEF Step, CmdSubscribe, CmdUnsubscribe, CmdPublish, CmdTrackingOn, CmdTrackingOff,
       CmdCaching, CmdRead,
       FastRead, CmdWrite, CmdMonitor, CmdReset, Preloop, PubSubMsg, MonitorWake, FastPost, PostCommand, Finish,
       PubSubClosed, NetworkRead, Hangup, SessionOnly, registries
<1>4. CASE UNCHANGED <<subscribers, subs>>
  BY <1>4 DEF SubsAgree
<1> QED BY <1>1, <1>2, <1>3, <1>4

\* The monitors other than the one whose command ran get a line and a permit.
LEMMA BroadcastMonitorEffect ==
    ASSUME NEW c \in Clients, BroadcastMonitor(c)
    PROVE  /\ UNCHANGED <<monitors, notifiers>>
           /\ pending' \subseteq monitors
           /\ permit \subseteq permit'
           /\ \A d \in pending' : d \in pending \/ (d # c /\ (d \in notifiers => d \in permit'))
           /\ \A d \in pending' \ {c} : d \in notifiers => d \in permit'
BY DEF BroadcastMonitor, Broadcast

\* A message queue that is closed is never opened again.
LEMMA SendersShrink ==
    ASSUME NEW open \in SUBSET Clients, NEW ms, SendToClients(open, ms) PROVE senders' \subseteq open
BY DEF SendToClients

\* Nothing is kept for a connection that is gone.
LEMMA GoneStep ==
    ASSUME Types, Alive, Alive', GoneForgotten, NEW c \in Clients, Step(c)
    PROVE  GoneForgotten'
<1> USE DEF GoneForgotten, Connected
<1>a. \A ms : SendToClients(senders, ms) => senders' \subseteq senders
  BY SendersShrink DEF Types
<1>b. BroadcastMonitor(c) => UNCHANGED monitors /\ pending' \subseteq monitors
  BY BroadcastMonitorEffect
<1>c. \A d \in Clients : snapshot[d] = 0 => subs[d] = {} /\ d \notin senders /\ d \notin monitors /\ d \notin pending
  OBVIOUS
<1>d. pc[c] # "gone" => snapshot[c] # 0
  BY DEF Alive
<1> HIDE DEF GoneForgotten
<1>e. ASSUME \A d \in Clients : snapshot'[d] = 0 => subs'[d] = {} /\ d \notin senders' /\ d \notin monitors' /\ d \notin pending'
      PROVE  GoneForgotten'
  BY <1>e DEF GoneForgotten
<1>1. CASE \E s \in Subscriptions : CmdSubscribe(c, s)
  BY <1>b, <1>c, <1>d, <1>e, <1>1 DEF CmdSubscribe, Subscribe, Runs, Types
<1>2. CASE \E ss \in SUBSET Subscriptions : CmdUnsubscribe(c, ss)
  BY <1>b, <1>c, <1>d, <1>e, <1>2 DEF CmdUnsubscribe, Unsubscribe, Runs, Types
<1>3. CASE \E ch \in Channels \union ShardChannels : CmdPublish(c, ch)
  BY <1>a, <1>b, <1>c, <1>e, <1>3 DEF CmdPublish, registries
<1>4. CASE \E m \in Modes : CmdTrackingOn(c, m)
  BY <1>b, <1>c, <1>e, <1>4 DEF CmdTrackingOn
<1>5. CASE CmdTrackingOff(c)
  BY <1>b, <1>c, <1>e, <1>5 DEF CmdTrackingOff
<1>6. CASE \E enabled \in BOOLEAN : CmdCaching(c, enabled)
  BY <1>b, <1>c, <1>e, <1>6 DEF CmdCaching, registries
<1>7. CASE \E k \in Keys : CmdRead(c, k)
  BY <1>b, <1>c, <1>e, <1>7 DEF CmdRead
<1>8. CASE \E k \in Keys : FastRead(c, k)
  BY <1>c, <1>e, <1>8 DEF FastRead, registries, monitoring
<1>9. CASE \E keys \in SUBSET Keys : CmdWrite(c, keys)
  BY <1>a, <1>b, <1>c, <1>e, <1>9 DEF CmdWrite
<1>10. CASE CmdMonitor(c)
  BY <1>c, <1>d, <1>e, <1>10 DEF CmdMonitor, Runs, registries
<1>11. CASE CmdReset(c)
  <2>1. senders' \subseteq senders /\ monitors' \subseteq monitors /\ pending' \subseteq monitors' \union pending
    BY <1>a, <1>11 DEF CmdReset, TrackingRemoveClient, Broadcast
  <2>2. \A d \in Clients : subs'[d] \subseteq subs[d]
    BY <1>11 DEF CmdReset, Unsubscribe, Types
  <2> QED BY <1>c, <1>e, <1>11, <2>1, <2>2 DEF CmdReset
<1>12. CASE Preloop(c)
  BY <1>c, <1>e, <1>12 DEF Preloop, SessionOnly, registries
<1>13. CASE PubSubMsg(c)
  BY <1>c, <1>e, <1>13 DEF PubSubMsg, SessionOnly, registries
<1>14. CASE MonitorWake(c)
  BY <1>c, <1>e, <1>14 DEF MonitorWake, SessionOnly, registries
<1>15. CASE FastPost(c)
  BY <1>b, <1>c, <1>e, <1>15 DEF FastPost
<1>16. CASE PostCommand(c)
  BY <1>c, <1>d, <1>e, <1>16 DEF PostCommand, SessionOnly, registries, Goto, Types
<1>17. CASE Finish(c)
  <2>1. senders' \subseteq senders \ {c}
    <3>1. PICK ms : SendToClients(senders \ {c}, ms)
      BY <1>17 DEF Finish, TrackingRemoveClient
    <3>2. senders \ {c} \in SUBSET Clients
      BY DEF Types
    <3> QED BY <3>1, <3>2, SendersShrink, Zenon
  <2>2. subs'[c] = {} /\ \A d \in Clients : subs'[d] \subseteq subs[d]
    BY <1>17 DEF Finish, Unsubscribe, Types
  <2>3. \A d \in Clients \ {c} : snapshot'[d] = snapshot[d]
    BY <1>17 DEF Finish, Types
  <2>4. monitors' = monitors \ {c} /\ pending' = pending \ {c}
    BY <1>17 DEF Finish
  <2> QED BY <1>c, <1>e, <2>1, <2>2, <2>3, <2>4
<1>18. CASE PubSubClosed(c)
  BY <1>c, <1>e, <1>18 DEF PubSubClosed, SessionOnly, registries
<1>19. CASE NetworkRead(c)
  BY <1>c, <1>e, <1>19 DEF NetworkRead, SessionOnly, registries
<1>20. CASE Hangup(c)
  BY <1>c, <1>e, <1>20 DEF Hangup, SessionOnly, registries
<1> QED BY <1>1, <1>2, <1>3, <1>4, <1>5, <1>6, <1>7, <1>8, <1>9, <1>10, <1>11, <1>12, <1>13,
           <1>14, <1>15, <1>16, <1>17, <1>18, <1>19, <1>20 DEF Step

\* A session goes to sleep only beside no pending lines, and a line that comes
\* in later leaves a permit.
LEMMA MonitorStep ==
    ASSUME Types, MonitorHears, NEW c \in Clients, Step(c)
    PROVE  MonitorHears'
<1>a. \A d \in pending \intersect notifiers : d \in Clients /\ (pc[d] = "wait" => d \in permit)
  BY DEF MonitorHears, Types
<1>b. ASSUME BroadcastMonitor(c), pc'[c] # "wait", \A d \in Clients \ {c} : pc'[d] = pc[d] PROVE MonitorHears'
  BY <1>a, <1>b, BroadcastMonitorEffect DEF MonitorHears, Types
<1>c. ASSUME UNCHANGED <<pending, notifiers, permit>>, pc'[c] # "wait", \A d \in Clients \ {c} : pc'[d] = pc[d]
      PROVE  MonitorHears'
  BY <1>a, <1>c DEF MonitorHears, Types
<1> USE DEF Runs, Goto, registries, monitoring, SessionOnly
<1>1. CASE \E s \in Subscriptions : CmdSubscribe(c, s)
  BY <1>b, <1>1 DEF CmdSubscribe
<1>2. CASE \E ss \in SUBSET Subscriptions : CmdUnsubscribe(c, ss)
  BY <1>b, <1>2 DEF CmdUnsubscribe
<1>3. CASE \E ch \in Channels \union ShardChannels : CmdPublish(c, ch)
  BY <1>b, <1>3 DEF CmdPublish
<1>4. CASE \E m \in Modes : CmdTrackingOn(c, m)
  BY <1>b, <1>4 DEF CmdTrackingOn
<1>5. CASE CmdTrackingOff(c)
  BY <1>b, <1>5 DEF CmdTrackingOff
<1>6. CASE \E enabled \in BOOLEAN : CmdCaching(c, enabled)
  BY <1>b, <1>6 DEF CmdCaching
<1>7. CASE \E k \in Keys : CmdRead(c, k)
  BY <1>b, <1>7 DEF CmdRead
<1>8. CASE \E k \in Keys : FastRead(c, k)
  BY <1>c, <1>8 DEF FastRead, Types
<1>9. CASE \E keys \in SUBSET Keys : CmdWrite(c, keys)
  BY <1>b, <1>9 DEF CmdWrite
<1>10. CASE CmdMonitor(c)
  BY <1>c, <1>10 DEF CmdMonitor
<1>11. CASE CmdReset(c)
  <2>1. /\ pending' = (pending \intersect monitors') \union (monitors' \ {c})
        /\ permit' = permit \union ((monitors' \intersect notifiers') \ {c})
        /\ monitors' = monitors \ {c} /\ notifiers' = notifiers \ {c} /\ UNCHANGED pc
    BY <1>11 DEF CmdReset, Broadcast
  <2>2. \A d \in pending' \intersect notifiers' : d \in monitors' /\ d # c
    BY <2>1
  <2> QED BY <2>1, <2>2 DEF MonitorHears
<1>12. CASE Preloop(c)
  BY <1>a, <1>12 DEF Preloop, MonitorHears, Types
<1>13. CASE PubSubMsg(c)
  BY <1>c, <1>13 DEF PubSubMsg, Types
<1>14. CASE MonitorWake(c)
  BY <1>a, <1>14 DEF MonitorWake, MonitorHears, Types
<1>15. CASE FastPost(c)
  BY <1>b, <1>15 DEF FastPost, Types
<1>16. CASE PostCommand(c)
  BY <1>a, <1>16 DEF PostCommand, MonitorHears, Types
<1>17. CASE Finish(c)
  BY <1>a, <1>17 DEF Finish, MonitorHears, Types
<1>18. CASE PubSubClosed(c)
  BY <1>c, <1>18 DEF PubSubClosed, Types
<1>19. CASE NetworkRead(c)
  BY <1>c, <1>19 DEF NetworkRead, Types
<1>20. CASE Hangup(c)
  BY <1>c, <1>20 DEF Hangup, Types
<1> QED BY <1>1, <1>2, <1>3, <1>4, <1>5, <1>6, <1>7, <1>8, <1>9, <1>10, <1>11, <1>12, <1>13,
           <1>14, <1>15, <1>16, <1>17, <1>18, <1>19, <1>20 DEF Step

-----------------------------------------------------------------------------
RegistryInv == Types /\ Alive /\ TrackingInv /\ SubsAgree /\ GoneForgotten /\ MonitorHears

\* Initially nothing is registered and everybody is connected.
LEMMA RegistryInit == Init => RegistryInv
<1> SUFFICES ASSUME Init PROVE RegistryInv
  OBVIOUS
<1>1. Types
  BY TypesInit
<1>2. \A c \in Clients : mode[c] = Off /\ ~Off.bcast /\ snapshot[c] # 0
  BY DEF Init, Off
<1>3. Alive
  BY <1>2 DEF Init, Alive
<1>4. TrackingInv
  BY <1>2 DEF Init, TrackingInv, WatchersSound, BroadcastsListed, KeysAgree, BrokenSound
<1>5. SubsAgree /\ GoneForgotten /\ MonitorHears
  BY <1>2 DEF Init, SubsAgree, GoneForgotten, MonitorHears, Connected
<1> QED BY <1>1, <1>3, <1>4, <1>5 DEF RegistryInv

\* Every step keeps the registries.
LEMMA RegistryStep == RegistryInv /\ [Next]_vars => RegistryInv'
<1> SUFFICES ASSUME RegistryInv, [Next]_vars PROVE RegistryInv'
  OBVIOUS
<1>1. Types'
  BY TypesStep DEF RegistryInv
<1>2. CASE UNCHANGED vars
  <2>1. Alive' /\ SubsAgree' /\ GoneForgotten' /\ MonitorHears'
    BY <1>2 DEF RegistryInv, vars, registries, monitoring, Alive, SubsAgree, GoneForgotten,
       MonitorHears, Connected
  <2>2. TrackingInv'
    BY <1>2 DEF RegistryInv, vars, registries, TrackingInv, WatchersSound, WatcherSound,
       BroadcastsListed,
                KeysAgree, BrokenSound, Connected
  <2> QED BY <1>1, <2>1, <2>2 DEF RegistryInv
<1>3. ASSUME NEW c \in Clients, Step(c) PROVE RegistryInv'
  <2>1. /\ Alive'
        /\ KeepsTracking \/ TracksKey(c) \/ WritesKeys \/ Reconfigures(c) \/ Removes(c)
    BY <1>3, TrackingCases DEF RegistryInv
  <2>2. TrackingInv'
    BY <1>1, <2>1, TrackingStep DEF RegistryInv
  <2>3. SubsAgree'
    BY <1>3, SubsStep DEF RegistryInv
  <2>4. GoneForgotten'
    BY <1>3, <2>1, GoneStep DEF RegistryInv
  <2>5. MonitorHears'
    BY <1>3, MonitorStep DEF RegistryInv
  <2> QED BY <1>1, <2>1, <2>2, <2>3, <2>4, <2>5 DEF RegistryInv
<1> QED BY <1>2, <1>3, NextIsStep

\* The registries are sound in every reachable state.
THEOREM RegistryInvariance == Spec => []RegistryInv
BY RegistryInit, RegistryStep, PTL DEF Spec

\* remove_client, clear_tracker and clear_target leave no entry behind that
\* names a connection that is gone, and the maps of pub/sub and of client
\* tracking stay inverses of each other.
THEOREM RegistriesAreExact == Spec => []RegistriesExact
<1>1. RegistryInv => RegistriesExact
  <2> SUFFICES ASSUME RegistryInv PROVE RegistriesExact
    OBVIOUS
  <2>1. \A w \in broadcasts \union UNION {keyWatchers[k] : k \in Keys} :
            /\ mode[w.tracker].on
            /\ mode[w.tracker].bcast <=> w \in broadcasts
            /\ Connected(w.tracker) /\ Connected(w.target)
    BY DEF RegistryInv, TrackingInv, WatchersSound, WatcherSound
  <2> QED BY <2>1 DEF RegistryInv, TrackingInv, KeysAgree, BrokenSound, SubsAgree, GoneForgotten,
             RegistriesExact
<1> QED BY <1>1, RegistryInvariance, PTL

\* No MONITOR client with a notifier sleeps beside lines that wait for it.
THEOREM MonitorsHear == Spec => []MonitorHears
BY RegistryInvariance, PTL DEF RegistryInv

-----------------------------------------------------------------------------
(***************************************************************************)
(* The queues of the connections and what is due to their subscribers.     *)
(***************************************************************************)
Control  == [kind: {"invalidate"}, keys: SUBSET Keys] \union [kind: {"tracking-redir-broken"}, of: Clients]
Messages == PubSubMessages \union Control

QueueTypes ==
    /\ queue \in [Clients -> Seq(Messages)]
    /\ \A c \in Clients : Len(queue[c]) <= Capacity
    /\ due \in [Clients -> Seq(PubSubMessages)]
    /\ published \in Nat
    /\ \A c \in Clients : IsFiniteSet(subs[c])

\* What is due to a client is what its queue holds, and then what was dropped
\* with its sender.
Owed(c, r) == due[c] = Published(queue[c]) \o r /\ (c \in senders => r = <<>>)
OwedInOrder == \A c \in Clients : Connected(c) => \E r \in Seq(PubSubMessages) : Owed(c, r)

\* The first n messages of a sequence and the others.
Firsts(s, n) == SubSeq(s, 1, n)
Others(s, n) == SubSeq(s, n + 1, Len(s))

\* A sequence is its first n elements and then the others.
LEMMA CutInTwo ==
    ASSUME NEW A, NEW s \in Seq(A), NEW n \in 0 .. Len(s)
    PROVE  /\ Firsts(s, n) \in Seq(A) /\ Others(s, n) \in Seq(A)
           /\ Len(Firsts(s, n)) = n /\ Len(Others(s, n)) = Len(s) - n
           /\ \A i \in 1 .. n : Firsts(s, n)[i] = s[i]
           /\ \A i \in 1 .. Len(s) - n : Others(s, n)[i] = s[n + i]
           /\ Firsts(s, n) \o Others(s, n) = s
<1> DEFINE a == Firsts(s, n)
           b == Others(s, n)
<1>1. a \in Seq(A) /\ b \in Seq(A) /\ Len(a) = n /\ Len(b) = Len(s) - n
  BY DEF Firsts, Others
<1>2. (\A i \in 1 .. n : a[i] = s[i]) /\ \A i \in 1 .. Len(s) - n : b[i] = s[n + i]
  BY DEF Firsts, Others
<1> HIDE DEF a, b
<1>0. Len(s) \in Nat /\ n \in Nat /\ n <= Len(s)
  OBVIOUS
<1>3. a \o b \in Seq(A) /\ Len(a \o b) = Len(s)
  <2>1. a \o b \in Seq(A)
    BY <1>1
  <2>2. Len(a \o b) = Len(a) + Len(b)
    BY <1>1
  <2> QED BY <1>0, <1>1, <2>1, <2>2
<1>4. ASSUME NEW i \in 1 .. Len(s) PROVE (a \o b)[i] = s[i]
  <2>1. CASE i <= n
    BY <1>1, <1>2, <2>1
  <2>2. CASE i > n
    <3>1. i - n \in 1 .. Len(s) - n /\ n + (i - n) = i
      BY <2>2
    <3>2. (a \o b)[i] = b[i - n]
      BY <1>1, <2>2
    <3> QED BY <1>2, <3>1, <3>2
  <2>3. i <= n \/ i > n
    BY <1>0
  <2> QED BY <2>1, <2>2, <2>3
<1>5. a \o b = s
  BY <1>3, <1>4, SeqEqual
<1> QED BY <1>1, <1>2, <1>5 DEF a, b

\* A published message is no other push.
LEMMA KindsDiffer ==
    PubSubMessages \intersect Control = {} /\ PubSubMessages \subseteq Messages /\ Control \subseteq Messages
<1>1. \A m \in PubSubMessages : m.kind = "message"
  BY DEF PubSubMessages
<1>2. \A m \in Control : m.kind # "message"
  BY DEF Control
<1> QED BY <1>1, <1>2 DEF Messages

\* What Published does with the parts of a queue.
LEMMA PublishedParts ==
    /\ \A s \in Seq(Messages) : Published(s) \in Seq(PubSubMessages)
    /\ \A s, t \in Seq(Messages) : Published(s \o t) = Published(s) \o Published(t)
    /\ \A s \in Seq(PubSubMessages) : Published(s) = s
    /\ \A s \in Seq(Control) : Published(s) = <<>>
<1>1. ASSUME NEW s \in Seq(Messages) PROVE Published(s) \in Seq(PubSubMessages)
  <2>1. Messages \intersect PubSubMessages = PubSubMessages
    BY KindsDiffer
  <2> QED BY <2>1, OnlyType DEF Published
<1>2. ASSUME NEW s \in Seq(Messages), NEW t \in Seq(Messages) PROVE Published(s \o t) = Published(s) \o Published(t)
  BY OnlyConcat DEF Published
<1>3. ASSUME NEW s \in Seq(PubSubMessages) PROVE Published(s) = s
  BY OnlyAllOrNone DEF Published
<1>4. ASSUME NEW s \in Seq(Control) PROVE Published(s) = <<>>
  BY KindsDiffer, OnlyAllOrNone DEF Published
<1> QED BY <1>1, <1>2, <1>3, <1>4

\* The copies of a message for one client: as many as it has subscriptions to
\* the channel, which are finitely many.
LEMMA CopiesType ==
    ASSUME Types, SubsAgree, QueueTypes, NEW c \in Clients, NEW ch \in Channels \union ShardChannels
    PROVE  Copies(c, ch, published + 1) \in Seq(PubSubMessages)
<1> DEFINE P == {p \in Patterns : ch \in Matches[p] /\ c \in subscribers[p]}
           a == IF c \in subscribers[ch] THEN <<ch>> ELSE <<>>
           b == SetToSeq(P)
           by == a \o b
<1>1. P \subseteq subs[c] /\ IsFiniteSet(subs[c])
  BY DEF SubsAgree, Subscriptions, QueueTypes
<1>2. P \subseteq Subscriptions /\ ch \in Subscriptions
  BY DEF Subscriptions
<1> HIDE DEF P
<1>3. IsFiniteSet(P)
  BY <1>1, FS_Subset
<1>4. Cardinality(P) \in Nat /\ ExistsBijection(1 .. Cardinality(P), P)
  BY <1>3, FS_CardinalityType
<1>5. \E f \in [1 .. Cardinality(P) -> P] : IsInjective(f)
  BY <1>4 DEF ExistsBijection, Bijection, Injection, Surjection, IsInjective
<1>6. b \in [1 .. Cardinality(P) -> P]
  BY <1>5 DEF SetToSeq
<1> HIDE DEF b
<1>7. b \in Seq(Subscriptions)
  BY <1>2, <1>4, <1>6
<1>8. a \in Seq(Subscriptions)
  BY <1>2
<1> HIDE DEF a
<1>9. by \in Seq(Subscriptions)
  BY <1>7, <1>8
<1>10. Copies(c, ch, published + 1) = [i \in DOMAIN by |-> Message(published + 1, by[i])]
  BY DEF Copies, a, b, P
<1> HIDE DEF by
<1>11. \A s \in Subscriptions : Message(published + 1, s) \in PubSubMessages
  BY DEF Message, PubSubMessages, QueueTypes
<1>12. DOMAIN by = 1 .. Len(by) /\ Len(by) \in Nat /\ \A i \in 1 .. Len(by) : by[i] \in Subscriptions
  BY <1>9
<1> QED BY <1>10, <1>11, <1>12

(***************************************************************************)
(* The ways in which a step of connection c changes the queues.            *)
(***************************************************************************)
KeepsQueues == UNCHANGED <<queue, senders, due, published>>

\* Invalidations and notices of broken redirections; the connection that ends
\* is owed nothing any more.
PushesControl ==
    /\ \E open \in SUBSET senders, ms \in [Clients -> Seq(Control)] : SendToClients(open, ms)
    /\ due' \in [Clients -> Seq(PubSubMessages)]
    /\ \A d \in Clients : Connected(d)' => due'[d] = due[d]
    /\ UNCHANGED published

Publishes ==
    /\ \E ms \in [Clients -> Seq(PubSubMessages)] :
          SendToClients(senders, ms) /\ due' = [d \in Clients |-> due[d] \o ms[d]]
    /\ published' = published + 1

Delivers(c) ==
    /\ \E n \in 0 .. Len(queue[c]) :
         /\ queue' = [queue EXCEPT ![c] = Others(@, n)]
         /\ due' = [due EXCEPT ![c] = Others(@, Len(Published(Firsts(queue[c], n))))]
         /\ cached' = [d \in Clients |-> [k \in Keys |-> IF d \in ServedBy(c) /\ k \in KeysIn(Firsts(queue[c], n))
                                                         THEN "none" ELSE cached[d][k]]]
    /\ UNCHANGED <<senders, published>>

\* tracking_remove_client pushes nothing but notices.
LEMMA RemovalPushes ==
    ASSUME NEW c \in Clients, NEW open \in SUBSET senders, TrackingRemoveClient(c, open)
    PROVE  \E o \in SUBSET senders, ms \in [Clients -> Seq(Control)] : SendToClients(o, ms)
<1> DEFINE ms == [d \in Clients |-> IF d \in Detached(c) /\ snapshot[d] >= 3 THEN <<RedirectBroken(c)>> ELSE <<>>]
<1>1. RedirectBroken(c) \in Control
  BY DEF RedirectBroken, Control
<1>2. ms \in [Clients -> Seq(Control)]
  BY <1>1
<1>3. SendToClients(open, ms)
  BY DEF TrackingRemoveClient
<1> HIDE DEF ms
<1> QED BY <1>2, <1>3

\* Every step is of one of these kinds, and no connection comes back.
LEMMA QueueCases ==
    ASSUME Types, Alive, SubsAgree, QueueTypes, NEW c \in Clients, Step(c)
    PROVE  /\ KeepsQueues \/ PushesControl \/ Publishes \/ Delivers(c)
           /\ \A d \in Clients : Connected(d)' => Connected(d)
<1> USE DEF registries, monitoring, SessionOnly, Goto, BroadcastMonitor, Runs, Connected
<1>0. \A d \in Clients : queue[d] \in Seq(Messages) /\ Len(queue[d]) \in Nat
  BY DEF QueueTypes
<1>a. ASSUME NEW n \in 0 .. Len(queue[c]), Deliver(c, n), UNCHANGED <<senders, published>> PROVE Delivers(c)
  BY <1>a DEF Deliver, Delivers, Firsts, Others
<1>b. Len(queue[c]) \in 0 .. Len(queue[c]) /\ 0 \in 0 .. Len(queue[c])
  BY <1>0
<1>1. CASE \E s \in Subscriptions : CmdSubscribe(c, s)
  BY <1>1 DEF CmdSubscribe, KeepsQueues
<1>2. CASE \E ss \in SUBSET Subscriptions : CmdUnsubscribe(c, ss)
  BY <1>2 DEF CmdUnsubscribe, KeepsQueues
<1>3. CASE \E ch \in Channels \union ShardChannels : CmdPublish(c, ch)
  <2> PICK ch \in Channels \union ShardChannels : CmdPublish(c, ch)
    BY <1>3
  <2> DEFINE ms == [d \in Clients |-> Copies(d, ch, published + 1)]
  <2>1. ms \in [Clients -> Seq(PubSubMessages)]
    BY CopiesType
  <2>2. SendToClients(senders, ms) /\ due' = [d \in Clients |-> due[d] \o ms[d]] /\ published' = published + 1
    BY DEF CmdPublish
  <2> HIDE DEF ms
  <2>3. Publishes
    BY <2>1, <2>2 DEF Publishes
  <2> QED BY <2>3 DEF CmdPublish
<1>4. CASE \E m \in Modes : CmdTrackingOn(c, m)
  BY <1>4 DEF CmdTrackingOn, KeepsQueues
<1>5. CASE CmdTrackingOff(c)
  BY <1>5 DEF CmdTrackingOff, KeepsQueues
<1>6. CASE \E enabled \in BOOLEAN : CmdCaching(c, enabled)
  BY <1>6 DEF CmdCaching, KeepsQueues
<1>7. CASE \E k \in Keys : CmdRead(c, k)
  BY <1>7 DEF CmdRead, KeepsQueues
<1>8. CASE \E k \in Keys : FastRead(c, k)
  BY <1>8 DEF FastRead, KeepsQueues
<1>9. CASE \E keys \in SUBSET Keys : CmdWrite(c, keys)
  <2> PICK keys \in SUBSET Keys : CmdWrite(c, keys)
    BY <1>9
  <2> DEFINE invalid == InvalidKeys(c, keys)
             ms == [t \in Clients |-> IF invalid[t] = {} THEN <<>> ELSE <<Invalidate(invalid[t])>>]
  <2>1. \A t \in Clients : invalid[t] \in SUBSET Keys
    BY DEF InvalidKeys
  <2>2. SendToClients(senders, ms) /\ UNCHANGED <<due, published, snapshot>>
    BY DEF CmdWrite
  <2> HIDE DEF invalid
  <2>3. \A t \in Clients : Invalidate(invalid[t]) \in Control
    BY <2>1 DEF Invalidate, Control
  <2>4. ms \in [Clients -> Seq(Control)]
    BY <2>3
  <2> HIDE DEF ms
  <2>5. PushesControl
    BY <2>2, <2>4 DEF PushesControl, QueueTypes
  <2> QED BY <2>2, <2>5
<1>10. CASE CmdMonitor(c)
  BY <1>10 DEF CmdMonitor, KeepsQueues
<1>11. CASE CmdReset(c)
  <2>1. TrackingRemoveClient(c, senders) /\ UNCHANGED <<snapshot, due, published>>
    BY <1>11 DEF CmdReset
  <2>2. PushesControl
    BY <2>1, RemovalPushes DEF PushesControl, QueueTypes
  <2> QED BY <2>1, <2>2
<1>12. CASE Preloop(c)
  BY <1>a, <1>b, <1>12 DEF Preloop
<1>13. CASE PubSubMsg(c)
  <2>1. 1 \in 0 .. Len(queue[c])
    BY <1>0, <1>13 DEF PubSubMsg
  <2> QED BY <1>a, <1>13, <2>1 DEF PubSubMsg
<1>14. CASE MonitorWake(c)
  BY <1>14 DEF MonitorWake, KeepsQueues
<1>15. CASE FastPost(c)
  BY <1>15 DEF FastPost, KeepsQueues
<1>16. CASE PostCommand(c)
  <2>1. Delivers(c)
    BY <1>a, <1>b, <1>16 DEF PostCommand
  <2>2. \A d \in Clients : snapshot'[d] # 0 => snapshot[d] # 0
    BY <1>16 DEF PostCommand, Alive, Types
  <2> QED BY <2>1, <2>2
<1>17. CASE Finish(c)
  <2>1. TrackingRemoveClient(c, senders \ {c}) /\ UNCHANGED published
    BY <1>17 DEF Finish
  <2>2. snapshot'[c] = 0 /\ \A d \in Clients \ {c} : snapshot'[d] = snapshot[d] /\ due'[d] = due[d]
    BY <1>17 DEF Finish, Types, QueueTypes
  <2>3. due' \in [Clients -> Seq(PubSubMessages)]
    <3>1. <<>> \in Seq(PubSubMessages)
      OBVIOUS
    <3> QED BY <1>17, <3>1 DEF Finish, QueueTypes
  <2>4. \E open \in SUBSET senders, ms \in [Clients -> Seq(Control)] : SendToClients(open, ms)
    BY <2>1, RemovalPushes
  <2>5. PushesControl
    BY <2>1, <2>2, <2>3, <2>4 DEF PushesControl
  <2> QED BY <2>2, <2>5
<1>18. CASE PubSubClosed(c)
  BY <1>18 DEF PubSubClosed, KeepsQueues
<1>19. CASE NetworkRead(c)
  BY <1>19 DEF NetworkRead, KeepsQueues
<1>20. CASE Hangup(c)
  BY <1>20 DEF Hangup, KeepsQueues
<1> QED BY <1>1, <1>2, <1>3, <1>4, <1>5, <1>6, <1>7, <1>8, <1>9, <1>10, <1>11, <1>12, <1>13,
           <1>14, <1>15, <1>16, <1>17, <1>18, <1>19, <1>20 DEF Step

\* Wider sequences, concatenations and the empty sequence.
LEMMA SeqFacts ==
    ASSUME NEW A
    PROVE  /\ \A s, t \in Seq(A) : s \o t \in Seq(A) /\ Len(s \o t) = Len(s) + Len(t)
           /\ \A s \in Seq(A) : s \o <<>> = s
           /\ <<>> \in Seq(A)
           /\ \A s \in Seq(A) : Len(s) \in Nat /\ (Len(s) = 0 => s = <<>>)
OBVIOUS

Regroups(r, s, t) == (r \o s) \o t = r \o (s \o t)

\* It does not matter how messages are grouped.
LEMMA GroupsJoin == \A r, s, t \in Seq(PubSubMessages) : Regroups(r, s, t)
<1> SUFFICES ASSUME NEW r \in Seq(PubSubMessages), NEW s \in Seq(PubSubMessages), NEW t \in Seq(PubSubMessages)
             PROVE  Regroups(r, s, t)
  OBVIOUS
<1> QED BY DEF Regroups

\* x is s without its first n messages.
IsRest(s, n, x) ==
    /\ x \in Seq(PubSubMessages) /\ Len(x) = Len(s) - n
    /\ \A i \in 1 .. Len(s) - n : x[i] = s[n + i]

\* The first published messages and the others.
LEMMA CutPublished == \A s \in Seq(PubSubMessages) : \A n \in 0 .. Len(s) : IsRest(s, n, Others(s, n))
<1> SUFFICES ASSUME NEW s \in Seq(PubSubMessages), NEW n \in 0 .. Len(s) PROVE IsRest(s, n, Others(s, n))
  OBVIOUS
<1>1. Others(s, n) \in Seq(PubSubMessages) /\ Len(Others(s, n)) = Len(s) - n
  BY DEF Others
<1>2. ASSUME NEW i \in 1 .. Len(s) - n PROVE Others(s, n)[i] = s[n + i]
  BY DEF Others
<1> QED BY <1>1, <1>2 DEF IsRest

\* What send_to_client does to the queue of client d: a first part of its
\* messages goes in, all of them if the sender stays.
LEMMA Sent ==
    ASSUME Types, QueueTypes, NEW A \in SUBSET Messages, NEW open \in SUBSET senders,
           NEW ms \in [Clients -> Seq(A)], SendToClients(open, ms), NEW d \in Clients
    PROVE  \E n \in 0 .. Len(ms[d]) :
              /\ queue'[d] = queue[d] \o Firsts(ms[d], n) /\ queue'[d] \in Seq(Messages)
              /\ Len(queue'[d]) <= Capacity
              /\ d \in senders' => d \in senders /\ n = Len(ms[d])
              /\ d \notin senders => n = 0
<1> DEFINE q == queue[d]
           m == ms[d]
<1>1. q \in Seq(Messages) /\ m \in Seq(A) /\ Len(q) \in Nat /\ Len(m) \in Nat /\ Len(q) <= Capacity /\ Capacity \in Nat
  BY DEF QueueTypes, Capacity
<1>2. \A n \in 0 .. Len(m) : Firsts(m, n) \in Seq(Messages) /\ Len(Firsts(m, n)) = n
  <2>1. ASSUME NEW n \in 0 .. Len(m) PROVE Firsts(m, n) \in Seq(A) /\ Len(Firsts(m, n)) = n
    BY <1>1, CutInTwo
  <2>2. \A s \in Seq(A) : s \in Seq(Messages)
    OBVIOUS
  <2> QED BY <2>1, <2>2
<1>3. CASE d \in open
  <2> DEFINE n == IF Room(d) < Len(m) THEN Room(d) ELSE Len(m)
  <2>1. n \in 0 .. Len(m) /\ Len(q) + n <= Capacity /\ (Len(m) <= Room(d) => n = Len(m))
    <3>1. Room(d) = Capacity - Len(q)
      BY DEF Room
    <3> HIDE DEF q, m
    <3> QED BY <1>1, <3>1
  <2>2. queue'[d] = q \o SubSeq(m, 1, n) /\ (d \in senders' => Len(m) <= Room(d))
    BY <1>3 DEF SendToClients
  <2> HIDE DEF n, q, m
  <2>3. queue'[d] = q \o Firsts(m, n)
    BY <2>2 DEF Firsts
  <2>4. queue'[d] \in Seq(Messages) /\ Len(queue'[d]) = Len(q) + n
    <3>1. PICK f \in Seq(Messages) : f = Firsts(m, n) /\ Len(f) = n
      BY <1>2, <2>1
    <3>2. q \o f \in Seq(Messages) /\ Len(q \o f) = Len(q) + Len(f)
      BY <1>1, SeqFacts
    <3> QED BY <2>3, <3>1, <3>2
  <2>5. d \in senders
    BY <1>3
  <2> QED BY <2>1, <2>2, <2>3, <2>4, <2>5 DEF q, m
<1>4. CASE d \notin open
  <2>1. queue'[d] = q /\ d \notin senders'
    BY <1>4 DEF SendToClients
  <2>2. 0 \in 0 .. Len(m) /\ Firsts(m, 0) = <<>>
    BY <1>1 DEF Firsts
  <2> HIDE DEF q, m
  <2>3. q \o Firsts(m, 0) = q
    BY <1>1, <2>2, SeqFacts
  <2> QED BY <1>1, <2>1, <2>2, <2>3 DEF q, m
<1> QED BY <1>3, <1>4

\* Every step keeps the types of the queues.
LEMMA QueueTypesStep ==
    ASSUME Types, Alive, SubsAgree, QueueTypes, NEW c \in Clients, Step(c)
    PROVE  QueueTypes'
<1>1. \A d \in Clients : IsFiniteSet(subs'[d])
  <2>1. \/ \E s \in Subscriptions : Subscribe(c, s)
        \/ \E ss \in SUBSET Subscriptions : Unsubscribe(c, ss)
        \/ UNCHANGED <<subscribers, subs>>
    <3>1. Subscriptions \in SUBSET Subscriptions
      OBVIOUS
    <3> QED
      BY <3>1 DEF Step, CmdSubscribe, CmdUnsubscribe, CmdPublish, CmdTrackingOn, CmdTrackingOff,
         CmdCaching, CmdRead, FastRead, CmdWrite, CmdMonitor, CmdReset, Preloop, PubSubMsg, MonitorWake,
         FastPost, PostCommand, Finish, PubSubClosed, NetworkRead, Hangup, SessionOnly, registries
  <2>2. ASSUME NEW d \in Clients PROVE (\E s : subs'[d] = subs[d] \union {s}) \/ subs'[d] \subseteq subs[d]
    <3>1. ASSUME NEW s \in Subscriptions, Subscribe(c, s) PROVE subs'[d] = subs[d] \union {s} \/ subs'[d] = subs[d]
      BY <3>1 DEF Subscribe, Types
    <3>2. ASSUME NEW ss \in SUBSET Subscriptions, Unsubscribe(c, ss) PROVE subs'[d] \subseteq subs[d]
      BY <3>2 DEF Unsubscribe, Types
    <3>3. ASSUME UNCHANGED <<subscribers, subs>> PROVE subs'[d] = subs[d]
      BY <3>3
    <3> QED BY <2>1, <3>1, <3>2, <3>3
  <2>3. ASSUME NEW d \in Clients PROVE IsFiniteSet(subs'[d])
    <3>1. IsFiniteSet(subs[d])
      BY DEF QueueTypes
    <3> QED BY <2>2, <3>1, FS_AddElement, FS_Subset
  <2> QED BY <2>3
<1>2. CASE KeepsQueues
  BY <1>1, <1>2 DEF KeepsQueues, QueueTypes
<1>a. ASSUME NEW A \in SUBSET Messages, NEW open \in SUBSET senders, NEW ms \in [Clients -> Seq(A)], SendToClients(open, ms)
      PROVE  queue' \in [Clients -> Seq(Messages)] /\ \A d \in Clients : Len(queue'[d]) <= Capacity
  <2>1. \A d \in Clients : queue'[d] \in Seq(Messages) /\ Len(queue'[d]) <= Capacity
    BY <1>a, Sent
  <2>2. queue' = [d \in Clients |-> queue'[d]]
    BY <1>a DEF SendToClients
  <2> QED BY <2>1, <2>2
<1>3. CASE PushesControl
  <2>1. Control \in SUBSET Messages
    BY KindsDiffer
  <2>2. queue' \in [Clients -> Seq(Messages)] /\ \A d \in Clients : Len(queue'[d]) <= Capacity
    BY <1>3, <1>a, <2>1 DEF PushesControl
  <2> QED BY <1>1, <1>3, <2>2 DEF PushesControl, QueueTypes
<1>4. CASE Publishes
  <2>1. PubSubMessages \in SUBSET Messages /\ senders \in SUBSET senders
    BY KindsDiffer
  <2>2. queue' \in [Clients -> Seq(Messages)] /\ \A d \in Clients : Len(queue'[d]) <= Capacity
    BY <1>4, <1>a, <2>1 DEF Publishes
  <2>3. due' \in [Clients -> Seq(PubSubMessages)]
    <3>1. PICK ms \in [Clients -> Seq(PubSubMessages)] : due' = [d \in Clients |-> due[d] \o ms[d]]
      BY <1>4 DEF Publishes
    <3>2. \A d \in Clients : due[d] \o ms[d] \in Seq(PubSubMessages)
      BY SeqFacts DEF QueueTypes
    <3> QED BY <3>1, <3>2
  <2>4. published' \in Nat
    BY <1>4 DEF Publishes, QueueTypes
  <2> QED BY <1>1, <2>2, <2>3, <2>4 DEF QueueTypes
<1>5. CASE Delivers(c)
  <2> PICK n \in 0 .. Len(queue[c]) :
         /\ queue' = [queue EXCEPT ![c] = Others(@, n)]
         /\ due' = [due EXCEPT ![c] = Others(@, Len(Published(Firsts(queue[c], n))))]
    BY <1>5 DEF Delivers
  <2>1. queue[c] \in Seq(Messages) /\ due[c] \in Seq(PubSubMessages) /\ Len(queue[c]) <= Capacity /\ Capacity \in Nat
    BY DEF QueueTypes, Capacity
  <2>2. Others(queue[c], n) \in Seq(Messages) /\ Len(Others(queue[c], n)) <= Capacity /\ Firsts(queue[c], n) \in Seq(Messages)
    <3>1. /\ Others(queue[c], n) \in Seq(Messages) /\ Len(Others(queue[c], n)) = Len(queue[c]) - n
          /\ Firsts(queue[c], n) \in Seq(Messages)
      <4> DEFINE s == queue[c]
      <4>1. s \in Seq(Messages) /\ n \in 0 .. Len(s)
        BY <2>1
      <4> HIDE DEF s
      <4>2. Others(s, n) \in Seq(Messages) /\ Len(Others(s, n)) = Len(s) - n /\ Firsts(s, n) \in Seq(Messages)
        BY <4>1, CutInTwo
      <4> QED BY <4>2 DEF s
    <3> QED BY <2>1, <3>1
  <2>3. Len(Published(Firsts(queue[c], n))) \in Nat
    BY <2>2, PublishedParts
  <2>4. \A j \in Nat : Others(due[c], j) \in Seq(PubSubMessages)
    BY <2>1 DEF Others
  <2>5. Others(due[c], Len(Published(Firsts(queue[c], n)))) \in Seq(PubSubMessages)
    BY <2>3, <2>4
  <2>6. due' \in [Clients -> Seq(PubSubMessages)]
    BY <2>5 DEF QueueTypes
  <2>7. queue' \in [Clients -> Seq(Messages)] /\ \A d \in Clients : Len(queue'[d]) <= Capacity
    BY <2>2 DEF QueueTypes
  <2> QED BY <1>1, <1>5, <2>6, <2>7 DEF Delivers, QueueTypes
<1> QED BY <1>2, <1>3, <1>4, <1>5, QueueCases

OwesTheRest(q, n, r, d) == Others(d, Len(Published(Firsts(q, n)))) = Published(Others(q, n)) \o r

\* What is taken off the front of the queue is taken off the front of what is due.
LEMMA OwedDelivered ==
    ASSUME NEW q \in Seq(Messages), NEW n \in 0 .. Len(q), NEW r \in Seq(PubSubMessages),
           NEW d, d = Published(q) \o r
    PROVE  OwesTheRest(q, n, r, d)
<1> USE DEF OwesTheRest
<1>1. PICK a \in Seq(Messages) : a = Firsts(q, n)
  BY CutInTwo
<1>2. PICK b \in Seq(Messages) : b = Others(q, n)
  BY CutInTwo
<1>3. a \o b = q
  BY <1>1, <1>2, CutInTwo
<1>4. Published(q) = Published(a) \o Published(b)
  BY <1>3, PublishedParts
<1>5. PICK p \in Seq(PubSubMessages) : p = Published(a)
  BY PublishedParts
<1>6. PICK o \in Seq(PubSubMessages) : o = Published(b)
  BY PublishedParts
<1>7. PICK u \in Seq(PubSubMessages) : u = o \o r
  BY SeqFacts
<1>8. d = p \o u
  <2>1. (p \o o) \o r = p \o (o \o r)
    <3>1. Regroups(p, o, r)
      BY GroupsJoin
    <3> QED BY <3>1 DEF Regroups
  <2> QED BY <1>4, <1>5, <1>6, <1>7, <2>1
<1>9. Others(p \o u, Len(p)) = u
  <2> DEFINE w == p \o u
  <2>1. w \in Seq(PubSubMessages) /\ Len(w) = Len(p) + Len(u) /\ Len(p) \in 0 .. Len(w) /\ Len(p) \in Nat /\ Len(u) \in Nat
    BY SeqFacts
  <2>2. \A i \in 1 .. Len(u) : w[Len(p) + i] = u[i]
    OBVIOUS
  <2> HIDE DEF w
  <2>3. PICK x \in Seq(PubSubMessages) : x = Others(w, Len(p)) /\ Len(x) = Len(w) - Len(p)
           /\ \A i \in 1 .. Len(w) - Len(p) : x[i] = w[Len(p) + i]
    <3>1. IsRest(w, Len(p), Others(w, Len(p)))
      BY <2>1, CutPublished
    <3> QED BY <3>1 DEF IsRest
  <2>4. Len(x) = Len(u) /\ \A i \in 1 .. Len(u) : x[i] = u[i]
    BY <2>1, <2>2, <2>3
  <2>5. x = u
    BY <2>4, SeqEqual
  <2> QED BY <2>3, <2>5 DEF w
<1> QED BY <1>1, <1>2, <1>5, <1>6, <1>7, <1>8, <1>9

\* Every step keeps what is due in order and without a gap.
LEMMA OwedStep ==
    ASSUME Types, Alive, SubsAgree, QueueTypes, QueueTypes', OwedInOrder, NEW c \in Clients, Step(c)
    PROVE  OwedInOrder'
<1> SUFFICES ASSUME NEW d \in Clients, Connected(d)'
             PROVE  \E r \in Seq(PubSubMessages) :
                        due'[d] = Published(queue'[d]) \o r /\ (d \in senders' => r = <<>>)
  BY DEF OwedInOrder, Owed, Published
<1>1. Connected(d)
  BY QueueCases
<1>2. PICK r \in Seq(PubSubMessages) : due[d] = Published(queue[d]) \o r /\ (d \in senders => r = <<>>)
  BY <1>1 DEF OwedInOrder, Owed
<1>3. queue[d] \in Seq(Messages) /\ due[d] \in Seq(PubSubMessages)
  BY DEF QueueTypes
<1>4. PICK p \in Seq(PubSubMessages) : p = Published(queue[d])
  BY <1>3, PublishedParts
<1>5. CASE KeepsQueues
  BY <1>2, <1>5 DEF KeepsQueues
<1>6. CASE PushesControl
  <2> PICK open \in SUBSET senders, ms \in [Clients -> Seq(Control)] : SendToClients(open, ms)
    BY <1>6 DEF PushesControl
  <2>1. Control \in SUBSET Messages
    BY KindsDiffer
  <2>2. PICK n \in 0 .. Len(ms[d]) :
           queue'[d] = queue[d] \o Firsts(ms[d], n) /\ (d \in senders' => d \in senders)
    BY <2>1, Sent
  <2>3. PICK f \in Seq(Control) : f = Firsts(ms[d], n)
    <3>1. ms[d] \in Seq(Control)
      OBVIOUS
    <3> QED BY <3>1, CutInTwo
  <2>4. f \in Seq(Messages)
    BY <2>1, <2>3
  <2>5. Published(f) = <<>>
    BY PublishedParts
  <2>6. Published(queue[d] \o f) = Published(queue[d]) \o Published(f)
    BY <1>3, <2>4, PublishedParts
  <2>7. p \o <<>> = p
    BY SeqFacts
  <2>8. Published(queue'[d]) = Published(queue[d])
    BY <1>4, <2>2, <2>3, <2>5, <2>6, <2>7
  <2>9. due'[d] = due[d]
    BY <1>6 DEF PushesControl
  <2> QED BY <1>2, <2>2, <2>8, <2>9
<1>7. CASE Publishes
  <2> PICK ms \in [Clients -> Seq(PubSubMessages)] :
         SendToClients(senders, ms) /\ due' = [e \in Clients |-> due[e] \o ms[e]]
    BY <1>7 DEF Publishes
  <2>1. PubSubMessages \in SUBSET Messages /\ senders \in SUBSET senders
    BY KindsDiffer
  <2>2. PICK m \in Seq(PubSubMessages) : m = ms[d]
    OBVIOUS
  <2>3. PICK n \in 0 .. Len(m) :
           /\ queue'[d] = queue[d] \o Firsts(m, n)
           /\ d \in senders' => d \in senders /\ n = Len(m)
           /\ d \notin senders => n = 0
    BY <2>1, <2>2, Sent
  <2>4. due'[d] = due[d] \o m
    BY <2>2
  <2>5. CASE d \in senders
    <3>1. PICK f \in Seq(PubSubMessages) : f = Firsts(m, n)
      BY CutInTwo
    <3>2. PICK o \in Seq(PubSubMessages) : o = Others(m, n) /\ (n = Len(m) => o = <<>>)
      <4>1. Others(m, n) \in Seq(PubSubMessages) /\ Len(Others(m, n)) = Len(m) - n
        BY CutInTwo
      <4> QED BY <4>1, SeqFacts
    <3>3. f \o o = m
      BY <3>1, <3>2, CutInTwo
    <3>4. f \in Seq(Messages)
      BY <2>1, <3>1
    <3>5. Published(queue[d] \o f) = p \o Published(f) /\ Published(f) = f
      BY <1>3, <1>4, <3>4, PublishedParts
    <3>6. Published(queue'[d]) = p \o f
      BY <2>3, <3>1, <3>5
    <3>7. due[d] = p
      <4>1. p \o <<>> = p
        BY SeqFacts
      <4> QED BY <1>2, <1>4, <2>5, <4>1
    <3>8. due'[d] = (p \o f) \o o
      <4>1. (p \o f) \o o = p \o (f \o o)
        <5>1. Regroups(p, f, o)
          BY GroupsJoin
        <5> QED BY <5>1 DEF Regroups
      <4> QED BY <2>4, <3>3, <3>7, <4>1
    <3> QED BY <2>3, <3>2, <3>6, <3>8
  <2>6. CASE d \notin senders
    <3>1. Firsts(m, 0) = <<>>
      BY DEF Firsts
    <3>2. queue[d] \o <<>> = queue[d]
      BY <1>3, SeqFacts
    <3>3. queue'[d] = queue[d] /\ d \notin senders'
      BY <2>3, <2>6, <3>1, <3>2
    <3>4. PICK w \in Seq(PubSubMessages) : w = r \o m
      BY SeqFacts
    <3>5. due'[d] = p \o w
      <4>1. (p \o r) \o m = p \o (r \o m)
        <5>1. Regroups(p, r, m)
          BY GroupsJoin
        <5> QED BY <5>1 DEF Regroups
      <4> QED BY <1>2, <1>4, <2>4, <3>4, <4>1
    <3> QED BY <1>4, <3>3, <3>5
  <2> QED BY <2>5, <2>6
<1>8. CASE Delivers(c)
  <2> PICK n \in 0 .. Len(queue[c]) :
         /\ queue' = [queue EXCEPT ![c] = Others(@, n)]
         /\ due' = [due EXCEPT ![c] = Others(@, Len(Published(Firsts(queue[c], n))))]
    BY <1>8 DEF Delivers
  <2>1. UNCHANGED senders
    BY <1>8 DEF Delivers
  <2>2. CASE d # c
    <3>1. queue'[d] = queue[d] /\ due'[d] = due[d]
      BY <2>2 DEF QueueTypes
    <3> QED BY <1>2, <2>1, <3>1
  <2>3. CASE d = c
    <3>1. queue'[d] = Others(queue[d], n) /\ due'[d] = Others(due[d], Len(Published(Firsts(queue[d], n))))
      BY <2>3 DEF QueueTypes
    <3>2. PICK q \in Seq(Messages) : q = queue[d] /\ n \in 0 .. Len(q)
      BY <1>3, <2>3
    <3>3. Others(due[d], Len(Published(Firsts(q, n)))) = Published(Others(q, n)) \o r
      <4>1. PICK e \in Seq(PubSubMessages) : e = due[d] /\ e = Published(q) \o r
        BY <1>2, <1>3, <3>2
      <4>2. Others(e, Len(Published(Firsts(q, n)))) = Published(Others(q, n)) \o r
        <5>1. OwesTheRest(q, n, r, e)
          BY <3>2, <4>1, OwedDelivered
        <5> QED BY <5>1 DEF OwesTheRest
      <4> QED BY <4>1, <4>2
    <3> QED BY <1>2, <2>1, <3>1, <3>2, <3>3
  <2> QED BY <2>2, <2>3
<1> QED BY <1>5, <1>6, <1>7, <1>8, QueueCases

QueueInv == QueueTypes /\ OwedInOrder

\* Initially the queues are empty and nothing is due.
LEMMA QueueInit == Init => QueueInv
<1> SUFFICES ASSUME Init PROVE QueueInv
  OBVIOUS
<1>1. <<>> \in Seq(Messages) /\ <<>> \in Seq(PubSubMessages) /\ Len(<<>>) = 0 /\ <<>> \o <<>> = <<>>
  BY SeqFacts
<1>2. \A c \in Clients : queue[c] = <<>> /\ due[c] = <<>> /\ subs[c] = {}
  BY DEF Init, NoMessages
<1>3. Published(<<>>) = <<>>
  BY OnlyEmpty DEF Published
<1>4. IsFiniteSet({}) /\ Capacity \in Nat
  BY FS_EmptySet DEF Capacity
<1>5. QueueTypes
  BY <1>1, <1>2, <1>4 DEF Init, NoMessages, QueueTypes
<1>6. OwedInOrder
  BY <1>1, <1>2, <1>3 DEF OwedInOrder, Owed
<1> QED BY <1>5, <1>6 DEF QueueInv

\* Every step keeps the queues.
LEMMA QueueStep == RegistryInv /\ QueueInv /\ [Next]_vars => QueueInv'
<1> SUFFICES ASSUME RegistryInv, QueueInv, [Next]_vars PROVE QueueInv'
  OBVIOUS
<1>1. CASE UNCHANGED vars
  <2>1. UNCHANGED <<queue, due, published, subs, senders, snapshot>>
    BY <1>1 DEF vars, registries
  <2>2. QueueTypes'
    BY <2>1 DEF QueueInv, QueueTypes
  <2>3. OwedInOrder'
    BY <2>1 DEF QueueInv, OwedInOrder, Owed, Connected
  <2> QED BY <2>2, <2>3 DEF QueueInv
<1>2. ASSUME NEW c \in Clients, Step(c) PROVE QueueInv'
  <2>1. QueueTypes'
    BY <1>2, QueueTypesStep DEF RegistryInv, QueueInv
  <2> QED BY <1>2, <2>1, OwedStep DEF RegistryInv, QueueInv
<1> QED BY <1>1, <1>2, NextIsStep

\* send_to_client and the sessions that drain their queues: each subscriber gets what was published to
\* it in the order of publication and without a gap, for every number of clients and every queue limit.
THEOREM MessagesWithoutGap == Spec => []NoGap
<1>1. QueueInv => NoGap
  <2> SUFFICES ASSUME QueueInv, NEW c \in Clients, Connected(c)
               PROVE  LET queued == Published(queue[c]) IN
                      queued = SubSeq(due[c], 1, Len(queued)) /\ (c \in senders => queued = due[c])
    BY DEF NoGap
  <2>1. PICK p \in Seq(PubSubMessages) : p = Published(queue[c])
    BY PublishedParts DEF QueueInv, QueueTypes
  <2>2. PICK r \in Seq(PubSubMessages) : due[c] = p \o r /\ (c \in senders => r = <<>>)
    BY <2>1 DEF QueueInv, OwedInOrder, Owed
  <2>3. SubSeq(p \o r, 1, Len(p)) = p
    <3> DEFINE w == p \o r
    <3>1. w \in Seq(PubSubMessages) /\ Len(p) \in 0 .. Len(w) /\ \A i \in 1 .. Len(p) : w[i] = p[i]
      OBVIOUS
    <3> HIDE DEF w
    <3>2. PICK x \in Seq(PubSubMessages) : x = Firsts(w, Len(p)) /\ Len(x) = Len(p)
             /\ \A i \in 1 .. Len(p) : x[i] = w[i]
      BY <3>1, CutInTwo
    <3>3. x = p
      <4>1. Len(x) = Len(p) /\ \A i \in 1 .. Len(p) : x[i] = p[i]
        BY <3>1, <3>2
      <4> QED BY <4>1, SeqEqual
    <3>4. SubSeq(w, 1, Len(p)) = p
      BY <3>2, <3>3 DEF Firsts
    <3> QED BY <3>4, Zenon DEF w
  <2>4. p \o <<>> = p
    BY SeqFacts
  <2> QED BY <2>1, <2>2, <2>3, <2>4
<1> QED BY <1>1, QueueInit, QueueStep, RegistryInvariance, PTL DEF Spec

-----------------------------------------------------------------------------
(***************************************************************************)
(* The caches behind the connections.                                      *)
(***************************************************************************)
\* The server remembers that client c read key k, alone or by its mode.
Watched(c, k) == \E w \in keyWatchers[k] : w.tracker = c
Registered(c, k) == Watched(c, k) \/ \E b \in broadcasts : b.tracker = c /\ Covers(b, k)

\* A lock-free read of k that has taken its value and is going to register it.
Pending(c, k) == pc[c] = "fast" /\ reading[c] = k /\ RecordsReads(c)

\* Coherent and what keeps it so: a value that is not overwritten yet is
\* registered, or about to be.
CacheSound(c, k) ==
    /\ cached[c][k] = "fresh" => Registered(c, k) \/ Pending(c, k)
    /\ cached[c][k] = "stale" => Told(c, k) \/ Pending(c, k)
    /\ cached[c][k] = "raced" => Told(c, k) \/ Watched(c, k)

CachesSound == \A c \in Clients, k \in Keys : CacheSound(c, k)

\* The queue of connection t holds an invalidation of k, or has lost its sender.
HasWord(t, k) == k \in KeysIn(queue[t]) \/ t \notin senders

\* An invalidation of one message or of another.
LEMMA KeysInParts ==
    ASSUME NEW s \in Seq(Messages), NEW t \in Seq(Messages)
    PROVE  KeysIn(s \o t) = KeysIn(s) \union KeysIn(t)
<1> DEFINE u == s \o t
           Names(q, i, k) == q[i].kind = "invalidate" /\ k \in q[i].keys
<1>1. \A q \in Seq(Messages) : \A k : k \in KeysIn(q) <=> \E i \in 1 .. Len(q) : Names(q, i, k)
  BY DEF KeysIn
<1>2. u \in Seq(Messages) /\ Len(u) = Len(s) + Len(t) /\ Len(s) \in Nat /\ Len(t) \in Nat
  BY SeqFacts
<1>3. \A i \in 1 .. Len(s) : u[i] = s[i]
  OBVIOUS
<1>4. \A i \in 1 .. Len(t) : u[Len(s) + i] = t[i]
  OBVIOUS
<1> HIDE DEF u
<1>5. ASSUME NEW k, k \in KeysIn(u) PROVE k \in KeysIn(s) \union KeysIn(t)
  <2>1. PICK i \in 1 .. Len(u) : Names(u, i, k)
    BY <1>1, <1>2, <1>5
  <2>2. CASE i <= Len(s)
    <3>1. i \in 1 .. Len(s) /\ Names(s, i, k)
      BY <1>2, <1>3, <2>1, <2>2
    <3> QED BY <1>1, <3>1
  <2>3. CASE i > Len(s)
    <3>0. i - Len(s) \in 1 .. Len(t) /\ i = Len(s) + (i - Len(s))
      BY <1>2, <2>3
    <3>1. PICK j \in 1 .. Len(t) : i = Len(s) + j
      BY <3>0
    <3>2. Names(t, j, k)
      BY <1>4, <2>1, <3>1
    <3> QED BY <1>1, <3>2
  <2> QED BY <1>2, <2>2, <2>3
<1>6. ASSUME NEW k, k \in KeysIn(s) PROVE k \in KeysIn(u)
  <2>1. PICK i \in 1 .. Len(s) : Names(s, i, k)
    BY <1>1, <1>6
  <2>2. i \in 1 .. Len(u) /\ Names(u, i, k)
    BY <1>2, <1>3, <2>1
  <2> QED BY <1>1, <1>2, <2>2
<1>7. ASSUME NEW k, k \in KeysIn(t) PROVE k \in KeysIn(u)
  <2>1. PICK j \in 1 .. Len(t) : Names(t, j, k)
    BY <1>1, <1>7
  <2>2. PICK i \in 1 .. Len(u) : i = Len(s) + j
    BY <1>2
  <2>3. Names(u, i, k)
    BY <1>4, <2>1, <2>2
  <2> QED BY <1>1, <1>2, <2>3
<1> QED BY <1>5, <1>6, <1>7 DEF u

\* The keys named in a queue are named in its first messages or in the others.
LEMMA KeysInCut ==
    ASSUME NEW q \in Seq(Messages), NEW n \in 0 .. Len(q)
    PROVE  KeysIn(q) = KeysIn(Firsts(q, n)) \union KeysIn(Others(q, n))
<1>1. PICK a \in Seq(Messages) : a = Firsts(q, n)
  BY CutInTwo
<1>2. PICK b \in Seq(Messages) : b = Others(q, n)
  BY CutInTwo
<1>3. a \o b = q
  BY <1>1, <1>2, CutInTwo
<1> QED BY <1>1, <1>2, <1>3, KeysInParts

\* All the messages of a queue are its first messages.
LEMMA FirstsAll == \A s \in Seq(Messages) : Firsts(s, Len(s)) = s
<1> SUFFICES ASSUME NEW s \in Seq(Messages) PROVE Firsts(s, Len(s)) = s
  OBVIOUS
<1>1. Len(s) \in Nat
  OBVIOUS
<1>2. PICK n \in 0 .. Len(s) : n = Len(s)
  BY <1>1
<1>3. PICK x \in Seq(Messages) : x = Firsts(s, n) /\ Len(x) = n /\ \A i \in 1 .. n : x[i] = s[i]
  BY CutInTwo
<1>4. x = s
  BY <1>2, <1>3, SeqEqual
<1> QED BY <1>2, <1>3, <1>4

\* What one invalidation names.
LEMMA InvalidateNames == ASSUME NEW K PROVE KeysIn(<<Invalidate(K)>>) = K
BY DEF KeysIn, Invalidate

\* A word stays in the queue of its connection until the application gets it.
LEMMA WordKept ==
    ASSUME Types, Alive, SubsAgree, QueueTypes, NEW c \in Clients, Step(c),
           NEW t \in Clients, NEW k \in Keys, HasWord(t, k)
    PROVE  HasWord(t, k)' \/ (t = c /\ \A d \in ServedBy(c) : cached'[d][k] = "none")
<1>0. queue[t] \in Seq(Messages)
  BY DEF QueueTypes
<1>1. CASE KeepsQueues
  BY <1>1 DEF KeepsQueues, HasWord
<1>a. ASSUME NEW A \in SUBSET Messages, NEW open \in SUBSET senders, NEW ms \in [Clients -> Seq(A)],
             SendToClients(open, ms)
      PROVE  HasWord(t, k)'
  <2>1. PICK n \in 0 .. Len(ms[t]) : queue'[t] = queue[t] \o Firsts(ms[t], n) /\ (t \in senders' => t \in senders)
    BY <1>a, Sent
  <2>2. ms[t] \in Seq(A)
    BY <1>a
  <2>3. Firsts(ms[t], n) \in Seq(A)
    BY <2>2, CutInTwo
  <2>4. Firsts(ms[t], n) \in Seq(Messages)
    BY <1>a, <2>3
  <2>5. KeysIn(queue[t]) \subseteq KeysIn(queue[t] \o Firsts(ms[t], n))
    BY <1>0, <2>4, KeysInParts
  <2> QED BY <2>1, <2>5 DEF HasWord
<1>2. CASE PushesControl
  <2>1. Control \in SUBSET Messages
    BY KindsDiffer
  <2> QED BY <1>2, <1>a, <2>1 DEF PushesControl
<1>3. CASE Publishes
  <2>1. PubSubMessages \in SUBSET Messages /\ senders \in SUBSET senders
    BY KindsDiffer
  <2> QED BY <1>3, <1>a, <2>1 DEF Publishes
<1>4. CASE Delivers(c)
  <2> PICK n \in 0 .. Len(queue[c]) :
         /\ queue' = [queue EXCEPT ![c] = Others(@, n)]
         /\ cached' = [d \in Clients |-> [x \in Keys |-> IF d \in ServedBy(c) /\ x \in KeysIn(Firsts(queue[c], n))
                                                         THEN "none" ELSE cached[d][x]]]
    BY <1>4 DEF Delivers
  <2>1. UNCHANGED senders
    BY <1>4 DEF Delivers
  <2>2. CASE t # c
    <3>1. queue'[t] = queue[t]
      BY <2>2 DEF QueueTypes
    <3> QED BY <2>1, <3>1 DEF HasWord
  <2>3. CASE t = c
    <3>1. queue'[t] = Others(queue[t], n)
      BY <2>3 DEF QueueTypes
    <3>2. PICK q \in Seq(Messages) : q = queue[t] /\ n \in 0 .. Len(q)
      BY <1>0, <2>3
    <3>3. KeysIn(q) = KeysIn(Firsts(q, n)) \union KeysIn(Others(q, n))
      BY <3>2, KeysInCut
    <3>4. k \in KeysIn(Firsts(q, n)) => \A d \in ServedBy(c) : cached'[d][k] = "none"
      BY <2>3, <3>2 DEF ServedBy
    <3>5. k \in KeysIn(Others(q, n)) => k \in KeysIn(queue'[t])
      BY <3>1, <3>2
    <3> QED BY <2>1, <2>3, <3>2, <3>3, <3>4, <3>5 DEF HasWord
  <2> QED BY <2>2, <2>3
<1> QED BY <1>1, <1>2, <1>3, <1>4, QueueCases

(***************************************************************************)
(* What a step of connection c leaves to the others.                       *)
(***************************************************************************)
\* Only its own session changes where a connection is, what it reads and how it
\* tracks, and between the two steps of a lock-free read it does nothing else.
LEMMA OwnSession ==
    ASSUME Types, NEW c \in Clients, Step(c)
    PROVE  /\ \A d \in Clients \ {c} : mode'[d] = mode[d] /\ pc'[d] = pc[d] /\ reading'[d] = reading[d]
           /\ pc[c] = "fast" => FastPost(c)
<1> USE DEF SessionOnly, Goto, Runs, FinishTracking, Types
<1>1. CASE \E s \in Subscriptions : CmdSubscribe(c, s)
  BY <1>1 DEF CmdSubscribe
<1>2. CASE \E ss \in SUBSET Subscriptions : CmdUnsubscribe(c, ss)
  BY <1>2 DEF CmdUnsubscribe
<1>3. CASE \E ch \in Channels \union ShardChannels : CmdPublish(c, ch)
  BY <1>3 DEF CmdPublish
<1>4. CASE \E m \in Modes : CmdTrackingOn(c, m)
  BY <1>4 DEF CmdTrackingOn
<1>5. CASE CmdTrackingOff(c)
  BY <1>5 DEF CmdTrackingOff
<1>6. CASE \E enabled \in BOOLEAN : CmdCaching(c, enabled)
  BY <1>6 DEF CmdCaching
<1>7. CASE \E k \in Keys : CmdRead(c, k)
  BY <1>7 DEF CmdRead
<1>8. CASE \E k \in Keys : FastRead(c, k)
  BY <1>8 DEF FastRead
<1>9. CASE \E keys \in SUBSET Keys : CmdWrite(c, keys)
  BY <1>9 DEF CmdWrite
<1>10. CASE CmdMonitor(c)
  BY <1>10 DEF CmdMonitor
<1>11. CASE CmdReset(c)
  BY <1>11 DEF CmdReset
<1>12. CASE Preloop(c)
  BY <1>12 DEF Preloop
<1>13. CASE PubSubMsg(c)
  BY <1>13 DEF PubSubMsg
<1>14. CASE MonitorWake(c)
  BY <1>14 DEF MonitorWake
<1>15. CASE FastPost(c)
  BY <1>15 DEF FastPost
<1>16. CASE PostCommand(c)
  BY <1>16 DEF PostCommand
<1>17. CASE Finish(c)
  BY <1>17 DEF Finish
<1>18. CASE PubSubClosed(c)
  BY <1>18 DEF PubSubClosed
<1>19. CASE NetworkRead(c)
  BY <1>19 DEF NetworkRead
<1>20. CASE Hangup(c)
  BY <1>20 DEF Hangup
<1> QED BY <1>1, <1>2, <1>3, <1>4, <1>5, <1>6, <1>7, <1>8, <1>9, <1>10, <1>11, <1>12, <1>13,
           <1>14, <1>15, <1>16, <1>17, <1>18, <1>19, <1>20 DEF Step

\* A connection that ends, or is configured anew, leaves no cache behind it
\* that depends on it.
LEMMA PathsKept ==
    ASSUME Types, Alive, NEW c \in Clients, Step(c), NEW k \in Keys
    PROVE  /\ mode'[c].redirect = mode[c].redirect \/ cached'[c][k] = "none"
           /\ \A t \in Clients : Connected(t) =>
                 (Connected(t)' \/ (t = c /\ \A d \in ServedBy(c) : cached'[d][k] = "none"))
<1> USE DEF SessionOnly, Goto, Runs, Types, Connected
<1>0. mode[c] \in TrackingModes
  OBVIOUS
<1>a. ASSUME FinishTracking(c) PROVE mode'[c].redirect = mode[c].redirect
  BY <1>0, <1>a, FinishedType DEF FinishTracking
<1>1. CASE \E s \in Subscriptions : CmdSubscribe(c, s)
  BY <1>1, <1>a DEF CmdSubscribe
<1>2. CASE \E ss \in SUBSET Subscriptions : CmdUnsubscribe(c, ss)
  BY <1>2, <1>a DEF CmdUnsubscribe
<1>3. CASE \E ch \in Channels \union ShardChannels : CmdPublish(c, ch)
  BY <1>3, <1>a DEF CmdPublish
<1>4. CASE \E m \in Modes : CmdTrackingOn(c, m)
  BY <1>4, <1>a DEF CmdTrackingOn, EmptyCache
<1>5. CASE CmdTrackingOff(c)
  BY <1>5 DEF CmdTrackingOff, EmptyCache
<1>6. CASE \E enabled \in BOOLEAN : CmdCaching(c, enabled)
  BY <1>0, <1>6 DEF CmdCaching, TrackingModes
<1>7. CASE \E x \in Keys : CmdRead(c, x)
  BY <1>7, <1>a DEF CmdRead
<1>8. CASE \E x \in Keys : FastRead(c, x)
  BY <1>8 DEF FastRead
<1>9. CASE \E keys \in SUBSET Keys : CmdWrite(c, keys)
  BY <1>9, <1>a DEF CmdWrite
<1>10. CASE CmdMonitor(c)
  BY <1>10, <1>a DEF CmdMonitor
<1>11. CASE CmdReset(c)
  BY <1>11 DEF CmdReset, EmptyCache
<1>12. CASE Preloop(c)
  BY <1>12 DEF Preloop
<1>13. CASE PubSubMsg(c)
  BY <1>13 DEF PubSubMsg
<1>14. CASE MonitorWake(c)
  BY <1>14 DEF MonitorWake
<1>15. CASE FastPost(c)
  BY <1>15, <1>a DEF FastPost
<1>16. CASE PostCommand(c)
  BY <1>16 DEF PostCommand
<1>17. CASE Finish(c)
  BY <1>17 DEF Finish, EmptyCache, ServedBy
<1>18. CASE PubSubClosed(c)
  BY <1>18 DEF PubSubClosed
<1>19. CASE NetworkRead(c)
  BY <1>19 DEF NetworkRead
<1>20. CASE Hangup(c)
  BY <1>20 DEF Hangup
<1> QED BY <1>1, <1>2, <1>3, <1>4, <1>5, <1>6, <1>7, <1>8, <1>9, <1>10, <1>11, <1>12, <1>13,
           <1>14, <1>15, <1>16, <1>17, <1>18, <1>19, <1>20 DEF Step

\* Once told, an application stays told until it drops its copy.
LEMMA ToldStays ==
    ASSUME Types, Alive, SubsAgree, QueueTypes, NEW c \in Clients, Step(c),
           NEW d \in Clients, NEW k \in Keys, Told(d, k)
    PROVE  Told(d, k)' \/ cached'[d][k] = "none"
<1> SUFFICES ASSUME cached'[d][k] # "none" PROVE Told(d, k)'
  OBVIOUS
<1>1. PICK t \in {d, mode[d].redirect} \ {0} : Connected(t) /\ HasWord(t, k)
  BY DEF Told, HasWord
<1>2. t \in Clients
  <2>1. mode[d].redirect \in Clients \union {0}
    BY DEF Types, TrackingModes
  <2> QED BY <2>1
<1>3. mode'[d].redirect = mode[d].redirect
  BY OwnSession, PathsKept
<1>4. d \in ServedBy(t)
  BY DEF ServedBy
<1>5. Connected(t)'
  BY <1>1, <1>2, <1>4, PathsKept
<1>6. HasWord(t, k)'
  BY <1>1, <1>2, <1>4, WordKept
<1>7. k \in KeysIn(queue'[t]) \/ t \notin senders'
  BY <1>6 DEF HasWord
<1> QED BY <1>1, <1>3, <1>5, <1>7 DEF Told

\* What is registered of a client's reads stays registered.
KeepsRegistrations(d, k) ==
    (Watched(d, k) => Watched(d, k)') /\ (Registered(d, k) => Registered(d, k)')

\* Nothing is lost when the registries are left alone, when a key is added, and
\* for the others when one client's entries go.
LEMMA RegistrationsKept ==
    ASSUME Types, NEW c \in Clients, NEW d \in Clients, NEW k \in Keys,
           \/ UNCHANGED <<keyWatchers, broadcasts>>
           \/ UNCHANGED broadcasts /\ \E x \in Keys : TrackKey(c, x)
           \/ d # c /\ ClearTracker(c) /\ \A b \in broadcasts : b.tracker # c => b \in broadcasts'
           \/ d # c /\ keyWatchers' = [x \in Keys |-> Retargeted(keyWatchers[x], c)]
                    /\ broadcasts' = Retargeted(broadcasts, c)
    PROVE  KeepsRegistrations(d, k)
<1>1. CASE UNCHANGED <<keyWatchers, broadcasts>>
  BY <1>1 DEF KeepsRegistrations, Watched, Registered
<1>2. CASE UNCHANGED broadcasts /\ \E x \in Keys : TrackKey(c, x)
  <2>1. PICK x \in Keys : TrackKey(c, x)
    BY <1>2
  <2>2. Watched(d, k) => Watched(d, k)'
    <3> SUFFICES ASSUME NEW w \in keyWatchers[k], w.tracker = d PROVE \E v \in keyWatchers'[k] : v.tracker = d
      BY DEF Watched
    <3>1. CASE ~RecordsReads(c) \/ k # x \/ d # c
      <4>1. w \in keyWatchers'[k]
        BY <2>1, <3>1 DEF TrackKey, Types
      <4> QED BY <4>1
    <3>2. CASE RecordsReads(c) /\ k = x /\ d = c
      <4> DEFINE new == [tracker |-> c, target |-> TargetOf(c), noLoop |-> mode[c].noLoop]
      <4>1. new \in keyWatchers'[k]
        BY <2>1, <3>2 DEF TrackKey, Types
      <4>2. new.tracker = d
        BY <3>2
      <4> QED BY <4>1, <4>2
    <3> QED BY <3>1, <3>2
  <2> QED BY <1>2, <2>2 DEF KeepsRegistrations, Registered
<1>3. CASE d # c /\ ClearTracker(c) /\ \A b \in broadcasts : b.tracker # c => b \in broadcasts'
  BY <1>3 DEF KeepsRegistrations, Watched, Registered, ClearTracker
<1>4. CASE d # c /\ keyWatchers' = [x \in Keys |-> Retargeted(keyWatchers[x], c)]
                 /\ broadcasts' = Retargeted(broadcasts, c)
  <2>1. keyWatchers[k] \in SUBSET KeyWatchers /\ broadcasts \in SUBSET BroadcastWatchers
    BY DEF Types
  <2>2. keyWatchers'[k] = Retargeted(keyWatchers[k], c)
    BY <1>4
  <2>3. Watched(d, k) => Watched(d, k)'
    BY <1>4, <2>1, <2>2, RetargetedKeyWatchers DEF Watched
  <2>4. ASSUME NEW b \in broadcasts, b.tracker = d, Covers(b, k)
        PROVE  \E v \in broadcasts' : v.tracker = d /\ Covers(v, k)
    BY <1>4, <2>1, <2>4, RetargetedBroadcasts DEF Covers
  <2> QED BY <2>3, <2>4 DEF KeepsRegistrations, Registered
<1> QED BY <1>1, <1>2, <1>3, <1>4

\* The step leaves a copy, its registration and the read under way alone.
Undisturbed(d, k) ==
    /\ cached'[d][k] = cached[d][k]
    /\ KeepsRegistrations(d, k)
    /\ Pending(d, k) => Pending(d, k)'

\* A copy that is dropped or left alone stays sound.
LEMMA CopyStays ==
    ASSUME Types, Alive, SubsAgree, QueueTypes, NEW c \in Clients, Step(c),
           NEW d \in Clients, NEW k \in Keys, CacheSound(d, k),
           cached'[d][k] = "none" \/ Undisturbed(d, k)
    PROVE  CacheSound(d, k)'
<1>1. CASE cached'[d][k] = "none"
  BY <1>1 DEF CacheSound
<1>2. CASE cached'[d][k] # "none"
  <2>1. Told(d, k) => Told(d, k)'
    BY <1>2, ToldStays
  <2>2. Undisturbed(d, k)
    BY <1>2
  <2> QED BY <2>1, <2>2 DEF CacheSound, Undisturbed, KeepsRegistrations
<1> QED BY <1>1, <1>2

\* The reads that are under way stay so, except the one the step ends.
LEMMA PendingKept ==
    ASSUME Types, NEW c \in Clients, Step(c), NEW d \in Clients, NEW k \in Keys,
           d # c \/ pc[c] # "fast" \/ k # reading[c] \/ ~RecordsReads(c)
    PROVE  Pending(d, k) => Pending(d, k)'
<1>1. CASE d = c
  BY <1>1 DEF Pending
<1>2. CASE d # c
  <2>1. mode'[d] = mode[d] /\ pc'[d] = pc[d] /\ reading'[d] = reading[d]
    BY <1>2, OwnSession
  <2> QED BY <2>1 DEF Pending, RecordsReads
<1> QED BY <1>1, <1>2

\* Every change of a registered copy of another client is announced: the
\* invalidation is queued for the connection that is to hear of it, or that
\* connection has lost its sender and is going to be closed.
LEMMA WriteTells ==
    ASSUME Types, Alive, TrackingInv, QueueTypes, NEW c \in Clients, NEW keys \in SUBSET Keys, CmdWrite(c, keys),
           NEW d \in Clients \ {c}, NEW k \in keys, Registered(d, k)
    PROVE  Told(d, k)'
<1> DEFINE invalid == InvalidKeys(c, keys)
           ms == [t \in Clients |-> IF invalid[t] = {} THEN <<>> ELSE <<Invalidate(invalid[t])>>]
<1>1. PICK t \in Clients : k \in invalid[t] /\ Connected(t) /\ t \in {d, mode[d].redirect}
  <2>1. CASE Watched(d, k)
    <3>1. PICK w \in keyWatchers[k] : w.tracker = d
      BY <2>1 DEF Watched
    <3>2. WatcherSound(w) /\ w.target \in Clients
      BY <3>1 DEF TrackingInv, WatchersSound, Types, KeyWatchers
    <3>3. Concerns(w, c)
      BY <3>1 DEF Concerns
    <3>4. k \in invalid[w.target]
      BY <3>2, <3>3 DEF InvalidKeys
    <3> QED BY <3>1, <3>2, <3>4 DEF WatcherSound
  <2>2. CASE \E b \in broadcasts : b.tracker = d /\ Covers(b, k)
    <3>1. PICK b \in broadcasts : b.tracker = d /\ Covers(b, k)
      BY <2>2
    <3>2. WatcherSound(b) /\ b.target \in Clients
      BY <3>1 DEF TrackingInv, WatchersSound, Types, BroadcastWatchers
    <3>3. Concerns(b, c)
      BY <3>1 DEF Concerns
    <3>4. k \in invalid[b.target]
      BY <3>1, <3>2, <3>3 DEF InvalidKeys
    <3> QED BY <3>1, <3>2, <3>4 DEF WatcherSound
  <2> QED BY <2>1, <2>2 DEF Registered
<1>2. SendToClients(senders, ms) /\ UNCHANGED snapshot
  BY DEF CmdWrite
<1>3. \A x \in Clients : invalid[x] \in SUBSET Keys
  BY DEF InvalidKeys
<1> HIDE DEF invalid
<1>4. ms[t] = <<Invalidate(invalid[t])>> /\ Len(ms[t]) = 1
  BY <1>1
<1>5. ASSUME t \in senders, Len(ms[t]) <= Room(t) PROVE k \in KeysIn(queue'[t])
  <2> DEFINE m == <<Invalidate(invalid[t])>>
  <2>1. m \in Seq(Messages)
    <3>1. Invalidate(invalid[t]) \in Messages
      BY <1>3 DEF Invalidate, Messages, Control
    <3> QED BY <3>1
  <2>2. queue'[t] = queue[t] \o SubSeq(ms[t], 1, IF Room(t) < Len(ms[t]) THEN Room(t) ELSE Len(ms[t]))
    BY <1>2, <1>5 DEF SendToClients
  <2>3. Room(t) \in Int
    BY DEF Room, QueueTypes, Capacity
  <2>4. (IF Room(t) < Len(ms[t]) THEN Room(t) ELSE Len(ms[t])) = 1
    BY <1>4, <1>5, <2>3
  <2>5. SubSeq(m, 1, 1) = m
    <3>1. Len(m) = 1
      OBVIOUS
    <3> HIDE DEF m
    <3>2. Firsts(m, Len(m)) = m
      BY <2>1, FirstsAll
    <3> QED BY <3>1, <3>2 DEF Firsts
  <2>6. queue'[t] = queue[t] \o m
    BY <1>4, <2>2, <2>4, <2>5
  <2>7. queue[t] \in Seq(Messages)
    BY DEF QueueTypes
  <2>8. KeysIn(m) = invalid[t]
    BY InvalidateNames
  <2> HIDE DEF m
  <2>9. k \in KeysIn(queue'[t])
    BY <1>1, <2>1, <2>6, <2>7, <2>8, KeysInParts
  <2> QED BY <2>9
<1>6. ASSUME ~(t \in senders /\ Len(ms[t]) <= Room(t)) PROVE t \notin senders'
  BY <1>2, <1>6 DEF SendToClients
<1>7. k \in KeysIn(queue'[t]) \/ t \notin senders'
  BY <1>5, <1>6
<1>8. mode'[d] = mode[d]
  BY DEF CmdWrite, FinishTracking, Types
<1>9. Connected(t)' /\ t # 0
  BY <1>1, <1>2, ZeroNoClient DEF Connected
<1> QED BY <1>1, <1>7, <1>8, <1>9 DEF Told

\* Every step keeps the caches sound.
LEMMA CachesStep ==
    ASSUME Types, Alive, TrackingInv, SubsAgree, QueueTypes, CachesSound, NEW c \in Clients, Step(c)
    PROVE  CachesSound'
<1> SUFFICES ASSUME NEW d \in Clients, NEW k \in Keys PROVE CacheSound(d, k)'
  BY DEF CachesSound
<1>0. CacheSound(d, k)
  BY DEF CachesSound
<1>a. ASSUME cached'[d][k] = "none" PROVE CacheSound(d, k)'
  BY <1>a DEF CacheSound
\* The copy and the registrations are left alone, and so is the read under way.
<1>b. ASSUME cached'[d][k] = cached[d][k], KeepsRegistrations(d, k),
             d # c \/ pc[c] # "fast" \/ k # reading[c] \/ ~RecordsReads(c)
      PROVE  CacheSound(d, k)'
  <2>1. Undisturbed(d, k)
    BY <1>b, PendingKept DEF Undisturbed
  <2> QED BY <1>0, <2>1, CopyStays
<1>c. ASSUME UNCHANGED <<keyWatchers, broadcasts>> PROVE KeepsRegistrations(d, k)
  BY <1>c, RegistrationsKept
\* The steps that touch neither the cache nor the registrations.
<1>d. ASSUME UNCHANGED <<keyWatchers, broadcasts, cached>>, pc[c] # "fast" PROVE CacheSound(d, k)'
  BY <1>b, <1>c, <1>d
\* The steps that deliver messages.
<1>e. ASSUME NEW n, Deliver(c, n), UNCHANGED <<keyWatchers, broadcasts>>, pc[c] # "fast" PROVE CacheSound(d, k)'
  <2>1. cached'[d][k] = "none" \/ cached'[d][k] = cached[d][k]
    BY <1>e DEF Deliver
  <2> QED BY <1>a, <1>b, <1>c, <1>e, <2>1
\* A connected client that tracks in broadcast mode is registered.
<1>f. ASSUME Connected(c), mode[c].bcast, Covers(mode[c], k) PROVE Registered(c, k)
  <2>1. PICK b \in broadcasts : b.tracker = c /\ b.prefix = mode[c].prefix
    BY <1>f DEF TrackingInv, BroadcastsListed
  <2> QED BY <1>f, <2>1 DEF Registered, Covers
\* track_key registers the key.
<1>g. ASSUME TrackKey(c, k), RecordsReads(c) PROVE Watched(c, k)'
  <2> DEFINE new == [tracker |-> c, target |-> TargetOf(c), noLoop |-> mode[c].noLoop]
  <2>1. new \in keyWatchers'[k]
    BY <1>g DEF TrackKey, Types
  <2>2. new.tracker = c
    OBVIOUS
  <2> QED BY <2>1, <2>2 DEF Watched
<1>h. pc[c] = "run" => Connected(c)
  BY DEF Alive, Connected
<1> USE DEF registries, SessionOnly, Goto, Runs
<1>1. CASE \E s \in Subscriptions : CmdSubscribe(c, s)
  BY <1>1, <1>d DEF CmdSubscribe
<1>2. CASE \E ss \in SUBSET Subscriptions : CmdUnsubscribe(c, ss)
  BY <1>2, <1>d DEF CmdUnsubscribe
<1>3. CASE \E ch \in Channels \union ShardChannels : CmdPublish(c, ch)
  BY <1>3, <1>d DEF CmdPublish
<1>4. CASE \E m \in Modes : CmdTrackingOn(c, m)
  <2> PICK m \in Modes : CmdTrackingOn(c, m)
    BY <1>4
  <2>1. CASE m.redirect \notin Targets(c)
    BY <1>d, <2>1 DEF CmdTrackingOn
  <2>2. CASE m.redirect \in Targets(c)
    <3>1. ClearTracker(c) /\ cached' = EmptyCache({c}) /\ \A b \in broadcasts : b.tracker # c => b \in broadcasts'
      BY <2>2 DEF CmdTrackingOn
    <3>2. CASE d = c
      <4>1. cached'[d][k] = "none"
        BY <3>1, <3>2 DEF EmptyCache
      <4> QED BY <1>a, <4>1
    <3>3. CASE d # c
      <4>1. KeepsRegistrations(d, k)
        BY <3>1, <3>3, RegistrationsKept
      <4>2. cached'[d][k] = cached[d][k]
        BY <3>1, <3>3 DEF EmptyCache
      <4> QED BY <1>b, <3>3, <4>1, <4>2
    <3> QED BY <3>2, <3>3
  <2> QED BY <2>1, <2>2
<1>5. CASE CmdTrackingOff(c)
  <2>1. ClearTracker(c) /\ cached' = EmptyCache({c}) /\ \A b \in broadcasts : b.tracker # c => b \in broadcasts'
    BY <1>5 DEF CmdTrackingOff
  <2>2. CASE d = c
    <3>1. cached'[d][k] = "none"
      BY <2>1, <2>2 DEF EmptyCache
    <3> QED BY <1>a, <3>1
  <2>3. CASE d # c
    <3>1. KeepsRegistrations(d, k)
      BY <2>1, <2>3, RegistrationsKept
    <3>2. cached'[d][k] = cached[d][k]
      BY <2>1, <2>3 DEF EmptyCache
    <3> QED BY <1>b, <2>3, <3>1, <3>2
  <2> QED BY <2>2, <2>3
<1>6. CASE \E enabled \in BOOLEAN : CmdCaching(c, enabled)
  BY <1>6, <1>d DEF CmdCaching
<1>7. CASE \E x \in Keys : CmdRead(c, x)
  <2> PICK x \in Keys : CmdRead(c, x)
    BY <1>7
  <2>1. /\ TrackKey(c, x) /\ UNCHANGED broadcasts /\ pc[c] = "run"
        /\ cached' = [cached EXCEPT ![c][x] = IF Keeps(c, x) THEN "fresh" ELSE @]
    BY DEF CmdRead
  <2>2. KeepsRegistrations(d, k)
    BY <2>1, RegistrationsKept
  <2>3. CASE d = c /\ k = x /\ Keeps(c, x)
    <3>1. cached'[d][k] = "fresh"
      BY <2>1, <2>3 DEF Types
    <3>2. Registered(c, k)'
      <4>1. CASE RecordsReads(c)
        <5>1. Watched(c, k)'
          BY <1>g, <2>1, <2>3, <4>1
        <5> QED BY <5>1 DEF Registered
      <4>2. CASE ~RecordsReads(c)
        <5>1. Registered(c, k)
          BY <1>f, <1>h, <2>1, <2>3, <4>2 DEF Keeps
        <5> QED BY <2>2, <2>3, <5>1 DEF KeepsRegistrations
      <4> QED BY <4>1, <4>2
    <3> QED BY <2>3, <3>1, <3>2 DEF CacheSound
  <2>4. CASE ~(d = c /\ k = x /\ Keeps(c, x))
    <3>1. cached'[d][k] = cached[d][k]
      BY <2>1, <2>4 DEF Types
    <3> QED BY <1>b, <2>1, <2>2, <3>1
  <2> QED BY <2>3, <2>4
<1>8. CASE \E x \in Keys : FastRead(c, x)
  <2> PICK x \in Keys : FastRead(c, x)
    BY <1>8
  <2>1. /\ UNCHANGED <<keyWatchers, broadcasts, mode>> /\ pc[c] = "run"
        /\ cached' = [cached EXCEPT ![c][x] = IF Keeps(c, x) THEN "fresh" ELSE @]
        /\ pc' = [pc EXCEPT ![c] = "fast"] /\ reading' = [reading EXCEPT ![c] = x]
    BY DEF FastRead
  <2>2. KeepsRegistrations(d, k)
    BY <1>c, <2>1
  <2>3. CASE d = c /\ k = x /\ Keeps(c, x)
    <3>1. cached'[d][k] = "fresh"
      BY <2>1, <2>3 DEF Types
    <3>2. Registered(c, k)' \/ Pending(c, k)'
      <4>1. CASE RecordsReads(c)
        BY <2>1, <2>3, <4>1 DEF Pending, RecordsReads, Types
      <4>2. CASE ~RecordsReads(c)
        <5>1. Registered(c, k)
          BY <1>f, <1>h, <2>1, <2>3, <4>2 DEF Keeps
        <5> QED BY <2>2, <2>3, <5>1 DEF KeepsRegistrations
      <4> QED BY <4>1, <4>2
    <3> QED BY <2>3, <3>1, <3>2 DEF CacheSound
  <2>4. CASE ~(d = c /\ k = x /\ Keeps(c, x))
    <3>1. cached'[d][k] = cached[d][k]
      BY <2>1, <2>4 DEF Types
    <3> QED BY <1>b, <2>1, <2>2, <3>1
  <2> QED BY <2>3, <2>4
<1>9. CASE \E keys \in SUBSET Keys : CmdWrite(c, keys)
  <2> PICK keys \in SUBSET Keys : CmdWrite(c, keys)
    BY <1>9
  <2>1. /\ pc[c] = "run" /\ UNCHANGED broadcasts
        /\ keyWatchers' = [x \in Keys |-> IF x \in keys THEN {} ELSE keyWatchers[x]]
        /\ cached'[d][k] = IF k \notin keys \/ cached[d][k] = "none" THEN cached[d][k]
                           ELSE IF d = c THEN "none" ELSE "stale"
    BY DEF CmdWrite
  <2>2. CASE k \notin keys
    <3>1. keyWatchers'[k] = keyWatchers[k]
      BY <2>1, <2>2
    <3>2. KeepsRegistrations(d, k)
      BY <2>1, <3>1 DEF KeepsRegistrations, Watched, Registered
    <3> QED BY <1>b, <2>1, <2>2, <3>2
  <2>3. CASE k \in keys /\ (d = c \/ cached[d][k] = "none")
    <3>1. cached'[d][k] = "none"
      BY <2>1, <2>3
    <3> QED BY <1>a, <3>1
  <2>4. CASE k \in keys /\ d # c /\ cached[d][k] # "none"
    <3>1. cached'[d][k] = "stale"
      BY <2>1, <2>4
    <3>2. Told(d, k) => Told(d, k)'
      BY <3>1, ToldStays
    <3>3. Pending(d, k) => Pending(d, k)'
      BY <2>4, PendingKept
    <3>4. Registered(d, k) => Told(d, k)'
      BY <2>4, WriteTells
    <3>5. Watched(d, k) => Registered(d, k)
      BY DEF Registered
    <3>6. Told(d, k) \/ Pending(d, k) \/ Registered(d, k)
      <4>1. cached[d][k] \in {"none", "fresh", "stale", "raced"}
        BY DEF Types
      <4> QED BY <1>0, <2>4, <3>5, <4>1 DEF CacheSound
    <3> QED BY <3>1, <3>2, <3>3, <3>4, <3>6 DEF CacheSound
  <2> QED BY <2>2, <2>3, <2>4
<1>10. CASE CmdMonitor(c)
  BY <1>10, <1>d DEF CmdMonitor
<1>i. ASSUME NEW cs, c \in cs, cached' = EmptyCache(cs),
             keyWatchers' = [x \in Keys |-> Retargeted(keyWatchers[x], c)], broadcasts' = Retargeted(broadcasts, c)
      PROVE  CacheSound(d, k)'
  <2>1. CASE d \in cs
    <3>1. cached'[d][k] = "none"
      BY <1>i, <2>1 DEF EmptyCache
    <3> QED BY <1>a, <3>1
  <2>2. CASE d \notin cs
    <3>1. KeepsRegistrations(d, k)
      BY <1>i, <2>2, RegistrationsKept
    <3>2. cached'[d][k] = cached[d][k] /\ d # c
      BY <1>i, <2>2 DEF EmptyCache
    <3> QED BY <1>b, <3>1, <3>2
  <2> QED BY <2>1, <2>2
<1>11. CASE CmdReset(c)
  <2>1. c \in {c} /\ cached' = EmptyCache({c}) /\ TrackingRemoveClient(c, senders)
    BY <1>11 DEF CmdReset
  <2> QED BY <1>i, <2>1 DEF TrackingRemoveClient
<1>12. CASE Preloop(c)
  BY <1>12, <1>e DEF Preloop
<1>13. CASE PubSubMsg(c)
  BY <1>13, <1>e DEF PubSubMsg
<1>14. CASE MonitorWake(c)
  BY <1>14, <1>d DEF MonitorWake
<1>15. CASE FastPost(c)
  <2> DEFINE x == reading[c]
  <2>1. /\ TrackKey(c, x) /\ UNCHANGED broadcasts /\ pc[c] = "fast" /\ x \in Keys
        /\ cached' = [cached EXCEPT ![c][x] = IF @ = "stale" /\ RecordsReads(c) THEN "raced" ELSE @]
    BY <1>15 DEF FastPost, Types
  <2> HIDE DEF x
  <2>2. KeepsRegistrations(d, k)
    BY <2>1, RegistrationsKept
  <2>3. CASE d = c /\ k = x /\ RecordsReads(c)
    <3>1. Watched(d, k)' /\ Registered(d, k)'
      BY <1>g, <2>1, <2>3 DEF Registered
    <3>2. cached'[d][k] # "stale"
      BY <2>1, <2>3 DEF Types
    <3> QED BY <3>1, <3>2 DEF CacheSound
  <2>4. CASE ~(d = c /\ k = x /\ RecordsReads(c))
    <3>1. cached'[d][k] = cached[d][k]
      BY <2>1, <2>4 DEF Types
    <3>2. d # c \/ k # reading[c] \/ ~RecordsReads(c)
      BY <2>4 DEF x
    <3> QED BY <1>b, <2>2, <3>1, <3>2
  <2> QED BY <2>3, <2>4
<1>16. CASE PostCommand(c)
  BY <1>16, <1>e DEF PostCommand
<1>17. CASE Finish(c)
  <2>1. c \in ServedBy(c) /\ cached' = EmptyCache(ServedBy(c)) /\ TrackingRemoveClient(c, senders \ {c})
    BY <1>17 DEF Finish, ServedBy
  <2> QED BY <1>i, <2>1 DEF TrackingRemoveClient
<1>18. CASE PubSubClosed(c)
  BY <1>18, <1>d DEF PubSubClosed
<1>19. CASE NetworkRead(c)
  BY <1>19, <1>d DEF NetworkRead
<1>20. CASE Hangup(c)
  BY <1>20, <1>d DEF Hangup
<1> QED BY <1>1, <1>2, <1>3, <1>4, <1>5, <1>6, <1>7, <1>8, <1>9, <1>10, <1>11, <1>12, <1>13,
           <1>14, <1>15, <1>16, <1>17, <1>18, <1>19, <1>20 DEF Step

\* Initially nothing is cached, and every step keeps the caches sound.
LEMMA CachesInvariant ==
    /\ Init => CachesSound
    /\ RegistryInv /\ QueueInv /\ CachesSound /\ [Next]_vars => CachesSound'
<1>1. ASSUME Init PROVE CachesSound
  BY <1>1 DEF Init, CachesSound, CacheSound
<1>2. ASSUME RegistryInv, QueueInv, CachesSound, [Next]_vars PROVE CachesSound'
  <2>1. CASE UNCHANGED vars
    BY <1>2, <2>1 DEF CachesSound, CacheSound, Registered, Watched, Pending, Told, RecordsReads,
       Connected, vars, registries
  <2>2. ASSUME NEW c \in Clients, Step(c) PROVE CachesSound'
    BY <1>2, <2>2, CachesStep DEF RegistryInv, QueueInv
  <2> QED BY <1>2, <2>1, <2>2, NextIsStep
<1> QED BY <1>1, <1>2

\* invalidate_keys, track_key, clear_target and send_to_client together: no application keeps a value that
\* was overwritten without being told, for every set of clients, redirections, modes and keys.
THEOREM CachesAreCoherent == Spec => []Coherent
<1>1. CachesSound => Coherent
  BY DEF CachesSound, CacheSound, Coherent, Pending, Watched
<1> QED BY <1>1, CachesInvariant, QueueInit, QueueStep, RegistryInvariance, PTL DEF Spec
=============================================================================
