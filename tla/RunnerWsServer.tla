--------------------------- MODULE RunnerWsServer ---------------------------
(***************************************************************************)
(* TaskRunnerWsServer (src/packages/cli/src/runners/runner-ws-server.ts): *)
(* the registry of task-runner WebSocket connections, their handshake,    *)
(* the close handler and the ping/pong heartbeat.  Every handler runs on  *)
(* the single event loop; the only handler split in two is               *)
(* removeConnection, at its await on the disconnect analyzer (line 139):  *)
(* a pluggable analyzer may wait on I/O (a runner process exiting), so    *)
(* any other event can run in between.  When the map holds no connection  *)
(* for the id, removeConnection returns without awaiting anything and its *)
(* caller's continuation is taken in the same step.                       *)
(*                                                                         *)
(* The TaskBroker is not part of the repository: registerRunner and       *)
(* deregisterRunner are modelled by their effect on the set of registered *)
(* ids (spec section 4.6).  The runners, the sockets' transport and the   *)
(* ws library's pong delivery are the environment.                        *)
(***************************************************************************)
EXTENDS Integers, Sequences, FiniteSets, Bags, BagsExt

CONSTANTS
  Conns,        \* WebSocket connections the server may be handed (model values)
  Ids,          \* runner ids (req.query.id)
  IdOf,         \* connection -> the runner id it was opened with
  NoConn,       \* runnerConnections.get(id) of an absent id
  WithShutdown, \* whether behaviours include shutdown()
  MaxInbox,     \* bound on messages in flight per connection
  MaxPending    \* bound on identical removeConnection calls suspended at once

ASSUME IdOf \in [Conns -> Ids] /\ NoConn \notin Conns /\ WithShutdown \in BOOLEAN
ASSUME MaxInbox \in Nat \ {0} /\ MaxPending \in Nat \ {0}

(* Socket phases: "new" before handleRequest, "open", "closing" once       *)
(* close() was called or the peer went away and the 'close' event is still *)
(* to be emitted, "closed" once the 'close' handler ran.                    *)
Phase == {"new", "open", "closing", "closed"}

(* Who started a removeConnection: the runner:info handler of a new       *)
(* connection, a connection's 'close' handler, the heartbeat's disconnect, *)
(* or shutdown.                                                            *)
Reason == {"handshake", "close", "heartbeat", "shutdown"}

VARIABLES
  phase,        \* connection -> Phase
  isAlive,      \* connection.isAlive
  isConnected,  \* the isConnected closure variable of add()
  pingOut,      \* a ping was sent and its pong not yet delivered
  silent,       \* the runner stopped answering pings (environment)
  inbox,        \* connection -> messages received and not yet handled
  sentInfo,     \* the runner has sent its runner:info handshake
  conns,        \* runnerConnections: id -> connection or NoConn
  registered,   \* ids the TaskBroker has a runner registered for
  removals,     \* bag of removeConnection calls suspended at the analyzer's await
  heartbeatOn   \* heartbeatTimer is set

vars == <<phase, isAlive, isConnected, pingOut, silent, inbox, sentInfo,
          conns, registered, removals, heartbeatOn>>

Removal == [id : Ids, conn : Conns, origin : Conns \cup {NoConn},
            reason : Reason]

Init ==
  /\ phase = [k \in Conns |-> "new"]
  /\ isAlive = [k \in Conns |-> FALSE]
  /\ isConnected = [k \in Conns |-> FALSE]
  /\ pingOut = [k \in Conns |-> FALSE]
  /\ silent = [k \in Conns |-> FALSE]
  /\ inbox = [k \in Conns |-> <<>>]
  /\ sentInfo = [k \in Conns |-> FALSE]
  /\ conns = [i \in Ids |-> NoConn]
  /\ registered = {}
  /\ removals = EmptyBag
  /\ heartbeatOn = TRUE

(* close(): a no-op on a socket already closing or closed.                 *)
Close(ph, k) == IF ph[k] = "open" THEN [ph EXCEPT ![k] = "closing"] ELSE ph

(* The part of removeConnection(id) before its await: read the map and,  *)
(* if a connection is there, suspend on determineDisconnectReason(id).    *)
RemovalOf(id, origin, reason) ==
  [id |-> id, conn |-> conns[id], origin |-> origin, reason |-> reason]

StartRemoval(id, origin, reason) ==
  removals' = BagAdd(removals, RemovalOf(id, origin, reason))

-----------------------------------------------------------------------------
(* Handlers.                                                               *)

\* handleRequest -> add(id, connection): isAlive, listeners, broker:inforequest.
Add(k) ==
  /\ phase[k] = "new"
  /\ phase' = [phase EXCEPT ![k] = "open"]
  /\ isAlive' = [isAlive EXCEPT ![k] = TRUE]
  /\ UNCHANGED <<isConnected, pingOut, silent, inbox, sentInfo, conns,
                 registered, removals, heartbeatOn>>

\* The registration that follows `await this.removeConnection(id)` in the
\* runner:info branch: isConnected, runnerConnections.set, registerRunner.
Register(k) ==
  /\ isConnected' = [isConnected EXCEPT ![k] = TRUE]
  /\ conns' = [conns EXCEPT ![IdOf[k]] = k]
  /\ registered' = registered \cup {IdOf[k]}

\* onMessage: drop before the handshake, handshake, or hand to the broker.
OnMessage(k) ==
  /\ inbox[k] # <<>>
  /\ inbox' = [inbox EXCEPT ![k] = Tail(@)]
  /\ UNCHANGED <<phase, isAlive, pingOut, silent, sentInfo, heartbeatOn>>
  /\ \/ /\ isConnected[k] \/ Head(inbox[k]) # "info"
        /\ UNCHANGED <<isConnected, conns, registered, removals>>
     \/ /\ ~isConnected[k] /\ Head(inbox[k]) = "info"
        /\ IF conns[IdOf[k]] = NoConn
           THEN Register(k) /\ UNCHANGED removals
           ELSE StartRemoval(IdOf[k], k, "handshake")
                /\ UNCHANGED <<isConnected, conns, registered>>

\* connection.once('close'): drop the pong and message listeners, then
\* removeConnection(id) for the id this connection was added under.
OnClose(k) ==
  /\ phase[k] = "closing"
  /\ phase' = [phase EXCEPT ![k] = "closed"]
  /\ pingOut' = [pingOut EXCEPT ![k] = FALSE]
  /\ inbox' = [inbox EXCEPT ![k] = <<>>]
  /\ IF conns[IdOf[k]] = NoConn THEN UNCHANGED removals
     ELSE StartRemoval(IdOf[k], k, "close")
  /\ UNCHANGED <<isAlive, isConnected, silent, sentInfo, conns, registered,
                 heartbeatOn>>

\* removeConnection after its await: deregisterRunner, close, delete; then
\* the caller's continuation (the handshake's registration).
RemovalResume(r) ==
  /\ r \in BagToSet(removals)
  /\ removals' = BagRemove(removals, r)
  /\ phase' = Close(phase, r.conn)
  /\ IF r.reason = "handshake"
     THEN Register(r.origin)
     ELSE /\ conns' = [conns EXCEPT ![r.id] = NoConn]
          /\ registered' = registered \ {r.id}
          /\ UNCHANGED isConnected
  /\ UNCHANGED <<isAlive, pingOut, silent, inbox, sentInfo, heartbeatOn>>

\* Connections the heartbeat visits: the values of runnerConnections.
InMap == {k \in Conns : conns[IdOf[k]] = k}

\* disconnect(ws): find the id whose entry is ws, then removeConnection(id).
disconnect(k) == RemovalOf(IdOf[k], k, "heartbeat")

\* Variant of the heartbeat tick that pings every connection and never
\* disconnects one (the !isAlive branch dropped).
HeartbeatTick_noDisconnect ==
  /\ heartbeatOn
  /\ isAlive' = [k \in Conns |-> IF k \in InMap THEN FALSE ELSE isAlive[k]]
  /\ pingOut' = [k \in Conns |->
                   IF k \in InMap /\ phase[k] = "open" THEN TRUE ELSE pingOut[k]]
  /\ UNCHANGED <<removals, phase, isConnected, silent, inbox, sentInfo, conns,
                 registered, heartbeatOn>>

\* The setInterval callback: a connection that answered no ping since the
\* last tick is disconnected ('runner:failed-heartbeat-check'): disconnect
\* finds its id and starts removeConnection(id); any other is marked not
\* alive and pinged (a ping on a socket that is not open goes nowhere).
HeartbeatTick ==
  /\ heartbeatOn
  /\ \A r \in BagToSet(removals) : CopiesIn(r, removals) < MaxPending
  /\ LET dead == {k \in InMap : ~isAlive[k]}
     IN removals' = removals (+)
          SetToBag({disconnect(k) : k \in dead})
  /\ isAlive' = [k \in Conns |-> IF k \in InMap THEN FALSE ELSE isAlive[k]]
  /\ pingOut' = [k \in Conns |->
                   IF k \in InMap /\ isAlive[k] /\ phase[k] = "open"
                   THEN TRUE ELSE pingOut[k]]
  /\ UNCHANGED <<phase, isConnected, silent, inbox, sentInfo, conns,
                 registered, heartbeatOn>>

\* shutdown(): clear the heartbeat timer and removeConnection every id.
Shutdown ==
  /\ WithShutdown /\ heartbeatOn
  /\ heartbeatOn' = FALSE
  /\ removals' = removals (+)
       SetToBag({RemovalOf(i, NoConn, "shutdown") : i \in {j \in Ids : conns[j] # NoConn}})
  /\ UNCHANGED <<phase, isAlive, isConnected, pingOut, silent, inbox,
                 sentInfo, conns, registered>>

-----------------------------------------------------------------------------
(* The environment: runners and the transport.                            *)

\* The runner sends runner:info (once) or some other message.
RunnerSend(k, m) ==
  /\ phase[k] = "open" /\ Len(inbox[k]) < MaxInbox
  /\ m = "info" => ~sentInfo[k]
  /\ inbox' = [inbox EXCEPT ![k] = Append(@, m)]
  /\ sentInfo' = [sentInfo EXCEPT ![k] = @ \/ m = "info"]
  /\ UNCHANGED <<phase, isAlive, isConnected, pingOut, silent, conns,
                 registered, removals, heartbeatOn>>

\* A runner that still answers pings: its pong reaches the 'pong' listener.
Pong(k) ==
  /\ pingOut[k] /\ ~silent[k] /\ phase[k] = "open"
  /\ pingOut' = [pingOut EXCEPT ![k] = FALSE]
  /\ isAlive' = [isAlive EXCEPT ![k] = TRUE]
  /\ UNCHANGED <<phase, isConnected, silent, inbox, sentInfo, conns,
                 registered, removals, heartbeatOn>>

\* The runner hangs: it stops answering pings.
GoSilent(k) ==
  /\ phase[k] = "open" /\ ~silent[k]
  /\ silent' = [silent EXCEPT ![k] = TRUE]
  /\ UNCHANGED <<phase, isAlive, isConnected, pingOut, inbox, sentInfo, conns,
                 registered, removals, heartbeatOn>>

\* The runner or the network closes the socket.
PeerClose(k) ==
  /\ phase[k] = "open"
  /\ phase' = [phase EXCEPT ![k] = "closing"]
  /\ UNCHANGED <<isAlive, isConnected, pingOut, silent, inbox, sentInfo, conns,
                 registered, removals, heartbeatOn>>

\* Shut down with every socket closed: nothing can happen any more.
Finished ==
  /\ ~heartbeatOn /\ \A k \in Conns : phase[k] = "closed"
  /\ UNCHANGED vars

ServerStep ==
  \/ \E k \in Conns : Add(k) \/ OnMessage(k) \/ OnClose(k)
  \/ \E r \in BagToSet(removals) : RemovalResume(r)
  \/ HeartbeatTick
  \/ Shutdown

EnvStep ==
  \E k \in Conns :
    \/ \E m \in {"info", "other"} : RunnerSend(k, m)
    \/ Pong(k) \/ GoSilent(k) \/ PeerClose(k)

Next == ServerStep \/ EnvStep \/ Finished

(* The event loop runs every pending handler and timer callback; the      *)
(* analyzer's promise settles; a pong of a live runner is delivered.       *)
Fairness ==
  /\ \A k \in Conns : WF_vars(OnMessage(k)) /\ WF_vars(OnClose(k)) /\ WF_vars(Pong(k))
  /\ \A r \in Removal : WF_vars(RemovalResume(r))
  /\ WF_vars(HeartbeatTick)

Spec == Init /\ [][Next]_vars /\ Fairness

-----------------------------------------------------------------------------
(* Properties.                                                             *)

TypeOK ==
  /\ phase \in [Conns -> Phase]
  /\ isAlive \in [Conns -> BOOLEAN] /\ isConnected \in [Conns -> BOOLEAN]
  /\ pingOut \in [Conns -> BOOLEAN] /\ silent \in [Conns -> BOOLEAN]
  /\ inbox \in [Conns -> Seq({"info", "other"})]
  /\ sentInfo \in [Conns -> BOOLEAN]
  /\ conns \in [Ids -> Conns \cup {NoConn}]
  /\ registered \subseteq Ids
  /\ IsABag(removals) /\ BagToSet(removals) \subseteq Removal
  /\ heartbeatOn \in BOOLEAN

(* A connection has completed its handshake and its socket is open.       *)
Live(k) == phase[k] = "open" /\ isConnected[k]

(* The 'close' handler and the heartbeat's disconnect act for one socket: *)
(* the removeConnection they start closes and deletes that socket, never  *)
(* another connection that has since taken over its runner id.            *)
RemovalTargetsOwnConnection ==
  \A r \in BagToSet(removals) :
    r.reason \in {"close", "heartbeat"} => r.conn = r.origin

(* Once no removeConnection is suspended, every open connection that      *)
(* completed its handshake is the one runnerConnections holds for its id  *)
(* and its runner is registered with the broker: it is reachable by       *)
(* sendMessage and visited by the heartbeat.                               *)
RegisteredConnectionTracked ==
  removals = EmptyBag =>
    \A k \in Conns : Live(k) => conns[IdOf[k]] = k /\ IdOf[k] \in registered

(* Heartbeat (spec 4.6): a runner that stops answering pings does not stay *)
(* in runnerConnections while the heartbeat timer runs: two ticks later    *)
(* disconnect has removed it, whatever else happens meanwhile.             *)
SilentRunnerDisconnected ==
  \A k \in Conns :
    (silent[k] /\ k \in InMap) ~> (k \notin InMap \/ ~heartbeatOn)

=============================================================================
