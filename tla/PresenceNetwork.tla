--------------------------- MODULE PresenceNetwork ---------------------------
(***************************************************************************)
(* The server of ServerSessions with real clients at the other ends of its *)
(* sockets: the presence events it writes travel in order, the client's    *)
(* reader thread dispatches them through EventSystem to Replication's      *)
(* handlers, and meanwhile the client's main thread is still on its way    *)
(* from SendAuth() through Replication::Start() (Runtime.cpp:175-222).     *)
(*                                                                         *)
(* Reader and main thread of a client share the subscription list and the  *)
(* EntityManager, each access under its own lock: one action per locked    *)
(* access of the main thread, one per dispatched message of the reader.    *)
(***************************************************************************)
EXTENDS ServerSessions, Sequences, Naturals, FiniteSets, Functions

CONSTANT MaxWire   \* bound: a client moves only while no listener is this far behind

ASSUME MaxWireAssumption == MaxWire \in Nat

VARIABLES
  wire,       \* messages written to each socket, not yet dispatched by its client
  main,       \* how far each client's main thread is
  replied,    \* whether auth_result is in pendingReplies_
  entities,   \* each client's remote entities and their last state
  localAlive, \* whether the client's EntityManager holds its own player
  missed      \* auxiliary: players of whom an event was dispatched to no handler

clientVars == <<main, replied, entities, localAlive, missed>>
netVars == <<vars, wire, clientVars>>

AuthResult == [type |-> "auth_result"]
Joined(p) == [type |-> "player_joined", player |-> p]
Left(p) == [type |-> "player_left", player |-> p]
State(p, d) == [type |-> "player_state", player |-> p, data |-> d]

ServerMessage ==
  {AuthResult} \cup {Joined(p) : p \in Player} \cup {Left(p) : p \in Player}
  \cup {State(p, d) : p \in Player, d \in Data}

\* SendAuth() waits; it returned; Start() created the local player and
\* subscribed to one event after the other; SendAuth() timed out; the process
\* is gone, which the server learns from its socket or from silence.
MainStep == {"waiting", "authenticated", "created", "joined", "left", "running", "gave up", "dead"}

\* Whether EventSystem::Publish finds Replication's handler for the event.
Subscribed(s, type) ==
  main[s] \in CASE type = "player_joined" -> {"joined", "left", "running"}
                [] type = "player_left"   -> {"left", "running"}
                [] type = "player_state"  -> {"running"}

NetInit ==
  /\ Init
  /\ wire = [s \in Socket |-> <<>>]
  /\ main = [s \in Socket |-> "waiting"]
  /\ replied = [s \in Socket |-> FALSE]
  /\ entities = [s \in Socket |-> Nobody]
  /\ localAlive = [s \in Socket |-> FALSE]
  /\ missed = [s \in Socket |-> {}]
-----------------------------------------------------------------------------
(* What the server's callbacks write *)

WriteTo(rs, messages) == wire' = [r \in Socket |-> IF r \in rs THEN wire[r] \o messages ELSE wire[r]]

\* The sequences that hold every element of S once: the Map's order is not modelled.
Orders(S) == Injection(1 .. Cardinality(S), S)

\* The player_left broadcasts of the sessions of X.
WriteLefts(X) ==
  LET gone == X \cap sessions
      left == {playerId[s] : s \in {g \in gone : authenticated[g]}}
  IN \E order \in Orders(left) :
       WriteTo(Audience \ gone, [i \in 1 .. Len(order) |-> Left(order[i])])

\* What the newcomer's backfill consists of: player_joined of every other
\* authenticated session, and its last player_state if it has one.
Backfill(s) ==
  LET others == {o \in sessions \ {s} : authenticated[o]}
      placed == {o \in others : lastPlayerState[o] # NoState}
  IN {[of |-> o, says |-> Joined(playerId[o])] : o \in others}
     \cup {[of |-> o, says |-> State(playerId[o], lastPlayerState[o])] : o \in placed}

IsState(m) == m.type = "player_state"

\* The backfill goes session by session.
BackfillOrders(s) ==
  {order \in Orders(Backfill(s)) :
     \A i \in 1 .. Len(order) : IsState(order[i].says) => i > 1 /\ order[i - 1].of = order[i].of}

AuthReply(order) == <<AuthResult>> \o [i \in 1 .. Len(order) |-> order[i].says]

\* The player_state of a player that comes last in the backfill.
LastState(order, i) ==
  /\ IsState(order[i].says)
  /\ \A j \in i + 1 .. Len(order) :
       ~(IsState(order[j].says) /\ order[j].says.player = order[i].says.player)

(***************************************************************************)
(* What a client sends arrives in the order ProtocolClient sends it: hello *)
(* once, auth once, the rest only from a client that started replication.  *)
(***************************************************************************)

ClientConnects(s) ==
  /\ Connect(s)
  /\ UNCHANGED <<wire, clientVars>>

ClientHello(s) ==
  /\ main[s] # "dead"
  /\ ~helloReceived[s]
  /\ Hello(s, TRUE)
  /\ UNCHANGED <<wire, clientVars>>

\* The id is stored beside the installation: a client presents it again only
\* from a new process.  When two others carry one id, the order in which the
\* backfill is written decides which of their states the newcomer is left with.
ClientAuth(s, p) ==
  /\ main[s] # "dead"
  /\ ~authenticated[s]
  /\ \A t \in Socket : playerId[t] = p => main[t] = "dead"
  /\ Auth(s, p)
  /\ \E order \in BackfillOrders(s) :
       /\ Writable(s) =>
            \A i \in 1 .. Len(order) :
              LastState(order, i) => told'[s][order[i].says.player] = order[i].says.data
       /\ wire' = [r \in Socket |->
                     IF r = s THEN IF Writable(s) THEN wire[s] \o AuthReply(order) ELSE wire[s]
                     ELSE IF r \in Audience THEN Append(wire[r], Joined(p))
                     ELSE wire[r]]
  /\ UNCHANGED clientVars

ClientMoves(s, d) ==
  /\ main[s] = "running"
  /\ \A r \in Audience \ {s} : Len(wire[r]) < MaxWire
  /\ PlayerState(s, d)
  /\ WriteTo(Audience \ {s}, <<State(playerId[s], d)>>)
  /\ UNCHANGED clientVars

ClientHeartbeat(s) ==
  /\ main[s] = "running"
  /\ Heartbeat(s)
  /\ UNCHANGED <<wire, clientVars>>

ClientDisconnects(s) ==
  /\ main[s] = "running"
  /\ DisconnectRequest(s)
  /\ WriteLefts({s})
  /\ UNCHANGED clientVars

ConnectionLost(s) ==
  /\ SocketClosed(s)
  /\ WriteLefts({s})
  /\ UNCHANGED clientVars

WatchdogTick ==
  /\ Watchdog
  /\ WriteLefts({s \in sessions : heartbeat[s] = "expired"})
  /\ UNCHANGED clientVars

ServerShutdown ==
  /\ Shutdown
  /\ WriteLefts(sessions)
  /\ UNCHANGED clientVars

\* Steps of the server that write no presence event.
SilentServerStep(s) ==
  /\ HeartbeatExpires(s) \/ Kick(s)
  /\ UNCHANGED <<wire, clientVars>>

ServerGone == ServerClosed /\ UNCHANGED <<wire, clientVars>>
-----------------------------------------------------------------------------
(* The client *)

\* RequestReply() finds the auth_result.
AuthReturns(s) ==
  /\ main[s] = "waiting"
  /\ replied[s]
  /\ main' = [main EXCEPT ![s] = "authenticated"]
  /\ UNCHANGED <<vars, wire, replied, entities, localAlive, missed>>

\* RequestReply() times out; the client goes on without replication.
AuthTimesOut(s) ==
  /\ main[s] = "waiting"
  /\ authenticated[s]
  /\ ~replied[s]
  /\ main' = [main EXCEPT ![s] = "gave up"]
  /\ UNCHANGED <<vars, wire, replied, entities, localAlive, missed>>

\* Replication::Start(): the local player's entity ...
CreateLocal(s) ==
  /\ main[s] = "authenticated"
  /\ main' = [main EXCEPT ![s] = "created"]
  /\ localAlive' = [localAlive EXCEPT ![s] = TRUE]
  /\ UNCHANGED <<vars, wire, replied, entities, missed>>

\* ... then one Subscribe() after the other.
Subscribe(s) ==
  /\ main[s] \in {"created", "joined", "left"}
  /\ main' = [main EXCEPT ![s] = CASE @ = "created" -> "joined"
                                   [] @ = "joined"  -> "left"
                                   [] @ = "left"    -> "running"]
  /\ UNCHANGED <<vars, wire, replied, entities, localAlive, missed>>

OnPlayerJoined(s, p) ==
  /\ entities' = [entities EXCEPT ![s] = IF p = playerId[s] THEN @ ELSE SeeJoined(@, p)]
  /\ UNCHANGED <<localAlive, missed>>

\* Mutant: the entity is not destroyed.
OnPlayerLeftKept(s, p) ==
  /\ missed' = [missed EXCEPT ![s] = @ \ {p}]
  /\ UNCHANGED <<entities, localAlive>>

\* Unlike the other two handlers this one does not except the local player.
OnPlayerLeft(s, p) ==
  /\ entities' = [entities EXCEPT ![s] = SeeLeft(@, {p})]
  /\ localAlive' = [localAlive EXCEPT ![s] = @ /\ p # playerId[s]]
  /\ missed' = [missed EXCEPT ![s] = @ \ {p}]

\* Mutant: the local player's own id is not excepted.
OnPlayerStateOwn(s, p, d) ==
  /\ entities' = [entities EXCEPT ![s] = SeeState(@, p, d)]
  /\ missed' = [missed EXCEPT ![s] = @ \ {p}]
  /\ UNCHANGED localAlive

\* Mutant: a player without an entity is ignored.
OnPlayerStateKnown(s, p, d) ==
  /\ entities' = [entities EXCEPT ![s] =
                    IF p = playerId[s] \/ @[p] = NoEntity THEN @ ELSE SeeState(@, p, d)]
  /\ missed' = [missed EXCEPT ![s] = @ \ {p}]
  /\ UNCHANGED localAlive

OnPlayerState(s, p, d) ==
  /\ entities' = [entities EXCEPT ![s] = IF p = playerId[s] THEN @ ELSE SeeState(@, p, d)]
  /\ missed' = [missed EXCEPT ![s] = @ \ {p}]
  /\ UNCHANGED localAlive

\* The reader thread dispatches the next message of the socket.
Dispatch(s) ==
  /\ main[s] # "dead"
  /\ wire[s] # <<>>
  /\ wire' = [wire EXCEPT ![s] = Tail(@)]
  /\ LET m == Head(wire[s])
     IN \/ /\ m.type = "auth_result"
           /\ replied' = [replied EXCEPT ![s] = TRUE]
           /\ UNCHANGED <<entities, localAlive, missed>>
        \/ /\ m.type # "auth_result"
           /\ ~Subscribed(s, m.type)
           /\ missed' = [missed EXCEPT ![s] = @ \cup {m.player}]
           /\ UNCHANGED <<replied, entities, localAlive>>
        \/ /\ m.type # "auth_result"
           /\ Subscribed(s, m.type)
           /\ \/ m.type = "player_joined" /\ OnPlayerJoined(s, m.player)
              \/ m.type = "player_left" /\ OnPlayerLeft(s, m.player)
              \/ m.type = "player_state" /\ OnPlayerState(s, m.player, m.data)
           /\ UNCHANGED replied
  /\ UNCHANGED <<vars, main>>

\* The process ends or crashes, or its network is gone for good.
ClientDies(s) ==
  /\ conn[s] # "idle"
  /\ main[s] # "dead"
  /\ main' = [main EXCEPT ![s] = "dead"]
  /\ UNCHANGED <<vars, wire, replied, entities, localAlive, missed>>

ClientStep(s) ==
  AuthReturns(s) \/ AuthTimesOut(s) \/ CreateLocal(s) \/ Subscribe(s) \/ Dispatch(s)

NetNext ==
  \/ \E s \in Socket :
       \/ ClientConnects(s)
       \/ ClientDies(s)
       \/ SilentServerStep(s)
       \/ ConnectionLost(s)
       \/ ClientHello(s)
       \/ \E p \in Identity[s] : ClientAuth(s, p)
       \/ \E d \in Data : ClientMoves(s, d)
       \/ ClientHeartbeat(s)
       \/ ClientDisconnects(s)
       \/ ClientStep(s)
  \/ WatchdogTick
  \/ ServerShutdown
  \/ ServerGone

NetSpec == NetInit /\ [][NetNext]_netVars

\* The client's threads are scheduled and its socket is read; nothing is
\* assumed of the server's timers or of what users do.
NetFairSpec ==
  /\ NetSpec
  /\ \A s \in Socket : WF_netVars(Dispatch(s)) /\ WF_netVars(Subscribe(s))
                       /\ WF_netVars(AuthReturns(s)) /\ WF_netVars(CreateLocal(s))
-----------------------------------------------------------------------------
(* Properties *)

NetTypeOK ==
  /\ wire \in [Socket -> Seq(ServerMessage)]
  /\ main \in [Socket -> MainStep]
  /\ replied \in [Socket -> BOOLEAN]
  /\ entities \in [Socket -> [Player -> Seen]]
  /\ localAlive \in [Socket -> BOOLEAN]
  /\ missed \in [Socket -> SUBSET Player]

\* A client with replication running that has dispatched all it was sent.
CaughtUp(s) == Listening(s) /\ main[s] = "running" /\ wire[s] = <<>>

\* Once a client has caught up it has an entity for every other live player,
\* in the state that player reported last: what the server's backfill is for
\* (synchronization.md:70-77, Runtime.cpp:186-191).  The code does not keep it:
\* what is dispatched before Replication::Start() has subscribed is lost.
ReplicasConverge ==
  \A s \in Socket : CaughtUp(s) => \A t \in Socket \ {s} :
    Live(t) /\ playerId[t] # playerId[s] => entities[s][playerId[t]] = lastPlayerState[t]

\* The damage of events that found no handler is confined: about every other
\* player none of whose events were missed, or of whom a player_state or
\* player_left was handled since, a client that has caught up is right.
ReplicasAgreeUnlessMissed ==
  \A s \in Socket : CaughtUp(s) =>
    \A p \in Player \ (missed[s] \cup {playerId[s]}) : entities[s][p] = told[s][p]

\* No client ever has an entity of itself among the remote ones.
NoSelfReplica == \A s \in Socket : authenticated[s] => entities[s][playerId[s]] = NoEntity

\* The local player's entity lives as long as the client does.  The code does not
\* keep it: the player_left of a client's old session destroys it in the new process.
LocalPlayerSurvives == \A s \in Socket : main[s] \in {"created", "joined", "left", "running"} => localAlive[s]

\* A player that keeps moving is in view of everyone whose replication runs
\* from some point on, whatever of its earlier events was missed: the entity
\* OnPlayerState creates for a player it has none of.
MovingPlayerAppears ==
  \A s, t \in Socket :
    /\ s # t
    /\ []<><<\E d \in Data : ClientMoves(t, d)>>_netVars
    /\ <>[](Listening(s) /\ main[s] = "running")
    => <>[](\A p \in Player : p = playerId[t] => entities[s][p] # NoEntity)
=============================================================================
