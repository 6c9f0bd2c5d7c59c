--------------------------- MODULE ServerSessions ---------------------------
(***************************************************************************)
(* The control channel of the MzzPlork Server: server/src/tcpServer.js     *)
(* with session.js, connectionState.js, eventBus.js, auth.js and the admin *)
(* commands of adminConsole.js that touch sessions.                        *)
(*                                                                         *)
(* Node runs one callback at a time, so every action below is one whole    *)
(* callback: a message handler, a socket event, one watchdog tick, one     *)
(* admin command.  What the client at the other end sends, and how long    *)
(* the network delays it, is not restricted: any message may be handled    *)
(* whenever the socket is still readable.  Late says for which sockets     *)
(* that includes messages that were in flight when the server dropped the  *)
(* session: socket.end() closes only the sending direction, and the        *)
(* "message" listener has no guard for a session that is already gone.     *)
(*                                                                         *)
(* told is an auxiliary variable: what the presence events written to a    *)
(* socket so far say about each player, folded the way                     *)
(* Replication::OnPlayerJoined / OnPlayerLeft / OnPlayerState fold them.   *)
(***************************************************************************)
CONSTANTS
  Socket,      \* TCP connections; each is accepted at most once
  Player,      \* player ids
  Data,        \* distinguishable contents of a player_state
  Identity,    \* Identity[s]: the player ids authenticate() may issue on socket s
  Late,        \* sockets whose data may still arrive after their session is dropped
  Loaders      \* bound: the sockets whose client gets as far as resources_ready

NoPlayer == "null"          \* session.playerId before auth
NoEntity == "absent"        \* the events say nothing of the player, or that it left
NoState  == "unplaced"      \* the player is there, no player_state of it is known

Seen == Data \cup {NoEntity, NoState}

ASSUME IdentityAssumption == Identity \in [Socket -> SUBSET Player]
ASSUME LateAssumption == Late \subseteq Socket
ASSUME LoadersAssumption == Loaders \subseteq Socket
ASSUME DataAssumption == NoEntity \notin Data /\ NoState \notin Data
ASSUME PlayerAssumption == NoPlayer \notin Player

VARIABLES
  conn,            \* the net.Socket: not accepted, open, ended by the server, closed
  sessions,        \* the keys of the sessions Map
  state,           \* session.state
  helloReceived,   \* session.helloReceived
  authenticated,   \* session.authenticated
  playerId,        \* session.playerId
  lastPlayerState, \* session.lastPlayerState
  resourcesReady,  \* session.resourcesReady
  heartbeat,       \* whether session.isHeartbeatExpired() would hold
  serverState,     \* net.Server: listening, closing (close() called), closed
  told,            \* presence as told to each socket
  toldReady        \* the sessions whose player_ready was written to each socket

vars == <<conn, sessions, state, helloReceived, authenticated, playerId,
          lastPlayerState, resourcesReady, heartbeat, serverState, told, toldReady>>

ConnectionState ==
  {"connecting", "authenticating", "authenticated", "disconnecting", "disconnected"}

TRANSITIONS ==
  [from \in ConnectionState |->
     CASE from = "connecting"     -> {"authenticating", "disconnecting"}
       [] from = "authenticating" -> {"authenticated", "disconnecting"}
       [] from = "authenticated"  -> {"disconnecting"}
       [] from = "disconnecting"  -> {"disconnected"}
       [] from = "disconnected"   -> {}]

\* Mutant: the table is not consulted.
TransitionUnchecked(from, to) == to

\* session.transitionTo(to): a transition the table does not list is refused.
TransitionTo(from, to) == IF to \in TRANSITIONS[from] THEN to ELSE from

Nobody == [p \in Player |-> NoEntity]

Init ==
  /\ conn = [s \in Socket |-> "idle"]
  /\ sessions = {}
  /\ state = [s \in Socket |-> "connecting"]
  /\ helloReceived = [s \in Socket |-> FALSE]
  /\ authenticated = [s \in Socket |-> FALSE]
  /\ playerId = [s \in Socket |-> NoPlayer]
  /\ lastPlayerState = [s \in Socket |-> NoState]
  /\ resourcesReady = [s \in Socket |-> FALSE]
  /\ heartbeat = [s \in Socket |-> "fresh"]
  /\ serverState = "listening"
  /\ told = [s \in Socket |-> Nobody]
  /\ toldReady = [s \in Socket |-> {}]
-----------------------------------------------------------------------------
(* Writing to sockets *)

\* MessageFramer.send drops what is sent after socket.end().
Writable(s) == conn[s] = "open"

\* Mutant: broadcast() does not look at session.authenticated.
AudienceAll == {s \in sessions : Writable(s)}

\* The sessions broadcast() reaches.
Audience == {s \in sessions : authenticated[s] /\ Writable(s)}

\* A message of socket s can reach the "message" listener.
Receives(s) == conn[s] \in {"open", "ended"} /\ (s \in sessions \/ s \in Late)

SeeJoined(seen, p) == [seen EXCEPT ![p] = IF @ = NoEntity THEN NoState ELSE @]
SeeState(seen, p, d) == [seen EXCEPT ![p] = d]
SeeLeft(seen, ps) == [p \in Player |-> IF p \in ps THEN NoEntity ELSE seen[p]]

\* Mutant: no player_left is broadcast.
DropUnannounced(X) ==
  /\ sessions' = sessions \ X
  /\ state' = [s \in Socket |-> IF s \in X \cap sessions THEN "disconnected" ELSE state[s]]
  /\ told' = [r \in Socket |-> IF r \in X \cap sessions THEN Nobody ELSE told[r]]

(***************************************************************************)
(* disconnectSession() for every session of X that is still registered.    *)
(* Each is out of the Map before its player_left is broadcast, so of X     *)
(* nobody who survives the loop hears less than all of it.  The socket of  *)
(* a dropped session carries nothing more: told forgets it.                *)
(***************************************************************************)
Drop(X) ==
  LET gone == X \cap sessions
      left == {playerId[s] : s \in {g \in gone : authenticated[g]}}
  IN /\ sessions' = sessions \ gone
     /\ state' = [s \in Socket |->
                    IF s \in gone
                    THEN TransitionTo(TransitionTo(state[s], "disconnecting"), "disconnected")
                    ELSE state[s]]
     /\ told' = [r \in Socket |->
                   IF r \in gone THEN Nobody
                   ELSE IF r \in Audience THEN SeeLeft(told[r], left)
                   ELSE told[r]]

\* disconnectSession()'s socket.end()
Ended(X) == [s \in Socket |-> IF s \in X \cap sessions THEN "ended" ELSE conn[s]]

\* Mutant: a session that asks to go is removed without disconnectSession().
DropOnMessageUnannounced(s) ==
  /\ sessions' = sessions \ {s}
  /\ state' = [state EXCEPT ![s] = "disconnected"]
  /\ told' = [told EXCEPT ![s] = Nobody]
  /\ conn' = Ended({s})

\* disconnectSession() from a message handler.
DropOnMessage(s) ==
  /\ Drop({s})
  /\ conn' = Ended({s})
-----------------------------------------------------------------------------
(* Message handlers *)

Connect(s) ==
  /\ serverState = "listening"
  /\ conn[s] = "idle"
  /\ conn' = [conn EXCEPT ![s] = "open"]
  /\ sessions' = sessions \cup {s}
  /\ UNCHANGED <<state, helloReceived, authenticated, playerId, lastPlayerState,
                 resourcesReady, heartbeat, serverState, told, toldReady>>

Hello(s, compatible) ==
  /\ Receives(s)
  /\ helloReceived' = [helloReceived EXCEPT ![s] = TRUE]
  /\ \/ /\ compatible
        /\ state' = [state EXCEPT ![s] = TransitionTo(@, "authenticating")]
        /\ UNCHANGED <<conn, sessions, told>>
     \/ /\ ~compatible
        /\ DropOnMessage(s)
  /\ UNCHANGED <<authenticated, playerId, lastPlayerState, resourcesReady,
                 heartbeat, serverState, toldReady>>

\* Mutant: the backfill sends player_joined only.
BackfilledJoins(s, q) ==
  IF \E o \in sessions \ {s} : authenticated[o] /\ playerId[o] = q
  THEN {SeeJoined(told[s], q)[q]}
  ELSE {told[s][q]}

\* What the backfill loop can leave socket s knowing of player q.  When two
\* other sessions carry the same id, the Map's order decides whose
\* player_state comes last; the order is not modelled.
Backfilled(s, q) ==
  LET others == {o \in sessions \ {s} : authenticated[o] /\ playerId[o] = q}
      placed == {lastPlayerState[o] : o \in others} \ {NoState}
  IN IF placed # {} THEN placed
     ELSE IF others # {} THEN {SeeJoined(told[s], q)[q]}
     ELSE {told[s][q]}

Backfills(s) ==
  IF Writable(s)
  THEN {b \in [Player -> Seen] : \A q \in Player : b[q] \in Backfilled(s, q)}
  ELSE {told[s]}

AuthBeforeHello(s) ==
  /\ Receives(s)
  /\ ~helloReceived[s]
  /\ DropOnMessage(s)
  /\ UNCHANGED <<helloReceived, authenticated, playerId, lastPlayerState,
                 resourcesReady, heartbeat, serverState, toldReady>>

\* Mutant: the newcomer is told of the others, they are not told of it.
AuthUnannounced(s, p) ==
  /\ Receives(s)
  /\ helloReceived[s]
  /\ authenticated' = [authenticated EXCEPT ![s] = TRUE]
  /\ playerId' = [playerId EXCEPT ![s] = p]
  /\ state' = [state EXCEPT ![s] = TransitionTo(@, "authenticated")]
  /\ \E b \in Backfills(s) : told' = [told EXCEPT ![s] = b]
  /\ UNCHANGED <<conn, sessions, helloReceived, lastPlayerState, resourcesReady,
                 heartbeat, serverState, toldReady>>

\* authenticate() always answers ok: p is the id it issues.
Auth(s, p) ==
  /\ Receives(s)
  /\ helloReceived[s]
  /\ authenticated' = [authenticated EXCEPT ![s] = TRUE]
  /\ playerId' = [playerId EXCEPT ![s] = p]
  /\ state' = [state EXCEPT ![s] = TransitionTo(@, "authenticated")]
  /\ \E b \in Backfills(s) :
       told' = [r \in Socket |->
                  IF r = s THEN b
                  ELSE IF r \in Audience THEN SeeJoined(told[r], p)
                  ELSE told[r]]
  /\ UNCHANGED <<conn, sessions, helloReceived, lastPlayerState, resourcesReady,
                 heartbeat, serverState, toldReady>>

Heartbeat(s) ==
  /\ Receives(s)
  /\ heartbeat' = [heartbeat EXCEPT ![s] = "fresh"]
  /\ UNCHANGED <<conn, sessions, state, helloReceived, authenticated, playerId,
                 lastPlayerState, resourcesReady, serverState, told, toldReady>>

\* resource_manifest_request, player_state and resources_ready before auth;
\* an authenticated session's manifest request changes no state.
RequestBeforeAuth(s) ==
  /\ Receives(s)
  /\ ~authenticated[s]
  /\ DropOnMessage(s)
  /\ UNCHANGED <<helloReceived, authenticated, playerId, lastPlayerState,
                 resourcesReady, heartbeat, serverState, toldReady>>

PlayerState(s, d) ==
  /\ Receives(s)
  /\ authenticated[s]
  /\ lastPlayerState' = [lastPlayerState EXCEPT ![s] = d]
  /\ told' = [r \in Socket |->
                IF r \in Audience \ {s} THEN SeeState(told[r], playerId[s], d) ELSE told[r]]
  /\ UNCHANGED <<conn, sessions, state, helloReceived, authenticated, playerId,
                 resourcesReady, heartbeat, serverState, toldReady>>

ResourcesReady(s) ==
  /\ s \in Loaders
  /\ Receives(s)
  /\ authenticated[s]
  /\ resourcesReady' = [resourcesReady EXCEPT ![s] = TRUE]
  /\ toldReady' = [r \in Socket |->
                     IF r \in Audience THEN toldReady[r] \cup {s} ELSE toldReady[r]]
  /\ UNCHANGED <<conn, sessions, state, helloReceived, authenticated, playerId,
                 lastPlayerState, heartbeat, serverState, told>>

DisconnectRequest(s) ==
  /\ Receives(s)
  /\ DropOnMessage(s)
  /\ UNCHANGED <<helloReceived, authenticated, playerId, lastPlayerState,
                 resourcesReady, heartbeat, serverState, toldReady>>
-----------------------------------------------------------------------------
(* Socket events, timers and the operator *)

\* Mutant: no "close" listener.
SocketClosedUnnoticed(s) ==
  /\ conn[s] \in {"open", "ended"}
  /\ conn' = [conn EXCEPT ![s] = "closed"]
  /\ UNCHANGED <<sessions, state, helloReceived, authenticated, playerId, lastPlayerState,
                 resourcesReady, heartbeat, serverState, told, toldReady>>

\* The socket's "close" event, after a FIN of the client or an error.  (Node
\* ends a socket whose client sent a FIN shortly before it emits "close"; what
\* is written in between is lost with the socket, so this is one step.)
SocketClosed(s) ==
  /\ conn[s] \in {"open", "ended"}
  /\ conn' = [conn EXCEPT ![s] = "closed"]
  /\ Drop({s})
  /\ UNCHANGED <<helloReceived, authenticated, playerId, lastPlayerState,
                 resourcesReady, heartbeat, serverState, toldReady>>

\* heartbeatTimeoutMs pass without a heartbeat message.
HeartbeatExpires(s) ==
  /\ s \in sessions
  /\ heartbeat[s] = "fresh"
  /\ heartbeat' = [heartbeat EXCEPT ![s] = "expired"]
  /\ UNCHANGED <<conn, sessions, state, helloReceived, authenticated, playerId,
                 lastPlayerState, resourcesReady, serverState, told, toldReady>>

\* Mutant: the watchdog looks at authenticated sessions only.
WatchdogAuthenticated ==
  LET X == {s \in sessions : authenticated[s] /\ heartbeat[s] = "expired"}
  IN /\ serverState = "listening"
     /\ X # {}
     /\ Drop(X)
     /\ conn' = Ended(X)
     /\ UNCHANGED <<helloReceived, authenticated, playerId, lastPlayerState,
                    resourcesReady, heartbeat, serverState, toldReady>>

\* One tick of the heartbeat watchdog's interval.
Watchdog ==
  LET X == {s \in sessions : heartbeat[s] = "expired"}
  IN /\ serverState = "listening"
     /\ X # {}
     /\ Drop(X)
     /\ conn' = Ended(X)
     /\ UNCHANGED <<helloReceived, authenticated, playerId, lastPlayerState,
                    resourcesReady, heartbeat, serverState, toldReady>>

\* The admin console's kick: the session stays in the Map.
Kick(s) ==
  /\ s \in sessions
  /\ conn' = [conn EXCEPT ![s] = "ended"]
  /\ UNCHANGED <<sessions, state, helloReceived, authenticated, playerId, lastPlayerState,
                 resourcesReady, heartbeat, serverState, told, toldReady>>

Shutdown ==
  /\ serverState = "listening"
  /\ serverState' = "closing"
  /\ Drop(sessions)
  /\ conn' = Ended(sessions)
  /\ UNCHANGED <<helloReceived, authenticated, playerId, lastPlayerState,
                 resourcesReady, heartbeat, toldReady>>

\* server.close()'s callback: no connection is left.
ServerClosed ==
  /\ serverState = "closing"
  /\ \A s \in Socket : conn[s] \in {"idle", "closed"}
  /\ serverState' = "closed"
  /\ UNCHANGED <<conn, sessions, state, helloReceived, authenticated, playerId,
                 lastPlayerState, resourcesReady, heartbeat, told, toldReady>>

Message(s) ==
  \/ \E compatible \in BOOLEAN : Hello(s, compatible)
  \/ AuthBeforeHello(s)
  \/ \E p \in Identity[s] : Auth(s, p)
  \/ Heartbeat(s)
  \/ RequestBeforeAuth(s)
  \/ \E d \in Data : PlayerState(s, d)
  \/ ResourcesReady(s)
  \/ DisconnectRequest(s)

Next ==
  \/ \E s \in Socket :
       \/ Connect(s)
       \/ SocketClosed(s)
       \/ HeartbeatExpires(s)
       \/ Kick(s)
       \/ Message(s)
  \/ Watchdog
  \/ Shutdown
  \/ ServerClosed

Spec == Init /\ [][Next]_vars

\* Node's timers: time passes and the watchdog's interval keeps firing.
Timers == WF_vars(Watchdog) /\ \A s \in Socket : WF_vars(HeartbeatExpires(s))

FairSpec == Spec /\ Timers
-----------------------------------------------------------------------------
(* Properties *)

\* Every variable keeps its type, and a session is registered exactly as
\* long as its socket has not been ended by a disconnectSession() or closed.
TypeOK ==
  /\ conn \in [Socket -> {"idle", "open", "ended", "closed"}]
  /\ sessions \subseteq Socket
  /\ state \in [Socket -> ConnectionState]
  /\ helloReceived \in [Socket -> BOOLEAN]
  /\ authenticated \in [Socket -> BOOLEAN]
  /\ playerId \in [Socket -> Player \cup {NoPlayer}]
  /\ lastPlayerState \in [Socket -> Data \cup {NoState}]
  /\ resourcesReady \in [Socket -> BOOLEAN]
  /\ heartbeat \in [Socket -> {"fresh", "expired"}]
  /\ serverState \in {"listening", "closing", "closed"}
  /\ told \in [Socket -> [Player -> Seen]]
  /\ toldReady \in [Socket -> SUBSET Socket]

Live(s) == s \in sessions /\ authenticated[s]
Listening(s) == Live(s) /\ Writable(s)
Lasting(s) == authenticated[s] /\ (s \in sessions \/ s \in Late)

\* The sessions Map holds exactly the sockets whose session has not been
\* torn down: no closed socket keeps a session (the gap the "close" handler
\* closes), no session is lost while its socket is open, and after
\* shutdown() none is left.
RegistryMatchesSockets ==
  /\ \A s \in sessions : conn[s] \in {"open", "ended"}
  /\ \A s \in Socket : conn[s] = "open" => s \in sessions
  /\ serverState # "listening" => sessions = {}

\* session.state and the two booleans the protocol guards read never
\* disagree while the session is registered, and a torn-down session stays in
\* the terminal state whatever arrives on its socket (session.js:9-18).
StateMatchesFlags ==
  /\ \A s \in sessions :
       /\ state[s] = "connecting" <=> ~helloReceived[s]
       /\ state[s] = "authenticated" <=> authenticated[s]
       /\ state[s] \notin {"disconnecting", "disconnected"}
  /\ \A s \in Socket \ sessions :
       IF conn[s] = "idle" THEN state[s] = "connecting" ELSE state[s] = "disconnected"

\* No presence event goes to a socket before its session is authenticated.
NothingBeforeAuth ==
  \A s \in Socket : ~authenticated[s] => told[s] = Nobody /\ toldReady[s] = {}

\* Each client has one id of its own: it keeps the id it stored in
\* client-id.txt, and no second connection of it is still registered.
OwnIdentities ==
  /\ \A s \in Socket : \A p, q \in Identity[s] : p = q
  /\ \A s, t \in Socket : s # t => Identity[s] \cap Identity[t] = {}

\* Whoever listens knows every other live player, and with exactly the state
\* that player reported last, however joins, moves, kicks and drops interleave.
PresenceComplete ==
  \A r, s \in Socket :
    Listening(r) /\ Live(s) /\ r # s => told[r][playerId[s]] = lastPlayerState[s]

\* Whoever listens has been told of nobody but live players, except that the
\* messages still under way of a dropped session may bring its player back.
GhostsAreLate ==
  \A r \in Socket, p \in Player :
    Listening(r) /\ told[r][p] # NoEntity => \E s \in Socket \ {r} : Lasting(s) /\ playerId[s] = p

\* Whoever listens has been told of nobody but live players.  So it is only if
\* nothing arrives for a dropped session: otherwise a late auth brings its player
\* back for good (GhostsAreLate says how far that goes).
NoGhost ==
  \A r \in Socket, p \in Player :
    Listening(r) /\ told[r][p] # NoEntity => \E s \in Socket \ {r} : Live(s) /\ playerId[s] = p

\* However a session ends, in the same callback everyone who listens is told
\* that its player left (synchronization.md:78-83).
DropsAreAnnounced ==
  [][\A s \in sessions \ sessions' : authenticated[s] =>
       \A r \in sessions' : Listening(r) => told'[r][playerId[s]] = NoEntity]_vars

\* A client that stops sending heartbeats for good is dropped for good, whatever
\* else it sends.  From then on nobody who listens believes its player is there,
\* unless messages of it are still handled after the drop: the "message" listener
\* takes them (tcpServer.js:46), and a late auth brings the player back for good.
SilentClientVanishes ==
  \A s \in Socket :
    <>[][~Heartbeat(s)]_vars =>
      <>[](/\ s \notin sessions
           /\ \/ s \in Late
              \/ \A r \in Socket : Listening(r) => \A p \in Identity[s] : told[r][p] = NoEntity)
-----------------------------------------------------------------------------
(* The server as a PresenceBoard *)

\* The socket that may carry p, when every client has an id of its own.
Owner(p) == CHOOSE s \in Socket : p \in Identity[s]

Playing(p) == Live(Owner(p)) /\ playerId[Owner(p)] = p

BoardRoster == [p \in Player |-> IF Playing(p) THEN lastPlayerState[Owner(p)] ELSE NoEntity]
BoardOver ==
  {p \in Player : \E s \in Socket : p \in Identity[s] /\ s \notin sessions /\ conn[s] # "idle"}
BoardListeners == {p \in Player : Playing(p) /\ Writable(Owner(p))}
BoardView == [p \in Player |-> IF p \in BoardListeners THEN told[Owner(p)] ELSE Nobody]

Board ==
  INSTANCE PresenceBoard
  WITH Absent <- NoEntity, Unplaced <- NoState,
       roster <- BoardRoster, over <- BoardOver,
       listeners <- BoardListeners, view <- BoardView

\* For clients with ids of their own: broadcasts and backfill, written to one
\* socket after the other by whatever callback runs, amount to one roster that
\* everyone who listens sees change in one step (synchronization.md:65-83), and
\* what is handled of a dropped session (tcpServer.js:46) disturbs nothing but
\* what is said of its own player.
ImplementsBoard == Board!Spec
=============================================================================
