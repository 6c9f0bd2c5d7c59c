--------------------------- MODULE Presence_proofs ---------------------------
(***************************************************************************)
(* Theorems about ServerSessions and PresenceNetwork, for any number of    *)
(* sockets and players: what the server keeps and announces, that it       *)
(* implements PresenceBoard, and that what it announces arrives.           *)
(***************************************************************************)
EXTENDS PresenceNetwork, FiniteSetTheorems, SequenceTheorems, WellFoundedInduction, TLAPS

USE IdentityAssumption, LateAssumption, LoadersAssumption, DataAssumption, PlayerAssumption

-----------------------------------------------------------------------------
(* The helper operators *)

\* transitionTo() yields a state of the table whatever is asked of it.
LEMMA TransitionToType ==
  ASSUME NEW from \in ConnectionState, NEW to
  PROVE  TransitionTo(from, to) \in ConnectionState
BY DEF TransitionTo, TRANSITIONS, ConnectionState

\* disconnectSession() takes every registered state to "disconnected".
LEMMA TeardownReachesDisconnected ==
  ASSUME NEW from \in {"connecting", "authenticating", "authenticated"}
  PROVE  TransitionTo(TransitionTo(from, "disconnecting"), "disconnected") = "disconnected"
BY DEF TransitionTo, TRANSITIONS, ConnectionState

\* Folding an event into a view yields a view.
LEMMA SeeTypes ==
  ASSUME NEW seen \in [Player -> Seen]
  PROVE  /\ \A p : SeeJoined(seen, p) \in [Player -> Seen]
         /\ \A p : \A d \in Data : SeeState(seen, p, d) \in [Player -> Seen]
         /\ \A ps : SeeLeft(seen, ps) \in [Player -> Seen]
BY DEF SeeJoined, SeeState, SeeLeft, Seen

LEMMA DropType ==
  ASSUME TypeOK, NEW X, Drop(X)
  PROVE  /\ sessions' \subseteq Socket
         /\ state' \in [Socket -> ConnectionState]
         /\ told' \in [Socket -> [Player -> Seen]]
<1>1. state' \in [Socket -> ConnectionState]
  BY TransitionToType DEF Drop, TypeOK
<1>2. told' \in [Socket -> [Player -> Seen]]
  <2>1. Nobody \in [Player -> Seen]
    BY DEF Nobody, Seen
  <2> QED BY <2>1, SeeTypes DEF Drop, TypeOK
<1> QED BY <1>1, <1>2 DEF Drop, TypeOK

LEMMA EndedType ==
  ASSUME TypeOK, NEW X
  PROVE  Ended(X) \in [Socket -> {"idle", "open", "ended", "closed"}]
BY DEF Ended, TypeOK
-----------------------------------------------------------------------------
LEMMA InitType == Init => TypeOK
BY DEF Init, TypeOK, Nobody, Seen, ConnectionState

LEMMA NextType == TypeOK /\ [Next]_vars => TypeOK'
<1> SUFFICES ASSUME TypeOK, [Next]_vars PROVE TypeOK'
  OBVIOUS
<1>1. ASSUME NEW s \in Socket, Connect(s) PROVE TypeOK'
  BY <1>1 DEF Connect, TypeOK
<1>2. ASSUME NEW s \in Socket, NEW compatible \in BOOLEAN, Hello(s, compatible) PROVE TypeOK'
  <2>1. CASE compatible
    BY <1>2, <2>1, TransitionToType DEF Hello, TypeOK
  <2>2. CASE ~compatible
    BY <1>2, <2>2, DropType, EndedType DEF Hello, DropOnMessage, TypeOK
  <2> QED BY <2>1, <2>2
<1>3. ASSUME NEW s \in Socket, AuthBeforeHello(s) \/ RequestBeforeAuth(s) \/ DisconnectRequest(s)
      PROVE TypeOK'
  BY <1>3, DropType, EndedType
  DEF AuthBeforeHello, RequestBeforeAuth, DisconnectRequest, DropOnMessage, TypeOK
<1>4. ASSUME NEW s \in Socket, NEW p \in Identity[s], Auth(s, p) PROVE TypeOK'
  <2>1. p \in Player
    OBVIOUS
  <2>2. state' \in [Socket -> ConnectionState]
    BY <1>4, TransitionToType DEF Auth, TypeOK
  <2>3. told' \in [Socket -> [Player -> Seen]]
    <3>1. Backfills(s) \subseteq [Player -> Seen]
      BY DEF Backfills, TypeOK
    <3> QED BY <1>4, <3>1, SeeTypes DEF Auth, TypeOK
  <2> QED BY <1>4, <2>1, <2>2, <2>3 DEF Auth, TypeOK
<1>5. ASSUME NEW s \in Socket, Heartbeat(s) PROVE TypeOK'
  BY <1>5 DEF Heartbeat, TypeOK
<1>6. ASSUME NEW s \in Socket, NEW d \in Data, PlayerState(s, d) PROVE TypeOK'
  <2>1. told' \in [Socket -> [Player -> Seen]]
    BY <1>6, SeeTypes DEF PlayerState, TypeOK
  <2> QED BY <1>6, <2>1 DEF PlayerState, TypeOK
<1>7. ASSUME NEW s \in Socket, ResourcesReady(s) PROVE TypeOK'
  BY <1>7 DEF ResourcesReady, TypeOK
<1>8. ASSUME NEW s \in Socket, SocketClosed(s) PROVE TypeOK'
  BY <1>8, DropType DEF SocketClosed, TypeOK
<1>9. ASSUME NEW s \in Socket, HeartbeatExpires(s) PROVE TypeOK'
  BY <1>9 DEF HeartbeatExpires, TypeOK
<1>10. ASSUME NEW s \in Socket, Kick(s) PROVE TypeOK'
  BY <1>10 DEF Kick, TypeOK
<1>11. ASSUME Watchdog PROVE TypeOK'
  BY <1>11, DropType, EndedType DEF Watchdog, TypeOK
<1>12. ASSUME Shutdown PROVE TypeOK'
  BY <1>12, DropType, EndedType DEF Shutdown, TypeOK
<1>13. ASSUME ServerClosed PROVE TypeOK'
  BY <1>13 DEF ServerClosed, TypeOK
<1>14. ASSUME UNCHANGED vars PROVE TypeOK'
  BY <1>14 DEF vars, TypeOK
<1> QED
  BY <1>1, <1>2, <1>3, <1>4, <1>5, <1>6, <1>7, <1>8, <1>9, <1>10, <1>11, <1>12, <1>13, <1>14
  DEF Next, Message

\* The variables of the server keep their types.
THEOREM TypeCorrect == Spec => []TypeOK
BY InitType, NextType, PTL DEF Spec
-----------------------------------------------------------------------------
(* The registry, the lifecycle and the flags *)

\* A socket that was never accepted has the session constructor's values.
IdleIsFresh ==
  \A s \in Socket : conn[s] = "idle" =>
    state[s] = "connecting" /\ ~helloReceived[s] /\ ~authenticated[s]

LEMMA NextRegistry ==
  TypeOK /\ RegistryMatchesSockets /\ [Next]_vars => RegistryMatchesSockets'
<1> SUFFICES ASSUME TypeOK, RegistryMatchesSockets, [Next]_vars PROVE RegistryMatchesSockets'
  OBVIOUS
<1> USE DEF TypeOK, RegistryMatchesSockets
<1>1. ASSUME NEW s \in Socket, Connect(s) PROVE RegistryMatchesSockets'
  BY <1>1 DEF Connect
<1>2. ASSUME NEW X \in SUBSET Socket, Drop(X), conn' = Ended(X), UNCHANGED serverState
      PROVE  RegistryMatchesSockets'
  BY <1>2 DEF Drop, Ended
<1>3. ASSUME NEW s \in Socket, Message(s) PROVE RegistryMatchesSockets'
  <2>1. ASSUME DropOnMessage(s), UNCHANGED serverState PROVE RegistryMatchesSockets'
    BY <1>2, <2>1 DEF DropOnMessage
  <2>2. ASSUME UNCHANGED <<conn, sessions, serverState>> PROVE RegistryMatchesSockets'
    BY <2>2
  <2> QED
    BY <1>3, <2>1, <2>2
    DEF Message, Hello, AuthBeforeHello, Auth, Heartbeat, RequestBeforeAuth, PlayerState,
        ResourcesReady, DisconnectRequest
<1>4. ASSUME NEW s \in Socket, SocketClosed(s) PROVE RegistryMatchesSockets'
  BY <1>4 DEF SocketClosed, Drop
<1>5. ASSUME NEW s \in Socket, HeartbeatExpires(s) \/ Kick(s) PROVE RegistryMatchesSockets'
  BY <1>5 DEF HeartbeatExpires, Kick
<1>6. ASSUME Watchdog PROVE RegistryMatchesSockets'
  BY <1>2, <1>6 DEF Watchdog
<1>7. ASSUME Shutdown PROVE RegistryMatchesSockets'
  BY <1>7 DEF Shutdown, Drop, Ended
<1>8. ASSUME ServerClosed PROVE RegistryMatchesSockets'
  BY <1>8 DEF ServerClosed
<1>9. ASSUME UNCHANGED vars PROVE RegistryMatchesSockets'
  BY <1>9 DEF vars
<1> QED
  BY <1>1, <1>3, <1>4, <1>5, <1>6, <1>7, <1>8, <1>9 DEF Next

\* The registry holds exactly the sessions that were not torn down, and
\* nothing once the server shuts down.
THEOREM RegistryCorrect == Spec => []RegistryMatchesSockets
<1>1. Init => RegistryMatchesSockets
  BY DEF Init, RegistryMatchesSockets
<1> QED BY <1>1, TypeCorrect, NextRegistry, PTL DEF Spec

Lifecycle == TypeOK /\ RegistryMatchesSockets /\ IdleIsFresh /\ StateMatchesFlags

LEMMA DropLifecycle ==
  ASSUME Lifecycle, NEW X \in SUBSET Socket, Drop(X),
         \A s \in Socket : conn'[s] = conn[s] \/ (conn[s] # "idle" /\ conn'[s] # "idle"),
         \A s \in Socket \ X : UNCHANGED <<helloReceived[s], authenticated[s]>>,
         \A s \in Socket : conn[s] = "idle" => UNCHANGED <<helloReceived[s], authenticated[s]>>
  PROVE  IdleIsFresh' /\ StateMatchesFlags'
<1> USE DEF Lifecycle, TypeOK, IdleIsFresh, StateMatchesFlags, RegistryMatchesSockets
<1>1. \A s \in X \cap sessions : state'[s] = "disconnected"
  <2> SUFFICES ASSUME NEW s \in X \cap sessions PROVE state'[s] = "disconnected"
    OBVIOUS
  <2>1. state[s] \in {"connecting", "authenticating", "authenticated"}
    BY DEF ConnectionState
  <2> QED BY <2>1, TeardownReachesDisconnected DEF Drop
<1>2. \A s \in Socket \ (X \cap sessions) : state'[s] = state[s]
  BY DEF Drop
<1>3. sessions' = sessions \ X
  BY DEF Drop
<1> QED BY <1>1, <1>2, <1>3

LEMMA NextLifecycle == Lifecycle /\ [Next]_vars => IdleIsFresh' /\ StateMatchesFlags'
<1> SUFFICES ASSUME Lifecycle, [Next]_vars PROVE IdleIsFresh' /\ StateMatchesFlags'
  OBVIOUS
<1> USE DEF Lifecycle, TypeOK
<1>1. ASSUME NEW s \in Socket, Connect(s) PROVE IdleIsFresh' /\ StateMatchesFlags'
  BY <1>1 DEF Connect, IdleIsFresh, StateMatchesFlags, RegistryMatchesSockets
<1>2. ASSUME NEW s \in Socket, NEW compatible \in BOOLEAN, Hello(s, compatible)
      PROVE IdleIsFresh' /\ StateMatchesFlags'
  <2>1. CASE compatible
    BY <1>2, <2>1
    DEF Hello, IdleIsFresh, StateMatchesFlags, Receives, TransitionTo, TRANSITIONS, ConnectionState
  <2>2. CASE ~compatible
    BY <1>2, <2>2, DropLifecycle DEF Hello, DropOnMessage, Receives, Ended
  <2> QED BY <2>1, <2>2
<1>3. ASSUME NEW s \in Socket, AuthBeforeHello(s) \/ RequestBeforeAuth(s) \/ DisconnectRequest(s)
      PROVE IdleIsFresh' /\ StateMatchesFlags'
  BY <1>3, DropLifecycle
  DEF AuthBeforeHello, RequestBeforeAuth, DisconnectRequest, DropOnMessage, Receives, Ended
<1>4. ASSUME NEW s \in Socket, NEW p \in Identity[s], Auth(s, p)
      PROVE IdleIsFresh' /\ StateMatchesFlags'
  BY <1>4
  DEF Auth, IdleIsFresh, StateMatchesFlags, Receives, TransitionTo, TRANSITIONS, ConnectionState
<1>5. ASSUME NEW s \in Socket, SocketClosed(s) PROVE IdleIsFresh' /\ StateMatchesFlags'
  BY <1>5, DropLifecycle DEF SocketClosed
<1>6. ASSUME Watchdog PROVE IdleIsFresh' /\ StateMatchesFlags'
  <2>1. \A s \in Socket : conn'[s] = conn[s] \/ (conn[s] # "idle" /\ conn'[s] # "idle")
    BY <1>6 DEF Watchdog, Ended, RegistryMatchesSockets
  <2> QED BY <1>6, <2>1, DropLifecycle DEF Watchdog
<1>7. ASSUME Shutdown PROVE IdleIsFresh' /\ StateMatchesFlags'
  <2>1. \A s \in Socket : conn'[s] = conn[s] \/ (conn[s] # "idle" /\ conn'[s] # "idle")
    BY <1>7 DEF Shutdown, Ended, RegistryMatchesSockets
  <2> QED BY <1>7, <2>1, DropLifecycle DEF Shutdown
<1>8. ASSUME NEW s \in Socket, Kick(s) PROVE IdleIsFresh' /\ StateMatchesFlags'
  BY <1>8 DEF Kick, IdleIsFresh, StateMatchesFlags, RegistryMatchesSockets
<1>9. ASSUME UNCHANGED <<conn, sessions, state, helloReceived, authenticated>>
      PROVE IdleIsFresh' /\ StateMatchesFlags'
  BY <1>9 DEF IdleIsFresh, StateMatchesFlags
<1> QED
  BY <1>1, <1>2, <1>3, <1>4, <1>5, <1>6, <1>7, <1>8, <1>9
  DEF Next, Message, Heartbeat, PlayerState, ResourcesReady, HeartbeatExpires, ServerClosed, vars

LEMMA LifecycleCorrect == Spec => []Lifecycle
<1>1. Init => Lifecycle
  BY InitType DEF Init, Lifecycle, RegistryMatchesSockets, IdleIsFresh, StateMatchesFlags
<1>2. Lifecycle /\ [Next]_vars => Lifecycle'
  BY NextType, NextRegistry, NextLifecycle DEF Lifecycle
<1> QED BY <1>1, <1>2, PTL DEF Spec

\* The named lifecycle and the flags never disagree, and a torn-down session
\* stays in its terminal state.
THEOREM StateFlagsCorrect == Spec => []StateMatchesFlags
BY LifecycleCorrect, PTL DEF Lifecycle
-----------------------------------------------------------------------------
(* What has been told, and to whom *)

LEMMA NextNothingBeforeAuth == TypeOK /\ NothingBeforeAuth /\ [Next]_vars => NothingBeforeAuth'
<1> SUFFICES ASSUME TypeOK, NothingBeforeAuth, [Next]_vars PROVE NothingBeforeAuth'
  OBVIOUS
<1> USE DEF TypeOK, NothingBeforeAuth
<1>1. ASSUME NEW X, Drop(X), UNCHANGED <<authenticated, toldReady>> PROVE NothingBeforeAuth'
  BY <1>1 DEF Drop, Audience
<1>2. ASSUME NEW s \in Socket, NEW p \in Identity[s], Auth(s, p) PROVE NothingBeforeAuth'
  BY <1>2 DEF Auth, Audience
<1>3. ASSUME NEW s \in Socket, NEW d \in Data, PlayerState(s, d) PROVE NothingBeforeAuth'
  BY <1>3 DEF PlayerState, Audience
<1>4. ASSUME NEW s \in Socket, ResourcesReady(s) PROVE NothingBeforeAuth'
  BY <1>4 DEF ResourcesReady, Audience
<1>5. ASSUME UNCHANGED <<authenticated, told, toldReady>> PROVE NothingBeforeAuth'
  BY <1>5
<1> QED
  BY <1>1, <1>2, <1>3, <1>4, <1>5
  DEF Next, Message, Connect, Hello, AuthBeforeHello, Heartbeat, RequestBeforeAuth,
      DisconnectRequest, DropOnMessage, SocketClosed, HeartbeatExpires, Kick, Watchdog,
      Shutdown, ServerClosed, vars

\* No presence event is written to a socket before its session is authenticated.
THEOREM NothingBeforeAuthCorrect == Spec => []NothingBeforeAuth
<1>1. Init => NothingBeforeAuth
  BY DEF Init, NothingBeforeAuth
<1> QED BY <1>1, TypeCorrect, NextNothingBeforeAuth, PTL DEF Spec

\* An authenticated session carries one of the ids its client may be issued.
IssuedIds == \A s \in Socket : authenticated[s] => playerId[s] \in Identity[s]

LEMMA NextIssuedIds == TypeOK /\ IssuedIds /\ [Next]_vars => IssuedIds'
<1> SUFFICES ASSUME TypeOK, IssuedIds, [Next]_vars PROVE IssuedIds'
  OBVIOUS
<1> USE DEF TypeOK, IssuedIds
<1>1. ASSUME NEW s \in Socket, NEW p \in Identity[s], Auth(s, p) PROVE IssuedIds'
  BY <1>1 DEF Auth
<1>2. ASSUME UNCHANGED <<authenticated, playerId>> PROVE IssuedIds'
  BY <1>2
<1> QED
  BY <1>1, <1>2
  DEF Next, Message, Connect, Hello, AuthBeforeHello, Heartbeat, RequestBeforeAuth, PlayerState,
      ResourcesReady, DisconnectRequest, SocketClosed, HeartbeatExpires, Kick, Watchdog,
      Shutdown, ServerClosed, vars

LEMMA IssuedIdsCorrect == Spec => []IssuedIds
<1>1. Init => IssuedIds
  BY DEF Init, IssuedIds
<1> QED BY <1>1, TypeCorrect, NextIssuedIds, PTL DEF Spec

LEMMA DropAnnounces ==
  ASSUME TypeOK, IssuedIds, NEW X, Drop(X),
         NEW s \in sessions \ sessions', authenticated[s],
         NEW r \in sessions', Listening(r)
  PROVE  told'[r][playerId[s]] = NoEntity
<1>1. s \in X \cap sessions /\ r \in Audience \ X
  BY DEF Drop, Listening, Live, Audience, TypeOK
<1>2. playerId[s] \in Player
  BY DEF IssuedIds, TypeOK
<1> QED BY <1>1, <1>2 DEF Drop, SeeLeft, TypeOK

\* However a session ends, in the same callback everyone who listens is told
\* that its player left.
THEOREM DropsAnnounced == Spec => DropsAreAnnounced
<1> DEFINE Announced ==
      \A s \in sessions \ sessions' : authenticated[s] =>
        \A r \in sessions' : Listening(r) => told'[r][playerId[s]] = NoEntity
<1>1. TypeOK /\ IssuedIds /\ [Next]_vars => [Announced]_vars
  <2> SUFFICES ASSUME TypeOK, IssuedIds, [Next]_vars PROVE Announced
    OBVIOUS
  <2>1. ASSUME NEW X, Drop(X) PROVE Announced
    BY <2>1, DropAnnounces
  <2>2. ASSUME sessions \subseteq sessions' PROVE Announced
    BY <2>2
  <2> QED
    BY <2>1, <2>2
    DEF Next, Message, Connect, Hello, AuthBeforeHello, Auth, Heartbeat, RequestBeforeAuth,
        PlayerState, ResourcesReady, DisconnectRequest, DropOnMessage, SocketClosed,
        HeartbeatExpires, Kick, Watchdog, Shutdown, ServerClosed, vars
<1> QED BY <1>1, TypeCorrect, IssuedIdsCorrect, PTL DEF Spec, DropsAreAnnounced
-----------------------------------------------------------------------------
(* Presence, for clients with ids of their own *)

\* What the events say of a player comes from its own session alone: before
\* that session is authenticated they say nothing, and it reported nothing.
OnlyOwnEvents ==
  \A s \in Socket : ~authenticated[s] =>
    /\ lastPlayerState[s] = NoState
    /\ \A r \in Socket : \A p \in Identity[s] : told[r][p] = NoEntity

PresenceInv ==
  TypeOK /\ IssuedIds /\ NothingBeforeAuth /\ OnlyOwnEvents /\ PresenceComplete

LEMMA OwnIdentityDistinct ==
  ASSUME OwnIdentities, IssuedIds, TypeOK,
         NEW s \in Socket, NEW t \in Socket, authenticated[s]
  PROVE  /\ playerId[s] \in Player
         /\ \A p \in Identity[t] : p = playerId[s] <=> s = t
BY DEF OwnIdentities, IssuedIds, TypeOK

LEMMA DropPresence ==
  ASSUME OwnIdentities, PresenceInv, NEW X, Drop(X),
         UNCHANGED <<authenticated, playerId, lastPlayerState>>,
         \A r \in Socket : conn'[r] = "open" => conn[r] = "open"
  PROVE  OnlyOwnEvents' /\ PresenceComplete'
<1> USE DEF PresenceInv
<1>1. OnlyOwnEvents'
  BY DEF OnlyOwnEvents, Drop, SeeLeft, Nobody, TypeOK
<1>2. PresenceComplete'
  <2> SUFFICES ASSUME NEW r \in Socket, NEW s \in Socket, r # s, Listening(r)', Live(s)'
               PROVE  told'[r][playerId[s]] = lastPlayerState[s]
    BY DEF PresenceComplete
  <2>1. r \in Audience \ X /\ s \in sessions \ X /\ Listening(r) /\ Live(s)
    BY DEF Listening, Live, Writable, Audience, Drop
  <2>2. told[r][playerId[s]] = lastPlayerState[s]
    BY <2>1 DEF PresenceComplete
  <2>3. playerId[s] \in Player
    BY <2>1, OwnIdentityDistinct DEF Live
  <2>4. playerId[s] \notin {playerId[g] : g \in {h \in X \cap sessions : authenticated[h]}}
    BY <2>1 DEF Live, OwnIdentities, IssuedIds, TypeOK
  <2> QED BY <2>1, <2>2, <2>3, <2>4 DEF Drop, SeeLeft, TypeOK
<1> QED BY <1>1, <1>2

LEMMA AuthPresence ==
  ASSUME OwnIdentities, PresenceInv, NEW a \in Socket, NEW p \in Identity[a], Auth(a, p)
  PROVE  OnlyOwnEvents' /\ PresenceComplete'
<1> USE DEF PresenceInv
<1>1. PICK b \in Backfills(a) :
        told' = [r \in Socket |-> IF r = a THEN b
                                  ELSE IF r \in Audience THEN SeeJoined(told[r], p)
                                  ELSE told[r]]
  BY DEF Auth
<1>2. \A q \in Player : Writable(a) => b[q] \in Backfilled(a, q)
  BY DEF Backfills
<1>3. p \in Player /\ \A t \in Socket : p \in Identity[t] <=> t = a
  BY DEF OwnIdentities
<1>4. OnlyOwnEvents'
  <2> SUFFICES ASSUME NEW s \in Socket, ~authenticated'[s]
               PROVE  /\ lastPlayerState'[s] = NoState
                      /\ \A r \in Socket : \A q \in Identity[s] : told'[r][q] = NoEntity
    BY DEF OnlyOwnEvents
  <2>1. s # a /\ ~authenticated[s]
    BY DEF Auth, TypeOK
  <2>2. ASSUME NEW q \in Identity[s] PROVE b[q] = NoEntity
    <3>1. q \in Player /\ told[a][q] = NoEntity
      BY <2>1 DEF OnlyOwnEvents
    <3>2. {o \in sessions \ {a} : authenticated[o] /\ playerId[o] = q} = {}
      BY <2>1, OwnIdentityDistinct DEF TypeOK
    <3>3. Backfilled(a, q) = {told[a][q]}
      BY <3>2 DEF Backfilled
    <3> QED BY <1>2, <3>1, <3>3 DEF Backfills
  <2>3. ASSUME NEW r \in Socket, r # a, NEW q \in Identity[s] PROVE told'[r][q] = NoEntity
    <3>1. q # p /\ q \in Player
      BY <1>3, <2>1
    <3> QED BY <1>1, <2>1, <2>3, <3>1 DEF OnlyOwnEvents, SeeJoined, TypeOK
  <2> QED BY <1>1, <2>1, <2>2, <2>3 DEF OnlyOwnEvents, Auth
<1>5. PresenceComplete'
  <2> SUFFICES ASSUME NEW r \in Socket, NEW s \in Socket, r # s, Listening(r)', Live(s)'
               PROVE  told'[r][playerId'[s]] = lastPlayerState[s]
    BY DEF PresenceComplete, Auth
  <2>1. Writable(r) /\ r \in sessions /\ s \in sessions
    BY DEF Listening, Live, Writable, Auth
  <2>2. CASE r = a
    <3>1. authenticated[s] /\ playerId'[s] = playerId[s] /\ playerId[s] \in Player
      BY <2>2, OwnIdentityDistinct DEF Live, Auth, TypeOK
    <3>2. {o \in sessions \ {a} : authenticated[o] /\ playerId[o] = playerId[s]} = {s}
      BY <2>1, <2>2, <3>1, OwnIdentityDistinct DEF IssuedIds, TypeOK
    <3>3. b[playerId[s]] \in Backfilled(a, playerId[s])
      BY <1>2, <2>1, <2>2, <3>1
    <3>4. CASE lastPlayerState[s] # NoState
      BY <1>1, <2>2, <3>1, <3>2, <3>3, <3>4 DEF Backfilled
    <3>5. CASE lastPlayerState[s] = NoState
      <4>1. b[playerId[s]] = SeeJoined(told[a], playerId[s])[playerId[s]]
        BY <3>2, <3>3, <3>5 DEF Backfilled
      <4>2. told[a][playerId[s]] \in {NoEntity, NoState}
        <5>1. CASE authenticated[a]
          BY <2>1, <2>2, <3>1, <3>5, <5>1 DEF PresenceComplete, Listening, Live
        <5>2. CASE ~authenticated[a]
          BY <3>1, <5>2 DEF NothingBeforeAuth, Nobody
        <5> QED BY <5>1, <5>2
      <4> QED BY <1>1, <2>2, <3>1, <3>5, <4>1, <4>2 DEF SeeJoined, TypeOK
    <3> QED BY <3>4, <3>5
  <2>3. CASE r # a
    <3>1. r \in Audience /\ Listening(r)
      BY <2>1, <2>3 DEF Audience, Listening, Live, Auth, TypeOK
    <3>2. CASE s = a
      <4>1. told[r][p] \in {NoEntity, lastPlayerState[s]}
        <5>1. CASE authenticated[a]
          <6>1. playerId[a] = p
            BY <1>3, <5>1 DEF IssuedIds, OwnIdentities
          <6> QED BY <2>1, <3>1, <3>2, <5>1, <6>1 DEF PresenceComplete, Live
        <5>2. CASE ~authenticated[a]
          BY <5>2 DEF OnlyOwnEvents
        <5> QED BY <5>1, <5>2
      <4>2. told[r][p] = NoEntity => lastPlayerState[s] = NoState
        <5>1. CASE authenticated[a]
          <6>1. playerId[a] = p
            BY <1>3, <5>1 DEF IssuedIds, OwnIdentities
          <6> QED BY <2>1, <3>1, <3>2, <5>1, <6>1 DEF PresenceComplete, Live, TypeOK
        <5>2. CASE ~authenticated[a]
          BY <3>2, <5>2 DEF OnlyOwnEvents
        <5> QED BY <5>1, <5>2
      <4>3. playerId'[s] = p
        BY <3>2 DEF Auth, TypeOK
      <4>4. lastPlayerState[s] # NoEntity
        BY DEF TypeOK, NoEntity, NoState
      <4> QED BY <1>1, <1>3, <2>3, <3>1, <4>1, <4>2, <4>3, <4>4 DEF SeeJoined, TypeOK
    <3>3. CASE s # a
      <4>1. Live(s) /\ playerId'[s] = playerId[s] /\ playerId[s] \in Player /\ playerId[s] # p
        BY <2>1, <3>3, OwnIdentityDistinct DEF Live, Auth, TypeOK
      <4>2. told[r][playerId[s]] = lastPlayerState[s]
        BY <3>1, <4>1 DEF PresenceComplete
      <4> QED BY <1>1, <2>3, <3>1, <4>1, <4>2 DEF SeeJoined, TypeOK
    <3> QED BY <3>2, <3>3
  <2> QED BY <2>2, <2>3
<1> QED BY <1>4, <1>5

LEMMA StatePresence ==
  ASSUME OwnIdentities, PresenceInv, NEW a \in Socket, NEW d \in Data, PlayerState(a, d)
  PROVE  OnlyOwnEvents' /\ PresenceComplete'
<1> USE DEF PresenceInv
<1>1. playerId[a] \in Player /\ authenticated[a]
  BY OwnIdentityDistinct DEF PlayerState
<1>2. OnlyOwnEvents'
  <2> SUFFICES ASSUME NEW s \in Socket, ~authenticated[s]
               PROVE  /\ lastPlayerState'[s] = NoState
                      /\ \A r \in Socket : \A q \in Identity[s] : told'[r][q] = NoEntity
    BY DEF OnlyOwnEvents, PlayerState
  <2>1. s # a /\ \A q \in Identity[s] : q # playerId[a] /\ q \in Player
    BY <1>1, OwnIdentityDistinct
  <2> QED BY <1>1, <2>1 DEF PlayerState, OnlyOwnEvents, SeeState, TypeOK
<1>3. PresenceComplete'
  <2> SUFFICES ASSUME NEW r \in Socket, NEW s \in Socket, r # s, Listening(r), Live(s)
               PROVE  told'[r][playerId[s]] = lastPlayerState'[s]
    BY DEF PresenceComplete, PlayerState, Listening, Live, Writable
  <2>1. r \in Audience /\ playerId[s] \in Player
    BY OwnIdentityDistinct DEF Listening, Live, Audience
  <2>2. CASE s = a
    BY <2>1, <2>2 DEF PlayerState, SeeState, TypeOK
  <2>3. CASE s # a
    <3>1. playerId[s] # playerId[a]
      BY <1>1, <2>3, OwnIdentityDistinct DEF Live, IssuedIds
    <3>2. told[r][playerId[s]] = lastPlayerState[s]
      BY DEF PresenceComplete
    <3> QED BY <1>1, <2>1, <2>3, <3>1, <3>2 DEF PlayerState, SeeState, TypeOK
  <2> QED BY <2>2, <2>3
<1> QED BY <1>2, <1>3

LEMMA NextPresence ==
  ASSUME OwnIdentities
  PROVE  Lifecycle /\ PresenceInv /\ [Next]_vars => OnlyOwnEvents' /\ PresenceComplete'
<1> SUFFICES ASSUME Lifecycle, PresenceInv, [Next]_vars PROVE OnlyOwnEvents' /\ PresenceComplete'
  OBVIOUS
<1> USE DEF PresenceInv
<1>1. ASSUME NEW s \in Socket, Connect(s) PROVE OnlyOwnEvents' /\ PresenceComplete'
  BY <1>1
  DEF Connect, OnlyOwnEvents, PresenceComplete, Listening, Live, Writable, Lifecycle, IdleIsFresh, TypeOK
<1>2. ASSUME NEW s \in Socket, Kick(s) PROVE OnlyOwnEvents' /\ PresenceComplete'
  BY <1>2 DEF Kick, OnlyOwnEvents, PresenceComplete, Listening, Live, Writable, TypeOK
<1>3. ASSUME NEW X, Drop(X), conn' = Ended(X),
             UNCHANGED <<authenticated, playerId, lastPlayerState>>
      PROVE  OnlyOwnEvents' /\ PresenceComplete'
  BY <1>3, DropPresence DEF Ended
<1>4. ASSUME NEW s \in Socket, SocketClosed(s) PROVE OnlyOwnEvents' /\ PresenceComplete'
  BY <1>4, DropPresence DEF SocketClosed, TypeOK
<1>5. ASSUME UNCHANGED <<conn, sessions, authenticated, playerId, lastPlayerState, told>>
      PROVE  OnlyOwnEvents' /\ PresenceComplete'
  BY <1>5 DEF OnlyOwnEvents, PresenceComplete, Listening, Live, Writable
<1>6. ASSUME NEW s \in Socket, Message(s) PROVE OnlyOwnEvents' /\ PresenceComplete'
  BY <1>3, <1>5, <1>6, AuthPresence, StatePresence
  DEF Message, Hello, AuthBeforeHello, Heartbeat, RequestBeforeAuth, ResourcesReady,
      DisconnectRequest, DropOnMessage
<1>7. ASSUME Watchdog \/ Shutdown PROVE OnlyOwnEvents' /\ PresenceComplete'
  BY <1>3, <1>7 DEF Watchdog, Shutdown
<1> QED
  BY <1>1, <1>2, <1>4, <1>5, <1>6, <1>7 DEF Next, HeartbeatExpires, ServerClosed, vars

LEMMA PresenceInvCorrect ==
  ASSUME OwnIdentities
  PROVE  Spec => []PresenceInv
<1>1. Init => PresenceInv
  BY InitType
  DEF Init, PresenceInv, IssuedIds, NothingBeforeAuth, OnlyOwnEvents, PresenceComplete,
      Listening, Live, Nobody
<1>2. Lifecycle /\ PresenceInv /\ [Next]_vars => PresenceInv'
  BY NextType, NextIssuedIds, NextNothingBeforeAuth, NextPresence DEF PresenceInv
<1> QED BY <1>1, <1>2, LifecycleCorrect, PTL DEF Spec

\* For clients with ids of their own: whoever listens knows every other live
\* player, with exactly the state that player reported last.
THEOREM PresenceCompleteCorrect ==
  ASSUME OwnIdentities
  PROVE  Spec => []PresenceComplete
BY PresenceInvCorrect, PTL DEF PresenceInv
-----------------------------------------------------------------------------
(* No ghosts, but those of messages that arrive after a session was dropped *)

LEMMA NextGhosts ==
  ASSUME OwnIdentities
  PROVE  Lifecycle /\ PresenceInv /\ GhostsAreLate /\ [Next]_vars => GhostsAreLate'
<1> SUFFICES ASSUME Lifecycle, PresenceInv, GhostsAreLate, [Next]_vars PROVE GhostsAreLate'
  OBVIOUS
<1> USE DEF PresenceInv
<1>1. ASSUME NEW s \in Socket, Connect(s) PROVE GhostsAreLate'
  BY <1>1 DEF Connect, GhostsAreLate, Lasting, Listening, Live, Writable, Lifecycle, IdleIsFresh, TypeOK
<1>2. ASSUME NEW s \in Socket, Kick(s) PROVE GhostsAreLate'
  BY <1>2 DEF Kick, GhostsAreLate, Lasting, Listening, Live, Writable, TypeOK
<1>3. ASSUME NEW X, Drop(X), UNCHANGED <<authenticated, playerId>>,
             \A r \in Socket : conn'[r] = "open" => conn[r] = "open"
      PROVE  GhostsAreLate'
  <2> SUFFICES ASSUME NEW r \in Socket, NEW p \in Player, Listening(r)', told'[r][p] # NoEntity
               PROVE  \E s \in Socket \ {r} : Lasting(s)' /\ playerId[s] = p
    BY <1>3 DEF GhostsAreLate
  <2> DEFINE left == {playerId[s] : s \in {g \in X \cap sessions : authenticated[g]}}
  <2>1. r \in Audience \ X /\ Listening(r)
    BY <1>3 DEF Listening, Live, Writable, Audience, Drop
  <2>2. told'[r] = SeeLeft(told[r], left)
    BY <1>3, <2>1 DEF Drop, Audience, TypeOK
  <2>3. told[r][p] # NoEntity /\ p \notin left
    BY <2>2 DEF SeeLeft
  <2>4. PICK s \in Socket \ {r} : Lasting(s) /\ playerId[s] = p
    BY <2>1, <2>3 DEF GhostsAreLate
  <2>5. s \notin X \cap sessions
    BY <2>3, <2>4 DEF Lasting
  <2> QED BY <1>3, <2>4, <2>5 DEF Lasting, Drop
<1>4. ASSUME NEW X, Drop(X), conn' = Ended(X), UNCHANGED <<authenticated, playerId>> PROVE GhostsAreLate'
  BY <1>3, <1>4 DEF Ended
<1>5. ASSUME NEW s \in Socket, SocketClosed(s) PROVE GhostsAreLate'
  BY <1>3, <1>5 DEF SocketClosed, TypeOK
<1>6. ASSUME NEW a \in Socket, NEW p \in Identity[a], Auth(a, p) PROVE GhostsAreLate'
  <2> SUFFICES ASSUME NEW r \in Socket, NEW q \in Player, Listening(r)', told'[r][q] # NoEntity
               PROVE  \E s \in Socket \ {r} : Lasting(s)' /\ playerId'[s] = q
    BY DEF GhostsAreLate
  <2>1. Lasting(a)' /\ playerId'[a] = p
    BY <1>6 DEF Auth, Receives, Lasting, TypeOK
  <2>2. ASSUME NEW s \in Socket, Lasting(s) PROVE Lasting(s)' /\ playerId'[s] = playerId[s]
    <3>1. authenticated[a] => playerId[a] = p
      BY DEF IssuedIds, OwnIdentities
    <3> QED BY <1>6, <2>2, <3>1 DEF Auth, Lasting, TypeOK
  <2>3. PICK b \in Backfills(a) :
          told' = [x \in Socket |-> IF x = a THEN b
                                    ELSE IF x \in Audience THEN SeeJoined(told[x], p)
                                    ELSE told[x]]
    BY <1>6 DEF Auth
  <2>4. CASE r = a
    <3>1. b[q] \in Backfilled(a, q) /\ b[q] # NoEntity
      BY <1>6, <2>3, <2>4 DEF Backfills, Listening, Writable, Auth
    <3>2. CASE {o \in sessions \ {a} : authenticated[o] /\ playerId[o] = q} # {}
      BY <2>2, <2>4, <3>2 DEF Lasting, TypeOK
    <3>3. CASE {o \in sessions \ {a} : authenticated[o] /\ playerId[o] = q} = {}
      <4>1. told[a][q] # NoEntity
        BY <3>1, <3>3 DEF Backfilled
      <4>2. authenticated[a]
        BY <4>1 DEF NothingBeforeAuth, Nobody
      <4>3. Listening(a)
        BY <1>6, <2>1, <2>4, <4>2 DEF Listening, Live, Writable, Auth
      <4> QED BY <2>2, <2>4, <4>1, <4>3 DEF GhostsAreLate
    <3> QED BY <3>2, <3>3
  <2>5. CASE r # a
    <3>1. r \in Audience /\ Listening(r)
      BY <1>6, <2>5 DEF Audience, Listening, Live, Writable, Auth, TypeOK
    <3>2. CASE q = p
      BY <2>1, <2>5, <3>2
    <3>3. CASE q # p
      <4>1. told[r][q] # NoEntity
        BY <2>3, <2>5, <3>1, <3>3 DEF SeeJoined, TypeOK
      <4> QED BY <2>2, <3>1, <4>1 DEF GhostsAreLate
    <3> QED BY <3>2, <3>3
  <2> QED BY <2>4, <2>5
<1>7. ASSUME NEW a \in Socket, NEW d \in Data, PlayerState(a, d) PROVE GhostsAreLate'
  <2> SUFFICES ASSUME NEW r \in Socket, NEW q \in Player, Listening(r), told'[r][q] # NoEntity
               PROVE  \E s \in Socket \ {r} : Lasting(s) /\ playerId[s] = q
    BY <1>7 DEF GhostsAreLate, Lasting, PlayerState, Listening, Live, Writable
  <2>1. Lasting(a) /\ playerId[a] \in Player
    BY <1>7, OwnIdentityDistinct DEF PlayerState, Receives, Lasting
  <2>2. CASE r # a /\ q = playerId[a]
    BY <2>1, <2>2
  <2>3. CASE r = a \/ q # playerId[a]
    <3>1. told[r][q] # NoEntity
      BY <1>7, <2>1, <2>3 DEF PlayerState, SeeState, TypeOK
    <3> QED BY <3>1 DEF GhostsAreLate
  <2> QED BY <2>2, <2>3
<1>8. ASSUME UNCHANGED <<conn, sessions, authenticated, playerId, told>> PROVE GhostsAreLate'
  BY <1>8 DEF GhostsAreLate, Lasting, Listening, Live, Writable
<1>9. ASSUME NEW s \in Socket, Message(s) PROVE GhostsAreLate'
  BY <1>4, <1>6, <1>7, <1>8, <1>9
  DEF Message, Hello, AuthBeforeHello, Heartbeat, RequestBeforeAuth, ResourcesReady,
      DisconnectRequest, DropOnMessage
<1>10. ASSUME Watchdog \/ Shutdown PROVE GhostsAreLate'
  BY <1>4, <1>10 DEF Watchdog, Shutdown
<1> QED
  BY <1>1, <1>2, <1>5, <1>8, <1>9, <1>10 DEF Next, HeartbeatExpires, ServerClosed, vars

\* For clients with ids of their own: whoever listens has been told of nobody
\* but live players and those whose messages arrive late.
THEOREM GhostsAreLateCorrect ==
  ASSUME OwnIdentities
  PROVE  Spec => []GhostsAreLate
<1>1. Init => GhostsAreLate
  BY DEF Init, GhostsAreLate, Listening, Live
<1> QED BY <1>1, LifecycleCorrect, PresenceInvCorrect, NextGhosts, PTL DEF Spec
-----------------------------------------------------------------------------
(***************************************************************************)
(* ServerSessions implements PresenceBoard if every client has an id of    *)
(* its own.  Which messages arrive after their session was dropped is not  *)
(* restricted: they are the steps in which the board is haunted.           *)
(***************************************************************************)
BoardInv == Lifecycle /\ PresenceInv

\* A socket that carries an id is its owner.
LEMMA OwnerOfIssued ==
  ASSUME OwnIdentities, NEW s \in Socket, NEW p \in Identity[s]
  PROVE  Owner(p) = s
<1>1. Owner(p) \in Socket /\ p \in Identity[Owner(p)]
  BY DEF Owner
<1> QED BY <1>1 DEF OwnIdentities

LEMMA ReportedIsPresent ==
  ASSUME TypeOK, NEW s \in Socket
  PROVE  lastPlayerState[s] # NoEntity
<1>1. NoState # NoEntity
  BY DEF NoState, NoEntity
<1> QED BY <1>1 DEF TypeOK

LEMMA OwnerOfCarried ==
  ASSUME OwnIdentities, TypeOK, IssuedIds, NEW s \in Socket, authenticated[s]
  PROVE  playerId[s] \in Player /\ Owner(playerId[s]) = s
BY OwnerOfIssued, OwnIdentityDistinct DEF IssuedIds

\* Who is on the board's list has a socket of its own, which listens.
LEMMA ListenerListens ==
  ASSUME TypeOK, NEW l \in BoardListeners
  PROVE  /\ l \in Player /\ Owner(l) \in Socket /\ playerId[Owner(l)] = l
         /\ Listening(Owner(l)) /\ Owner(l) \in Audience
         /\ told[Owner(l)] \in [Player -> Seen]
BY DEF BoardListeners, Playing, Listening, Live, Audience, TypeOK

\* A listener's player is on the roster in the state it reported last.
LEMMA RosterOfOwner ==
  ASSUME OwnIdentities, TypeOK, IssuedIds, NEW s \in Socket, Live(s)
  PROVE  playerId[s] \in Player /\ Playing(playerId[s]) /\ BoardRoster[playerId[s]] = lastPlayerState[s]
BY OwnerOfCarried DEF Live, Playing, BoardRoster

LEMMA OverIsOwned ==
  ASSUME OwnIdentities, NEW s \in Socket, NEW p \in Identity[s]
  PROVE  p \in BoardOver <=> s \notin sessions /\ conn[s] # "idle"
BY DEF BoardOver, OwnIdentities

\* A step that changes none of what the mapping reads of a listener is one of
\* the board if it is one for each listener.
LEMMA HearsByListener ==
  ASSUME NEW P,
         \A l \in BoardListeners' :
           told'[Owner(l)] = IF l \notin BoardListeners THEN Board!Shown(l)
                             ELSE [q \in Player |-> IF q \in P \ {l} THEN BoardRoster'[q]
                                                    ELSE told[Owner(l)][q]]
  PROVE  Board!Hear(P)
<1> SUFFICES ASSUME NEW l \in Player
             PROVE  BoardView'[l] = IF l \notin BoardListeners' THEN Board!Nothing
                                    ELSE IF l \notin BoardListeners THEN Board!Shown(l)
                                    ELSE Board!Hearing(l, P)
  BY DEF Board!Hear, BoardView
<1>1. CASE l \notin BoardListeners'
  BY <1>1 DEF BoardView, Nobody, Board!Nothing
<1>2. CASE l \in BoardListeners' /\ l \notin BoardListeners
  BY <1>2 DEF BoardView
<1>3. CASE l \in BoardListeners' /\ l \in BoardListeners
  <2>1. BoardView[l] = told[Owner(l)] /\ BoardView'[l] = told'[Owner(l)]
    BY <1>3 DEF BoardView
  <2> QED BY <1>3, <2>1 DEF Board!Hearing
<1> QED BY <1>1, <1>2, <1>3
-----------------------------------------------------------------------------
(* The steps of the server as steps of the board *)

LEMMA StutterOfBoard ==
  ASSUME UNCHANGED <<BoardRoster, BoardOver, BoardListeners>>,
         \A l \in BoardListeners : told'[Owner(l)] = told[Owner(l)]
  PROVE  UNCHANGED Board!boardVars
BY DEF Board!boardVars, BoardView, BoardListeners

LEMMA DropLeaves ==
  ASSUME OwnIdentities, BoardInv, NEW X, Drop(X),
         UNCHANGED <<authenticated, playerId, lastPlayerState>>,
         \A r \in Socket \ (X \cap sessions) : conn'[r] = "idle" <=> conn[r] = "idle",
         \A r \in sessions \ X : conn'[r] = conn[r],
         \A r \in X \cap sessions : conn'[r] # "idle"
  PROVE  \E P \in SUBSET (Player \ BoardOver) : Board!Leave(P)
<1> USE DEF BoardInv, PresenceInv
<1> DEFINE P == {p \in Player : \E s \in X \cap sessions : p \in Identity[s]}
           left == {playerId[s] : s \in {g \in X \cap sessions : authenticated[g]}}
<1>1. sessions \subseteq Socket /\ sessions' = sessions \ X
  BY DEF Drop, TypeOK
<1>2. P \in SUBSET (Player \ BoardOver)
  BY <1>1, OverIsOwned
<1>3. ASSUME NEW p \in Player, Playing(p)
      PROVE  Owner(p) \in sessions /\ (p \in P <=> Owner(p) \in X) /\ (p \in left <=> p \in P)
  <2>1. Owner(p) \in sessions /\ authenticated[Owner(p)] /\ p \in Identity[Owner(p)]
    BY <1>1, <1>3 DEF Playing, Live, IssuedIds
  <2>2. p \in P <=> Owner(p) \in X
    BY <1>1, <2>1 DEF OwnIdentities
  <2>3. p \in left <=> Owner(p) \in X
    BY <1>1, <1>3, <2>1, OwnerOfCarried DEF Playing
  <2> QED BY <2>1, <2>2, <2>3
<1>4. \A p \in Player : Playing(p)' <=> Playing(p) /\ p \notin P
  BY <1>1, <1>3 DEF Playing, Live
<1>5. BoardRoster' = [p \in Player |-> IF p \in P THEN NoEntity ELSE BoardRoster[p]]
  BY <1>4 DEF BoardRoster
<1>6. BoardListeners' = BoardListeners \ P
  <2>1. ASSUME NEW p \in Player, Playing(p), p \notin P
        PROVE  Writable(Owner(p))' <=> Writable(Owner(p))
    BY <1>3, <2>1 DEF Writable
  <2> QED BY <1>4, <2>1 DEF BoardListeners
<1>7. BoardOver' = BoardOver \cup P
  <2> SUFFICES ASSUME NEW p \in Player PROVE p \in BoardOver' <=> p \in BoardOver \/ p \in P
    BY DEF BoardOver
  <2>1. CASE \E s \in Socket : p \in Identity[s]
    <3>1. PICK s \in Socket : p \in Identity[s]
      BY <2>1
    <3>2. p \in BoardOver' <=> s \notin sessions' /\ conn'[s] # "idle"
      BY <3>1 DEF BoardOver, OwnIdentities
    <3>3. p \in P <=> s \in X \cap sessions
      BY <1>1, <3>1 DEF OwnIdentities
    <3> QED BY <1>1, <3>1, <3>2, <3>3, OverIsOwned
  <2>2. CASE ~\E s \in Socket : p \in Identity[s]
    BY <1>1, <2>2 DEF BoardOver
  <2> QED BY <2>1, <2>2
<1>8. Board!Hear(P)
  <2> SUFFICES ASSUME NEW l \in BoardListeners, l \notin P
               PROVE  told'[Owner(l)] = [q \in Player |-> IF q \in P \ {l} THEN BoardRoster'[q]
                                                          ELSE told[Owner(l)][q]]
    BY <1>6, HearsByListener
  <2> DEFINE r == Owner(l)
  <2>1. r \in Audience \ X /\ r \in Socket /\ told[r] \in [Player -> Seen]
    BY <1>3, ListenerListens DEF BoardListeners
  <2>2. told'[r] = SeeLeft(told[r], left)
    BY <2>1 DEF Drop
  <2>3. ASSUME NEW q \in P PROVE BoardRoster'[q] = NoEntity
    BY <1>5, <2>3
  <2>4. ASSUME NEW q \in P, q \notin left PROVE told[r][q] = NoEntity
    <3>1. PICK s \in X \cap sessions : q \in Identity[s]
      BY <2>4
    <3>2. ~authenticated[s]
      BY <1>1, <2>4, <3>1, OwnIdentityDistinct
    <3> QED BY <1>1, <2>1, <3>1, <3>2 DEF OnlyOwnEvents
  <2>5. left \subseteq P
    BY <1>1, OwnIdentityDistinct DEF IssuedIds
  <2> QED BY <2>2, <2>3, <2>4, <2>5 DEF SeeLeft
<1> QED BY <1>2, <1>5, <1>6, <1>7, <1>8 DEF Board!Leave

LEMMA KickCutsOff ==
  ASSUME OwnIdentities, BoardInv, NEW s \in Socket, Kick(s)
  PROVE  UNCHANGED Board!boardVars \/ \E p \in Player : Board!CutOff(p)
<1> USE DEF BoardInv, PresenceInv
<1>1. BoardRoster' = BoardRoster /\ \A p \in Player : Playing(p)' <=> Playing(p)
  BY DEF Kick, BoardRoster, Playing, Live
<1>2. BoardOver' = BoardOver
  BY DEF Kick, BoardOver, TypeOK
<1>3. \A t \in Socket : Writable(t)' <=> Writable(t) /\ t # s
  BY DEF Kick, Writable, TypeOK
<1>4. \A p \in Player : Playing(p) => Owner(p) \in Socket
  BY DEF Playing, Live, TypeOK
<1>5. CASE authenticated[s]
  <2>1. playerId[s] \in Player /\ Owner(playerId[s]) = s
    BY <1>5, OwnerOfCarried
  <2>2. \A p \in Player : Playing(p) => (Owner(p) = s <=> p = playerId[s])
    BY <2>1 DEF Playing
  <2>3. BoardListeners' = BoardListeners \ {playerId[s]}
    BY <1>1, <1>3, <1>4, <2>2 DEF BoardListeners
  <2>4. Board!Hear({})
    <3>1. ASSUME NEW l \in BoardListeners
          PROVE  told'[Owner(l)] = [q \in Player |-> told[Owner(l)][q]]
      BY ListenerListens DEF Kick
    <3> QED BY <2>3, <3>1, HearsByListener
  <2> QED BY <1>1, <1>2, <2>1, <2>3, <2>4 DEF Board!CutOff
<1>6. CASE ~authenticated[s]
  <2>1. \A p \in Player : Playing(p) => Owner(p) # s
    BY <1>6 DEF Playing, Live
  <2>2. BoardListeners' = BoardListeners
    BY <1>1, <1>3, <1>4, <2>1 DEF BoardListeners
  <2> QED BY <1>1, <1>2, <2>2, StutterOfBoard DEF Kick
<1> QED BY <1>5, <1>6

\* What an auth on socket a changes of who plays.
LEMMA AuthPlays ==
  ASSUME OwnIdentities, BoardInv, NEW a \in Socket, NEW p \in Identity[a], Auth(a, p)
  PROVE  /\ p \in Player /\ Owner(p) = a
         /\ \A q \in Player : q # p => (Playing(q)' <=> Playing(q))
         /\ Playing(p)' <=> a \in sessions
         /\ Playing(p) <=> a \in sessions /\ authenticated[a]
         /\ \A t : Writable(t)' <=> Writable(t)
         /\ BoardOver' = BoardOver
<1> USE DEF BoardInv, PresenceInv
<1>1. p \in Player /\ Owner(p) = a
  BY OwnerOfIssued
<1>2. ASSUME NEW q \in Player, q # p PROVE Playing(q)' <=> Playing(q)
  <2>1. CASE Owner(q) = a
    BY <1>1, <1>2, <2>1 DEF Playing, Live, Auth, IssuedIds, OwnIdentities, TypeOK
  <2>2. CASE Owner(q) # a
    BY <1>1, <2>2 DEF Playing, Live, Auth, TypeOK
  <2> QED BY <2>1, <2>2
<1>3. Playing(p)' <=> a \in sessions
  BY <1>1 DEF Playing, Live, Auth, TypeOK
<1>4. Playing(p) <=> a \in sessions /\ authenticated[a]
  BY <1>1 DEF Playing, Live, IssuedIds, OwnIdentities
<1>5. (\A t : Writable(t)' <=> Writable(t)) /\ BoardOver' = BoardOver
  BY DEF Auth, Writable, BoardOver
<1> QED BY <1>1, <1>2, <1>3, <1>4, <1>5

\* What a listener other than the newcomer makes of its player_joined.
LEMMA AuthHeard ==
  ASSUME OwnIdentities, BoardInv, NEW a \in Socket, NEW p \in Identity[a], Auth(a, p),
         NEW l \in BoardListeners, Owner(l) # a
  PROVE  told'[Owner(l)] = SeeJoined(told[Owner(l)], p)
BY ListenerListens DEF Auth, BoardInv, PresenceInv

LEMMA RepeatedAuthIsSilent ==
  ASSUME OwnIdentities, BoardInv, NEW a \in sessions, authenticated[a], NEW p \in Identity[a], Auth(a, p)
  PROVE  UNCHANGED Board!boardVars
<1> USE DEF BoardInv, PresenceInv
<1>1. a \in Socket /\ p \in Player /\ playerId[a] = p /\ Owner(p) = a /\ Live(a)
  BY OwnerOfIssued DEF TypeOK, IssuedIds, OwnIdentities, Live
<1>2. \A q \in Player : Playing(q)' <=> Playing(q)
  BY <1>1, AuthPlays
<1>3. BoardRoster' = BoardRoster /\ BoardListeners' = BoardListeners /\ BoardOver' = BoardOver
  BY <1>1, <1>2, AuthPlays DEF BoardRoster, BoardListeners, Auth
<1>4. ASSUME NEW l \in BoardListeners, Owner(l) # a PROVE told'[Owner(l)] = told[Owner(l)]
  <2>1. told[Owner(l)][p] = lastPlayerState[a] /\ lastPlayerState[a] # NoEntity
    BY <1>1, <1>4, ListenerListens, ReportedIsPresent DEF PresenceComplete
  <2> QED BY <1>1, <1>4, <2>1, ListenerListens, AuthHeard DEF SeeJoined
<1>5. ASSUME NEW l \in BoardListeners, Owner(l) = a PROVE told'[a] = told[a]
  <2>1. PICK b \in Backfills(a) : told'[a] = b
    BY <1>1 DEF Auth
  <2>2. Listening(a) /\ told[a] \in [Player -> Seen]
    BY <1>5, ListenerListens
  <2>3. b \in [Player -> Seen] /\ \A q \in Player : b[q] \in Backfilled(a, q)
    BY <2>2 DEF Backfills, Listening
  <2>4. ASSUME NEW q \in Player PROVE b[q] = told[a][q]
    <3> DEFINE others == {o \in sessions \ {a} : authenticated[o] /\ playerId[o] = q}
    <3>1. CASE others = {}
      BY <2>3, <3>1 DEF Backfilled
    <3>2. CASE others # {}
      <4>1. PICK o \in others : TRUE
        BY <3>2
      <4>2. o \in Socket /\ o # a /\ Live(o) /\ playerId[o] = q
        BY <4>1 DEF Live, TypeOK
      <4>3. others = {o}
        BY <4>2, OwnIdentityDistinct DEF Live, IssuedIds, TypeOK
      <4>4. told[a][q] = lastPlayerState[o] /\ lastPlayerState[o] # NoEntity
        BY <1>1, <2>2, <4>2, ReportedIsPresent DEF PresenceComplete
      <4>5. CASE lastPlayerState[o] = NoState
        <5>1. Backfilled(a, q) = {SeeJoined(told[a], q)[q]}
          BY <4>3, <4>5 DEF Backfilled
        <5> QED BY <2>2, <2>3, <4>4, <5>1 DEF SeeJoined
      <4>6. CASE lastPlayerState[o] # NoState
        <5>1. Backfilled(a, q) = {lastPlayerState[o]}
          BY <4>3, <4>6 DEF Backfilled
        <5> QED BY <2>3, <4>4, <5>1
      <4> QED BY <4>5, <4>6
    <3> QED BY <3>1, <3>2
  <2> QED BY <2>1, <2>2, <2>3, <2>4
<1> QED BY <1>3, <1>4, <1>5, StutterOfBoard

\* The backfill shows a newcomer the roster.
LEMMA BackfillShowsRoster ==
  ASSUME OwnIdentities, BoardInv, NEW a \in sessions, ~authenticated[a], Writable(a),
         NEW p \in Identity[a], NEW b \in Backfills(a), NEW q \in Player
  PROVE  b[q] = IF q = p THEN NoEntity ELSE BoardRoster[q]
<1> USE DEF BoardInv, PresenceInv
<1> DEFINE others == {o \in sessions \ {a} : authenticated[o] /\ playerId[o] = q}
<1>1. b[q] \in Backfilled(a, q) /\ told[a][q] = NoEntity /\ a \in Socket /\ told[a] \in [Player -> Seen]
  BY DEF Backfills, NothingBeforeAuth, Nobody, TypeOK
<1>2. CASE others = {}
  <2>1. b[q] = NoEntity
    BY <1>1, <1>2 DEF Backfilled
  <2>2. q # p => ~Playing(q)
    BY <1>2 DEF Playing, Live
  <2> QED BY <2>1, <2>2 DEF BoardRoster
<1>3. CASE others # {}
  <2>1. PICK o \in others : TRUE
    BY <1>3
  <2>2. o \in Socket /\ o # a /\ Live(o) /\ playerId[o] = q
    BY <2>1 DEF Live, TypeOK
  <2>3. others = {o}
    BY <2>2, OwnIdentityDistinct DEF Live, IssuedIds, TypeOK
  <2>4. q # p /\ BoardRoster[q] = lastPlayerState[o]
    BY <1>1, <2>2, OwnIdentityDistinct, RosterOfOwner DEF Live
  <2>5. CASE lastPlayerState[o] = NoState
    <3>1. Backfilled(a, q) = {SeeJoined(told[a], q)[q]}
      BY <2>3, <2>5 DEF Backfilled
    <3> QED BY <1>1, <2>4, <2>5, <3>1 DEF SeeJoined
  <2>6. CASE lastPlayerState[o] # NoState
    <3>1. Backfilled(a, q) = {lastPlayerState[o]}
      BY <2>3, <2>6 DEF Backfilled
    <3> QED BY <1>1, <2>4, <3>1
  <2> QED BY <2>5, <2>6
<1> QED BY <1>2, <1>3

LEMMA AuthEnters ==
  ASSUME OwnIdentities, BoardInv, NEW a \in sessions, ~authenticated[a], NEW p \in Identity[a], Auth(a, p)
  PROVE  Board!Enter(p)
<1> USE DEF BoardInv, PresenceInv
<1>1. a \in Socket /\ p \in Player /\ Owner(p) = a /\ ~Playing(p) /\ lastPlayerState[a] = NoState
  BY AuthPlays DEF TypeOK, OnlyOwnEvents
<1>2. Playing(p)' /\ \A q \in Player : q # p => (Playing(q)' <=> Playing(q))
  BY <1>1, AuthPlays
<1>3. p \notin BoardOver /\ BoardOver' = BoardOver /\ BoardRoster[p] = NoEntity
  BY <1>1, AuthPlays, OverIsOwned DEF BoardRoster
<1>4. BoardRoster' = [BoardRoster EXCEPT ![p] = NoState]
  BY <1>1, <1>2 DEF BoardRoster, Auth
<1>5. BoardListeners' = IF Writable(a) THEN BoardListeners \cup {p} ELSE BoardListeners
  <2>1. \A t : Writable(t)' <=> Writable(t)
    BY <1>1, AuthPlays
  <2> QED BY <1>1, <1>2, <2>1 DEF BoardListeners
<1>6. Board!Hear({p})
  <2>1. ASSUME NEW l \in BoardListeners', l \notin BoardListeners
        PROVE  told'[Owner(l)] = Board!Shown(l)
    <3>1. l = p /\ Writable(a)
      BY <1>5, <2>1
    <3>2. PICK b \in Backfills(a) : told'[a] = b
      BY <1>1 DEF Auth
    <3>3. b \in [Player -> Seen]
      BY <3>1 DEF Backfills
    <3>4. ASSUME NEW q \in Player PROVE b[q] = IF q = p THEN NoEntity ELSE BoardRoster'[q]
      <4>1. b[q] = IF q = p THEN NoEntity ELSE BoardRoster[q]
        BY <3>1, BackfillShowsRoster
      <4>2. q # p => BoardRoster'[q] = BoardRoster[q]
        BY <1>4 DEF BoardRoster
      <4> QED BY <4>1, <4>2
    <3> QED BY <1>1, <3>1, <3>2, <3>3, <3>4 DEF Board!Shown
  <2>2. ASSUME NEW l \in BoardListeners
        PROVE  told'[Owner(l)] = [q \in Player |-> IF q \in {p} \ {l} THEN BoardRoster'[q]
                                                   ELSE told[Owner(l)][q]]
    <3>1. l # p /\ Owner(l) # a
      BY <1>1, ListenerListens DEF BoardListeners, Playing, Live
    <3>2. told'[Owner(l)] = SeeJoined(told[Owner(l)], p) /\ told[Owner(l)] \in [Player -> Seen]
      BY <1>1, <3>1, AuthHeard, ListenerListens
    <3>3. told[Owner(l)][p] = NoEntity
      BY <1>1, ListenerListens DEF OnlyOwnEvents
    <3>4. BoardRoster'[p] = NoState
      BY <1>1, <1>4 DEF BoardRoster
    <3> QED BY <1>1, <3>1, <3>2, <3>3, <3>4 DEF SeeJoined
  <2> QED BY <2>1, <2>2, HearsByListener
<1> QED BY <1>3, <1>4, <1>5, <1>6 DEF Board!Enter

\* What every listener is told of a player whose session is over haunts it.
LEMMA Haunts ==
  ASSUME UNCHANGED <<BoardRoster, BoardOver, BoardListeners>>,
         NEW p \in BoardOver, NEW d \in Data \cup {NoState},
         \A l \in BoardListeners :
           told'[Owner(l)] = IF d = NoState => told[Owner(l)][p] = NoEntity
                             THEN [told[Owner(l)] EXCEPT ![p] = d] ELSE told[Owner(l)]
  PROVE  Board!Haunt(p)
<1>1. BoardView' = [l \in Player |->
                      IF l \in BoardListeners /\ (d = NoState => BoardView[l][p] = NoEntity)
                      THEN [BoardView[l] EXCEPT ![p] = d]
                      ELSE BoardView[l]]
  BY DEF BoardView
<1> QED BY <1>1 DEF Board!Haunt

LEMMA LateAuthHaunts ==
  ASSUME OwnIdentities, BoardInv, NEW a \in Socket \ sessions, NEW p \in Identity[a], Auth(a, p)
  PROVE  Board!Haunt(p)
<1> USE DEF BoardInv, PresenceInv
<1>1. p \in Player /\ (\A q \in Player : Playing(q)' <=> Playing(q)) /\ BoardOver' = BoardOver
  BY AuthPlays
<1>2. \A q \in Player : Playing(q) => Owner(q) # a
  BY DEF Playing, Live
<1>3. BoardRoster' = BoardRoster /\ BoardListeners' = BoardListeners
  BY <1>1, AuthPlays DEF BoardRoster, BoardListeners, Auth
<1>4. p \in BoardOver
  BY OverIsOwned DEF Auth, Receives
<1>5. ASSUME NEW l \in BoardListeners
      PROVE  told'[Owner(l)] = IF told[Owner(l)][p] = NoEntity
                               THEN [told[Owner(l)] EXCEPT ![p] = NoState] ELSE told[Owner(l)]
  <2>1. Owner(l) # a
    BY <1>2 DEF BoardListeners
  <2> QED BY <1>1, <2>1, AuthHeard, ListenerListens DEF SeeJoined
<1> QED BY <1>3, <1>1, <1>4, <1>5, Haunts

\* What a player_state on socket a changes: nothing of who plays and who hears.
LEMMA PlayerStateHeard ==
  ASSUME OwnIdentities, BoardInv, NEW a \in Socket, NEW d \in Data, PlayerState(a, d)
  PROVE  /\ playerId[a] \in Identity[a] /\ playerId[a] \in Player /\ Owner(playerId[a]) = a
         /\ \A q \in Player : Playing(q)' <=> Playing(q)
         /\ BoardOver' = BoardOver /\ BoardListeners' = BoardListeners
         /\ \A l \in BoardListeners :
              told'[Owner(l)] = IF Owner(l) = a THEN told[a]
                                ELSE [told[Owner(l)] EXCEPT ![playerId[a]] = d]
<1> USE DEF BoardInv, PresenceInv
<1>1. playerId[a] \in Identity[a] /\ playerId[a] \in Player /\ Owner(playerId[a]) = a
  BY OwnerOfCarried DEF PlayerState, IssuedIds
<1>2. \A q \in Player : (Playing(q)' <=> Playing(q)) /\ (Writable(Owner(q))' <=> Writable(Owner(q)))
  BY DEF PlayerState, Playing, Live, Writable
<1>3. BoardOver' = BoardOver /\ BoardListeners' = BoardListeners
  BY <1>2 DEF PlayerState, BoardOver, BoardListeners
<1>4. ASSUME NEW l \in BoardListeners
      PROVE  told'[Owner(l)] = IF Owner(l) = a THEN told[a]
                               ELSE [told[Owner(l)] EXCEPT ![playerId[a]] = d]
  BY ListenerListens DEF PlayerState, SeeState
<1> QED BY <1>1, <1>2, <1>3, <1>4

LEMMA PlayerStateMoves ==
  ASSUME OwnIdentities, BoardInv, NEW a \in sessions, NEW d \in Data, PlayerState(a, d)
  PROVE  Board!Move(playerId[a], d)
<1> USE DEF BoardInv, PresenceInv
<1> DEFINE p == playerId[a]
<1>1. a \in Socket /\ p \in Player /\ Owner(p) = a /\ Playing(p)
  <2>1. a \in Socket
    BY DEF TypeOK
  <2>2. p \in Player /\ Owner(p) = a
    BY <2>1, PlayerStateHeard
  <2> QED BY <2>1, <2>2 DEF PlayerState, Playing, Live
<1>2. \A q \in Player : Playing(q)' <=> Playing(q)
  BY <1>1, PlayerStateHeard
<1>3. \A q \in Player : Playing(q) /\ q # p => Owner(q) # a
  BY DEF Playing
<1>4. BoardRoster[p] # NoEntity
  BY <1>1, ReportedIsPresent DEF BoardRoster
<1>5. BoardRoster' = [BoardRoster EXCEPT ![p] = d]
  <2>1. \A q \in Player : Playing(q) => Owner(q) \in Socket
    BY DEF Playing, Live, TypeOK
  <2>2. lastPlayerState'[a] = d /\ \A s \in Socket \ {a} : lastPlayerState'[s] = lastPlayerState[s]
    BY <1>1 DEF PlayerState, TypeOK
  <2>3. ASSUME NEW q \in Player
        PROVE  BoardRoster'[q] = IF q = p THEN d ELSE BoardRoster[q]
    BY <1>1, <1>2, <1>3, <2>1, <2>2 DEF BoardRoster
  <2> QED BY <1>1, <2>3 DEF BoardRoster
<1>6. Board!Hear({p})
  <2>1. BoardRoster'[p] = d
    BY <1>1, <1>5 DEF BoardRoster
  <2>2. BoardListeners' = BoardListeners
    BY <1>1, PlayerStateHeard
  <2>3. ASSUME NEW l \in BoardListeners
        PROVE  told'[Owner(l)] = [q \in Player |-> IF q \in {p} \ {l} THEN BoardRoster'[q]
                                                   ELSE told[Owner(l)][q]]
    <3>1. told'[Owner(l)] = IF Owner(l) = a THEN told[a] ELSE [told[Owner(l)] EXCEPT ![p] = d]
      BY <1>1, PlayerStateHeard
    <3>2. l = p <=> Owner(l) = a
      BY <1>1, ListenerListens
    <3>3. told[Owner(l)] \in [Player -> Seen]
      BY ListenerListens
    <3> QED BY <1>1, <2>1, <3>1, <3>2, <3>3
  <2> QED BY <2>2, <2>3, HearsByListener
<1> QED BY <1>1, <1>4, <1>5, <1>6, PlayerStateHeard DEF Board!Move

LEMMA LatePlayerStateHaunts ==
  ASSUME OwnIdentities, BoardInv, NEW a \in Socket \ sessions, NEW d \in Data, PlayerState(a, d)
  PROVE  Board!Haunt(playerId[a])
<1> USE DEF BoardInv, PresenceInv
<1>1. \A q \in Player : Playing(q)' <=> Playing(q)
  BY PlayerStateHeard
<1>2. \A q \in Player : Playing(q) => Owner(q) # a
  BY DEF Playing, Live
<1>3. BoardRoster' = BoardRoster
  <2>1. \A q \in Player : Playing(q) => Owner(q) \in Socket
    BY DEF Playing, Live, TypeOK
  <2>2. \A s \in Socket \ {a} : lastPlayerState'[s] = lastPlayerState[s]
    BY DEF PlayerState, TypeOK
  <2> QED BY <1>1, <1>2, <2>1, <2>2 DEF BoardRoster
<1>4. playerId[a] \in BoardOver
  <2>1. playerId[a] \in Identity[a]
    BY PlayerStateHeard
  <2>2. conn[a] # "idle"
    BY DEF PlayerState, Receives
  <2> QED BY <2>1, <2>2, OverIsOwned
<1>5. \A l \in BoardListeners : Owner(l) # a
  BY <1>2 DEF BoardListeners
<1>6. d # NoState
  OBVIOUS
<1> QED BY <1>3, <1>4, <1>5, <1>6, PlayerStateHeard, Haunts

LEMMA StepRefines ==
  ASSUME OwnIdentities, BoardInv, [Next]_vars
  PROVE  [Board!Next]_(Board!boardVars)
<1> DEFINE Goal == Board!Next \/ UNCHANGED Board!boardVars
<1> USE DEF BoardInv, PresenceInv
<1>1. ASSUME UNCHANGED <<conn, sessions, authenticated, playerId, lastPlayerState, told>> PROVE Goal
  BY <1>1, StutterOfBoard DEF BoardRoster, BoardOver, BoardListeners, Playing, Live, Writable
<1>2. ASSUME NEW s \in Socket, Connect(s) PROVE Goal
  <2>1. ~authenticated[s] /\ s \notin sessions
    BY <1>2 DEF Connect, Lifecycle, IdleIsFresh, RegistryMatchesSockets
  <2>2. \A p \in Player : Playing(p)' <=> Playing(p)
    BY <1>2, <2>1 DEF Connect, Playing, Live
  <2>3. \A p \in Player : Playing(p) => (Writable(Owner(p))' <=> Writable(Owner(p)))
    BY <1>2, <2>1 DEF Connect, Playing, Live, Writable, TypeOK
  <2>4. BoardOver' = BoardOver
    BY <1>2, <2>1 DEF Connect, BoardOver, TypeOK
  <2>5. BoardRoster' = BoardRoster /\ BoardListeners' = BoardListeners
    BY <1>2, <2>2, <2>3 DEF Connect, BoardRoster, BoardListeners
  <2> QED BY <1>2, <2>4, <2>5, StutterOfBoard DEF Connect
<1>3. ASSUME NEW X, Drop(X), UNCHANGED <<authenticated, playerId, lastPlayerState>>,
             \A r \in Socket \ (X \cap sessions) : conn'[r] = "idle" <=> conn[r] = "idle",
             \A r \in sessions \ X : conn'[r] = conn[r],
             \A r \in X \cap sessions : conn'[r] # "idle"
      PROVE  Goal
  BY <1>3, DropLeaves DEF Board!Next
<1>4. ASSUME NEW X, Drop(X), UNCHANGED <<authenticated, playerId, lastPlayerState>>,
             conn' = Ended(X)
      PROVE  Goal
  BY <1>3, <1>4 DEF Ended, TypeOK
<1>5. ASSUME NEW s \in Socket, SocketClosed(s) PROVE Goal
  BY <1>3, <1>5 DEF SocketClosed, TypeOK
<1>6. ASSUME NEW s \in Socket, Kick(s) PROVE Goal
  BY <1>6, KickCutsOff DEF Board!Next
<1>7. ASSUME NEW s \in Socket, NEW p \in Identity[s], Auth(s, p) PROVE Goal
  <2>1. p \in Player
    OBVIOUS
  <2>2. CASE s \notin sessions
    BY <1>7, <2>1, <2>2, LateAuthHaunts DEF Board!Next
  <2>3. CASE s \in sessions /\ authenticated[s]
    BY <1>7, <2>3, RepeatedAuthIsSilent
  <2>4. CASE s \in sessions /\ ~authenticated[s]
    BY <1>7, <2>1, <2>4, AuthEnters DEF Board!Next
  <2> QED BY <2>2, <2>3, <2>4
<1>8. ASSUME NEW s \in Socket, NEW d \in Data, PlayerState(s, d) PROVE Goal
  <2>1. playerId[s] \in Player
    BY <1>8, PlayerStateHeard
  <2>2. CASE s \notin sessions
    BY <1>8, <2>1, <2>2, LatePlayerStateHaunts DEF Board!Next
  <2>3. CASE s \in sessions
    BY <1>8, <2>1, <2>3, PlayerStateMoves DEF Board!Next
  <2> QED BY <2>2, <2>3
<1>9. ASSUME NEW s \in Socket, Message(s) PROVE Goal
  BY <1>1, <1>4, <1>7, <1>8, <1>9
  DEF Message, Hello, AuthBeforeHello, Heartbeat, RequestBeforeAuth, ResourcesReady,
      DisconnectRequest, DropOnMessage
<1>10. ASSUME Watchdog \/ Shutdown PROVE Goal
  BY <1>4, <1>10 DEF Watchdog, Shutdown
<1> QED
  BY <1>1, <1>2, <1>5, <1>6, <1>9, <1>10 DEF Next, HeartbeatExpires, ServerClosed, vars

\* For clients with ids of their own, broadcasts and backfill amount to one
\* roster that everyone who listens sees change in one step, and messages that
\* arrive after their session was dropped only haunt it with their own player.
THEOREM BoardImplemented ==
  ASSUME OwnIdentities
  PROVE  Spec => ImplementsBoard
<1>1. Init => Board!Init
  BY DEF Init, Board!Init, Board!Nothing, BoardRoster, BoardOver, BoardListeners, BoardView,
         Playing, Live, Nobody
<1>2. Spec => []BoardInv
  BY LifecycleCorrect, PresenceInvCorrect, PTL DEF BoardInv
<1>3. BoardInv /\ [Next]_vars => [Board!Next]_(Board!boardVars)
  BY StepRefines
<1> QED BY <1>1, <1>2, <1>3, PTL DEF Spec, ImplementsBoard, Board!Spec
-----------------------------------------------------------------------------
(* What a sequence of messages says of a player *)

\* A message that settles what its reader knows of player q, whatever it knew before.
Decides(m, q) == m.type \in {"player_state", "player_left"} /\ m.player = q

Settles(m) == IF m.type = "player_left" THEN NoEntity ELSE m.data

\* What knowing `from` of player q becomes by handling m.
Handled(from, m, q) ==
  IF Decides(m, q) THEN Settles(m)
  ELSE IF m = Joined(q) /\ from = NoEntity THEN NoState
  ELSE from

Undecided(messages, q) == \A i \in 1 .. Len(messages) : ~Decides(messages[i], q)

JoinedAfter(messages, k, q, base) ==
  IF base = NoEntity /\ \E i \in k + 1 .. Len(messages) : messages[i] = Joined(q)
  THEN NoState ELSE base

\* Reading all the messages in order takes what is known of player q from
\* `from` to `to`: the last message that decides and the joins after it say so.
Leads(messages, q, from, to) ==
  \/ Undecided(messages, q) /\ to = JoinedAfter(messages, 0, q, from)
  \/ \E k \in 1 .. Len(messages) :
       /\ Decides(messages[k], q)
       /\ \A i \in k + 1 .. Len(messages) : ~Decides(messages[i], q)
       /\ to = JoinedAfter(messages, k, q, Settles(messages[k]))

LEMMA LeadsNowhere ==
  ASSUME NEW q, NEW from
  PROVE  \A to : Leads(<<>>, q, from, to) <=> to = from
BY EmptySeq DEF Leads, Undecided, JoinedAfter

LEMMA JoinedDecidesNothing ==
  ASSUME NEW p, NEW q
  PROVE  ~Decides(Joined(p), q)
BY DEF Joined, Decides

\* What is decided does not depend on what was known before.
LEMMA DecidedAnyway ==
  ASSUME NEW messages, NEW q, NEW from, NEW to, ~Undecided(messages, q),
         Leads(messages, q, from, to)
  PROVE  \A any : Leads(messages, q, any, to)
BY DEF Leads

LEMMA LeadsOne ==
  ASSUME NEW m \in ServerMessage, NEW q, NEW from
  PROVE  Leads(<<m>>, q, from, Handled(from, m, q))
<1> DEFINE M == <<m>>
<1>1. Len(M) = 1 /\ M[1] = m
  OBVIOUS
<1>2. M \in Seq(ServerMessage)
  OBVIOUS
<1> HIDE DEF M
<1>3. CASE Decides(m, q)
  BY <1>1, <1>3 DEF Leads, Handled, JoinedAfter
<1>4. CASE ~Decides(m, q)
  BY <1>1, <1>4 DEF Leads, Handled, JoinedAfter, Undecided
<1> QED BY <1>3, <1>4 DEF M

LEMMA ConcatUndecided ==
  ASSUME NEW W \in Seq(ServerMessage), NEW M \in Seq(ServerMessage), NEW q,
         Undecided(W, q), Undecided(M, q)
  PROVE  Undecided(W \o M, q)
<1>1. Len(W) \in Nat /\ Len(M) \in Nat
  BY LenProperties
<1>2. /\ Len(W \o M) = Len(W) + Len(M)
      /\ \A i \in 1 .. Len(W) + Len(M) :
           (W \o M)[i] = IF i <= Len(W) THEN W[i] ELSE M[i - Len(W)]
  BY ConcatProperties, Zenon
<1> DEFINE V == W \o M
<1> HIDE DEF V
<1> SUFFICES ASSUME NEW i \in 1 .. Len(V) PROVE ~Decides(V[i], q)
  BY DEF Undecided, V
<1>3. i \in 1 .. Len(W) \/ i - Len(W) \in 1 .. Len(M)
  BY <1>1, <1>2 DEF V
<1>4. V[i] = IF i <= Len(W) THEN W[i] ELSE M[i - Len(W)]
  BY <1>2 DEF V
<1> QED BY <1>1, <1>3, <1>4 DEF Undecided

LEMMA ConcatDecided ==
  ASSUME NEW W \in Seq(ServerMessage), NEW M \in Seq(ServerMessage), NEW q,
         NEW from, NEW mid, NEW to, ~Undecided(M, q), Leads(M, q, mid, to)
  PROVE  Leads(W \o M, q, from, to)
<1>1. Len(W) \in Nat /\ Len(M) \in Nat
  BY LenProperties
<1>2. /\ Len(W \o M) = Len(W) + Len(M)
      /\ \A i \in 1 .. Len(W) + Len(M) :
           (W \o M)[i] = IF i <= Len(W) THEN W[i] ELSE M[i - Len(W)]
  BY ConcatProperties, Zenon
<1> DEFINE V == W \o M  n == Len(W)
<1>3. Len(V) = n + Len(M)
  BY <1>2
<1>4. \A i \in 1 .. Len(M) : V[n + i] = M[i]
  BY <1>1, <1>2
<1>5. \A i \in n + 1 .. Len(V) : i - n \in 1 .. Len(M) /\ V[i] = M[i - n]
  BY <1>1, <1>2
<1> HIDE DEF V
<1>6. PICK k \in 1 .. Len(M) :
        /\ Decides(M[k], q)
        /\ \A i \in k + 1 .. Len(M) : ~Decides(M[i], q)
        /\ to = JoinedAfter(M, k, q, Settles(M[k]))
  BY DEF Leads
<1>7. n + k \in 1 .. Len(V) /\ V[n + k] = M[k]
  BY <1>1, <1>3, <1>4
<1>8. \A i \in (n + k) + 1 .. Len(V) : i - n \in k + 1 .. Len(M) /\ V[i] = M[i - n]
  BY <1>1, <1>3, <1>5
<1>9. (\E i \in (n + k) + 1 .. Len(V) : V[i] = Joined(q)) <=> \E i \in k + 1 .. Len(M) : M[i] = Joined(q)
  <2>1. \A i \in k + 1 .. Len(M) : n + i \in (n + k) + 1 .. Len(V) /\ V[n + i] = M[i]
    BY <1>1, <1>3, <1>4
  <2> QED BY <2>1, <1>8
<1>10. to = JoinedAfter(V, n + k, q, Settles(V[n + k]))
  BY <1>6, <1>7, <1>9 DEF JoinedAfter
<1>11. \A i \in (n + k) + 1 .. Len(V) : ~Decides(V[i], q)
  BY <1>6, <1>8
<1> QED BY <1>6, <1>7, <1>10, <1>11 DEF Leads, V

LEMMA ConcatLeads ==
  ASSUME NEW W \in Seq(ServerMessage), NEW M \in Seq(ServerMessage), NEW q,
         NEW from, NEW mid, NEW to, Leads(W, q, from, mid), Leads(M, q, mid, to)
  PROVE  Leads(W \o M, q, from, to)
<1>0. CASE ~Undecided(M, q)
  BY <1>0, ConcatDecided
<1>1. CASE Undecided(M, q)
  <2>1. Len(W) \in Nat /\ Len(M) \in Nat
    BY LenProperties
  <2>2. /\ Len(W \o M) = Len(W) + Len(M)
        /\ \A i \in 1 .. Len(W) + Len(M) :
             (W \o M)[i] = IF i <= Len(W) THEN W[i] ELSE M[i - Len(W)]
    BY ConcatProperties, Zenon
  <2> DEFINE V == W \o M  n == Len(W)
  <2>3. /\ Len(V) = n + Len(M)
        /\ \A i \in 1 .. n : i \in 1 .. Len(V) /\ V[i] = W[i]
        /\ \A i \in 1 .. Len(M) : n + i \in n + 1 .. Len(V) /\ V[n + i] = M[i]
        /\ \A i \in n + 1 .. Len(V) : i - n \in 1 .. Len(M) /\ V[i] = M[i - n]
    BY <2>1, <2>2
  <2> HIDE DEF V
  <2> DEFINE J(messages, k) == \E i \in k + 1 .. Len(messages) : messages[i] = Joined(q)
  <2>4. to = IF mid = NoEntity /\ J(M, 0) THEN NoState ELSE mid
    BY <1>1 DEF Leads, JoinedAfter, Undecided
  <2>5. ASSUME NEW k \in 0 .. n PROVE J(V, k) <=> J(W, k) \/ J(M, 0)
    <3>1. ASSUME NEW i \in k + 1 .. Len(W), W[i] = Joined(q) PROVE J(V, k)
      <4>1. i \in k + 1 .. Len(V) /\ V[i] = W[i]
        BY <2>1, <2>3
      <4> QED BY <3>1, <4>1
    <3>2. ASSUME NEW i \in 0 + 1 .. Len(M), M[i] = Joined(q) PROVE J(V, k)
      <4>1. n + i \in k + 1 .. Len(V) /\ V[n + i] = M[i]
        BY <2>1, <2>3
      <4> QED BY <3>2, <4>1
    <3>3. ASSUME NEW i \in k + 1 .. Len(V), V[i] = Joined(q) PROVE J(W, k) \/ J(M, 0)
      <4>1. CASE i <= n
        BY <2>1, <2>3, <3>3, <4>1
      <4>2. CASE i > n
        <5>1. i - n \in 0 + 1 .. Len(M) /\ V[i] = M[i - n]
          BY <2>1, <2>3, <4>2
        <5> QED BY <3>3, <5>1
      <4> QED BY <2>1, <4>1, <4>2
    <3> QED BY <3>1, <3>2, <3>3
  <2>6. ASSUME NEW k \in 0 .. n, NEW base, mid = JoinedAfter(W, k, q, base)
        PROVE  to = JoinedAfter(V, k, q, base)
    <3>1. mid = IF base = NoEntity /\ J(W, k) THEN NoState ELSE base
      BY <2>6 DEF JoinedAfter
    <3>2. NoState # NoEntity
      BY DEF NoState, NoEntity
    <3>3. to = IF base = NoEntity /\ J(V, k) THEN NoState ELSE base
      <4> HIDE DEF J
      <4> QED BY <2>4, <2>5, <3>1, <3>2
    <3> QED BY <3>3 DEF JoinedAfter
  <2>7. CASE Undecided(W, q)
    <3>1. Undecided(V, q)
      BY <1>1, <2>7, ConcatUndecided DEF V
    <3>2. mid = JoinedAfter(W, 0, q, from)
      BY <2>7 DEF Leads, Undecided
    <3>3. to = JoinedAfter(V, 0, q, from)
      BY <2>1, <2>6, <3>2
    <3> QED BY <3>1, <3>3 DEF Leads, V
  <2>8. CASE ~Undecided(W, q)
    <3>1. PICK k \in 1 .. Len(W) :
            /\ Decides(W[k], q)
            /\ \A i \in k + 1 .. Len(W) : ~Decides(W[i], q)
            /\ mid = JoinedAfter(W, k, q, Settles(W[k]))
      BY <2>8 DEF Leads
    <3>2. to = JoinedAfter(V, k, q, Settles(W[k]))
      BY <2>1, <2>6, <3>1
    <3>3. k \in 1 .. Len(V) /\ V[k] = W[k]
      BY <2>3
    <3>4. ASSUME NEW i \in k + 1 .. Len(V) PROVE ~Decides(V[i], q)
      <4>1. CASE i <= n
        BY <2>1, <2>3, <3>1, <4>1
      <4>2. CASE i > n
        BY <1>1, <2>1, <2>3, <4>2 DEF Undecided
      <4> QED BY <2>1, <2>3, <4>1, <4>2
    <3> QED BY <3>1, <3>2, <3>3, <3>4 DEF Leads, V
  <2> QED BY <2>7, <2>8
<1> QED BY <1>0, <1>1

\* Handling the first message, or missing it, and what is left to read then.
LEMMA TailLeads ==
  ASSUME NEW W \in Seq(ServerMessage), W # <<>>, NEW q, NEW from, NEW to, Leads(W, q, from, to)
  PROVE  /\ Leads(Tail(W), q, Handled(from, Head(W), q), to)
         /\ Undecided(Tail(W), q) \/ \A any : Leads(Tail(W), q, any, to)
<1> DEFINE T == Tail(W)  m == Head(W)
<1>1. Len(W) \in Nat \ {0} /\ Head(W) = W[1]
  BY EmptySeq
<1>2. Len(T) = Len(W) - 1 /\ \A i \in 1 .. Len(T) : T[i] = W[i + 1]
  BY HeadTailProperties
<1>3. \A i \in 2 .. Len(W) : i - 1 \in 1 .. Len(T) /\ W[i] = T[i - 1]
  BY <1>1, <1>2
<1>4. \A i \in 1 .. Len(T) : i + 1 \in 2 .. Len(W) /\ W[i + 1] = T[i]
  BY <1>1, <1>2
<1> HIDE DEF T
<1> DEFINE J(messages, k) == \E i \in k + 1 .. Len(messages) : messages[i] = Joined(q)
<1>5. ASSUME NEW k \in 1 .. Len(W) PROVE J(W, k) <=> J(T, k - 1)
  <2>1. \A i \in k + 1 .. Len(W) : i - 1 \in (k - 1) + 1 .. Len(T) /\ W[i] = T[i - 1]
    BY <1>1, <1>2, <1>3
  <2>2. \A i \in (k - 1) + 1 .. Len(T) : i + 1 \in k + 1 .. Len(W) /\ W[i + 1] = T[i]
    BY <1>1, <1>2, <1>4
  <2> QED BY <2>1, <2>2
<1>6. ASSUME NEW k \in 2 .. Len(W), Decides(W[k], q),
             \A i \in k + 1 .. Len(W) : ~Decides(W[i], q),
             to = JoinedAfter(W, k, q, Settles(W[k])),
             NEW any
      PROVE  Leads(T, q, any, to)
  <2>1. k - 1 \in 1 .. Len(T) /\ W[k] = T[k - 1]
    BY <1>3
  <2>2. \A i \in (k - 1) + 1 .. Len(T) : ~Decides(T[i], q)
    BY <1>2, <1>4, <1>6
  <2>3. to = JoinedAfter(T, k - 1, q, Settles(T[k - 1]))
    <3>1. J(W, k) <=> J(T, k - 1)
      BY <1>5
    <3> QED BY <1>6, <2>1, <3>1 DEF JoinedAfter
  <2> QED BY <1>6, <2>1, <2>2, <2>3 DEF Leads
<1>7. CASE Undecided(T, q)
  <2>1. \A i \in 2 .. Len(W) : ~Decides(W[i], q)
    BY <1>3, <1>7 DEF Undecided
  <2>2. J(W, 1) <=> J(T, 0)
    BY <1>1, <1>5
  <2>3. to = JoinedAfter(T, 0, q, Handled(from, m, q))
    <3>1. CASE Decides(m, q)
      <4>1. PICK k \in 1 .. Len(W) :
            /\ Decides(W[k], q)
            /\ to = JoinedAfter(W, k, q, Settles(W[k]))
        BY <1>1, <3>1 DEF Leads, Undecided
      <4>2. k = 1
        BY <1>1, <2>1, <4>1
      <4> QED BY <1>1, <2>2, <3>1, <4>1, <4>2 DEF JoinedAfter, Handled
    <3>2. CASE ~Decides(m, q)
      <4>1. Undecided(W, q)
        BY <1>1, <2>1, <3>2 DEF Undecided
      <4>2. to = JoinedAfter(W, 0, q, from)
        BY <4>1 DEF Leads, Undecided
      <4>3. J(W, 0) <=> m = Joined(q) \/ J(T, 0)
        BY <1>1, <2>2
      <4>4. NoState # NoEntity
        BY DEF NoState, NoEntity
      <4>5. to = IF from = NoEntity /\ J(W, 0) THEN NoState ELSE from
        BY <4>2 DEF JoinedAfter
      <4>6. to = IF Handled(from, m, q) = NoEntity /\ J(T, 0) THEN NoState ELSE Handled(from, m, q)
        <5> HIDE DEF J
        <5> QED BY <3>2, <4>3, <4>4, <4>5 DEF Handled
      <4> QED BY <4>6 DEF JoinedAfter
    <3> QED BY <3>1, <3>2
  <2>4. Leads(T, q, Handled(from, m, q), to)
    BY <1>7, <2>3 DEF Leads
  <2> QED BY <1>7, <2>4 DEF T
<1>8. CASE ~Undecided(T, q)
  <2>1. PICK j \in 2 .. Len(W) : Decides(W[j], q)
    BY <1>4, <1>8 DEF Undecided
  <2>2. PICK k \in 1 .. Len(W) :
            /\ Decides(W[k], q)
            /\ \A i \in k + 1 .. Len(W) : ~Decides(W[i], q)
            /\ to = JoinedAfter(W, k, q, Settles(W[k]))
    BY <1>1, <2>1 DEF Leads, Undecided
  <2>3. k \in 2 .. Len(W)
    BY <1>1, <2>1, <2>2
  <2> HIDE DEF J
  <2>4. \A any : Leads(T, q, any, to)
    BY <1>6, <2>2, <2>3
  <2> QED BY <2>4 DEF T
<1> QED BY <1>7, <1>8
-----------------------------------------------------------------------------
(* Orders: what comes last among finitely many, and the orders of a set *)

\* A strict order, given as what is above each element, has a maximal element in
\* every finite set.
LEMMA MaximalExists ==
  ASSUME NEW S, NEW Above, IsFiniteSet(S), NEW e \in S,
         \A i \in S : \A j \in Above[i] : j \in S /\ j # i,
         \A i \in S : \A j \in Above[i] : \A k \in Above[j] : k \in Above[i]
  PROVE  \E i \in S : \A j \in S : j \notin Above[i]
<1>1. PICK T : T = {Above[i] : i \in S}
  OBVIOUS
<1>2. T \subseteq FiniteSubsetsOf(S) /\ T # {}
  BY <1>1, FS_FiniteSubsetsOfFinite
<1>3. PICK U \in T : \A V \in T : ~(<<V, U>> \in StrictSubsetOrdering(S))
  <2>1. IsWellFoundedOn(StrictSubsetOrdering(S), FiniteSubsetsOf(S))
    BY FS_StrictSubsetOrderingWellFounded
  <2> QED BY <1>2, <2>1, WFMin
<1>4. PICK i \in S : U = Above[i]
  BY <1>1
<1>5. ASSUME NEW j \in S, j \in Above[i] PROVE FALSE
  <2>1. Above[j] \subseteq Above[i] /\ Above[j] # Above[i]
    BY <1>5
  <2>2. <<Above[j], Above[i]>> \in StrictSubsetOrdering(S)
    BY <2>1 DEF StrictSubsetOrdering
  <2> QED BY <1>1, <1>3, <1>4, <2>2
<1> QED BY <1>5

\* A set of numbers up to n that is not empty has a greatest one.
LEMMA GreatestExists ==
  ASSUME NEW n \in Nat, NEW S \in SUBSET (1 .. n), S # {}
  PROVE  \E i \in S : \A j \in S : j <= i
<1>1. PICK e \in S : TRUE
  OBVIOUS
<1>2. \A i \in S : i \in Int /\ i <= n
  OBVIOUS
<1>3. IsFiniteSet(S)
  BY <1>2, FS_BoundedSetOfNaturals
<1>4. PICK Above : Above = [i \in S |-> {j \in S : j > i}]
  OBVIOUS
<1>5. \A i \in S : \A k : k \in Above[i] <=> k \in S /\ k > i
  BY <1>4
<1>6. \A i \in S : \A j \in Above[i] : j \in S /\ j # i
  BY <1>2, <1>5
<1>7. ASSUME NEW i \in S, NEW j \in Above[i], NEW k \in Above[j] PROVE k \in Above[i]
  <2>1. j \in S /\ k \in S /\ j > i /\ k > j
    BY <1>5
  <2>2. i \in Int /\ j \in Int /\ k \in Int
    BY <1>2, <2>1
  <2>3. k > i
    BY <2>1, <2>2
  <2> QED BY <1>5, <2>1, <2>3
<1>8. PICK i \in S : \A j \in S : j \notin Above[i]
  BY <1>3, <1>6, <1>7, MaximalExists
<1>9. ASSUME NEW j \in S PROVE j <= i
  BY <1>2, <1>5, <1>8
<1> QED BY <1>9

\* An order of a finite set holds every element of it once.
LEMMA OrderProperties ==
  ASSUME NEW S, IsFiniteSet(S), NEW f \in Orders(S)
  PROVE  /\ f \in Seq(S)
         /\ Len(f) \in Nat
         /\ DOMAIN f = 1 .. Len(f)
         /\ \A i \in 1 .. Len(f) : f[i] \in S
         /\ \A x \in S : \E i \in 1 .. Len(f) : f[i] = x
         /\ \A i, j \in 1 .. Len(f) : f[i] = f[j] => i = j
<1> DEFINE n == Cardinality(S)
<1>1. n \in Nat
  BY FS_CardinalityType
<1>2. f \in Injection(1 .. n, S)
  BY DEF Orders
<1>3. f \in [1 .. n -> S] /\ \A a, b \in 1 .. n : f[a] = f[b] => a = b
  BY <1>2 DEF Injection, IsInjective
<1>4. Cardinality(1 .. n) = n
  BY <1>1, FS_Interval
<1>5. f \in Surjection(1 .. n, S)
  <2> HIDE DEF n
  <2> QED BY <1>2, <1>4, FS_Injection DEF n
<1>6. f \in Seq(S) /\ Len(f) = n
  <2> HIDE DEF n
  <2> QED BY <1>1, <1>3
<1> HIDE DEF n
<1> QED BY <1>1, <1>3, <1>5, <1>6 DEF Surjection
-----------------------------------------------------------------------------
(* The server within the network *)

\* Every step of the network is a step of the server or leaves it alone.
LEMMA NetNextIsNext == [NetNext]_netVars => [Next]_vars
<1> SUFFICES ASSUME [NetNext]_netVars PROVE [Next]_vars
  OBVIOUS
<1> USE DEF Next, Message
<1>1. ASSUME NEW s \in Socket, ClientConnects(s) \/ ConnectionLost(s) \/ SilentServerStep(s)
      PROVE  Next
  BY <1>1 DEF ClientConnects, ConnectionLost, SilentServerStep
<1>2. ASSUME NEW s \in Socket, ClientHello(s) \/ ClientHeartbeat(s) \/ ClientDisconnects(s)
      PROVE  Next
  BY <1>2 DEF ClientHello, ClientHeartbeat, ClientDisconnects
<1>3. ASSUME NEW s \in Socket, NEW p \in Identity[s], ClientAuth(s, p) PROVE Next
  BY <1>3 DEF ClientAuth
<1>4. ASSUME NEW s \in Socket, NEW d \in Data, ClientMoves(s, d) PROVE Next
  BY <1>4 DEF ClientMoves
<1>5. ASSUME WatchdogTick \/ ServerShutdown \/ ServerGone PROVE Next
  BY <1>5 DEF WatchdogTick, ServerShutdown, ServerGone
<1>6. ASSUME NEW s \in Socket, ClientDies(s) \/ ClientStep(s) PROVE UNCHANGED vars
  BY <1>6 DEF ClientDies, ClientStep, AuthReturns, AuthTimesOut, CreateLocal, Subscribe, Dispatch
<1>7. CASE UNCHANGED netVars
  BY <1>7 DEF netVars
<1> QED BY <1>1, <1>2, <1>3, <1>4, <1>5, <1>6, <1>7 DEF NetNext

\* What is proved of the server alone holds of the server in the network.
THEOREM NetSpecIsSpec == NetSpec => Spec
<1>1. NetInit => Init
  BY DEF NetInit
<1> QED BY <1>1, NetNextIsNext, PTL DEF NetSpec, Spec

LEMMA SessionsFinite == Spec => []IsFiniteSet(sessions)
<1>1. Init => IsFiniteSet(sessions)
  BY FS_EmptySet DEF Init
<1>2. IsFiniteSet(sessions) /\ [Next]_vars => IsFiniteSet(sessions)'
  <2> SUFFICES ASSUME IsFiniteSet(sessions), [Next]_vars PROVE IsFiniteSet(sessions')
    OBVIOUS
  <2>1. ASSUME NEW s, sessions' = sessions \cup {s} PROVE IsFiniteSet(sessions')
    BY <2>1, FS_AddElement
  <2>2. ASSUME sessions' \subseteq sessions PROVE IsFiniteSet(sessions')
    BY <2>2, FS_Subset
  <2>3. ASSUME NEW X, Drop(X) PROVE sessions' \subseteq sessions
    BY <2>3 DEF Drop
  <2>4. ASSUME NEW s \in Socket, Message(s) PROVE sessions' \subseteq sessions
    BY <2>3, <2>4
    DEF Message, Hello, AuthBeforeHello, Auth, Heartbeat, RequestBeforeAuth, PlayerState,
        ResourcesReady, DisconnectRequest, DropOnMessage
  <2>5. ASSUME NEW s \in Socket, SocketClosed(s) \/ HeartbeatExpires(s) \/ Kick(s)
        PROVE sessions' \subseteq sessions
    BY <2>3, <2>5 DEF SocketClosed, HeartbeatExpires, Kick
  <2>6. ASSUME Watchdog \/ Shutdown \/ ServerClosed \/ UNCHANGED vars
        PROVE sessions' \subseteq sessions
    BY <2>3, <2>6 DEF Watchdog, Shutdown, ServerClosed, vars
  <2> QED BY <2>1, <2>2, <2>4, <2>5, <2>6 DEF Next, Connect
<1> QED BY <1>1, <1>2, PTL DEF Spec
-----------------------------------------------------------------------------
(* What a drop and an auth write, as messages that lead somewhere *)

LEMMA MessageFacts ==
  ASSUME NEW p \in Player, NEW q \in Player
  PROVE  /\ Left(p) \in ServerMessage
         /\ Joined(p) \in ServerMessage
         /\ AuthResult \in ServerMessage
         /\ \A d \in Data : State(p, d) \in ServerMessage
         /\ Decides(Left(p), q) <=> p = q
         /\ Settles(Left(p)) = NoEntity
         /\ Left(p) # Joined(q)
         /\ \A d : /\ Decides(State(p, d), q) <=> p = q
                   /\ Settles(State(p, d)) = d
                   /\ State(p, d) # Joined(q)
         /\ ~Decides(AuthResult, q)
         /\ AuthResult # Joined(q)
         /\ Joined(p) = Joined(q) <=> p = q
BY DEF ServerMessage, Left, Joined, AuthResult, State, Decides, Settles

LEMMA PrependProperties ==
  ASSUME NEW T, NEW x \in T, NEW seq \in Seq(T), NEW all, all = <<x>> \o seq
  PROVE  /\ all \in Seq(T)
         /\ Len(all) = Len(seq) + 1
         /\ all[1] = x
         /\ \A i \in 1 .. Len(seq) : all[i + 1] = seq[i]
OBVIOUS

\* One player_left for each of a finite set of players.
LEMMA LeftsLead ==
  ASSUME NEW left \in SUBSET Player, IsFiniteSet(left), NEW order \in Orders(left)
  PROVE  /\ [i \in 1 .. Len(order) |-> Left(order[i])] \in Seq(ServerMessage)
         /\ \A q \in Player : \A from :
              Leads([i \in 1 .. Len(order) |-> Left(order[i])], q, from,
                    IF q \in left THEN NoEntity ELSE from)
<1> DEFINE M == [i \in 1 .. Len(order) |-> Left(order[i])]  n == Len(order)
<1>1. /\ n \in Nat
      /\ \A i \in 1 .. n : order[i] \in left
      /\ \A q \in left : \E i \in 1 .. n : order[i] = q
      /\ \A i, j \in 1 .. n : order[i] = order[j] => i = j
  BY OrderProperties
<1>2. \A i \in 1 .. n : M[i] \in ServerMessage
  BY <1>1, MessageFacts
<1>3. M \in Seq(ServerMessage) /\ Len(M) = n
  BY <1>1, <1>2
<1>4. \A i \in 1 .. n : M[i] = Left(order[i])
  OBVIOUS
<1> HIDE DEF M, n
<1>5. ASSUME NEW q \in Player, NEW i \in 1 .. n
      PROVE  (Decides(M[i], q) <=> order[i] = q) /\ M[i] # Joined(q)
  <2>1. order[i] \in Player
    BY <1>1
  <2> QED BY <1>4, <2>1, MessageFacts
<1>6. ASSUME NEW q \in Player, NEW from, q \in left PROVE Leads(M, q, from, NoEntity)
  <2>1. PICK k \in 1 .. n : order[k] = q
    BY <1>1, <1>6
  <2>2. Decides(M[k], q) /\ Settles(M[k]) = NoEntity
    BY <1>4, <1>5, <2>1, MessageFacts
  <2>3. \A i \in k + 1 .. n : i \in 1 .. n /\ i # k
    BY <1>1
  <2>4. \A i \in k + 1 .. n : ~Decides(M[i], q) /\ M[i] # Joined(q)
    BY <1>1, <1>5, <2>1, <2>3
  <2> QED BY <1>3, <2>2, <2>4 DEF Leads, JoinedAfter
<1>7. ASSUME NEW q \in Player, NEW from, q \notin left PROVE Leads(M, q, from, from)
  <2>1. \A i \in 1 .. n : ~Decides(M[i], q) /\ M[i] # Joined(q)
    BY <1>1, <1>5, <1>7
  <2> QED BY <1>1, <1>3, <2>1 DEF Leads, JoinedAfter, Undecided
<1>8. \A q \in Player : \A from : Leads(M, q, from, IF q \in left THEN NoEntity ELSE from)
  BY <1>6, <1>7
<1> QED BY <1>3, <1>8 DEF M, n

LEMMA ImageFinite ==
  ASSUME NEW S, IsFiniteSet(S), NEW f
  PROVE  IsFiniteSet({f[x] : x \in S})
<1> DEFINE T == {f[x] : x \in S}  g == [x \in S |-> f[x]]
<1>1. g \in [S -> T] /\ \A t \in T : \E x \in S : g[x] = t
  OBVIOUS
<1> HIDE DEF T, g
<1>2. g \in Surjection(S, T)
  BY <1>1 DEF Surjection
<1> QED BY <1>2, FS_Surjection DEF T

LEMMA BackfillFinite ==
  ASSUME TypeOK, IsFiniteSet(sessions), NEW s
  PROVE  IsFiniteSet(Backfill(s))
<1> DEFINE others == {o \in sessions \ {s} : authenticated[o]}
           placed == {o \in others : lastPlayerState[o] # NoState}
<1>1. IsFiniteSet(others) /\ IsFiniteSet(placed)
  <2>1. others \subseteq sessions /\ placed \subseteq sessions
    OBVIOUS
  <2> QED BY <2>1, FS_Subset
<1>2. PICK joins : joins = [o \in others |-> [of |-> o, says |-> Joined(playerId[o])]]
  OBVIOUS
<1>3. PICK states : states = [o \in placed |-> [of |-> o, says |-> State(playerId[o], lastPlayerState[o])]]
  OBVIOUS
<1>4. Backfill(s) = {joins[o] : o \in others} \cup {states[o] : o \in placed}
  BY <1>2, <1>3 DEF Backfill
<1> HIDE DEF others, placed
<1>5. PICK J, K : J = {joins[o] : o \in others} /\ K = {states[o] : o \in placed}
  OBVIOUS
<1>6. IsFiniteSet(J) /\ IsFiniteSet(K)
  BY <1>1, <1>5, ImageFinite
<1>7. IsFiniteSet(J \cup K)
  BY <1>6, FS_Union
<1> QED BY <1>4, <1>5, <1>7

\* What a newcomer is written, and what it is to know of every player then.
LEMMA BackfillLeads ==
  ASSUME TypeOK, IssuedIds, IsFiniteSet(sessions),
         NEW s \in Socket, told[s] = Nobody,
         NEW order \in BackfillOrders(s),
         NEW b \in [Player -> Seen], \A q \in Player : b[q] \in Backfilled(s, q),
         \A i \in 1 .. Len(order) :
           LastState(order, i) => b[order[i].says.player] = order[i].says.data
  PROVE  /\ AuthReply(order) \in Seq(ServerMessage)
         /\ \A q \in Player : Leads(AuthReply(order), q, NoEntity, b[q])
<1> DEFINE B == Backfill(s)  n == Len(order)  M == AuthReply(order)
           others == {o \in sessions \ {s} : authenticated[o]}
<1>0. IsFiniteSet(B) /\ order \in Orders(B)
  BY BackfillFinite DEF BackfillOrders
<1>1. /\ n \in Nat
      /\ \A i \in 1 .. n : order[i] \in B
      /\ \A x \in B : \E i \in 1 .. n : order[i] = x
  <2> HIDE DEF B
  <2> QED BY <1>0, OrderProperties
<1>2. \A o \in others : playerId[o] \in Player /\ lastPlayerState[o] \in Data \cup {NoState}
  BY IdentityAssumption DEF TypeOK, IssuedIds
<1>3. ASSUME NEW x \in B
      PROVE  \E o \in others :
               \/ x = [of |-> o, says |-> Joined(playerId[o])]
               \/ lastPlayerState[o] \in Data
                  /\ x = [of |-> o, says |-> State(playerId[o], lastPlayerState[o])]
  BY <1>2 DEF Backfill
<1>4. ASSUME NEW o \in others
      PROVE  /\ \E i \in 1 .. n : order[i].says = Joined(playerId[o])
             /\ lastPlayerState[o] # NoState =>
                  \E i \in 1 .. n : order[i].says = State(playerId[o], lastPlayerState[o])
  <2>1. [of |-> o, says |-> Joined(playerId[o])] \in B
    BY DEF Backfill
  <2>2. lastPlayerState[o] # NoState => [of |-> o, says |-> State(playerId[o], lastPlayerState[o])] \in B
    BY DEF Backfill
  <2> HIDE DEF B
  <2> QED BY <1>1, <2>1, <2>2
<1> HIDE DEF B
<1>5. ASSUME NEW i \in 1 .. n
      PROVE  \E o \in others : \/ order[i].says = Joined(playerId[o])
                               \/ lastPlayerState[o] \in Data
                                  /\ order[i].says = State(playerId[o], lastPlayerState[o])
  BY <1>1, <1>3
<1>6. \A i \in 1 .. n : order[i].says \in ServerMessage
  <2> SUFFICES ASSUME NEW i \in 1 .. n PROVE order[i].says \in ServerMessage
    OBVIOUS
  <2>1. PICK o \in others : \/ order[i].says = Joined(playerId[o])
                            \/ lastPlayerState[o] \in Data
                               /\ order[i].says = State(playerId[o], lastPlayerState[o])
    BY <1>5
  <2> QED BY <1>2, <2>1, MessageFacts
<1>7. PICK S : S = [i \in 1 .. n |-> order[i].says]
  OBVIOUS
<1>8. S \in Seq(ServerMessage) /\ Len(S) = n /\ \A i \in 1 .. n : S[i] = order[i].says
  BY <1>1, <1>6, <1>7
<1>9. AuthResult \in ServerMessage
  BY DEF ServerMessage
<1>10. M = <<AuthResult>> \o S
  BY <1>7 DEF AuthReply
<1>11. /\ M \in Seq(ServerMessage)
       /\ Len(M) = n + 1
       /\ M[1] = AuthResult
       /\ \A i \in 1 .. n : i + 1 \in 1 .. Len(M) /\ M[i + 1] = order[i].says
       /\ \A i \in 2 .. n + 1 : i - 1 \in 1 .. n /\ M[i] = order[i - 1].says
  <2>4. /\ M \in Seq(ServerMessage)
        /\ Len(M) = n + 1
        /\ M[1] = AuthResult
        /\ \A i \in 1 .. n : M[i + 1] = S[i]
    <3>1. PICK V : V = <<AuthResult>> \o S
      OBVIOUS
    <3>2. /\ V \in Seq(ServerMessage)
          /\ Len(V) = Len(S) + 1
          /\ V[1] = AuthResult
          /\ \A i \in 1 .. Len(S) : V[i + 1] = S[i]
      BY <1>8, <1>9, <3>1, PrependProperties
    <3>3. M = V
      BY <1>10, <3>1
    <3>4. n = Len(S)
      BY <1>8
    <3> HIDE DEF M, n
    <3> QED BY <3>2, <3>3, <3>4
  <2>5. \A i \in 1 .. n : i + 1 \in 1 .. Len(M) /\ M[i + 1] = order[i].says
    <3> SUFFICES ASSUME NEW i \in 1 .. n PROVE i + 1 \in 1 .. Len(M) /\ M[i + 1] = order[i].says
      OBVIOUS
    <3> QED BY <1>1, <1>8, <2>4
  <2>6. \A i \in 2 .. n + 1 : i - 1 \in 1 .. n /\ M[i] = order[i - 1].says
    <3> SUFFICES ASSUME NEW i \in 2 .. n + 1 PROVE i - 1 \in 1 .. n /\ M[i] = order[i - 1].says
      OBVIOUS
    <3>1. i - 1 \in 1 .. n /\ (i - 1) + 1 = i
      BY <1>1
    <3> QED BY <2>5, <3>1
  <2> QED BY <2>4, <2>5, <2>6
<1> HIDE DEF M, n
<1> SUFFICES ASSUME NEW q \in Player PROVE Leads(M, q, NoEntity, b[q])
  BY <1>11 DEF M
<1>12. CASE \E o \in others : playerId[o] = q /\ lastPlayerState[o] # NoState
  <2>1. PICK o \in others : playerId[o] = q /\ lastPlayerState[o] # NoState
    BY <1>12
  <2>2. PICK e \in 1 .. n : order[e].says = State(q, lastPlayerState[o])
    BY <1>4, <2>1
  <2>3. PICK K : K = {i \in 1 .. n : IsState(order[i].says) /\ order[i].says.player = q}
    OBVIOUS
  <2>4. e \in K /\ K \in SUBSET (1 .. n)
    BY <2>2, <2>3 DEF IsState, State
  <2>5. PICK k \in K : \A j \in K : j <= k
    BY <1>1, <2>4, GreatestExists
  <2>6. k \in 1 .. n /\ k \in Int /\ n \in Int
    BY <1>1, <2>4
  <2>7. IsState(order[k].says) /\ order[k].says.player = q
    BY <2>3
  <2>8. ASSUME NEW j \in k + 1 .. n
        PROVE  ~(IsState(order[j].says) /\ order[j].says.player = q)
    <3>1. j \in 1 .. n /\ j \in Int /\ j > k
      BY <2>6
    <3> QED BY <2>3, <2>5, <2>6, <3>1
  <2>9. LastState(order, k)
    BY <2>7, <2>8 DEF LastState, n
  <2>10. b[q] = order[k].says.data
    BY <2>6, <2>7, <2>9 DEF n
  <2>11. PICK c \in others : lastPlayerState[c] \in Data
                            /\ order[k].says = State(playerId[c], lastPlayerState[c])
    <3>1. PICK c \in others : \/ order[k].says = Joined(playerId[c])
                              \/ lastPlayerState[c] \in Data
                                 /\ order[k].says = State(playerId[c], lastPlayerState[c])
      BY <1>5, <2>6
    <3>2. Joined(playerId[c]).type # "player_state"
      BY DEF Joined
    <3> QED BY <2>7, <3>1, <3>2 DEF IsState
  <2>12. b[q] \in Data /\ b[q] # NoEntity
    BY <2>10, <2>11, DataAssumption DEF State
  <2>13. k + 1 \in 1 .. Len(M) /\ M[k + 1] = order[k].says
    BY <1>11, <2>6
  <2>14. Decides(M[k + 1], q) /\ Settles(M[k + 1]) = b[q]
    BY <2>7, <2>10, <2>13 DEF Decides, Settles, IsState
  <2>15. ASSUME NEW i \in (k + 1) + 1 .. Len(M) PROVE ~Decides(M[i], q)
    <3>1. i \in 2 .. n + 1 /\ i - 1 \in k + 1 .. n
      BY <1>11, <2>6
    <3>2. i - 1 \in 1 .. n /\ M[i] = order[i - 1].says
      BY <1>11, <3>1
    <3>3. PICK a \in others : \/ order[i - 1].says = Joined(playerId[a])
                              \/ order[i - 1].says = State(playerId[a], lastPlayerState[a])
      BY <1>5, <3>2
    <3>4. ~(IsState(order[i - 1].says) /\ order[i - 1].says.player = q)
      BY <2>8, <3>1
    <3> QED BY <3>2, <3>3, <3>4, JoinedDecidesNothing DEF Decides, IsState, State
  <2>16. b[q] = JoinedAfter(M, k + 1, q, Settles(M[k + 1]))
    BY <2>12, <2>14 DEF JoinedAfter
  <2> QED BY <2>13, <2>14, <2>15, <2>16 DEF Leads
<1>13. CASE \A o \in others : playerId[o] = q => lastPlayerState[o] = NoState
  <2>1. ASSUME NEW i \in 1 .. Len(M) PROVE ~Decides(M[i], q)
    <3>1. CASE i = 1
      BY <1>11, <3>1 DEF Decides, AuthResult
    <3>2. CASE i # 1
      <4>1. i \in 2 .. n + 1
        BY <1>1, <1>11, <3>2
      <4>2. i - 1 \in 1 .. n /\ M[i] = order[i - 1].says
        BY <1>11, <4>1
      <4>3. PICK o \in others : \/ M[i] = Joined(playerId[o])
                                \/ lastPlayerState[o] \in Data
                                   /\ M[i] = State(playerId[o], lastPlayerState[o])
        BY <1>5, <4>2
      <4>4. lastPlayerState[o] \in Data => lastPlayerState[o] # NoState
        BY DataAssumption
      <4> QED BY <1>13, <4>3, <4>4, JoinedDecidesNothing DEF Decides, State
    <3> QED BY <3>1, <3>2
  <2>2. (\E i \in 0 + 1 .. Len(M) : M[i] = Joined(q)) <=> \E o \in others : playerId[o] = q
    <3>1. ASSUME NEW o \in others, playerId[o] = q PROVE \E i \in 0 + 1 .. Len(M) : M[i] = Joined(q)
      <4>1. PICK i \in 1 .. n : order[i].says = Joined(q)
        BY <1>4, <3>1
      <4> QED BY <1>11, <4>1
    <3>2. ASSUME NEW i \in 0 + 1 .. Len(M), M[i] = Joined(q) PROVE \E o \in others : playerId[o] = q
      <4>1. i # 1
        BY <1>11, <3>2 DEF AuthResult, Joined
      <4>2. i \in 2 .. n + 1
        BY <1>1, <1>11, <4>1
      <4>3. i - 1 \in 1 .. n /\ order[i - 1].says = Joined(q)
        BY <1>11, <3>2, <4>2
      <4>4. PICK o \in others : \/ Joined(q) = Joined(playerId[o])
                                \/ Joined(q) = State(playerId[o], lastPlayerState[o])
        BY <1>5, <4>3
      <4> QED BY <4>4 DEF Joined, State
    <3> QED BY <3>1, <3>2
  <2>3. b[q] = IF \E o \in others : playerId[o] = q THEN NoState ELSE NoEntity
    <3>1. b[q] \in Backfilled(s, q)
      OBVIOUS
    <3>2. {lastPlayerState[o] : o \in {o \in sessions \ {s} : authenticated[o] /\ playerId[o] = q}} \ {NoState} = {}
      BY <1>13
    <3>3. told[s][q] = NoEntity /\ SeeJoined(told[s], q)[q] = NoState
      BY DEF Nobody, SeeJoined
    <3>4. {o \in sessions \ {s} : authenticated[o] /\ playerId[o] = q} = {} <=> ~\E o \in others : playerId[o] = q
      OBVIOUS
    <3> HIDE DEF others
    <3> QED BY <3>1, <3>2, <3>3, <3>4 DEF Backfilled
  <2>4. b[q] = JoinedAfter(M, 0, q, NoEntity)
    BY <2>2, <2>3 DEF JoinedAfter
  <2> QED BY <2>1, <2>4 DEF Leads, Undecided
<1> QED BY <1>12, <1>13
-----------------------------------------------------------------------------
(* The server's part of every step *)

ServerInv == Lifecycle /\ IssuedIds /\ NothingBeforeAuth /\ IsFiniteSet(sessions)

LEMMA ServerInvCorrect == NetSpec => []ServerInv
BY NetSpecIsSpec, LifecycleCorrect, IssuedIdsCorrect, NothingBeforeAuthCorrect, SessionsFinite, PTL
DEF ServerInv

LEMMA PlayerIds ==
  ASSUME ServerInv, NEW s \in Socket, authenticated[s]
  PROVE  playerId[s] \in Player
BY IdentityAssumption DEF ServerInv, IssuedIds

\* A client that was never authenticated has been written nothing.
Fresh == \A s \in Socket : ~authenticated[s] => wire[s] = <<>> /\ entities[s] = Nobody

NetBase == NetTypeOK /\ Fresh

LEMMA LeftPlayers ==
  ASSUME ServerInv, NEW X
  PROVE  LET left == {playerId[s] : s \in {g \in X \cap sessions : authenticated[g]}}
         IN  left \in SUBSET Player /\ IsFiniteSet(left)
<1> DEFINE G == {g \in X \cap sessions : authenticated[g]}  left == {playerId[s] : s \in G}
<1>1. G \subseteq sessions /\ IsFiniteSet(G)
  <2>1. G \subseteq sessions
    OBVIOUS
  <2> QED BY <2>1, FS_Subset DEF ServerInv
<1>2. IsFiniteSet(left)
  <2> HIDE DEF G
  <2> QED BY <1>1, ImageFinite
<1>3. \A s \in G : playerId[s] \in Player
  BY PlayerIds DEF ServerInv, Lifecycle, TypeOK
<1> QED BY <1>2, <1>3

\* What the listeners are written when the sessions of X end.
LEMMA LeftsWritten ==
  ASSUME ServerInv, NetTypeOK, NEW X, Drop(X), WriteLefts(X), NEW s \in Socket
  PROVE  /\ wire'[s] \in Seq(ServerMessage)
         /\ s \notin Audience => wire'[s] = wire[s]
         /\ s \in Audience \ (X \cap sessions) =>
              \E M \in Seq(ServerMessage) :
                /\ wire'[s] = wire[s] \o M
                /\ \A p \in Player : Leads(M, p, told[s][p], told'[s][p])
<1> DEFINE gone == X \cap sessions
           left == {playerId[t] : t \in {g \in gone : authenticated[g]}}
<1>1. left \in SUBSET Player /\ IsFiniteSet(left)
  BY LeftPlayers
<1>2. PICK order \in Orders(left) : WriteTo(Audience \ gone, [i \in 1 .. Len(order) |-> Left(order[i])])
  BY DEF WriteLefts
<1>3. told' = [r \in Socket |-> IF r \in gone THEN Nobody
                                ELSE IF r \in Audience THEN SeeLeft(told[r], left) ELSE told[r]]
  BY DEF Drop
<1>4. wire[s] \in Seq(ServerMessage)
  BY DEF NetTypeOK
<1> HIDE DEF left
<1>5. PICK M : M = [i \in 1 .. Len(order) |-> Left(order[i])]
  OBVIOUS
<1>6. /\ M \in Seq(ServerMessage)
      /\ \A q \in Player : \A from : Leads(M, q, from, IF q \in left THEN NoEntity ELSE from)
  <2>1. [i \in 1 .. Len(order) |-> Left(order[i])] \in Seq(ServerMessage)
    BY <1>1, LeftsLead
  <2>2. ASSUME NEW q \in Player, NEW from
        PROVE  Leads([i \in 1 .. Len(order) |-> Left(order[i])], q, from,
                     IF q \in left THEN NoEntity ELSE from)
    BY <1>1, LeftsLead
  <2> QED BY <1>5, <2>1, <2>2
<1>7. wire'[s] = IF s \in Audience \ gone THEN wire[s] \o M ELSE wire[s]
  BY <1>2, <1>5 DEF WriteTo
<1>8. wire[s] \o M \in Seq(ServerMessage)
  BY <1>4, <1>6, ConcatProperties
<1>9. ASSUME s \in Audience \ gone, NEW p \in Player PROVE Leads(M, p, told[s][p], told'[s][p])
  <2>1. told'[s][p] = IF p \in left THEN NoEntity ELSE told[s][p]
    BY <1>3, <1>9 DEF SeeLeft
  <2> QED BY <1>6, <2>1
<1> QED BY <1>4, <1>6, <1>7, <1>8, <1>9

LEMMA AppendMessage ==
  ASSUME NEW W \in Seq(ServerMessage), NEW m \in ServerMessage
  PROVE  /\ <<m>> \in Seq(ServerMessage)
         /\ Append(W, m) = W \o <<m>>
         /\ Append(W, m) \in Seq(ServerMessage)
BY AppendIsConcat, AppendProperties

\* What the listeners are written of a player's new state.
LEMMA StateWritten ==
  ASSUME ServerInv, NetTypeOK, NEW a \in Socket, NEW d \in Data, ClientMoves(a, d), NEW s \in Socket
  PROVE  /\ wire'[s] \in Seq(ServerMessage)
         /\ s \notin Audience => wire'[s] = wire[s]
         /\ \E M \in Seq(ServerMessage) :
              /\ wire'[s] = wire[s] \o M
              /\ \A p \in Player : Leads(M, p, told[s][p], told'[s][p])
<1>1. wire[s] \in Seq(ServerMessage) /\ told[s] \in [Player -> Seen]
  BY DEF NetTypeOK, ServerInv, Lifecycle, TypeOK
<1>2. authenticated[a] /\ playerId[a] \in Player
  BY PlayerIds DEF ClientMoves, PlayerState
<1>3. PICK m : m = State(playerId[a], d)
  OBVIOUS
<1>4. m \in ServerMessage
  BY <1>2, <1>3, MessageFacts
<1>5. wire'[s] = IF s \in Audience \ {a} THEN wire[s] \o <<m>> ELSE wire[s]
  BY <1>3 DEF ClientMoves, WriteTo
<1>6. told'[s] = IF s \in Audience \ {a} THEN SeeState(told[s], playerId[a], d) ELSE told[s]
  BY DEF ClientMoves, PlayerState
<1>7. CASE s \in Audience \ {a}
  <2>1. <<m>> \in Seq(ServerMessage) /\ wire[s] \o <<m>> \in Seq(ServerMessage)
    BY <1>1, <1>4, AppendMessage
  <2>2. ASSUME NEW p \in Player PROVE Leads(<<m>>, p, told[s][p], told'[s][p])
    <3>1. Handled(told[s][p], m, p) = told'[s][p]
      BY <1>1, <1>2, <1>3, <1>6, <1>7, MessageFacts DEF Handled, SeeState
    <3> QED BY <1>4, <3>1, LeadsOne
  <2> QED BY <1>5, <1>7, <2>1, <2>2
<1>8. CASE s \notin Audience \ {a}
  <2>1. <<>> \in Seq(ServerMessage) /\ wire'[s] = wire[s] \o <<>>
    BY <1>1, <1>5, <1>8
  <2>2. \A p \in Player : Leads(<<>>, p, told[s][p], told'[s][p])
    BY <1>6, <1>8, LeadsNowhere
  <2> QED BY <1>1, <1>5, <1>8, <2>1, <2>2
<1> QED BY <1>7, <1>8

\* What the others are written when a client authenticates.
LEMMA JoinWritten ==
  ASSUME ServerInv, NetTypeOK, NEW a \in Socket, NEW q \in Identity[a], ClientAuth(a, q),
         NEW s \in Socket, s # a
  PROVE  /\ wire'[s] \in Seq(ServerMessage)
         /\ s \notin Audience => wire'[s] = wire[s]
         /\ \E M \in Seq(ServerMessage) :
              /\ wire'[s] = wire[s] \o M
              /\ \A p \in Player : Leads(M, p, told[s][p], told'[s][p])
<1>1. wire[s] \in Seq(ServerMessage) /\ told[s] \in [Player -> Seen]
  BY DEF NetTypeOK, ServerInv, Lifecycle, TypeOK
<1>2. q \in Player
  BY IdentityAssumption
<1>3. PICK m : m = Joined(q)
  OBVIOUS
<1>4. m \in ServerMessage
  BY <1>2, <1>3, MessageFacts
<1>5. wire'[s] = IF s \in Audience THEN Append(wire[s], m) ELSE wire[s]
  BY <1>3 DEF ClientAuth
<1>6. told'[s] = IF s \in Audience THEN SeeJoined(told[s], q) ELSE told[s]
  BY DEF ClientAuth, Auth
<1>7. CASE s \in Audience
  <2>1. /\ <<m>> \in Seq(ServerMessage)
        /\ Append(wire[s], m) = wire[s] \o <<m>>
        /\ Append(wire[s], m) \in Seq(ServerMessage)
    BY <1>1, <1>4, AppendMessage
  <2>2. ASSUME NEW p \in Player PROVE Leads(<<m>>, p, told[s][p], told'[s][p])
    <3>1. Handled(told[s][p], m, p) = told'[s][p]
      BY <1>1, <1>2, <1>3, <1>6, <1>7, MessageFacts, JoinedDecidesNothing DEF Handled, SeeJoined
    <3> QED BY <1>4, <3>1, LeadsOne
  <2> QED BY <1>5, <1>7, <2>1, <2>2
<1>8. CASE s \notin Audience
  <2>1. <<>> \in Seq(ServerMessage) /\ wire'[s] = wire[s] \o <<>>
    BY <1>1, <1>5, <1>8
  <2>2. \A p \in Player : Leads(<<>>, p, told[s][p], told'[s][p])
    BY <1>6, <1>8, LeadsNowhere
  <2> QED BY <1>1, <1>5, <1>8, <2>1, <2>2
<1> QED BY <1>7, <1>8

\* What the newcomer is written itself.
LEMMA NewcomerWritten ==
  ASSUME ServerInv, NetBase, NEW a \in Socket, NEW q \in Identity[a], ClientAuth(a, q)
  PROVE  /\ wire'[a] \in Seq(ServerMessage)
         /\ entities[a] = Nobody
         /\ Writable(a) => \A p \in Player : Leads(wire'[a], p, entities[a][p], told'[a][p])
<1>1. ~authenticated[a]
  BY DEF ClientAuth
<1>2. wire[a] = <<>> /\ entities[a] = Nobody /\ told[a] = Nobody
  BY <1>1 DEF NetBase, Fresh, ServerInv, NothingBeforeAuth
<1>3. PICK order \in BackfillOrders(a) :
        /\ Writable(a) => \A i \in 1 .. Len(order) :
             LastState(order, i) => told'[a][order[i].says.player] = order[i].says.data
        /\ wire' = [r \in Socket |->
                     IF r = a THEN IF Writable(a) THEN wire[a] \o AuthReply(order) ELSE wire[a]
                     ELSE IF r \in Audience THEN Append(wire[r], Joined(q))
                     ELSE wire[r]]
  BY DEF ClientAuth
<1>4. CASE ~Writable(a)
  <2>1. wire'[a] = wire[a]
    BY <1>3, <1>4
  <2> QED BY <1>2, <1>4, <2>1
<1>5. CASE Writable(a)
  <2>1. PICK b \in Backfills(a) :
          told' = [r \in Socket |-> IF r = a THEN b
                                    ELSE IF r \in Audience THEN SeeJoined(told[r], q) ELSE told[r]]
    BY DEF ClientAuth, Auth
  <2>2. b \in [Player -> Seen] /\ told'[a] = b /\ \A p \in Player : b[p] \in Backfilled(a, p)
    BY <1>5, <2>1 DEF Backfills
  <2>3. \A i \in 1 .. Len(order) : LastState(order, i) => b[order[i].says.player] = order[i].says.data
    BY <1>3, <1>5, <2>2
  <2>4. TypeOK /\ IssuedIds /\ IsFiniteSet(sessions)
    BY DEF ServerInv, Lifecycle
  <2>5. /\ AuthReply(order) \in Seq(ServerMessage)
        /\ \A p \in Player : Leads(AuthReply(order), p, NoEntity, b[p])
    BY <1>2, <2>2, <2>3, <2>4, BackfillLeads
  <2>6. wire'[a] = <<>> \o AuthReply(order)
    BY <1>2, <1>3, <1>5
  <2>7. wire'[a] = AuthReply(order)
    BY <2>5, <2>6, ConcatEmptySeq
  <2>8. \A p \in Player : entities[a][p] = NoEntity
    BY <1>2 DEF Nobody
  <2> QED BY <1>2, <2>2, <2>5, <2>7, <2>8
<1> QED BY <1>4, <1>5
-----------------------------------------------------------------------------
(* Reading one message *)

LEMMA ReadOne ==
  ASSUME NEW W \in Seq(ServerMessage), W # <<>>
  PROVE  /\ Head(W) \in ServerMessage
         /\ Tail(W) \in Seq(ServerMessage)
         /\ \A q : Undecided(W, q) => ~Decides(Head(W), q) /\ Undecided(Tail(W), q)
<1>1. Len(W) \in Nat \ {0} /\ Head(W) = W[1] /\ W[1] \in ServerMessage
  BY EmptySeq
<1>2. /\ Tail(W) \in Seq(ServerMessage)
      /\ Len(Tail(W)) = Len(W) - 1
      /\ \A i \in 1 .. Len(Tail(W)) : Tail(W)[i] = W[i + 1]
  BY HeadTailProperties
<1>3. \A i \in 1 .. Len(W) - 1 : i + 1 \in 1 .. Len(W)
  BY <1>1
<1> QED BY <1>1, <1>2, <1>3 DEF Undecided

LEMMA MessageShape ==
  ASSUME NEW m \in ServerMessage
  PROVE  \/ m = AuthResult
         \/ \E p \in Player : m = Joined(p)
         \/ \E p \in Player : m = Left(p)
         \/ \E p \in Player, d \in Data : m = State(p, d)
BY DEF ServerMessage

\* What dispatching a message does to the client's replica: the message is
\* handled as Handled says, or of its player something was missed.
LEMMA Dispatched ==
  ASSUME ServerInv, NetTypeOK, NEW s \in Socket, Dispatch(s)
  PROVE  /\ wire' = [wire EXCEPT ![s] = Tail(@)]
         /\ replied' \in [Socket -> BOOLEAN]
         /\ localAlive' \in [Socket -> BOOLEAN]
         /\ missed' \in [Socket -> SUBSET Player]
         /\ entities' \in [Socket -> [Player -> Seen]]
         /\ \A t \in Socket \ {s} : entities'[t] = entities[t] /\ missed'[t] = missed[t]
         /\ \A p \in Player \ {playerId[s]} :
              \/ p \in missed'[s]
              \/ /\ entities'[s][p] = Handled(entities[s][p], Head(wire[s]), p)
                 /\ p \in missed[s] => Decides(Head(wire[s]), p)
         /\ playerId[s] \in Player =>
              entities'[s][playerId[s]] \in {entities[s][playerId[s]], NoEntity}
<1> DEFINE m == Head(wire[s])
           Effect ==
             /\ missed' \in [Socket -> SUBSET Player]
             /\ replied' \in [Socket -> BOOLEAN]
             /\ localAlive' \in [Socket -> BOOLEAN]
             /\ entities' \in [Socket -> [Player -> Seen]]
             /\ \A t \in Socket \ {s} : entities'[t] = entities[t] /\ missed'[t] = missed[t]
             /\ \A p \in Player \ {playerId[s]} :
                  \/ p \in missed'[s]
                  \/ /\ entities'[s][p] = Handled(entities[s][p], m, p)
                     /\ p \in missed[s] => Decides(m, p)
             /\ playerId[s] \in Player =>
                  entities'[s][playerId[s]] \in {entities[s][playerId[s]], NoEntity}
<1>1. wire[s] \in Seq(ServerMessage) /\ wire[s] # <<>>
  BY DEF NetTypeOK, Dispatch
<1>2. m \in ServerMessage
  BY <1>1, ReadOne
<1>3. /\ entities[s] \in [Player -> Seen]
      /\ entities \in [Socket -> [Player -> Seen]]
      /\ missed \in [Socket -> SUBSET Player]
      /\ localAlive \in [Socket -> BOOLEAN]
      /\ replied \in [Socket -> BOOLEAN]
  BY DEF NetTypeOK
<1>4. wire' = [wire EXCEPT ![s] = Tail(@)]
  BY DEF Dispatch
<1>5. CASE m = AuthResult
  <2>1. m.type = "auth_result"
    BY <1>5 DEF AuthResult
  <2>2. replied' = [replied EXCEPT ![s] = TRUE] /\ UNCHANGED <<entities, localAlive, missed>>
    BY <2>1 DEF Dispatch
  <2>3. \A p, from : Handled(from, m, p) = from
    BY <1>5 DEF Handled, Decides, AuthResult, Joined
  <2> HIDE DEF m
  <2> QED BY <1>3, <1>4, <2>2, <2>3 DEF m
<1>7. ASSUME NEW q \in Player, m = Joined(q) PROVE Effect
  <2>1. m.type = "player_joined" /\ m.player = q
    BY <1>7 DEF Joined
  <2>2. \A p \in Player : \A from :
          Handled(from, m, p) = IF p = q /\ from = NoEntity THEN NoState ELSE from
    BY <1>7, JoinedDecidesNothing, MessageFacts DEF Handled
  <2>3. CASE ~Subscribed(s, m.type)
    <3>1. UNCHANGED <<replied, entities, localAlive>> /\ missed' = [missed EXCEPT ![s] = @ \cup {q}]
      BY <2>1, <2>3 DEF Dispatch
    <3> HIDE DEF m
    <3> QED BY <1>3, <2>2, <3>1
  <2>4. CASE Subscribed(s, m.type)
    <3>1. OnPlayerJoined(s, q) /\ UNCHANGED replied
      BY <2>1, <2>4 DEF Dispatch
    <3>2. /\ entities' = [entities EXCEPT ![s] = IF q = playerId[s] THEN @ ELSE SeeJoined(@, q)]
          /\ UNCHANGED <<localAlive, missed, replied>>
      BY <3>1 DEF OnPlayerJoined
    <3>3. SeeJoined(entities[s], q) \in [Player -> Seen]
      BY <1>3, SeeTypes
    <3>4. entities' \in [Socket -> [Player -> Seen]]
      BY <1>3, <3>2, <3>3
    <3>5. \A p \in Player : entities'[s][p] =
             IF q # playerId[s] /\ p = q /\ entities[s][p] = NoEntity THEN NoState ELSE entities[s][p]
      BY <1>3, <3>2 DEF SeeJoined
    <3>6. \A t \in Socket \ {s} : entities'[t] = entities[t]
      BY <1>3, <3>2
    <3> HIDE DEF m
    <3>7. \A p \in Player \ {playerId[s]} : entities'[s][p] = Handled(entities[s][p], m, p)
      BY <2>2, <3>5
    <3>8. playerId[s] \in Player => entities'[s][playerId[s]] = entities[s][playerId[s]]
      BY <3>5
    <3> QED BY <1>3, <3>2, <3>4, <3>6, <3>7, <3>8
  <2> QED BY <2>3, <2>4
<1>8. ASSUME NEW q \in Player, m = Left(q) PROVE Effect
  <2>1. m.type = "player_left" /\ m.player = q
    BY <1>8 DEF Left
  <2>2. \A p \in Player : \A from :
          /\ Decides(m, p) <=> p = q
          /\ Handled(from, m, p) = IF p = q THEN NoEntity ELSE from
    BY <1>8, MessageFacts DEF Handled
  <2>3. CASE ~Subscribed(s, m.type)
    <3>1. UNCHANGED <<replied, entities, localAlive>> /\ missed' = [missed EXCEPT ![s] = @ \cup {q}]
      BY <2>1, <2>3 DEF Dispatch
    <3> HIDE DEF m
    <3> QED BY <1>3, <2>2, <3>1
  <2>4. CASE Subscribed(s, m.type)
    <3>1. OnPlayerLeft(s, q) /\ UNCHANGED replied
      BY <2>1, <2>4 DEF Dispatch
    <3>2. /\ entities' = [entities EXCEPT ![s] = SeeLeft(@, {q})]
          /\ localAlive' = [localAlive EXCEPT ![s] = @ /\ q # playerId[s]]
          /\ missed' = [missed EXCEPT ![s] = @ \ {q}]
          /\ UNCHANGED replied
      BY <3>1 DEF OnPlayerLeft
    <3>3. SeeLeft(entities[s], {q}) \in [Player -> Seen]
      BY <1>3, SeeTypes
    <3>4. entities' \in [Socket -> [Player -> Seen]]
      BY <1>3, <3>2, <3>3
    <3>5. \A p \in Player : entities'[s][p] = IF p = q THEN NoEntity ELSE entities[s][p]
      BY <1>3, <3>2 DEF SeeLeft
    <3>6. \A t \in Socket \ {s} : entities'[t] = entities[t]
      BY <1>3, <3>2
    <3>7. localAlive' \in [Socket -> BOOLEAN] /\ missed' \in [Socket -> SUBSET Player]
      BY <1>3, <3>2
    <3>8. \A t \in Socket \ {s} : missed'[t] = missed[t]
      BY <1>3, <3>2
    <3>9. \A p \in Player : p \in missed[s] => p = q \/ p \in missed'[s]
      BY <1>3, <3>2
    <3> HIDE DEF m
    <3>10. \A p \in Player \ {playerId[s]} :
              /\ entities'[s][p] = Handled(entities[s][p], m, p)
              /\ p \in missed[s] => p \in missed'[s] \/ Decides(m, p)
      BY <2>2, <3>5, <3>9
    <3>11. playerId[s] \in Player =>
             entities'[s][playerId[s]] \in {entities[s][playerId[s]], NoEntity}
      BY <3>5
    <3> QED BY <1>3, <3>2, <3>4, <3>6, <3>7, <3>8, <3>10, <3>11
  <2> QED BY <2>3, <2>4
<1>9. ASSUME NEW q \in Player, NEW d \in Data, m = State(q, d) PROVE Effect
  <2>1. m.type = "player_state" /\ m.player = q /\ m.data = d
    BY <1>9 DEF State
  <2>2. \A p \in Player : \A from :
          /\ Decides(m, p) <=> p = q
          /\ Handled(from, m, p) = IF p = q THEN d ELSE from
    BY <1>9, MessageFacts DEF Handled
  <2>3. CASE ~Subscribed(s, m.type)
    <3>1. UNCHANGED <<replied, entities, localAlive>> /\ missed' = [missed EXCEPT ![s] = @ \cup {q}]
      BY <2>1, <2>3 DEF Dispatch
    <3> HIDE DEF m
    <3> QED BY <1>3, <2>2, <3>1
  <2>4. CASE Subscribed(s, m.type)
    <3>1. OnPlayerState(s, q, d) /\ UNCHANGED replied
      BY <2>1, <2>4 DEF Dispatch
    <3>2. /\ entities' = [entities EXCEPT ![s] = IF q = playerId[s] THEN @ ELSE SeeState(@, q, d)]
          /\ missed' = [missed EXCEPT ![s] = @ \ {q}]
          /\ UNCHANGED <<localAlive, replied>>
      BY <3>1 DEF OnPlayerState
    <3>3. SeeState(entities[s], q, d) \in [Player -> Seen]
      BY <1>3, SeeTypes
    <3>4. entities' \in [Socket -> [Player -> Seen]]
      BY <1>3, <3>2, <3>3
    <3>5. \A p \in Player : entities'[s][p] = IF p = q /\ q # playerId[s] THEN d ELSE entities[s][p]
      BY <1>3, <3>2 DEF SeeState
    <3>6. \A t \in Socket \ {s} : entities'[t] = entities[t]
      BY <1>3, <3>2
    <3>7. missed' \in [Socket -> SUBSET Player]
      BY <1>3, <3>2
    <3>8. \A t \in Socket \ {s} : missed'[t] = missed[t]
      BY <1>3, <3>2
    <3>9. \A p \in Player : p \in missed[s] => p = q \/ p \in missed'[s]
      BY <1>3, <3>2
    <3> HIDE DEF m
    <3>10. \A p \in Player \ {playerId[s]} :
              /\ entities'[s][p] = Handled(entities[s][p], m, p)
              /\ p \in missed[s] => p \in missed'[s] \/ Decides(m, p)
      BY <2>2, <3>5, <3>9
    <3>11. playerId[s] \in Player =>
             entities'[s][playerId[s]] \in {entities[s][playerId[s]], NoEntity}
      BY <3>5
    <3> QED BY <1>3, <3>2, <3>4, <3>6, <3>7, <3>8, <3>10, <3>11
  <2> QED BY <2>3, <2>4
<1> HIDE DEF m
<1> QED BY <1>2, <1>4, <1>5, <1>7, <1>8, <1>9, MessageShape DEF m
-----------------------------------------------------------------------------
(* The types *)

LEMMA NetInitBase == NetInit => NetBase
<1> SUFFICES ASSUME NetInit PROVE NetBase
  OBVIOUS
<1>1. Nobody \in [Player -> Seen]
  BY DEF Nobody, Seen
<1>2. <<>> \in Seq(ServerMessage)
  OBVIOUS
<1> QED BY <1>1, <1>2 DEF NetInit, NetBase, NetTypeOK, Fresh, MainStep

LEMMA WriteLeftsType ==
  ASSUME ServerInv, NetBase, NEW X, Drop(X), WriteLefts(X), UNCHANGED <<authenticated, clientVars>>
  PROVE  NetBase'
<1>1. \A s \in Socket : wire'[s] \in Seq(ServerMessage) /\ (s \notin Audience => wire'[s] = wire[s])
  BY LeftsWritten DEF NetBase
<1>2. wire' = [s \in Socket |-> wire'[s]]
  BY DEF WriteLefts, WriteTo
<1>3. wire' \in [Socket -> Seq(ServerMessage)]
  BY <1>1, <1>2
<1>4. \A s \in Socket : ~authenticated[s] => s \notin Audience
  BY DEF Audience
<1> QED BY <1>1, <1>3, <1>4 DEF NetBase, NetTypeOK, Fresh, clientVars

LEMMA NextNetBase == ServerInv /\ NetBase /\ [NetNext]_netVars => NetBase'
<1> SUFFICES ASSUME ServerInv, NetBase, [NetNext]_netVars PROVE NetBase'
  OBVIOUS
<1>1. ASSUME UNCHANGED <<authenticated, wire, clientVars>> PROVE NetBase'
  BY <1>1 DEF NetBase, NetTypeOK, Fresh, clientVars
<1>2. ASSUME NEW s \in Socket,
             ClientConnects(s) \/ SilentServerStep(s) \/ ClientHello(s) \/ ClientHeartbeat(s)
      PROVE  NetBase'
  BY <1>1, <1>2
  DEF ClientConnects, Connect, SilentServerStep, HeartbeatExpires, Kick, ClientHello, Hello,
      ClientHeartbeat, Heartbeat
<1>3. ASSUME NEW s \in Socket, ConnectionLost(s) \/ ClientDisconnects(s) PROVE NetBase'
  <2>1. Drop({s}) /\ WriteLefts({s}) /\ UNCHANGED <<authenticated, clientVars>>
    BY <1>3 DEF ConnectionLost, SocketClosed, ClientDisconnects, DisconnectRequest, DropOnMessage
  <2> QED BY <2>1, WriteLeftsType
<1>4. CASE WatchdogTick \/ ServerShutdown
  <2>1. \E X : Drop(X) /\ WriteLefts(X) /\ UNCHANGED <<authenticated, clientVars>>
    BY <1>4 DEF WatchdogTick, Watchdog, ServerShutdown, Shutdown
  <2> QED BY <2>1, WriteLeftsType
<1>5. CASE ServerGone
  BY <1>1, <1>5 DEF ServerGone, ServerClosed
<1>6. ASSUME NEW a \in Socket, NEW q \in Identity[a], ClientAuth(a, q) PROVE NetBase'
  <2>1. \A s \in Socket : wire'[s] \in Seq(ServerMessage)
    BY <1>6, JoinWritten, NewcomerWritten DEF NetBase
  <2>2. wire' = [s \in Socket |-> wire'[s]]
    BY <1>6 DEF ClientAuth
  <2>3. wire' \in [Socket -> Seq(ServerMessage)]
    BY <2>1, <2>2
  <2>4. \A s \in Socket : ~authenticated'[s] => ~authenticated[s] /\ s # a /\ s \notin Audience
    BY <1>6 DEF ClientAuth, Auth, Audience, ServerInv, Lifecycle, TypeOK
  <2>5. \A s \in Socket : ~authenticated'[s] => wire'[s] = wire[s]
    BY <1>6, <2>4, JoinWritten DEF NetBase
  <2>6. UNCHANGED clientVars
    BY <1>6 DEF ClientAuth
  <2> QED BY <2>3, <2>4, <2>5, <2>6 DEF NetBase, NetTypeOK, Fresh, clientVars
<1>7. ASSUME NEW a \in Socket, NEW d \in Data, ClientMoves(a, d) PROVE NetBase'
  <2>1. \A s \in Socket : wire'[s] \in Seq(ServerMessage) /\ (s \notin Audience => wire'[s] = wire[s])
    BY <1>7, StateWritten DEF NetBase
  <2>2. wire' = [s \in Socket |-> wire'[s]]
    BY <1>7 DEF ClientMoves, WriteTo
  <2>3. wire' \in [Socket -> Seq(ServerMessage)]
    BY <2>1, <2>2
  <2>4. UNCHANGED <<authenticated, clientVars>>
    BY <1>7 DEF ClientMoves, PlayerState
  <2>5. \A s \in Socket : ~authenticated[s] => s \notin Audience
    BY DEF Audience
  <2> QED BY <2>1, <2>3, <2>4, <2>5 DEF NetBase, NetTypeOK, Fresh, clientVars
<1>8. ASSUME NEW s \in Socket,
             ClientDies(s) \/ AuthReturns(s) \/ AuthTimesOut(s) \/ CreateLocal(s) \/ Subscribe(s)
      PROVE  NetBase'
  <2>1. UNCHANGED <<authenticated, wire, replied, entities, missed>>
    BY <1>8 DEF ClientDies, AuthReturns, AuthTimesOut, CreateLocal, Subscribe, vars
  <2>2. localAlive' \in [Socket -> BOOLEAN]
    BY <1>8 DEF ClientDies, AuthReturns, AuthTimesOut, CreateLocal, Subscribe, NetBase, NetTypeOK
  <2>3. main' \in [Socket -> MainStep]
    BY <1>8 DEF ClientDies, AuthReturns, AuthTimesOut, CreateLocal, Subscribe, NetBase, NetTypeOK, MainStep
  <2> QED BY <2>1, <2>2, <2>3 DEF NetBase, NetTypeOK, Fresh
<1>9. ASSUME NEW s \in Socket, Dispatch(s) PROVE NetBase'
  <2>1. /\ wire' = [wire EXCEPT ![s] = Tail(@)]
        /\ replied' \in [Socket -> BOOLEAN]
        /\ localAlive' \in [Socket -> BOOLEAN]
        /\ missed' \in [Socket -> SUBSET Player]
        /\ entities' \in [Socket -> [Player -> Seen]]
        /\ \A t \in Socket \ {s} : entities'[t] = entities[t]
    BY <1>9, Dispatched DEF NetBase
  <2>2. wire[s] \in Seq(ServerMessage) /\ wire[s] # <<>>
    BY <1>9 DEF NetBase, NetTypeOK, Dispatch
  <2>3. Tail(wire[s]) \in Seq(ServerMessage)
    BY <2>2, ReadOne
  <2>4. main' = main /\ authenticated' = authenticated
    BY <1>9 DEF Dispatch, vars
  <2>5. authenticated[s]
    BY <2>2 DEF NetBase, Fresh
  <2> QED BY <2>1, <2>3, <2>4, <2>5 DEF NetBase, NetTypeOK, Fresh
<1>10. CASE UNCHANGED netVars
  BY <1>1, <1>10 DEF netVars, vars
<1> QED BY <1>2, <1>3, <1>4, <1>5, <1>6, <1>7, <1>8, <1>9, <1>10 DEF NetNext, ClientStep

LEMMA NetBaseCorrect == NetSpec => []NetBase
BY NetInitBase, NextNetBase, ServerInvCorrect, PTL DEF NetSpec

\* The network and the clients keep their types.
THEOREM NetTypeCorrect == NetSpec => []NetTypeOK
BY NetBaseCorrect, PTL DEF NetBase
-----------------------------------------------------------------------------
(* No replica of oneself *)

LEMMA ServerStepKeepsIds ==
  ASSUME [NetNext]_netVars, \A s \in Socket : ~Dispatch(s),
         \A a \in Socket : \A q \in Identity[a] : ~ClientAuth(a, q)
  PROVE  UNCHANGED <<authenticated, playerId, entities, missed>>
<1> USE DEF clientVars
<1>1. ASSUME NEW s \in Socket,
             ClientConnects(s) \/ SilentServerStep(s) \/ ClientHello(s) \/ ClientHeartbeat(s)
             \/ ConnectionLost(s) \/ ClientDisconnects(s) \/ \E d \in Data : ClientMoves(s, d)
      PROVE  UNCHANGED <<authenticated, playerId, entities, missed>>
  BY <1>1
  DEF ClientConnects, Connect, SilentServerStep, HeartbeatExpires, Kick, ClientHello, Hello,
      ClientHeartbeat, Heartbeat, ConnectionLost, SocketClosed, ClientDisconnects,
      DisconnectRequest, ClientMoves, PlayerState
<1>2. ASSUME WatchdogTick \/ ServerShutdown \/ ServerGone
      PROVE  UNCHANGED <<authenticated, playerId, entities, missed>>
  BY <1>2 DEF WatchdogTick, Watchdog, ServerShutdown, Shutdown, ServerGone, ServerClosed
<1>3. ASSUME NEW s \in Socket,
             ClientDies(s) \/ AuthReturns(s) \/ AuthTimesOut(s) \/ CreateLocal(s) \/ Subscribe(s)
      PROVE  UNCHANGED <<authenticated, playerId, entities, missed>>
  BY <1>3 DEF ClientDies, AuthReturns, AuthTimesOut, CreateLocal, Subscribe, vars
<1>4. CASE UNCHANGED netVars
  BY <1>4 DEF netVars, vars
<1> QED BY <1>1, <1>2, <1>3, <1>4 DEF NetNext, ClientStep

LEMMA NextNoSelfReplica ==
  ServerInv /\ NetBase /\ NoSelfReplica /\ [NetNext]_netVars => NoSelfReplica'
<1> SUFFICES ASSUME ServerInv, NetBase, NoSelfReplica, [NetNext]_netVars,
                    NEW s \in Socket, authenticated'[s]
             PROVE  entities'[s][playerId'[s]] = NoEntity
  BY DEF NoSelfReplica
<1>1. ASSUME NEW t \in Socket, Dispatch(t) PROVE entities'[s][playerId'[s]] = NoEntity
  <2>1. UNCHANGED <<authenticated, playerId>>
    BY <1>1 DEF Dispatch, vars
  <2>2. entities[s][playerId[s]] = NoEntity /\ playerId[s] \in Player
    BY <2>1, PlayerIds DEF NoSelfReplica
  <2>3. s # t => entities'[s] = entities[s]
    BY <1>1, Dispatched DEF NetBase
  <2>4. s = t => entities'[s][playerId[s]] \in {entities[s][playerId[s]], NoEntity}
    BY <1>1, <2>2, Dispatched DEF NetBase
  <2> QED BY <2>1, <2>2, <2>3, <2>4
<1>2. ASSUME NEW a \in Socket, NEW q \in Identity[a], ClientAuth(a, q)
      PROVE  entities'[s][playerId'[s]] = NoEntity
  <2>1. entities' = entities
    BY <1>2 DEF ClientAuth, clientVars
  <2>2. CASE s = a
    <3>1. entities[s] = Nobody
      BY <1>2, <2>2 DEF ClientAuth, NetBase, Fresh
    <3>2. playerId'[s] \in Player
      BY <1>2, <2>2, IdentityAssumption DEF ClientAuth, Auth, ServerInv, Lifecycle, TypeOK
    <3> QED BY <2>1, <3>1, <3>2 DEF Nobody
  <2>3. CASE s # a
    <3>1. authenticated[s] /\ playerId'[s] = playerId[s]
      BY <1>2, <2>3 DEF ClientAuth, Auth, ServerInv, Lifecycle, TypeOK
    <3> QED BY <2>1, <3>1 DEF NoSelfReplica
  <2> QED BY <2>2, <2>3
<1>3. CASE UNCHANGED <<authenticated, playerId, entities, missed>>
  BY <1>3 DEF NoSelfReplica
<1> QED BY <1>1, <1>2, <1>3, ServerStepKeepsIds

\* Whatever arrives, in whatever order its threads run: no client ever holds
\* an entity of its own player among the remote ones.
THEOREM NoSelfReplicaCorrect == NetSpec => []NoSelfReplica
<1>1. NetInit => NoSelfReplica
  BY DEF NetInit, Init, NoSelfReplica
<1> QED BY <1>1, NextNoSelfReplica, ServerInvCorrect, NetBaseCorrect, PTL DEF NetSpec
-----------------------------------------------------------------------------
(* Replicas agree unless something was missed *)

\* What is still on its way takes the client's replica of every other player
\* to what its socket was told, unless of that player something was missed and
\* nothing on its way settles it.
FollowsAt(s) ==
  Listening(s) =>
    \A p \in Player \ {playerId[s]} :
      \/ p \in missed[s] /\ Undecided(wire[s], p)
      \/ Leads(wire[s], p, entities[s][p], told[s][p])

ReplicasFollow == \A s \in Socket : FollowsAt(s)

LEMMA QuietFollows ==
  ASSUME NEW s \in Socket, FollowsAt(s), Listening(s)' => Listening(s),
         UNCHANGED <<playerId[s], entities[s], missed[s], wire[s], told[s]>>
  PROVE  FollowsAt(s)'
BY DEF FollowsAt

LEMMA WrittenFollows ==
  ASSUME NEW s \in Socket, FollowsAt(s), Listening(s)' => Listening(s),
         wire[s] \in Seq(ServerMessage),
         UNCHANGED <<playerId[s], entities[s], missed[s]>>,
         Listening(s) => \E M \in Seq(ServerMessage) :
           /\ wire'[s] = wire[s] \o M
           /\ \A p \in Player : Leads(M, p, told[s][p], told'[s][p])
  PROVE  FollowsAt(s)'
<1> SUFFICES ASSUME Listening(s)', NEW p \in Player \ {playerId[s]}
             PROVE  \/ p \in missed[s] /\ Undecided(wire'[s], p)
                    \/ Leads(wire'[s], p, entities[s][p], told'[s][p])
  BY DEF FollowsAt
<1>1. PICK M \in Seq(ServerMessage) :
        /\ wire'[s] = wire[s] \o M
        /\ \A q \in Player : Leads(M, q, told[s][q], told'[s][q])
  OBVIOUS
<1>2. Leads(M, p, told[s][p], told'[s][p])
  BY <1>1
<1>3. CASE Leads(wire[s], p, entities[s][p], told[s][p])
  BY <1>1, <1>2, <1>3, ConcatLeads
<1>4. CASE p \in missed[s] /\ Undecided(wire[s], p)
  <2>1. CASE Undecided(M, p)
    BY <1>1, <1>4, <2>1, ConcatUndecided
  <2>2. CASE ~Undecided(M, p)
    BY <1>1, <1>2, <2>2, ConcatDecided
  <2> QED BY <2>1, <2>2, <1>4
<1> QED BY <1>3, <1>4 DEF FollowsAt

LEMMA LeftsFollow ==
  ASSUME ServerInv, NetBase, NEW X, Drop(X), WriteLefts(X), NEW s \in Socket, FollowsAt(s),
         UNCHANGED <<authenticated, playerId, clientVars>>, conn'[s] = "open" => conn[s] = "open"
  PROVE  FollowsAt(s)'
<1>1. wire[s] \in Seq(ServerMessage)
  BY DEF NetBase, NetTypeOK
<1>2. CASE ~Listening(s)'
  BY <1>2 DEF FollowsAt
<1>3. CASE Listening(s)'
  <2>1. Listening(s) /\ s \in Audience \ (X \cap sessions)
    BY <1>3 DEF Listening, Live, Writable, Audience, Drop
  <2>2. \E M \in Seq(ServerMessage) :
           /\ wire'[s] = wire[s] \o M
           /\ \A p \in Player : Leads(M, p, told[s][p], told'[s][p])
    BY <2>1, LeftsWritten DEF NetBase
  <2>3. UNCHANGED <<playerId[s], entities[s], missed[s]>>
    BY DEF clientVars
  <2> QED BY <1>1, <2>1, <2>2, <2>3, WrittenFollows
<1> QED BY <1>2, <1>3

LEMMA DispatchFollows ==
  ASSUME ServerInv, NetBase, NEW a \in Socket, Dispatch(a), NEW s \in Socket, FollowsAt(s)
  PROVE  FollowsAt(s)'
<1>1. UNCHANGED vars
  BY DEF Dispatch
<1>2. UNCHANGED <<conn, sessions, authenticated, playerId, told>>
  BY <1>1 DEF vars
<1>3. Listening(s)' <=> Listening(s)
  BY <1>2 DEF Listening, Live, Writable
<1>4. /\ wire' = [wire EXCEPT ![a] = Tail(@)]
      /\ \A t \in Socket \ {a} : entities'[t] = entities[t] /\ missed'[t] = missed[t]
      /\ \A p \in Player \ {playerId[a]} :
           \/ p \in missed'[a]
           \/ /\ entities'[a][p] = Handled(entities[a][p], Head(wire[a]), p)
              /\ p \in missed[a] => Decides(Head(wire[a]), p)
  BY Dispatched DEF NetBase
<1>5. wire \in [Socket -> Seq(ServerMessage)] /\ wire[a] # <<>>
  BY DEF Dispatch, NetBase, NetTypeOK
<1>6. CASE s # a
  <2>1. UNCHANGED <<playerId[s], entities[s], missed[s], wire[s], told[s]>>
    BY <1>2, <1>4, <1>5, <1>6
  <2> QED BY <1>3, <2>1, QuietFollows
<1>7. CASE s = a
  <2> SUFFICES ASSUME Listening(s), NEW p \in Player \ {playerId[s]}
               PROVE  \/ p \in missed'[s] /\ Undecided(wire'[s], p)
                      \/ Leads(wire'[s], p, entities'[s][p], told[s][p])
    BY <1>2, <1>3 DEF FollowsAt
  <2>1. wire'[s] = Tail(wire[s]) /\ wire[s] \in Seq(ServerMessage) /\ wire[s] # <<>>
    BY <1>4, <1>5, <1>7
  <2>2. /\ Undecided(wire[s], p) => ~Decides(Head(wire[s]), p) /\ Undecided(wire'[s], p)
    BY <2>1, ReadOne
  <2>3. \/ p \in missed'[s]
        \/ /\ entities'[s][p] = Handled(entities[s][p], Head(wire[s]), p)
           /\ p \in missed[s] => Decides(Head(wire[s]), p)
    BY <1>4, <1>7
  <2>4. CASE p \in missed[s] /\ Undecided(wire[s], p)
    BY <2>2, <2>3, <2>4
  <2>5. CASE Leads(wire[s], p, entities[s][p], told[s][p])
    <3>1. /\ Leads(wire'[s], p, Handled(entities[s][p], Head(wire[s]), p), told[s][p])
          /\ Undecided(wire'[s], p) \/ \A any : Leads(wire'[s], p, any, told[s][p])
      BY <2>1, <2>5, TailLeads
    <3> QED BY <2>3, <3>1
  <2> QED BY <2>4, <2>5 DEF FollowsAt
<1> QED BY <1>6, <1>7

LEMMA AuthFollows ==
  ASSUME ServerInv, NetBase, NEW a \in Socket, NEW q \in Identity[a], ClientAuth(a, q),
         NEW s \in Socket, FollowsAt(s)
  PROVE  FollowsAt(s)'
<1>1. UNCHANGED <<conn, sessions, entities, missed>>
  BY DEF ClientAuth, Auth, clientVars
<1>2. CASE s # a
  <2>1. authenticated'[s] = authenticated[s] /\ playerId'[s] = playerId[s]
    BY <1>2 DEF ClientAuth, Auth, ServerInv, Lifecycle, TypeOK
  <2>2. Listening(s)' <=> Listening(s)
    BY <1>1, <2>1 DEF Listening, Live, Writable
  <2>3. \E M \in Seq(ServerMessage) :
           /\ wire'[s] = wire[s] \o M
           /\ \A p \in Player : Leads(M, p, told[s][p], told'[s][p])
    BY <1>2, JoinWritten DEF NetBase
  <2>4. wire[s] \in Seq(ServerMessage)
    BY DEF NetBase, NetTypeOK
  <2> QED BY <1>1, <2>1, <2>2, <2>3, <2>4, WrittenFollows
<1>3. CASE s = a
  <2> SUFFICES ASSUME Listening(s)', NEW p \in Player
               PROVE  Leads(wire'[s], p, entities'[s][p], told'[s][p])
    BY DEF FollowsAt
  <2>1. Writable(s)
    BY <1>1 DEF Listening, Writable
  <2>2. entities'[s] = entities[s]
    BY <1>1
  <2> QED BY <1>3, <2>1, <2>2, NewcomerWritten
<1> QED BY <1>2, <1>3

LEMMA NextReplicasFollow ==
  ServerInv /\ NetBase /\ ReplicasFollow /\ [NetNext]_netVars => ReplicasFollow'
<1> SUFFICES ASSUME ServerInv, NetBase, ReplicasFollow, [NetNext]_netVars, NEW s \in Socket
             PROVE  FollowsAt(s)'
  BY DEF ReplicasFollow
<1>0. FollowsAt(s)
  BY DEF ReplicasFollow
<1>1. ASSUME UNCHANGED <<playerId, wire, told, entities, missed>>, Listening(s)' => Listening(s)
      PROVE  FollowsAt(s)'
  BY <1>0, <1>1, QuietFollows
<1>2. ASSUME NEW t \in Socket, ClientConnects(t) PROVE FollowsAt(s)'
  <2>1. ~authenticated[t]
    BY <1>2 DEF ClientConnects, Connect, ServerInv, Lifecycle, IdleIsFresh
  <2>2. Listening(s)' => Listening(s)
    BY <1>2, <2>1
    DEF ClientConnects, Connect, Listening, Live, Writable, ServerInv, Lifecycle, TypeOK
  <2> QED BY <1>1, <1>2, <2>2 DEF ClientConnects, Connect, clientVars
<1>3. ASSUME NEW t \in Socket, SilentServerStep(t) \/ ClientHello(t) \/ ClientHeartbeat(t)
      PROVE  FollowsAt(s)'
  <2>1. UNCHANGED <<playerId, wire, told, entities, missed, sessions, authenticated>>
    BY <1>3 DEF SilentServerStep, HeartbeatExpires, Kick, ClientHello, Hello, ClientHeartbeat,
                Heartbeat, clientVars
  <2>2. conn'[s] = "open" => conn[s] = "open"
    BY <1>3 DEF SilentServerStep, HeartbeatExpires, Kick, ClientHello, Hello, ClientHeartbeat,
                Heartbeat, ServerInv, Lifecycle, TypeOK
  <2> QED BY <1>1, <2>1, <2>2 DEF Listening, Live, Writable
<1>4. ASSUME NEW t \in Socket, ConnectionLost(t) \/ ClientDisconnects(t) PROVE FollowsAt(s)'
  <2>1. Drop({t}) /\ WriteLefts({t}) /\ UNCHANGED <<authenticated, playerId, clientVars>>
    BY <1>4 DEF ConnectionLost, SocketClosed, ClientDisconnects, DisconnectRequest, DropOnMessage
  <2>2. conn'[s] = "open" => conn[s] = "open"
    BY <1>4 DEF ConnectionLost, SocketClosed, ClientDisconnects, DisconnectRequest, DropOnMessage,
                Ended, ServerInv, Lifecycle, TypeOK
  <2> QED BY <1>0, <2>1, <2>2, LeftsFollow
<1>5. ASSUME NEW a \in Socket, NEW q \in Identity[a], ClientAuth(a, q) PROVE FollowsAt(s)'
  BY <1>0, <1>5, AuthFollows
<1>6. ASSUME NEW a \in Socket, NEW d \in Data, ClientMoves(a, d) PROVE FollowsAt(s)'
  <2>1. UNCHANGED <<conn, sessions, authenticated, playerId, entities, missed>>
    BY <1>6 DEF ClientMoves, PlayerState, clientVars
  <2>2. wire[s] \in Seq(ServerMessage)
    BY DEF NetBase, NetTypeOK
  <2>3. \E M \in Seq(ServerMessage) :
           /\ wire'[s] = wire[s] \o M
           /\ \A p \in Player : Leads(M, p, told[s][p], told'[s][p])
    BY <1>6, StateWritten DEF NetBase
  <2>4. Listening(s)' => Listening(s)
    BY <2>1 DEF Listening, Live, Writable
  <2> QED BY <1>0, <2>1, <2>2, <2>3, <2>4, WrittenFollows
<1>7. CASE WatchdogTick
  <2>1. PICK X : Drop(X) /\ WriteLefts(X) /\ conn' = Ended(X)
    BY <1>7 DEF WatchdogTick, Watchdog
  <2>2. UNCHANGED <<authenticated, playerId, clientVars>>
    BY <1>7 DEF WatchdogTick, Watchdog
  <2>3. conn'[s] = "open" => conn[s] = "open"
    BY <2>1 DEF Ended
  <2> QED BY <1>0, <2>1, <2>2, <2>3, LeftsFollow
<1>8. CASE ServerShutdown
  <2>1. Drop(sessions) /\ WriteLefts(sessions) /\ UNCHANGED <<authenticated, playerId, clientVars>>
    BY <1>8 DEF ServerShutdown, Shutdown
  <2>2. conn'[s] = "open" => conn[s] = "open"
    BY <1>8 DEF ServerShutdown, Shutdown, Ended
  <2> QED BY <1>0, <2>1, <2>2, LeftsFollow
<1>9. ASSUME ServerGone \/ UNCHANGED netVars
             \/ \E t \in Socket : ClientDies(t) \/ AuthReturns(t) \/ AuthTimesOut(t)
                                  \/ CreateLocal(t) \/ Subscribe(t)
      PROVE  FollowsAt(s)'
  <2>1. UNCHANGED <<playerId, wire, told, entities, missed, sessions, authenticated, conn>>
    BY <1>9 DEF ServerGone, ServerClosed, ClientDies, AuthReturns, AuthTimesOut, CreateLocal,
                Subscribe, netVars, vars, clientVars
  <2> QED BY <1>1, <2>1 DEF Listening, Live, Writable
<1>10. ASSUME NEW t \in Socket, Dispatch(t) PROVE FollowsAt(s)'
  BY <1>0, <1>10, DispatchFollows
<1> QED BY <1>2, <1>3, <1>4, <1>5, <1>6, <1>7, <1>8, <1>9, <1>10 DEF NetNext, ClientStep

LEMMA ReplicasFollowCorrect == NetSpec => []ReplicasFollow
<1>1. NetInit => ReplicasFollow
  BY DEF NetInit, Init, ReplicasFollow, FollowsAt, Listening, Live
<1> QED BY <1>1, NextReplicasFollow, ServerInvCorrect, NetBaseCorrect, PTL DEF NetSpec

\* The damage of events dispatched before Replication::Start() subscribed is
\* confined, whatever the number of clients and however much is on its way.
THEOREM ReplicasAgreeCorrect == NetSpec => []ReplicasAgreeUnlessMissed
<1>1. ReplicasFollow => ReplicasAgreeUnlessMissed
  BY LeadsNowhere DEF ReplicasFollow, FollowsAt, ReplicasAgreeUnlessMissed, CaughtUp
<1> QED BY <1>1, ReplicasFollowCorrect, PTL

\* End to end: what a client that has caught up shows of another live player is
\* what that player reported last, unless of it an event was missed.
THEOREM ReplicasShowLastReported ==
  ASSUME OwnIdentities
  PROVE  NetSpec =>
           [](\A s, t \in Socket :
                CaughtUp(s) /\ Live(t) /\ s # t /\ playerId[t] \notin missed[s] =>
                  entities[s][playerId[t]] = lastPlayerState[t])
<1> DEFINE Shown ==
      \A s, t \in Socket :
        CaughtUp(s) /\ Live(t) /\ s # t /\ playerId[t] \notin missed[s] =>
          entities[s][playerId[t]] = lastPlayerState[t]
<1>1. ServerInv /\ ReplicasAgreeUnlessMissed /\ PresenceComplete => Shown
  <2> SUFFICES ASSUME ServerInv, ReplicasAgreeUnlessMissed, PresenceComplete,
                      NEW s \in Socket, NEW t \in Socket,
                      CaughtUp(s), Live(t), s # t, playerId[t] \notin missed[s]
               PROVE  entities[s][playerId[t]] = lastPlayerState[t]
    OBVIOUS
  <2>1. authenticated[s] /\ authenticated[t] /\ Listening(s)
    BY DEF CaughtUp, Listening, Live
  <2>2. playerId[t] \in Player /\ playerId[t] # playerId[s]
    BY <2>1, OwnIdentityDistinct DEF ServerInv, IssuedIds, Lifecycle
  <2>3. entities[s][playerId[t]] = told[s][playerId[t]]
    BY <2>2 DEF ReplicasAgreeUnlessMissed
  <2> QED BY <2>1, <2>3 DEF PresenceComplete
<1>2. Spec => []PresenceComplete
  BY PresenceCompleteCorrect
<1> QED BY <1>1, <1>2, NetSpecIsSpec, ServerInvCorrect, ReplicasAgreeCorrect, PTL

\* End to end: a client that has caught up shows nobody but the players of
\* sockets that still speak, unless of that player an event was missed.
THEOREM ReplicasShowNoGhost ==
  ASSUME OwnIdentities
  PROVE  NetSpec =>
           [](\A s \in Socket : CaughtUp(s) =>
                \A p \in Player \ (missed[s] \cup {playerId[s]}) :
                  entities[s][p] # NoEntity =>
                    \E t \in Socket \ {s} : Lasting(t) /\ playerId[t] = p)
<1> DEFINE OnlyPlayers ==
      \A s \in Socket : CaughtUp(s) =>
        \A p \in Player \ (missed[s] \cup {playerId[s]}) :
          entities[s][p] # NoEntity =>
            \E t \in Socket \ {s} : Lasting(t) /\ playerId[t] = p
<1>1. ReplicasAgreeUnlessMissed /\ GhostsAreLate => OnlyPlayers
  BY DEF ReplicasAgreeUnlessMissed, GhostsAreLate, CaughtUp
<1>2. Spec => []GhostsAreLate
  BY GhostsAreLateCorrect
<1> QED BY <1>1, <1>2, NetSpecIsSpec, ReplicasAgreeCorrect, PTL
=============================================================================
