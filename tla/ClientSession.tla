---------------------------- MODULE ClientSession ----------------------------
(***************************************************************************)
(* One run of the client against a server, in time: the main thread of     *)
(* ClientRuntime::Run (connect, hello, auth, manifest, download,           *)
(* resources_ready, Ready, Shutdown), its heartbeat and replication        *)
(* threads, ProtocolClient's blocking requests with their timeouts, the    *)
(* connection, and the server's side of it with the heartbeat watchdog     *)
(* (tcpServer.js, session.js).                                             *)
(*                                                                         *)
(* Time passes in ticks (5 s are one, for the timeouts the code has).  A   *)
(* message takes up to MaxDelay ticks; what a thread does between two      *)
(* waits takes none.  Other sessions, and what the messages carry, are     *)
(* left out: hello_ack's ok is whether the versions are compatible, and    *)
(* auth_result is always ok.                                               *)
(***************************************************************************)
EXTENDS Integers, Sequences

CONSTANTS
  HeartbeatEvery,  \* kHeartbeatIntervalMs
  ReplyWithin,     \* timeoutMs of hello, auth, heartbeat and resources_ready
  ManifestWithin,  \* timeoutMs of resource_manifest_request
  DroppedAfter,    \* config.heartbeatTimeoutMs
  CheckEvery,      \* config.heartbeatIntervalMs, the watchdog's
  MaxDelay         \* bound: the longest a message is under way

ASSUME TimesAssumption ==
  /\ {HeartbeatEvery, ReplyWithin, ManifestWithin, DroppedAfter, CheckEvery} \subseteq Nat \ {0}
  /\ MaxDelay \in Nat
  /\ HeartbeatEvery + ReplyWithin + MaxDelay <= DroppedAfter

\* What the main thread asks, and the reply it waits for.
Reply ==
  [hello |-> "hello_ack", auth |-> "auth_result",
   resource_manifest_request |-> "resource_manifest", resources_ready |-> "resources_ready_ack"]
Request == DOMAIN Reply
TimeoutOf(request) == IF request = "resource_manifest_request" THEN ManifestWithin ELSE ReplyWithin

VARIABLES
  \* the client
  pc,                \* where Run() is; a request's name while it is asked
  waiting,           \* the main thread waits for the reply
  timer,             \* how much longer
  connectedToServer, \* connectedToServer_
  connected,         \* the connection's connected_
  pendingReplies,    \* the keys of pendingReplies_
  heartbeat,         \* the heartbeat thread
  beatTimer,         \* how long it still sleeps, or waits
  replicating,       \* the replication thread runs
  authorized,        \* replication_ exists
  \* the network
  link,              \* "up", "cut" (nothing gets through any more)
  toServer, toClient,
  \* the server
  serverUp,
  compatible,        \* isProtocolCompatible(): a major version is the same
  session,           \* "none", "registered", "dropped"
  socket,            \* "none", "open", "ended" (by the server), "closed"
  helloReceived, authenticated, resourcesReady,
  quiet,             \* ticks since lastHeartbeatAt
  watch,             \* ticks until the watchdog looks again
  \* auxiliary
  reason,            \* the reason disconnectSession() was called with
  beaten,            \* a heartbeat has reached the session
  preparing,         \* ticks from Connect to Ready
  stopping           \* ticks since the end of the control input

mainVars == <<pc, waiting, timer, connectedToServer, authorized>>
threadVars == <<heartbeat, beatTimer, replicating>>
clientVars == <<mainVars, connected, pendingReplies, threadVars>>
sessionVars == <<session, socket, helloReceived, authenticated, resourcesReady, quiet, reason, beaten>>
serverVars == <<serverUp, compatible, sessionVars, watch>>
clocks == <<preparing, stopping>>
vars == <<clientVars, link, toServer, toClient, serverVars, clocks>>

\* A client that gets Ready within this time is never silent for too long.
Grace == DroppedAfter - HeartbeatEvery - MaxDelay

\* The most a session is silent when the watchdog has just not caught it.
LongestSilence == DroppedAfter + CheckEvery

Init ==
  /\ pc = "initializing" /\ waiting = FALSE /\ timer = 0
  /\ connectedToServer = FALSE /\ connected = FALSE /\ authorized = FALSE
  /\ pendingReplies = {}
  /\ heartbeat = "none" /\ beatTimer = 0 /\ replicating = FALSE
  /\ link = "up" /\ toServer = <<>> /\ toClient = <<>>
  /\ serverUp = TRUE /\ compatible \in BOOLEAN
  /\ session = "none" /\ socket = "none"
  /\ helloReceived = FALSE /\ authenticated = FALSE /\ resourcesReady = FALSE
  /\ quiet = 0 /\ watch \in 1 .. CheckEvery
  /\ reason = "none" /\ beaten = FALSE /\ preparing = 0 /\ stopping = 0
-----------------------------------------------------------------------------
(* The network *)

Fresh(types) == [i \in DOMAIN types |-> [type |-> types[i], age |-> 0]]
Add(channel, types) == IF link = "up" THEN channel \o Fresh(types) ELSE channel

\* IServerConnection::Send(), and the end of the connection.
Send(types) == toServer' = Add(toServer, types)

\* MessageFramer.send() writes nothing after socket.end().
Answer(types) ==
  /\ toServer' = Tail(toServer)
  /\ toClient' = IF socket = "open" THEN Add(toClient, types) ELSE toClient

\* The network fails without a word to either side: what is under way is lost.
Cut ==
  /\ link = "up"
  /\ socket # "none"
  /\ link' = "cut"
  /\ toServer' = <<>> /\ toClient' = <<>>
  /\ UNCHANGED <<clientVars, serverVars, clocks>>
-----------------------------------------------------------------------------
(* ClientRuntime::Run *)

\* Configuration or cache: a failure is fatal.
Initialize ==
  /\ pc = "initializing"
  /\ pc' \in {"connecting", "exited"}
  /\ UNCHANGED <<waiting, timer, connectedToServer, authorized, connected, pendingReplies,
                 threadVars, link, toServer, toClient, serverVars, clocks>>

\* No server configured, or connect() fails.
ConnectFails ==
  /\ pc = "connecting"
  /\ pc' = "loaded"
  /\ UNCHANGED <<waiting, timer, connectedToServer, authorized, connected, pendingReplies,
                 threadVars, link, toServer, toClient, serverVars, clocks>>

Connect ==
  /\ pc = "connecting"
  /\ serverUp
  /\ connected' = TRUE
  /\ connectedToServer' = TRUE
  /\ Send(<<"connection">>)
  /\ pc' = "hello"
  /\ UNCHANGED <<waiting, timer, authorized, pendingReplies, threadVars, link, toClient, serverVars,
                 clocks>>

\* The request failed: what it means for the rest of the run.
Failed(request) ==
  /\ pc' = "loaded"
  /\ connectedToServer' = (connectedToServer /\ request \notin {"hello", "auth"})
  /\ UNCHANGED authorized

Succeeded(request) ==
  CASE request = "hello" /\ ~compatible -> Failed("hello")
    [] request = "hello" /\ compatible -> pc' = "auth" /\ UNCHANGED <<connectedToServer, authorized>>
    [] request = "auth" ->
         /\ pc' = "resource_manifest_request"
         /\ authorized' = TRUE
         /\ UNCHANGED connectedToServer
    [] request = "resource_manifest_request" ->
         pc' = "downloading" /\ UNCHANGED <<connectedToServer, authorized>>
    [] request = "resources_ready" -> pc' = "loaded" /\ UNCHANGED <<connectedToServer, authorized>>

\* RequestReply(): an answer still pending is forgotten, the request is sent.
Ask(request) ==
  /\ pc = request
  /\ ~waiting
  /\ pendingReplies' = pendingReplies \ {Reply[request]}
  /\ IF connected
     THEN /\ waiting' = TRUE
          /\ timer' = TimeoutOf(request)
          /\ Send(<<request>>)
          /\ UNCHANGED <<pc, connectedToServer, authorized>>
     ELSE Failed(request) /\ UNCHANGED <<waiting, timer, toServer>>
  /\ UNCHANGED <<connected, threadVars, link, toClient, serverVars, clocks>>

Answered(request) ==
  /\ pc = request
  /\ waiting
  /\ Reply[request] \in pendingReplies
  /\ pendingReplies' = pendingReplies \ {Reply[request]}
  /\ waiting' = FALSE /\ timer' = 0
  /\ Succeeded(request)
  /\ UNCHANGED <<connected, threadVars, link, toServer, toClient, serverVars, clocks>>

\* Mutant: the end of the wait is taken for the reply.
TimesOutAnswered(request) ==
  /\ pc = request
  /\ waiting
  /\ timer = 0
  /\ Reply[request] \notin pendingReplies
  /\ waiting' = FALSE
  /\ Succeeded(request)
  /\ UNCHANGED <<timer, connected, pendingReplies, threadVars, link, toServer, toClient, serverVars, clocks>>

\* Mutant: wait() in the place of wait_for().
TimesOutNever(request) == FALSE

TimesOut(request) ==
  /\ pc = request
  /\ waiting
  /\ timer = 0
  /\ Reply[request] \notin pendingReplies
  /\ waiting' = FALSE
  /\ Failed(request)
  /\ UNCHANGED <<timer, connected, pendingReplies, threadVars, link, toServer, toClient, serverVars, clocks>>

\* ApplyManifest() and LoadAll(): however long it takes.  Without a manifest
\* applied there is nothing to tell the server.
FinishDownload ==
  /\ pc = "downloading"
  /\ pc' \in {"resources_ready", "loaded"}
  /\ UNCHANGED <<waiting, timer, connectedToServer, authorized, connected, pendingReplies,
                 threadVars, link, toServer, toClient, serverVars, clocks>>

BecomeReady ==
  /\ pc = "loaded"
  /\ pc' = "ready"
  /\ heartbeat' = IF connectedToServer THEN "sleeping" ELSE "none"
  /\ beatTimer' = IF connectedToServer THEN HeartbeatEvery ELSE 0
  /\ replicating' = authorized
  /\ UNCHANGED <<waiting, timer, connectedToServer, authorized, connected, pendingReplies,
                 link, toServer, toClient, serverVars, clocks>>
-----------------------------------------------------------------------------
(* The heartbeat and replication threads *)

\* Mutant: the thread looks at heartbeatShouldStop_ after a whole interval.
StopsAfterInterval == pc = "stopping" /\ beatTimer = 0

\* heartbeatShouldStop_, which the thread sees within 100 ms of its sleep.
ShouldStop == pc = "stopping"

Beat ==
  /\ heartbeat = "sleeping"
  /\ beatTimer = 0
  /\ ~ShouldStop
  /\ pendingReplies' = pendingReplies \ {"heartbeat_ack"}
  /\ IF connected
     THEN heartbeat' = "waiting" /\ beatTimer' = ReplyWithin /\ Send(<<"heartbeat">>)
     ELSE beatTimer' = HeartbeatEvery /\ UNCHANGED <<heartbeat, toServer>>
  /\ UNCHANGED <<mainVars, connected, replicating, link, toClient, serverVars, clocks>>

\* Whether the ack came in time makes no difference.
BeatDone ==
  /\ heartbeat = "waiting"
  /\ beatTimer = 0 \/ "heartbeat_ack" \in pendingReplies
  /\ pendingReplies' = pendingReplies \ {"heartbeat_ack"}
  /\ heartbeat' = "sleeping"
  /\ beatTimer' = HeartbeatEvery
  /\ UNCHANGED <<mainVars, connected, replicating, link, toServer, toClient, serverVars, clocks>>

BeatStops ==
  /\ heartbeat = "sleeping"
  /\ ShouldStop
  /\ heartbeat' = "none"
  /\ beatTimer' = 0
  /\ UNCHANGED <<mainVars, connected, pendingReplies, replicating, link, toServer, toClient, serverVars,
                 clocks>>

\* Replication::Tick() sends.  Bound: one player_state is under way at a time.
SendPlayerState ==
  /\ replicating
  /\ connected
  /\ \A i \in DOMAIN toServer : toServer[i].type # "player_state"
  /\ Send(<<"player_state">>)
  /\ UNCHANGED <<clientVars, link, toClient, serverVars, clocks>>
-----------------------------------------------------------------------------
(* ClientRuntime::Shutdown *)

Goto(from, to) ==
  /\ pc = from
  /\ pc' = to
  /\ UNCHANGED <<waiting, timer, connectedToServer, authorized>>

\* The bootstrapper closes the control input.
InputEnds ==
  /\ Goto("ready", "stopping")
  /\ UNCHANGED <<connected, pendingReplies, threadVars, link, toServer, toClient, serverVars, clocks>>

JoinHeartbeat ==
  /\ heartbeat = "none"
  /\ Goto("stopping", "joining")
  /\ UNCHANGED <<connected, pendingReplies, threadVars, link, toServer, toClient, serverVars, clocks>>

\* Mutant: the replication thread is not waited for.
LeaveReplication ==
  /\ Goto("joining", "disconnecting")
  /\ UNCHANGED <<connected, pendingReplies, threadVars, link, toServer, toClient, serverVars, clocks>>

JoinReplication ==
  /\ Goto("joining", "disconnecting")
  /\ replicating' = FALSE
  /\ UNCHANGED <<connected, pendingReplies, heartbeat, beatTimer, link, toServer, toClient, serverVars,
                 clocks>>

SendDisconnect ==
  /\ Goto("disconnecting", "closing")
  /\ IF connectedToServer /\ connected THEN Send(<<"disconnect">>) ELSE UNCHANGED toServer
  /\ UNCHANGED <<connected, pendingReplies, threadVars, link, toClient, serverVars, clocks>>

\* Disconnect(), or the end of the process, closes the socket.
Disconnect ==
  /\ Goto("closing", "exited")
  /\ connected' = FALSE
  /\ Send(<<"fin">>)
  /\ toClient' = <<>>
  /\ UNCHANGED <<pendingReplies, threadVars, link, serverVars, clocks>>

\* The process is killed.
Killed ==
  /\ pc # "exited"
  /\ pc' = "exited"
  /\ waiting' = FALSE /\ timer' = 0
  /\ connected' = FALSE
  /\ heartbeat' = "none" /\ beatTimer' = 0 /\ replicating' = FALSE
  /\ Send(<<"fin">>)
  /\ toClient' = <<>>
  /\ UNCHANGED <<connectedToServer, authorized, pendingReplies, link, serverVars, clocks>>

\* The reader thread.  (What a kick does is ConnectionTeardown's subject.)
Receive ==
  /\ toClient # <<>>
  /\ connected
  /\ LET type == Head(toClient).type
     IN /\ connected' = (type # "fin")
        /\ pendingReplies' = pendingReplies \cup ({type} \ {"kick", "fin"})
  /\ toClient' = Tail(toClient)
  /\ UNCHANGED <<mainVars, threadVars, link, toServer, serverVars, clocks>>

\* TCP gives up on a cut connection.
ConnectionLost ==
  /\ link = "cut"
  /\ connected
  /\ connected' = FALSE
  /\ UNCHANGED <<mainVars, pendingReplies, threadVars, link, toServer, toClient, serverVars, clocks>>
-----------------------------------------------------------------------------
(* The server: one action per message *)

\* A message for a socket that still has its "message" listener.
Handle(type) ==
  /\ toServer # <<>>
  /\ Head(toServer).type = type
  /\ socket \in {"open", "ended"}

\* disconnectSession(), after the replies of the handler.
DisconnectSession(replies, why) ==
  IF session = "registered"
  THEN /\ Answer(replies \o <<"kick", "fin">>)
       /\ session' = "dropped"
       /\ socket' = "ended"
       /\ reason' = why
       /\ quiet' = 0
  ELSE Answer(replies) /\ UNCHANGED <<session, socket, reason, quiet>>

Accept ==
  /\ toServer # <<>>
  /\ Head(toServer).type = "connection"
  /\ toServer' = Tail(toServer)
  /\ IF serverUp
     THEN session' = "registered" /\ socket' = "open" /\ UNCHANGED toClient
     ELSE socket' = "closed" /\ toClient' = Add(toClient, <<"fin">>) /\ UNCHANGED session
  /\ UNCHANGED <<clientVars, link, serverUp, compatible, helloReceived, authenticated, resourcesReady,
                 quiet, reason, beaten, watch, clocks>>

Hello ==
  /\ Handle("hello")
  /\ helloReceived' = TRUE
  /\ IF compatible
     THEN Answer(<<"hello_ack">>) /\ UNCHANGED <<session, socket, reason, quiet>>
     ELSE DisconnectSession(<<"hello_ack">>, "incompatible protocol version")
  /\ UNCHANGED <<clientVars, link, serverUp, compatible, authenticated, resourcesReady, beaten, watch,
                 clocks>>

Auth ==
  /\ Handle("auth")
  /\ IF helloReceived
     THEN /\ authenticated' = TRUE
          /\ Answer(<<"auth_result">>)
          /\ UNCHANGED <<session, socket, reason, quiet>>
     ELSE DisconnectSession(<<>>, "auth before hello") /\ UNCHANGED authenticated
  /\ UNCHANGED <<clientVars, link, serverUp, compatible, helloReceived, resourcesReady, beaten, watch,
                 clocks>>

\* resource_manifest_request, resources_ready and player_state need a player.
Serve(type, replies) ==
  /\ Handle(type)
  /\ IF authenticated
     THEN Answer(replies) /\ UNCHANGED <<session, socket, reason, quiet>>
     ELSE DisconnectSession(<<>>, "before authentication")
  /\ UNCHANGED <<clientVars, link, serverUp, compatible, helloReceived, authenticated, beaten, watch,
                 clocks>>

ResourceManifestRequest ==
  Serve("resource_manifest_request", <<"resource_manifest">>) /\ UNCHANGED resourcesReady
PlayerState == Serve("player_state", <<>>) /\ UNCHANGED resourcesReady
ResourcesReady ==
  /\ Serve("resources_ready", <<"resources_ready_ack">>)
  /\ resourcesReady' = (resourcesReady \/ authenticated)

Heartbeat ==
  /\ Handle("heartbeat")
  /\ quiet' = 0
  /\ beaten' = (beaten \/ session = "registered")
  /\ Answer(<<"heartbeat_ack">>)
  /\ UNCHANGED <<clientVars, link, serverUp, compatible, session, socket, helloReceived, authenticated,
                 resourcesReady, reason, watch, clocks>>

DisconnectRequest ==
  /\ Handle("disconnect")
  /\ DisconnectSession(<<>>, "client")
  /\ UNCHANGED <<clientVars, link, serverUp, compatible, helloReceived, authenticated, resourcesReady,
                 beaten, watch, clocks>>

\* "close": nothing can be written any more.
SocketClosed ==
  /\ toServer' = IF toServer = <<>> THEN <<>> ELSE Tail(toServer)
  /\ socket' = "closed"
  /\ session' = "dropped"
  /\ reason' = IF session = "registered" THEN "connection closed" ELSE reason
  /\ quiet' = 0
  /\ UNCHANGED <<clientVars, link, toClient, serverUp, compatible, helloReceived, authenticated,
                 resourcesReady, beaten, watch, clocks>>

ConnectionEnds ==
  \/ Handle("fin") /\ SocketClosed
  \/ link = "cut" /\ socket \in {"open", "ended"} /\ SocketClosed

\* What reaches a socket that is gone.
Discard ==
  /\ toServer # <<>>
  /\ Head(toServer).type # "connection"
  /\ socket \notin {"open", "ended"}
  /\ toServer' = Tail(toServer)
  /\ UNCHANGED <<clientVars, link, toClient, serverVars, clocks>>

\* Mutant: the watchdog compares with its own interval.
ExpiredByInterval == quiet > CheckEvery

\* Mutant: a session that has just authenticated is not looked at yet.
ExpiredIfAuthenticated == authenticated /\ quiet > DroppedAfter

\* isHeartbeatExpired()
Expired == quiet > DroppedAfter

Watchdog ==
  /\ serverUp
  /\ watch = 0
  /\ watch' = CheckEvery
  /\ IF session = "registered" /\ Expired
     THEN /\ toClient' = IF socket = "open" THEN Add(toClient, <<"kick", "fin">>) ELSE toClient
          /\ session' = "dropped"
          /\ socket' = "ended"
          /\ reason' = "heartbeat timeout"
          /\ quiet' = 0
     ELSE UNCHANGED <<toClient, session, socket, reason, quiet>>
  /\ UNCHANGED <<clientVars, link, toServer, serverUp, compatible, helloReceived, authenticated,
                 resourcesReady, beaten, clocks>>

\* shutdown(): the watchdog's interval is cleared, every session dropped.
ServerStops ==
  /\ serverUp
  /\ serverUp' = FALSE
  /\ IF session = "registered"
     THEN /\ toClient' = IF socket = "open" THEN Add(toClient, <<"kick", "fin">>) ELSE toClient
          /\ session' = "dropped"
          /\ socket' = "ended"
          /\ reason' = "server shutting down"
          /\ quiet' = 0
     ELSE UNCHANGED <<toClient, session, socket, reason, quiet>>
  /\ UNCHANGED <<clientVars, link, toServer, compatible, helloReceived, authenticated, resourcesReady,
                 beaten, watch, clocks>>
-----------------------------------------------------------------------------
(* Time *)

\* Nothing is due: no message has been under way for too long, no wait is
\* over, and the main thread is waiting for something.
Quiescent ==
  /\ \A c \in {toServer, toClient} : c # <<>> => Head(c).age < MaxDelay
  /\ pc \in Request => waiting /\ timer > 0 /\ Reply[pc] \notin pendingReplies
  /\ pc \in Request \cup {"downloading", "ready", "stopping", "exited"}
  /\ heartbeat = "sleeping" => beatTimer > 0 /\ ~ShouldStop
  /\ heartbeat = "waiting" => beatTimer > 0 /\ "heartbeat_ack" \notin pendingReplies
  /\ pc = "stopping" => heartbeat # "none"
  /\ serverUp => watch > 0

Older(channel) == [i \in DOMAIN channel |-> [channel[i] EXCEPT !.age = @ + 1]]
Less(n) == IF n = 0 THEN 0 ELSE n - 1
More(n, bound) == IF n < bound THEN n + 1 ELSE n

Tick ==
  /\ Quiescent
  /\ toServer' = Older(toServer)
  /\ toClient' = Older(toClient)
  /\ timer' = Less(timer)
  /\ beatTimer' = Less(beatTimer)
  /\ watch' = Less(watch)
  /\ quiet' = IF session = "registered" THEN More(quiet, LongestSilence + 1) ELSE 0
  /\ preparing' = IF connectedToServer /\ pc \in Request \cup {"downloading"}
                  THEN More(preparing, Grace + 1) ELSE preparing
  /\ stopping' = IF pc = "stopping" THEN More(stopping, ReplyWithin + 1) ELSE stopping
  /\ UNCHANGED <<pc, waiting, connectedToServer, authorized, connected, pendingReplies, heartbeat,
                 replicating, link, serverUp, compatible, session, socket, helloReceived,
                 authenticated, resourcesReady, reason, beaten>>
-----------------------------------------------------------------------------
Main ==
  \/ Initialize \/ ConnectFails \/ Connect
  \/ \E r \in Request : Ask(r) \/ Answered(r) \/ TimesOut(r)
  \/ FinishDownload \/ BecomeReady
  \/ JoinHeartbeat \/ JoinReplication \/ SendDisconnect \/ Disconnect

HeartbeatThread == Beat \/ BeatDone \/ BeatStops

Server ==
  \/ Accept \/ Hello \/ Auth \/ ResourceManifestRequest \/ PlayerState \/ ResourcesReady \/ Heartbeat
  \/ DisconnectRequest \/ Discard \/ (Handle("fin") /\ SocketClosed)

Environment == Cut \/ InputEnds \/ Killed \/ ConnectionLost \/ ServerStops \/ ConnectionEnds

Next == Main \/ HeartbeatThread \/ SendPlayerState \/ Receive \/ Server \/ Watchdog \/ Tick \/ Environment

Spec == Init /\ [][Next]_vars

\* Threads run, the event loop turns, messages arrive and time passes.
FairSpec ==
  /\ Spec
  /\ WF_vars(Main) /\ WF_vars(HeartbeatThread) /\ WF_vars(Receive)
  /\ WF_vars(Server) /\ WF_vars(Watchdog) /\ WF_vars(Tick)
-----------------------------------------------------------------------------
(* Properties *)

Place == Request \cup
  {"initializing", "connecting", "downloading", "loaded", "ready", "stopping", "joining",
   "disconnecting", "closing", "exited"}
ClientMessage == Request \cup {"connection", "heartbeat", "player_state", "disconnect", "fin"}
ServerMessage == {Reply[r] : r \in Request} \cup {"heartbeat_ack", "kick", "fin"}

\* Every variable keeps its type; no message outlives MaxDelay.
TypeOK ==
  /\ pc \in Place
  /\ {waiting, connectedToServer, connected, authorized, replicating} \subseteq BOOLEAN
  /\ \E r \in Request : timer \in 0 .. TimeoutOf(r)
  /\ pendingReplies \subseteq ServerMessage \ {"kick", "fin"}
  /\ heartbeat \in {"none", "sleeping", "waiting"}
  /\ CASE heartbeat = "none" -> beatTimer = 0
       [] heartbeat = "sleeping" -> beatTimer \in 0 .. HeartbeatEvery
       [] heartbeat = "waiting" -> beatTimer \in 0 .. ReplyWithin
  /\ link \in {"up", "cut"}
  /\ toServer \in Seq([type : ClientMessage, age : 0 .. MaxDelay])
  /\ toClient \in Seq([type : ServerMessage, age : 0 .. MaxDelay])
  /\ {serverUp, compatible, helloReceived, authenticated, resourcesReady, beaten} \subseteq BOOLEAN
  /\ session \in {"none", "registered", "dropped"}
  /\ socket \in {"none", "open", "ended", "closed"}
  /\ quiet \in 0 .. LongestSilence + 1
  /\ watch \in 0 .. CheckEvery
  /\ reason \in {"none", "incompatible protocol version", "auth before hello", "before authentication",
                 "client", "connection closed", "heartbeat timeout", "server shutting down"}
  /\ preparing \in 0 .. Grace + 1
  /\ stopping \in 0 .. ReplyWithin + 1

\* A client that has got past authentication, to its downloads or to sending
\* its player's state, is one the server has authenticated, in a compatible
\* version, however late, lost or abandoned its earlier requests were.
BeliefIsFact ==
  pc \in {"resource_manifest_request", "downloading", "resources_ready"} \/ replicating =>
    authenticated /\ compatible

\* The client that says goodbye says nothing after it: both threads that send
\* are done when disconnect is sent (Runtime.cpp:332-341).
DisconnectIsLast ==
  \A i \in DOMAIN toServer : toServer[i].type = "disconnect" =>
    \A j \in DOMAIN toServer : j > i => toServer[j].type = "fin"

\* The watchdog drops no client that gets Ready in time and whose messages
\* arrive: "every 10s, comfortably under the server's 45s timeout"
\* (docs/runtime.md:94-96).  Not so a client that downloads for longer, since
\* it sends its first heartbeat HeartbeatEvery after it is Ready, and one that
\* gave up on the server without closing the connection.
DroppedOnlyIfSlow ==
  reason = "heartbeat timeout" =>
    link = "cut" \/ ~connectedToServer \/ (~beaten /\ preparing > Grace)

\* No session outlives the last heartbeat by more than the timeout and one
\* interval of the watchdog, whatever state it is in.
SilentIsDropped == session = "registered" => quiet <= LongestSilence

\* Shutdown waits at most for one heartbeat's reply.
StopIsPrompt == stopping <= ReplyWithin

\* READY is "reached unconditionally (even with no server, even after an auth
\* failure)" (docs/runtime.md:91-94), unless initialization fails; here also
\* when the server stops or the network is cut during any of the requests.
ReachesReady == <>(pc \in {"ready", "stopping", "exited"})

\* A client that ends, in whatever way and in whatever state of the network,
\* is in the end no player to the server.
GoneIsGone == pc = "exited" ~> [](session # "registered")
=============================================================================
