------------------------- MODULE ConnectionTeardown -------------------------
(***************************************************************************)
(* How one connection ends, at both of its ends: TcpServerConnection with  *)
(* its reader thread and ClientRuntime::Run / Shutdown on the main thread  *)
(* (runtime/src), disconnectSession() and shutdown() of tcpServer.js.      *)
(*                                                                         *)
(* The module starts with the TCP connection made and the reader thread    *)
(* running.  connected_ and shouldStop_ are atomics the two threads share  *)
(* without a lock: every access of one thread is an action of its own.     *)
(***************************************************************************)
EXTENDS Naturals, Sequences

VARIABLES
  main,               \* where the client's main thread is
  connectedToServer,  \* connectedToServer_: the hello was accepted
  disconnectRequested,\* disconnectRequested_
  connected,          \* connected_
  shouldStop,         \* shouldStop_
  handle,             \* socket_: open, half (closed for sending), closed
  reader,             \* where the reader thread is
  reported,           \* the kick the client got, and how its handler reported it
  toServer, toClient, \* what is under way on the wire
  server,             \* the server's socket: open, ended, closed
  listener,           \* the server process: listening, closing, closed
  network             \* whether the connection still delivers, in either direction

clientVars == <<main, connectedToServer, disconnectRequested, connected, shouldStop,
                handle, reader, reported>>
vars == <<clientVars, toServer, toClient, server, listener, network>>

\* "kick" and "ack" are both a kick message; an ack answers a "disconnect".
ToServer == {"disconnect", "fin"}
ToClient == {"kick", "ack", "fin"}

Gone == {"exit 0", "aborted"}

Init ==
  /\ main = "handshake"
  /\ connectedToServer = TRUE
  /\ disconnectRequested = FALSE
  /\ connected = TRUE
  /\ shouldStop = FALSE
  /\ handle = "open"
  /\ reader = "checking"
  /\ reported = <<>>
  /\ toServer = <<>>
  /\ toClient = <<>>
  /\ server = "open"
  /\ listener = "listening"
  /\ network = "up"
-----------------------------------------------------------------------------
(* The client's main thread *)

MainStep(from, to) == main = from /\ main' = to

\* SendHello() gets its answer, or is rejected, or times out.
Handshake(accepted) ==
  /\ MainStep("handshake", "serving")
  /\ connectedToServer' = accepted
  /\ UNCHANGED <<disconnectRequested, connected, shouldStop, handle, reader, reported,
                 toServer, toClient, server, listener, network>>

\* stdin is closed: getline() fails and Shutdown() begins.
EndOfInput ==
  /\ MainStep("serving", IF connectedToServer THEN "requesting" ELSE "testing")
  /\ UNCHANGED <<connectedToServer, disconnectRequested, connected, shouldStop, handle,
                 reader, reported, toServer, toClient, server, listener, network>>

RequestDisconnect ==
  /\ MainStep("requesting", "sending")
  /\ disconnectRequested' = TRUE
  /\ UNCHANGED <<connectedToServer, connected, shouldStop, handle, reader, reported,
                 toServer, toClient, server, listener, network>>

\* Send() returns false on a connection the reader found closed.
SendDisconnect ==
  /\ MainStep("sending", "testing")
  /\ toServer' = IF connected THEN Append(toServer, "disconnect") ELSE toServer
  /\ UNCHANGED <<connectedToServer, disconnectRequested, connected, shouldStop, handle,
                 reader, reported, toClient, server, listener, network>>

\* Shutdown() asks IsConnected(), and Disconnect() asks connected_ again.
TestConnected(from, to) ==
  /\ MainStep(from, IF connected THEN to ELSE "stopped")
  /\ UNCHANGED <<connectedToServer, disconnectRequested, connected, shouldStop, handle,
                 reader, reported, toServer, toClient, server, listener, network>>

SetShouldStop ==
  /\ MainStep("stopping", "half-closing")
  /\ shouldStop' = TRUE
  /\ UNCHANGED <<connectedToServer, disconnectRequested, connected, handle, reader,
                 reported, toServer, toClient, server, listener, network>>

HalfClose ==
  /\ MainStep("half-closing", "joining")
  /\ connected' = FALSE
  /\ handle' = "half"
  /\ toServer' = Append(toServer, "fin")
  /\ UNCHANGED <<connectedToServer, disconnectRequested, shouldStop, reader, reported,
                 toClient, server, listener, network>>

\* Mutant: the handle is closed without waiting for the reader.
SkipJoin ==
  /\ MainStep("joining", "closing")
  /\ UNCHANGED <<connectedToServer, disconnectRequested, connected, shouldStop, handle, reader,
                 reported, toServer, toClient, server, listener, network>>

JoinReader ==
  /\ MainStep("joining", "closing")
  /\ reader = "exited"
  /\ reader' = "joined"
  /\ UNCHANGED <<connectedToServer, disconnectRequested, connected, shouldStop, handle,
                 reported, toServer, toClient, server, listener, network>>

CloseHandle ==
  /\ MainStep("closing", "stopped")
  /\ handle' = "closed"
  /\ UNCHANGED <<connectedToServer, disconnectRequested, connected, shouldStop, reader,
                 reported, toServer, toClient, server, listener, network>>

(***************************************************************************)
(* "stopped" is announced and Run() returns 0; ~ClientRuntime destroys the *)
(* connection, whose own Disconnect() returns early.  A std::thread that   *)
(* was not joined calls std::terminate, and CrashHandler aborts.  Threads  *)
(* and socket end with the process.                                        *)
(***************************************************************************)
Destroy ==
  /\ MainStep("stopped", IF reader = "joined" THEN "exit 0" ELSE "aborted")
  /\ handle' = "closed"
  /\ toServer' = IF handle = "open" THEN Append(toServer, "fin") ELSE toServer
  /\ reader' = "exited"
  /\ UNCHANGED <<connectedToServer, disconnectRequested, connected, shouldStop, reported,
                 toClient, server, listener, network>>

Main ==
  \/ \E accepted \in BOOLEAN : Handshake(accepted)
  \/ RequestDisconnect
  \/ SendDisconnect
  \/ TestConnected("testing", "disconnecting")
  \/ TestConnected("disconnecting", "stopping")
  \/ SetShouldStop
  \/ HalfClose
  \/ JoinReader
  \/ CloseHandle
  \/ Destroy
-----------------------------------------------------------------------------
(* The client's reader thread *)

ReaderChecks ==
  /\ reader = "checking"
  /\ reader' = IF shouldStop THEN "leaving" ELSE "receiving"
  /\ UNCHANGED <<main, connectedToServer, disconnectRequested, connected, shouldStop,
                 handle, reported, toServer, toClient, server, listener, network>>

\* Mutant: every kick is a failure.
OnKickFailed(kick) == reported' = <<kick, "failed">>

\* The kick handler: an answer to the client's own request is no failure.
OnKick(kick) == reported' = <<kick, IF disconnectRequested THEN "ok" ELSE "failed">>

\* recv() returns; 0 bytes for a FIN.
ReaderReceives ==
  /\ network = "up"
  /\ reader = "receiving"
  /\ toClient # <<>>
  /\ toClient' = Tail(toClient)
  /\ IF Head(toClient) = "fin"
     THEN reader' = "leaving" /\ UNCHANGED reported
     ELSE reader' = "checking" /\ OnKick(Head(toClient))
  /\ UNCHANGED <<main, connectedToServer, disconnectRequested, connected, shouldStop,
                 handle, toServer, server, listener, network>>

\* Mutant: no receive timeout.
ReceiveBlocks == reader = "receiving" /\ UNCHANGED vars

\* SO_RCVTIMEO.
ReceiveTimesOut ==
  /\ reader = "receiving"
  /\ reader' = "checking"
  /\ UNCHANGED <<main, connectedToServer, disconnectRequested, connected, shouldStop,
                 handle, reported, toServer, toClient, server, listener, network>>

ReaderLeaves ==
  /\ reader = "leaving"
  /\ reader' = "exited"
  /\ connected' = FALSE
  /\ UNCHANGED <<main, connectedToServer, disconnectRequested, shouldStop, handle,
                 reported, toServer, toClient, server, listener, network>>

\* recv() fails with a real socket error: the connection was reset, or TCP gave
\* up on it.  Either way it carries nothing any more; the server's socket may
\* not know it yet.
ReaderFails ==
  /\ reader = "receiving"
  /\ reader' = "leaving"
  /\ network' = "down"
  /\ UNCHANGED <<main, connectedToServer, disconnectRequested, connected, shouldStop,
                 handle, reported, toServer, toClient, server, listener>>

Reader == ReaderChecks \/ ReaderReceives \/ ReceiveTimesOut \/ ReaderLeaves
-----------------------------------------------------------------------------
(* The server *)

\* disconnectSession(): a kick, then socket.end().  After end() neither is
\* sent again.
DropSession(kick) ==
  IF server = "open"
  THEN server' = "ended" /\ toClient' = toClient \o <<kick, "fin">>
  ELSE UNCHANGED <<server, toClient>>

\* An admin's kick, the heartbeat watchdog, or an incompatible hello.
ServerDrops ==
  /\ server = "open"
  /\ DropSession("kick")
  /\ UNCHANGED <<clientVars, toServer, listener, network>>

ServerReceives ==
  /\ network = "up"
  /\ toServer # <<>>
  /\ Head(toServer) = "disconnect"
  /\ toServer' = Tail(toServer)
  /\ DropSession("ack")
  /\ UNCHANGED <<clientVars, listener, network>>

\* Mutant: the server's socket may stay half open.
ServerSeesFinHalf ==
  /\ network = "up"
  /\ toServer # <<>>
  /\ Head(toServer) = "fin"
  /\ toServer' = Tail(toServer)
  /\ server' = IF server = "ended" THEN "closed" ELSE server
  /\ UNCHANGED <<clientVars, toClient, listener, network>>

\* The client's FIN: Node ends its own side too (allowHalfOpen is off), and
\* the socket closes.
ServerSeesFin ==
  /\ network = "up"
  /\ toServer # <<>>
  /\ Head(toServer) = "fin"
  /\ toServer' = Tail(toServer)
  /\ server' = "closed"
  /\ toClient' = IF server = "open" THEN Append(toClient, "fin") ELSE toClient
  /\ UNCHANGED <<clientVars, listener, network>>

Shutdown ==
  /\ listener = "listening"
  /\ listener' = "closing"
  /\ DropSession("kick")
  /\ UNCHANGED <<clientVars, toServer, network>>

\* server.close() calls back once no connection is left.
ShutdownCompletes ==
  /\ listener = "closing"
  /\ server = "closed"
  /\ listener' = "closed"
  /\ UNCHANGED <<clientVars, toServer, toClient, server, network>>

\* The socket's "error" and "close" events, once TCP notices that the connection
\* is dead.
ServerFails ==
  /\ network = "down"
  /\ server # "closed"
  /\ server' = "closed"
  /\ UNCHANGED <<clientVars, toServer, toClient, listener, network>>

\* A cable is pulled: neither end is told.
NetworkFails ==
  /\ network = "up"
  /\ network' = "down"
  /\ UNCHANGED <<clientVars, toServer, toClient, server, listener>>

Server == ServerReceives \/ ServerSeesFin \/ ShutdownCompletes
-----------------------------------------------------------------------------
Next ==
  \/ Main \/ EndOfInput \/ Reader \/ ReaderFails
  \/ Server \/ ServerDrops \/ ServerFails \/ Shutdown
  \/ NetworkFails

Spec == Init /\ [][Next]_vars

\* The client's threads and the server run, and what the wire delivers is
\* handled.  When the client's input ends, when the server drops it or shuts
\* down, whether the wire holds and whether TCP ever notices is up to others.
FairSpec == Spec /\ WF_vars(Main) /\ WF_vars(Reader) /\ WF_vars(Server)
-----------------------------------------------------------------------------
(* Properties *)

\* Every variable keeps its type, and each end writes at most one farewell
\* and one FIN.
TypeOK ==
  /\ main \in {"handshake", "serving", "requesting", "sending", "testing", "disconnecting",
               "stopping", "half-closing", "joining", "closing", "stopped"} \cup Gone
  /\ connectedToServer \in BOOLEAN
  /\ disconnectRequested \in BOOLEAN
  /\ connected \in BOOLEAN
  /\ shouldStop \in BOOLEAN
  /\ handle \in {"open", "half", "closed"}
  /\ reader \in {"checking", "receiving", "leaving", "exited", "joined"}
  /\ reported \in {<<>>} \cup ({"kick", "ack"} \X {"ok", "failed"})
  /\ toServer \in Seq(ToServer) /\ Len(toServer) <= 2
  /\ toClient \in Seq(ToClient) /\ Len(toClient) <= 2
  /\ server \in {"open", "ended", "closed"}
  /\ listener \in {"listening", "closing", "closed"}
  /\ network \in {"up", "down"}

\* The handle is never closed under a reader that is, or may still get, inside
\* recv(): that is what made the peer see a reset (networking.md:75-81).
HandleOutlivesReader == handle = "closed" => reader \in {"exited", "joined"}

\* The kick that answers the client's own "disconnect" is never reported as a
\* failure, however soon the answer comes (networking.md:58).
AckIsNoFailure == reported # <<"ack", "failed">>

\* Once its input ends the client comes to an end, also when the network
\* delivers nothing more: the receive timeout frees the reader it joins.
ClientTerminates == (main # "handshake" /\ main # "serving") ~> main \in Gone

\* shutdown() of the server completes once the client's process is gone,
\* in whatever order the two sides began to end the connection.
ShutdownFollowsClient ==
  (listener = "closing" /\ main \in Gone) ~> (listener = "closed" \/ network = "down")

\* A client whose input ended exits with code 0, "clean shutdown"
\* (ClientRuntimeInterface.h:25): it is not aborted on its way out.
CleanExit == main # "aborted"
=============================================================================
