---------------------- MODULE ConnectionTeardown_proofs ----------------------
(***************************************************************************)
(* Theorems about ConnectionTeardown: a single connection, but every       *)
(* interleaving of its two client threads, its server and the wire.        *)
(***************************************************************************)
EXTENDS ConnectionTeardown, SequenceTheorems, TLAPS

ControlTypeOK ==
  /\ main \in {"handshake", "serving", "requesting", "sending", "testing", "disconnecting",
               "stopping", "half-closing", "joining", "closing", "stopped"} \cup Gone
  /\ connectedToServer \in BOOLEAN
  /\ disconnectRequested \in BOOLEAN
  /\ connected \in BOOLEAN
  /\ shouldStop \in BOOLEAN
  /\ handle \in {"open", "half", "closed"}
  /\ reader \in {"checking", "receiving", "leaving", "exited", "joined"}
  /\ server \in {"open", "ended", "closed"}
  /\ listener \in {"listening", "closing", "closed"}
  /\ network \in {"up", "down"}

\* Where the main thread, the handle and the reader are together: the handle is
\* given up step by step, and only behind a reader that was joined.
HandleInv ==
  /\ main \in {"joining", "closing"} => handle = "half"
  /\ main \notin {"joining", "closing", "stopped"} \cup Gone => handle = "open"
  /\ main = "stopped" => handle = "open" \/ (handle = "closed" /\ reader = "joined")
  /\ main = "closing" => reader = "joined"
  /\ reader = "joined" => main = "closing" \/ (main = "stopped" /\ handle = "closed")
  /\ main \in Gone => handle = "closed" /\ reader = "exited"
  /\ main = "sending" => disconnectRequested

\* Why the reader left: it was told to, or the server had ended the connection,
\* or the connection failed.
LeaveInv ==
  /\ shouldStop <=> \/ main \in {"half-closing", "joining", "closing", "exit 0"}
                    \/ main = "stopped" /\ handle = "closed"
  /\ main \notin Gone /\ reader \in {"leaving", "exited"} =>
       shouldStop \/ server # "open" \/ network = "down"
  /\ main \notin Gone /\ ~connected => shouldStop \/ reader = "exited"
  /\ main \in {"joining", "closing", "stopped"} => ~connected
  /\ main = "aborted" => server # "open" \/ network = "down"

ControlInv == ControlTypeOK /\ HandleInv /\ LeaveInv

\* What is under way to the server: at most n messages, and a farewell only of
\* a client that recorded its request.
ToServerOK(w, n, requested) ==
  /\ w \in Seq(ToServer)
  /\ Len(w) <= n
  /\ \A i \in 1 .. Len(w) : w[i] = "disconnect" => requested

\* What is under way to the client: an answer answers a request that was made.
ToClientOK(w, requested) ==
  /\ w \in Seq(ToClient)
  /\ Len(w) <= 2
  /\ \A i \in 1 .. Len(w) : w[i] = "ack" => requested

\* What each end has written: nothing before it begins to leave, one farewell
\* and one FIN in all.
WireInv ==
  /\ main \in {"handshake", "serving", "requesting", "sending"} => toServer = <<>>
  /\ ToServerOK(toServer, IF handle = "open" THEN 1 ELSE 2, disconnectRequested)
  /\ server = "open" => toClient = <<>>
  /\ ToClientOK(toClient, disconnectRequested)

ReportInv == reported \in {<<>>, <<"kick", "ok">>, <<"kick", "failed">>, <<"ack", "ok">>}

TeardownInv == ControlInv /\ WireInv /\ ReportInv
-----------------------------------------------------------------------------
(* What is written to the wire and read from it *)

LEMMA AppendWire ==
  ASSUME NEW S, NEW wire \in Seq(S), NEW m \in S
  PROVE  /\ Append(wire, m) \in Seq(S)
         /\ Len(Append(wire, m)) = Len(wire) + 1
         /\ \A i \in 1 .. Len(Append(wire, m)) :
              Append(wire, m)[i] = m \/ (i \in 1 .. Len(wire) /\ Append(wire, m)[i] = wire[i])
OBVIOUS

LEMMA ReadWire ==
  ASSUME NEW S, NEW wire \in Seq(S), wire # <<>>
  PROVE  /\ Tail(wire) \in Seq(S)
         /\ Len(Tail(wire)) = Len(wire) - 1
         /\ Head(wire) \in S
         /\ 1 \in 1 .. Len(wire) /\ Head(wire) = wire[1]
         /\ \A i \in 1 .. Len(Tail(wire)) : i + 1 \in 1 .. Len(wire) /\ Tail(wire)[i] = wire[i + 1]
<1>1. Len(wire) \in Nat \ {0}
  BY EmptySeq
<1> QED BY <1>1, HeadTailProperties

LEMMA NothingOK ==
  /\ \A n \in {1, 2} : \A requested : ToServerOK(<<>>, n, requested)
  /\ \A requested : ToClientOK(<<>>, requested)
BY DEF ToServerOK, ToClientOK

LEMMA SentOK ==
  ASSUME NEW w, NEW requested, NEW m \in ToServer, m = "disconnect" => requested,
         NEW n \in {0, 1}, ToServerOK(w, n, requested)
  PROVE  ToServerOK(Append(w, m), n + 1, requested)
BY AppendWire DEF ToServerOK

\* A request that is recorded, or more room, does no harm.
LEMMA StillOK ==
  ASSUME NEW before \in BOOLEAN, NEW after \in BOOLEAN, before => after
  PROVE  /\ \A w, n : ToServerOK(w, n, before) => ToServerOK(w, n, after)
         /\ \A w : ToServerOK(w, 1, before) => ToServerOK(w, 2, after)
         /\ \A w : ToClientOK(w, before) => ToClientOK(w, after)
<1>1. \A w \in Seq(ToServer) : Len(w) <= 1 => Len(w) <= 2
  BY LenProperties
<1> QED BY <1>1 DEF ToServerOK, ToClientOK

LEMMA ServerReads ==
  ASSUME NEW w, NEW requested \in BOOLEAN, NEW n \in {1, 2}, ToServerOK(w, n, requested), w # <<>>
  PROVE  /\ ToServerOK(Tail(w), n, requested)
         /\ Head(w) = "disconnect" => requested
<1>1. /\ Tail(w) \in Seq(ToServer)
      /\ Len(Tail(w)) = Len(w) - 1
      /\ 1 \in 1 .. Len(w) /\ Head(w) = w[1]
      /\ \A i \in 1 .. Len(Tail(w)) : i + 1 \in 1 .. Len(w) /\ Tail(w)[i] = w[i + 1]
  BY ReadWire DEF ToServerOK
<1>2. Len(w) \in Nat
  BY DEF ToServerOK
<1> QED BY <1>1, <1>2 DEF ToServerOK

LEMMA ClientReads ==
  ASSUME NEW w, NEW requested \in BOOLEAN, ToClientOK(w, requested), w # <<>>
  PROVE  /\ ToClientOK(Tail(w), requested)
         /\ Head(w) \in ToClient
         /\ Head(w) = "ack" => requested
<1>1. /\ Tail(w) \in Seq(ToClient)
      /\ Len(Tail(w)) = Len(w) - 1
      /\ Head(w) \in ToClient
      /\ 1 \in 1 .. Len(w) /\ Head(w) = w[1]
      /\ \A i \in 1 .. Len(Tail(w)) : i + 1 \in 1 .. Len(w) /\ Tail(w)[i] = w[i + 1]
  BY ReadWire DEF ToClientOK
<1>2. Len(w) \in Nat
  BY DEF ToClientOK
<1> QED BY <1>1, <1>2 DEF ToClientOK

\* disconnectSession() of the server.
LEMMA DropWrites ==
  ASSUME NEW kick \in {"kick", "ack"}, kick = "ack" => disconnectRequested,
         ControlInv, WireInv, DropSession(kick)
  PROVE  /\ server' \in {"ended", "closed"}
         /\ ToClientOK(toClient', disconnectRequested)
<1>1. CASE server = "open"
  <2>1. toClient' = <<>> \o <<kick, "fin">> /\ server' = "ended"
    BY <1>1 DEF DropSession, WireInv
  <2>2. toClient' = <<kick, "fin">>
    BY <2>1
  <2> QED BY <2>1, <2>2 DEF ToClient, ToClientOK
<1>2. CASE server # "open"
  BY <1>2 DEF DropSession, WireInv, ControlInv, ControlTypeOK
<1> QED BY <1>1, <1>2
-----------------------------------------------------------------------------
(* The steps: what they do to the control state *)

LEMMA InitTeardown == Init => TeardownInv
<1> SUFFICES ASSUME Init PROVE TeardownInv
  OBVIOUS
<1>1. ControlInv
  BY DEF Init, ControlInv, ControlTypeOK, HandleInv, LeaveInv, Gone
<1>2. WireInv
  BY NothingOK DEF Init, WireInv
<1> QED BY <1>1, <1>2 DEF Init, TeardownInv, ReportInv

LEMMA MainControl ==
  ASSUME ControlInv, Main \/ EndOfInput
  PROVE  ControlInv'
<1> USE DEF ControlInv, Gone, MainStep
<1>1. CASE EndOfInput
  BY <1>1 DEF EndOfInput, ControlTypeOK, HandleInv, LeaveInv
<1>2. CASE \E accepted \in BOOLEAN : Handshake(accepted)
  BY <1>2 DEF Handshake, ControlTypeOK, HandleInv, LeaveInv
<1>3. CASE RequestDisconnect
  BY <1>3 DEF RequestDisconnect, ControlTypeOK, HandleInv, LeaveInv
<1>4. CASE SendDisconnect
  BY <1>4 DEF SendDisconnect, ControlTypeOK, HandleInv, LeaveInv
<1>5. CASE TestConnected("testing", "disconnecting")
  BY <1>5 DEF TestConnected, ControlTypeOK, HandleInv, LeaveInv
<1>6. CASE TestConnected("disconnecting", "stopping")
  BY <1>6 DEF TestConnected, ControlTypeOK, HandleInv, LeaveInv
<1>7. CASE SetShouldStop
  BY <1>7 DEF SetShouldStop, ControlTypeOK, HandleInv, LeaveInv
<1>8. CASE HalfClose
  BY <1>8 DEF HalfClose, ControlTypeOK, HandleInv, LeaveInv
<1>9. CASE JoinReader
  BY <1>9 DEF JoinReader, ControlTypeOK, HandleInv, LeaveInv
<1>10. CASE CloseHandle
  BY <1>10 DEF CloseHandle, ControlTypeOK, HandleInv, LeaveInv
<1>11. CASE Destroy
  BY <1>11 DEF Destroy, ControlTypeOK, HandleInv, LeaveInv
<1> QED BY <1>1, <1>2, <1>3, <1>4, <1>5, <1>6, <1>7, <1>8, <1>9, <1>10, <1>11 DEF Main

LEMMA ReaderControl ==
  ASSUME ControlInv, WireInv, Reader \/ ReaderFails
  PROVE  ControlInv'
<1> USE DEF ControlInv, ControlTypeOK, HandleInv, LeaveInv, Gone
<1>1. CASE ReaderChecks
  BY <1>1 DEF ReaderChecks
<1>2. CASE ReceiveTimesOut
  BY <1>2 DEF ReceiveTimesOut
<1>3. CASE ReaderLeaves
  BY <1>3 DEF ReaderLeaves
<1>4. CASE ReaderReceives
  <2>1. server # "open"
    BY <1>4 DEF ReaderReceives, WireInv
  <2>2. reader = "receiving" /\ reader' \in {"leaving", "checking"}
    BY <1>4 DEF ReaderReceives
  <2>3. UNCHANGED <<main, connectedToServer, disconnectRequested, connected, shouldStop,
                    handle, server, listener, network>>
    BY <1>4 DEF ReaderReceives
  <2> QED BY <2>1, <2>2, <2>3
<1>5. CASE ReaderFails
  BY <1>5 DEF ReaderFails
<1> QED BY <1>1, <1>2, <1>3, <1>4, <1>5 DEF Reader

LEMMA ServerControl ==
  ASSUME ControlInv, Server \/ ServerDrops \/ ServerFails \/ Shutdown \/ NetworkFails
  PROVE  ControlInv'
<1>1. /\ UNCHANGED <<main, connectedToServer, disconnectRequested, connected, shouldStop, handle, reader>>
      /\ server' \in {"open", "ended", "closed"}
      /\ server # "open" => server' # "open"
      /\ listener' \in {"listening", "closing", "closed"}
      /\ network' \in {network, "down"}
  BY DEF Server, ServerReceives, ServerSeesFin, ShutdownCompletes, ServerDrops, ServerFails, Shutdown,
         NetworkFails, DropSession, clientVars, ControlInv, ControlTypeOK
<1>2. ControlTypeOK'
  BY <1>1 DEF ControlInv, ControlTypeOK
<1>3. HandleInv'
  BY <1>1 DEF ControlInv, HandleInv
<1>4. LeaveInv'
  <2>1. network = "down" => network' = "down"
    BY <1>1
  <2> QED BY <1>1, <2>1, Zenon DEF ControlInv, LeaveInv
<1> QED BY <1>2, <1>3, <1>4 DEF ControlInv
-----------------------------------------------------------------------------
(* ... and to the wire *)

LEMMA MainWire ==
  ASSUME ControlInv, WireInv, Main \/ EndOfInput
  PROVE  WireInv'
<1> USE DEF MainStep
<1>0. /\ disconnectRequested \in BOOLEAN /\ disconnectRequested' \in BOOLEAN
      /\ disconnectRequested => disconnectRequested'
  <2>1. disconnectRequested' \in {disconnectRequested, TRUE}
    BY DEF Main, EndOfInput, Handshake, RequestDisconnect, SendDisconnect, TestConnected,
           SetShouldStop, HalfClose, JoinReader, CloseHandle, Destroy
  <2> QED BY <2>1 DEF ControlInv, ControlTypeOK
<1>1. UNCHANGED <<toClient, server>>
  BY DEF Main, EndOfInput, Handshake, RequestDisconnect, SendDisconnect, TestConnected,
         SetShouldStop, HalfClose, JoinReader, CloseHandle, Destroy
<1>2. (server = "open" => toClient = <<>>)' /\ ToClientOK(toClient', disconnectRequested')
  BY <1>0, <1>1, StillOK DEF WireInv
<1>3. CASE UNCHANGED <<toServer, handle>> /\ main' \notin {"handshake", "serving", "requesting", "sending"}
  BY <1>0, <1>2, <1>3, StillOK DEF WireInv
<1>4. CASE EndOfInput \/ (\E accepted \in BOOLEAN : Handshake(accepted)) \/ RequestDisconnect
  <2>1. UNCHANGED <<toServer, handle>> /\ main \in {"handshake", "serving", "requesting", "sending"}
    BY <1>4 DEF EndOfInput, Handshake, RequestDisconnect
  <2> QED BY <1>0, <1>2, <2>1, StillOK DEF WireInv
<1>5. CASE SendDisconnect
  <2>1. /\ toServer' = IF connected THEN Append(toServer, "disconnect") ELSE toServer
        /\ main = "sending" /\ main' = "testing" /\ UNCHANGED <<handle, disconnectRequested>>
    BY <1>5 DEF SendDisconnect
  <2>2. toServer = <<>> /\ disconnectRequested /\ handle = "open"
    BY <2>1 DEF WireInv, ControlInv, HandleInv, Gone
  <2>3. ToServerOK(<<>>, 0, disconnectRequested) /\ "disconnect" \in ToServer
    BY DEF ToServerOK, ToServer
  <2>4. ToServerOK(Append(toServer, "disconnect"), 1, disconnectRequested)
    <3>1. ToServerOK(Append(toServer, "disconnect"), 0 + 1, disconnectRequested)
      BY <2>2, <2>3, SentOK
    <3> QED BY <3>1
  <2>5. ToServerOK(toServer', 1, disconnectRequested')
    BY <2>1, <2>2, <2>4, NothingOK
  <2> QED BY <1>2, <2>1, <2>2, <2>5 DEF WireInv
<1>6. CASE HalfClose \/ Destroy
  <2>1. /\ toServer' = IF handle = "open" THEN Append(toServer, "fin") ELSE toServer
        /\ main' \in {"joining"} \cup Gone
        /\ handle' \in {"half", "closed"} /\ UNCHANGED disconnectRequested
    BY <1>6 DEF HalfClose, Destroy, ControlInv, HandleInv, Gone
  <2>2. CASE handle = "open"
    <3>1. ToServerOK(toServer, 1, disconnectRequested) /\ "fin" \in ToServer
      BY <2>2 DEF WireInv, ToServer
    <3>2. ToServerOK(Append(toServer, "fin"), 2, disconnectRequested)
      BY <3>1, SentOK
    <3> QED BY <1>2, <2>1, <2>2, <3>2 DEF WireInv, Gone
  <2>3. CASE handle # "open"
    BY <1>2, <2>1, <2>3 DEF WireInv, Gone
  <2> QED BY <2>2, <2>3
<1>7. CASE CloseHandle
  BY <1>2, <1>7 DEF CloseHandle, WireInv, ControlInv, HandleInv
<1>8. ASSUME \/ TestConnected("testing", "disconnecting") \/ TestConnected("disconnecting", "stopping")
             \/ SetShouldStop \/ JoinReader
      PROVE  WireInv'
  BY <1>3, <1>8 DEF TestConnected, SetShouldStop, JoinReader
<1> QED BY <1>4, <1>5, <1>6, <1>7, <1>8 DEF Main

LEMMA ReaderWire ==
  ASSUME ControlInv, WireInv, ReportInv, Reader \/ ReaderFails
  PROVE  WireInv' /\ ReportInv'
<1>1. UNCHANGED <<main, disconnectRequested, handle, toServer, server>>
  BY DEF Reader, ReaderChecks, ReaderReceives, ReceiveTimesOut, ReaderLeaves, ReaderFails
<1>2. CASE ReaderReceives
  <2>1. toClient # <<>> /\ toClient' = Tail(toClient)
    BY <1>2 DEF ReaderReceives
  <2>2. /\ ToClientOK(toClient', disconnectRequested)
        /\ Head(toClient) \in ToClient
        /\ Head(toClient) = "ack" => disconnectRequested
    BY <2>1, ClientReads DEF WireInv, ControlInv, ControlTypeOK
  <2>3. WireInv'
    BY <1>1, <2>1, <2>2 DEF WireInv
  <2>4. \/ UNCHANGED reported
        \/ Head(toClient) # "fin" /\ OnKick(Head(toClient))
    BY <1>2 DEF ReaderReceives
  <2>5. ReportInv'
    BY <2>2, <2>4 DEF ReportInv, OnKick, ToClient
  <2> QED BY <2>3, <2>5
<1>3. CASE ReaderChecks \/ ReceiveTimesOut \/ ReaderLeaves \/ ReaderFails
  <2>1. UNCHANGED <<toClient, reported>>
    BY <1>3 DEF ReaderChecks, ReceiveTimesOut, ReaderLeaves, ReaderFails
  <2> QED BY <1>1, <2>1 DEF WireInv, ReportInv
<1> QED BY <1>2, <1>3 DEF Reader

LEMMA ServerWire ==
  ASSUME ControlInv, WireInv, Server \/ ServerDrops \/ ServerFails \/ Shutdown \/ NetworkFails
  PROVE  WireInv'
<1>1. UNCHANGED <<main, disconnectRequested, handle>>
  BY DEF Server, ServerReceives, ServerSeesFin, ShutdownCompletes, ServerDrops, ServerFails, Shutdown,
         NetworkFails, clientVars
<1>2. CASE UNCHANGED <<toServer, toClient, server>>
  BY <1>1, <1>2 DEF WireInv
<1>3. CASE ServerDrops \/ Shutdown
  <2>1. DropSession("kick") /\ UNCHANGED toServer
    BY <1>3 DEF ServerDrops, Shutdown
  <2>2. server' \in {"ended", "closed"} /\ ToClientOK(toClient', disconnectRequested)
    BY <2>1, DropWrites
  <2> QED BY <1>1, <2>1, <2>2 DEF WireInv
<1>4. DEFINE n == IF handle = "open" THEN 1 ELSE 2
<1>5. ASSUME toServer # <<>>, toServer' = Tail(toServer), server' # "open",
             \/ Head(toServer) = "disconnect" /\ DropSession("ack")
             \/ ToClientOK(toClient', disconnectRequested)
      PROVE  WireInv'
  <2>1. n \in {1, 2} /\ disconnectRequested \in BOOLEAN
    BY DEF ControlInv, ControlTypeOK
  <2>2. ToServerOK(toServer, n, disconnectRequested)
    BY DEF WireInv
  <2> HIDE DEF n
  <2>3. /\ ToServerOK(toServer', n, disconnectRequested)
        /\ Head(toServer) = "disconnect" => disconnectRequested
    BY <1>5, <2>1, <2>2, ServerReads
  <2>4. ToClientOK(toClient', disconnectRequested)
    BY <1>5, <2>3, DropWrites
  <2>5. main \notin {"handshake", "serving", "requesting", "sending"}
    BY <1>5 DEF WireInv
  <2> QED BY <1>1, <1>5, <2>3, <2>4, <2>5 DEF WireInv, n
<1>6. CASE ServerReceives
  <2>1. toServer # <<>> /\ toServer' = Tail(toServer) /\ Head(toServer) = "disconnect" /\ DropSession("ack")
    BY <1>6 DEF ServerReceives
  <2>2. server' # "open"
    BY <2>1 DEF DropSession
  <2> QED BY <1>5, <2>1, <2>2
<1>7. CASE ServerSeesFin
  <2>1. /\ toServer # <<>> /\ toServer' = Tail(toServer) /\ server' = "closed"
        /\ toClient' = IF server = "open" THEN Append(toClient, "fin") ELSE toClient
    BY <1>7 DEF ServerSeesFin
  <2>2. CASE server = "open"
    <3>1. toClient' = <<"fin">>
      BY <2>1, <2>2 DEF WireInv
    <3>2. ToClientOK(toClient', disconnectRequested)
      BY <3>1 DEF ToClientOK, ToClient
    <3> QED BY <1>5, <2>1, <3>2
  <2>3. CASE server # "open"
    <3>1. ToClientOK(toClient', disconnectRequested)
      BY <2>1, <2>3 DEF WireInv
    <3> QED BY <1>5, <2>1, <3>1
  <2> QED BY <2>2, <2>3
<1>8. CASE ShutdownCompletes \/ NetworkFails
  BY <1>2, <1>8 DEF ShutdownCompletes, NetworkFails
<1>9. CASE ServerFails
  <2>1. server' = "closed" /\ UNCHANGED <<toServer, toClient>>
    BY <1>9 DEF ServerFails
  <2> QED BY <1>1, <2>1 DEF WireInv
<1> QED BY <1>3, <1>6, <1>7, <1>8, <1>9 DEF Server

LEMMA NextTeardown == TeardownInv /\ [Next]_vars => TeardownInv'
<1> SUFFICES ASSUME TeardownInv, [Next]_vars PROVE TeardownInv'
  OBVIOUS
<1> USE DEF TeardownInv
<1>1. CASE UNCHANGED vars
  <2>1. UNCHANGED <<main, connectedToServer, disconnectRequested, connected, shouldStop, handle,
                    reader, reported, toServer, toClient, server, listener, network>>
    BY <1>1 DEF vars, clientVars
  <2>2. ControlTypeOK'
    BY <2>1 DEF ControlInv, ControlTypeOK
  <2>3. HandleInv'
    BY <2>1 DEF ControlInv, HandleInv
  <2>4. LeaveInv'
    BY <2>1, Zenon DEF ControlInv, LeaveInv
  <2> QED BY <2>1, <2>2, <2>3, <2>4 DEF ControlInv, WireInv, ReportInv
<1>2. CASE Main \/ EndOfInput
  <2>1. UNCHANGED reported
    BY <1>2
    DEF Main, EndOfInput, Handshake, RequestDisconnect, SendDisconnect, TestConnected,
        SetShouldStop, HalfClose, JoinReader, CloseHandle, Destroy
  <2> QED BY <1>2, <2>1, MainControl, MainWire DEF ReportInv
<1>3. CASE Reader \/ ReaderFails
  BY <1>3, ReaderControl, ReaderWire
<1>4. CASE Server \/ ServerDrops \/ ServerFails \/ Shutdown \/ NetworkFails
  <2>1. UNCHANGED reported
    BY <1>4 DEF Server, ServerReceives, ServerSeesFin, ShutdownCompletes, ServerDrops, ServerFails,
                Shutdown, NetworkFails, clientVars
  <2> QED BY <1>4, <2>1, ServerControl, ServerWire DEF ReportInv
<1> QED BY <1>1, <1>2, <1>3, <1>4 DEF Next

LEMMA TeardownCorrect == Spec => []TeardownInv
BY InitTeardown, NextTeardown, PTL DEF Spec
-----------------------------------------------------------------------------
(* The theorems *)

\* Every variable keeps its type: in particular, neither end ever writes more
\* than one farewell and one FIN, however the two begin to leave.
THEOREM TeardownTypeCorrect == Spec => []TypeOK
<1>1. TeardownInv => TypeOK
  <2> SUFFICES ASSUME TeardownInv PROVE TypeOK
    OBVIOUS
  <2>1. reported \in {<<>>} \cup ({"kick", "ack"} \X {"ok", "failed"})
    BY DEF TeardownInv, ReportInv
  <2>2. toServer \in Seq(ToServer) /\ Len(toServer) <= 2
    BY DEF TeardownInv, WireInv, ToServerOK
  <2>3. toClient \in Seq(ToClient) /\ Len(toClient) <= 2
    BY DEF TeardownInv, WireInv, ToClientOK
  <2> QED BY <2>1, <2>2, <2>3 DEF TeardownInv, ControlInv, ControlTypeOK, TypeOK
<1> QED BY <1>1, TeardownCorrect, PTL

\* Disconnect() closes the socket only behind a reader thread that is out of
\* recv() for good.
THEOREM HandleOutlivesReaderCorrect == Spec => []HandleOutlivesReader
<1>1. TeardownInv => HandleOutlivesReader
  BY DEF TeardownInv, ControlInv, ControlTypeOK, HandleInv, HandleOutlivesReader, Gone
<1> QED BY <1>1, TeardownCorrect, PTL

\* The kick handler never takes the answer to the client's own request for a
\* failure: the request is recorded before it is sent.
THEOREM AckIsNoFailureCorrect == Spec => []AckIsNoFailure
<1>1. TeardownInv => AckIsNoFailure
  BY DEF TeardownInv, ReportInv, AckIsNoFailure
<1> QED BY <1>1, TeardownCorrect, PTL

\* The client is aborted on its way out only if the server ended the connection
\* or the connection failed: while both hold, a client that leaves exits cleanly.
THEOREM CleanExitOnLiveConnection == Spec => [](server = "open" /\ network = "up" => CleanExit)
<1>1. TeardownInv => (server = "open" /\ network = "up" => CleanExit)
  BY DEF TeardownInv, ControlInv, LeaveInv, CleanExit
<1> QED BY <1>1, TeardownCorrect, PTL
=============================================================================
