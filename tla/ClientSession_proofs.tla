------------------------ MODULE ClientSession_proofs ------------------------
(* Theorems about ClientSession for any timeouts, intervals and delays. *)
EXTENDS ClientSession, SequenceTheorems, TLAPS

LEMMA TimesAreNat ==
  /\ HeartbeatEvery \in Nat /\ ReplyWithin \in Nat /\ ManifestWithin \in Nat
  /\ DroppedAfter \in Nat /\ CheckEvery \in Nat
  /\ LongestSilence = DroppedAfter + CheckEvery
BY TimesAssumption DEF LongestSilence
-----------------------------------------------------------------------------
(* The watchdog *)

\* The longer a session has been silent, the sooner it is looked at; the
\* watchdog stops only after every session has been dropped.
SilenceInv ==
  /\ quiet \in Nat
  /\ watch \in 0 .. CheckEvery
  /\ session = "registered" => serverUp /\ quiet + watch <= LongestSilence
  /\ session # "registered" => quiet = 0

\* What a handler does to a session's silence: nothing, or it ends it.
Quiets ==
  /\ UNCHANGED <<serverUp, watch>>
  /\ UNCHANGED <<session, quiet>> \/ (session' \in {session, "dropped"} /\ quiet' = 0)

LEMMA ServerQuiets ==
  ASSUME (Server /\ ~Accept) \/ ConnectionEnds PROVE Quiets
<1>1. ASSUME NEW replies, NEW why, DisconnectSession(replies, why)
      PROVE  UNCHANGED <<session, quiet>> \/ (session' = "dropped" /\ quiet' = 0)
  BY <1>1 DEF DisconnectSession
<1>2. CASE Hello
  BY <1>1, <1>2 DEF Hello, Quiets
<1>3. CASE Auth
  BY <1>1, <1>3 DEF Auth, Quiets
<1>4. ASSUME NEW type, NEW replies, Serve(type, replies) PROVE Quiets
  BY <1>1, <1>4 DEF Serve, Quiets
<1>5. CASE ResourceManifestRequest \/ PlayerState \/ ResourcesReady
  BY <1>4, <1>5 DEF ResourceManifestRequest, PlayerState, ResourcesReady
<1>6. CASE Heartbeat
  BY <1>6 DEF Heartbeat, Quiets
<1>7. CASE DisconnectRequest
  BY <1>1, <1>7 DEF DisconnectRequest, Quiets
<1>8. CASE Discard
  BY <1>8 DEF Discard, serverVars, sessionVars, Quiets
<1>9. CASE SocketClosed
  BY <1>9 DEF SocketClosed, Quiets
<1> QED BY <1>2, <1>3, <1>5, <1>6, <1>7, <1>8, <1>9 DEF Server, ConnectionEnds

LEMMA ServerKeepsSilence ==
  ASSUME SilenceInv, Server \/ Watchdog \/ ServerStops \/ ConnectionEnds PROVE SilenceInv'
<1>1. CASE Quiets
  BY <1>1, TimesAreNat DEF Quiets, SilenceInv
<1>2. CASE Accept
  <2>1. UNCHANGED <<serverUp, watch, quiet>> /\ (session' = session \/ (session' = "registered" /\ serverUp))
    BY <1>2 DEF Accept
  <2> QED BY <2>1, TimesAreNat DEF SilenceInv
<1>3. CASE Watchdog
  <2>1. /\ watch = 0 /\ watch' = CheckEvery /\ serverUp' = serverUp
        /\ \/ session' = "dropped" /\ quiet' = 0
           \/ UNCHANGED <<session, quiet>> /\ (session = "registered" => ~Expired)
    BY <1>3 DEF Watchdog
  <2> QED BY <2>1, TimesAreNat DEF SilenceInv, Expired
<1>4. CASE ServerStops
  <2>1. watch' = watch /\ session' # "registered" /\ (quiet' = 0 \/ (quiet' = quiet /\ session # "registered"))
    BY <1>4 DEF ServerStops
  <2> QED BY <2>1 DEF SilenceInv
<1> QED BY <1>1, <1>2, <1>3, <1>4, ServerQuiets

\* Whatever the client does, and what happens to it, leaves the server as it is.
LEMMA ClientLeavesServer ==
  ASSUME Main \/ HeartbeatThread \/ SendPlayerState \/ Receive \/ Cut \/ InputEnds \/ Killed
           \/ ConnectionLost \/ UNCHANGED vars
  PROVE  UNCHANGED serverVars
<1>1. CASE Main
  <2>1. ASSUME NEW r \in Request, Ask(r) \/ Answered(r) \/ TimesOut(r) PROVE UNCHANGED serverVars
    BY <2>1 DEF Ask, Answered, TimesOut
  <2> QED
    BY <1>1, <2>1 DEF Main, Initialize, ConnectFails, Connect, FinishDownload, BecomeReady,
       JoinHeartbeat, JoinReplication, SendDisconnect, Disconnect
<1>2. CASE HeartbeatThread \/ SendPlayerState \/ Receive
  BY <1>2 DEF HeartbeatThread, Beat, BeatDone, BeatStops, SendPlayerState, Receive
<1>3. CASE Cut \/ InputEnds \/ Killed \/ ConnectionLost \/ UNCHANGED vars
  BY <1>3 DEF Cut, InputEnds, Killed, ConnectionLost, vars
<1> QED BY <1>1, <1>2, <1>3

LEMMA SilenceStep ==
  ASSUME SilenceInv, [Next]_vars PROVE SilenceInv'
<1>1. ASSUME UNCHANGED serverVars PROVE SilenceInv'
  BY <1>1 DEF SilenceInv, serverVars, sessionVars
<1>2. CASE Tick
  <2>1. serverUp => watch > 0
    BY <1>2 DEF Tick, Quiescent
  <2>2. watch' = Less(watch) /\ quiet' = IF session = "registered" THEN More(quiet, LongestSilence + 1) ELSE 0
    BY <1>2 DEF Tick
  <2>3. UNCHANGED <<session, serverUp>>
    BY <1>2 DEF Tick
  <2> QED BY <2>1, <2>2, <2>3, TimesAreNat DEF SilenceInv, Less, More
<1> QED BY <1>1, <1>2, ServerKeepsSilence, ClientLeavesServer DEF Next, Environment

\* No session outlives the last heartbeat by more than the timeout and one
\* interval of the watchdog.
THEOREM SilentIsDroppedCorrect == Spec => []SilentIsDropped
<1>1. Init => SilenceInv
  BY TimesAreNat DEF Init, SilenceInv
<1>2. SilenceInv => SilentIsDropped
  BY TimesAreNat DEF SilenceInv, SilentIsDropped
<1> QED BY <1>1, <1>2, SilenceStep, PTL DEF Spec
-----------------------------------------------------------------------------
(* The end of the control input *)

Leaving == {"stopping", "joining", "disconnecting", "closing", "exited"}

\* The threads run from Ready to the step of Shutdown that joins each; what
\* Shutdown has waited and what the heartbeat thread still waits is together
\* no more than one reply may take.
StopInv ==
  /\ stopping \in Nat /\ beatTimer \in Nat
  /\ heartbeat \in {"none", "sleeping", "waiting"}
  /\ pc \notin {"ready", "stopping"} => heartbeat = "none"
  /\ pc \notin {"ready", "stopping", "joining"} => ~replicating
  /\ pc \notin Leaving => stopping = 0
  /\ heartbeat = "waiting" => beatTimer <= ReplyWithin
  /\ pc = "stopping" /\ heartbeat = "waiting" => stopping + beatTimer <= ReplyWithin
  /\ stopping <= ReplyWithin

LEMMA RequestNames ==
  Request = {"hello", "auth", "resource_manifest_request", "resources_ready"}
BY DEF Request, Reply

LEMMA RequestSteps ==
  ASSUME NEW r \in Request, Ask(r) \/ Answered(r) \/ TimesOut(r)
  PROVE  /\ pc \in Request /\ pc' \in Request \cup {"downloading", "loaded"}
         /\ UNCHANGED <<threadVars, clocks>>
<1>1. ASSUME Failed(r) PROVE pc' = "loaded"
  BY <1>1 DEF Failed
<1>2. ASSUME Succeeded(r) PROVE pc' \in Request \cup {"downloading", "loaded"}
  <2>1. CASE r = "hello"
    BY <1>2, <2>1, RequestNames DEF Succeeded, Failed
  <2>2. CASE r = "auth"
    BY <1>2, <2>2, RequestNames DEF Succeeded
  <2>3. CASE r = "resource_manifest_request"
    BY <1>2, <2>3 DEF Succeeded
  <2>4. CASE r = "resources_ready"
    BY <1>2, <2>4 DEF Succeeded
  <2> QED BY <2>1, <2>2, <2>3, <2>4, RequestNames
<1>3. CASE Ask(r)
  BY <1>1, <1>3 DEF Ask
<1>4. CASE Answered(r)
  BY <1>2, <1>4 DEF Answered
<1>5. CASE TimesOut(r)
  BY <1>1, <1>5 DEF TimesOut
<1> QED BY <1>3, <1>4, <1>5

LEMMA ServerLeavesClient ==
  ASSUME Server \/ Watchdog \/ ServerStops \/ ConnectionEnds PROVE UNCHANGED <<clientVars, link, clocks>>
<1>1. ASSUME NEW type, NEW replies, Serve(type, replies) PROVE UNCHANGED <<clientVars, link, clocks>>
  BY <1>1 DEF Serve
<1> QED
  BY <1>1 DEF Server, Accept, Hello, Auth, ResourceManifestRequest, PlayerState, ResourcesReady, Heartbeat,
     DisconnectRequest, Discard, SocketClosed, Watchdog, ServerStops, ConnectionEnds

LEMMA StopStep ==
  ASSUME StopInv, [Next]_vars PROVE StopInv'
<1> USE TimesAreNat, RequestNames DEF threadVars, clocks, mainVars
<1>1. ASSUME UNCHANGED <<pc, heartbeat, beatTimer, replicating, stopping>> PROVE StopInv'
  BY <1>1 DEF StopInv
<1>2. ASSUME NEW r \in Request, Ask(r) \/ Answered(r) \/ TimesOut(r) PROVE StopInv'
  <2>1. /\ pc \in Request /\ pc' \in Request \cup {"downloading", "loaded"}
        /\ UNCHANGED <<heartbeat, beatTimer, replicating, stopping>>
    BY <1>2, RequestSteps
  <2> QED BY <2>1 DEF StopInv, Leaving
<1>3. CASE Initialize \/ ConnectFails \/ Connect \/ FinishDownload
  BY <1>3 DEF Initialize, ConnectFails, Connect, FinishDownload, StopInv, Leaving
<1>4. CASE BecomeReady
  BY <1>4 DEF BecomeReady, StopInv, Leaving
<1>5. CASE JoinHeartbeat \/ JoinReplication \/ SendDisconnect \/ Disconnect \/ InputEnds
  BY <1>5 DEF JoinHeartbeat, JoinReplication, SendDisconnect, Disconnect, InputEnds, Goto, StopInv, Leaving
<1>6. CASE Beat
  BY <1>6 DEF Beat, ShouldStop, StopInv, Leaving
<1>7. CASE BeatDone \/ BeatStops
  BY <1>7 DEF BeatDone, BeatStops, ShouldStop, StopInv, Leaving
<1>8. CASE Killed
  BY <1>8 DEF Killed, StopInv, Leaving
<1>9. CASE SendPlayerState \/ Receive \/ Cut \/ ConnectionLost \/ UNCHANGED vars
  BY <1>1, <1>9 DEF SendPlayerState, Receive, Cut, ConnectionLost, vars, clientVars
<1>10. CASE Server \/ Watchdog \/ ServerStops \/ ConnectionEnds
  BY <1>1, <1>10, ServerLeavesClient DEF clientVars
<1>11. CASE Tick
  <2>1. /\ UNCHANGED <<pc, heartbeat, replicating>>
        /\ beatTimer' = Less(beatTimer)
        /\ stopping' = IF pc = "stopping" THEN More(stopping, ReplyWithin + 1) ELSE stopping
    BY <1>11 DEF Tick
  <2>2. pc = "stopping" => heartbeat = "waiting" /\ beatTimer > 0
    BY <1>11 DEF Tick, Quiescent, ShouldStop, StopInv
  <2> QED BY <2>1, <2>2 DEF StopInv, Less, More, Leaving
<1> QED
  BY <1>2, <1>3, <1>4, <1>5, <1>6, <1>7, <1>8, <1>9, <1>10, <1>11
  DEF Next, Main, HeartbeatThread, Environment

LEMMA StopInit == Init => StopInv
BY TimesAreNat DEF Init, StopInv, Leaving

\* Shutdown waits at most for one heartbeat's reply.
THEOREM StopIsPromptCorrect == Spec => []StopIsPrompt
<1>1. StopInv => StopIsPrompt
  BY DEF StopInv, StopIsPrompt
<1> QED BY <1>1, StopInit, StopStep, PTL DEF Spec
-----------------------------------------------------------------------------
(* The channels *)

Kind == ClientMessage \cup ServerMessage
Message == [type : Kind, age : Nat]

LEMMA Kinds ==
  Kind = {"hello", "auth", "resource_manifest_request", "resources_ready", "connection", "heartbeat",
          "player_state", "disconnect", "fin", "hello_ack", "auth_result", "resource_manifest",
          "resources_ready_ack", "heartbeat_ack", "kick"}
<1>1. ServerMessage = {"hello_ack", "auth_result", "resource_manifest", "resources_ready_ack",
                       "heartbeat_ack", "kick", "fin"}
  BY RequestNames DEF ServerMessage, Reply
<1> QED BY <1>1, RequestNames DEF Kind, ClientMessage

LEMMA AddAdds ==
  ASSUME NEW channel \in Seq(Message), NEW types \in Seq(Kind)
  PROVE  /\ Add(channel, types) \in Seq(Message)
         /\ \/ Add(channel, types) = channel
            \/ /\ Len(Add(channel, types)) = Len(channel) + Len(types)
               /\ \A i \in 1 .. Len(channel) : Add(channel, types)[i] = channel[i]
               /\ \A i \in 1 .. Len(types) : Add(channel, types)[Len(channel) + i].type = types[i]
<1>1. /\ Fresh(types) \in Seq(Message) /\ Len(Fresh(types)) = Len(types)
      /\ \A i \in 1 .. Len(types) : Fresh(types)[i].type = types[i]
  <2>1. DOMAIN types = 1 .. Len(types) /\ \A i \in 1 .. Len(types) : types[i] \in Kind
    OBVIOUS
  <2>2. \A i \in 1 .. Len(types) : [type |-> types[i], age |-> 0] \in Message
    BY <2>1 DEF Message
  <2> QED BY <2>1, <2>2 DEF Fresh
<1>2. CASE link = "up"
  <2> DEFINE fresh == Fresh(types)
  <2>1. fresh \in Seq(Message) /\ Len(fresh) = Len(types) /\ \A i \in 1 .. Len(types) : fresh[i].type = types[i]
    BY <1>1
  <2>2. Add(channel, types) = channel \o fresh
    BY <1>2 DEF Add
  <2> HIDE DEF fresh
  <2>3. /\ channel \o fresh \in Seq(Message)
        /\ Len(channel \o fresh) = Len(channel) + Len(types)
        /\ \A i \in 1 .. Len(channel) + Len(types) :
             (channel \o fresh)[i] = IF i <= Len(channel) THEN channel[i] ELSE fresh[i - Len(channel)]
    <3>1. channel \in Seq(Message) /\ fresh \in Seq(Message) /\ Len(fresh) = Len(types)
      BY <2>1
    <3>2. channel \o fresh \in Seq(Message) /\ Len(channel \o fresh) = Len(channel) + Len(types)
      BY <3>1
    <3>3. \A i \in 1 .. Len(channel) + Len(fresh) :
            (channel \o fresh)[i] = IF i <= Len(channel) THEN channel[i] ELSE fresh[i - Len(channel)]
      BY <3>1, ConcatProperties, Zenon
    <3> QED BY <3>1, <3>2, <3>3
  <2>4. \A i \in 1 .. Len(types) : (channel \o fresh)[Len(channel) + i] = fresh[i]
    <3> TAKE i \in 1 .. Len(types)
    <3>1. Len(channel) + i \in 1 .. Len(channel) + Len(types) /\ ~(Len(channel) + i <= Len(channel))
          /\ (Len(channel) + i) - Len(channel) = i
      OBVIOUS
    <3> QED BY <2>3, <3>1
  <2>5. \A i \in 1 .. Len(channel) : (channel \o fresh)[i] = channel[i]
    BY <2>3
  <2> QED BY <2>1, <2>2, <2>3, <2>4, <2>5
<1>3. CASE link # "up"
  BY <1>3 DEF Add
<1> QED BY <1>2, <1>3

LEMMA OlderAges ==
  ASSUME NEW channel \in Seq(Message)
  PROVE  /\ Older(channel) \in Seq(Message) /\ Len(Older(channel)) = Len(channel)
         /\ \A i \in 1 .. Len(channel) : Older(channel)[i].type = channel[i].type
<1>1. ASSUME NEW m \in Message
      PROVE  [m EXCEPT !.age = @ + 1] \in Message /\ [m EXCEPT !.age = @ + 1].type = m.type
  BY DEF Message
<1>2. DOMAIN channel = 1 .. Len(channel) /\ \A i \in 1 .. Len(channel) : channel[i] \in Message
  OBVIOUS
<1>3. Older(channel) = [i \in 1 .. Len(channel) |-> [channel[i] EXCEPT !.age = @ + 1]]
  BY <1>2 DEF Older
<1>4. \A i \in 1 .. Len(channel) : Older(channel)[i] \in Message /\ Older(channel)[i].type = channel[i].type
  BY <1>1, <1>2, <1>3
<1>5. Older(channel) \in Seq(Message) /\ Len(Older(channel)) = Len(channel)
  <2>1. Len(channel) \in Nat
    OBVIOUS
  <2> QED BY <1>3, <1>4, <2>1
<1> QED BY <1>4, <1>5
-----------------------------------------------------------------------------
(* The goodbye *)

\* Only Shutdown's last steps follow the goodbye, and nothing but the end of
\* the connection follows it in the channel.
Goodbye ==
  /\ toServer \in Seq(Message)
  /\ \A i \in 1 .. Len(toServer) : toServer[i].type = "disconnect" =>
       /\ pc \in {"closing", "exited"}
       /\ \A j \in 1 .. Len(toServer) : j > i => toServer[j].type = "fin"

LEMMA SendKeepsGoodbye ==
  ASSUME Goodbye, NEW type \in Kind, Send(<<type>>),
         \/ type = "fin"
         \/ pc \notin {"closing", "exited"} /\ (type = "disconnect" => pc' = "closing"),
         pc \in {"closing", "exited"} => pc' \in {"closing", "exited"}
  PROVE  Goodbye'
<1>1. <<type>> \in Seq(Kind) /\ Len(<<type>>) = 1 /\ <<type>>[1] = type
  OBVIOUS
<1>2. /\ toServer' \in Seq(Message)
      /\ \/ toServer' = toServer
         \/ /\ Len(toServer') = Len(toServer) + 1
            /\ \A i \in 1 .. Len(toServer) : toServer'[i] = toServer[i]
            /\ toServer'[Len(toServer) + 1].type = type
  <2>1. toServer \in Seq(Message) /\ toServer' = Add(toServer, <<type>>) /\ 1 \in 1 .. Len(<<type>>)
    BY <1>1 DEF Send, Goodbye
  <2> QED BY <1>1, <2>1, AddAdds
<1>3. CASE toServer' = toServer
  BY <1>3 DEF Goodbye
<1>4. CASE toServer' # toServer
  <2>1. ASSUME type = "fin" PROVE Goodbye'
    BY <1>2, <1>4, <2>1 DEF Goodbye
  <2>2. ASSUME type # "fin" PROVE Goodbye'
    <3>1. \A i \in 1 .. Len(toServer) : toServer[i].type # "disconnect"
      BY <2>2 DEF Goodbye
    <3> QED BY <1>2, <1>4, <2>2, <3>1 DEF Goodbye
  <2> QED BY <2>1, <2>2
<1> QED BY <1>3, <1>4

LEMMA ServerTakes ==
  ASSUME Server \/ Watchdog \/ ServerStops \/ ConnectionEnds
  PROVE  toServer' = toServer \/ (toServer # <<>> /\ toServer' = Tail(toServer))
<1>1. ASSUME NEW replies, NEW why, DisconnectSession(replies, why) PROVE toServer' = Tail(toServer)
  BY <1>1 DEF DisconnectSession, Answer
<1>2. ASSUME NEW type, NEW replies, Serve(type, replies)
      PROVE  toServer # <<>> /\ toServer' = Tail(toServer)
  BY <1>1, <1>2 DEF Serve, Handle, Answer
<1>3. CASE Accept \/ Heartbeat \/ Discard
  BY <1>3 DEF Accept, Heartbeat, Discard, Handle, Answer
<1>4. CASE Hello \/ Auth \/ DisconnectRequest
  BY <1>1, <1>4 DEF Hello, Auth, DisconnectRequest, Handle, Answer
<1>5. CASE ResourceManifestRequest \/ PlayerState \/ ResourcesReady
  BY <1>2, <1>5 DEF ResourceManifestRequest, PlayerState, ResourcesReady
<1>6. CASE SocketClosed
  BY <1>6 DEF SocketClosed
<1>7. CASE Watchdog \/ ServerStops
  BY <1>7 DEF Watchdog, ServerStops
<1> QED BY <1>3, <1>4, <1>5, <1>6, <1>7 DEF Server, ConnectionEnds

LEMMA GoodbyeStep ==
  ASSUME StopInv, Goodbye, [Next]_vars PROVE Goodbye'
<1> USE DEF threadVars, clocks, mainVars
<1>1. ASSUME toServer' = toServer, pc \in {"closing", "exited"} => pc' \in {"closing", "exited"}
      PROVE  Goodbye'
  BY <1>1 DEF Goodbye
<1>2. ASSUME NEW r \in Request, Ask(r) \/ Answered(r) \/ TimesOut(r) PROVE Goodbye'
  <2>1. pc \in Request /\ pc \notin {"closing", "exited"}
    BY <1>2, RequestSteps, RequestNames
  <2>2. r \in Kind /\ r \notin {"fin", "disconnect"}
    BY RequestNames, Kinds
  <2>3. toServer' = toServer \/ Send(<<r>>)
    BY <1>2 DEF Ask, Answered, TimesOut
  <2> QED BY <1>1, <2>1, <2>2, <2>3, SendKeepsGoodbye
<1>3. CASE Initialize \/ ConnectFails \/ FinishDownload \/ BecomeReady \/ JoinHeartbeat \/ JoinReplication
             \/ InputEnds \/ BeatDone \/ BeatStops \/ Receive \/ ConnectionLost \/ UNCHANGED vars
  BY <1>1, <1>3 DEF Initialize, ConnectFails, FinishDownload, BecomeReady, JoinHeartbeat,
     JoinReplication, InputEnds, Goto, BeatDone, BeatStops, Receive, ConnectionLost, vars, clientVars
<1>4. CASE Connect
  BY <1>4, SendKeepsGoodbye, Kinds DEF Connect
<1>5. CASE Beat
  <2>1. pc = "ready" /\ pc' = pc
    BY <1>5 DEF Beat, ShouldStop, StopInv
  <2> QED BY <1>1, <1>5, <2>1, SendKeepsGoodbye, Kinds DEF Beat
<1>6. CASE SendPlayerState
  <2>1. pc \notin {"closing", "exited"} /\ pc' = pc
    BY <1>6 DEF SendPlayerState, StopInv, clientVars
  <2> QED BY <1>6, <2>1, SendKeepsGoodbye, Kinds DEF SendPlayerState
<1>7. CASE SendDisconnect
  BY <1>1, <1>7, SendKeepsGoodbye, Kinds DEF SendDisconnect, Goto
<1>8. CASE Disconnect \/ Killed
  BY <1>8, SendKeepsGoodbye, Kinds DEF Disconnect, Killed, Goto
<1>9. CASE Cut
  BY <1>9 DEF Cut, Goodbye
<1>10. CASE Server \/ Watchdog \/ ServerStops \/ ConnectionEnds
  <2>1. pc' = pc
    BY <1>10, ServerLeavesClient DEF clientVars
  <2>2. toServer' = toServer \/ (toServer # <<>> /\ toServer' = Tail(toServer))
    BY <1>10, ServerTakes
  <2>3. ASSUME toServer # <<>>, toServer' = Tail(toServer) PROVE Goodbye'
    <3>1. /\ toServer' \in Seq(Message) /\ Len(toServer') = Len(toServer) - 1
          /\ \A i \in 1 .. Len(toServer') : toServer'[i] = toServer[i + 1]
      BY <2>3, HeadTailProperties DEF Goodbye
    <3>2. Len(toServer) \in Nat
      BY DEF Goodbye
    <3>3. \A i \in 1 .. Len(toServer') : i + 1 \in 1 .. Len(toServer)
      BY <3>1, <3>2
    <3>4. ASSUME NEW i \in 1 .. Len(toServer'), toServer'[i].type = "disconnect"
          PROVE  /\ pc' \in {"closing", "exited"}
                 /\ \A j \in 1 .. Len(toServer') : j > i => toServer'[j].type = "fin"
      <4>1. i + 1 \in 1 .. Len(toServer) /\ toServer[i + 1].type = "disconnect"
        BY <3>1, <3>3, <3>4
      <4>2. pc \in {"closing", "exited"} /\ \A k \in 1 .. Len(toServer) : k > i + 1 => toServer[k].type = "fin"
        BY <4>1 DEF Goodbye
      <4>3. ASSUME NEW j \in 1 .. Len(toServer'), j > i PROVE toServer'[j].type = "fin"
        <5>1. j + 1 \in 1 .. Len(toServer) /\ j + 1 > i + 1 /\ toServer'[j] = toServer[j + 1]
          BY <3>1, <3>2, <3>3, <4>3
        <5> QED BY <4>2, <5>1
      <4> QED BY <2>1, <4>2, <4>3
    <3> QED BY <3>1, <3>4 DEF Goodbye
  <2> QED BY <1>1, <2>1, <2>2, <2>3
<1>11. CASE Tick
  <2>1. pc' = pc /\ toServer' = Older(toServer)
    BY <1>11 DEF Tick
  <2> QED BY <2>1, OlderAges DEF Goodbye
<1> QED
  BY <1>2, <1>3, <1>4, <1>5, <1>6, <1>7, <1>8, <1>9, <1>10, <1>11
  DEF Next, Main, HeartbeatThread, Environment

\* The client that says goodbye says nothing after it.
THEOREM DisconnectIsLastCorrect == Spec => []DisconnectIsLast
<1>1. Init => Goodbye
  BY DEF Init, Goodbye
<1>2. Goodbye => DisconnectIsLast
  BY DEF Goodbye, DisconnectIsLast
<1> QED BY <1>1, <1>2, StopInit, StopStep, GoodbyeStep, PTL DEF Spec
-----------------------------------------------------------------------------
(* What the client believes *)

\* An auth_result, on its way, kept, or acted upon, means an authenticated
\* session, and only a compatible client asks for one.
Belief ==
  /\ toClient \in Seq(Message)
  /\ \A i \in 1 .. Len(toClient) : toClient[i].type = "auth_result" => authenticated
  /\ "auth_result" \in pendingReplies => authenticated
  /\ pc = "auth" => compatible
  /\ pc \in {"resource_manifest_request", "downloading", "resources_ready"} => authorized
  /\ authorized => authenticated /\ compatible
  /\ replicating => authorized

Plain == Kind \ {"auth_result"}

\* What the server says: an auth_result only to a session it has authenticated.
Answers ==
  \/ toClient' = toClient
  \/ \E types \in Seq(Plain) : toClient' = Add(toClient, types)
  \/ authenticated' /\ toClient' = Add(toClient, <<"auth_result">>)

LEMMA ServerAnswers ==
  ASSUME Server \/ Watchdog \/ ServerStops \/ ConnectionEnds
  PROVE  Answers /\ (authenticated => authenticated') /\ compatible' = compatible
<1> USE DEF serverVars, sessionVars
<1>1. /\ <<>> \in Seq(Plain) /\ <<"kick", "fin">> \in Seq(Plain) /\ <<"fin">> \in Seq(Plain)
      /\ <<"hello_ack">> \in Seq(Plain) /\ <<"heartbeat_ack">> \in Seq(Plain)
      /\ <<"resource_manifest">> \in Seq(Plain) /\ <<"resources_ready_ack">> \in Seq(Plain)
  <2>1. {"kick", "fin", "hello_ack", "heartbeat_ack", "resource_manifest", "resources_ready_ack"} \subseteq Plain
    BY Kinds DEF Plain
  <2> QED BY <2>1
<1>2. ASSUME NEW types \in Seq(Plain), Answer(types) PROVE Answers
  BY <1>2 DEF Answer, Answers
<1>3. ASSUME NEW replies \in Seq(Plain), NEW why, DisconnectSession(replies, why) PROVE Answers
  <2>1. replies \o <<"kick", "fin">> \in Seq(Plain)
    BY <1>1, ConcatProperties
  <2>2. Answer(replies) \/ Answer(replies \o <<"kick", "fin">>)
    BY <1>3 DEF DisconnectSession
  <2> QED BY <1>2, <2>1, <2>2
<1>4. ASSUME NEW type, NEW replies \in Seq(Plain), Serve(type, replies)
      PROVE  Answers /\ UNCHANGED <<authenticated, compatible>>
  BY <1>1, <1>2, <1>3, <1>4 DEF Serve
<1>5. CASE Accept
  BY <1>1, <1>5 DEF Accept, Answers
<1>6. CASE Hello
  BY <1>1, <1>2, <1>3, <1>6 DEF Hello
<1>7. CASE Auth
  <2>1. CASE helloReceived
    BY <1>7, <2>1 DEF Auth, Answer, Answers
  <2>2. CASE ~helloReceived
    BY <1>1, <1>3, <1>7, <2>2 DEF Auth
  <2> QED BY <2>1, <2>2
<1>8. CASE ResourceManifestRequest \/ PlayerState \/ ResourcesReady
  BY <1>1, <1>4, <1>8 DEF ResourceManifestRequest, PlayerState, ResourcesReady
<1>9. CASE Heartbeat
  BY <1>1, <1>2, <1>9 DEF Heartbeat
<1>10. CASE DisconnectRequest
  BY <1>1, <1>3, <1>10 DEF DisconnectRequest
<1>11. CASE Discard
  <2>1. UNCHANGED <<toClient, authenticated, compatible>>
    BY <1>11 DEF Discard
  <2> QED BY <2>1 DEF Answers
<1>12. CASE SocketClosed
  BY <1>12 DEF SocketClosed, Answers
<1>13. CASE Watchdog
  <2>1. /\ UNCHANGED <<authenticated, compatible>>
        /\ toClient' = toClient \/ toClient' = Add(toClient, <<"kick", "fin">>)
    BY <1>13 DEF Watchdog
  <2> QED BY <1>1, <2>1 DEF Answers
<1>14. CASE ServerStops
  <2>1. /\ UNCHANGED <<authenticated, compatible>>
        /\ toClient' = toClient \/ toClient' = Add(toClient, <<"kick", "fin">>)
    BY <1>14 DEF ServerStops
  <2> QED BY <1>1, <2>1 DEF Answers
<1> QED
  BY <1>5, <1>6, <1>7, <1>8, <1>9, <1>10, <1>11, <1>12, <1>13, <1>14 DEF Server, ConnectionEnds

LEMMA AnswersKeepBelief ==
  ASSUME Belief, Answers, UNCHANGED clientVars, authenticated => authenticated', compatible' = compatible
  PROVE  Belief'
<1> DEFINE Told == /\ toClient' \in Seq(Message)
                   /\ \A i \in 1 .. Len(toClient') : toClient'[i].type = "auth_result" => authenticated'
<1>1. ASSUME NEW types \in Seq(Kind), toClient' = Add(toClient, types),
             \A i \in 1 .. Len(types) : types[i] = "auth_result" => authenticated'
      PROVE  Told
  <2>1. /\ toClient \in Seq(Message) /\ Len(toClient) \in Nat /\ Len(types) \in Nat
        /\ \A i \in 1 .. Len(toClient) : toClient[i].type = "auth_result" => authenticated
    BY DEF Belief
  <2>2. /\ toClient' \in Seq(Message)
        /\ \/ toClient' = toClient
           \/ /\ Len(toClient') = Len(toClient) + Len(types)
              /\ \A i \in 1 .. Len(toClient) : toClient'[i] = toClient[i]
              /\ \A i \in 1 .. Len(types) : toClient'[Len(toClient) + i].type = types[i]
    BY <1>1, <2>1, AddAdds
  <2>3. ASSUME NEW i \in 1 .. Len(toClient'), toClient'[i].type = "auth_result" PROVE authenticated'
    <3>1. CASE toClient' = toClient
      BY <2>1, <2>3, <3>1
    <3>2. CASE toClient' # toClient /\ i <= Len(toClient)
      <4>1. i \in 1 .. Len(toClient)
        BY <2>1, <3>2
      <4> QED BY <2>1, <2>2, <2>3, <3>2, <4>1
    <3>3. CASE toClient' # toClient /\ i > Len(toClient)
      <4>1. i - Len(toClient) \in 1 .. Len(types) /\ Len(toClient) + (i - Len(toClient)) = i
        BY <2>1, <2>2, <3>3
      <4>2. toClient'[i].type = types[i - Len(toClient)]
        BY <2>2, <3>3, <4>1
      <4> QED BY <1>1, <2>3, <4>1, <4>2
    <3> QED BY <2>1, <3>1, <3>2, <3>3
  <2> QED BY <2>2, <2>3
<1>2. Told
  <2>1. CASE toClient' = toClient
    BY <2>1 DEF Belief
  <2>2. ASSUME NEW types \in Seq(Plain), toClient' = Add(toClient, types) PROVE Told
    <3>1. types \in Seq(Kind) /\ \A i \in 1 .. Len(types) : types[i] # "auth_result"
      BY DEF Plain
    <3> QED BY <1>1, <2>2, <3>1
  <2>3. CASE authenticated' /\ toClient' = Add(toClient, <<"auth_result">>)
    <3>1. <<"auth_result">> \in Seq(Kind)
      BY Kinds
    <3> QED BY <1>1, <2>3, <3>1
  <2> QED BY <2>1, <2>2, <2>3 DEF Answers
<1>3. UNCHANGED <<pc, authorized, pendingReplies, replicating>>
  BY DEF clientVars, mainVars, threadVars
<1> QED BY <1>2, <1>3 DEF Belief

LEMMA BeliefStep ==
  ASSUME Belief, [Next]_vars PROVE Belief'
<1> USE RequestNames DEF threadVars, clocks, mainVars, serverVars, sessionVars
<1>1. ASSUME UNCHANGED <<toClient, authenticated, compatible, pendingReplies, pc, authorized>>,
             replicating' => replicating
      PROVE  Belief'
  BY <1>1 DEF Belief
<1>2. ASSUME NEW r \in Request, Ask(r) \/ TimesOut(r) PROVE Belief'
  <2>1. /\ UNCHANGED <<toClient, authenticated, compatible, authorized, replicating>>
        /\ pc' \in {pc, "loaded"} /\ pendingReplies' \subseteq pendingReplies
    BY <1>2 DEF Ask, TimesOut, Failed
  <2> QED BY <2>1 DEF Belief
<1>3. ASSUME NEW r \in Request, Answered(r) PROVE Belief'
  <2>1. /\ UNCHANGED <<toClient, authenticated, compatible, replicating>>
        /\ pc = r /\ pendingReplies' = pendingReplies \ {Reply[r]} /\ Reply[r] \in pendingReplies
        /\ Succeeded(r)
    BY <1>3 DEF Answered
  <2>2. CASE r = "hello"
    <3>1. authorized' = authorized /\ (pc' = "loaded" \/ (pc' = "auth" /\ compatible))
      BY <2>1, <2>2 DEF Succeeded, Failed
    <3> QED BY <2>1, <3>1 DEF Belief
  <2>3. CASE r = "auth"
    <3>1. Reply["auth"] = "auth_result"
      BY DEF Reply
    <3>2. authenticated /\ compatible
      BY <2>1, <2>3, <3>1 DEF Belief
    <3>3. pc' = "resource_manifest_request" /\ authorized'
      BY <2>1, <2>3 DEF Succeeded
    <3> QED BY <2>1, <3>2, <3>3 DEF Belief
  <2>4. CASE r = "resource_manifest_request"
    <3>1. pc' = "downloading" /\ authorized' = authorized
      BY <2>1, <2>4 DEF Succeeded
    <3> QED BY <2>1, <2>4, <3>1 DEF Belief
  <2>5. CASE r = "resources_ready"
    <3>1. pc' = "loaded" /\ authorized' = authorized
      BY <2>1, <2>5 DEF Succeeded
    <3> QED BY <2>1, <3>1 DEF Belief
  <2> QED BY <2>2, <2>3, <2>4, <2>5
<1>4. CASE Initialize \/ ConnectFails \/ Connect \/ FinishDownload
  BY <1>4 DEF Initialize, ConnectFails, Connect, FinishDownload, Belief
<1>5. CASE BecomeReady
  BY <1>5 DEF BecomeReady, Belief
<1>6. CASE JoinHeartbeat \/ JoinReplication \/ SendDisconnect \/ InputEnds
  BY <1>6 DEF JoinHeartbeat, JoinReplication, SendDisconnect, InputEnds, Goto, Belief
<1>7. ASSUME toClient' = <<>>, UNCHANGED <<pendingReplies, authorized, authenticated, compatible>>,
             pc' = pc \/ pc' = "exited", replicating' => replicating
      PROVE  Belief'
  <2>1. <<>> \in Seq(Message) /\ Len(<<>>) = 0
    OBVIOUS
  <2> QED BY <1>7, <2>1 DEF Belief
<1>8. CASE Disconnect \/ Killed \/ Cut
  BY <1>7, <1>8 DEF Disconnect, Killed, Cut, Goto, clientVars
<1>9. CASE Beat \/ BeatDone
  BY <1>9 DEF Beat, BeatDone, Belief
<1>10. CASE BeatStops \/ SendPlayerState \/ ConnectionLost \/ UNCHANGED vars
  BY <1>1, <1>10 DEF BeatStops, SendPlayerState, ConnectionLost, vars, clientVars
<1>11. CASE Receive
  <2>1. /\ toClient # <<>> /\ toClient' = Tail(toClient)
        /\ pendingReplies' \subseteq pendingReplies \cup {Head(toClient).type}
        /\ UNCHANGED <<pc, authorized, replicating, authenticated, compatible>>
    BY <1>11 DEF Receive
  <2>2. /\ toClient \in Seq(Message) /\ toClient' \in Seq(Message) /\ Len(toClient') = Len(toClient) - 1
        /\ \A i \in 1 .. Len(toClient') : toClient'[i] = toClient[i + 1]
    BY <2>1, HeadTailProperties DEF Belief
  <2>3. ASSUME NEW i \in 1 .. Len(toClient'), toClient'[i].type = "auth_result" PROVE authenticated
    <3>1. i + 1 \in 1 .. Len(toClient) /\ toClient'[i] = toClient[i + 1]
      BY <2>2
    <3> QED BY <2>3, <3>1 DEF Belief
  <2>4. Head(toClient).type = "auth_result" => authenticated
    <3>1. Head(toClient) = toClient[1] /\ 1 \in 1 .. Len(toClient)
      BY <2>1, <2>2
    <3> QED BY <3>1 DEF Belief
  <2> QED BY <2>1, <2>2, <2>3, <2>4 DEF Belief
<1>12. CASE Server \/ Watchdog \/ ServerStops \/ ConnectionEnds
  BY <1>12, ServerAnswers, AnswersKeepBelief, ServerLeavesClient
<1>13. CASE Tick
  <2>1. /\ toClient' = Older(toClient)
        /\ UNCHANGED <<pc, authorized, pendingReplies, replicating, authenticated, compatible>>
    BY <1>13 DEF Tick
  <2> QED BY <2>1, OlderAges DEF Belief
<1> QED
  BY <1>2, <1>3, <1>4, <1>5, <1>6, <1>8, <1>9, <1>10, <1>11, <1>12, <1>13
  DEF Next, Main, HeartbeatThread, Environment

\* A client past authentication is one the server has authenticated, in a
\* compatible version.
THEOREM BeliefIsFactCorrect == Spec => []BeliefIsFact
<1>1. Init => Belief
  BY DEF Init, Belief
<1>2. Belief => BeliefIsFact
  BY DEF Belief, BeliefIsFact
<1> QED BY <1>1, <1>2, BeliefStep, PTL DEF Spec
-----------------------------------------------------------------------------
(* The heartbeat on its way *)

Early == Request \cup {"downloading", "loaded"}
Closing == {"stopping", "joining", "disconnecting", "closing"}

\* The session is not, and will not be, registered any more.
Over == session # "registered" /\ socket # "none"

Under(type) == \E i \in 1 .. Len(toServer) : toServer[i].type = type

\* Messages arrive in the order they were sent; the connection is the first.
InOrder ==
  /\ \A i \in 1 .. Len(toServer) : toServer[i].age <= MaxDelay
  /\ \A i, j \in 1 .. Len(toServer) : i <= j => toServer[j].age <= toServer[i].age
  /\ \A i \in 1 .. Len(toServer) : toServer[i].type = "connection" => i = 1 /\ socket = "none"
  /\ connectedToServer /\ socket = "none" => toServer # <<>> /\ toServer[1].type = "connection"

\* Who knows of the connection's beginning and end.
Ends ==
  /\ pc \in Place /\ link \in {"up", "cut"}
  /\ session = "registered" => socket = "open"
  /\ socket = "none" => link = "up" /\ toClient = <<>>
  /\ pc \in {"initializing", "connecting"} => socket = "none" /\ toServer = <<>> /\ ~connectedToServer
  /\ (\E i \in 1 .. Len(toClient) : toClient[i].type = "fin") => Over
  /\ connectedToServer /\ link = "up" /\ pc # "exited" => connected \/ Over
  /\ connectedToServer /\ link = "up" /\ pc = "exited" => Under("fin") \/ Over

\* The thread runs from Ready on.
Beats ==
  /\ pc \in Early \cup {"initializing", "connecting"} => heartbeat = "none" /\ ~beaten /\ ~Under("heartbeat")
  /\ connectedToServer /\ pc = "ready" => heartbeat # "none"
  /\ heartbeat = "sleeping" => beatTimer <= HeartbeatEvery
  /\ preparing \in Nat

Excused == link = "cut" \/ ~connectedToServer \/ (~beaten /\ preparing > Grace)

Coming ==
  \E i \in 1 .. Len(toServer) :
    /\ toServer[i].type \in {"heartbeat", "fin"}
    /\ quiet + MaxDelay <= DroppedAfter + toServer[i].age

\* What keeps the session alive, or ends it, arrives before it expires.
OnTime ==
  session = "registered" /\ ~Excused =>
    \/ Coming
    \/ pc \in Early /\ quiet <= preparing
    \/ heartbeat = "sleeping" /\ quiet + beatTimer + MaxDelay <= DroppedAfter
    \/ heartbeat = "waiting" /\ quiet + beatTimer + HeartbeatEvery + MaxDelay <= DroppedAfter
    \/ pc \in Closing /\ heartbeat = "none" /\ quiet + MaxDelay <= DroppedAfter

TimedOut == reason = "heartbeat timeout" => Over /\ Excused

TimelyInv == InOrder /\ Ends /\ Beats /\ OnTime /\ TimedOut

\* What the other parts of the module have shown.
Known == SilenceInv /\ StopInv /\ Goodbye /\ Belief

LEMMA InitTimely == Init => TimelyInv
BY RequestNames DEF Init, TimelyInv, InOrder, Ends, Beats, OnTime, TimedOut, Under, Early, Place

LEMMA SendAppends ==
  ASSUME NEW type \in Kind, Send(<<type>>), toServer \in Seq(Message)
  PROVE  \/ link # "up" /\ toServer' = toServer
         \/ /\ link = "up"
            /\ toServer' \in Seq(Message) /\ Len(toServer') = Len(toServer) + 1
            /\ \A i \in 1 .. Len(toServer) : toServer'[i] = toServer[i]
            /\ toServer'[Len(toServer) + 1] = [type |-> type, age |-> 0]
<1> DEFINE m == [type |-> type, age |-> 0]
<1>1. Fresh(<<type>>) = <<m>> /\ m \in Message
  BY DEF Fresh, Message
<1>2. toServer \o <<m>> = Append(toServer, m)
  BY <1>1, AppendIsConcat
<1>3. /\ Append(toServer, m) \in Seq(Message) /\ Len(Append(toServer, m)) = Len(toServer) + 1
      /\ \A i \in 1 .. Len(toServer) : Append(toServer, m)[i] = toServer[i]
      /\ Append(toServer, m)[Len(toServer) + 1] = m
  <2> HIDE DEF m
  <2> QED BY <1>1, AppendProperties
<1> QED BY <1>1, <1>2, <1>3 DEF Send, Add

LEMMA TailShifts ==
  ASSUME toServer \in Seq(Message), toServer # <<>>, toServer' = Tail(toServer)
  PROVE  /\ toServer' \in Seq(Message) /\ Len(toServer) \in Nat /\ Len(toServer') = Len(toServer) - 1
         /\ Head(toServer) = toServer[1] /\ 1 \in 1 .. Len(toServer)
         /\ \A i \in 1 .. Len(toServer') : i + 1 \in 1 .. Len(toServer) /\ toServer'[i] = toServer[i + 1]
         /\ \A i \in 1 .. Len(toServer) : i # 1 => i - 1 \in 1 .. Len(toServer') /\ toServer'[i - 1] = toServer[i]
<1>1. /\ toServer' \in Seq(Message) /\ Len(toServer) \in Nat /\ Len(toServer') = Len(toServer) - 1
      /\ \A i \in 1 .. Len(toServer') : toServer'[i] = toServer[i + 1]
  BY HeadTailProperties
<1>2. Head(toServer) = toServer[1] /\ 1 \in 1 .. Len(toServer)
  OBVIOUS
<1>3. \A i \in 1 .. Len(toServer') : i + 1 \in 1 .. Len(toServer)
  BY <1>1
<1>4. ASSUME NEW i \in 1 .. Len(toServer), i # 1
      PROVE  i - 1 \in 1 .. Len(toServer') /\ toServer'[i - 1] = toServer[i]
  <2>1. i - 1 \in 1 .. Len(toServer') /\ (i - 1) + 1 = i
    BY <1>1, <1>4
  <2> QED BY <1>1, <2>1
<1> QED BY <1>1, <1>2, <1>3, <1>4

LEMMA AllOlder ==
  ASSUME NEW channel \in Seq(Message)
  PROVE  \A i \in 1 .. Len(channel) :
           Older(channel)[i].type = channel[i].type /\ Older(channel)[i].age = channel[i].age + 1
<1>1. DOMAIN channel = 1 .. Len(channel) /\ \A i \in 1 .. Len(channel) : channel[i] \in Message
  OBVIOUS
<1>2. ASSUME NEW m \in Message
      PROVE  [m EXCEPT !.age = @ + 1].type = m.type /\ [m EXCEPT !.age = @ + 1].age = m.age + 1
  BY DEF Message
<1>3. Older(channel) = [i \in 1 .. Len(channel) |-> [channel[i] EXCEPT !.age = @ + 1]]
  BY <1>1 DEF Older
<1> QED BY <1>1, <1>2, <1>3

\* The steps of the server, by what they do to the session.
Took == toServer # <<>> /\ toServer' = Tail(toServer)
Unsaid == toClient' = toClient \/ \E types \in Seq(Kind \ {"fin"}) : toClient' = Add(toClient, types)

Gone ==
  /\ Over' /\ (beaten' => beaten)
  /\ Took \/ (toServer' = toServer /\ socket # "none")
  /\ reason' = reason \/ (session = "registered" /\ (reason' = "heartbeat timeout" => quiet > DroppedAfter))
GoesOn ==
  /\ session = "registered" /\ UNCHANGED <<session, socket, reason, beaten, quiet>>
  /\ Took /\ Head(toServer).type \notin {"heartbeat", "fin", "connection"} /\ Unsaid
Renewed ==
  /\ session = "registered" /\ UNCHANGED <<session, socket, reason>> /\ quiet' = 0
  /\ Took /\ Head(toServer).type = "heartbeat" /\ Unsaid
Accepted ==
  /\ socket = "none" /\ Took /\ Head(toServer).type = "connection"
  /\ session' = "registered" /\ socket' = "open" /\ UNCHANGED <<reason, beaten, quiet, toClient>>
Idle ==
  /\ UNCHANGED <<session, socket, reason, beaten, quiet, toClient>>
  /\ toServer' = toServer \/ (Took /\ socket = "none" /\ ~connectedToServer)

ServerSteps == Gone \/ GoesOn \/ Renewed \/ Accepted \/ Idle

LEMMA UnsaidAnswers ==
  ASSUME NEW types \in Seq(Kind \ {"fin"}), Answer(types)
  PROVE  Unsaid
BY DEF Answer, Unsaid

LEMMA PlainReplies ==
  {<<>>, <<"hello_ack">>, <<"heartbeat_ack">>, <<"resource_manifest">>, <<"resources_ready_ack">>,
   <<"auth_result">>} \subseteq Seq(Kind \ {"fin"})
<1>1. {"hello_ack", "heartbeat_ack", "resource_manifest", "resources_ready_ack", "auth_result"}
        \subseteq Kind \ {"fin"}
  BY Kinds
<1> QED BY <1>1

LEMMA DisconnectSteps ==
  ASSUME Ends, NEW type, Handle(type), beaten' = beaten,
         NEW replies, NEW why, why # "heartbeat timeout", DisconnectSession(replies, why)
  PROVE  ServerSteps
<1>1. Took /\ socket # "none"
  BY DEF Handle, Took, DisconnectSession, Answer
<1> QED BY <1>1 DEF DisconnectSession, Gone, Over, ServerSteps

LEMMA AnswerSteps ==
  ASSUME Ends, NEW type \in Kind \ {"heartbeat", "fin", "connection"}, Handle(type), beaten' = beaten,
         NEW replies \in Seq(Kind \ {"fin"}), Answer(replies), UNCHANGED <<session, socket, reason, quiet>>
  PROVE  ServerSteps
<1>1. Took /\ socket # "none" /\ Unsaid
  BY UnsaidAnswers DEF Handle, Took, Answer
<1> QED BY <1>1 DEF Handle, GoesOn, Gone, Over, ServerSteps

LEMMA ServeSteps ==
  ASSUME Ends, NEW type \in Kind \ {"heartbeat", "fin", "connection"}, NEW replies \in Seq(Kind \ {"fin"}),
         Serve(type, replies)
  PROVE  ServerSteps
<1>1. Handle(type) /\ beaten' = beaten
  BY DEF Serve
<1>2. \/ DisconnectSession(<<>>, "before authentication")
      \/ Answer(replies) /\ UNCHANGED <<session, socket, reason, quiet>>
  BY DEF Serve
<1>3. "before authentication" # "heartbeat timeout"
  OBVIOUS
<1> QED BY <1>1, <1>2, <1>3, DisconnectSteps, AnswerSteps

LEMMA ServerStepKinds ==
  ASSUME Ends, InOrder, Goodbye, Server \/ Watchdog \/ ServerStops \/ ConnectionEnds
  PROVE  ServerSteps
<1> USE PlainReplies
<1>1. CASE Accept
  <2>1. Took /\ Head(toServer).type = "connection" /\ Head(toServer) = toServer[1] /\ 1 \in 1 .. Len(toServer)
    BY <1>1, TailShifts DEF Accept, Took, Goodbye
  <2>2. socket = "none" /\ session # "registered"
    BY <2>1 DEF InOrder, Ends
  <2>3. CASE serverUp
    BY <1>1, <2>1, <2>2, <2>3 DEF Accept, Accepted, ServerSteps
  <2>4. CASE ~serverUp
    BY <1>1, <2>1, <2>2, <2>4 DEF Accept, Gone, Over, ServerSteps
  <2> QED BY <2>3, <2>4
<1>2. CASE Hello
  <2>1. \/ DisconnectSession(<<"hello_ack">>, "incompatible protocol version")
        \/ Answer(<<"hello_ack">>) /\ UNCHANGED <<session, socket, reason, quiet>>
    BY <1>2 DEF Hello
  <2>2. Handle("hello") /\ beaten' = beaten /\ "hello" \in Kind \ {"heartbeat", "fin", "connection"}
    BY <1>2, Kinds DEF Hello
  <2> QED BY <2>1, <2>2, DisconnectSteps, AnswerSteps
<1>3. CASE Auth
  <2>1. \/ DisconnectSession(<<>>, "auth before hello")
        \/ Answer(<<"auth_result">>) /\ UNCHANGED <<session, socket, reason, quiet>>
    BY <1>3 DEF Auth
  <2>2. Handle("auth") /\ beaten' = beaten /\ "auth" \in Kind \ {"heartbeat", "fin", "connection"}
    BY <1>3, Kinds DEF Auth
  <2> QED BY <2>1, <2>2, DisconnectSteps, AnswerSteps
<1>4. CASE ResourceManifestRequest \/ PlayerState \/ ResourcesReady
  <2>1. {"resource_manifest_request", "player_state", "resources_ready"} \subseteq Kind \ {"heartbeat", "fin", "connection"}
    BY Kinds
  <2> QED BY <1>4, <2>1, ServeSteps DEF ResourceManifestRequest, PlayerState, ResourcesReady
<1>5. CASE Heartbeat
  <2>1. Took /\ Head(toServer).type = "heartbeat" /\ socket # "none" /\ UNCHANGED <<session, socket, reason>>
    BY <1>5 DEF Heartbeat, Handle, Took, Answer
  <2>2. CASE session = "registered"
    <3>1. quiet' = 0 /\ Unsaid
      BY <1>5, UnsaidAnswers DEF Heartbeat
    <3> QED BY <2>1, <2>2, <3>1 DEF Renewed, ServerSteps
  <2>3. CASE session # "registered"
    <3>1. beaten' => beaten
      BY <1>5, <2>3 DEF Heartbeat
    <3> QED BY <2>1, <2>3, <3>1 DEF Gone, Over, ServerSteps
  <2> QED BY <2>2, <2>3
<1>6. CASE DisconnectRequest
  <2>1. DisconnectSession(<<>>, "client") /\ Handle("disconnect") /\ beaten' = beaten
    BY <1>6 DEF DisconnectRequest
  <2>2. "disconnect" \in Kind \ {"heartbeat", "fin", "connection"}
    BY Kinds
  <2> QED BY <2>1, <2>2, DisconnectSteps, AnswerSteps
<1>7. CASE Discard
  <2>1. Took /\ Head(toServer).type # "connection" /\ socket \notin {"open", "ended"} /\ UNCHANGED <<serverVars, toClient>>
    BY <1>7 DEF Discard, Took
  <2>2. Head(toServer) = toServer[1]
    BY <2>1, TailShifts DEF Took, Goodbye
  <2>3. CASE socket = "none"
    <3>1. ~connectedToServer
      BY <2>1, <2>2, <2>3 DEF InOrder
    <3> QED BY <2>1, <2>3, <3>1 DEF Idle, ServerSteps, serverVars, sessionVars
  <2>4. CASE socket # "none"
    <3>1. session # "registered"
      BY <2>1 DEF Ends
    <3> QED BY <2>1, <2>4, <3>1 DEF Gone, Over, ServerSteps, serverVars, sessionVars
  <2> QED BY <2>3, <2>4
<1>8. ASSUME SocketClosed, socket # "none" PROVE ServerSteps
  <2>1. Took \/ (toServer' = toServer /\ socket # "none")
    BY <1>8 DEF SocketClosed, Took, Handle
  <2>2. reason' = reason \/ (session = "registered" /\ reason' # "heartbeat timeout")
    BY <1>8 DEF SocketClosed
  <2>3. session' = "dropped" /\ socket' = "closed" /\ beaten' = beaten
    BY <1>8 DEF SocketClosed
  <2> QED BY <2>1, <2>2, <2>3 DEF Gone, Over, ServerSteps
<1>9. CASE Watchdog
  <2>1. CASE session = "registered" /\ Expired
    BY <1>9, <2>1 DEF Watchdog, Expired, Gone, Over, Ends, ServerSteps
  <2>2. CASE ~(session = "registered" /\ Expired)
    BY <1>9, <2>2 DEF Watchdog, Idle, ServerSteps
  <2> QED BY <2>1, <2>2
<1>10. CASE ServerStops
  <2>1. CASE session = "registered"
    BY <1>10, <2>1 DEF ServerStops, Gone, Over, Ends, ServerSteps
  <2>2. CASE session # "registered"
    BY <1>10, <2>2 DEF ServerStops, Idle, ServerSteps
  <2> QED BY <2>1, <2>2
<1> QED
  BY <1>1, <1>2, <1>3, <1>4, <1>5, <1>6, <1>7, <1>8, <1>9, <1>10 DEF Server, ConnectionEnds, Handle

\* The steps of the client and of what happens to it, but for the connection's
\* beginning and its loss.
ClientSteps ==
  /\ UNCHANGED <<link, serverVars, clocks>>
  /\ connectedToServer' => connectedToServer
  /\ toServer' = toServer \/ \E type \in Kind \ {"connection"} : Send(<<type>>)
  /\ \/ toClient' \in {toClient, <<>>}
     \/ toClient # <<>> /\ toClient' = Tail(toClient)
  /\ \/ connected' = connected \/ pc' = "exited" \/ link = "cut"
     \/ toClient # <<>> /\ (Head(toClient).type = "fin" \/ connected')
  /\ pc' = "exited" => pc \in {"exited", "initializing"} \/ Send(<<"fin">>)
  /\ pc = "exited" => pc' = "exited"
  /\ pc' \in {"initializing", "connecting"} => pc \in {"initializing", "connecting"} /\ toServer' = toServer
  /\ pc \in Place => pc' \in Place

LEMMA PlaceNames ==
  Place = {"hello", "auth", "resource_manifest_request", "resources_ready", "initializing", "connecting",
           "downloading", "loaded", "ready", "stopping", "joining", "disconnecting", "closing", "exited"}
BY RequestNames DEF Place

LEMMA RequestsLose ==
  ASSUME NEW r \in Request, Ask(r) \/ Answered(r) \/ TimesOut(r)
  PROVE  connectedToServer' => connectedToServer
<1>1. Failed(r) => (connectedToServer' => connectedToServer)
  BY DEF Failed
<1>2. Failed("hello") => (connectedToServer' => connectedToServer)
  BY DEF Failed
<1>3. Succeeded(r) => (connectedToServer' => connectedToServer)
  BY <1>2, RequestNames DEF Succeeded
<1> QED BY <1>1, <1>3 DEF Ask, Answered, TimesOut

LEMMA ClientStepKinds ==
  ASSUME StopInv, ~Connect, Main \/ HeartbeatThread \/ SendPlayerState \/ Receive \/ InputEnds \/ Killed
           \/ ConnectionLost \/ UNCHANGED vars
  PROVE  ClientSteps
<1> USE PlaceNames, Kinds DEF threadVars, clocks, mainVars
<1>1. UNCHANGED serverVars
  BY ClientLeavesServer
<1>2. ASSUME NEW r \in Request, Ask(r) \/ Answered(r) \/ TimesOut(r) PROVE ClientSteps
  <2>1. /\ pc \in Request /\ pc' \in Request \cup {"downloading", "loaded"}
        /\ connectedToServer' => connectedToServer
    BY <1>2, RequestSteps, RequestsLose
  <2>2. toServer' = toServer \/ Send(<<r>>)
    BY <1>2 DEF Ask, Answered, TimesOut
  <2>3. UNCHANGED <<link, clocks, toClient, connected>>
    BY <1>2 DEF Ask, Answered, TimesOut
  <2> QED BY <1>1, <2>1, <2>2, <2>3, RequestNames DEF ClientSteps
<1>3. CASE Initialize \/ ConnectFails \/ FinishDownload \/ BecomeReady
  BY <1>1, <1>3 DEF Initialize, ConnectFails, FinishDownload, BecomeReady, ClientSteps
<1>4. CASE JoinHeartbeat \/ JoinReplication \/ InputEnds
  BY <1>1, <1>4 DEF JoinHeartbeat, JoinReplication, InputEnds, Goto, ClientSteps
<1>5. CASE SendDisconnect
  <2>1. toServer' = toServer \/ Send(<<"disconnect">>)
    BY <1>5 DEF SendDisconnect
  <2> QED BY <1>1, <1>5, <2>1 DEF SendDisconnect, Goto, ClientSteps
<1>6. CASE Disconnect \/ Killed
  <2>1. Send(<<"fin">>) /\ pc' = "exited" /\ toClient' = <<>>
    BY <1>6 DEF Disconnect, Killed, Goto
  <2> QED BY <1>1, <1>6, <2>1 DEF Disconnect, Killed, Goto, ClientSteps
<1>7. CASE Beat
  <2>1. pc \in {"ready", "stopping"}
    BY <1>7 DEF Beat, StopInv
  <2>2. toServer' = toServer \/ Send(<<"heartbeat">>)
    BY <1>7 DEF Beat
  <2> QED BY <1>1, <1>7, <2>1, <2>2 DEF Beat, ClientSteps
<1>8. CASE BeatDone \/ BeatStops
  BY <1>1, <1>8 DEF BeatDone, BeatStops, ClientSteps
<1>9. CASE SendPlayerState
  <2>1. pc \in {"ready", "stopping", "joining"} /\ UNCHANGED <<clientVars, link, clocks, toClient>>
    BY <1>9 DEF SendPlayerState, StopInv
  <2>2. Send(<<"player_state">>)
    BY <1>9 DEF SendPlayerState
  <2> QED BY <1>1, <2>1, <2>2 DEF clientVars, ClientSteps
<1>10. CASE Receive
  BY <1>1, <1>10 DEF Receive, ClientSteps
<1>11. CASE ConnectionLost \/ UNCHANGED vars
  BY <1>1, <1>11 DEF ConnectionLost, vars, clientVars, ClientSteps
<1> QED
  BY <1>2, <1>3, <1>4, <1>5, <1>6, <1>7, <1>8, <1>9, <1>10, <1>11 DEF Main, HeartbeatThread

\* What is in the channel stays where it is when the client sends.
LEMMA SendKeeps ==
  ASSUME Goodbye, toServer' = toServer \/ \E type \in Kind : Send(<<type>>)
  PROVE  /\ toServer' \in Seq(Message)
         /\ \A i \in 1 .. Len(toServer) : i \in 1 .. Len(toServer') /\ toServer'[i] = toServer[i]
<1>1. toServer \in Seq(Message) /\ Len(toServer) \in Nat
  BY DEF Goodbye
<1>2. ASSUME NEW type \in Kind, Send(<<type>>)
      PROVE  \/ toServer' = toServer
             \/ /\ toServer' \in Seq(Message) /\ Len(toServer') = Len(toServer) + 1
                /\ \A i \in 1 .. Len(toServer) : toServer'[i] = toServer[i]
  BY <1>1, <1>2, SendAppends
<1>3. CASE toServer' = toServer
  BY <1>1, <1>3
<1>4. CASE toServer' # toServer
  <2>1. /\ toServer' \in Seq(Message) /\ Len(toServer') = Len(toServer) + 1
        /\ \A i \in 1 .. Len(toServer) : toServer'[i] = toServer[i]
    BY <1>2, <1>4
  <2>2. \A i \in 1 .. Len(toServer) : i \in 1 .. Len(toServer')
    BY <1>1, <2>1
  <2> QED BY <2>1, <2>2
<1> QED BY <1>3, <1>4

\* What is in the channel after a Send was there, or is what was sent.
LEMMA SendAddsOne ==
  ASSUME Goodbye, NEW type \in Kind, Send(<<type>>), NEW i \in 1 .. Len(toServer')
  PROVE  \/ i \in 1 .. Len(toServer) /\ toServer'[i] = toServer[i]
         \/ /\ i = Len(toServer) + 1 /\ toServer'[i] = [type |-> type, age |-> 0]
            /\ link = "up"
<1>1. toServer \in Seq(Message) /\ Len(toServer) \in Nat
  BY DEF Goodbye
<1>2. CASE link # "up" /\ toServer' = toServer
  BY <1>1, <1>2
<1>3. CASE ~(link # "up" /\ toServer' = toServer)
  <2>1. /\ link = "up" /\ Len(toServer') = Len(toServer) + 1
        /\ \A k \in 1 .. Len(toServer) : toServer'[k] = toServer[k]
        /\ toServer'[Len(toServer) + 1] = [type |-> type, age |-> 0]
    BY <1>1, <1>3, SendAppends
  <2>2. i \in 1 .. Len(toServer) \/ i = Len(toServer) + 1
    BY <1>1, <2>1
  <2> QED BY <2>1, <2>2
<1> QED BY <1>2, <1>3

LEMMA MessageFields ==
  ASSUME Goodbye
  PROVE  /\ Len(toServer) \in Nat
         /\ \A i \in 1 .. Len(toServer) : toServer[i].age \in Nat /\ toServer[i].type \in Kind
<1>1. \A i \in 1 .. Len(toServer) : toServer[i] \in Message
  BY DEF Goodbye
<1> QED BY <1>1 DEF Goodbye, Message

LEMMA SendKeepsOrder ==
  ASSUME Goodbye, InOrder, NEW type \in Kind \ {"connection"}, Send(<<type>>),
         socket' = socket, connectedToServer' => connectedToServer
  PROVE  InOrder'
<1> DEFINE Old(i) == i \in 1 .. Len(toServer) /\ toServer'[i] = toServer[i]
           New(i) == i = Len(toServer) + 1 /\ toServer'[i] = [type |-> type, age |-> 0]
<1>1. \A i \in 1 .. Len(toServer') : Old(i) \/ New(i)
  BY SendAddsOne
<1>2. Len(toServer) \in Nat /\ \A i \in 1 .. Len(toServer) : toServer[i].age \in Nat
  BY MessageFields
<1>3. \A i \in 1 .. Len(toServer) : i \in 1 .. Len(toServer') /\ toServer'[i] = toServer[i]
  BY SendKeeps
<1>4. ASSUME NEW i \in 1 .. Len(toServer') PROVE toServer'[i].age \in Nat /\ toServer'[i].age <= MaxDelay
  BY <1>1, <1>2, TimesAssumption DEF InOrder
<1>5. ASSUME NEW i \in 1 .. Len(toServer'), NEW j \in 1 .. Len(toServer'), i <= j
      PROVE  toServer'[j].age <= toServer'[i].age
  <2>1. CASE New(j)
    BY <1>4, <2>1
  <2>2. CASE Old(j)
    <3>1. Old(i)
      BY <1>1, <1>2, <1>5, <2>2
    <3> QED BY <1>5, <2>2, <3>1 DEF InOrder
  <2> QED BY <1>1, <2>1, <2>2
<1>6. ASSUME NEW i \in 1 .. Len(toServer'), toServer'[i].type = "connection" PROVE i = 1 /\ socket' = "none"
  <2>1. Old(i)
    BY <1>1, <1>6
  <2> QED BY <1>6, <2>1 DEF InOrder
<1>7. ASSUME connectedToServer', socket' = "none" PROVE toServer' # <<>> /\ toServer'[1].type = "connection"
  <2>1. toServer # <<>> /\ toServer[1].type = "connection"
    BY <1>7 DEF InOrder
  <2>2. 1 \in 1 .. Len(toServer)
    BY <2>1 DEF Goodbye
  <2>3. 1 \in 1 .. Len(toServer') /\ toServer'[1] = toServer[1]
    BY <1>3, <2>2
  <2>4. toServer' # <<>>
    BY <2>3
  <2> QED BY <2>1, <2>3, <2>4
<1> QED BY <1>4, <1>5, <1>6, <1>7 DEF InOrder

LEMMA TakeKeepsOrder ==
  ASSUME Goodbye, InOrder, Took, socket' = "none" => ~connectedToServer'
  PROVE  InOrder'
<1>1. \A i \in 1 .. Len(toServer') : i + 1 \in 1 .. Len(toServer) /\ toServer'[i] = toServer[i + 1]
  BY TailShifts DEF Took, Goodbye
<1>2. ASSUME NEW i \in 1 .. Len(toServer') PROVE toServer'[i].age <= MaxDelay /\ toServer'[i].type # "connection"
  <2>1. i + 1 # 1
    OBVIOUS
  <2> QED BY <1>1, <2>1 DEF InOrder
<1>3. ASSUME NEW i \in 1 .. Len(toServer'), NEW j \in 1 .. Len(toServer'), i <= j
      PROVE  toServer'[j].age <= toServer'[i].age
  <2>1. i + 1 <= j + 1
    BY <1>3
  <2> QED BY <1>1, <2>1 DEF InOrder
<1> QED BY <1>2, <1>3 DEF InOrder

LEMMA InOrderStep ==
  ASSUME Goodbye, Ends, InOrder, StopInv, [Next]_vars PROVE InOrder'
<1>1. CASE Connect
  <2>1. toServer = <<>> /\ socket = "none" /\ link = "up" /\ socket' = socket
    BY <1>1, ClientLeavesServer DEF Connect, Ends, Main, serverVars, sessionVars
  <2>2. Send(<<"connection">>) /\ "connection" \in Kind
    BY <1>1, Kinds DEF Connect
  <2>3. Len(toServer) = 0 /\ Len(toServer') = 1 /\ toServer'[1] = [type |-> "connection", age |-> 0]
    BY <2>1, <2>2, SendAppends DEF Goodbye
  <2>4. \A i \in 1 .. Len(toServer') : i = 1 /\ toServer'[i].age = 0
    BY <2>3
  <2>5. toServer' # <<>> /\ toServer'[1].type = "connection"
    BY <2>3
  <2> QED BY <2>1, <2>4, <2>5, TimesAssumption DEF InOrder
<1>2. CASE ~Connect /\ (Main \/ HeartbeatThread \/ SendPlayerState \/ Receive \/ InputEnds \/ Killed
                          \/ ConnectionLost \/ UNCHANGED vars)
  <2>1. ClientSteps
    BY <1>2, ClientStepKinds
  <2>2. socket' = socket /\ (connectedToServer' => connectedToServer)
    BY <2>1 DEF ClientSteps, serverVars, sessionVars
  <2>3. CASE toServer' = toServer
    BY <2>2, <2>3 DEF InOrder
  <2>4. CASE \E type \in Kind \ {"connection"} : Send(<<type>>)
    BY <2>2, <2>4, SendKeepsOrder
  <2> QED BY <2>1, <2>3, <2>4 DEF ClientSteps
<1>3. CASE Cut
  <2>1. toServer' = <<>> /\ socket' # "none"
    BY <1>3 DEF Cut, serverVars, sessionVars
  <2> QED BY <2>1 DEF InOrder
<1>4. CASE Server \/ Watchdog \/ ServerStops \/ ConnectionEnds
  <2>1. ServerSteps
    BY <1>4, ServerStepKinds
  <2>2. connectedToServer' = connectedToServer
    BY <1>4, ServerLeavesClient DEF clientVars, mainVars
  <2>3. \/ Took /\ (socket' = "none" => ~connectedToServer')
        \/ toServer' = toServer /\ (socket' = socket \/ (socket # "none" /\ socket' # "none"))
    BY <2>1, <2>2 DEF ServerSteps, Gone, Over, GoesOn, Renewed, Accepted, Idle, Ends
  <2>4. CASE Took /\ (socket' = "none" => ~connectedToServer')
    BY <2>4, TakeKeepsOrder
  <2>5. CASE toServer' = toServer /\ (socket' = socket \/ (socket # "none" /\ socket' # "none"))
    BY <2>2, <2>5 DEF InOrder
  <2> QED BY <2>3, <2>4, <2>5
<1>5. CASE Tick
  <2>1. toServer' = Older(toServer) /\ UNCHANGED <<socket, connectedToServer>>
    BY <1>5 DEF Tick
  <2>2. /\ Len(toServer') = Len(toServer) /\ toServer' \in Seq(Message)
        /\ \A i \in 1 .. Len(toServer) : toServer'[i].type = toServer[i].type /\ toServer'[i].age = toServer[i].age + 1
    BY <2>1, OlderAges, AllOlder DEF Goodbye
  <2>3. Len(toServer) \in Nat /\ \A i \in 1 .. Len(toServer) : toServer[i].age \in Nat
    BY MessageFields
  <2>4. ASSUME NEW i \in 1 .. Len(toServer) PROVE toServer[i].age + 1 <= MaxDelay
    <3>1. toServer # <<>> /\ 1 \in 1 .. Len(toServer) /\ 1 <= i /\ Head(toServer) = toServer[1]
      BY <2>3 DEF Goodbye
    <3>2. toServer[1].age < MaxDelay
      BY <1>5, <3>1 DEF Tick, Quiescent
    <3>3. toServer[i].age <= toServer[1].age
      BY <3>1 DEF InOrder
    <3> QED BY <2>3, <3>1, <3>2, <3>3, TimesAssumption
  <2>5. toServer # <<>> => toServer' # <<>> /\ 1 \in 1 .. Len(toServer)
    BY <2>2, <2>3 DEF Goodbye
  <2>6. \A i \in 1 .. Len(toServer'), j \in 1 .. Len(toServer') : i <= j => toServer'[j].age <= toServer'[i].age
    <3> TAKE i \in 1 .. Len(toServer'), j \in 1 .. Len(toServer')
    <3>1. i <= j => toServer[j].age <= toServer[i].age
      BY <2>2 DEF InOrder
    <3>2. /\ toServer[j].age \in Nat /\ toServer[i].age \in Nat
          /\ toServer'[j].age = toServer[j].age + 1 /\ toServer'[i].age = toServer[i].age + 1
      BY <2>2, <2>3
    <3> QED BY <3>1, <3>2
  <2> QED BY <2>1, <2>2, <2>4, <2>5, <2>6 DEF InOrder
<1> QED BY <1>1, <1>2, <1>3, <1>4, <1>5 DEF Next, Environment

LEMMA UnsaidSays ==
  ASSUME Belief, Unsaid, \E i \in 1 .. Len(toClient') : toClient'[i].type = "fin"
  PROVE  \E i \in 1 .. Len(toClient) : toClient[i].type = "fin"
<1>1. toClient \in Seq(Message) /\ Len(toClient) \in Nat
  BY DEF Belief
<1>2. CASE toClient' = toClient
  BY <1>2
<1>3. ASSUME NEW types \in Seq(Kind \ {"fin"}), toClient' = Add(toClient, types), toClient' # toClient
      PROVE  \E i \in 1 .. Len(toClient) : toClient[i].type = "fin"
  <2>1. types \in Seq(Kind) /\ Len(types) \in Nat /\ \A i \in 1 .. Len(types) : types[i] # "fin"
    OBVIOUS
  <2>2. /\ Len(toClient') = Len(toClient) + Len(types)
        /\ \A i \in 1 .. Len(toClient) : toClient'[i] = toClient[i]
        /\ \A i \in 1 .. Len(types) : toClient'[Len(toClient) + i].type = types[i]
    BY <1>1, <1>3, <2>1, AddAdds
  <2>3. PICK i \in 1 .. Len(toClient') : toClient'[i].type = "fin"
    OBVIOUS
  <2>4. ASSUME i > Len(toClient) PROVE FALSE
    <3>1. i - Len(toClient) \in 1 .. Len(types) /\ Len(toClient) + (i - Len(toClient)) = i
      BY <1>1, <2>1, <2>2, <2>4
    <3>2. toClient'[i].type = types[i - Len(toClient)]
      BY <2>2, <3>1
    <3> QED BY <2>1, <2>3, <3>1, <3>2
  <2>5. i \in 1 .. Len(toClient)
    BY <1>1, <2>4
  <2> QED BY <2>2, <2>3, <2>5
<1> QED BY <1>2, <1>3 DEF Unsaid

LEMMA ClientKeepsEnds ==
  ASSUME Goodbye, Belief, Ends, ClientSteps PROVE Ends'
<1> USE PlaceNames
<1>1. UNCHANGED <<link, session, socket>> /\ (connectedToServer' => connectedToServer) /\ (Over' <=> Over)
  BY DEF ClientSteps, serverVars, sessionVars, Over
<1>2. /\ toClient' \in {toClient, <<>>} \/ (toClient # <<>> /\ toClient' = Tail(toClient))
      /\ toClient \in Seq(Message) /\ Len(toClient) \in Nat
  BY DEF ClientSteps, Belief
<1>3. ASSUME NEW i \in 1 .. Len(toClient'), toClient'[i].type = "fin" PROVE Over
  <2>1. CASE toClient' = toClient
    BY <1>3, <2>1 DEF Ends
  <2>2. CASE toClient' = <<>>
    BY <1>3, <2>2
  <2>3. CASE toClient # <<>> /\ toClient' = Tail(toClient)
    <3>1. Len(toClient') = Len(toClient) - 1 /\ \A k \in 1 .. Len(toClient') : toClient'[k] = toClient[k + 1]
      BY <1>2, <2>3, HeadTailProperties
    <3>2. i + 1 \in 1 .. Len(toClient) /\ toClient[i + 1].type = "fin"
      BY <1>2, <1>3, <3>1
    <3> QED BY <3>2 DEF Ends
  <2> QED BY <1>2, <2>1, <2>2, <2>3
<1>4. toClient # <<>> /\ Head(toClient).type = "fin" => Over
  <2>1. toClient # <<>> => Head(toClient) = toClient[1] /\ 1 \in 1 .. Len(toClient)
    BY <1>2
  <2> QED BY <2>1 DEF Ends
<1>5. connectedToServer' /\ link' = "up" /\ pc' # "exited" => connected' \/ Over
  BY <1>1, <1>4 DEF ClientSteps, Ends
<1>6. \A type : Send(<<type>>) /\ type \in Kind /\ link = "up" => \E i \in 1 .. Len(toServer') : toServer'[i].type = type
  <2> TAKE type
  <2> HAVE Send(<<type>>) /\ type \in Kind /\ link = "up"
  <2>1. toServer \in Seq(Message) /\ Len(toServer) \in Nat
    BY DEF Goodbye
  <2>2. Len(toServer') = Len(toServer) + 1 /\ toServer'[Len(toServer) + 1] = [type |-> type, age |-> 0]
    BY <2>1, SendAppends
  <2>3. Len(toServer) + 1 \in 1 .. Len(toServer') /\ toServer'[Len(toServer) + 1].type = type
    BY <2>1, <2>2
  <2> QED BY <2>3
<1>7. ASSUME connectedToServer', link' = "up", pc' = "exited" PROVE Under("fin")' \/ Over
  <2>1. CASE pc = "exited"
    <3>1. \A i \in 1 .. Len(toServer) : i \in 1 .. Len(toServer') /\ toServer'[i] = toServer[i]
      BY SendKeeps DEF ClientSteps
    <3> QED BY <1>1, <1>7, <2>1, <3>1 DEF Ends, Under
  <2>2. CASE pc # "exited"
    <3>1. Send(<<"fin">>)
      BY <1>1, <1>7, <2>2 DEF ClientSteps, Ends
    <3> QED BY <1>1, <1>6, <1>7, <3>1, Kinds DEF Under
  <2> QED BY <2>1, <2>2
<1>8. pc' \in Place /\ link' \in {"up", "cut"}
  BY <1>1 DEF ClientSteps, Ends
<1>9. pc' \in {"initializing", "connecting"} => socket' = "none" /\ toServer' = <<>> /\ ~connectedToServer'
  BY <1>1 DEF ClientSteps, Ends
<1>10. socket' = "none" => link' = "up" /\ toClient' = <<>>
  BY <1>1, <1>2 DEF Ends
<1>11. session' = "registered" => socket' = "open"
  BY <1>1 DEF Ends
<1> QED BY <1>1, <1>3, <1>5, <1>7, <1>8, <1>9, <1>10, <1>11 DEF Ends

LEMMA ServerKeepsEnds ==
  ASSUME Goodbye, Belief, Ends, ServerSteps, UNCHANGED <<clientVars, link>> PROVE Ends'
<1>1. UNCHANGED <<pc, connectedToServer, connected, link>>
  BY DEF clientVars, mainVars
<1>2. CASE Gone
  <2>1. Over'
    BY <1>2 DEF Gone
  <2>2. session' # "registered" /\ socket' # "none"
    BY <2>1 DEF Over
  <2>3. pc \notin {"initializing", "connecting"}
    <3>1. ASSUME pc \in {"initializing", "connecting"} PROVE FALSE
      <4>1. socket = "none" /\ toServer = <<>>
        BY <3>1 DEF Ends
      <4> QED BY <1>2, <4>1 DEF Gone, Took
    <3> QED BY <3>1
  <2> QED BY <1>1, <2>1, <2>2, <2>3 DEF Ends
<1>3. CASE GoesOn \/ Renewed
  <2>1. /\ UNCHANGED <<session, socket>> /\ session = "registered" /\ socket = "open" /\ ~Over
        /\ Took /\ Head(toServer).type # "fin" /\ Unsaid
    BY <1>3 DEF GoesOn, Renewed, Over, Ends
  <2>2. ~ \E i \in 1 .. Len(toClient') : toClient'[i].type = "fin"
    BY <2>1, UnsaidSays DEF Ends
  <2>3. ASSUME Under("fin") PROVE Under("fin")'
    <3>1. PICK i \in 1 .. Len(toServer) : toServer[i].type = "fin"
      BY <2>3 DEF Under
    <3>2. /\ Head(toServer) = toServer[1]
          /\ i # 1 => i - 1 \in 1 .. Len(toServer') /\ toServer'[i - 1] = toServer[i]
      BY <2>1, TailShifts DEF Took, Goodbye
    <3> QED BY <2>1, <3>1, <3>2 DEF Under
  <2>4. /\ connectedToServer /\ link = "up" /\ pc # "exited" => connected
        /\ connectedToServer /\ link = "up" /\ pc = "exited" => Under("fin")
        /\ pc \in Place /\ link \in {"up", "cut"} /\ pc \notin {"initializing", "connecting"}
    BY <2>1 DEF Ends
  <2> QED BY <1>1, <2>1, <2>2, <2>3, <2>4 DEF Ends
<1>4. CASE Accepted
  <2>1. /\ socket = "none" /\ ~Over /\ toClient' = <<>> /\ link = "up"
        /\ session' = "registered" /\ socket' = "open" /\ Took /\ Head(toServer).type = "connection"
    BY <1>4 DEF Accepted, Over, Ends
  <2>2. pc \notin {"initializing", "connecting"}
    BY <2>1 DEF Took, Ends
  <2>3. ASSUME Under("fin") PROVE Under("fin")'
    <3>1. PICK i \in 1 .. Len(toServer) : toServer[i].type = "fin"
      BY <2>3 DEF Under
    <3>2. /\ Head(toServer) = toServer[1]
          /\ i # 1 => i - 1 \in 1 .. Len(toServer') /\ toServer'[i - 1] = toServer[i]
      BY <2>1, TailShifts DEF Took, Goodbye
    <3> QED BY <2>1, <3>1, <3>2 DEF Under
  <2>4. /\ connectedToServer /\ link = "up" /\ pc # "exited" => connected
        /\ connectedToServer /\ link = "up" /\ pc = "exited" => Under("fin")
        /\ pc \in Place /\ link \in {"up", "cut"}
    BY <2>1 DEF Ends
  <2> QED BY <1>1, <2>1, <2>2, <2>3, <2>4 DEF Ends
<1>5. CASE Idle
  <2>1. UNCHANGED <<session, socket, toClient>> /\ (Over' <=> Over)
    BY <1>5 DEF Idle, Over
  <2>2. CASE toServer' = toServer
    BY <1>1, <2>1, <2>2 DEF Ends, Under
  <2>3. CASE Took /\ ~connectedToServer
    <3>1. pc \notin {"initializing", "connecting"}
      BY <2>3 DEF Took, Ends
    <3> QED BY <1>1, <2>1, <2>3, <3>1 DEF Ends
  <2> QED BY <1>5, <2>2, <2>3 DEF Idle
<1> QED BY <1>2, <1>3, <1>4, <1>5 DEF ServerSteps

LEMMA EndsStep ==
  ASSUME StopInv, Goodbye, Belief, InOrder, Ends, [Next]_vars PROVE Ends'
<1>1. CASE Connect
  <2>1. UNCHANGED <<session, socket>>
    BY <1>1, ClientLeavesServer DEF Main, serverVars, sessionVars
  <2>2. /\ pc' = "hello" /\ connected' = TRUE /\ UNCHANGED <<link, toClient>>
        /\ socket = "none" /\ toClient = <<>> /\ session # "registered"
    BY <1>1 DEF Connect, Ends
  <2> QED BY <2>1, <2>2, PlaceNames DEF Ends
<1>2. CASE ~Connect /\ (Main \/ HeartbeatThread \/ SendPlayerState \/ Receive \/ InputEnds \/ Killed
                          \/ ConnectionLost \/ UNCHANGED vars)
  BY <1>2, ClientStepKinds, ClientKeepsEnds
<1>3. CASE Cut
  <2>1. /\ link' = "cut" /\ toServer' = <<>> /\ toClient' = <<>> /\ socket # "none"
        /\ UNCHANGED <<session, socket, pc, connectedToServer>>
    BY <1>3 DEF Cut, clientVars, mainVars, serverVars, sessionVars
  <2> QED BY <2>1 DEF Ends
<1>4. CASE Server \/ Watchdog \/ ServerStops \/ ConnectionEnds
  BY <1>4, ServerStepKinds, ServerLeavesClient, ServerKeepsEnds
<1>5. CASE Tick
  <2>1. /\ toServer' = Older(toServer) /\ toClient' = Older(toClient)
        /\ UNCHANGED <<pc, connectedToServer, connected, link, session, socket>>
    BY <1>5 DEF Tick
  <2>2. /\ toServer \in Seq(Message) /\ toClient \in Seq(Message)
        /\ toServer' \in Seq(Message) /\ toClient' \in Seq(Message)
        /\ Len(toServer') = Len(toServer) /\ Len(toClient') = Len(toClient)
        /\ \A i \in 1 .. Len(toServer) : toServer'[i].type = toServer[i].type
        /\ \A i \in 1 .. Len(toClient) : toClient'[i].type = toClient[i].type
    BY <2>1, OlderAges DEF Goodbye, Belief
  <2>3. (toServer = <<>> => toServer' = <<>>) /\ (toClient = <<>> => toClient' = <<>>)
    BY <2>2
  <2> QED BY <2>1, <2>2, <2>3 DEF Ends, Under, Over
<1> QED BY <1>1, <1>2, <1>3, <1>4, <1>5 DEF Next, Environment

Beginning == Early \cup {"initializing", "connecting"}

LEMMA NoBeatSent ==
  ASSUME Goodbye, ~Under("heartbeat"),
         toServer' = toServer \/ \E type \in Kind \ {"heartbeat"} : Send(<<type>>)
  PROVE  ~Under("heartbeat")'
<1>1. CASE toServer' = toServer
  BY <1>1 DEF Under
<1>2. ASSUME NEW type \in Kind \ {"heartbeat"}, Send(<<type>>) PROVE ~Under("heartbeat")'
  <2>1. ASSUME NEW i \in 1 .. Len(toServer') PROVE toServer'[i].type # "heartbeat"
    <3>1. \/ i \in 1 .. Len(toServer) /\ toServer'[i] = toServer[i]
          \/ toServer'[i] = [type |-> type, age |-> 0]
      BY <1>2, SendAddsOne
    <3> QED BY <3>1 DEF Under
  <2> QED BY <2>1 DEF Under
<1> QED BY <1>1, <1>2

LEMMA BeatsStep ==
  ASSUME StopInv, Goodbye, InOrder, Ends, Beats, [Next]_vars PROVE Beats'
<1> USE PlaceNames, RequestNames, Kinds, TimesAreNat DEF threadVars, clocks, mainVars, serverVars, sessionVars
<1>1. ASSUME UNCHANGED <<heartbeat, beatTimer, beaten, preparing>>,
             pc' \in Beginning => pc \in Beginning,
             pc' = "ready" /\ connectedToServer' => pc = "ready" /\ connectedToServer,
             toServer' = toServer \/ (\E type \in Kind \ {"heartbeat"} : Send(<<type>>)) \/ pc' \notin Beginning
      PROVE  Beats'
  <2>1. CASE pc' \in Beginning
    BY <1>1, <2>1, NoBeatSent DEF Beats, Beginning
  <2>2. CASE pc' \notin Beginning
    BY <1>1, <2>2 DEF Beats, Beginning
  <2> QED BY <2>1, <2>2
<1>2. ASSUME NEW r \in Request, Ask(r) \/ Answered(r) \/ TimesOut(r) PROVE Beats'
  <2>1. /\ pc \in Request /\ pc' \in Request \cup {"downloading", "loaded"}
        /\ UNCHANGED <<heartbeat, beatTimer, beaten, preparing>>
    BY <1>2, RequestSteps, ClientLeavesServer DEF Main
  <2>2. toServer' = toServer \/ Send(<<r>>)
    BY <1>2 DEF Ask, Answered, TimesOut
  <2> QED BY <1>1, <2>1, <2>2 DEF Beginning, Early
<1>3. CASE Initialize \/ ConnectFails \/ FinishDownload
  BY <1>1, <1>3 DEF Initialize, ConnectFails, FinishDownload, Beginning, Early
<1>4. CASE Connect
  <2>1. Send(<<"connection">>) /\ pc' = "hello" /\ UNCHANGED <<heartbeat, beatTimer, beaten, preparing>> /\ pc = "connecting"
    BY <1>4 DEF Connect
  <2> QED BY <1>1, <2>1 DEF Beginning, Early
<1>5. CASE BecomeReady
  BY <1>5 DEF BecomeReady, Beats, Early
<1>6. CASE JoinHeartbeat \/ JoinReplication \/ InputEnds
  BY <1>1, <1>6 DEF JoinHeartbeat, JoinReplication, InputEnds, Goto, Beginning, Early
<1>7. CASE SendDisconnect \/ Disconnect
  <2>1. pc' \in {"closing", "exited"} /\ UNCHANGED <<heartbeat, beatTimer, beaten, preparing>>
    BY <1>7 DEF SendDisconnect, Disconnect, Goto
  <2> QED BY <1>1, <2>1 DEF Beginning, Early
<1>8. CASE Killed
  BY <1>8 DEF Killed, Beats, Early
<1>9. CASE Beat
  <2>1. pc = "ready" /\ pc' = pc /\ UNCHANGED <<beaten, preparing>>
        /\ heartbeat = "sleeping" /\ (heartbeat' = "waiting" \/ (heartbeat' = heartbeat /\ beatTimer' = HeartbeatEvery))
    BY <1>9 DEF Beat, ShouldStop, StopInv
  <2> QED BY <2>1 DEF Beats, Early
<1>10. CASE BeatDone
  <2>1. pc \in {"ready", "stopping"} /\ pc' = pc /\ UNCHANGED <<beaten, preparing>>
        /\ heartbeat' = "sleeping" /\ beatTimer' = HeartbeatEvery
    BY <1>10 DEF BeatDone, StopInv
  <2> QED BY <2>1 DEF Beats, Early
<1>11. CASE BeatStops
  <2>1. pc = "stopping" /\ pc' = pc /\ UNCHANGED <<beaten, preparing>> /\ heartbeat' = "none"
    BY <1>11 DEF BeatStops, ShouldStop
  <2> QED BY <2>1 DEF Beats, Early
<1>12. CASE SendPlayerState
  <2>1. Send(<<"player_state">>) /\ UNCHANGED <<clientVars, beaten, preparing>>
    BY <1>12 DEF SendPlayerState
  <2> QED BY <1>1, <2>1 DEF clientVars
<1>13. CASE Receive \/ ConnectionLost \/ UNCHANGED vars
  BY <1>1, <1>13 DEF Receive, ConnectionLost, vars, clientVars
<1>14. CASE Cut
  <2>1. toServer' = <<>> /\ UNCHANGED <<pc, connectedToServer, heartbeat, beatTimer, beaten, preparing>>
    BY <1>14 DEF Cut, clientVars
  <2> QED BY <2>1 DEF Beats, Under
<1>15. CASE Server \/ Watchdog \/ ServerStops \/ ConnectionEnds
  <2>1. ServerSteps /\ UNCHANGED <<pc, connectedToServer, heartbeat, beatTimer, preparing>>
    BY <1>15, ServerStepKinds, ServerLeavesClient DEF clientVars
  <2>2. toServer' = toServer \/ Took
    BY <2>1 DEF ServerSteps, Gone, GoesOn, Renewed, Accepted, Idle
  <2>3. ASSUME ~Under("heartbeat") PROVE ~Under("heartbeat")' /\ (Took => Head(toServer).type # "heartbeat")
    <3>1. CASE toServer' = toServer /\ ~Took
      BY <2>3, <3>1 DEF Under
    <3>2. CASE Took
      <4>1. /\ Head(toServer) = toServer[1] /\ 1 \in 1 .. Len(toServer)
            /\ \A i \in 1 .. Len(toServer') : i + 1 \in 1 .. Len(toServer) /\ toServer'[i] = toServer[i + 1]
        BY <3>2, TailShifts DEF Took, Goodbye
      <4> QED BY <2>3, <4>1 DEF Under
    <3> QED BY <2>2, <3>1, <3>2
  <2>4. (beaten' => beaten) \/ (Took /\ Head(toServer).type = "heartbeat")
    BY <2>1 DEF ServerSteps, Gone, GoesOn, Renewed, Accepted, Idle
  <2> QED BY <2>1, <2>3, <2>4 DEF Beats
<1>16. CASE Tick
  <2>1. /\ toServer' = Older(toServer) /\ beatTimer' = Less(beatTimer)
        /\ UNCHANGED <<pc, connectedToServer, heartbeat, beaten>>
        /\ preparing' \in {preparing, More(preparing, Grace + 1)}
    BY <1>16 DEF Tick
  <2>2. /\ Len(toServer') = Len(toServer)
        /\ \A i \in 1 .. Len(toServer) : toServer'[i].type = toServer[i].type
    BY <2>1, OlderAges DEF Goodbye
  <2>3. preparing' \in Nat /\ (beatTimer <= HeartbeatEvery => beatTimer' <= HeartbeatEvery)
    BY <2>1, TimesAssumption DEF Beats, More, Less, StopInv, Grace
  <2> QED BY <2>1, <2>2, <2>3 DEF Beats, Under
<1> QED
  BY <1>2, <1>3, <1>4, <1>5, <1>6, <1>7, <1>8, <1>9, <1>10, <1>11, <1>12, <1>13, <1>14, <1>15, <1>16
  DEF Next, Main, HeartbeatThread, Environment

\* A session that has just been heard of is safe.
LEMMA HeardOfNow ==
  StopInv /\ Goodbye /\ InOrder /\ Ends /\ Beats /\ quiet = 0 => OnTime
<1> USE TimesAssumption, TimesAreNat, PlaceNames, RequestNames
<1> SUFFICES ASSUME StopInv, Goodbye, InOrder, Ends, Beats, quiet = 0, session = "registered", ~Excused PROVE OnTime
  BY DEF OnTime
<1>1. link = "up" /\ connectedToServer /\ ~Over /\ pc \in Place
  BY DEF Excused, Over, Ends
<1>2. CASE heartbeat = "sleeping"
  BY <1>2 DEF OnTime, Beats, StopInv
<1>3. CASE heartbeat = "waiting"
  BY <1>3 DEF OnTime, StopInv
<1>4. CASE heartbeat = "none"
  <2>1. CASE pc \in Early
    BY <2>1 DEF OnTime, Beats
  <2>2. CASE pc \in Closing
    BY <1>4, <2>2 DEF OnTime
  <2>3. CASE pc = "exited"
    <3>1. PICK i \in 1 .. Len(toServer) : toServer[i].type = "fin"
      BY <1>1, <2>3 DEF Ends, Under
    <3>2. toServer[i].age \in Nat
      BY MessageFields
    <3>3. quiet + MaxDelay <= DroppedAfter + toServer[i].age
      BY <3>2
    <3>4. Coming
      BY <3>1, <3>3 DEF Coming
    <3> QED BY <3>4 DEF OnTime
  <2>4. pc \notin {"initializing", "connecting", "ready"}
    BY <1>1, <1>4 DEF Ends, Beats
  <2> QED BY <1>1, <2>1, <2>2, <2>3, <2>4 DEF Early, Closing
<1> QED BY <1>2, <1>3, <1>4 DEF StopInv

LEMMA HeardOfNext ==
  (StopInv /\ Goodbye /\ InOrder /\ Ends /\ Beats /\ quiet = 0 => OnTime)'
BY HeardOfNow, PTL

\* A message sent now, if none that counts is under way, arrives in time.
LEMMA SoonEnough ==
  ASSUME StopInv, Beats, OnTime, session = "registered", ~Excused, quiet \in Nat
  PROVE  Coming \/ quiet + MaxDelay <= DroppedAfter
<1> USE TimesAssumption, TimesAreNat
<1>1. CASE pc \in Early /\ quiet <= preparing
  BY <1>1 DEF Beats, Excused, Grace
<1>2. CASE heartbeat = "sleeping" /\ quiet + beatTimer + MaxDelay <= DroppedAfter
  BY <1>2 DEF StopInv
<1>3. CASE heartbeat = "waiting" /\ quiet + beatTimer + HeartbeatEvery + MaxDelay <= DroppedAfter
  BY <1>3 DEF StopInv
<1> QED BY <1>1, <1>2, <1>3 DEF OnTime

LEMMA StaysComing ==
  ASSUME Goodbye, Coming, quiet' = quiet, toServer' = toServer \/ \E type \in Kind : Send(<<type>>)
  PROVE  Coming'
<1>1. PICK i \in 1 .. Len(toServer) :
        toServer[i].type \in {"heartbeat", "fin"} /\ quiet + MaxDelay <= DroppedAfter + toServer[i].age
  BY DEF Coming
<1>2. i \in 1 .. Len(toServer') /\ toServer'[i] = toServer[i]
  BY SendKeeps
<1> QED BY <1>1, <1>2 DEF Coming

LEMMA SentIsComing ==
  ASSUME Goodbye, NEW type \in {"heartbeat", "fin"}, Send(<<type>>), link = "up",
         quiet' = quiet, quiet \in Nat, Coming \/ quiet + MaxDelay <= DroppedAfter
  PROVE  Coming'
<1>1. type \in Kind
  BY Kinds
<1>2. CASE Coming
  BY <1>1, <1>2, StaysComing
<1>3. CASE quiet + MaxDelay <= DroppedAfter
  <2>1. toServer \in Seq(Message) /\ Len(toServer) \in Nat
    BY DEF Goodbye
  <2>2. Len(toServer') = Len(toServer) + 1 /\ toServer'[Len(toServer) + 1] = [type |-> type, age |-> 0]
    BY <1>1, <2>1, SendAppends
  <2>3. Len(toServer) + 1 \in 1 .. Len(toServer') /\ toServer'[Len(toServer) + 1].type = type
        /\ toServer'[Len(toServer) + 1].age = 0
    BY <2>1, <2>2
  <2>4. quiet' + MaxDelay <= DroppedAfter + 0
    BY <1>3, TimesAssumption, TimesAreNat
  <2> QED BY <2>3, <2>4 DEF Coming
<1> QED BY <1>2, <1>3

LEMMA ClientKeepsOnTime ==
  ASSUME Known, InOrder, Ends, Beats, OnTime, ~Connect,
         Main \/ HeartbeatThread \/ SendPlayerState \/ Receive \/ InputEnds \/ Killed
           \/ ConnectionLost \/ UNCHANGED vars
  PROVE  OnTime'
<1> USE TimesAssumption, TimesAreNat, PlaceNames, RequestNames DEF threadVars, clocks, mainVars
<1>1. StopInv /\ Goodbye /\ quiet \in Nat
  BY DEF Known, SilenceInv
<1>2. ClientSteps
  BY <1>1, ClientStepKinds
<1>3. /\ UNCHANGED <<link, session, socket, quiet, beaten, preparing>>
      /\ connectedToServer' => connectedToServer
      /\ toServer' = toServer \/ \E type \in Kind : Send(<<type>>)
  BY <1>2 DEF ClientSteps, serverVars, sessionVars
<1>4. SUFFICES ASSUME session' = "registered", ~Excused' PROVE OnTime'
  BY DEF OnTime
<1>5. /\ session = "registered" /\ socket = "open" /\ link = "up" /\ connectedToServer' /\ connectedToServer
      /\ ~Excused /\ ~Over
  BY <1>3, <1>4 DEF Excused, Ends, Over
<1>6. Coming \/ quiet + MaxDelay <= DroppedAfter
  BY <1>1, <1>5, SoonEnough
<1>7. CASE Coming
  BY <1>1, <1>3, <1>7, StaysComing DEF OnTime
<1>8. ASSUME Send(<<"fin">>) PROVE OnTime'
  BY <1>1, <1>3, <1>5, <1>6, <1>8, SentIsComing DEF OnTime
<1>9. ASSUME UNCHANGED <<heartbeat, beatTimer>>, pc \in Early => pc' \in Early, pc \in Closing => pc' \in Closing
      PROVE  OnTime'
  BY <1>3, <1>5, <1>7, <1>9 DEF OnTime
<1>10. ASSUME NEW r \in Request, Ask(r) \/ Answered(r) \/ TimesOut(r) PROVE OnTime'
  <2>1. /\ pc \in Request /\ pc' \in Request \cup {"downloading", "loaded"}
        /\ UNCHANGED <<heartbeat, beatTimer>>
    BY <1>10, RequestSteps
  <2> QED BY <1>9, <2>1 DEF Early, Closing
<1>11. CASE Initialize \/ ConnectFails \/ FinishDownload \/ JoinHeartbeat \/ JoinReplication \/ SendDisconnect
             \/ InputEnds
  BY <1>9, <1>11 DEF Initialize, ConnectFails, FinishDownload, JoinHeartbeat, JoinReplication, SendDisconnect,
     InputEnds, Goto, Early, Closing
<1>12. CASE SendPlayerState \/ Receive \/ ConnectionLost \/ UNCHANGED vars
  BY <1>9, <1>12 DEF SendPlayerState, Receive, ConnectionLost, vars, clientVars
<1>13. CASE Disconnect \/ Killed
  BY <1>8, <1>13 DEF Disconnect, Killed
<1>14. CASE BecomeReady
  <2>1. pc = "loaded" /\ heartbeat = "none" /\ heartbeat' = "sleeping" /\ beatTimer' = HeartbeatEvery
    BY <1>1, <1>5, <1>14 DEF BecomeReady, StopInv
  <2>2. CASE quiet <= preparing
    <3>1. preparing \in Nat /\ preparing <= Grace
      BY <1>5, <2>1 DEF Beats, Excused, Early, Grace
    <3>2. quiet' + beatTimer' + MaxDelay <= DroppedAfter
      BY <1>1, <1>3, <2>1, <2>2, <3>1 DEF Grace
    <3> QED BY <2>1, <3>2 DEF OnTime
  <2> QED BY <1>5, <1>7, <2>1, <2>2 DEF OnTime, Closing
<1>15. CASE Beat
  <2>1. connected
    BY <1>1, <1>5, <1>15 DEF Beat, StopInv, Ends
  <2>2. Send(<<"heartbeat">>)
    BY <1>15, <2>1 DEF Beat
  <2> QED BY <1>1, <1>3, <1>5, <1>6, <2>2, SentIsComing DEF OnTime
<1>16. CASE BeatDone
  <2>1. heartbeat = "waiting" /\ heartbeat' = "sleeping" /\ beatTimer' = HeartbeatEvery /\ pc \in {"ready", "stopping"}
    BY <1>1, <1>16 DEF BeatDone, StopInv
  <2>2. CASE quiet + beatTimer + HeartbeatEvery + MaxDelay <= DroppedAfter
    <3>1. quiet' + beatTimer' + MaxDelay <= DroppedAfter
      BY <1>1, <1>3, <2>1, <2>2 DEF StopInv
    <3> QED BY <2>1, <3>1 DEF OnTime
  <2> QED BY <1>5, <1>7, <2>1, <2>2 DEF OnTime, Early
<1>17. CASE BeatStops
  <2>1. heartbeat = "sleeping" /\ heartbeat' = "none" /\ pc = "stopping" /\ pc' = pc
    BY <1>17 DEF BeatStops, ShouldStop
  <2>2. CASE quiet + beatTimer + MaxDelay <= DroppedAfter
    <3>1. quiet' + MaxDelay <= DroppedAfter
      BY <1>1, <1>3, <2>2 DEF StopInv
    <3> QED BY <2>1, <3>1 DEF OnTime, Closing
  <2> QED BY <1>5, <1>7, <2>1, <2>2 DEF OnTime, Early
<1> QED
  BY <1>10, <1>11, <1>12, <1>13, <1>14, <1>15, <1>16, <1>17 DEF Main, HeartbeatThread

LEMMA ServerKeepsOnTime ==
  ASSUME Known, InOrder, Ends, Beats, OnTime, StopInv', Goodbye', InOrder', Ends', Beats',
         Server \/ Watchdog \/ ServerStops \/ ConnectionEnds
  PROVE  OnTime'
<1>1. ServerSteps
  BY ServerStepKinds DEF Known
<1>2. UNCHANGED <<pc, connectedToServer, heartbeat, beatTimer, link, preparing>>
  BY ServerLeavesClient DEF clientVars, mainVars, threadVars, clocks
<1>3. CASE Gone
  BY <1>3 DEF Gone, Over, OnTime
<1>4. CASE Renewed \/ Accepted
  <2>1. quiet' = 0
    BY <1>4 DEF Renewed, Accepted, Known, SilenceInv, Ends
  <2> QED BY <2>1, HeardOfNext
<1>5. CASE GoesOn
  <2>1. UNCHANGED <<session, beaten, quiet>> /\ Took /\ Head(toServer).type \notin {"heartbeat", "fin"}
    BY <1>5 DEF GoesOn
  <2>2. ASSUME Coming PROVE Coming'
    <3>1. PICK i \in 1 .. Len(toServer) :
            toServer[i].type \in {"heartbeat", "fin"} /\ quiet + MaxDelay <= DroppedAfter + toServer[i].age
      BY <2>2 DEF Coming
    <3>2. /\ Head(toServer) = toServer[1]
          /\ i # 1 => i - 1 \in 1 .. Len(toServer') /\ toServer'[i - 1] = toServer[i]
      BY <2>1, TailShifts DEF Took, Known, Goodbye
    <3>3. i - 1 \in 1 .. Len(toServer') /\ toServer'[i - 1] = toServer[i]
      BY <2>1, <3>1, <3>2
    <3> QED BY <2>1, <3>1, <3>3 DEF Coming
  <2> QED BY <1>2, <2>1, <2>2 DEF OnTime, Excused
<1>6. CASE Idle
  <2>1. UNCHANGED <<session, beaten, quiet>> /\ (toServer' = toServer \/ ~connectedToServer)
    BY <1>6 DEF Idle
  <2> QED BY <1>2, <2>1 DEF OnTime, Excused, Coming
<1> QED BY <1>1, <1>3, <1>4, <1>5, <1>6 DEF ServerSteps

LEMMA TickKeepsExcused ==
  ASSUME Beats, Tick
  PROVE  /\ UNCHANGED <<link, connectedToServer, beaten, pc, heartbeat, session, socket, reason>>
         /\ preparing' \in {preparing, preparing + 1} /\ (Excused => Excused')
<1>1. /\ UNCHANGED <<link, connectedToServer, beaten, pc, heartbeat, session, socket, reason>>
      /\ preparing' \in {preparing, More(preparing, Grace + 1)}
  BY DEF Tick
<1> QED BY <1>1, TimesAssumption, TimesAreNat DEF Beats, More, Excused, Grace

\* What has been waited for is no longer to be waited for.
LEMMA WaitMoves ==
  ASSUME NEW silent \in Nat, NEW left \in Nat, NEW silentNow \in {silent, silent + 1}, NEW leftNow \in Nat,
         leftNow + 1 = left, NEW rest \in Nat, silent + left + rest <= DroppedAfter
  PROVE  silentNow + leftNow + rest <= DroppedAfter
BY TimesAreNat

LEMMA TickKeepsOnTime ==
  ASSUME Known, InOrder, Ends, Beats, OnTime, Tick PROVE OnTime'
<1> USE TimesAssumption, TimesAreNat, PlaceNames, RequestNames
<1>1. StopInv /\ Goodbye /\ quiet \in Nat
  BY DEF Known, SilenceInv
<1>2. UNCHANGED <<link, connectedToServer, beaten, pc, heartbeat, session>> /\ (Excused => Excused')
  BY TickKeepsExcused
<1>3. SUFFICES ASSUME session' = "registered", ~Excused' PROVE OnTime'
  BY DEF OnTime
<1>4. session = "registered" /\ ~Excused /\ connectedToServer
  BY <1>2, <1>3 DEF Excused
<1>5. quiet' \in {quiet, quiet + 1} /\ beatTimer' = Less(beatTimer)
  BY <1>4 DEF Tick, More
<1>6. CASE Coming
  <2>1. PICK i \in 1 .. Len(toServer) :
          toServer[i].type \in {"heartbeat", "fin"} /\ quiet + MaxDelay <= DroppedAfter + toServer[i].age
    BY <1>6 DEF Coming
  <2>2. /\ i \in 1 .. Len(toServer') /\ toServer'[i].type = toServer[i].type
        /\ toServer'[i].age = toServer[i].age + 1
    BY <1>1, OlderAges, AllOlder DEF Goodbye, Tick
  <2>3. toServer[i].age \in Nat
    BY <1>1, MessageFields
  <2>4. quiet' + MaxDelay <= DroppedAfter + toServer'[i].age
    BY <1>1, <1>5, <2>1, <2>2, <2>3
  <2>5. Coming'
    BY <2>1, <2>2, <2>4 DEF Coming
  <2> QED BY <2>5 DEF OnTime
<1>7. CASE pc \in Early /\ quiet <= preparing
  <2>1. pc \in Request \cup {"downloading"}
    BY <1>7 DEF Tick, Quiescent, Early
  <2>2. preparing \in Nat /\ preparing <= Grace
    <3>1. Grace \in Int /\ ~beaten /\ preparing \in Nat
      BY <1>7 DEF Beats, Grace
    <3> QED BY <1>4, <3>1 DEF Excused
  <2>3. preparing' = More(preparing, Grace + 1)
    BY <1>4, <2>1 DEF Tick
  <2>4. preparing' = preparing + 1
    BY <2>2, <2>3 DEF More, Grace
  <2>5. quiet' <= preparing'
    BY <1>1, <1>5, <1>7, <2>2, <2>4
  <2> QED BY <1>2, <1>7, <2>5 DEF OnTime
<1>8. heartbeat \in {"sleeping", "waiting"} => beatTimer' \in Nat /\ beatTimer' + 1 = beatTimer
  <2>1. heartbeat \in {"sleeping", "waiting"} => beatTimer \in Nat /\ beatTimer > 0
    BY <1>1 DEF Tick, Quiescent, StopInv
  <2> QED BY <1>5, <2>1 DEF Less
<1>9. CASE heartbeat = "sleeping" /\ quiet + beatTimer + MaxDelay <= DroppedAfter
  <2>1. quiet' + beatTimer' + MaxDelay <= DroppedAfter
    BY <1>1, <1>5, <1>8, <1>9, WaitMoves DEF StopInv
  <2> QED BY <1>2, <1>9, <2>1 DEF OnTime
<1>10. CASE heartbeat = "waiting" /\ quiet + beatTimer + HeartbeatEvery + MaxDelay <= DroppedAfter
  <2>1. /\ HeartbeatEvery + MaxDelay \in Nat
        /\ quiet + beatTimer + (HeartbeatEvery + MaxDelay) <= DroppedAfter
    BY <1>1, <1>10 DEF StopInv
  <2>2. quiet' + beatTimer' + (HeartbeatEvery + MaxDelay) <= DroppedAfter
    BY <1>1, <1>5, <1>8, <1>10, <2>1, WaitMoves DEF StopInv
  <2>3. quiet' + beatTimer' + HeartbeatEvery + MaxDelay <= DroppedAfter
    BY <1>1, <1>5, <1>8, <1>10, <2>2
  <2> QED BY <1>2, <1>10, <2>3 DEF OnTime
<1>11. CASE pc \in Closing /\ heartbeat = "none"
  BY <1>11 DEF Tick, Quiescent, Closing
<1> QED BY <1>4, <1>6, <1>7, <1>9, <1>10, <1>11 DEF OnTime

LEMMA OnTimeStep ==
  ASSUME Known, InOrder, Ends, Beats, OnTime, StopInv', Goodbye', InOrder', Ends', Beats', [Next]_vars
  PROVE  OnTime'
<1>1. CASE Connect
  <2>1. socket = "none" /\ session # "registered" /\ session' = session
    BY <1>1, ClientLeavesServer DEF Connect, Ends, Main, serverVars, sessionVars
  <2> QED BY <2>1 DEF OnTime
<1>2. CASE ~Connect /\ (Main \/ HeartbeatThread \/ SendPlayerState \/ Receive \/ InputEnds \/ Killed
                          \/ ConnectionLost \/ UNCHANGED vars)
  BY <1>2, ClientKeepsOnTime
<1>3. CASE Cut
  <2>1. Excused'
    BY <1>3 DEF Cut, Excused
  <2> QED BY <2>1 DEF OnTime
<1>4. CASE Server \/ Watchdog \/ ServerStops \/ ConnectionEnds
  BY <1>4, ServerKeepsOnTime
<1>5. CASE Tick
  BY <1>5, TickKeepsOnTime
<1> QED BY <1>1, <1>2, <1>3, <1>4, <1>5 DEF Next, Environment

\* A session that is on time has not expired.
LEMMA OnTimeIsNotExpired ==
  ASSUME Known, InOrder, Beats, OnTime, session = "registered", quiet > DroppedAfter
  PROVE  Excused
<1> USE TimesAssumption, TimesAreNat
<1> SUFFICES ASSUME ~Excused PROVE FALSE
  OBVIOUS
<1>1. StopInv /\ Goodbye /\ quiet \in Nat
  BY DEF Known, SilenceInv
<1>2. Coming
  BY <1>1, SoonEnough
<1>3. PICK i \in 1 .. Len(toServer) : quiet + MaxDelay <= DroppedAfter + toServer[i].age
  BY <1>2 DEF Coming
<1>4. toServer[i].age \in Nat /\ toServer[i].age <= MaxDelay
  BY <1>1, MessageFields DEF InOrder
<1> QED BY <1>1, <1>3, <1>4

LEMMA TimedOutStep ==
  ASSUME Known, InOrder, Ends, Beats, OnTime, TimedOut, [Next]_vars PROVE TimedOut'
<1> USE DEF serverVars, sessionVars
<1>1. CASE Connect
  <2>1. ~Over /\ reason' = reason
    BY <1>1, ClientLeavesServer DEF Connect, Ends, Over, Main
  <2> QED BY <2>1 DEF TimedOut
<1>2. CASE ~Connect /\ (Main \/ HeartbeatThread \/ SendPlayerState \/ Receive \/ InputEnds \/ Killed
                          \/ ConnectionLost \/ UNCHANGED vars)
  <2>1. ClientSteps
    BY <1>2, ClientStepKinds DEF Known
  <2> QED BY <2>1 DEF ClientSteps, clocks, TimedOut, Over, Excused
<1>3. CASE Cut
  BY <1>3 DEF Cut, TimedOut, Over, Excused
<1>4. CASE Server \/ Watchdog \/ ServerStops \/ ConnectionEnds
  <2>1. ServerSteps
    BY <1>4, ServerStepKinds DEF Known
  <2>2. UNCHANGED <<connectedToServer, link, preparing>>
    BY <1>4, ServerLeavesClient DEF clientVars, mainVars, clocks
  <2>3. CASE Gone
    <3>1. Over' /\ (beaten' => beaten)
      BY <2>3 DEF Gone
    <3>2. reason' = "heartbeat timeout" => Excused
      BY <2>3, OnTimeIsNotExpired DEF Gone, TimedOut
    <3> QED BY <2>2, <3>1, <3>2 DEF TimedOut, Excused
  <2>4. CASE GoesOn \/ Renewed \/ Accepted
    BY <2>4 DEF GoesOn, Renewed, Accepted, TimedOut, Over
  <2>5. CASE Idle
    BY <2>2, <2>5 DEF Idle, TimedOut, Over, Excused
  <2> QED BY <2>1, <2>3, <2>4, <2>5 DEF ServerSteps
<1>5. CASE Tick
  BY <1>5, TickKeepsExcused DEF TimedOut, Over
<1> QED BY <1>1, <1>2, <1>3, <1>4, <1>5 DEF Next, Environment

LEMMA KnownTimelyCorrect == Spec => [](Known /\ TimelyInv)
<1>1. Init => Known /\ TimelyInv
  BY InitTimely, StopInit, TimesAreNat DEF Init, Known, SilenceInv, Goodbye, Belief
<1>2. ASSUME Known, TimelyInv, [Next]_vars PROVE Known' /\ TimelyInv'
  <2>1. Known'
    BY <1>2, SilenceStep, StopStep, GoodbyeStep, BeliefStep DEF Known
  <2>2. InOrder' /\ Ends' /\ Beats'
    BY <1>2, InOrderStep, EndsStep, BeatsStep DEF Known, TimelyInv
  <2>3. OnTime'
    BY <1>2, <2>1, <2>2, OnTimeStep DEF Known, TimelyInv
  <2>4. TimedOut'
    BY <1>2, TimedOutStep DEF TimelyInv
  <2> QED BY <2>1, <2>2, <2>3, <2>4 DEF TimelyInv
<1> QED BY <1>1, <1>2, PTL DEF Spec

\* The watchdog (isHeartbeatExpired) drops no client that gets Ready in time
\* and whose messages arrive: at every moment before a session expires, a heartbeat or the end of
\* the connection is under way, or will be soon enough.
THEOREM DroppedOnlyIfSlowCorrect == Spec => []DroppedOnlyIfSlow
<1>1. TimelyInv => DroppedOnlyIfSlow
  BY DEF TimelyInv, TimedOut, Excused, DroppedOnlyIfSlow
<1> QED BY <1>1, KnownTimelyCorrect, PTL
-----------------------------------------------------------------------------
(* The types, and how old a message gets *)

\* Messages of a channel, none older than one before it, none too old.
Aging(channel, types) ==
  /\ channel \in Seq([type : types, age : 0 .. MaxDelay])
  /\ \A i, j \in 1 .. Len(channel) : i <= j => channel[j].age <= channel[i].age

LEMMA AgingEmpty ==
  ASSUME NEW T PROVE Aging(<<>>, T)
BY DEF Aging

LEMMA AgingTail ==
  ASSUME NEW T, NEW c, Aging(c, T), c # <<>> PROVE Aging(Tail(c), T)
<1> DEFINE M == [type : T, age : 0 .. MaxDelay]
<1>1. c \in Seq(M)
  BY DEF Aging
<1> HIDE DEF M
<1>2. /\ Tail(c) \in Seq(M) /\ Len(c) \in Nat /\ Len(Tail(c)) = Len(c) - 1
      /\ \A i \in 1 .. Len(Tail(c)) : Tail(c)[i] = c[i + 1]
  BY <1>1, HeadTailProperties
<1>3. ASSUME NEW i \in 1 .. Len(Tail(c)), NEW j \in 1 .. Len(Tail(c)), i <= j
      PROVE  Tail(c)[j].age <= Tail(c)[i].age
  <2>1. i + 1 \in 1 .. Len(c) /\ j + 1 \in 1 .. Len(c) /\ i + 1 <= j + 1
    BY <1>2, <1>3
  <2>2. c[j + 1].age <= c[i + 1].age
    BY <2>1 DEF Aging
  <2> QED BY <1>2, <2>2
<1> QED BY <1>2, <1>3 DEF Aging, M

LEMMA AgingAdd ==
  ASSUME NEW T, NEW c, Aging(c, T), NEW types \in Seq(T) PROVE Aging(Add(c, types), T)
<1> DEFINE M == [type : T, age : 0 .. MaxDelay]
<1>1. c \in Seq(M) /\ \A i, j \in 1 .. Len(c) : i <= j => c[j].age <= c[i].age
  BY DEF Aging
<1>2. PICK fresh : fresh = Fresh(types)
  OBVIOUS
<1>3. /\ fresh \in Seq(M) /\ Len(fresh) = Len(types)
      /\ \A i \in 1 .. Len(fresh) : fresh[i].age = 0
  <2>1. DOMAIN types = 1 .. Len(types) /\ \A i \in 1 .. Len(types) : types[i] \in T
    OBVIOUS
  <2>2. 0 \in 0 .. MaxDelay
    BY TimesAssumption
  <2>3. \A i \in 1 .. Len(types) : [type |-> types[i], age |-> 0] \in M
    BY <2>1, <2>2
  <2> HIDE DEF M
  <2> QED BY <1>2, <2>1, <2>3 DEF Fresh
<1>4. \A m \in M : m.age \in Nat
  BY TimesAssumption
<1> HIDE DEF M
<1>5. PICK all : all = c \o fresh
  OBVIOUS
<1>6. /\ all \in Seq(M) /\ Len(all) = Len(c) + Len(fresh) /\ Len(c) \in Nat /\ Len(fresh) \in Nat
      /\ \A i \in 1 .. Len(c) + Len(fresh) : all[i] = IF i <= Len(c) THEN c[i] ELSE fresh[i - Len(c)]
  <2>1. /\ c \o fresh \in Seq(M) /\ Len(c \o fresh) = Len(c) + Len(fresh)
        /\ Len(c) \in Nat /\ Len(fresh) \in Nat
    BY <1>1, <1>3, ConcatProperties, LenProperties, Zenon
  <2>2. \A i \in 1 .. Len(c) + Len(fresh) :
          (c \o fresh)[i] = IF i <= Len(c) THEN c[i] ELSE fresh[i - Len(c)]
    BY <1>1, <1>3, ConcatProperties, Zenon
  <2> QED BY <1>5, <2>1, <2>2
<1>7. ASSUME NEW i \in 1 .. Len(all), NEW j \in 1 .. Len(all), i <= j PROVE all[j].age <= all[i].age
  <2>1. CASE j <= Len(c)
    <3>1. i \in 1 .. Len(c) /\ j \in 1 .. Len(c)
      BY <1>6, <1>7, <2>1
    <3> QED BY <1>1, <1>6, <1>7, <2>1, <3>1
  <2>2. CASE ~(j <= Len(c))
    <3>1. j - Len(c) \in 1 .. Len(fresh) /\ all[j] = fresh[j - Len(c)]
      BY <1>6, <2>2
    <3>2. all[j].age = 0
      BY <1>3, <3>1
    <3>3. all[i] \in M
      BY <1>6
    <3> QED BY <1>4, <3>2, <3>3
  <2> QED BY <2>1, <2>2
<1>8. Add(c, types) \in {c, all}
  BY <1>2, <1>5 DEF Add
<1> QED BY <1>1, <1>6, <1>7, <1>8 DEF Aging, M

LEMMA AgingOlder ==
  ASSUME NEW T, NEW c, Aging(c, T), c # <<>> => Head(c).age < MaxDelay PROVE Aging(Older(c), T)
<1> DEFINE M == [type : T, age : 0 .. MaxDelay]
<1>1. c \in Seq(M) /\ \A i, j \in 1 .. Len(c) : i <= j => c[j].age <= c[i].age
  BY DEF Aging
<1>2. ASSUME NEW m \in M, m.age < MaxDelay
      PROVE  [m EXCEPT !.age = @ + 1] \in M /\ [m EXCEPT !.age = @ + 1].age = m.age + 1
  BY <1>2, TimesAssumption
<1>3. \A m \in M : m.age \in Nat
  OBVIOUS
<1> HIDE DEF M
<1>4. DOMAIN c = 1 .. Len(c) /\ Len(c) \in Nat /\ \A i \in 1 .. Len(c) : c[i] \in M
  BY <1>1
<1>5. \A i \in 1 .. Len(c) : c[i].age < MaxDelay
  <2> TAKE i \in 1 .. Len(c)
  <2>1. 1 \in 1 .. Len(c) /\ 1 <= i /\ c # <<>> /\ Head(c) = c[1]
    BY <1>4
  <2>2. c[1].age < MaxDelay /\ c[i].age <= c[1].age
    BY <1>1, <2>1
  <2> QED BY <1>3, <1>4, <2>1, <2>2, TimesAssumption
<1>6. PICK older : older = Older(c)
  OBVIOUS
<1>7. older = [i \in 1 .. Len(c) |-> [c[i] EXCEPT !.age = @ + 1]]
  BY <1>4, <1>6 DEF Older
<1>8. \A i \in 1 .. Len(c) : older[i] \in M /\ older[i].age = c[i].age + 1
  <2> TAKE i \in 1 .. Len(c)
  <2>1. c[i] \in M /\ c[i].age < MaxDelay
    BY <1>4, <1>5
  <2>2. older[i] = [c[i] EXCEPT !.age = @ + 1]
    BY <1>7
  <2> QED BY <1>2, <2>1, <2>2
<1>9. older \in Seq(M) /\ Len(older) = Len(c)
  <2>1. DOMAIN older = 1 .. Len(c) /\ older = [i \in 1 .. Len(c) |-> older[i]]
    BY <1>7
  <2> QED BY <1>4, <1>8, <2>1
<1>10. ASSUME NEW i \in 1 .. Len(older), NEW j \in 1 .. Len(older), i <= j PROVE older[j].age <= older[i].age
  <2>1. i \in 1 .. Len(c) /\ j \in 1 .. Len(c) /\ c[j].age \in Nat /\ c[i].age \in Nat
    BY <1>3, <1>4, <1>9
  <2>2. c[j].age <= c[i].age
    BY <1>1, <1>10, <2>1
  <2> QED BY <1>8, <2>1, <2>2
<1> QED BY <1>6, <1>9, <1>10 DEF Aging, M

Channels == Aging(toServer, ClientMessage) /\ Aging(toClient, ServerMessage)

\* What a step that takes no time does to the channels: each end takes the
\* oldest message or writes some, or what is on the way is lost.
Transmits ==
  /\ \/ toServer' \in {toServer, <<>>}
     \/ toServer # <<>> /\ toServer' = Tail(toServer)
     \/ \E types \in Seq(ClientMessage) : toServer' = Add(toServer, types)
  /\ \/ toClient' \in {toClient, <<>>}
     \/ toClient # <<>> /\ toClient' = Tail(toClient)
     \/ \E types \in Seq(ServerMessage) : toClient' = Add(toClient, types)

LEMMA TransmitsKeeps ==
  ASSUME Channels, Transmits PROVE Channels'
<1>1. ASSUME toServer' = toServer PROVE Aging(toServer, ClientMessage)'
  BY <1>1 DEF Channels, Aging
<1>2. ASSUME toClient' = toClient PROVE Aging(toClient, ServerMessage)'
  BY <1>2 DEF Channels, Aging
<1>3. \A c : Aging(c, ClientMessage) /\ toServer' = c => Aging(toServer, ClientMessage)'
  BY DEF Aging, ClientMessage
<1>4. \A c : Aging(c, ServerMessage) /\ toClient' = c => Aging(toClient, ServerMessage)'
  BY DEF Aging, ServerMessage
<1>5. Aging(toServer, ClientMessage)'
  BY <1>1, <1>3, AgingEmpty, AgingTail, AgingAdd DEF Channels, Transmits
<1>6. Aging(toClient, ServerMessage)'
  BY <1>2, <1>4, AgingEmpty, AgingTail, AgingAdd DEF Channels, Transmits
<1> QED BY <1>5, <1>6 DEF Channels

LEMMA MessageNames ==
  /\ ClientMessage = {"hello", "auth", "resource_manifest_request", "resources_ready", "connection",
                      "heartbeat", "player_state", "disconnect", "fin"}
  /\ ServerMessage = {"hello_ack", "auth_result", "resource_manifest", "resources_ready_ack",
                      "heartbeat_ack", "kick", "fin"}
BY RequestNames DEF ClientMessage, ServerMessage, Reply

LEMMA Single ==
  /\ \A m \in ClientMessage : <<m>> \in Seq(ClientMessage)
  /\ \A m \in ServerMessage : <<m>> \in Seq(ServerMessage)
  /\ <<>> \in Seq(ServerMessage) /\ <<"kick", "fin">> \in Seq(ServerMessage)
<1>1. {"kick", "fin"} \subseteq ServerMessage
  BY MessageNames
<1> QED BY <1>1

LEMMA ClientTransmits ==
  ASSUME Main \/ HeartbeatThread \/ SendPlayerState \/ Receive \/ Cut \/ InputEnds \/ Killed
           \/ ConnectionLost \/ UNCHANGED vars
  PROVE  Transmits
<1> USE DEF Send
<1>1. ASSUME toServer' = toServer, toClient' \in {toClient, <<>>} PROVE Transmits
  BY <1>1 DEF Transmits
<1>2. ASSUME NEW m \in ClientMessage, Send(<<m>>), toClient' \in {toClient, <<>>} PROVE Transmits
  BY <1>2, Single DEF Transmits
<1>3. ASSUME NEW r \in Request, Ask(r) \/ Answered(r) \/ TimesOut(r) PROVE Transmits
  <2>1. r \in ClientMessage /\ toClient' = toClient /\ (toServer' = toServer \/ Send(<<r>>))
    BY <1>3 DEF Ask, Answered, TimesOut, ClientMessage
  <2> QED BY <1>1, <1>2, <2>1
<1>4. CASE Initialize \/ ConnectFails \/ FinishDownload \/ BecomeReady \/ JoinHeartbeat \/ JoinReplication
             \/ InputEnds \/ BeatDone \/ BeatStops \/ ConnectionLost \/ UNCHANGED vars
  BY <1>1, <1>4 DEF Initialize, ConnectFails, FinishDownload, BecomeReady, JoinHeartbeat,
     JoinReplication, InputEnds, BeatDone, BeatStops, ConnectionLost, vars
<1>5. CASE Connect \/ Beat \/ SendPlayerState \/ SendDisconnect \/ Disconnect \/ Killed
  <2>1. toClient' \in {toClient, <<>>}
    BY <1>5 DEF Connect, Beat, SendPlayerState, SendDisconnect, Disconnect, Killed
  <2>2. toServer' = toServer \/ \E m \in {"connection", "heartbeat", "player_state", "disconnect", "fin"} :
                                  Send(<<m>>)
    BY <1>5 DEF Connect, Beat, SendPlayerState, SendDisconnect, Disconnect, Killed
  <2> QED BY <1>1, <1>2, <2>1, <2>2, MessageNames
<1>6. CASE Receive \/ Cut
  BY <1>6 DEF Receive, Cut, Transmits
<1> QED BY <1>3, <1>4, <1>5, <1>6 DEF Main, HeartbeatThread

LEMMA ServerTransmits ==
  ASSUME Server \/ Watchdog \/ ServerStops \/ ConnectionEnds
  PROVE  Transmits
<1>1. toServer' = toServer \/ (toServer # <<>> /\ toServer' = Tail(toServer))
  BY ServerTakes
<1>2. ASSUME NEW types \in Seq(ServerMessage), Answer(types) PROVE Transmits
  BY <1>1, <1>2 DEF Answer, Transmits
<1>3. ASSUME toClient' = toClient \/ \E types \in Seq(ServerMessage) : toClient' = Add(toClient, types)
      PROVE  Transmits
  BY <1>1, <1>3 DEF Transmits
<1>4. ASSUME NEW replies \in Seq(ServerMessage), NEW why, DisconnectSession(replies, why) PROVE Transmits
  <2>1. replies \o <<"kick", "fin">> \in Seq(ServerMessage)
    BY Single, ConcatProperties
  <2> QED BY <1>2, <1>4, <2>1 DEF DisconnectSession
<1>5. \A m \in {"hello_ack", "auth_result", "resource_manifest", "resources_ready_ack", "heartbeat_ack", "fin"} :
        <<m>> \in Seq(ServerMessage)
  BY Single, MessageNames
<1>6. ASSUME NEW type, NEW replies \in Seq(ServerMessage), Serve(type, replies) PROVE Transmits
  BY <1>2, <1>4, <1>6, Single DEF Serve
<1>7. CASE Accept
  BY <1>3, <1>5, <1>7 DEF Accept
<1>8. CASE Hello
  BY <1>2, <1>4, <1>5, <1>8 DEF Hello
<1>9. CASE Auth
  BY <1>2, <1>4, <1>5, <1>9, Single DEF Auth
<1>10. CASE ResourceManifestRequest \/ PlayerState \/ ResourcesReady
  BY <1>5, <1>6, <1>10, Single DEF ResourceManifestRequest, PlayerState, ResourcesReady
<1>11. CASE Heartbeat
  BY <1>2, <1>5, <1>11 DEF Heartbeat
<1>12. CASE DisconnectRequest
  BY <1>4, <1>12, Single DEF DisconnectRequest
<1>13. CASE Discard \/ SocketClosed
  BY <1>3, <1>13 DEF Discard, SocketClosed
<1>14. CASE Watchdog \/ ServerStops
  BY <1>3, <1>14, Single DEF Watchdog, ServerStops
<1> QED
  BY <1>7, <1>8, <1>9, <1>10, <1>11, <1>12, <1>13, <1>14 DEF Server, ConnectionEnds

LEMMA ChannelsStep ==
  ASSUME Channels, [Next]_vars PROVE Channels'
<1>1. CASE Tick
  <2>1. \A c \in {toServer, toClient} : c # <<>> => Head(c).age < MaxDelay
    BY <1>1 DEF Tick, Quiescent
  <2>2. Aging(Older(toServer), ClientMessage) /\ Aging(Older(toClient), ServerMessage)
    BY <2>1, AgingOlder DEF Channels
  <2>3. toServer' = Older(toServer) /\ toClient' = Older(toClient)
    BY <1>1 DEF Tick
  <2> QED BY <2>2, <2>3 DEF Channels, Aging, ClientMessage, ServerMessage
<1>2. CASE ~Tick
  BY <1>2, ClientTransmits, ServerTransmits, TransmitsKeeps DEF Next, Environment
<1> QED BY <1>1, <1>2

Flags ==
  /\ waiting \in BOOLEAN /\ connectedToServer \in BOOLEAN /\ connected \in BOOLEAN
  /\ authorized \in BOOLEAN /\ replicating \in BOOLEAN

Waits ==
  /\ timer \in Nat /\ (timer <= ReplyWithin \/ timer <= ManifestWithin)
  /\ pendingReplies \subseteq ServerMessage \ {"kick", "fin"}
  /\ heartbeat = "none" => beatTimer = 0
  /\ preparing \in 0 .. Grace + 1

SessionTypes ==
  /\ serverUp \in BOOLEAN /\ compatible \in BOOLEAN /\ helloReceived \in BOOLEAN
  /\ authenticated \in BOOLEAN /\ resourcesReady \in BOOLEAN /\ beaten \in BOOLEAN
  /\ session \in {"none", "registered", "dropped"}
  /\ socket \in {"none", "open", "ended", "closed"}
  /\ reason \in {"none", "incompatible protocol version", "auth before hello", "before authentication",
                 "client", "connection closed", "heartbeat timeout", "server shutting down"}

TypeInv == Channels /\ Flags /\ Waits /\ SessionTypes

LEMMA FlagsStep ==
  ASSUME Flags, [Next]_vars PROVE Flags'
<1> USE DEF mainVars, threadVars, clientVars
<1>1. ASSUME UNCHANGED <<waiting, connectedToServer, connected, authorized, replicating>> PROVE Flags'
  BY <1>1 DEF Flags
<1>2. ASSUME NEW r, Failed(r)
      PROVE  connectedToServer' \in BOOLEAN /\ authorized' \in BOOLEAN
  BY <1>2 DEF Failed, Flags
<1>3. ASSUME NEW r \in Request, Succeeded(r)
      PROVE  connectedToServer' \in BOOLEAN /\ authorized' \in BOOLEAN
  BY <1>2, <1>3, RequestNames DEF Succeeded, Flags
<1>4. ASSUME NEW r \in Request, Ask(r) \/ Answered(r) \/ TimesOut(r) PROVE Flags'
  <2>1. connectedToServer' \in BOOLEAN /\ authorized' \in BOOLEAN
    BY <1>2, <1>3, <1>4 DEF Ask, Answered, TimesOut, Flags
  <2>2. waiting' \in BOOLEAN /\ connected' = connected /\ replicating' = replicating
    BY <1>4 DEF Ask, Answered, TimesOut, Flags
  <2> QED BY <2>1, <2>2 DEF Flags
<1>5. CASE Initialize \/ ConnectFails \/ FinishDownload \/ JoinHeartbeat \/ SendDisconnect \/ InputEnds
             \/ HeartbeatThread \/ SendPlayerState \/ Cut \/ Tick \/ UNCHANGED vars
  BY <1>1, <1>5 DEF Initialize, ConnectFails, FinishDownload, JoinHeartbeat, SendDisconnect, InputEnds,
     Goto, HeartbeatThread, Beat, BeatDone, BeatStops, SendPlayerState, Cut, Tick, vars
<1>6. CASE Connect \/ BecomeReady \/ JoinReplication \/ Disconnect \/ Killed \/ ConnectionLost
  BY <1>6 DEF Connect, BecomeReady, JoinReplication, Disconnect, Killed, ConnectionLost, Goto, Flags
<1>7. CASE Receive
  BY <1>7 DEF Receive, Flags
<1>8. CASE Server \/ Watchdog \/ ServerStops \/ ConnectionEnds
  BY <1>1, <1>8, ServerLeavesClient
<1> QED BY <1>4, <1>5, <1>6, <1>7, <1>8 DEF Next, Main, Environment

LEMMA GraceIsNat == Grace \in Nat
BY TimesAssumption DEF Grace

LEMMA WaitsStep ==
  ASSUME StopInv, Channels, Waits, [Next]_vars PROVE Waits'
<1> USE DEF mainVars, threadVars, clientVars, clocks
<1>1. ASSUME UNCHANGED <<timer, pendingReplies, heartbeat, beatTimer, preparing>> PROVE Waits'
  BY <1>1 DEF Waits
<1>2. ASSUME NEW r \in Request, Ask(r) \/ Answered(r) \/ TimesOut(r) PROVE Waits'
  <2>1. timer' \in {timer, 0, TimeoutOf(r)} /\ pendingReplies' \subseteq pendingReplies
    BY <1>2 DEF Ask, Answered, TimesOut
  <2>2. UNCHANGED <<heartbeat, beatTimer, preparing>>
    BY <1>2 DEF Ask, Answered, TimesOut
  <2> QED BY <2>1, <2>2, TimesAreNat DEF Waits, TimeoutOf
<1>3. CASE Initialize \/ ConnectFails \/ Connect \/ FinishDownload \/ JoinHeartbeat \/ JoinReplication
             \/ SendDisconnect \/ Disconnect \/ InputEnds \/ SendPlayerState \/ Cut \/ ConnectionLost
             \/ UNCHANGED vars
  BY <1>1, <1>3 DEF Initialize, ConnectFails, Connect, FinishDownload, JoinHeartbeat, JoinReplication,
     SendDisconnect, Disconnect, InputEnds, SendPlayerState, Cut, ConnectionLost, Goto, vars
<1>4. CASE BecomeReady \/ Beat \/ BeatDone \/ BeatStops
  <2>1. UNCHANGED <<timer, preparing>> /\ pendingReplies' \subseteq pendingReplies
    BY <1>4 DEF BecomeReady, Beat, BeatDone, BeatStops
  <2>2. heartbeat' = "none" => beatTimer' = 0
    BY <1>4 DEF BecomeReady, Beat, BeatDone, BeatStops
  <2> QED BY <2>1, <2>2 DEF Waits
<1>5. CASE Killed
  BY <1>5, TimesAreNat DEF Killed, Waits
<1>6. CASE Receive
  <2>1. UNCHANGED <<timer, heartbeat, beatTimer, preparing>>
    BY <1>6 DEF Receive
  <2>2. Head(toClient).type \in ServerMessage
    <3> DEFINE M == [type : ServerMessage, age : 0 .. MaxDelay]
    <3>1. toClient \in Seq(M) /\ toClient # <<>>
      BY <1>6 DEF Receive, Channels, Aging
    <3>2. \A m \in M : m.type \in ServerMessage
      OBVIOUS
    <3> HIDE DEF M
    <3>3. Head(toClient) \in M
      BY <3>1, HeadTailProperties
    <3> QED BY <3>2, <3>3
  <2>3. pendingReplies' = pendingReplies \cup ({Head(toClient).type} \ {"kick", "fin"})
    BY <1>6 DEF Receive
  <2> QED BY <2>1, <2>2, <2>3 DEF Waits
<1>7. CASE Tick
  <2>1. /\ timer' = Less(timer) /\ beatTimer' = Less(beatTimer) /\ UNCHANGED <<pendingReplies, heartbeat>>
        /\ preparing' \in {preparing, More(preparing, Grace + 1)}
    BY <1>7 DEF Tick
  <2>2. timer' \in Nat /\ timer' <= timer
    BY <2>1 DEF Waits, Less
  <2>3. heartbeat' = "none" => beatTimer' = 0
    BY <2>1 DEF Waits, Less
  <2>4. preparing' \in 0 .. Grace + 1
    BY <2>1, GraceIsNat DEF Waits, More
  <2> QED BY <2>1, <2>2, <2>3, <2>4, TimesAreNat DEF Waits
<1>8. CASE Server \/ Watchdog \/ ServerStops \/ ConnectionEnds
  BY <1>1, <1>8, ServerLeavesClient
<1> QED
  BY <1>2, <1>3, <1>4, <1>5, <1>6, <1>7, <1>8 DEF Next, Main, HeartbeatThread, Environment

LEMMA SessionTypesStep ==
  ASSUME SessionTypes, [Next]_vars PROVE SessionTypes'
<1>1. ASSUME UNCHANGED serverVars PROVE SessionTypes'
  BY <1>1 DEF serverVars, sessionVars, SessionTypes
<1> DEFINE Reasons == {"none", "incompatible protocol version", "auth before hello",
                       "before authentication", "client", "connection closed", "heartbeat timeout",
                       "server shutting down"}
           Ended == /\ session' \in {"none", "registered", "dropped"}
                    /\ socket' \in {"none", "open", "ended", "closed"}
                    /\ reason' \in Reasons
<1>2. UNCHANGED <<session, socket, reason>> => Ended
  BY DEF SessionTypes
<1>3. ASSUME NEW replies, NEW why \in Reasons, DisconnectSession(replies, why) PROVE Ended
  BY <1>3 DEF DisconnectSession, SessionTypes
<1>4. ASSUME NEW type, NEW replies, Serve(type, replies)
      PROVE  Ended /\ UNCHANGED <<serverUp, compatible, helloReceived, authenticated, beaten>>
  BY <1>2, <1>3, <1>4 DEF Serve
<1>5. CASE ResourceManifestRequest \/ PlayerState \/ ResourcesReady
  <2>1. Ended /\ UNCHANGED <<serverUp, compatible, helloReceived, authenticated, beaten>>
    BY <1>4, <1>5 DEF ResourceManifestRequest, PlayerState, ResourcesReady
  <2>2. resourcesReady' \in BOOLEAN
    BY <1>5 DEF ResourceManifestRequest, PlayerState, ResourcesReady, SessionTypes
  <2> QED BY <2>1, <2>2 DEF SessionTypes
<1>6. CASE Accept \/ SocketClosed
  <2>1. Ended /\ UNCHANGED <<serverUp, compatible, helloReceived, authenticated, resourcesReady, beaten>>
    BY <1>6 DEF Accept, SocketClosed, SessionTypes
  <2> QED BY <2>1 DEF SessionTypes
<1>7. CASE Hello
  <2>1. Ended /\ helloReceived' = TRUE /\ UNCHANGED <<serverUp, compatible, authenticated, resourcesReady, beaten>>
    BY <1>2, <1>3, <1>7 DEF Hello
  <2> QED BY <2>1 DEF SessionTypes
<1>8. CASE Auth
  <2>1. Ended /\ UNCHANGED <<serverUp, compatible, helloReceived, resourcesReady, beaten>>
    BY <1>2, <1>3, <1>8 DEF Auth
  <2>2. authenticated' \in BOOLEAN
    BY <1>8 DEF Auth, SessionTypes
  <2> QED BY <2>1, <2>2 DEF SessionTypes
<1>9. CASE Heartbeat
  <2>1. Ended /\ UNCHANGED <<serverUp, compatible, helloReceived, authenticated, resourcesReady>>
    BY <1>2, <1>9 DEF Heartbeat
  <2>2. beaten' \in BOOLEAN
    BY <1>9 DEF Heartbeat
  <2> QED BY <2>1, <2>2 DEF SessionTypes
<1>10. CASE DisconnectRequest
  <2>1. Ended /\ UNCHANGED <<serverUp, compatible, helloReceived, authenticated, resourcesReady, beaten>>
    BY <1>3, <1>10 DEF DisconnectRequest
  <2> QED BY <2>1 DEF SessionTypes
<1>11. CASE Watchdog
  <2>1. Ended /\ UNCHANGED <<serverUp, compatible, helloReceived, authenticated, resourcesReady, beaten>>
    BY <1>2, <1>11 DEF Watchdog
  <2> QED BY <2>1 DEF SessionTypes
<1>12. CASE ServerStops
  <2>1. Ended /\ serverUp' = FALSE
        /\ UNCHANGED <<compatible, helloReceived, authenticated, resourcesReady, beaten>>
    BY <1>2, <1>12 DEF ServerStops
  <2> QED BY <2>1 DEF SessionTypes
<1>13. CASE Discard
  BY <1>1, <1>13 DEF Discard
<1>14. CASE Tick
  BY <1>14 DEF Tick, SessionTypes
<1> QED
  BY <1>1, <1>5, <1>6, <1>7, <1>8, <1>9, <1>10, <1>11, <1>12, <1>13, <1>14, ClientLeavesServer
  DEF Next, Server, ConnectionEnds, Environment

\* Every variable of the session keeps its type, whatever the timeouts: no
\* timer runs longer than its request allows, what is kept for a request is a
\* reply, and no message outlives MaxDelay.
THEOREM SessionTypeCorrect == Spec => []TypeOK
<1>1. Init => TypeInv
  <2> SUFFICES ASSUME Init PROVE TypeInv
    OBVIOUS
  <2>1. Channels
    BY AgingEmpty DEF Init, Channels
  <2>2. Flags
    BY DEF Init, Flags
  <2>3. Waits
    BY TimesAreNat, GraceIsNat DEF Init, Waits
  <2>4. SessionTypes
    BY DEF Init, SessionTypes
  <2> QED BY <2>1, <2>2, <2>3, <2>4 DEF TypeInv
<1>2. StopInv /\ TypeInv /\ [Next]_vars => TypeInv'
  BY ChannelsStep, FlagsStep, WaitsStep, SessionTypesStep DEF TypeInv
<1>3. SilenceInv /\ StopInv /\ Ends /\ Beats /\ TypeInv => TypeOK
  <2> SUFFICES ASSUME SilenceInv, StopInv, Ends, Beats, TypeInv PROVE TypeOK
    OBVIOUS
  <2>1. \E r \in Request : timer \in 0 .. TimeoutOf(r)
    <3>1. {"hello", "resource_manifest_request"} \subseteq Request
      BY RequestNames
    <3>2. TimeoutOf("hello") = ReplyWithin /\ TimeoutOf("resource_manifest_request") = ManifestWithin
      BY DEF TimeoutOf
    <3>3. timer \in 0 .. ReplyWithin \/ timer \in 0 .. ManifestWithin
      BY TimesAreNat DEF TypeInv, Waits
    <3> QED BY <3>1, <3>2, <3>3
  <2>2. /\ heartbeat = "none" => beatTimer = 0
        /\ heartbeat = "sleeping" => beatTimer \in 0 .. HeartbeatEvery
        /\ heartbeat = "waiting" => beatTimer \in 0 .. ReplyWithin
        /\ heartbeat \in {"none", "sleeping", "waiting"}
    BY TimesAreNat DEF TypeInv, Waits, StopInv, Beats
  <2>3. quiet \in 0 .. LongestSilence + 1 /\ watch \in 0 .. CheckEvery
    BY TimesAreNat DEF SilenceInv
  <2>4. preparing \in 0 .. Grace + 1 /\ stopping \in 0 .. ReplyWithin + 1
    BY TimesAreNat DEF TypeInv, Waits, StopInv
  <2>5. {waiting, connectedToServer, connected, authorized, replicating} \subseteq BOOLEAN
    BY Zenon DEF TypeInv, Flags
  <2>6. {serverUp, compatible, helloReceived, authenticated, resourcesReady, beaten} \subseteq BOOLEAN
    BY Zenon DEF TypeInv, SessionTypes
  <2>7. pc \in Place /\ link \in {"up", "cut"}
    BY DEF Ends
  <2>8. /\ toServer \in Seq([type : ClientMessage, age : 0 .. MaxDelay])
        /\ toClient \in Seq([type : ServerMessage, age : 0 .. MaxDelay])
    BY DEF TypeInv, Channels, Aging
  <2>9. pendingReplies \subseteq ServerMessage \ {"kick", "fin"}
    BY DEF TypeInv, Waits
  <2>10. /\ session \in {"none", "registered", "dropped"}
         /\ socket \in {"none", "open", "ended", "closed"}
         /\ reason \in {"none", "incompatible protocol version", "auth before hello",
                        "before authentication", "client", "connection closed", "heartbeat timeout",
                        "server shutting down"}
    BY DEF TypeInv, SessionTypes
  <2> QED BY <2>1, <2>2, <2>3, <2>4, <2>5, <2>6, <2>7, <2>8, <2>9, <2>10 DEF TypeOK
<1>4. Known /\ TimelyInv => SilenceInv /\ StopInv /\ Ends /\ Beats
  BY DEF Known, TimelyInv
<1> QED BY <1>1, <1>2, <1>3, <1>4, KnownTimelyCorrect, PTL DEF Spec
=============================================================================
