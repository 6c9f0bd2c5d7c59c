# MzzPlork in TLA+

TLA+ models of the MzzPlork launcher, client runtime and server, checked with TLC and,
where the modules say so, proved with TLAPS. Paths are relative to the repository.

## 1. The system

```
bootstrapper/electron  --spawns, reads JSON lines on stdout-->  MzzPlorkClient (runtime/src)
        |                                                           |  TCP, one JSON object per line
        | HTTP: launcher manifest, components                       v
        v                                              server/src  (control channel, one Node process)
   update server                                       server/src  HTTP: resource files --> client
```

| Component | State | Operations | Interacts by |
|---|---|---|---|
| Server control channel (`tcpServer.js`, `session.js`, `connectionState.js`, `eventBus.js`) | the `sessions` Map, a `Session` per socket, the listening `net.Server` | one handler per message, socket `close`/`error`, heartbeat watchdog, `shutdown()` | messages on sockets, one callback at a time |
| Identity issuance (`auth.js`) | none: the player id is derived from `clientId` | `authenticate()` | called by the `auth` handler |
| Admin console (`adminConsole.js`) | none | list, kick, broadcast, shutdown | sockets of sessions, the event bus |
| Protocol framing (`protocol.js`) | the line buffer of a socket | `send`, splitting into lines | net.Socket |
| Server process (`main.js`) | the two servers, the log | start, `shutdown()` on a signal | calls the parts' own `shutdown` |
| Resource manifest, HTTP server | the files of `server/resources` | list, serve with ranges | `resource_manifest` reply, HTTP |
| Server connection (`TcpServerConnection`) | socket handle, `connected_`, `shouldStop_`, the reader thread | Connect, Send, Disconnect | calls `onMessage` from the reader thread |
| Protocol client (`ProtocolClient`) | `pendingReplies_` under a mutex | OnMessage, RequestReply, Send* | condition variable between reader and main thread; publishes events |
| Client runtime (`Runtime.cpp`) | lifecycle, flags, threads | Run, Shutdown, control commands | owns everything below |
| Event system | subscription list | Subscribe, Publish | reader thread calls the handlers |
| Replication, entities | entities, dirty flag, last send | Start, On\*, SetLocal\*, Tick | reader, control and replication threads |
| Interpolation | target, previous value, duration | SetTarget, Current | Replication |
| Resource registry | a `ResourceState` per resource | LoadManifest, LoadAll, Start, Stop, Reload | Run, control commands |
| Resource manager, HTTP downloader | files, `.partial` files | ApplyManifest, DownloadAndVerify | HTTP server, file system |
| Update manager, bootstrapper | staging directory, installed files, `version.json` | plan, apply, launch | update server, file system, client process |
| User interface | what is displayed | - | IPC |

What is hard here, and what correctness means:

* **Interleaving of sessions.** Joins, moves, kicks and drops of several clients meet in one
  Map. Right means: whoever listens has been told of exactly the live players, in the state
  each reported last.
* **Messages that arrive after a drop.** `socket.end()` closes one direction only. Right
  would mean that nothing of a dropped session is announced any more. What the code keeps is that
  it stays out of the Map, and that what is announced touches only its own player.
* **Reconnecting under a stored id.** `client-id.txt` makes a client come back as the same
  player, possibly before the server has noticed that the old connection is dead.
* **Threads of a client.** The reader thread dispatches events while the main thread is still
  subscribing to them; it destroys entities other threads look up; the replication thread
  reads, sends and clears the dirty flag while the control thread sets it.
* **Ending a connection.** Two processes, each with its own idea of who ends it, a reader
  thread in `recv()`, and a network that may stop delivering.
* **Timers.** A silent client has to go, a client that is alive must not; every request has a
  timeout, and its reply may come after it. Right means: a client that is Ready in time is never
  dropped for silence, and never takes an abandoned request's reply for something it is not.
* **Files that others may change.** A resource is verified once and looked at again when it is
  loaded. Right means: nothing loads that was never verified, and what a dependency graph
  condemns, and nothing else, fails.
* **Files and crashes.** Downloads resume what an earlier process left, perhaps of another
  version; an update is a sequence of renames and one ledger written in place, and the process may
  end between any two of them. Right means: nothing unverified is ever visible under its final
  name, a component that fails is left alone, and what is left behind blocks nothing later.
* **Angles and late clocks.** A remote player is shown somewhere between two reported states, by
  threads that read the clock before they wait for the lock. Right means: it moves towards its
  target, the short way, without jumps.

## 2. Modules

| Module | Models | Composition |
|---|---|---|
| `PresenceBoard` | abstract: what presence events promise, one roster all listeners see change at once | - |
| `ServerSessions` | the server's control channel | implements `PresenceBoard` (`Board`, `ImplementsBoard`) |
| `PresenceNetwork` | the server, the wires and the clients' event handling | EXTENDS `ServerSessions`; every action of it is conjoined with what it writes or how the client got there |
| `LocalStateSync` | the local player's state inside one client | - |
| `ConnectionTeardown` | the end of one connection at both ends | - |
| `ClientSession` | one run of the client against the server in time: requests, timeouts, heartbeats, watchdog | - |
| `Interpolation` | the smoothing of one remote player's movement | - |
| `ResourceRegistry` | the client's resources: manifest, dependency order, start, stop, reload | - |
| `VerifiedStore` | abstract: what a verified download promises of its destination | - |
| `ResourceDownload` | the download of one resource against the server's manifest and file | implements `VerifiedStore` (`Store`, `ImplementsStore`) |
| `UpdateManager` | start after start of the bootstrapper: plan, download, promote, record, launch | - |
| `MCServerSessions`, `MCPresenceNetwork`, `MCResourceRegistry`, `MCResourceDownload`, `MCUpdateManager`, `MCInterpolation` | identities, manifests, releases, sizes and symmetry for TLC | EXTEND the above |
| `Presence_proofs` | theorems about `ServerSessions` and `PresenceNetwork` | EXTENDS `PresenceNetwork` and TLAPS |
| `LocalStateSync_proofs`, `ConnectionTeardown_proofs`, `ClientSession_proofs`, `Interpolation_proofs`, `ResourceRegistry_proofs`, `ResourceDownload_proofs`, `UpdateManager_proofs` | theorems about the module each is named after | EXTEND it and TLAPS |

### ServerSessions

One action is one callback of Node's event loop. Its variables are the fields of `Session`,
the keys of the Map and the state of each `net.Socket`; `told[r]` is auxiliary: the presence
events written to socket `r`, folded as the client's `Replication` folds them, so properties
can speak of what a listener believes. `heartbeat` abstracts `lastHeartbeatMs` to whether
`isHeartbeatExpired()` holds. Abstracted: message contents (a `player_state` is an element of
`Data`), the resource manifest reply (no state), wording of kicks.

`Late` is the set of sockets on which messages may still be handled after the session was
dropped. The code allows it on all of them: the `message` listener has no guard
(`tcpServer.js:46`), and `socket.end()` (`:26`) closes only the server's direction. It is a
parameter so that a property can say of which players a ghost may remain, and a run can have one
socket whose last messages do not come. Both runs have a late socket, and no theorem assumes that
there is none.

`PresenceBoard` is the roster of players with a session. `over` are those whose session has ended:
they never enter again, but what is still handled of them may `Haunt` the listeners' views, each
player's own entry only. The refinement maps `over` to the sockets that have left the Map.

`Identity[s]` is the set of ids `authenticate()` may issue on a socket. `OwnIdentities` says
that no two sockets ever share one, i.e. nobody reconnects.

`ResourcesReady` fires only for sockets in `Loaders`, a bound: what it changes is independent of
presence, and three sockets with it multiply the state space by fifteen without a new case.

### PresenceNetwork

Each server callback now also appends what it writes to `wire`, in the order it writes it. A
client is its main thread (`SendAuth`, then `Replication::Start()`'s four locked calls, one
action each) and its reader thread (`Dispatch`: one message, its handler included). `missed`
is auxiliary: players of whom an event was published to no handler. The order of `sessions.values()`
is left open (`Orders`), but the backfill goes session by session (`BackfillOrders`); when two other
sessions carry one id, it is that order which decides whose state the newcomer is left with
(`LastState`), and `told` is tied to it. A client presents an id
that another connection of it presented only once that process is gone; the server may not know
that yet.

### LocalStateSync

Three threads, one action per locked call or atomic access. Values are counted, so that "the
nth value set" can be compared with what was read and sent.

### ConnectionTeardown

The client's main thread from the handshake through `Shutdown()` and the destructor, its reader
thread, the server's socket, its `shutdown()` and the wire, one action per access of the
atomics `connected_` and `shouldStop_`. `std::terminate` from a joinable `std::thread` is the
outcome `aborted`. `network = "down"` is a connection that carries nothing any more, in either direction.
Either end may notice, or never: `ReaderFails` is `recv()`'s socket error
(`TcpServerConnection.cpp:137`), `ServerFails` the server socket's `error` and `close`; a reset is
the same with both steps at once. The module has no constants: TLC explores all of it.

### ResourceRegistry

`FileResourceManager::ApplyManifest` over `ResourceRegistry` and the `ResourceState` table. It is
sequential code, but every decision it makes is about files that anything may change in between,
so an action ends where the next file is looked at: one per entry of the manifest (`FindCached`,
`Download`), one for `LoadAll`'s passes over the records, one per resource Kahn's queue comes to
(`LoadOne`), one for what the queue never reached. `todo` is the rest of the loop, `phase` which
loop it is. A file is compared with the manifest in force: `good` matches, `tampered` has the right
size only, `resized` has not even that. A download either puts a verified file in place or fails;
how it gets there is `ResourceDownload`. `Doomed` states the first loop's fixpoint as a least
set; the queue's order among resources that are ready at the same time is left open. `Runtime.cpp`
applies one manifest and calls `LoadAll` once; a second manifest, a second `LoadAll`, `Start`,
`Stop` and `Reload` are what the interface offers, and all of them are actions.

### ResourceDownload

`DownloadAndVerify` and `PerformSingleAttempt` of `HttpDownloader.cpp`, one action per thing that can
happen to an attempt: `NoAnswer`, `Refused`, `RangeInvalid`, `AnswerWhole` (200), `AnswerRange`
(206), then `Write` block by block until `BodyEnds` or `Cut`, then `Verify` and `Rename`. `dest` and
`partial` are the two files, `attempt` and `offset` the loop's variables. A file is a sequence of
blocks, each known by the version it comes from, so a file resumed from another version is visibly
mixed; a hash matches exactly the file it was computed from. The server's side is the manifest
computed when it starts and a file that may change, or go, while it runs. Its own HTTP server
answers no ranges and always gives a length; the client is written to meet servers that do
otherwise, so both are modelled, and so are the 416 and 5xx paths. `fs::remove` is best effort
in the code and may do nothing here. A `Crash` loses any suffix of what the current response wrote.

### UpdateManager

`runBootstrapper` as one sequential program whose `pc` names the file operation it comes to next:
`version.json` (`Start`, `StartWithoutLedger`, `CreateLedger`; written in place, so `Torn` in between),
the manifest (`Fetch*`), `planUpdate`, then for each planned component `CheckUnchanged`, staging
(`TakeStaged`, `StartDownload` and its outcomes), `MoveIntoPlace` file by file, `RemoveObsolete`, and
at the end `RecordResults`, `VerifyRuntime`, `LaunchClient`. `End` is every return of
`runBootstrapper`: the variables in memory are gone, the files stay. The environment
ends the program at any point (`Crash`), publishes a release, and once deletes or truncates an
installed file or deletes the ledger (`Damage`). `first` is `installState`; `accepted`,
`damage` and `before` are auxiliary. `FetchFails` is every way `fetchManifest` rejects; a response
that ends in the middle of its body settles its promise neither way (`FetchHangs`), and `hanging` is
left only by `Crash`. `MoveIntoPlace` takes the files in any order, the code in the
manifest's; staged content may be a beginning (`Part`) or put together of two (`Junk`).

### ClientSession

`ClientRuntime::Run` from configuration to `Shutdown`, its heartbeat and replication threads and
`ProtocolClient`'s `pendingReplies_`, two channels, and the server's handlers for the one session,
in discrete time. `pc` is the name of the request being asked, or the place in `Run`; `Ask`,
`Answered` and `TimesOut` are the parts of `RequestReply`. `Tick` is possible only when nothing is
due (`Quiescent`), which is how timeouts are neither early nor late beyond a tick. What time a step
itself takes is left out, except the download, which takes any. `reason`, `beaten`, `preparing` and
`stopping` are auxiliary. What `ServerSessions` has in detail, who is told of what, is left out here.

### Interpolation

`SetTarget` and `Current` of `InterpolatedEntity`, with `Lerp` and `LerpAngle` as operators over exact
fractions. `elapsed` is the time since `transitionStartMs_`; `lag` is how long ago a writer read the
clock that it passes, a moment before `elapsed = 0` is what a late reader asks for. Durations are
configured, so there is a longest (`DurationAssumption`), after which time no longer matters.

## 3. Runs

`tlc -config <run>.cfg <module>`; all finish within two minutes.

| Run | Expect | Shows |
|---|---|---|
| `ServerSessions_presence` | pass | 3 clients with own ids, `s3` may be late: registry, session state, auth guard, complete presence, no ghost but late ones, every drop announced |
| `ServerSessions_silence` | pass | 2 clients with own ids, `s2` may be late: the server implements `PresenceBoard`, its hauntings included; a client that stops sending heartbeats is dropped for good, and forgotten unless it is late |
| `PresenceNetwork_replicas` | pass | a client that has caught up agrees with what it was told except about players whose events it missed; never replicates itself; sees every player that keeps moving |
| `LocalStateSync_tick` | pass | a change is lost only if it overlaps a tick; every other change is sent |
| `ConnectionTeardown_close` | pass | handle outlives the reader, an acknowledgement is no failure, the client ends even on a connection that failed, noticed or not, and the server's shutdown follows it unless it failed |
| `ConnectionTeardown_abort` | violation of `CleanExit` | a client whose connection was ended by the server, or failed with an error, aborts after announcing a clean stop |
| `ClientSession_time` | pass | a client past authentication is authenticated; nothing follows its goodbye; it is dropped for silence only after too long a download, a cut, or giving up; no session outlives its silence; shutdown is prompt; Ready is always reached; a client that is gone is in the end no session |
| `Interpolation_blend` | pass | a remote player moves towards its target, arrives there by the least turn, and no new target makes it jump |
| `ResourceRegistry_load` | pass | nothing unverified loads, dependencies are decided first, `LoadAll` fails exactly what the graph and the file checks condemn |
| `ResourceDownload_resume` | pass | the destination implements `VerifiedStore`; what is kept is a beginning; every call ends; a connection that keeps breaking gets there by resuming; no stale partial file blocks a server that answers completely |
| `UpdateManager_crash` | pass | only listed content is put in place, a failed component is untouched, an updated one present, a first install verified before launch; once nothing breaks any more, the update completes, but for a torn `version.json` or a fetch that was cut before and hangs |
| `UpdateManager_rejected` | violation of `RejectedNeverInstalled` | an existing install applies a manifest it has just rejected |

Each module states one type invariant; TLC agreed with all of them, but no run repeats them: all are
theorems but `Interpolation`'s, which says that `Unit` makes every division exact, something about
the bounds of a run. `NoGhost`, `ReplicasConverge`, `LocalPlayerSurvives`, `LastChangeIsSent`
and `FailureCascades` are in the modules for what section 5 says of them; the code does not keep them.

**Bounds.** Three sockets are the smallest number with a listener, a subject and somebody else
whose drop or join interleaves with both; the theorems below cover every number. Each socket is
accepted once: a later connection is another socket. Two values of `Data` tell the last state
from an earlier one where only one would hide it. `SYMMETRY Clients` permutes `s1`, `s2` with
their ids; `s3` is excluded because it alone is late, and the run checks no liveness property. `ServerSessions_silence` has one
late socket and one that is not: `s1` may be haunted by `s2` but is itself forgotten.
`PresenceNetwork` uses two sockets (a client and either its peer or its own next process),
and `MaxWire = 1`: a client *moves* only while nobody else is behind by a message; all other
messages are unbounded and the join backfill puts up to three on a wire. `LocalStateSync` handles
`MaxMoves = 4` commands, more than one tick can overlap; its invariants are proved for every
`MaxMoves`. `ResourceRegistry`: `SmallManifests` is every graph of two listed resources, which may
need themselves or an unlisted one, and every graph of three that do not need themselves: cycles of
one, two and three, chains, shared and missing dependencies. `Updates`, the manifests that
may follow, is one without dependencies: `LoadManifest` forgets everything, so what matters is
that one follows at all; it also keeps the state space finite. The theorems need neither bound.
`ResourceDownload` has versions of 0, 2 and 3 blocks (0 turns the size checks off; two lengths make a
stale partial file shorter, as long, and longer than what is wanted), two attempts and two changes of
the server's file, enough for a call to meet three versions. `UpdateManager` has two releases of
three files: one file changes to content of the same size, one stays, one is no longer listed; two
later publications lead there and back again, damage happens once. `UpdateManager_rejected` needs one
publication. `ClientSession` counts in ticks of 5 s: heartbeats every 2, replies within 1, the
manifest within 2, dropped after 9, looked at every 3, `MaxDelay = 1` (it passes with 2 as well);
one `player_state` is under way at a time. `Interpolation` has angles on both sides of the wrap, the
opposite of 0 and a negative one; durations up to 2 ticks and five states, so four blends may be
interrupted one in the other, and `Unit = 16 = 2^4` makes each of their halves exact.

**Deadlock** is not checked: the server really stops after `shutdown()`, a client's input
may end and its run is over, moves, player states and publications are bounded, and
`LocalStateSync`, `ResourceRegistry` and `ResourceDownload` have nothing to do between commands or
when no version is advertised; a bootstrapper whose `version.json` is torn does not start again.

**Fairness.** `ServerSessions!Timers`: time passes and the watchdog's interval keeps firing, both
driven by Node's event loop; nothing is assumed of what clients send. `NetFairSpec`: a client's
reader and main thread are scheduled; nothing is assumed of users, the network or the server's
timers. `LocalStateSync!FairSpec`: the replication thread loops every 20 ms, time passes, a
command in hand completes; commands need not come. `ConnectionTeardown!FairSpec`: the client's two
threads run and the server handles what the wire delivers while it delivers; input ending,
drops, shutdown, network failure and its being noticed at either end (`ReaderFails`, `ServerFails`)
are free. `ResourceDownload!FairSpec`: a call that runs goes on
(WinHTTP's timeouts end every wait) and the client is started again; nothing is assumed of what the
server answers, which `SurvivesCuts` and `StalePartialNeverBlocks` have as a premise.
`UpdateManager!FairSpec`: the program goes on, except in a fetch that hangs, which nothing has to
end, and is started again once it is off; what a healthy network and disk
do is `UpdateCompletes`'s premise, and only "from some moment on". `ClientSession!FairSpec`: threads
run, the event loop turns, messages that are not lost arrive, time passes; cuts, kills, the user and
the end of a download are free.

## 4. Theorems

`tlapm <module>.tla` for the eight `*_proofs` modules. Each holds for every value of the constants that the
module's own assumptions allow; the third column says what a theorem assumes beyond them.

| Theorem | Says | Assumes |
|---|---|---|
| `TypeCorrect`, `RegistryCorrect`, `StateFlagsCorrect` | `[]TypeOK`, `[]RegistryMatchesSockets`, `[]StateMatchesFlags` | - |
| `NothingBeforeAuthCorrect`, `DropsAnnounced` | `[]NothingBeforeAuth`, the action property `DropsAreAnnounced` | - |
| `PresenceCompleteCorrect` | `[]PresenceComplete` | `OwnIdentities` |
| `GhostsAreLateCorrect` | `[]GhostsAreLate` | `OwnIdentities` |
| `BoardImplemented` | `Spec => ImplementsBoard` | `OwnIdentities` |
| `NetSpecIsSpec` | `NetSpec => Spec`: `PresenceNetwork` implements `ServerSessions` | - |
| `NetTypeCorrect`, `NoSelfReplicaCorrect`, `ReplicasAgreeCorrect` | `[]NetTypeOK`, `[]NoSelfReplica`, `[]ReplicasAgreeUnlessMissed` of `PresenceNetwork` | - |
| `ReplicasShowLastReported`, `ReplicasShowNoGhost` | a client that has caught up shows every other live player as that one last reported, and nobody but players of sockets that still speak; players it missed an event of excepted | `OwnIdentities` |
| `TeardownTypeCorrect`, `HandleOutlivesReaderCorrect`, `AckIsNoFailureCorrect` | `[]TypeOK`, `[]HandleOutlivesReader`, `[]AckIsNoFailure` of `ConnectionTeardown` | - |
| `CleanExitOnLiveConnection` | `[](server = "open" /\ network = "up" => CleanExit)` | - |
| `ApproachesTargetCorrect`, `ArrivesShortestWayCorrect`, `NoJumpCorrect` | `[]ApproachesTarget`, `[]ArrivesShortestWay`, the action property `NoJump` of `Interpolation` | - |
| `SyncTypeCorrect`, `LossNeedsOverlapCorrect` | `[]TypeOK`, `[]LossNeedsOverlap` of `LocalStateSync` | - |
| `RegistryTypeCorrect`, `OnlyVerifiedLoadsCorrect` | `[]TypeOK`, `[]OnlyVerifiedLoads` of `ResourceRegistry` | - |
| `DependenciesFirstCorrect` | the action property `DependenciesFirst` | - |
| `OutcomeCorrect` | the action property `OutcomeMatchesGraph` | `IsFiniteSet(Resource)` |
| `DownloadTypeCorrect`, `PrefixKept` | `[]TypeOK`, `[]PartialIsPrefix` of `ResourceDownload` | - |
| `StoreImplemented` | `Spec => ImplementsStore` | - |
| `UpdateTypeCorrect`, `OnlyListedCorrect` | `[]TypeOK`, the action property `OnlyListedInstalled` of `UpdateManager` | - |
| `FailedIsUntouchedCorrect`, `UpdatedIsPresentCorrect`, `FirstInstallCorrect` | `[]FailedIsUntouched`, `[]UpdatedIsPresent`, `[]FirstInstallIsVerified` | - |
| `SessionTypeCorrect` | `[]TypeOK` of `ClientSession` | - |
| `SilentIsDroppedCorrect`, `StopIsPromptCorrect` | `[]SilentIsDropped`, `[]StopIsPrompt` of `ClientSession` | - |
| `DisconnectIsLastCorrect`, `BeliefIsFactCorrect` | `[]DisconnectIsLast`, `[]BeliefIsFact` | - |
| `DroppedOnlyIfSlowCorrect` | `[]DroppedOnlyIfSlow` | - |

The assumptions are needed. Without `OwnIdentities` two live sessions carry one id and can have
reported different states, which no single view can hold, and the drop of one removes the player
of the other. Nothing is assumed of late messages: they bring a dropped session's player back, so
`NoGhost` does not hold, and `GhostsAreLate` and the board's `Haunt` are what is left of it. In an infinite chain of resources
each waits for the next without any cycle.

*Lifecycle* = `TypeOK /\ RegistryMatchesSockets /\ IdleIsFresh /\ StateMatchesFlags` is
inductive. `IdleIsFresh` is the strengthening: a socket not accepted yet has a session in its
initial state, without which `Connect` could register one that is already authenticated.

*PresenceInv* adds `IssuedIds` (a session carries only an id its socket may be issued),
`NothingBeforeAuth` and `OnlyOwnEvents` (before a session is authenticated nobody has been told of
the ids it may be issued, and it has reported no state). `PresenceComplete` then follows step by
step: `Auth` backfills the newcomer and tells the others, `PlayerState` stores and relays in one
callback, `Drop` removes the subject from the Map before it tells the rest. Without `IssuedIds` the
`Drop` of one session could erase another's player, which is what happens when identities are shared.

*BoardInv* = `Lifecycle /\ PresenceInv` is enough for the board: who begins to listen is shown the
roster, because `Auth` backfills from the Map what each of its sessions reported last. Each callback is
a change of the board or leaves it alone: `Auth` is `Enter`, or nothing when repeated; `PlayerState` is
`Move`; `Kick` is `CutOff`; every `Drop` is one `Leave` of all the players it removes. An `Auth` or
`PlayerState` of a session that is gone is `Haunt`: its player is in `over`, and by `IssuedIds` it
writes to that player's entry and no other.

*ReplicasFollow* is what makes the wire between server and client accountable. `Leads` says of a wire
and a player: what is on it, read to its end, takes the replica from what it is now to what the server
has told that socket. The invariant says of every listening client and every player but its own that
the wire leads there, or that the player is in `missed` and nothing on the wire settles it; a
client that has caught up has an empty wire, and `ReplicasAgreeUnlessMissed` is left. What the
server appends keeps it: one event changes `told` and lengthens the wire by the same
thing; a shutdown's `player_left`s and a newcomer's backfill are sequences in an order nobody chose, of
which the last message about the player decides; it is found as a greatest element of a finite set
of positions. A `Dispatch` takes the head off the wire and applies it, before `Subscribe` to nobody. No
assumption about identities is needed: two sessions of one id meet in `told` first, and the wire
only carries what is there. Together with `PresenceComplete` and `GhostsAreLate`, which hold in
the network by `NetSpecIsSpec`, it gives the two end-to-end theorems.

*TeardownInv* = `ControlInv /\ WireInv /\ ReportInv`. `HandleInv` follows the handle and the reader thread
through `Disconnect()`, step by step; `LeaveInv` says why a reader ever leaves: it was told to, the
server had ended the connection, or the connection had failed, and once main is past `shutdown()` `connected_` is false for good. The
wire part counts what each end may still write, so that no more than a farewell and a FIN is ever
under way; the report part follows `disconnectRequested_` from the request to the kick that answers it.

*Whole* says that positions, angles and clocks are whole numbers. The rest is arithmetic the SMT solver
is led through in small lemmas: a quotient by its two bounds (`DivBounds`, `DivUnique`), a blend's
progress growing with time and ending at the difference (`ProgressProperties`), the distance
between two angles and the least turn (`BetweenIs`, `LeastTurnProperties`), and that a new transition
starts where the old one was (`StartsWhereItWas`). Nothing needs divisions to be exact: rounding
towards the start is enough.

*SyncInv* is `TypeOK` in two halves plus `CommandCounted` (a command in hand leaves room below
`MaxMoves`) and `SnapshotCurrent`: as long as no change overlapped the tick, what it has read so
far is current, and what was sent is too once the flag is cleared.

*RegistryInv* = `TypeOK /\ Decided /\ OnlyVerifiedLoads /\ WaitsForTodo` is inductive. `Decided` says
that a listed resource is decided, cached, or still to be looked at: it is never seen halfway
through the table. `WaitsForTodo` says that what `LoadAll` has not come to depends on nothing but
decided resources and the rest of `todo`; it holds when `LoadAll` begins because `Doomed` is the
least set closed under failing dependencies (`SparedNeedsSpared`), and `DependenciesFirst` follows
from it and the queue's guard.

*GraphInv* carries `OutcomeMatchesGraph` through the loop. `Outcome(r)` says that what lacks
something has failed, and that what else has been decided needs nothing that still waits, is on no
cycle, and is loaded unless its own file was rejected. It holds when `LoadAll` begins because what is
doomed is exactly what lacks something (`DoomedIsLacking`: two least sets, each closed in the other's
sense), and is kept because a resource needs its dependencies and what they need, nothing else
(`NeedsOneStep`), and all of them are decided when the queue comes to it. At the end everything left
waits for something left, and then whoever waits is on a cycle or needs one (`StuckOnCycle`): of the
sets of waiting resources that the waiting resources it needs need themselves, a smallest one belongs
to a resource that needs itself. That is where finiteness is used.

*DownloadInv* = `TypeOK` plus *CallInv*: what is about to be renamed is what was asked for, a call that
runs has no answer yet, and a range is asked for from where the partial file ends. `StoreStep` maps
`Call` to the store's `Ask` or `Confirm`, `Rename` to `Install`, and everything else to `Fail` or a
stutter. *Blocks* is what `PartialIsPrefix` needs: while the server's file is the first one, every
block written or still to come is one of it, and together they are no more than the whole.

*RunInv* = `TypeOK /\ Loops`: while files are handled the manifest has been fetched, what is staged
and what is still to do are disjoint, listed, staged in full once the moving begins, and a plan item is worked off
once. `TargetSteps` lists the only steps that change an installed file (moves, removals, outside
damage); `StepKinds` says of every step which results it may write. `FailedIsUntouched` follows from
*Untouched*: until the first move, the installed files are those the run found, but for damage.
`UpdatedIsPresent` follows from *Present*: what the item in hand lists is in place, or is still to be
staged or moved, unless damaged. `FirstInstallIsVerified` needs *FirstInv*: until the ledger is written,
a first install is one whose executable was not there or whose runtime was not recorded, so a runtime
that was recorded and is not planned has no executable to launch.

*SilenceInv* is the inequality `quiet + watch <= LongestSilence`: the longer the silence, the sooner
the watchdog's next look. *StopInv* is the same for `stopping` and the timer of the reply a heartbeat
may still be waiting for. *Goodbye* says of every message on the way to the server that nothing is
behind a `disconnect`. *Belief* follows an `auth_result` from the server's handler over the channel and
`pendingReplies_` to the client: wherever one is, the session has been authenticated.

*TimelyInv* is the account of the heartbeat on its way. `OnTime` says where what keeps a session
alive, or ends it, is: in the channel, not yet too old; due from the heartbeat thread, whose timer and
the session's silence add up to less than the timeout; or still to begin, while the client's time to
get Ready is at least as long as the silence. It needs `InOrder` (messages arrive in the order sent, so
that if the oldest may still wait, all may), `Ends` (a session that lasts on a link that is up has a
client that can send, or the end of the connection on its way) and `Beats` (the thread runs from Ready
on, and not before). A session just heard of is on time whatever the client is doing (`HeardOfNow`),
which is where `HeartbeatEvery + ReplyWithin + MaxDelay <= DroppedAfter` is used: with the code's
values, the network may take up to 30 s of the 45.

*Aging* is what `ClientSession`'s types need of the channels: no message is older than one before it, so
when `Tick` finds the oldest young enough, none outlives `MaxDelay`. `Transmits` says what all
other steps may do to a channel. The rest of the types is in *SilenceInv*, *StopInv* and *TimelyInv*.

**Model-checked only.** Liveness (`SilentClientVanishes`, `MovingPlayerAppears`, `ChangeIsSent`,
`ClientTerminates`, `ShutdownFollowsClient`, `CallEnds`, `SurvivesCuts`, `StalePartialNeverBlocks`,
`UpdateCompletes`, `ReachesReady`, `GoneIsGone`): out of the prover's reach. Every other property of
the passing runs is a theorem.

## 5. Disagreements between the code and what is said of it

The violation runs, quoted in `PROJECT.json` under `findings`: `ConnectionTeardown_abort` and
`UpdateManager_rejected`. More that have no run. Where a module states the sentence as
well as what the code keeps of it, both are named:

* A session that is dropped with messages under way is handled further (`tcpServer.js:46`): its
  player can come back for everybody else, for good. `NoGhost` does not hold; `GhostsAreLate` does.
* `fetchManifest` never settles when the server closes the connection in the middle of the body:
  nothing listens to the response's `error` (`manifest.js:13-25`), so the bootstrapper stays at "fetching"
  and `bootstrap.js:55`, which would report "Update check unavailable", is not reached.
  `UpdateCompletes` excepts that wait, for as long as nobody closes the program.
* A client subscribes after it has asked to authenticate (`Runtime.cpp:221`), so events of its
  backfill may find no handler: `ReplicasConverge` against `ReplicasAgreeUnlessMissed`.
* Dropping the old session of a client that reconnected under its stored id (`tcpServer.js:28`)
  removes the player of the live session from everybody's view, and destroys the local player's
  entity in its own client: `LocalPlayerSurvives` against `NoSelfReplica`.
* `EntityManager::GetPlayer` hands out a raw pointer after releasing its lock, so that entity may
  still be in use by the control or replication thread, against `docs/synchronization.md:104`. The
  model lets that thread go on, with no effect on anyone.
* A value set while `Tick` is between reading and clearing the dirty flag is not sent:
  `LastChangeIsSent` against `LossNeedsOverlap`.
* `ResourceRegistry.h:59-63` lets a failure cascade to every dependent. One that is found while
  loading does not: `FailureCascades` against `OutcomeMatchesGraph`.
* `ResourceRegistry.h:31` says "Loading is only ever reachable from Cached"; the table, and
  `Reload`, also reach it from started and stopped. `OnlyVerifiedLoads` states the consequence
  drawn from it, which holds.
* `tcpServer.js:173` waits until every socket is closed, and a kicked client whose stdin stays open
  never closes its own: the server's shutdown then does not finish, while `docs/server.md:99` says
  what follows it "in that order". `ShutdownFollowsClient` says what does hold.
* `docs/networking.md:69` says that a session silent for more than 45 s is disconnected; the
  watchdog looks every 15 s, so it takes up to 60. `SilentIsDropped` has the bound.
* A client sends heartbeats only once it is Ready, so one whose downloads take longer than the
  timeout leaves is dropped before it sends any; `DroppedOnlyIfSlow` says how long they may take.
* `HttpDownloader.h:17` says of `maxAttempts` that it "retries a corrupted/interrupted transfer
  once"; a file that does not match its hash is not retried, the call ends.
* `docs/resources.md:147-149` calls a mismatch nothing "a later retry could resolve"; a mixture of two
  versions, resumed, is one, and `StalePartialNeverBlocks` says that a later call resolves it.
* `HttpDownloader.cpp:271-273` says that running out of attempts by restarts from zero has already
  returned; it has not, the call ends there too, with the partial file removed.
* `updateManager.js:53-56` says that a file deleted or truncated outside "still self-heals on the next
  run". It is looked at only if its component needs an update (`:71`); while the ledger equals the
  manifest nothing is. `UpdatedIsPresent` is what holds.
* `updateManager.js:94-99` says that a failure never leaves the target directory half-updated. An end of the
  process, or a rename that fails, between two renames does; `FailedIsUntouched` says so of
  failures before them, and `UpdateCompletes` that a later start finishes the work.
* A torn `version.json` makes every later start throw (`appData.js:44`); a file of the right size with
  other content is taken as unchanged; a file removed as obsolete just before a crash stays
  missing if the next release published is the one before. `UpdateCompletes` and `UpdatedIsPresent`
  are stated so that they do not hide behind these.
* `updateManager.js:80` retries errors whose message names a reset or a timeout; one that only says
  "aborted" fails the component at once.
* `tcpServer.js:122` broadcasts `player_ready` to its sender too; `docs/networking.md:56` says
  "other authenticated sessions".
* `docs/synchronization.md:78` says `player_left` is broadcast before the session is removed; the
  code removes it first, which is what keeps the leaver from being told of itself.

## 6. Not modelled

* JSON and line splitting, SHA-256, configuration, logs, availability probes, the stubs behind
  `GameIntegration` and `CacheService`, the user interface: no interacting state.
* Connect's failure paths in `ConnectionTeardown` (no thread, no socket yet; `ClientSession` has the
  failed connection), a `send()` that blocks on a full socket buffer, two client processes over one
  resource directory, a full disk.
* What a C++ program does after a data race (`kickReason_`) or with a freed entity, rounding of
  doubles, `Content-Length` beyond 32 bits.
* `broadcast` of the admin console (a `server_message` no client handles), `list` (reads only).
* Electron's window and the relaying of the client's output.

## 7. Plan

What is left, in the order of what it would add:

1. An abstract specification of an installation that `UpdateManager` implements, as
   `VerifiedStore` is of a download.
2. `ConnectionTeardown` with two clients and the server's HTTP side, for `main.js`'s whole shutdown.

Related questions share a run, so that each component keeps one passing run for safety and
liveness together where its fairness allows.
