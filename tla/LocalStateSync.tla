--------------------------- MODULE LocalStateSync ---------------------------
(***************************************************************************)
(* The local player's state inside one client: Replication::SetLocalPosition *)
(* and SetLocalRotation on the thread that reads control commands,         *)
(* Replication::Tick on the replication thread, and the reader thread,     *)
(* which may destroy the local player's entity (Replication.cpp:23-53,     *)
(* 66-75).                                                                 *)
(*                                                                         *)
(* EntityManager and Entity lock inside each call and the dirty flag is    *)
(* atomic, so each call is one action; nothing spans two of them.          *)
(* Position and rotation are counted: version n is the nth value set.      *)
(***************************************************************************)
EXTENDS Integers

CONSTANT MaxMoves   \* bound: control commands handled

ASSUME MaxMovesAssumption == MaxMoves \in Nat

VARIABLES
  current,   \* the entity's position and rotation
  alive,     \* whether the EntityManager still owns the local player
  dirty,     \* localStateDirty_
  throttled, \* nowMs - lastSentMs_ < syncIntervalMs_
  control,   \* where the control thread is in SetLocalPosition/Rotation
  tick,      \* where the replication thread is in Tick
  snapshot,  \* the NetworkState Tick is filling
  sent,      \* the last player_state sent; versions -1: none yet
  overlap    \* auxiliary: a value was set since the current or last Tick began reading

vars == <<current, alive, dirty, throttled, control, tick, snapshot, sent, overlap>>

Field == {"position", "rotation"}
Versions == 0 .. MaxMoves
Nothing == [f \in Field |-> -1]

Init ==
  /\ current = [f \in Field |-> 0]
  /\ alive = TRUE
  /\ dirty = TRUE
  /\ throttled = FALSE
  /\ control = "idle"
  /\ tick = "idle"
  /\ snapshot = Nothing
  /\ sent = Nothing
  /\ overlap = FALSE
-----------------------------------------------------------------------------
(* SetLocalPosition and SetLocalRotation: control is the field in hand.    *)

GetLocal(f) ==
  /\ control = "idle"
  /\ alive
  /\ current["position"] + current["rotation"] < MaxMoves
  /\ control' = f
  /\ UNCHANGED <<current, alive, dirty, throttled, tick, snapshot, sent, overlap>>

SetField(f) ==
  /\ control = f
  /\ current' = [current EXCEPT ![f] = @ + 1]
  /\ overlap' = TRUE
  /\ control' = "mark dirty"
  /\ UNCHANGED <<alive, dirty, throttled, tick, snapshot, sent>>

MarkDirty ==
  /\ control = "mark dirty"
  /\ dirty' = TRUE
  /\ control' = "idle"
  /\ UNCHANGED <<current, alive, throttled, tick, snapshot, sent, overlap>>
-----------------------------------------------------------------------------
(* Tick *)

\* Mutant: the flag is cleared before the throttle is consulted.
TickStartClears ==
  /\ tick = "idle"
  /\ dirty
  /\ alive
  /\ IF throttled
     THEN dirty' = FALSE /\ UNCHANGED tick
     ELSE tick' = "read position" /\ UNCHANGED dirty
  /\ overlap' = FALSE
  /\ UNCHANGED <<current, alive, throttled, control, snapshot, sent>>

\* Past the two early returns, with the local player in hand.
TickStart ==
  /\ tick = "idle"
  /\ dirty
  /\ ~throttled
  /\ alive
  /\ tick' = "read position"
  /\ overlap' = FALSE
  /\ UNCHANGED <<current, alive, dirty, throttled, control, snapshot, sent>>

ReadPosition ==
  /\ tick = "read position"
  /\ snapshot' = [snapshot EXCEPT !["position"] = current["position"]]
  /\ tick' = "read rotation"
  /\ UNCHANGED <<current, alive, dirty, throttled, control, sent, overlap>>

ReadRotation ==
  /\ tick = "read rotation"
  /\ snapshot' = [snapshot EXCEPT !["rotation"] = current["rotation"]]
  /\ tick' = "send"
  /\ UNCHANGED <<current, alive, dirty, throttled, control, sent, overlap>>

SendState ==
  /\ tick = "send"
  /\ sent' = snapshot
  /\ throttled' = TRUE
  /\ tick' = "clear dirty"
  /\ UNCHANGED <<current, alive, dirty, control, snapshot, overlap>>

ClearDirty ==
  /\ tick = "clear dirty"
  /\ dirty' = FALSE
  /\ tick' = "idle"
  /\ UNCHANGED <<current, alive, throttled, control, snapshot, sent, overlap>>

\* syncIntervalMs_ have passed since lastSentMs_.
IntervalPasses ==
  /\ throttled
  /\ throttled' = FALSE
  /\ UNCHANGED <<current, alive, dirty, control, tick, snapshot, sent, overlap>>
-----------------------------------------------------------------------------
\* The reader thread handles a player_left that carries the client's own id
\* (see PresenceNetwork).  A thread that has the raw pointer in hand goes on
\* with it; what it reads or writes there then reaches nobody.
OwnPlayerLeft ==
  /\ alive
  /\ alive' = FALSE
  /\ UNCHANGED <<current, dirty, throttled, control, tick, snapshot, sent, overlap>>

Control == (\E f \in Field : GetLocal(f) \/ SetField(f)) \/ MarkDirty
Tick == TickStart \/ ReadPosition \/ ReadRotation \/ SendState \/ ClearDirty

Next == Control \/ Tick \/ IntervalPasses \/ OwnPlayerLeft

Spec == Init /\ [][Next]_vars

\* The replication thread loops every 20 ms and time passes; that commands
\* come is not assumed, but a command that is being handled completes.
FairSpec ==
  /\ Spec
  /\ WF_vars(Tick)
  /\ WF_vars(IntervalPasses)
  /\ WF_vars((\E f \in Field : SetField(f)) \/ MarkDirty)
-----------------------------------------------------------------------------
(* Properties *)

\* Every variable keeps its type, and no version is read or sent before the
\* player's entity had it.
TypeOK ==
  /\ current \in [Field -> Versions]
  /\ alive \in BOOLEAN
  /\ dirty \in BOOLEAN
  /\ throttled \in BOOLEAN
  /\ control \in Field \cup {"idle", "mark dirty"}
  /\ tick \in {"idle", "read position", "read rotation", "send", "clear dirty"}
  /\ snapshot \in [Field -> -1 .. MaxMoves] /\ \A f \in Field : snapshot[f] <= current[f]
  /\ sent \in [Field -> -1 .. MaxMoves] /\ \A f \in Field : sent[f] <= snapshot[f]
  /\ overlap \in BOOLEAN

Quiet == control = "idle" /\ tick = "idle" /\ ~dirty

\* With nothing marked dirty and nothing under way, the peers have the
\* player's current state: it is sent "whenever the local player's state
\* changed since the last send" (networking.md:45).  The code does not keep it.
LastChangeIsSent == Quiet => sent = current

\* The only way to lose a change is to make it while Tick is between its
\* first read and clearing the flag.
LossNeedsOverlap == Quiet /\ ~overlap => sent = current

\* A change that is completed while Tick is not sending is sent, or a later
\* one is, however long the throttle holds it back, as long as there is a
\* local player; so is the initial state.
ChangeIsSent ==
  \A f \in Field : \A v \in Versions :
    (current[f] = v /\ control = "idle" /\ tick = "idle" /\ dirty) ~> (sent[f] >= v \/ ~alive)
=============================================================================
