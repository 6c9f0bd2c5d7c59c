---------------------------- MODULE Interpolation ----------------------------
(***************************************************************************)
(* How a remote player's movement is smoothed: InterpolatedEntity          *)
(* (Interpolation.cpp, .h) as Replication uses it.  The reader thread sets *)
(* a target per player_state, at a time it read before it took the lock;   *)
(* others ask for the state at a time they read before they took it.       *)
(*                                                                         *)
(* One coordinate and one angle stand for three of each; basicState is     *)
(* always the target's and is left out.  Numbers are exact: a coordinate   *)
(* or degree is Unit steps, and Unit can be divided as often as a          *)
(* transition may be interrupted.                                          *)
(***************************************************************************)
EXTENDS Integers

CONSTANTS
  Position, Angle, \* what player_states carry, in whole coordinates and degrees
  Duration,        \* the interpolationDurationMs there may be, in ticks
  Unit,            \* steps per coordinate, and per degree
  MaxTargets,      \* bound: player_states for one player
  MaxLag           \* bound: ticks between reading the clock and having the lock

ASSUME ValuesAssumption ==
  Position \subseteq Int /\ Angle \subseteq Int /\ Duration \subseteq Nat /\ Unit \in Nat \ {0}
ASSUME DurationAssumption == \E d \in Duration : \A e \in Duration : e <= d
ASSUME BoundsAssumption == MaxTargets \in Nat /\ MaxLag \in Nat

VARIABLES
  hasTarget,   \* hasTarget_
  previous,    \* previous_
  target,      \* target_
  elapsed,     \* the time now, less transitionStartMs_
  duration,    \* durationMs_
  targets      \* player_states so far

vars == <<hasTarget, previous, target, elapsed, duration, targets>>

Turn == 360 * Unit
Snapshot == [position : {p * Unit : p \in Position}, rotation : {a * Unit : a \in Angle}]
Origin == [position |-> 0, rotation |-> 0]

\* Bound: past this, time makes no difference.
MaxElapsed == MaxLag + CHOOSE d \in Duration : \A e \in Duration : e <= d

\* std::fmod(): the sign is the dividend's.
Fmod(a, b) == IF a >= 0 THEN a % b ELSE -((-a) % b)

\* t is n / d.
Lerp(from, to, n, d) == from + ((to - from) * n) \div d

\* Mutant: the angle is blended like a coordinate.
LerpAnglePlain(from, to, n, d) == Lerp(from, to, n, d)

LerpAngle(from, to, n, d) ==
  LET rest == Fmod(to - from + Turn \div 2, Turn)
      delta == (IF rest < 0 THEN rest + Turn ELSE rest) - Turn \div 2
  IN from + (delta * n) \div d

\* Mutant: t is not clamped.
BlendUnclamped(e) == IF duration > 0 THEN <<e, duration>> ELSE <<1, 1>>

\* t, as a fraction, e ticks after the transition started.
Blend(e) ==
  IF duration = 0 \/ e > duration THEN <<1, 1>>
  ELSE IF e < 0 THEN <<0, 1>>
  ELSE <<e, duration>>

\* Current(), e ticks after the transition started.
Current(e) ==
  LET t == Blend(e)
  IN IF hasTarget
     THEN [position |-> Lerp(previous.position, target.position, t[1], t[2]),
           rotation |-> LerpAngle(previous.rotation, target.rotation, t[1], t[2])]
     ELSE Origin

Init ==
  /\ hasTarget = FALSE
  /\ previous = Origin /\ target = Origin
  /\ elapsed = 0
  /\ duration \in Duration
  /\ targets = 0

\* Mutant: the blend starts from the snapshot before.
SetTargetFromSnapshot(new, lag) ==
  /\ targets < MaxTargets
  /\ lag <= elapsed
  /\ previous' = IF hasTarget THEN target ELSE new
  /\ target' = new
  /\ elapsed' = lag
  /\ hasTarget' = TRUE
  /\ targets' = targets + 1
  /\ UNCHANGED duration

\* SetTarget(new), at a time lag ticks ago.
SetTarget(new, lag) ==
  /\ targets < MaxTargets
  /\ lag <= elapsed
  /\ previous' = IF hasTarget THEN Current(elapsed - lag) ELSE new
  /\ target' = new
  /\ elapsed' = lag
  /\ hasTarget' = TRUE
  /\ targets' = targets + 1
  /\ UNCHANGED duration

\* OnPlayerLeft() erases the interpolator.
Leave ==
  /\ hasTarget
  /\ hasTarget' = FALSE
  /\ previous' = Origin /\ target' = Origin
  /\ elapsed' = 0
  /\ UNCHANGED <<duration, targets>>

Tick ==
  /\ elapsed < MaxElapsed
  /\ elapsed' = elapsed + 1
  /\ UNCHANGED <<hasTarget, previous, target, duration, targets>>

Next == Tick \/ Leave \/ \E new \in Snapshot, lag \in 0 .. MaxLag : SetTarget(new, lag)

Spec == Init /\ [][Next]_vars
-----------------------------------------------------------------------------
(* Properties *)

\* What may be asked for: the moment now, or one a reader took before it waited.
Moment == (-MaxLag) .. MaxElapsed

Distance(a, b) == IF a <= b THEN b - a ELSE a - b

\* The least turn from one angle to the other, however many turns are in them.
Between(a, b) == LET d == Distance(a, b) % Turn IN IF 2 * d <= Turn THEN d ELSE Turn - d

\* Every variable keeps its type, no division loses anything, and an angle is
\* further from a snapshot by half a turn per finished blend at most: it is never
\* brought back to one turn, so that an entity that keeps turning one way
\* keeps counting up.
TypeOK ==
  LET Reach == (Turn \div 2) * (IF targets < 2 THEN 0 ELSE targets - 2)
  IN /\ hasTarget \in BOOLEAN
     /\ target \in Snapshot \cup {Origin}
     /\ \E a \in Angle \cup {0} : Distance(previous.rotation, a * Unit) <= Reach
     /\ duration > 0 /\ hasTarget => ((target.position - previous.position) * elapsed) % duration = 0
     /\ elapsed \in 0 .. MaxElapsed
     /\ duration \in Duration
     /\ targets \in 0 .. MaxTargets

\* The entity shown moves towards its target from where it was, never away
\* and never past it, whatever moment is asked for, one before the target was
\* set among them; and turns the same way.
ApproachesTarget ==
  hasTarget => \A e \in Moment :
    /\ Distance(Current(e).position, target.position) <= Distance(previous.position, target.position)
    /\ e + 1 \in Moment =>
         /\ Distance(Current(e + 1).position, target.position)
              <= Distance(Current(e).position, target.position)
         /\ Between(Current(e + 1).rotation, target.rotation)
              <= Between(Current(e).rotation, target.rotation)

\* When the duration is over, at once if it is 0, the entity is where the
\* target says, in an angle that is the same to a whole number of turns, and
\* has turned by exactly the least angle, "350 degrees to 10 degrees" by 20
\* (Interpolation.cpp:13-15), also between angles that already count several
\* turns.
ArrivesShortestWay ==
  hasTarget => \A e \in Moment : e >= duration =>
    /\ Current(e).position = target.position
    /\ Between(Current(e).rotation, target.rotation) = 0
    /\ Distance(Current(e).rotation, previous.rotation) = Between(previous.rotation, target.rotation)

\* A new target changes nothing of what is shown for the moment it is set at:
\* "a late-arriving update never causes a visible jump back"
\* (Interpolation.h:13-15).  The first one is shown at once.
NoJump ==
  [][targets' # targets =>
       IF hasTarget /\ duration > 0
       THEN Current(0)' = Current(elapsed - elapsed')
       ELSE /\ Current(0)'.position = target'.position
            /\ Between(Current(0)'.rotation, target'.rotation) = 0]_vars
=============================================================================
