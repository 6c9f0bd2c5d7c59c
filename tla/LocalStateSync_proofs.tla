----------------------- MODULE LocalStateSync_proofs -----------------------
(* What holds of LocalStateSync for every number of control commands. *)
EXTENDS LocalStateSync, TLAPS

Flags ==
  /\ alive \in BOOLEAN
  /\ dirty \in BOOLEAN
  /\ throttled \in BOOLEAN
  /\ control \in Field \cup {"idle", "mark dirty"}
  /\ tick \in {"idle", "read position", "read rotation", "send", "clear dirty"}
  /\ overlap \in BOOLEAN

Counters ==
  /\ current \in [Field -> Versions]
  /\ snapshot \in [Field -> -1 .. MaxMoves] /\ \A f \in Field : snapshot[f] <= current[f]
  /\ sent \in [Field -> -1 .. MaxMoves] /\ \A f \in Field : sent[f] <= snapshot[f]

\* The command in hand is one of the first MaxMoves.
CommandCounted == control \in Field => current["position"] + current["rotation"] < MaxMoves

Same(a, b) == \A f \in Field : a[f] = b[f]

\* As long as no value was set since Tick began, what it has read so far, and
\* what it sent, is what the entity holds.
SnapshotCurrent ==
  ~overlap =>
    /\ tick = "read rotation" => snapshot["position"] = current["position"]
    /\ tick = "send" => Same(snapshot, current)
    /\ tick = "clear dirty" => Same(sent, current)
    /\ tick = "idle" /\ ~dirty => Same(sent, current)

SyncInv == Flags /\ Counters /\ CommandCounted /\ SnapshotCurrent

LEMMA TypeParts == TypeOK <=> Flags /\ Counters
BY DEF TypeOK, Flags, Counters

\* The counters are numbers.
LEMMA CountersAreIntegers ==
  ASSUME Counters
  PROVE  \A f \in Field : current[f] \in Nat /\ snapshot[f] \in Int /\ sent[f] \in Int
BY MaxMovesAssumption DEF Counters, Versions

LEMMA SyncInit == Init => SyncInv
<1> SUFFICES ASSUME Init PROVE SyncInv
  OBVIOUS
<1>1. Counters
  BY MaxMovesAssumption DEF Init, Counters, Nothing, Versions
<1>2. Flags
  BY DEF Init, Flags
<1>3. CommandCounted /\ SnapshotCurrent
  BY DEF Init, CommandCounted, SnapshotCurrent, Field
<1> QED BY <1>1, <1>2, <1>3 DEF SyncInv
-----------------------------------------------------------------------------
(* The control thread *)

\* Setting a field counts its next version.
LEMMA SetFieldCounts ==
  ASSUME Counters, CommandCounted, NEW f \in Field, SetField(f)
  PROVE  Counters'
<1>1. \A g \in Field : current'[g] = IF g = f THEN current[g] + 1 ELSE current[g]
  BY DEF SetField, Counters
<1>2. current[f] + 1 \in Versions
  <2>1. current["position"] + current["rotation"] < MaxMoves
    BY DEF SetField, CommandCounted
  <2>2. /\ current["position"] \in Nat
        /\ current["rotation"] \in Nat
        /\ f = "position" \/ f = "rotation"
    BY CountersAreIntegers DEF Field
  <2> QED BY <2>1, <2>2, MaxMovesAssumption DEF Versions
<1>3. current' \in [Field -> Versions]
  BY <1>2 DEF SetField, Counters
<1>4. \A g \in Field : snapshot[g] <= current'[g]
  <2>1. \A g \in Field : snapshot[g] <= current[g]
    BY DEF Counters
  <2> QED BY <1>1, <2>1, CountersAreIntegers
<1> QED BY <1>3, <1>4 DEF SetField, Counters

LEMMA SyncControl == ASSUME SyncInv, Control PROVE SyncInv'
<1>1. ASSUME NEW f \in Field, GetLocal(f) PROVE SyncInv'
  BY <1>1 DEF GetLocal, SyncInv, Flags, Counters, CommandCounted, SnapshotCurrent, Same
<1>2. ASSUME NEW f \in Field, SetField(f) PROVE SyncInv'
  <2>1. Counters'
    BY <1>2, SetFieldCounts DEF SyncInv
  <2>2. Flags'
    BY <1>2 DEF SetField, SyncInv, Flags
  <2>3. CommandCounted' /\ SnapshotCurrent'
    BY <1>2 DEF SetField, CommandCounted, SnapshotCurrent, Field
  <2> QED BY <2>1, <2>2, <2>3 DEF SyncInv
<1>3. ASSUME MarkDirty PROVE SyncInv'
  <2>1. Flags' /\ Counters'
    BY <1>3 DEF MarkDirty, SyncInv, Flags, Counters
  <2>2. CommandCounted' /\ SnapshotCurrent'
    BY <1>3 DEF MarkDirty, SyncInv, CommandCounted, SnapshotCurrent, Same, Field
  <2> QED BY <2>1, <2>2 DEF SyncInv
<1> QED BY <1>1, <1>2, <1>3 DEF Control
-----------------------------------------------------------------------------
(* The replication thread *)

\* Reading one field keeps the snapshot behind the entity and ahead of what
\* was sent.
LEMMA ReadCounts ==
  ASSUME Counters, NEW f \in Field, snapshot' = [snapshot EXCEPT ![f] = current[f]],
         UNCHANGED <<current, sent>>
  PROVE  Counters'
<1>1. \A g \in Field : snapshot'[g] = IF g = f THEN current[g] ELSE snapshot[g]
  BY DEF Counters
<1>2. \A g \in Field : sent[g] <= snapshot[g] /\ snapshot[g] <= current[g]
  BY DEF Counters
<1>3. \A g \in Field : sent[g] <= snapshot'[g] /\ snapshot'[g] <= current[g]
  BY <1>1, <1>2, CountersAreIntegers
<1>4. snapshot' \in [Field -> -1 .. MaxMoves]
  BY MaxMovesAssumption DEF Counters, Versions
<1> QED BY <1>3, <1>4 DEF Counters

LEMMA SyncTick == ASSUME SyncInv, Tick PROVE SyncInv'
<1>1. CASE TickStart
  BY <1>1 DEF TickStart, SyncInv, Flags, Counters, CommandCounted, SnapshotCurrent
<1>2. CASE ReadPosition
  <2>1. "position" \in Field
    BY DEF Field
  <2>2. Counters'
    BY <1>2, <2>1, ReadCounts DEF ReadPosition, SyncInv
  <2>3. SnapshotCurrent'
    BY <1>2, <2>1 DEF ReadPosition, SnapshotCurrent, SyncInv, Counters
  <2> QED BY <1>2, <2>2, <2>3 DEF ReadPosition, SyncInv, Flags, CommandCounted
<1>3. CASE ReadRotation
  <2>1. "rotation" \in Field
    BY DEF Field
  <2>2. Counters'
    BY <1>3, <2>1, ReadCounts DEF ReadRotation, SyncInv
  <2>3. ~overlap => Same(snapshot', current)
    BY <1>3, <2>1 DEF ReadRotation, SnapshotCurrent, Same, Field, SyncInv, Counters
  <2>4. SnapshotCurrent'
    BY <1>3, <2>3 DEF ReadRotation, SnapshotCurrent, Same
  <2> QED BY <1>3, <2>2, <2>4 DEF ReadRotation, SyncInv, Flags, CommandCounted
<1>4. CASE SendState
  <2>1. Counters'
    <3>1. \A f \in Field : snapshot[f] <= snapshot[f]
      BY CountersAreIntegers DEF SyncInv
    <3> QED BY <1>4, <3>1 DEF SendState, SyncInv, Counters
  <2>2. Flags' /\ CommandCounted'
    BY <1>4 DEF SendState, SyncInv, Flags, CommandCounted
  <2>3. SnapshotCurrent'
    BY <1>4 DEF SendState, SyncInv, SnapshotCurrent, Same
  <2> QED BY <2>1, <2>2, <2>3 DEF SyncInv
<1>5. CASE ClearDirty
  <2>1. Flags' /\ Counters' /\ CommandCounted'
    BY <1>5 DEF ClearDirty, SyncInv, Flags, Counters, CommandCounted
  <2>2. SnapshotCurrent'
    BY <1>5 DEF ClearDirty, SyncInv, SnapshotCurrent, Same
  <2> QED BY <2>1, <2>2 DEF SyncInv
<1> QED BY <1>1, <1>2, <1>3, <1>4, <1>5 DEF Tick
-----------------------------------------------------------------------------
LEMMA SyncStep == SyncInv /\ [Next]_vars => SyncInv'
<1> SUFFICES ASSUME SyncInv, [Next]_vars PROVE SyncInv'
  OBVIOUS
<1> USE DEF SyncInv, Flags, Counters, CommandCounted, SnapshotCurrent, Same
<1>1. CASE Control
  BY <1>1, SyncControl
<1>2. CASE Tick
  BY <1>2, SyncTick
<1>3. CASE IntervalPasses
  BY <1>3 DEF IntervalPasses
<1>4. CASE OwnPlayerLeft
  BY <1>4 DEF OwnPlayerLeft
<1>5. CASE UNCHANGED vars
  BY <1>5 DEF vars
<1> QED BY <1>1, <1>2, <1>3, <1>4, <1>5 DEF Next

\* Whatever the number of commands, nothing is sent that the player's entity
\* never held (Replication.cpp:37-53).
THEOREM SyncTypeCorrect == Spec => []TypeOK
<1>1. SyncInv => TypeOK
  BY TypeParts DEF SyncInv
<1> QED BY <1>1, SyncInit, SyncStep, PTL DEF Spec

\* A change can only be lost if it is made while Tick is between its first
\* read and the clearing of the flag (Replication.cpp:44-52).
THEOREM LossNeedsOverlapCorrect == Spec => []LossNeedsOverlap
<1>1. SyncInv => LossNeedsOverlap
  <2> SUFFICES ASSUME SyncInv, Quiet, ~overlap PROVE sent = current
    BY DEF LossNeedsOverlap
  <2>1. Same(sent, current)
    BY DEF SyncInv, SnapshotCurrent, Quiet
  <2>2. sent \in [Field -> -1 .. MaxMoves] /\ current \in [Field -> Versions]
    BY DEF SyncInv, Counters
  <2> QED BY <2>1, <2>2 DEF Same
<1> QED BY <1>1, SyncInit, SyncStep, PTL DEF Spec
=============================================================================
