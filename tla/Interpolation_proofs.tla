------------------------ MODULE Interpolation_proofs -------------------------
(***************************************************************************)
(* Theorems about Interpolation for any positions, angles, durations and   *)
(* numbers of targets, and any Unit: no division has to be exact, it is    *)
(* enough that what is left over is rounded down.                          *)
(***************************************************************************)
EXTENDS Interpolation, TLAPS

(* Whole divisions *)

LEMMA DivBounds ==
  ASSUME NEW a \in Int, NEW d \in Nat \ {0}
  PROVE  /\ a \div d \in Int
         /\ d * (a \div d) <= a
         /\ a < d * (a \div d) + d
OBVIOUS

LEMMA DivUnique ==
  ASSUME NEW a \in Int, NEW d \in Nat \ {0}, NEW q \in Int, d * q <= a, a < d * q + d
  PROVE  a \div d = q
OBVIOUS

LEMMA ModUnique ==
  ASSUME NEW a \in Int, NEW d \in Nat \ {0}, NEW k \in Int, NEW r \in Int,
         0 <= r, r < d, a = d * k + r
  PROVE  a % d = r
OBVIOUS

\* What remains, and the whole part it remains of.
LEMMA ModBounds ==
  ASSUME NEW a \in Int, NEW d \in Nat \ {0}
  PROVE  /\ a % d \in Int /\ 0 <= a % d /\ a % d < d
         /\ \E k \in Int : a = d * k + (a % d)
<1>1. PICK k : k = a \div d
  OBVIOUS
<1>2. k \in Int /\ d * k <= a /\ a < d * k + d
  BY <1>1, DivBounds
<1>3. d * k \in Int
  BY <1>2
<1>4. PICK r : r = a - d * k
  OBVIOUS
<1>5. r \in Int /\ 0 <= r /\ r < d /\ a = d * k + r
  BY <1>2, <1>3, <1>4
<1>6. a % d = r
  BY <1>2, <1>5, ModUnique
<1> QED BY <1>2, <1>5, <1>6

LEMMA ProductMonotone ==
  ASSUME NEW d \in Nat, NEW p \in Int, NEW q \in Int, p <= q
  PROVE  d * p <= d * q /\ d * p \in Int /\ d * q \in Int
OBVIOUS

LEMMA DivMonotone ==
  ASSUME NEW a \in Int, NEW b \in Int, NEW d \in Nat \ {0}, a <= b
  PROVE  a \div d <= b \div d
<1>1. PICK p, q : p = a \div d /\ q = b \div d
  OBVIOUS
<1>2. p \in Int /\ q \in Int /\ d * p <= a /\ b < d * q + d
  BY <1>1, DivBounds
<1>3. SUFFICES ASSUME p > q PROVE FALSE
  BY <1>1, <1>2
<1>4. q + 1 \in Int /\ q + 1 <= p
  BY <1>2, <1>3
<1>5. d * (q + 1) <= d * p /\ d * (q + 1) \in Int /\ d * p \in Int
  BY <1>2, <1>4, ProductMonotone
<1>6. d * (q + 1) = d * q + d /\ d * q \in Int
  BY <1>2
<1> QED BY <1>2, <1>5, <1>6

\* A part of x, n of d equal ones of it.
LEMMA PartBounds ==
  ASSUME NEW x \in Int, NEW d \in Nat \ {0}, NEW n \in 0 .. d
  PROVE  /\ (x * n) \div d \in Int
         /\ x >= 0 => 0 <= (x * n) \div d /\ (x * n) \div d <= x
         /\ x <= 0 => x <= (x * n) \div d /\ (x * n) \div d <= 0
         /\ n = d => (x * n) \div d = x
         /\ n = 0 => (x * n) \div d = 0
<1>1. x * n \in Int /\ x * d \in Int /\ n \in Nat
  OBVIOUS
<1>2. (x * n) \div d \in Int
  BY <1>1, DivBounds
<1>3. (x * d) \div d = x
  BY <1>1, DivUnique
<1>4. 0 \div d = 0
  BY DivUnique
<1>5. x >= 0 => 0 <= x * n /\ x * n <= x * d
  BY <1>1, ProductMonotone
<1>6. x <= 0 => x * d <= x * n /\ x * n <= 0
  BY <1>1
<1>7. n = 0 => x * n = 0
  OBVIOUS
<1>8. /\ x >= 0 => 0 \div d <= (x * n) \div d /\ (x * n) \div d <= (x * d) \div d
      /\ x <= 0 => (x * d) \div d <= (x * n) \div d /\ (x * n) \div d <= 0 \div d
  BY <1>1, <1>5, <1>6, DivMonotone
<1> QED BY <1>2, <1>3, <1>4, <1>7, <1>8

LEMMA PartMonotone ==
  ASSUME NEW x \in Int, NEW d \in Nat \ {0}, NEW n \in Nat
  PROVE  /\ x >= 0 => (x * n) \div d <= (x * (n + 1)) \div d
         /\ x <= 0 => (x * (n + 1)) \div d <= (x * n) \div d
<1>1. x * n \in Int /\ x * (n + 1) \in Int
  OBVIOUS
<1>2. x * (n + 1) = x * n + x
  OBVIOUS
<1>3. /\ x >= 0 => x * n <= x * (n + 1)
      /\ x <= 0 => x * (n + 1) <= x * n
  BY <1>1, <1>2
<1> QED BY <1>1, <1>3, DivMonotone
-----------------------------------------------------------------------------
(* The state *)

\* Numbers are whole, whatever has been blended so far.
Whole ==
  /\ hasTarget \in BOOLEAN
  /\ previous \in [position : Int, rotation : Int]
  /\ target \in [position : Int, rotation : Int]
  /\ elapsed \in Int
  /\ duration \in Nat

LEMMA TurnIsEven ==
  /\ Turn \in Nat \ {0}
  /\ Turn \div 2 \in Nat /\ 2 * (Turn \div 2) = Turn
<1>1. Unit \in Nat \ {0}
  BY ValuesAssumption
<1>2. Turn = 360 * Unit /\ Turn = 2 * (180 * Unit)
  BY <1>1 DEF Turn
<1>3. Turn \in Nat \ {0} /\ 180 * Unit \in Nat
  BY <1>1 DEF Turn
<1>4. Turn \div 2 = 180 * Unit
  BY <1>1, <1>2, <1>3, DivUnique
<1> QED BY <1>2, <1>3, <1>4

LEMMA MomentsAreWhole ==
  /\ MaxElapsed \in Nat
  /\ \A e \in Moment : e \in Int
<1>1. PICK d \in Duration : \A e \in Duration : e <= d
  BY DurationAssumption
<1>2. \A e \in Duration : (CHOOSE x \in Duration : \A y \in Duration : y <= x) \in Nat
  BY <1>1, ValuesAssumption
<1>3. MaxElapsed \in Nat
  BY <1>1, <1>2, BoundsAssumption DEF MaxElapsed
<1>4. -MaxLag \in Int
  BY BoundsAssumption
<1> QED BY <1>3, <1>4 DEF Moment

\* How much of the difference x is made up e ticks after the transition started.
Progress(x, e) == (x * Blend(e)[1]) \div Blend(e)[2]

\* What is made up has the sign of the difference, never exceeds it and never
\* shrinks; it is nothing when the transition starts and all of it at its end.
LEMMA ProgressProperties ==
  ASSUME duration \in Nat, NEW x \in Int, NEW e \in Int
  PROVE  /\ Progress(x, e) \in Int
         /\ x >= 0 => 0 <= Progress(x, e) /\ Progress(x, e) <= x
         /\ x <= 0 => x <= Progress(x, e) /\ Progress(x, e) <= 0
         /\ e >= duration => Progress(x, e) = x
         /\ e <= 0 /\ duration > 0 => Progress(x, e) = 0
         /\ x >= 0 => Progress(x, e) <= Progress(x, e + 1)
         /\ x <= 0 => Progress(x, e + 1) <= Progress(x, e)
<1> DEFINE Done(i) == duration = 0 \/ i > duration
<1>1. (x * 1) \div 1 = x /\ (x * 0) \div 1 = 0
  <2>1. x * 1 = x /\ x * 0 = 0
    OBVIOUS
  <2> QED BY <2>1, DivUnique
<1>2. ASSUME NEW i \in Int, Done(i) PROVE Progress(x, i) = x
  <2>1. Blend(i) = <<1, 1>>
    BY <1>2 DEF Blend
  <2> QED BY <1>1, <2>1 DEF Progress
<1>3. ASSUME NEW i \in Int, ~Done(i), i < 0 PROVE Progress(x, i) = 0
  <2>1. Blend(i) = <<0, 1>>
    BY <1>3 DEF Blend
  <2> QED BY <1>1, <2>1 DEF Progress
<1>4. ASSUME NEW i \in Int, ~Done(i), ~(i < 0)
      PROVE  /\ duration \in Nat \ {0} /\ i \in 0 .. duration
             /\ Progress(x, i) = (x * i) \div duration
  <2>1. Blend(i) = <<i, duration>>
    BY <1>4 DEF Blend
  <2> QED BY <1>4, <2>1 DEF Progress
<1>5. ASSUME NEW i \in Int
      PROVE  /\ Progress(x, i) \in Int
             /\ x >= 0 => 0 <= Progress(x, i) /\ Progress(x, i) <= x
             /\ x <= 0 => x <= Progress(x, i) /\ Progress(x, i) <= 0
  <2>1. CASE Done(i)
    BY <1>2, <2>1
  <2>2. CASE ~Done(i) /\ i < 0
    BY <1>3, <2>2
  <2>3. CASE ~Done(i) /\ ~(i < 0)
    <3>1. /\ duration \in Nat \ {0} /\ i \in 0 .. duration
          /\ Progress(x, i) = (x * i) \div duration
      BY <1>4, <2>3
    <3> HIDE DEF Progress
    <3> QED BY <3>1, PartBounds
  <2> QED BY <2>1, <2>2, <2>3
<1>6. e >= duration => Progress(x, e) = x
  <2>1. CASE Done(e)
    BY <1>2, <2>1
  <2>2. CASE ~Done(e) /\ e >= duration
    <3>1. e = duration /\ ~(e < 0)
      BY <2>2
    <3> QED BY <1>4, <2>2, <3>1, PartBounds
  <2> QED BY <2>1, <2>2
<1>7. e <= 0 /\ duration > 0 => Progress(x, e) = 0
  <2>1. CASE e < 0 /\ duration > 0
    BY <1>3, <2>1
  <2>2. CASE e = 0 /\ duration > 0
    <3>1. ~Done(e) /\ ~(e < 0)
      BY <2>2
    <3> QED BY <1>4, <2>2, <3>1, PartBounds
  <2> QED BY <2>1, <2>2
<1>8. e + 1 \in Int
  OBVIOUS
<1>9. CASE Done(e + 1)
  BY <1>2, <1>5, <1>6, <1>7, <1>8, <1>9
<1>10. CASE ~Done(e + 1) /\ e < 0
  <2>1. Progress(x, e) = 0
    BY <1>7, <1>10
  <2> QED BY <1>5, <1>6, <1>7, <1>8, <2>1
<1>11. CASE ~Done(e + 1) /\ ~(e < 0)
  <2>1. ~Done(e) /\ ~(e + 1 < 0) /\ e \in Nat
    BY <1>11
  <2>2. /\ Progress(x, e) = (x * e) \div duration /\ duration \in Nat \ {0}
        /\ Progress(x, e + 1) = (x * (e + 1)) \div duration
    BY <1>4, <1>8, <1>11, <2>1
  <2> QED BY <1>5, <1>6, <1>7, <2>1, <2>2, PartMonotone
<1> QED BY <1>9, <1>10, <1>11

\* The least turn between two angles.
LEMMA BetweenIs ==
  ASSUME NEW a \in Int, NEW b \in Int, NEW k \in Int, NEW y \in Int,
         b - a = y + Turn * k, y <= Turn \div 2, -y <= Turn \div 2
  PROVE  Between(a, b) = Distance(0, y)
<1> DEFINE T == Turn  h == Turn \div 2  D == Distance(a, b)
<1>1. T \in Nat \ {0} /\ h \in Nat /\ 2 * h = T
  BY TurnIsEven
<1>2. T * k \in Int /\ T * (-k) = -(T * k) /\ T * (k - 1) = T * k - T /\ T * (-k - 1) = -(T * k) - T
  BY <1>1
<1> HIDE DEF T, h
<1>3. D \in Int /\ D = IF a <= b THEN y + T * k ELSE -y - T * k
  BY <1>2 DEF Distance, T
<1> HIDE DEF D
<1>4. y <= h /\ -y <= h
  BY DEF h
<1>5. \/ D % T = Distance(0, y)
      \/ D % T = T - Distance(0, y)
  <2>1. CASE a <= b /\ y >= 0
    <3>1. D = T * k + y /\ y < T
      BY <1>1, <1>2, <1>3, <1>4, <2>1
    <3>2. D % T = y
      BY <1>1, <1>3, <2>1, <3>1, ModUnique
    <3> QED BY <2>1, <3>2 DEF Distance
  <2>2. CASE a <= b /\ y < 0
    <3>1. y + T < T /\ 0 <= y + T /\ y + T \in Int /\ k - 1 \in Int
      BY <1>1, <1>4, <2>2
    <3>2. D = T * (k - 1) + (y + T)
      <4>1. D = y + T * k /\ T * (k - 1) = T * k - T
        BY <1>2, <1>3, <2>2
      <4> QED BY <1>1, <1>2, <4>1
    <3>3. D % T = y + T
      BY <1>1, <1>3, <3>1, <3>2, ModUnique
    <3> QED BY <1>1, <2>2, <3>3 DEF Distance
  <2>3. CASE ~(a <= b) /\ y <= 0
    <3>1. -y < T /\ 0 <= -y /\ -y \in Int /\ -k \in Int
      BY <1>1, <1>4, <2>3
    <3>2. D = T * (-k) + (-y)
      <4>1. D = -y - T * k /\ T * (-k) = -(T * k)
        BY <1>2, <1>3, <2>3
      <4> QED BY <1>1, <1>2, <4>1
    <3>3. D % T = -y
      BY <1>1, <1>3, <3>1, <3>2, ModUnique
    <3> QED BY <2>3, <3>3 DEF Distance
  <2>4. CASE ~(a <= b) /\ y > 0
    <3>1. T - y < T /\ 0 <= T - y /\ T - y \in Int /\ -k - 1 \in Int
      BY <1>1, <1>4, <2>4
    <3>2. D = T * (-k - 1) + (T - y)
      <4>1. D = -y - T * k /\ T * (-k - 1) = -(T * k) - T
        BY <1>2, <1>3, <2>4
      <4> QED BY <1>1, <1>2, <4>1
    <3>3. D % T = T - y
      BY <1>1, <1>3, <3>1, <3>2, ModUnique
    <3> QED BY <1>1, <2>4, <3>3 DEF Distance
  <2> QED BY <2>1, <2>2, <2>3, <2>4
<1>6. Distance(0, y) \in Int /\ 0 <= Distance(0, y) /\ Distance(0, y) <= h
  BY <1>1, <1>4 DEF Distance
<1>7. Between(a, b) = IF 2 * (D % T) <= T THEN D % T ELSE T - (D % T)
  BY DEF Between, D, T
<1> QED BY <1>1, <1>5, <1>6, <1>7

\* The turn LerpAngle() makes: the least one, the same way round as the
\* difference but for whole turns.
LeastTurn(from, to) ==
  LET rest == Fmod(to - from + Turn \div 2, Turn)
  IN (IF rest < 0 THEN rest + Turn ELSE rest) - Turn \div 2

LEMMA LeastTurnProperties ==
  ASSUME NEW from \in Int, NEW to \in Int
  PROVE  /\ LeastTurn(from, to) \in Int
         /\ LeastTurn(from, to) <= Turn \div 2 /\ -LeastTurn(from, to) <= Turn \div 2
         /\ \E k \in Int : to - from = LeastTurn(from, to) + Turn * k
<1> DEFINE T == Turn  h == Turn \div 2  a == to - from + h
           rest == Fmod(a, T)  m == IF rest < 0 THEN rest + T ELSE rest
<1>1. T \in Nat \ {0} /\ h \in Nat /\ 2 * h = T
  BY TurnIsEven
<1>2. LeastTurn(from, to) = m - h
  BY DEF LeastTurn
<1>3. a \in Int
  BY <1>1
<1> HIDE DEF T, h
<1>4. to - from = a - h
  BY <1>1
<1> HIDE DEF a
<1>5. m \in Int /\ 0 <= m /\ m <= T /\ \E k \in Int : a = T * k + m
  <2>1. CASE a >= 0
    <3>1. a % T \in Int /\ 0 <= a % T /\ a % T < T /\ \E k \in Int : a = T * k + (a % T)
      BY <1>1, <1>3, ModBounds
    <3>2. m = a % T
      BY <2>1, <3>1 DEF Fmod
    <3> HIDE DEF m
    <3>3. m \in Int /\ 0 <= m /\ m < T /\ \E k \in Int : a = T * k + m
      BY <3>1, <3>2
    <3> QED BY <1>1, <3>3
  <2>2. CASE ~(a >= 0)
    <3>1. -a \in Int
      BY <1>3
    <3>2. PICK n : n = (-a) % T
      OBVIOUS
    <3>3. n \in Int /\ 0 <= n /\ n < T /\ \E k \in Int : -a = T * k + n
      BY <1>1, <3>1, <3>2, ModBounds
    <3>4. PICK k \in Int : -a = T * k + n
      BY <3>3
    <3>5. m = IF n = 0 THEN 0 ELSE T - n
      <4>1. rest = -n
        BY <2>2, <3>2 DEF Fmod
      <4>2. m = IF -n < 0 THEN -n + T ELSE -n
        BY <4>1
      <4> HIDE DEF m
      <4> QED BY <1>1, <3>3, <4>2
    <3> HIDE DEF m
    <3>6. T * (-k) = -(T * k) /\ T * (-k - 1) = -(T * k) - T /\ T * k \in Int
      BY <1>1
    <3>7. CASE n = 0
      <4>1. m = 0
        BY <1>1, <3>5, <3>7
      <4>2. a = -(T * k)
        BY <1>3, <3>4, <3>6, <3>7
      <4>3. a = T * (-k) + m /\ -k \in Int
        BY <1>1, <3>6, <4>1, <4>2
      <4> QED BY <1>1, <4>1, <4>3
    <3>8. CASE n # 0
      <4>1. m = T - n /\ a = -(T * k) - n
        BY <1>1, <1>3, <3>3, <3>4, <3>5, <3>6, <3>8
      <4>2. a = T * (-k - 1) + m /\ -k - 1 \in Int
        BY <1>1, <3>3, <3>6, <4>1
      <4> QED BY <1>1, <3>3, <4>1, <4>2
    <3> QED BY <3>7, <3>8
  <2> QED BY <2>1, <2>2
<1> HIDE DEF m
<1>6. PICK k \in Int : a = T * k + m
  BY <1>5
<1>7. T * k \in Int
  BY <1>1
<1>8. to - from = (m - h) + T * k
  BY <1>1, <1>3, <1>4, <1>5, <1>6, <1>7
<1>9. (m - h) \in Int /\ (m - h) <= h /\ -(m - h) <= h
  BY <1>1, <1>5
<1> QED BY <1>2, <1>8, <1>9 DEF T, h

\* What is shown, e ticks after the transition started.
LEMMA CurrentIs ==
  ASSUME Whole, hasTarget, NEW e \in Int
  PROVE  LET x == target.position - previous.position
             y == LeastTurn(previous.rotation, target.rotation)
         IN  Current(e) = [position |-> previous.position + Progress(x, e),
                           rotation |-> previous.rotation + Progress(y, e)]
BY DEF Current, Lerp, LerpAngle, LeastTurn, Progress

\* How far what is shown is from the target, as what is left of two differences.
LEMMA ShownIs ==
  ASSUME Whole, hasTarget, NEW e \in Int
  PROVE  LET x == target.position - previous.position
             y == LeastTurn(previous.rotation, target.rotation)
         IN  /\ x \in Int /\ y \in Int
             /\ Current(e) \in [position : Int, rotation : Int]
             /\ Distance(Current(e).position, target.position) = Distance(0, x - Progress(x, e))
             /\ Between(Current(e).rotation, target.rotation) = Distance(0, y - Progress(y, e))
             /\ Distance(Current(e).rotation, previous.rotation) = Distance(0, Progress(y, e))
             /\ Distance(previous.position, target.position) = Distance(0, x)
             /\ Between(previous.rotation, target.rotation) = Distance(0, y)
<1> DEFINE x == target.position - previous.position
           y == LeastTurn(previous.rotation, target.rotation)
<1>1. /\ previous.position \in Int /\ previous.rotation \in Int
      /\ target.position \in Int /\ target.rotation \in Int /\ duration \in Nat
  BY DEF Whole
<1>2. /\ y \in Int /\ y <= Turn \div 2 /\ -y <= Turn \div 2
      /\ \E k \in Int : target.rotation - previous.rotation = y + Turn * k
  BY <1>1, LeastTurnProperties
<1>3. PICK k \in Int : target.rotation - previous.rotation = y + Turn * k
  BY <1>2
<1>4. x \in Int
  BY <1>1
<1>5. Current(e) = [position |-> previous.position + Progress(x, e),
                    rotation |-> previous.rotation + Progress(y, e)]
  BY CurrentIs
<1> HIDE DEF y
<1>6. /\ Progress(x, e) \in Int
      /\ Progress(y, e) \in Int
      /\ y >= 0 => 0 <= Progress(y, e) /\ Progress(y, e) <= y
      /\ y <= 0 => y <= Progress(y, e) /\ Progress(y, e) <= 0
  BY <1>1, <1>2, <1>4, ProgressProperties
<1>7. PICK px, py : px = Progress(x, e) /\ py = Progress(y, e)
  OBVIOUS
<1>8. Current(e).position = previous.position + px /\ Current(e).rotation = previous.rotation + py
  BY <1>5, <1>7
<1>9. Current(e) \in [position : Int, rotation : Int]
  BY <1>1, <1>5, <1>6
<1>10. Distance(Current(e).position, target.position) = Distance(0, x - px)
  BY <1>1, <1>6, <1>7, <1>8 DEF Distance
<1>11. Distance(Current(e).rotation, previous.rotation) = Distance(0, py)
  BY <1>1, <1>6, <1>7, <1>8 DEF Distance
<1>12. Distance(previous.position, target.position) = Distance(0, x)
  BY <1>1 DEF Distance
<1>13. Between(previous.rotation, target.rotation) = Distance(0, y)
  BY <1>1, <1>2, <1>3, BetweenIs
<1>14. Between(Current(e).rotation, target.rotation) = Distance(0, y - py)
  <2>1. Turn \in Nat \ {0} /\ Turn \div 2 \in Nat
    BY TurnIsEven
  <2>2. Turn * k \in Int
    BY <2>1
  <2>3. previous.rotation + py \in Int /\ y - py \in Int
    BY <1>1, <1>2, <1>6, <1>7
  <2>4. target.rotation - (previous.rotation + py) = (y - py) + Turn * k
    BY <1>1, <1>2, <1>3, <1>6, <1>7, <2>2
  <2>5. y - py <= Turn \div 2 /\ -(y - py) <= Turn \div 2
    BY <1>2, <1>6, <1>7, <2>1
  <2> QED BY <1>1, <1>8, <2>3, <2>4, <2>5, BetweenIs
<1> QED BY <1>2, <1>4, <1>7, <1>9, <1>10, <1>11, <1>12, <1>13, <1>14 DEF y
-----------------------------------------------------------------------------
(* The invariant and the theorems *)

LEMMA SnapshotsAreWhole == Snapshot \subseteq [position : Int, rotation : Int]
<1>1. ASSUME NEW p \in Int PROVE p * Unit \in Int
  BY <1>1, ValuesAssumption
<1>2. {p * Unit : p \in Position} \subseteq Int /\ {a * Unit : a \in Angle} \subseteq Int
  BY <1>1, ValuesAssumption
<1> QED BY <1>2 DEF Snapshot

LEMMA OriginIsWhole == Origin \in [position : Int, rotation : Int]
BY DEF Origin

LEMMA NextWhole == Whole /\ [Next]_vars => Whole'
<1> SUFFICES ASSUME Whole, [Next]_vars PROVE Whole'
  OBVIOUS
<1>1. CASE Tick
  BY <1>1 DEF Tick, Whole
<1>2. CASE Leave
  <2>1. hasTarget' \in BOOLEAN
    BY <1>2 DEF Leave
  <2>2. previous' = Origin /\ target' = Origin /\ elapsed' = 0 /\ duration' = duration
    BY <1>2 DEF Leave
  <2>3. 0 \in Int /\ duration \in Nat
    BY DEF Whole
  <2> QED BY <2>1, <2>2, <2>3, OriginIsWhole DEF Whole
<1>3. ASSUME NEW new \in Snapshot, NEW lag \in 0 .. MaxLag, SetTarget(new, lag) PROVE Whole'
  <2>1. new \in [position : Int, rotation : Int]
    BY SnapshotsAreWhole
  <2>2. lag \in Int /\ elapsed - lag \in Int
    BY BoundsAssumption DEF Whole
  <2>3. hasTarget => Current(elapsed - lag) \in [position : Int, rotation : Int]
    BY <2>2, ShownIs
  <2>4. previous' \in [position : Int, rotation : Int]
    BY <1>3, <2>1, <2>3 DEF SetTarget
  <2> QED BY <1>3, <2>1, <2>2, <2>4 DEF SetTarget, Whole
<1>4. CASE UNCHANGED vars
  BY <1>4 DEF vars, Whole
<1> QED BY <1>1, <1>2, <1>3, <1>4 DEF Next

LEMMA WholeCorrect == Spec => []Whole
<1>1. ASSUME Init PROVE Whole
  <2>1. hasTarget \in BOOLEAN
    BY <1>1 DEF Init
  <2>2. previous = Origin /\ target = Origin /\ elapsed = 0 /\ duration \in Duration
    BY <1>1 DEF Init
  <2>3. 0 \in Int /\ duration \in Nat
    BY <2>2, ValuesAssumption
  <2> QED BY <2>1, <2>2, <2>3, OriginIsWhole DEF Whole
<1> QED BY <1>1, NextWhole, PTL DEF Spec

\* What is left of a difference shrinks as what is made up of it grows.
LEMMA LeftOver ==
  ASSUME NEW x \in Int, NEW p \in Int, NEW q \in Int,
         x >= 0 => 0 <= p /\ p <= q /\ q <= x,
         x <= 0 => x <= q /\ q <= p /\ p <= 0
  PROVE  /\ Distance(0, x - p) <= Distance(0, x)
         /\ Distance(0, x - q) <= Distance(0, x - p)
BY DEF Distance

\* However often a blend is interrupted, by whatever positions and angles, the
\* entity shown moves towards its target, never away and never past it.
THEOREM ApproachesTargetCorrect == Spec => []ApproachesTarget
<1>1. Whole => ApproachesTarget
  <2> SUFFICES ASSUME Whole, hasTarget, NEW e \in Moment
               PROVE  /\ Distance(Current(e).position, target.position)
                            <= Distance(previous.position, target.position)
                      /\ Distance(Current(e + 1).position, target.position)
                            <= Distance(Current(e).position, target.position)
                      /\ Between(Current(e + 1).rotation, target.rotation)
                            <= Between(Current(e).rotation, target.rotation)
    BY DEF ApproachesTarget
  <2>1. e \in Int /\ e + 1 \in Int
    BY MomentsAreWhole
  <2>2. PICK x, y : x = target.position - previous.position
                    /\ y = LeastTurn(previous.rotation, target.rotation)
    OBVIOUS
  <2>3. /\ x \in Int /\ y \in Int
        /\ Distance(previous.position, target.position) = Distance(0, x)
        /\ \A i \in {e, e + 1} :
             /\ Distance(Current(i).position, target.position) = Distance(0, x - Progress(x, i))
             /\ Between(Current(i).rotation, target.rotation) = Distance(0, y - Progress(y, i))
    BY <2>1, <2>2, ShownIs
  <2>4. duration \in Nat
    BY DEF Whole
  <2>5. /\ Progress(x, e) \in Int /\ Progress(x, e + 1) \in Int
        /\ x >= 0 => 0 <= Progress(x, e) /\ Progress(x, e) <= Progress(x, e + 1) /\ Progress(x, e + 1) <= x
        /\ x <= 0 => x <= Progress(x, e + 1) /\ Progress(x, e + 1) <= Progress(x, e) /\ Progress(x, e) <= 0
    BY <2>1, <2>3, <2>4, ProgressProperties
  <2>6. /\ Progress(y, e) \in Int /\ Progress(y, e + 1) \in Int
        /\ y >= 0 => 0 <= Progress(y, e) /\ Progress(y, e) <= Progress(y, e + 1) /\ Progress(y, e + 1) <= y
        /\ y <= 0 => y <= Progress(y, e + 1) /\ Progress(y, e + 1) <= Progress(y, e) /\ Progress(y, e) <= 0
    BY <2>1, <2>3, <2>4, ProgressProperties
  <2>7. /\ Distance(0, x - Progress(x, e)) <= Distance(0, x)
        /\ Distance(0, x - Progress(x, e + 1)) <= Distance(0, x - Progress(x, e))
    BY <2>3, <2>5, LeftOver
  <2>8. Distance(0, y - Progress(y, e + 1)) <= Distance(0, y - Progress(y, e))
    BY <2>3, <2>6, LeftOver
  <2> QED BY <2>3, <2>7, <2>8
<1> QED BY <1>1, WholeCorrect, PTL

\* Between any two angles, of however many turns, the blend ends at the target
\* and has turned by the least angle.
THEOREM ArrivesShortestWayCorrect == Spec => []ArrivesShortestWay
<1>1. Whole => ArrivesShortestWay
  <2> SUFFICES ASSUME Whole, hasTarget, NEW e \in Moment, e >= duration
               PROVE  /\ Current(e).position = target.position
                      /\ Between(Current(e).rotation, target.rotation) = 0
                      /\ Distance(Current(e).rotation, previous.rotation)
                           = Between(previous.rotation, target.rotation)
    BY DEF ArrivesShortestWay
  <2>1. e \in Int
    BY MomentsAreWhole
  <2>2. PICK x, y : x = target.position - previous.position
                    /\ y = LeastTurn(previous.rotation, target.rotation)
    OBVIOUS
  <2>3. /\ x \in Int /\ y \in Int
        /\ Between(Current(e).rotation, target.rotation) = Distance(0, y - Progress(y, e))
        /\ Distance(Current(e).rotation, previous.rotation) = Distance(0, Progress(y, e))
        /\ Between(previous.rotation, target.rotation) = Distance(0, y)
    BY <2>1, <2>2, ShownIs
  <2>4. Progress(x, e) = x /\ Progress(y, e) = y
    BY <2>1, <2>3, ProgressProperties DEF Whole
  <2>5. Current(e).position = previous.position + x
    BY <2>1, <2>2, <2>4, CurrentIs
  <2>6. Current(e).position = target.position
    BY <2>2, <2>5 DEF Whole
  <2>7. y - y = 0 /\ Distance(0, 0) = 0
    BY <2>3 DEF Distance
  <2> QED BY <2>3, <2>4, <2>6, <2>7
<1> QED BY <1>1, WholeCorrect, PTL

\* What is shown for the moment a target was set at: where the entity was if
\* the blend takes time or there is nothing to blend, and else the target.
StartsWhereItWas ==
  hasTarget =>
    IF duration > 0
    THEN Current(0) = previous
    ELSE /\ Current(0).position = target.position
         /\ Between(Current(0).rotation, target.rotation) = 0

LEMMA StartsCorrect == Whole => StartsWhereItWas
<1> SUFFICES ASSUME Whole, hasTarget
             PROVE  IF duration > 0
                    THEN Current(0) = previous
                    ELSE /\ Current(0).position = target.position
                         /\ Between(Current(0).rotation, target.rotation) = 0
  BY DEF StartsWhereItWas
<1>1. PICK x, y : x = target.position - previous.position
                  /\ y = LeastTurn(previous.rotation, target.rotation)
  OBVIOUS
<1>2. /\ x \in Int /\ y \in Int
      /\ Between(Current(0).rotation, target.rotation) = Distance(0, y - Progress(y, 0))
  BY <1>1, ShownIs
<1>3. Current(0) = [position |-> previous.position + Progress(x, 0),
                    rotation |-> previous.rotation + Progress(y, 0)]
  BY <1>1, CurrentIs
<1>4. CASE duration > 0
  <2>1. Progress(x, 0) = 0 /\ Progress(y, 0) = 0
    BY <1>2, <1>4, ProgressProperties DEF Whole
  <2>2. previous.position + 0 = previous.position /\ previous.rotation + 0 = previous.rotation
    BY DEF Whole
  <2>3. Current(0) = [position |-> previous.position, rotation |-> previous.rotation]
    BY <1>3, <2>1, <2>2
  <2>4. previous \in [position : Int, rotation : Int]
    BY DEF Whole
  <2> QED BY <1>4, <2>3, <2>4
<1>5. CASE ~(duration > 0)
  <2>1. 0 >= duration
    BY <1>5 DEF Whole
  <2>2. Progress(x, 0) = x /\ Progress(y, 0) = y
    BY <1>2, <2>1, ProgressProperties DEF Whole
  <2>3. Current(0).position = target.position
    BY <1>1, <1>3, <2>2 DEF Whole
  <2>4. y - y = 0 /\ Distance(0, 0) = 0
    BY <1>2 DEF Distance
  <2> QED BY <1>2, <1>5, <2>2, <2>3, <2>4
<1> QED BY <1>4, <1>5

\* With nothing to blend, what is shown is the target.
StartsAtOnce ==
  hasTarget /\ previous = target =>
    /\ Current(0).position = target.position
    /\ Between(Current(0).rotation, target.rotation) = 0

LEMMA StartsAtOnceCorrect == Whole => StartsAtOnce
<1> SUFFICES ASSUME Whole, hasTarget, previous = target
             PROVE  /\ Current(0).position = target.position
                    /\ Between(Current(0).rotation, target.rotation) = 0
  BY DEF StartsAtOnce
<1>1. PICK y : y = LeastTurn(previous.rotation, target.rotation)
  OBVIOUS
<1>2. PICK a : a = previous.rotation /\ a = target.rotation /\ a \in Int
  BY DEF Whole
<1>3. Distance(0, 0) = 0 /\ 0 = target.position - previous.position
  BY DEF Distance, Whole
<1>4. Between(a, a) = 0
  <2>1. /\ Turn \in Nat \ {0} /\ Turn \div 2 \in Nat
        /\ Turn * 0 = 0
    BY TurnIsEven
  <2>2. a - a = 0 + Turn * 0 /\ 0 <= Turn \div 2 /\ -0 <= Turn \div 2
    BY <1>2, <2>1
  <2> QED BY <1>2, <1>3, <2>2, BetweenIs
<1>5. /\ y \in Int
      /\ Distance(Current(0).position, target.position) = Distance(0, 0 - Progress(0, 0))
      /\ Between(Current(0).rotation, target.rotation) = Distance(0, y - Progress(y, 0))
      /\ Between(previous.rotation, target.rotation) = Distance(0, y)
      /\ Current(0) \in [position : Int, rotation : Int]
  BY <1>1, <1>3, ShownIs
<1>6. y = 0
  BY <1>2, <1>4, <1>5 DEF Distance
<1>7. Progress(0, 0) = 0
  BY ProgressProperties DEF Whole
<1>8. Distance(Current(0).position, target.position) = 0
  BY <1>3, <1>5, <1>7
<1>9. Current(0).position = target.position
  BY <1>5, <1>8 DEF Distance, Whole
<1> QED BY <1>3, <1>5, <1>6, <1>7, <1>9

\* A new target, whenever it arrives and however late it is applied, changes
\* nothing of what is shown for the moment it is set at.
THEOREM NoJumpCorrect == Spec => NoJump
<1> DEFINE Smooth ==
      targets' # targets =>
        IF hasTarget /\ duration > 0
        THEN Current(0)' = Current(elapsed - elapsed')
        ELSE /\ Current(0)'.position = target'.position
             /\ Between(Current(0)'.rotation, target'.rotation) = 0
<1>1. Whole /\ StartsWhereItWas' /\ StartsAtOnce' /\ [Next]_vars => Smooth
  <2> SUFFICES ASSUME Whole, StartsWhereItWas', StartsAtOnce', [Next]_vars, targets' # targets
               PROVE  Smooth
    OBVIOUS
  <2>1. PICK new \in Snapshot, lag \in 0 .. MaxLag : SetTarget(new, lag)
    BY DEF Next, Tick, Leave, vars
  <2>2. /\ previous' = IF hasTarget THEN Current(elapsed - lag) ELSE new
        /\ target' = new /\ elapsed' = lag /\ hasTarget' = TRUE /\ duration' = duration
    BY <2>1 DEF SetTarget
  <2>3. IF duration' > 0
        THEN Current(0)' = previous'
        ELSE /\ Current(0)'.position = target'.position
             /\ Between(Current(0)'.rotation, target'.rotation) = 0
    BY <2>2 DEF StartsWhereItWas
  <2>4. previous' = target' =>
          /\ Current(0)'.position = target'.position
          /\ Between(Current(0)'.rotation, target'.rotation) = 0
    BY <2>2 DEF StartsAtOnce
  <2>5. CASE hasTarget /\ duration > 0
    <3>1. Current(0)' = previous'
      BY <2>2, <2>3, <2>5
    <3>2. previous' = Current(elapsed - elapsed')
      BY <2>2, <2>5
    <3> QED BY <2>5, <3>1, <3>2
  <2>6. CASE hasTarget /\ ~(duration > 0)
    BY <2>2, <2>3, <2>6
  <2>7. CASE ~hasTarget
    BY <2>2, <2>4, <2>7
  <2> QED BY <2>5, <2>6, <2>7
<1>2. Whole => StartsWhereItWas /\ StartsAtOnce
  BY StartsCorrect, StartsAtOnceCorrect
<1> QED BY <1>1, <1>2, WholeCorrect, PTL DEF NoJump, Spec
=============================================================================
