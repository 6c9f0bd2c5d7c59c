SPECIFICATION Spec
CONSTANTS
  Position <- Positions
  Angle <- Angles
  Duration = {0, 1, 2}
  Unit = 16
  MaxTargets = 5
  MaxLag = 1
INVARIANTS ApproachesTarget ArrivesShortestWay
PROPERTIES NoJump
CHECK_DEADLOCK FALSE
