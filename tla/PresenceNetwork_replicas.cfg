SPECIFICATION NetFairSpec
CONSTANTS
  s1 = s1  s2 = s2
  p1 = p1  p2 = p2
  Socket = {s1, s2}
  Player = {p1, p2}
  Data = {d1}
  Identity <- OtherOrSame
  Late = {}
  Loaders = {}
  MaxWire = 1
INVARIANTS ReplicasAgreeUnlessMissed NoSelfReplica
PROPERTIES MovingPlayerAppears
CHECK_DEADLOCK FALSE
