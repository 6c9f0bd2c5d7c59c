SPECIFICATION FairSpec
CONSTANTS
  s1 = s1  s2 = s2  s3 = s3
  p1 = p1  p2 = p2  p3 = p3
  Socket = {s1, s2}
  Player = {p1, p2}
  Data = {d1}
  Identity <- TwoOwnIds
  Late = {s2}
  Loaders = {s1, s2}
PROPERTIES SilentClientVanishes ImplementsBoard
CHECK_DEADLOCK FALSE
