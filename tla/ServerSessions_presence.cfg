SPECIFICATION Spec
CONSTANTS
  s1 = s1  s2 = s2  s3 = s3
  p1 = p1  p2 = p2  p3 = p3
  Socket = {s1, s2, s3}
  Player = {p1, p2, p3}
  Data = {d1, d2}
  Identity <- OwnIds
  Late = {s3}
  Loaders = {}
INVARIANTS RegistryMatchesSockets StateMatchesFlags NothingBeforeAuth PresenceComplete GhostsAreLate
PROPERTIES DropsAreAnnounced
SYMMETRY Clients
CHECK_DEADLOCK FALSE
