SPECIFICATION Spec
CONSTANTS
  r1 = r1  r2 = r2  r3 = r3
  Resource = {r1, r2, r3}
  Manifests <- SmallManifests
  Updates <- NoDeps
INVARIANTS OnlyVerifiedLoads
PROPERTIES DependenciesFirst OutcomeMatchesGraph
SYMMETRY ResourceIds
CHECK_DEADLOCK FALSE
