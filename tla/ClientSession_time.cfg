SPECIFICATION FairSpec
CONSTANTS
  HeartbeatEvery = 2
  ReplyWithin = 1
  ManifestWithin = 2
  DroppedAfter = 9
  CheckEvery = 3
  MaxDelay = 1
INVARIANTS BeliefIsFact DisconnectIsLast DroppedOnlyIfSlow SilentIsDropped StopIsPrompt
PROPERTIES ReachesReady GoneIsGone
CHECK_DEADLOCK FALSE
