SPECIFICATION FairSpec
INVARIANTS HandleOutlivesReader AckIsNoFailure
PROPERTIES ClientTerminates ShutdownFollowsClient
CHECK_DEADLOCK FALSE
