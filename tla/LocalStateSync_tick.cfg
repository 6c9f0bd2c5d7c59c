SPECIFICATION FairSpec
CONSTANT MaxMoves = 4
INVARIANTS LossNeedsOverlap
PROPERTIES ChangeIsSent
CHECK_DEADLOCK FALSE
