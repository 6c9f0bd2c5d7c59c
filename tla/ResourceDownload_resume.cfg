SPECIFICATION FairSpec
CONSTANTS
  empty = empty  short = short  long = long
  None = None
  Version = {empty, short, long}
  Size <- Sizes
  MaxAttempts = 2
  MaxChanges = 2
INVARIANTS PartialIsPrefix
PROPERTIES ImplementsStore CallEnds SurvivesCuts StalePartialNeverBlocks
CHECK_DEADLOCK FALSE
