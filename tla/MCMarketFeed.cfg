CONSTANTS
  w1 = w1
  w2 = w2
  Accounts = {w1, w2}
  Launched <- MCLaunched
  PageLimit = 1
  PositionLimit = 1
  Newest = Newest
  End = End
  Unset = Unset
  MaxBlocks = 3
  MaxTokens = 3
  MaxTransfers = 2
  MaxRollbacks = 1
  MaxLoads = 3
CHECK_DEADLOCK FALSE
SPECIFICATION FairFeedSpec
INVARIANTS BoardHasNoHole NoPositionSkipped
PROPERTY BoardSettles
