CONSTANTS
  BPS = 2
  SequesterBps = 1
  TreasuryBps = 1
  RouterBountyBps = 1
  CreatorPools = {c}
  SelfBurnPools = {b}
  CreatorBps = 1
  BurnFeeBps = 1
  MaxBurnPerCall = 3
  BurnBountyBps = 1
  RouterCaps = {2}
  SwapFees = {8}
  MaxSwaps = 1
  MaxGifts = 1
  MaxMigrations = 1
  Global = global
SPECIFICATION RFairSpec
INVARIANTS HookBacked BurnerBacked RouterBooks CreatorKeepsShare ReportsOnlyTheOutside
PROPERTY FeesReachTheirEnds
