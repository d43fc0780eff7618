CONSTANTS
  hookA = hookA
  hookB = hookB
  burnerA = burnerA
  burnerB = burnerB
  Users = {u}
  FeeHooks = {hookA, hookB}
  Burners = {burnerA, burnerB}
  BurnerHook <- HookOf
  Treasuries = {t1, t2}
  Implementations = {i1, i2}
  Configs = {plain, selfBurn}
  SelfBurnConfigs = {selfBurn}
  Fees = {0, 1}
  FirstBuys = {1}
  None = None
  MaxLaunches = 2
SYMMETRY Interchangeable
SPECIFICATION Spec
INVARIANTS TypeOK OpenMeansReady SelfBurnPoolsServed
PROPERTY PriceAsApproved
