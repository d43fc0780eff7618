CONSTANTS
  w1 = w1
  w2 = w2
  t1 = t1
  t2 = t2
  None = None
  Wallets = {w1, w2}
  Tabs = {t1, t2}
  FlowsOf <- LaunchesOnly
  Expiring = {}
  Creator = w1
  Allowances <- NoAllowances
  MaxRecords = 1
  MaxSends = 2
  MaxFaults = 1
CHECK_DEADLOCK FALSE
SPECIFICATION Spec
PROPERTY RecoveryEnds
