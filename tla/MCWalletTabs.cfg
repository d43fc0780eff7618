CONSTANTS
  w1 = w1
  w2 = w2
  t1 = t1
  t2 = t2
  None = None
  Wallets = {w1, w2}
  Tabs = {t1, t2}
  FlowsOf <- MCFlowsOf
  Expiring = {"claim", "handoff", "keeper"}
  Creator = w1
  Allowances <- MCAllowances
  MaxRecords = 2
  MaxSends = 2
  MaxFaults = 1
CHECK_DEADLOCK FALSE
SPECIFICATION Spec
INVARIANTS UnresolvedIsRecorded OneOutstanding CheckedFactsHold
