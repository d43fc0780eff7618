CONSTANTS
  Workers = {w1, w2}
  NoWorker = NoWorker
  NoToken = NoToken
  Zero = Zero
  Old = old
  New = new
  Ann = ann
  Bob = bob
  Day = 1
  Start = 1
  Finality = 1
  BatchSize = 2
  MaxBatches = 1
  Lookback = 2
  LeaseOutlivesRun = FALSE
  LogsIn <- MovedAlone
  ForkHeight <- MCForkHeight
  MaxHeight = 4
  MaxFaults = 0
SPECIFICATION Spec
SYMMETRY WorkerSymmetry
INVARIANT GateMeansCanonical
