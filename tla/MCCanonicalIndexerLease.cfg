CONSTANTS
  Workers = {w1, w2}
  NoWorker = NoWorker
  NoToken = NoToken
  Zero = Zero
  Old = old
  New = new
  Ann = ann
  Bob = bob
  Day = 1
  Start = 1
  Finality = 1
  BatchSize = 2
  MaxBatches = 2
  Lookback = 3
  LeaseOutlivesRun = TRUE
  LogsIn <- SweptAtOnce
  ForkHeight <- MCForkHeight
  MaxHeight = 4
  MaxFaults = 2
SPECIFICATION FairSpec
INVARIANTS CaughtUpTruthful GateMeansCanonical
PROPERTIES RollbackSparesCanonical ImplementsIndexedChain CatchesUp
