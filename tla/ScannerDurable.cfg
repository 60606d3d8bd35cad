SPECIFICATION FairSpec
CONSTANTS
  Services = {s1}
  Backfills = {}
  Repairs = {s1}
  FromBlocks = {0}
  Start = 1
  MaxBlock = 3
  MaxForks = 1
  Logs <- LogsOfForks
  SafeLag = 0
  Finality = 2
  ReorgDepth = 2
  MinRange = 1
  InitRange = 3
  MaxRange = 3
  ProviderLimit = 2
  AsyncInsertWait = TRUE
  Suppress = TRUE
  MaxFaults = 2
  MaxLosses = 0
INVARIANT CommittedRangesStored
PROPERTIES WindowConverges WindowWorkWritten CheckpointCatchesUp
