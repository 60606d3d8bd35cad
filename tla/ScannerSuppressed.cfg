SPECIFICATION FairSpec
CONSTANTS
  Services = {s1}
  Backfills = {}
  Repairs = {}
  FromBlocks = {0}
  Start = 1
  MaxBlock = 3
  MaxForks = 0
  Logs <- LogsOfSecondBlock
  SafeLag = 0
  Finality = 1
  ReorgDepth = 0
  MinRange = 1
  InitRange = 2
  MaxRange = 4
  ProviderLimit = 2
  AsyncInsertWait = TRUE
  Suppress = TRUE
  MaxFaults = 1
  MaxLosses = 0
PROPERTY WorkIsRediscovered
