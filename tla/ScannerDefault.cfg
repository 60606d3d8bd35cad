SPECIFICATION Spec
CONSTANTS
  Services = {s1}
  Backfills = {s2}
  Repairs = {}
  FromBlocks = {0}
  Start = 1
  MaxBlock = 2
  MaxForks = 0
  Logs <- LogsOfSecondBlock
  SafeLag = 0
  Finality = 1
  ReorgDepth = 0
  MinRange = 1
  InitRange = 1
  MaxRange = 1
  ProviderLimit = 2
  AsyncInsertWait = FALSE
  Suppress = FALSE
  MaxFaults = 1
  MaxLosses = 1
INVARIANTS TypeOK CommittedRangesAcknowledged
CONSTRAINT NothingLost
