SPECIFICATION FairSpec
CONSTANTS
  w1 = w1
  i1 = i1
  NoOwner = NoOwner
  Workers = {w1}
  Purgers = {w1}
  Items = {i1}
  MaxAttempts = 2
  AttemptLimit = 6
  MaxRevision = 65
  LeaseLimit = 2
  PurgeChunk = 1
  MaxFaults = 3
PROPERTIES QueuedItemFinishes RediscoveredItemFinishes
