SPECIFICATION FairSpec
CONSTANTS
  o1 = o1
  Workers = {d1}
  NoOwner = NoOwner
  AttemptLimit = 3
  MaxRevision = 35
  Owners = {o1}
  OwnerOf <- OneOrder
  Tradable = {1}
  Served = {1}
  BatchSize = 1
  EnqueueChunk = 1
  LeaseLimit = 1
  PageLimit = 1
  MaxPages = 1
  MaxAttempts = 2
  MaxFaults = 1
  MaxLosses = 1
PROPERTIES DrainEnds SweepCovers
