SPECIFICATION Spec
CONSTANTS
  o1 = o1
  Workers = {d1}
  NoOwner = NoOwner
  AttemptLimit = 3
  MaxRevision = 35
  Owners = {o1}
  OwnerOf <- TwoOrders
  Tradable = {1}
  Served = {1, 2}
  BatchSize = 1
  EnqueueChunk = 1
  LeaseLimit = 2
  PageLimit = 1
  MaxPages = 3
  MaxAttempts = 2
  MaxFaults = 1
  MaxLosses = 0
INVARIANTS TypeOK DoneBatchIsStored
PROPERTY DoneOwnerIsStored
