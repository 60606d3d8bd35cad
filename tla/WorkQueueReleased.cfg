SPECIFICATION Spec
CONSTANTS
  w1 = w1
  i1 = i1
  i2 = i2
  NoOwner = NoOwner
  Workers = {w1}
  Purgers = {}
  Items = {i1, i2}
  MaxAttempts = 2
  AttemptLimit = 4
  MaxRevision = 45
  LeaseLimit = 2
  PurgeChunk = 1
  MaxFaults = 1
SYMMETRY ItemSymmetry
INVARIANT LeaseRecorded
