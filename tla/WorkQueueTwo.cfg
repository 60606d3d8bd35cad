SPECIFICATION Spec
CONSTANTS
  w1 = w1
  w2 = w2
  i1 = i1
  NoOwner = NoOwner
  Workers = {w1, w2}
  Purgers = {w1}
  Items = {i1}
  MaxAttempts = 2
  AttemptLimit = 4
  MaxRevision = 45
  LeaseLimit = 1
  PurgeChunk = 1
  MaxFaults = 2
INVARIANTS TypeOK TerminalVersionWins PurgeTakesNoOpenWork AttemptsAreCharged
PROPERTY ImplementsLedger
