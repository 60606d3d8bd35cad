SPECIFICATION FairSpec
CONSTANTS
  Callers = {c1, c2, c3}
  BaseInterval = 2
  MaxInterval = 4
  MaxAttempts = 2
  Overshoot = 1
  MaxBacklog = 4
INVARIANT TypeOK
PROPERTIES AdmissionsPaced ThrottleTakesEffect CallsEnd
