SPECIFICATION Spec
CONSTANTS
  Tokens = {"k1", "k2", "k3"}
  Contracts = {"k1", "k2"}
  Early = {"k1", "k3"}
  Unpriced = {"k2"}
  KnownLimit = 3
  ThrottleLimit = 2
  MetadataSlots = 2
  MaxItems = 1
  MaxLapses = 1
  MaxFaults = 1
INVARIANTS TypeOK
PROPERTIES AskedOncePerWindow PricesConverge MetadataConverges
CHECK_DEADLOCK FALSE
