SPECIFICATION Spec
CONSTANTS
  Keys = {"a", "b"}
  Variants = {"v", "w"}
  Malformed = "bad"
  Bundle <- ThreeFiles
  LiveVariant <- LiveOrder
  Enqueue = TRUE
  Waits = {TRUE, FALSE}
  MaxLive = 1
  MaxFaults = 1
INVARIANTS TypeOK CompletedImportIsStored MismatchQuarantined
PROPERTIES SettledOrderIsKept ImportConverges
CHECK_DEADLOCK FALSE
