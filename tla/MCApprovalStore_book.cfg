SPECIFICATION Spec
CONSTANTS
  a1 = a1
  a2 = a2
  None = None
  Approvals <- MCBoth
  Calls = {c1, c2, c3}
  OldItems <- MCOldItems
  Saveable <- MCSaveable
  Expiring <- MCExpiring
  Faults = {"cancelled", "store_error", "crash"}
SYMMETRY CallSymmetry
INVARIANTS FirstWriterWins CacheAgrees
PROPERTIES ImplementsBook
CHECK_DEADLOCK FALSE
