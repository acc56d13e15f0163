SPECIFICATION Spec
CONSTANTS
  a1 = a1
  a2 = a2
  None = None
  Approvals = {a1}
  Calls = {c1, c2}
  OldItems <- MCOldItems
  Saveable = {a1}
  Expiring = {a1}
  Faults = {}
PROPERTIES DecisionsAreFinal
CHECK_DEADLOCK FALSE
