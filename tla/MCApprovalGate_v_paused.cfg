SPECIFICATION FairSpec
CONSTANTS
  g1 = g1
  a1 = a1
  a2 = a2
  None = None
  Agents = {g1}
  Approvals = {a1}
  Requests = {q1}
  TurnOf <- MCTurnOfOne
  Entries = {"http"}
  Faults = {}
PROPERTIES PausedUntilDecided
CHECK_DEADLOCK FALSE
