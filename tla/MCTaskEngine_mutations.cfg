CONSTANTS
  None = None
  Keep = Keep
  Sentinel = Sentinel
  t0 = t0
  a1 = a1
  p1 = p1
  p2 = p2
  Requests = {r1, r2, r3}
  OldTasks <- MCOldTasks
  Agents <- MCAgents
  Payloads <- MCPayloads
  OldRows <- MCOldRows
  Mutations <- MCMutations
  MaxQueue = 2
  MaxObserverQueue = 1
  MaxStarts = 1
  Faults = {"store_error"}
SYMMETRY RequestSymmetry
SPECIFICATION Spec
INVARIANTS TypeOK ReplyMatchesEffect VersionsOrderWrites
PROPERTIES RowsEvolve
CHECK_DEADLOCK FALSE
