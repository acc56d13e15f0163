CONSTANTS
  None = None
  Keep = Keep
  Sentinel = Sentinel
  t0 = t0
  a1 = a1
  p1 = p1
  p2 = p2
  Requests = {r1, r2}
  OldTasks <- MCOldTasks
  Agents <- MCAgents
  Payloads <- MCPayloads
  OldRows <- MCOldRows
  Mutations <- MCSomeMutations
  MaxQueue = 2
  MaxObserverQueue = 1
  MaxStarts = 2
  Faults = {"store_error", "caller_gone", "stop_cancelled", "fatal", "ignore_cancel"}
SPECIFICATION Spec
PROPERTIES ImplementsStore
CHECK_DEADLOCK FALSE
