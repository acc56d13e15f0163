CONSTANTS
  None = None
  Keep = Keep
  Sentinel = Sentinel
  t0 = t0
  a1 = a1
  p1 = p1
  p2 = p2
  Requests = {r1, r2}
  OldTasks <- MCOldTasks
  Agents <- MCAgents
  Payloads <- MCPayloads
  OldRows <- MCOldRows
  Mutations <- MCFewMutations
  MaxQueue = 2
  MaxObserverQueue = 2
  MaxStarts = 2
  Faults = {"store_error", "caller_gone", "stop_cancelled", "fatal"}
SPECIFICATION FairSpec
INVARIANTS SingleWriter PendingIsHeld ToldInOrder StopDrains
PROPERTIES StopTerminates Answered
CHECK_DEADLOCK FALSE
