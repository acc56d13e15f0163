CONSTANTS
  None = None
  w1 = w1
  w2 = w2
  r1 = r1
  r2 = r2
  c1 = c1
  Resolvers = {r1}
  Requests = {q1}
  q1 = q1
  q2 = q2
  Workers = {w1, w2}
  Decisions = {d1}
  Accepted = {d1}
  Conflicts = {c1}
  Home <- MCHomeOne
  ConflictOf <- MCConflictOfOne
  HasTimeout = TRUE
  Shared = TRUE
  Faults = {"store_error", "notify_lost", "cancelled", "shutdown", "crash"}
SPECIFICATION LiveSpec
PROPERTIES EveryCallReturns EveryRowSettles SettledIsNoticedByAll
CHECK_DEADLOCK FALSE
