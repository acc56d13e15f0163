CONSTANTS
  None = None
  w1 = w1
  w2 = w2
  r1 = r1
  r2 = r2
  c1 = c1
  d1 = d1
  Resolvers = {r1, r2}
  Requests = {q1, q2}
  Workers = {w1, w2}
  Decisions = {d1, d2}
  Accepted = {d1, d2}
  Conflicts = {c1}
  Home <- MCHome
  ConflictOf <- MCConflictOf
  HasTimeout = TRUE
  Shared = TRUE
  Faults = {"store_error", "notify_lost", "cancelled", "shutdown", "crash"}
SPECIFICATION RowsSpec
INVARIANTS TypeOK ResolutionIsStored AnswerIsStored RegistryHoldsLiveResolvers InTimeDecisionIsReturned
PROPERTIES TerminalForever
SYMMETRY RequestSymmetry
CHECK_DEADLOCK FALSE
