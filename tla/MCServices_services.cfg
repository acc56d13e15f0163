CONSTANTS
  g1 = g1
  a1 = a1
  a2 = a2
  b = b
  d = d
  c1 = c1
  c2 = c2
  None = None
  Nil = None
  Agents = {g1}
  Approvals <- MCApprovals
  Requests = {q1, q2}
  TurnOf <- MCTurnOf
  Entries = {"http", "mcp"}
  Faults = {"park_error", "cancelled", "load_error", "delete_error", "crash"}
  Changes <- MCChanges
  Workers = {w1, w2}
  MaxAttempts = 2
  MaxDeliver = 2
  MaxDeaths = 1
  DispatchFaults = {"nats_error", "queue_stops", "finalize_error", "worker_dies"}
  Channels = {b, d}
  Configured = {}
  TypeOf <- MCTypeOf
  BusAgents = {a1, a2}
  PairOf <- MCPairOf
  Pollers <- MCPollers
  MaxQueue = 1
  MaxMessages = 2
  MaxStarts = 1
  Users = {u1, u2}
  Strategies = {"per-agent", "per-task"}
  MaxCalls = 3
  SandboxFaults = {"create_error", "destroy_error"}
SPECIFICATION ServicesSpec
INVARIANTS ResumedOnceDecided InterruptsSettle AckedWasExecuted  NothingVanishes InUseIsKept
PROPERTIES StoredParkIsResumed StoreCallsReturn ObserverReturns ClaimsSettle WaitersWake 
CHECK_DEADLOCK FALSE
