----------------------------- MODULE MCServices -----------------------------
(***************************************************************************)
(* Five services that run beside the task engine, for TLC: the approval    *)
(* gate, the distributed task queue, the message bus and the sandbox life  *)
(* cycle, and the approval store.  They share nothing, so a behaviour      *)
(* chooses one of them and the others stay in their initial states.        *)
(***************************************************************************)
EXTENDS GateAndQueue, BusAndSandbox, TLC

CONSTANTS g1, a1, a2, b, d, c1, c2

VARIABLES
  focus,                                       \* the service that runs
  repo, items, inFlight, evicting, due, call   \* ApprovalStore

MCApprovals == {a1, a2}
MCTurnOf == (g1 :> <<a1, a2>>)

Store == INSTANCE ApprovalStore WITH
  Approvals <- {a1}, Calls <- {c1, c2}, OldItems <- {None, "pending"}, Saveable <- {a1},
  Expiring <- {a1}, Faults <- {"cancelled", "store_error", "lost_ack", "crash"}

(* an event that is not dispatched, and one that is                        *)
Change(previous, new) == [previous |-> previous, new |-> new]
MCChanges == <<Change("ASSIGNED", "ASSIGNED"), Change("CREATED", "ASSIGNED")>>

(* a channel that anybody may read, and one between two agents             *)
MCTypeOf == (b :> "BROADCAST" @@ d :> "DIRECT")
MCPairOf == (b :> {} @@ d :> {a1, a2})
MCPollers == {<<d, a1>>}

storeVars == <<repo, items, inFlight, evicting, due, call>>
dispatchVars == <<observed, disp, outcome, client, stream, worker, verdicts, deaths>>
busVars == <<running, shutdown, starts, subscribers, knownAgents, queues, recv,
             published, enqueued, returned, lost>>
sandboxVars == <<strategy, container, grace, idle, destroyFn, status, user, calls, alone, cleaned>>
allVars == <<vars, storeVars, dispatchVars, busVars, sandboxVars, focus>>

Gate(A) == focus = "gate" /\ A /\ UNCHANGED <<storeVars, dispatchVars, busVars, sandboxVars, focus>>
InStore(A) == focus = "store" /\ A /\ UNCHANGED <<vars, dispatchVars, busVars, sandboxVars, focus>>
InDispatch(A) == focus = "dispatch" /\ A /\ UNCHANGED <<vars, storeVars, busVars, sandboxVars, focus>>
InBus(A) == focus = "bus" /\ A /\ UNCHANGED <<vars, storeVars, dispatchVars, sandboxVars, focus>>
InSandbox(A) == focus = "sandbox" /\ A /\ UNCHANGED <<vars, storeVars, dispatchVars, busVars, focus>>

ServicesInit ==
  /\ focus \in {"gate", "store", "dispatch", "bus", "sandbox"}
  /\ Init /\ Store!Init /\ Dispatch!Init /\ Bus!Init /\ Sandbox!Init
  /\ focus # "store" => repo = Store!NoItems
  /\ focus # "sandbox" => strategy = "per-agent"

ServicesNext ==
  \/ Gate(Next) \/ InStore(Store!Next) \/ InDispatch(Dispatch!Next)
  \/ InBus(Bus!Next) \/ InSandbox(Sandbox!Next)

(* the fairness of the five modules                                        *)
ServicesFairness ==
  /\ \A g \in Agents : WF_vars(Gate(AgentStep(g)))
  /\ \A q \in Requests : WF_vars(Gate(RequestStep(q)))
  /\ \A c \in {c1, c2} : WF_storeVars(InStore(Store!Step(c)))
  /\ WF_dispatchVars(InDispatch(Dispatch!DispatcherStep))
  /\ WF_dispatchVars(InDispatch(Dispatch!PoolStarts))
  /\ \A w \in Workers : WF_dispatchVars(InDispatch(Dispatch!WorkerStep(w)))
  /\ \A m \in Dispatch!Claims : WF_dispatchVars(InDispatch(Dispatch!AckWaitPasses(m)))
  /\ \A k \in Pollers : WF_busVars(InBus(Bus!ReceiveStep(k)))
  /\ \A u \in Users : WF_sandboxVars(InSandbox(Sandbox!UserStep(u)))
  /\ WF_sandboxVars(InSandbox(Sandbox!GraceExpire))
  /\ \A c \in Sandbox!Containers : WF_sandboxVars(InSandbox(Sandbox!Destroy(c)))

ServicesSpec == ServicesInit /\ [][ServicesNext]_allVars /\ ServicesFairness

----------------------------------------------------------------------------
(* A call of the approval store returns, whatever is cancelled or fails.   *)
StoreCallsReturn == Store!CallsReturn

(* The dispatcher gives the engine's observer loop back.                   *)
ObserverReturns == Dispatch!ObserverReturns

(* A stored claim is acked, or delivered MaxDeliver times and given up.    *)
ClaimsSettle == Dispatch!ClaimsSettle

(* stop() and unsubscribe() wake the receive() calls that wait.            *)
WaitersWake == Bus!WaitersWake

(* No container stays for ever.                                            *)
ContainersEnd == Sandbox!ContainersEnd
=============================================================================
