--------------------------- MODULE BusAndSandbox ----------------------------
(***************************************************************************)
(* The message bus and the sandbox life cycle, side by side: two services  *)
(* that run beside the task engine and share no state.                     *)
(***************************************************************************)
EXTENDS Naturals, Sequences

CONSTANTS
  Nil,                                                         \* None, of both modules
  Channels, Configured, TypeOf, BusAgents, PairOf, Pollers,    \* MessageBus
  MaxQueue, MaxMessages, MaxStarts,
  Users, Strategies, MaxCalls, SandboxFaults                   \* SandboxLifecycle

VARIABLES
  running, shutdown, starts, subscribers, knownAgents, queues, recv,    \* MessageBus
  published, enqueued, returned, lost,
  strategy, container, grace, idle, destroyFn, status, user, calls, alone, cleaned  \* SandboxLifecycle

Bus == INSTANCE MessageBus WITH Agents <- BusAgents, None <- Nil
Sandbox == INSTANCE SandboxLifecycle WITH Faults <- SandboxFaults, None <- Nil

(* Bounds are natural numbers; a DIRECT channel belongs to agents of the   *)
(* bus; and Nil is neither a number, a queue nor a set of agents.          *)
ASSUME BusAssumption ==
  /\ Configured \subseteq Channels
  /\ TypeOf \in [Channels -> {"TOPIC", "BROADCAST", "DIRECT"}]
  /\ PairOf \in [Channels -> SUBSET BusAgents] /\ Pollers \subseteq Channels \X BusAgents
  /\ MaxQueue \in Nat /\ MaxMessages \in Nat /\ MaxStarts \in Nat
  /\ Nil \notin Nat /\ Nil \notin Seq(Nat) /\ \A S \in SUBSET BusAgents : Nil # S
ASSUME SandboxAssumption ==
  /\ Strategies \subseteq {"per-agent", "per-task"} /\ MaxCalls \in Nat
  /\ SandboxFaults \subseteq Sandbox!FaultKinds

----------------------------------------------------------------------------
(* A subscriber gets the messages of a channel in order, none twice.       *)
ReceivedInOrder == Bus!ReceivedInOrder

(* A message that went into a queue is lost only by cancelling a caller.   *)
NothingVanishes == Bus!NothingVanishes

(* A tool call that nobody overlaps with keeps its container.              *)
InUseIsKept == Sandbox!InUseIsKept
=============================================================================
