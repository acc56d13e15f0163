---------------------------- MODULE GateAndQueue ----------------------------
(***************************************************************************)
(* The approval gate and the distributed task queue, side by side: two     *)
(* services that run beside the task engine and share no state.            *)
(***************************************************************************)
EXTENDS ApprovalGate

CONSTANTS Changes, Workers, MaxAttempts, MaxDeliver, MaxDeaths, DispatchFaults

VARIABLES observed, disp, outcome, client, stream, worker, verdicts, deaths

Dispatch == INSTANCE TaskDispatch WITH Faults <- DispatchFaults

(* Changes name a status before and after, and None is no result.          *)
ASSUME DispatchAssumption ==
  /\ Changes \in Seq([previous : STRING, new : STRING])
  /\ MaxAttempts \in Nat \ {0} /\ MaxDeliver \in Nat \ {0} /\ MaxDeaths \in Nat
  /\ DispatchFaults \subseteq Dispatch!FaultKinds
  /\ None \notin {"terminal", "retry"}

----------------------------------------------------------------------------
(* A claim leaves the work queue only after an execution ended with        *)
(* SUCCESS or FAILED.                                                      *)
AckedWasExecuted == Dispatch!AckedWasExecuted
=============================================================================
