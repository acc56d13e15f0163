-------------------------- MODULE MCApprovalGate ---------------------------
(***************************************************************************)
(* ApprovalGate for TLC: an agent that asks twice in one turn, or once.    *)
(***************************************************************************)
EXTENDS ApprovalGate, TLC

CONSTANTS g1, a1, a2

MCApprovals == {a1, a2}
MCTurnOf == (g1 :> <<a1, a2>>)
MCTurnOfOne == (g1 :> <<a1>>)
=============================================================================
