-------------------------- MODULE MCApprovalStore --------------------------
(***************************************************************************)
(* ApprovalStore for TLC: an approval that expires and is decided with     *)
(* save_if_pending(), and one that is saved unconditionally.               *)
(***************************************************************************)
EXTENDS ApprovalStore, TLC

CONSTANTS a1, a2

MCOldItems == {None, "pending"}
MCBoth == {a1, a2}
MCExpiring == {a1}
MCSaveable == {a2}

CallSymmetry == Permutations(Calls)
=============================================================================
