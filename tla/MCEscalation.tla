---------------------------- MODULE MCEscalation ----------------------------
(***************************************************************************)
(* Escalation for TLC: one or two calls of resolve() on two workers, and   *)
(* operators who use either worker.                                        *)
(***************************************************************************)
EXTENDS Escalation, TLC

CONSTANTS w1, w2, r1, r2, c1

MCHome == (r1 :> w1) @@ (r2 :> w2)
MCConflictOf == (r1 :> c1) @@ (r2 :> c1)
MCHomeOne == (r1 :> w1)
MCConflictOfOne == (r1 :> c1)

RequestSymmetry == Permutations(Requests)
=============================================================================
