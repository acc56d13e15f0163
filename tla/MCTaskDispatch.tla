--------------------------- MODULE MCTaskDispatch ---------------------------
(***************************************************************************)
(* TaskDispatch for TLC: a task is assigned.                               *)
(***************************************************************************)
EXTENDS TaskDispatch

Change(previous, new) == [previous |-> previous, new |-> new]

MCOneChange == <<Change("CREATED", "ASSIGNED")>>
=============================================================================
