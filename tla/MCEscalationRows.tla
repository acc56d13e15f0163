-------------------------- MODULE MCEscalationRows --------------------------
(***************************************************************************)
(* The safety properties of Escalation for TLC, in two scenarios that a    *)
(* behaviour chooses once: one escalation under every fault, with two      *)
(* operators' requests that disagree, and one conflict escalated by two    *)
(* workers while notifications get lost and one operator decides.          *)
(***************************************************************************)
EXTENDS MCEscalation, FiniteSets

CONSTANTS d1

VARIABLE scenario

Lossy == INSTANCE Escalation WITH Faults <- {"notify_lost"}

(* only r1 is called, and the operators' requests are about its row        *)
OneResolver == pc'[r2] = "idle" /\ \A q \in Requests : op'[q].target # r2
(* one request, whose decision is d1                                       *)
OneRequest ==
  /\ Cardinality({q \in Requests : op'[q] # NoOp}) <= 1
  /\ \A q \in Requests : op'[q].decision \in {None, d1}

RowsInit == Init /\ scenario \in {"one", "two"}
RowsNext ==
  /\ \/ scenario = "one" /\ Next /\ OneResolver
     \/ scenario = "two" /\ Lossy!Next /\ OneRequest
  /\ UNCHANGED scenario
RowsSpec == RowsInit /\ [][RowsNext]_<<vars, scenario>>

=============================================================================
