-------------------------- MODULE MCEscalationLive --------------------------
(***************************************************************************)
(* The liveness properties of Escalation for TLC, in two scenarios that a  *)
(* behaviour chooses once: with a time-out and every fault (the values of  *)
(* the .cfg), and without either, where only the notifications of two      *)
(* workers wake the resolvers.                                             *)
(***************************************************************************)
EXTENDS MCEscalation

CONSTANTS q1, q2

VARIABLE scenario

Wakes == INSTANCE Escalation WITH
  Resolvers <- {r1, r2}, Requests <- {q1, q2}, HasTimeout <- FALSE, Faults <- {},
  Home <- MCHome, ConflictOf <- MCConflictOf

allVars == <<vars, scenario>>

InReturns(A) == scenario = "returns" /\ A /\ UNCHANGED scenario
InWakes(A) == scenario = "wakes" /\ A /\ UNCHANGED scenario

LiveInit == \/ scenario = "returns" /\ Init
            \/ scenario = "wakes" /\ Wakes!Init

(* the fairness of module Escalation, for the scenario at hand             *)
LiveFairness ==
  /\ \A r \in Resolvers : /\ WF_allVars(InReturns(ResolverStep(r)))
                          /\ WF_allVars(InReturns(PassDeadline(r)))
  /\ \A q \in Requests : WF_allVars(InReturns(RequestStep(q)))
  /\ \A a \in Actors : WF_allVars(InReturns(Publish(a)))
  /\ \A w \in Workers : /\ WF_allVars(InReturns(Dispatch(w)))
                        /\ WF_allVars(InReturns(ReopenChannel(w)))
                        /\ WF_allVars(InReturns(Sweep(w)))
  /\ \A r \in {r1, r2} : WF_allVars(InWakes(Wakes!ResolverStep(r)))
  /\ \A q \in {q1, q2} : WF_allVars(InWakes(Wakes!RequestStep(q)))
  /\ \A a \in Wakes!Actors : WF_allVars(InWakes(Wakes!Publish(a)))
  /\ \A w \in Workers : /\ WF_allVars(InWakes(Wakes!Dispatch(w)))
                        /\ WF_allVars(InWakes(Wakes!Sweep(w)))

LiveSpec == LiveInit /\ [][InReturns(Next) \/ InWakes(Wakes!Next)]_allVars /\ LiveFairness

(* With a time-out, every resolve() returns, under every fault.            *)
EveryCallReturns ==
  \A r \in Resolvers : scenario = "returns" /\ pc[r] = "create" ~> pc[r] = "done"

(* With a time-out, every row settles: the deadline, the sweeper or an     *)
(* operator ends it, also after a crash of the worker that created it.     *)
EveryRowSettles ==
  \A r \in Resolvers : scenario = "returns" /\ PendingRow(r) ~> ~PendingRow(r)

(* Without a time-out, a resolver whose row was settled on either worker   *)
(* is woken and returns.                                                   *)
SettledIsNoticedByAll ==
  \A r \in {r1, r2} :
     scenario = "wakes" /\ rows[r].status \in Terminal ~> scenario = "wakes" /\ pc[r] = "done"
=============================================================================
