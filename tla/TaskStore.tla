----------------------------- MODULE TaskStore -----------------------------
(***************************************************************************)
(* What the task engine promises its callers, with no queue and no loops:  *)
(* a store on which every request takes effect at most once, in one atomic *)
(* step, after it was invoked and before it is answered with success.  A   *)
(* refused request never takes effect.  A caller may also be left not      *)
(* knowing ("unknown": internal error, shutdown, the caller gave up); such *)
(* a request may have taken effect, or may still do so.                    *)
(***************************************************************************)
EXTENDS TaskMutations

CONSTANT OldRows

VARIABLES rows, mutation, answer, applied

storeVars == <<rows, mutation, answer, applied>>

Init ==
  /\ rows \in {f \in [TaskIds -> OldRows \cup {None}] : \A r \in Requests : f[r] = None}
  /\ mutation = [r \in Requests |-> None]
  /\ answer = [r \in Requests |-> "none"]
  /\ applied = {}

(* the sequential meaning of the mutation of r, its version check aside    *)
Outcome(r) ==
  dispatch([mutation[r] EXCEPT !.expected_version = None], rows, [t \in TaskIds |-> 0])

Invoke(r, m) ==
  /\ answer[r] = "none"
  /\ mutation' = [mutation EXCEPT ![r] = m]
  /\ \E a \in {"pending", "refused"} : answer' = [answer EXCEPT ![r] = a]
  /\ UNCHANGED <<rows, applied>>

TakeEffect(r) ==
  /\ answer[r] \in {"pending", "unknown"} /\ r \notin applied
  /\ Outcome(r).code = "write"
  /\ rows' = [rows EXCEPT ![TaskOf(r, mutation[r])] = Outcome(r).row]
  /\ applied' = applied \cup {r}
  /\ UNCHANGED <<mutation, answer>>

Succeed(r) ==
  /\ answer[r] = "pending"
  /\ r \in applied \/ Outcome(r).code = "noop"
  /\ answer' = [answer EXCEPT ![r] = "ok"]
  /\ UNCHANGED <<rows, mutation, applied>>

Refuse(r) ==
  /\ answer[r] = "pending" /\ r \notin applied
  /\ \/ Outcome(r).code \in {"not_found", "validation"}
     \/ mutation[r].expected_version # None
  /\ answer' = [answer EXCEPT ![r] = "refused"]
  /\ UNCHANGED <<rows, mutation, applied>>

Abandon(S) ==
  /\ \A r \in S : answer[r] = "pending"
  /\ answer' = [r \in Requests |-> IF r \in S THEN "unknown" ELSE answer[r]]
  /\ UNCHANGED <<rows, mutation, applied>>

Next ==
  \/ \E r \in Requests : \/ \E m \in Mutations : Invoke(r, m)
                         \/ TakeEffect(r) \/ Succeed(r) \/ Refuse(r)
  \/ \E S \in SUBSET Requests : Abandon(S)

Spec == Init /\ [][Next]_storeVars
============================================================================
