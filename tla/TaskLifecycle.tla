--------------------------- MODULE TaskLifecycle ---------------------------
(***************************************************************************)
(* The task status machine of core/task_transitions.py and the validity of *)
(* a Task record (core/task.py).  A task is abstracted to the two fields   *)
(* its validators relate, `status' and `assigned_to'; `payload' stands for *)
(* every other mutable field.                                              *)
(***************************************************************************)
CONSTANTS Agents,      \* agent ids a task can be assigned to
          Payloads,    \* values of the remaining mutable fields
          None         \* Python's None

ASSUME NoneAssumption == None \notin Agents

TaskStatus == {"CREATED", "ASSIGNED", "IN_PROGRESS", "IN_REVIEW", "COMPLETED",
               "BLOCKED", "FAILED", "INTERRUPTED", "SUSPENDED", "CANCELLED",
               "REJECTED", "AUTH_REQUIRED"}

VALID_TRANSITIONS ==
  [s \in TaskStatus |->
     CASE s = "CREATED"       -> {"ASSIGNED", "REJECTED"}
       [] s = "ASSIGNED"      -> {"IN_PROGRESS", "AUTH_REQUIRED", "BLOCKED",
                                  "CANCELLED", "FAILED", "INTERRUPTED", "SUSPENDED"}
       [] s = "IN_PROGRESS"   -> {"IN_REVIEW", "AUTH_REQUIRED", "BLOCKED",
                                  "CANCELLED", "FAILED", "INTERRUPTED", "SUSPENDED"}
       [] s = "IN_REVIEW"     -> {"COMPLETED", "IN_PROGRESS", "BLOCKED", "CANCELLED"}
       [] s = "AUTH_REQUIRED" -> {"ASSIGNED", "CANCELLED"}
       [] s \in {"BLOCKED", "FAILED", "INTERRUPTED", "SUSPENDED"} -> {"ASSIGNED"}
       [] OTHER               -> {}]

(* StateMachine.is_terminal *)
Terminal == {s \in TaskStatus : VALID_TRANSITIONS[s] = {}}

Task == [status : TaskStatus, assigned_to : Agents \cup {None}, payload : Payloads]

RequiresAssignee == {"ASSIGNED", "IN_PROGRESS", "IN_REVIEW", "COMPLETED", "AUTH_REQUIRED"}

(* Task._validate_assignment_consistency *)
ConsistentAssignment(task) ==
  /\ task.status = "CREATED" => task.assigned_to = None
  /\ task.status \in RequiresAssignee => task.assigned_to # None

(* validate_transition: the table lookup of StateMachine.validate *)
TransitionAllowed(current, target) == target \in VALID_TRANSITIONS[current]
============================================================================
