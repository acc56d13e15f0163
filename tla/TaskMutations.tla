--------------------------- MODULE TaskMutations ---------------------------
(***************************************************************************)
(* The mutations of engine/task_engine_models.py, the in-memory            *)
(* VersionTracker (engine/task_engine_version.py) and the sequential       *)
(* meaning of the apply_* functions of engine/task_engine_apply.py: what   *)
(* dispatch() decides for one mutation, given the stored rows and the      *)
(* version counters.  How the steps of dispatch() interleave with the rest *)
(* of the engine is the business of TaskEngine.                            *)
(***************************************************************************)
EXTENDS TaskLifecycle, Naturals

CONSTANTS Requests,    \* one element per call of TaskEngine.submit()
          OldTasks,    \* tasks that were stored before this process started
          Mutations,   \* the mutations the callers may submit
          Keep         \* a field that a mutation leaves out

(* apply_create names a task with a fresh uuid4: the task that request r   *)
(* creates is called r, and no two requests create the same task.          *)
TaskIds == Requests \cup OldTasks

(* The writable fields a mutation carries (CreateTaskData, updates,        *)
(* overrides); Keep is a field it does not mention.  `status', `id' and    *)
(* `created_by' are refused when the mutation is constructed.              *)
Updates == [assigned_to : Agents \cup {None, Keep}, payload : Payloads \cup {Keep}]

NoUpdates == [assigned_to |-> Keep, payload |-> Keep]

MutationType == {"create", "update", "transition", "delete", "cancel"}

Mutation == [type : MutationType, task : TaskIds \cup {None}, target : TaskStatus \cup {None},
             updates : Updates, expected_version : Nat \cup {None}]

ASSUME MutationsAssumption ==
  /\ Keep \notin Agents \cup Payloads \cup {None}
  /\ None \notin Mutations /\ None \notin Task
  /\ \A m \in Mutations :
       /\ m \in Mutation
       /\ m.type = "create" => m.updates.payload # Keep  \* title, description: required
       /\ m.type # "create" => m.task # None
       /\ m.type = "transition" => m.target # None
       /\ m.type \notin {"update", "transition"} => m.expected_version = None

(* the task request r is about: create has no task_id, it makes one        *)
TaskOf(r, m) == IF m.type = "create" THEN r ELSE m.task

----------------------------------------------------------------------------
(* VersionTracker: 0 is "not tracked".                                     *)
Seeded(n) == IF n = 0 THEN 1 ELSE n

VersionSeed(versions, t) == [versions EXCEPT ![t] = Seeded(@)]

VersionBumpLost(versions, t) == [versions EXCEPT ![t] = Seeded(@)]    \* mutant: no increment

VersionBump(versions, t) == [versions EXCEPT ![t] = Seeded(@) + 1]

(* VersionTracker.check accepts, after seeding                             *)
VersionMatches(versions, t, expected) ==
  expected = None \/ Seeded(versions[t]) = expected

----------------------------------------------------------------------------
Fail(code) == [code |-> code, row |-> None]
Write(row) == [code |-> "write", row |-> row]

(* mutant: the fields a mutation leaves out are written too                *)
MergeAllFields(task, updates) ==
  [task EXCEPT !.assigned_to = updates.assigned_to, !.payload = updates.payload]

Merge(task, updates) ==
  [task EXCEPT !.assigned_to = IF updates.assigned_to = Keep THEN @ ELSE updates.assigned_to,
               !.payload = IF updates.payload = Keep THEN @ ELSE updates.payload]

Validated(task) == IF ConsistentAssignment(task) THEN Write(task) ELSE Fail("validation")

(* mutant: the transition table is not consulted                           *)
with_any_transition(task, target, overrides) ==
  Validated([Merge(task, overrides) EXCEPT !.status = target])

(* Task.with_transition                                                    *)
with_transition(task, target, overrides) ==
  IF TransitionAllowed(task.status, target)
    THEN Validated([Merge(task, overrides) EXCEPT !.status = target])
    ELSE Fail("validation")

apply_create(m) ==
  Validated(Merge([status |-> "CREATED", assigned_to |-> None, payload |-> m.updates.payload],
                  m.updates))

apply_update(m, rows, versions) ==
  IF rows[m.task] = None THEN Fail("not_found")
  ELSE IF ~VersionMatches(versions, m.task, m.expected_version) THEN Fail("version_conflict")
  ELSE IF m.updates = NoUpdates THEN [code |-> "noop", row |-> rows[m.task]]
  ELSE Validated(Merge(rows[m.task], m.updates))

apply_transition(m, rows, versions) ==
  IF rows[m.task] = None THEN Fail("not_found")
  ELSE IF ~VersionMatches(versions, m.task, m.expected_version) THEN Fail("version_conflict")
  ELSE with_transition(rows[m.task], m.target, m.updates)

apply_delete(m, rows) ==
  IF rows[m.task] = None THEN Fail("not_found") ELSE Write(None)

apply_cancel(m, rows) ==
  IF rows[m.task] = None THEN Fail("not_found")
  ELSE with_transition(rows[m.task], "CANCELLED", NoUpdates)

(* dispatch(): the decision, before anything is written                    *)
dispatch(m, rows, versions) ==
  CASE m.type = "create"     -> apply_create(m)
    [] m.type = "update"     -> apply_update(m, rows, versions)
    [] m.type = "transition" -> apply_transition(m, rows, versions)
    [] m.type = "delete"     -> apply_delete(m, rows)
    [] m.type = "cancel"     -> apply_cancel(m, rows)

(* the counters after the version check of dispatch(): check() seeds an    *)
(* unknown task even when it then reports a conflict                       *)
VersionsChecked(m, rows, versions) ==
  IF /\ m.type \in {"update", "transition"}
     /\ rows[m.task] # None
     /\ m.expected_version # None
    THEN VersionSeed(versions, m.task)
    ELSE versions

(* the counters after a write: set_initial / bump / remove                 *)
VersionsWritten(m, t, versions) ==
  IF m.type = "create" THEN [versions EXCEPT ![t] = 1]
  ELSE IF m.type = "delete" THEN [versions EXCEPT ![t] = 0]
  ELSE VersionBump(versions, t)
============================================================================
