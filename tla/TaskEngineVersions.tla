------------------------- MODULE TaskEngineVersions --------------------------
(***************************************************************************)
(* What callers see of the task engine, for every set of requests,         *)
(* mutations and faults: rows evolve along the transition table, versions  *)
(* order the writes, and the engine implements the atomic store of module  *)
(* TaskStore.                                                              *)
(***************************************************************************)
EXTENDS TaskEngineRequests, TaskEngineStore

----------------------------------------------------------------------------
TaskFor(r) == TaskOf(r, mutation[r])

(* A mutation read its row at one step and writes it at a later one.  In   *)
(* between, what it decided stays right, because nobody else writes.  A    *)
(* task created by a request exists only once that request was applied,    *)
(* and only then others write to it.                                       *)
Planned(m, row) ==
  /\ m.type # "create" => rows[m.task] # None
  /\ row = None <=> m.type = "delete"
  /\ row # None => ConsistentAssignment(row)
  /\ row # None /\ m.type # "create" =>
       \/ row.status = rows[m.task].status
       \/ TransitionAllowed(rows[m.task].status, row.status)

RowsConsistent == \A t \in TaskIds : rows[t] # None => ConsistentAssignment(rows[t])

CreatedFirst ==
  /\ \A r \in Requests : rows[r] # None => r \in Range(applied)
  /\ \A q \in Range(applied) : TaskFor(q) \in Requests => TaskFor(q) \in Range(applied)

PlanHolds(g) ==
  /\ Planned(mutation[env[g]], plan[g])
  /\ Decision(env[g]).code = "write" /\ Decision(env[g]).row = plan[g]

SavedHolds(g) == rows[TaskFor(env[g])] = None <=> mutation[env[g]].type = "delete"

RowInv ==
  /\ RowsConsistent /\ CreatedFirst
  /\ \A g \in Gens : procPc[g] = "save" => PlanHolds(g)
  /\ \A g \in Gens : procPc[g] = "saved" => SavedHolds(g)

(* It holds initially.                                                     *)
LEMMA RowInit == Init => RowInv
  BY EngineAssumption, RangeEmpty DEF Init, RowInv, RowsConsistent, CreatedFirst, TaskIds

(* The step a loop takes when its write commits, as far as rows go.        *)
LEMMA CommitRows ==
  ASSUME TypeInv, RequestInv, RowInv, NEW g \in Gens, StoreCommit(g)
  PROVE  LET t == TaskFor(env[g])
             m == mutation[env[g]]
         IN /\ t \in TaskIds /\ env[g] \in Requests /\ m \in Mutations /\ Planned(m, plan[g])
            /\ t = IF m.type = "create" THEN env[g] ELSE m.task
            /\ env[g] \notin Range(applied) /\ Range(applied') = Range(applied) \cup {env[g]}
            /\ rows'[t] = plan[g] /\ \A s \in TaskIds : s # t => rows'[s] = rows[s]
            /\ rows[t] = None => m.type = "create" /\ \A q \in Range(applied) : TaskFor(q) # t
<1>a. StoreOK /\ CallOK /\ ProcOK /\ EnvOK /\ applied \in Seq(Requests)
  BY Zenon DEF TypeInv, TypeOK
<1> DEFINE t == TaskFor(env[g])
           m == mutation[env[g]]
<1>1. procPc[g] = "save" /\ applied' = Append(applied, env[g]) /\ rows' = [rows EXCEPT ![t] = plan[g]]
  BY Zenon DEF StoreCommit, TaskFor
<1>2. t \in TaskIds /\ env[g] \in Requests /\ m \in Mutations
  BY Zenon, <1>a, <1>1, BusyType DEF BusyPc, TaskFor
<1>3. env[g] \notin Range(applied) /\ Range(applied') = Range(applied) \cup {env[g]}
  BY <1>a, <1>1, <1>2, RangeAppend DEF RequestInv, Served
<1>4. Planned(m, plan[g])
  BY Zenon, <1>1 DEF RowInv, PlanHolds
<1>5. t = IF m.type = "create" THEN env[g] ELSE m.task
  BY Zenon DEF TaskFor, TaskOf
<1>6. rows'[t] = plan[g] /\ \A s \in TaskIds : s # t => rows'[s] = rows[s]
  BY Zenon, <1>a, <1>1, <1>2 DEF StoreOK
<1>7. ASSUME rows[t] = None PROVE m.type = "create" /\ \A q \in Range(applied) : TaskFor(q) # t
  <2>1. m.type = "create" /\ t = env[g]
    BY Zenon, <1>4, <1>5, <1>7 DEF Planned
  <2> QED BY Zenon, <1>2, <1>3, <2>1 DEF RowInv, CreatedFirst
<1> QED BY Zenon, <1>2, <1>3, <1>4, <1>5, <1>6, <1>7

(* What a loop is about to write stays right while its row stays.          *)
LEMMA PlanStays ==
  ASSUME NEW g \in Gens, rows' = rows, env'[g] = env[g], plan'[g] = plan[g],
         mutation'[env[g]] = mutation[env[g]]
  PROVE  (PlanHolds(g) => PlanHolds(g)') /\ (SavedHolds(g) => SavedHolds(g)')
<1>1. Decision(env[g])' = Decision(env[g])
  BY Zenon DEF Decision
<1>2. Planned(mutation[env[g]], plan[g])' <=> Planned(mutation[env[g]], plan[g])
  BY Zenon DEF Planned
<1>3. TaskFor(env[g])' = TaskFor(env[g])
  BY Zenon DEF TaskFor
<1> QED BY Zenon, <1>1, <1>2, <1>3 DEF PlanHolds, SavedHolds

(* Dropping keeps what is known of the rows ...                            *)
LEMMA DropsKeepRows ==
  ASSUME TypeInv, RowInv, Drops
  PROVE  RowInv'
<1>1. UNCHANGED <<rows, mutation, applied>>
  BY Zenon DEF Drops
<1>2. \A g \in Gens : procPc'[g] \in {"save", "saved"} =>
        procPc'[g] = procPc[g] /\ env'[g] = env[g] /\ plan'[g] = plan[g]
  BY Zenon DEF Drops, Busy, BusyPc
<1>3. RowsConsistent' /\ CreatedFirst'
  BY Zenon, <1>1 DEF RowInv, RowsConsistent, CreatedFirst, TaskFor
<1>b. \A g \in Gens : (procPc[g] = "save" => PlanHolds(g)) /\ (procPc[g] = "saved" => SavedHolds(g))
  BY Zenon DEF RowInv
<1>4. ASSUME NEW g \in Gens PROVE (procPc'[g] = "save" => PlanHolds(g)') /\ (procPc'[g] = "saved" => SavedHolds(g)')
  BY <1>b, <1>1, <1>2, PlanStays
<1> QED BY Zenon, <1>3, <1>4 DEF RowInv

(* ... so does submit() ...                                                *)
LEMMA SubmitKeepsRows ==
  ASSUME TypeInv, RequestInv, RowInv, NEW r \in Requests, NEW m \in Mutations, Submit(r, m)
  PROVE  RowInv'
<1>a. CallOK /\ ProcOK /\ EnvOK /\ applied \in Seq(Requests)
  BY Zenon DEF TypeInv, TypeOK
<1>1. mutation[r] = None /\ r \notin Range(applied)
  BY Zenon DEF Submit, RequestInv, Sent
<1>2. /\ UNCHANGED <<rows, applied, procPc, env, plan>>
      /\ \A q \in Requests : q # r => mutation'[q] = mutation[q]
  BY Zenon, <1>a DEF Submit, CallOK, storeVars, procVars
<1>3. \A q \in Range(applied) : q \in Requests /\ q # r
  BY <1>a, <1>1 DEF Range
<1>4. \A g \in Gens : procPc[g] \in {"save", "saved"} => mutation'[env[g]] = mutation[env[g]]
  BY <1>a, <1>1, <1>2 DEF EnvOK, ProcOK, BusyPc
<1>5. RowsConsistent' /\ CreatedFirst'
  BY Zenon, <1>2, <1>3 DEF RowInv, RowsConsistent, CreatedFirst, TaskFor
<1>b. \A g \in Gens : (procPc[g] = "save" => PlanHolds(g)) /\ (procPc[g] = "saved" => SavedHolds(g))
  BY Zenon DEF RowInv
<1>6. ASSUME NEW g \in Gens PROVE (procPc'[g] = "save" => PlanHolds(g)') /\ (procPc'[g] = "saved" => SavedHolds(g)')
  BY <1>b, <1>2, <1>4, PlanStays
<1> QED BY Zenon, <1>5, <1>6 DEF RowInv

(* ... and so does serving an envelope.                                    *)
LEMMA ServeKeepsRows ==
  ASSUME TypeInv, LifeInv, RequestInv, RowInv, NEW g \in Gens, Serves(g)
  PROVE  RowInv'
<1>a. StoreOK /\ CallOK /\ ProcOK /\ EnvOK /\ applied \in Seq(Requests)
  BY Zenon DEF TypeInv, TypeOK
<1>b. mutation' = mutation /\ \A h \in Gens : h # g => procPc'[h] \notin {"save", "saved"}
  BY Zenon, Alone DEF Busy, BusyPc
<1>1. ASSUME UNCHANGED <<rows, applied>>, procPc'[g] \notin {"save", "saved"} PROVE RowInv'
  BY <1>1, <1>b DEF RowInv, RowsConsistent, CreatedFirst, TaskFor
<1>2. CASE LoopTake(g)
  BY <1>1, <1>2, <1>a DEF LoopTake, storeVars, ProcOK
<1>3. CASE LoopReject(g)
  BY <1>1, <1>3, <1>a DEF LoopReject, NextEnvelope, ProcOK
<1>4. CASE LoopNoop(g)
  BY <1>1, <1>4, <1>a DEF LoopNoop, ProcOK
<1>5. CASE LoopComplete(g)
  BY Zenon, <1>1, <1>5, <1>a DEF LoopComplete, ProcOK
<1>6. CASE LoopPlan(g)
  <2> DEFINE m == mutation[env[g]]
             d == dispatch(m, rows, versions)
  <2>1. /\ procPc[g] = "dispatch" /\ procPc'[g] = "save" /\ UNCHANGED <<rows, applied, env>>
        /\ d.code = "write" /\ plan'[g] = d.row
    BY <1>6, <1>a DEF LoopPlan, Resumes, ProcOK
  <2>2. /\ m \in Mutations
        /\ rows \in [TaskIds -> Task \cup {None}] /\ versions \in [TaskIds -> Nat]
    BY <1>a, <2>1, BusyType DEF BusyPc, StoreOK
  <2>3. Planned(m, d.row)
    BY <2>1, <2>2, WriteMeaning, Zenon DEF Planned
  <2>4. Decision(env[g]) = d
    BY <2>1, <2>2, VersionCheckOnly DEF Decision
  <2> HIDE DEF m, d
  <2>5. PlanHolds(g)'
    BY Zenon, <1>b, <2>1, <2>3, <2>4 DEF PlanHolds, Planned, Decision, m
  <2>6. RowsConsistent' /\ CreatedFirst'
    BY Zenon, <1>b, <2>1 DEF RowInv, RowsConsistent, CreatedFirst, TaskFor
  <2> QED BY <1>b, <2>1, <2>5, <2>6 DEF RowInv
<1>7. CASE StoreCommit(g)
  <2>1. procPc'[g] = "saved" /\ UNCHANGED <<env, plan>>
    BY <1>7, <1>a DEF StoreCommit, ProcOK
  <2>2. SavedHolds(g)'
    BY Zenon, <1>7, <1>b, <2>1, CommitRows DEF SavedHolds, TaskFor, Planned
  <2>3. RowsConsistent'
    BY Zenon, <1>7, CommitRows DEF RowInv, RowsConsistent, Planned
  <2>4. CreatedFirst'
    <3> DEFINE t == TaskFor(env[g])
    <3>1. Range(applied) \subseteq Requests /\ CreatedFirst
      BY <1>a DEF Range, RowInv
    <3>2. /\ Range(applied') = Range(applied) \cup {env[g]}
          /\ \A s \in TaskIds : s # t => rows'[s] = rows[s]
      BY Zenon, <1>7, CommitRows
    <3>3. t = env[g] \/ rows[t] # None
      BY Zenon, <1>7, CommitRows
    <3>4. t \in Requests => t \in Range(applied')
      BY Zenon, <3>1, <3>2, <3>3 DEF CreatedFirst
    <3> HIDE DEF t
    <3>5. \A r \in Requests : rows'[r] # None => r \in Range(applied')
      BY Zenon, <3>1, <3>2, <3>4 DEF CreatedFirst, TaskIds
    <3>6. \A q \in Range(applied') : TaskFor(q) \in Requests => TaskFor(q) \in Range(applied')
      BY Zenon, <3>1, <3>2, <3>4 DEF CreatedFirst, t
    <3> QED BY Zenon, <1>b, <3>5, <3>6 DEF CreatedFirst, TaskFor
  <2> QED BY <1>b, <2>1, <2>2, <2>3, <2>4 DEF RowInv
<1> QED BY <1>2, <1>3, <1>4, <1>5, <1>6, <1>7 DEF Serves

(* One step of the engine keeps it.                                        *)
LEMMA RowStep ==
  ASSUME TypeInv, LifeInv, RequestInv, RowInv, [Next]_vars
  PROVE  RowInv'
  BY StepKinds, DropsKeepRows, SubmitKeepsRows, ServeKeepsRows, Zenon

(* What a step may do to the rows, as RowsEvolve says.                     *)
RowsMove ==
  \A t \in TaskIds :
    /\ rows'[t] # None => ConsistentAssignment(rows'[t])
    /\ rows[t] # None /\ rows'[t] # None =>
         \/ rows'[t].status = rows[t].status
         \/ TransitionAllowed(rows[t].status, rows'[t].status)
    /\ rows[t] = None /\ rows'[t] # None => \A r \in Range(applied) : TaskFor(r) # t

(* Only the write of a served envelope changes a row, and it does so.      *)
LEMMA StepMovesRows ==
  ASSUME TypeInv, LifeInv, RequestInv, RowInv, [Next]_vars
  PROVE  RowsMove
<1>1. ASSUME rows' = rows PROVE RowsMove
  BY Zenon, <1>1 DEF RowsMove, RowInv, RowsConsistent
<1>2. ASSUME NEW g \in Gens, StoreCommit(g) PROVE RowsMove
  <2> DEFINE m == mutation[env[g]]
             s == TaskFor(env[g])
  <2>1. /\ s \in TaskIds /\ Planned(m, plan[g]) /\ s = IF m.type = "create" THEN env[g] ELSE m.task
        /\ rows'[s] = plan[g] /\ \A t \in TaskIds : t # s => rows'[t] = rows[t]
        /\ rows[s] = None => \A q \in Range(applied) : TaskFor(q) # s
        /\ rows[s] # None => m.type # "create"
    <3>1. env[g] \in Requests /\ env[g] \notin Range(applied)
      BY Zenon, <1>2, CommitRows
    <3>2. m.type = "create" => rows[s] = None
      BY Zenon, <3>1 DEF RowInv, CreatedFirst, TaskFor, TaskOf
    <3> QED BY Zenon, <1>2, <3>2, CommitRows
  <2> HIDE DEF m, s
  <2>2. RowsConsistent
    BY Zenon DEF RowInv
  <2> QED BY Zenon, <2>1, <2>2 DEF RowsMove, RowsConsistent, Planned
<1>3. ASSUME NEW r \in Requests, NEW m \in Mutations, Submit(r, m) PROVE RowsMove
  BY Zenon, <1>1, <1>3 DEF Submit, storeVars
<1>4. ASSUME NEW g \in Gens, Serves(g) PROVE RowsMove
  BY Zenon, <1>1, <1>2, <1>4 DEF Serves, LoopTake, LoopReject, LoopNoop, LoopPlan, LoopComplete, storeVars
<1>5. ASSUME Drops PROVE RowsMove
  BY Zenon, <1>1, <1>5 DEF Drops
<1> QED BY Zenon, <1>3, <1>4, <1>5, StepKinds

(* Stored tasks only move along VALID_TRANSITIONS, keep a consistent       *)
(* assignee, and a deleted task never comes back, for every behaviour of   *)
(* the engine.                                                             *)
THEOREM RowsAlwaysEvolve == Spec => RowsEvolve
<1>1. Init => LifeInv
  BY DEF Init, LifeInv, LiveProc
<1>2. Init => RequestInv /\ RowInv
  BY Zenon, RequestInit, RowInit
<1>3. TypeInv /\ LifeInv /\ RequestInv /\ RowInv /\ [Next]_vars => RequestInv' /\ RowInv'
  BY RequestStep, RowStep
<1>4. TypeInv /\ LifeInv /\ RequestInv /\ RowInv /\ [Next]_vars => RowsMove
  BY Zenon, StepMovesRows
<1>5. Spec => [][RowsMove]_vars
  BY <1>1, <1>2, <1>3, <1>4, InitTypeInv, TypeStep, LifeStep, PTL DEF Spec
<1> QED BY Zenon, <1>5 DEF RowsEvolve, RowsMove, TaskFor

----------------------------------------------------------------------------
(* The counter of a stored task is never behind a version that was handed  *)
(* out for it; and a mutation that passed its version check, or creates    *)
(* its task, has seen every write that was answered before it.             *)
Ok(q) == reply[q].code = "ok"

NotBehind ==
  \A q \in Range(applied) :
    Ok(q) /\ rows[TaskFor(q)] # None => reply[q].version <= versions[TaskFor(q)]

SeenBefore(g) ==
  \A q \in Range(applied) : q # env[g] /\ TaskFor(q) = TaskFor(env[g]) =>
    /\ mutation[env[g]].type # "create"
    /\ Ok(q) /\ mutation[env[g]].expected_version # None =>
         reply[q].version <= mutation[env[g]].expected_version

VersionInv ==
  /\ NotBehind
  /\ \A g \in Gens : procPc[g] \in {"save", "saved"} => SeenBefore(g)
  /\ VersionsOrderWrites

(* It holds initially.                                                     *)
LEMMA VersionInit == Init => VersionInv
<1>1. Init => applied = << >> /\ \A g \in Gens : procPc[g] = "none"
  BY Zenon DEF Init
<1> QED BY <1>1, RangeEmpty DEF VersionInv, NotBehind, VersionsOrderWrites

(* What was applied was submitted.                                         *)
LEMMA AppliedType ==
  ASSUME TypeInv, RequestInv, NEW q \in Range(applied)
  PROVE  /\ q \in Requests /\ mutation[q] \in Mutations /\ TaskFor(q) \in TaskIds
         /\ reply[q] \in Reply
<1>1. q \in Requests
  BY DEF TypeInv, TypeOK, Range
<1>2. mutation[q] \in Mutations /\ reply[q] \in Reply
  BY Zenon, <1>1 DEF TypeInv, TypeOK, CallOK, RequestInv, Sent
<1>3. mutation[q].type # "create" => mutation[q].task \in TaskIds
  BY Zenon, <1>2, MutationsAssumption DEF Mutation
<1> QED BY <1>1, <1>2, <1>3 DEF TaskFor, TaskOf, TaskIds

(* A step that writes no row, answers no applied request and takes no      *)
(* counter back ...                                                        *)
Quiet ==
  /\ UNCHANGED <<rows, applied>>
  /\ \A q \in Range(applied) : mutation'[q] = mutation[q] /\ (Ok(q)' => reply'[q] = reply[q])
  /\ \A t \in TaskIds : versions[t] \in Nat /\ versions'[t] \in Nat /\ versions[t] <= versions'[t]

(* ... leaves the counters ahead and the writes in order ...               *)
LEMMA QuietKeepsOrder ==
  ASSUME TypeInv, RequestInv, VersionInv, Quiet
  PROVE  NotBehind' /\ VersionsOrderWrites'
<1>a. NotBehind /\ VersionsOrderWrites
  BY Zenon DEF VersionInv
<1>1. \A q \in Range(applied) : TaskFor(q)' = TaskFor(q) /\ TaskFor(q) \in TaskIds /\ (Ok(q)' => Ok(q))
  BY Zenon, AppliedType DEF Quiet, TaskFor, Ok
<1>2. \A q \in Range(applied) : reply[q].version \in Nat
  BY Zenon, AppliedType DEF Reply
<1>3. ASSUME NEW q \in Range(applied), Ok(q)', rows'[TaskFor(q)'] # None
      PROVE  reply'[q].version <= versions'[TaskFor(q)']
  <2>1. reply'[q] = reply[q] /\ reply[q].version <= versions[TaskFor(q)]
    BY <1>a, <1>1, <1>3 DEF Quiet, NotBehind
  <2> QED BY <1>1, <1>2, <2>1 DEF Quiet
<1>4. NotBehind'
  BY Zenon, <1>3 DEF NotBehind, Quiet
<1>5. ASSUME NEW i \in DOMAIN applied PROVE applied[i] \in Range(applied)
  BY Zenon, <1>5 DEF Range
<1>6. VersionsOrderWrites'
  BY <1>a, <1>1, <1>5 DEF VersionsOrderWrites, Quiet, SameTask, TaskFor, Ok
<1> QED BY Zenon, <1>4, <1>6

(* ... and, if no loop reads a row in it, leaves what the loops have seen. *)
LEMMA QuietKeepsSeen ==
  ASSUME TypeInv, RequestInv, VersionInv, Quiet,
         NEW g \in Gens, procPc[g] \in {"save", "saved"}, env'[g] = env[g],
         mutation'[env[g]] = mutation[env[g]]
  PROVE  SeenBefore(g)'
<1>1. SeenBefore(g)
  BY Zenon DEF VersionInv
<1>2. \A q \in Range(applied) : TaskFor(q)' = TaskFor(q) /\ (Ok(q)' => Ok(q) /\ reply'[q] = reply[q])
  BY Zenon DEF Quiet, TaskFor, Ok
<1>3. /\ applied' = applied /\ env'[g] = env[g] /\ mutation'[env[g]] = mutation[env[g]]
      /\ TaskFor(env[g])' = TaskFor(env[g])
  BY Zenon DEF Quiet, TaskFor
<1> QED BY Zenon, <1>1, <1>2, <1>3 DEF SeenBefore

(* The version check takes no counter back.                                *)
LEMMA CheckedGrows ==
  ASSUME NEW m \in Mutations, NEW R \in [TaskIds -> Task \cup {None}], NEW V \in [TaskIds -> Nat]
  PROVE  \A t \in TaskIds : V[t] \in Nat /\ VersionsChecked(m, R, V)[t] \in Nat
                            /\ V[t] <= VersionsChecked(m, R, V)[t]
<1>1. \A n \in Nat : n <= Seeded(n) /\ Seeded(n) \in Nat
  BY DEF Seeded
<1>2. m.type # "create" => m.task \in TaskIds
  BY Zenon, MutationsAssumption DEF Mutation
<1> QED BY <1>1, <1>2 DEF VersionsChecked, VersionSeed


(* Dropping and submitting keep VersionInv ...                             *)
LEMMA CallersKeepVersions ==
  ASSUME TypeInv, RequestInv, VersionInv, Drops \/ \E r \in Requests, m \in Mutations : Submit(r, m)
  PROVE  VersionInv'
<1>a. CallOK /\ ProcOK /\ EnvOK /\ versions \in [TaskIds -> Nat]
  BY Zenon DEF TypeInv, TypeOK, StoreOK
<1>1. CASE Drops
  <2>1. Quiet
    BY <1>1, <1>a, AppliedType DEF Drops, Quiet, Ok, Unknown
  <2>2. \A g \in Gens : procPc'[g] \in {"save", "saved"} =>
          procPc[g] \in {"save", "saved"} /\ env'[g] = env[g] /\ mutation' = mutation
    BY Zenon, <1>1 DEF Drops, Busy, BusyPc
  <2> QED BY <2>1, <2>2, QuietKeepsOrder, QuietKeepsSeen DEF VersionInv
<1>2. ASSUME NEW r \in Requests, NEW m \in Mutations, Submit(r, m) PROVE VersionInv'
  <2>1. mutation[r] = None /\ r \notin Range(applied)
    BY Zenon, <1>2 DEF Submit, RequestInv, Sent
  <2>2. /\ UNCHANGED <<rows, versions, applied, procPc, env>>
        /\ \A q \in Requests : q # r => mutation'[q] = mutation[q] /\ reply'[q] = reply[q]
    BY <1>2, <1>a DEF Submit, CallOK, storeVars, procVars
  <2>3. Quiet
    BY <1>a, <2>1, <2>2, AppliedType DEF Quiet
  <2>4. \A g \in Gens : procPc[g] \in {"save", "saved"} => mutation'[env[g]] = mutation[env[g]]
    BY <1>a, <2>1, <2>2 DEF EnvOK, ProcOK, BusyPc
  <2> QED BY Zenon, <2>2, <2>3, <2>4, QuietKeepsOrder, QuietKeepsSeen DEF VersionInv
<1> QED BY Zenon, <1>1, <1>2

(* ... and so do the steps of a loop up to the read of its row ...         *)
LEMMA ReadsKeepVersions ==
  ASSUME TypeInv, LifeInv, RequestInv, RowInv, VersionInv, NEW g \in Gens,
         LoopTake(g) \/ LoopReject(g) \/ LoopNoop(g) \/ LoopPlan(g)
  PROVE  VersionInv'
<1>a. StoreOK /\ CallOK /\ ProcOK /\ EnvOK
  BY Zenon DEF TypeInv, TypeOK
<1>b. mutation' = mutation /\ \A h \in Gens : h # g => procPc'[h] \notin {"save", "saved"}
  BY Zenon, Alone DEF Serves, Busy, BusyPc
<1>c. VersionInv' <=> /\ NotBehind' /\ VersionsOrderWrites'
                      /\ procPc'[g] \in {"save", "saved"} => SeenBefore(g)'
  BY Zenon, <1>b DEF VersionInv
<1>1. CASE LoopTake(g)
  <2>1. Quiet
    BY <1>1, <1>a, <1>b DEF LoopTake, storeVars, StoreOK, Quiet
  <2>2. procPc'[g] = "dispatch"
    BY Zenon, <1>1, <1>a DEF LoopTake, ProcOK
  <2> QED BY <2>1, <2>2, <1>c, QuietKeepsOrder
<1>2. CASE LoopReject(g) \/ LoopNoop(g) \/ LoopPlan(g)
  <2>1. procPc[g] = "dispatch"
    BY Zenon, <1>2 DEF LoopReject, LoopNoop, LoopPlan, Resumes
  <2> DEFINE r == env[g]
             m == mutation[r]
  <2>2. r \in Requests /\ m \in Mutations /\ r \notin Range(applied)
    BY Zenon, <1>a, <2>1, BusyType DEF BusyPc, RequestInv, Served
  <2>3. /\ versions' = VersionsChecked(m, rows, versions) /\ UNCHANGED <<rows, applied>>
        /\ procPc'[g] \in {"poll", "publish", "save"}
        /\ (\E c, v : Answer(r, c, v)) \/ reply' = reply
    BY <1>2, <1>a, Zenon DEF LoopReject, LoopNoop, LoopPlan, NextEnvelope, ProcOK, callVars
  <2> HIDE DEF m
  <2>4. \A q \in Requests : q # r => reply'[q] = reply[q]
    BY Zenon, <1>a, <2>2, <2>3, AnswerOnce
  <2>5. Quiet
    BY Zenon, <1>a, <1>b, <2>2, <2>3, <2>4, CheckedGrows, AppliedType DEF Quiet, StoreOK
  <2>6. CASE ~LoopPlan(g)
    <3>1. procPc'[g] \notin {"save", "saved"}
      BY Zenon, <1>2, <2>6, <1>a DEF LoopReject, LoopNoop, NextEnvelope, ProcOK
    <3> QED BY <3>1, <2>5, <1>c, QuietKeepsOrder
  <2>7. CASE LoopPlan(g)
    <3> DEFINE t == TaskFor(r)
    <3>1. dispatch(m, rows, versions).code = "write" /\ reply' = reply /\ env' = env
      BY Zenon, <2>7 DEF LoopPlan, callVars, m
    <3>2. t = IF m.type = "create" THEN r ELSE m.task
      BY Zenon DEF TaskFor, TaskOf, m
    <3>3. ASSUME NEW q \in Range(applied), TaskFor(q) = t PROVE m.type # "create"
      BY Zenon, <2>2, <3>2, <3>3 DEF RowInv, CreatedFirst
    <3>4. ASSUME NEW q \in Range(applied), TaskFor(q) = t, Ok(q), m.expected_version # None
          PROVE  reply[q].version <= m.expected_version
      <4>1. m.type # "create" /\ m.expected_version = Seeded(versions[m.task]) /\ t = m.task
        BY Zenon, <1>a, <2>2, <3>1, <3>2, <3>4, WriteExpected DEF StoreOK
      <4>2. rows[t] # None
        BY Zenon, <1>a, <2>2, <3>1, <4>1, WriteMeaning DEF StoreOK
      <4>3. reply[q].version <= versions[t]
        BY Zenon, <3>4, <4>2 DEF VersionInv, NotBehind
      <4>4. reply[q].version \in Nat /\ versions[t] \in Nat
        BY Zenon, <1>a, <3>4, AppliedType DEF Reply, StoreOK
      <4> QED BY <4>1, <4>3, <4>4 DEF Seeded
    <3>5. SeenBefore(g)'
      BY Zenon, <1>b, <2>3, <3>1, <3>3, <3>4 DEF SeenBefore, TaskFor, Ok, m
    <3> QED BY <3>5, <2>5, <1>c, QuietKeepsOrder
  <2> QED BY Zenon, <2>6, <2>7
<1> QED BY Zenon, <1>1, <1>2


(* ... the write of the row, which is not answered yet ...                 *)
LEMMA CommitKeepsVersions ==
  ASSUME TypeInv, LifeInv, RequestInv, RowInv, VersionInv, NEW g \in Gens, StoreCommit(g)
  PROVE  VersionInv'
<1>a. CallOK /\ ProcOK /\ EnvOK /\ applied \in Seq(Requests)
  BY Zenon DEF TypeInv, TypeOK
<1>b. mutation' = mutation /\ \A h \in Gens : h # g => procPc'[h] \notin {"save", "saved"}
  BY Zenon, Alone DEF Serves, Busy, BusyPc
<1> DEFINE r == env[g]
           m == mutation[r]
           t == TaskFor(r)
<1>1. /\ procPc[g] = "save" /\ UNCHANGED <<versions, reply, env>>
      /\ applied' = Append(applied, r)
  BY Zenon DEF StoreCommit, callVars
<1>2. SeenBefore(g) /\ NotBehind /\ VersionsOrderWrites /\ ~Ok(r)
  BY Zenon, <1>1 DEF VersionInv, RequestInv, Served, Ok, Open, Unknown
<1>3. /\ t \in TaskIds /\ r \in Requests /\ Planned(m, plan[g])
      /\ r \notin Range(applied) /\ Range(applied') = Range(applied) \cup {r}
      /\ rows'[t] = plan[g] /\ \A s \in TaskIds : s # t => rows'[s] = rows[s]
      /\ rows[t] = None => m.type = "create"
  BY Zenon, CommitRows
<1>4. \A q : TaskFor(q)' = TaskFor(q)
  BY Zenon, <1>b DEF TaskFor
<1> HIDE DEF m, r, t
<1>5. ASSUME NEW q \in Range(applied), Ok(q), rows'[TaskFor(q)] # None PROVE rows[TaskFor(q)] # None
  <2>1. TaskFor(q) \in TaskIds
    BY Zenon, <1>5, AppliedType
  <2>2. CASE TaskFor(q) = t
    BY Zenon, <1>2, <1>3, <1>5, <2>2 DEF SeenBefore, m, r, t
  <2> QED BY Zenon, <1>3, <1>5, <2>1, <2>2
<1>6. NotBehind'
  BY Zenon, <1>1, <1>2, <1>3, <1>4, <1>5 DEF NotBehind, Ok
<1>7. SeenBefore(g)'
  BY Zenon, <1>b, <1>1, <1>2, <1>3, <1>4 DEF SeenBefore, Ok, r
<1>8. VersionsOrderWrites'
  <2> SUFFICES ASSUME NEW i \in DOMAIN applied', NEW j \in DOMAIN applied', i < j,
                      TaskFor(applied'[i]) = TaskFor(applied'[j]), Ok(applied'[i]), Ok(applied'[j])
               PROVE  /\ mutation[applied'[j]].type # "delete" =>
                           reply[applied'[i]].version < reply[applied'[j]].version
                      /\ mutation[applied'[j]].expected_version # None =>
                           reply[applied'[i]].version <= mutation[applied'[j]].expected_version
    BY Zenon, <1>b, <1>1 DEF VersionsOrderWrites, Ok, SameTask, TaskFor
  <2>a. applied' = Append(applied, r)
    BY Zenon, <1>1
  <2>b. applied \in Seq(Requests) /\ r \in Requests
    BY Zenon, <1>a, <1>3
  <2>1. /\ i \in DOMAIN applied /\ applied'[i] = applied[i]
        /\ applied'[j] = r \/ (j \in DOMAIN applied /\ applied'[j] = applied[j])
    BY <2>a, <2>b, PlacesAppend
  <2>2. j \in DOMAIN applied /\ applied'[j] = applied[j]
    BY Zenon, <1>2, <2>1
  <2>3. SameTask(applied[i], applied[j]) /\ Ok(applied[i]) /\ Ok(applied[j])
    BY Zenon, <2>1, <2>2 DEF SameTask, TaskFor
  <2> QED BY Zenon, <1>2, <2>1, <2>2, <2>3 DEF VersionsOrderWrites, Ok
<1> QED BY Zenon, <1>b, <1>6, <1>7, <1>8 DEF VersionInv


(* ... and the answer, whose version is greater than all before it.        *)
LEMMA CompleteKeepsVersions ==
  ASSUME TypeInv, LifeInv, RequestInv, RowInv, VersionInv, NEW g \in Gens, LoopComplete(g)
  PROVE  VersionInv'
<1>a. StoreOK /\ CallOK /\ ProcOK /\ EnvOK /\ applied \in Seq(Requests)
  BY Zenon DEF TypeInv, TypeOK
<1>b. mutation' = mutation /\ \A h \in Gens : h # g => procPc'[h] \notin {"save", "saved"}
  BY Zenon, Alone DEF Serves, Busy, BusyPc
<1>r. PICK r \in Requests : r = env[g] /\ mutation[r] \in Mutations /\ TaskFor(r) \in TaskIds
  BY Zenon, <1>a, BusyType DEF LoopComplete, Resumes, BusyPc, TaskFor
<1> DEFINE m == mutation[r]
           t == TaskFor(r)
<1>1. /\ procPc[g] = "saved" /\ procPc'[g] = "publish" /\ UNCHANGED <<rows, applied>>
      /\ versions' = VersionsWritten(m, t, versions) /\ Answer(r, "ok", versions'[t])
  BY <1>a, <1>r, Zenon DEF LoopComplete, Resumes, ProcOK, TaskFor
<1>2. /\ SeenBefore(g) /\ NotBehind /\ VersionsOrderWrites /\ SavedHolds(g) /\ ~Ok(r)
      /\ applied # << >> /\ Final(applied) = r /\ Injective(applied)
  BY Zenon, <1>r, <1>1 DEF VersionInv, RowInv, RequestInv, ReplyMatchesEffect, Injective, Served, Ok, Open, Unknown
<1>3. m \in Mutations /\ t \in TaskIds
  BY Zenon, <1>r
<1> HIDE DEF m, t
<1>4. /\ \A q \in Requests : q # r => reply'[q] = reply[q]
      /\ Ok(r)' => reply'[r].version = versions'[t]
  <2>1. Answer(r, "ok", versions'[t])
    BY Zenon, <1>1
  <2>2. ~(reply[r].code = "ok")
    BY Zenon, <1>2 DEF Ok
  <2> QED BY Zenon, <1>a, <2>1, <2>2, AnswerOnce DEF Ok
<1>5. /\ \A s \in TaskIds : versions'[s] \in Nat /\ versions[s] \in Nat /\ (s # t => versions'[s] = versions[s])
      /\ m.type \notin {"create", "delete"} => versions[t] < versions'[t]
  <2>1. versions \in [TaskIds -> Nat] /\ versions' \in [TaskIds -> Nat]
    BY Zenon, <1>a, <1>1, <1>3, VersionsType DEF StoreOK
  <2>2. versions' = VersionsWritten(m, t, versions)
    BY Zenon, <1>1
  <2> QED BY <1>3, <2>1, <2>2 DEF VersionsWritten, VersionBump, Seeded
<1>6. \A q : TaskFor(q)' = TaskFor(q)
  BY Zenon, <1>b DEF TaskFor
<1>7. ASSUME NEW q \in Range(applied), q # r, TaskFor(q) = t, Ok(q), m.type # "delete"
      PROVE  reply[q].version < versions'[t]
  <2>1. m.type # "create" /\ rows[t] # None
    BY Zenon, <1>r, <1>2, <1>7 DEF SeenBefore, SavedHolds, m, t
  <2>2. reply[q].version <= versions[t]
    BY Zenon, <1>2, <1>7, <2>1 DEF NotBehind
  <2>3. reply[q].version \in Nat
    BY Zenon, <1>7, AppliedType DEF Reply
  <2> QED BY <1>3, <1>5, <1>7, <2>1, <2>2, <2>3
<1>8. NotBehind'
  <2> SUFFICES ASSUME NEW q \in Range(applied), Ok(q)', rows[TaskFor(q)] # None
               PROVE  reply'[q].version <= versions'[TaskFor(q)]
    BY Zenon, <1>1, <1>6 DEF NotBehind
  <2>1. q \in Requests /\ TaskFor(q) \in TaskIds /\ reply[q].version \in Nat
    BY Zenon, AppliedType DEF Reply
  <2>2. CASE q = r
    BY <1>3, <1>4, <1>5, <2>2 DEF t
  <2>3. CASE q # r /\ TaskFor(q) # t
    BY Zenon, <1>2, <1>4, <1>5, <2>1, <2>3 DEF NotBehind, Ok
  <2>4. CASE q # r /\ TaskFor(q) = t
    <3>1. m.type # "delete" /\ Ok(q)
      BY Zenon, <1>r, <1>2, <1>4, <2>1, <2>4 DEF SavedHolds, m, t, Ok
    <3> QED BY <1>3, <1>4, <1>5, <1>7, <2>1, <2>4, <3>1
  <2> QED BY Zenon, <2>2, <2>3, <2>4
<1>9. VersionsOrderWrites'
  <2> SUFFICES ASSUME NEW i \in DOMAIN applied, NEW j \in DOMAIN applied, i < j,
                      TaskFor(applied[i]) = TaskFor(applied[j]),
                      reply'[applied[i]].code = "ok", reply'[applied[j]].code = "ok"
               PROVE  /\ mutation[applied[j]].type # "delete" =>
                           reply'[applied[i]].version < reply'[applied[j]].version
                      /\ mutation[applied[j]].expected_version # None =>
                           reply'[applied[i]].version <= mutation[applied[j]].expected_version
    BY Zenon, <1>b, <1>1 DEF VersionsOrderWrites, Ok, SameTask, TaskFor
  <2>1. /\ DOMAIN applied = 1..Len(applied) /\ Len(applied) \in DOMAIN applied
        /\ applied[Len(applied)] = r /\ Len(applied) \in Nat
    BY <1>a, <1>2 DEF Final
  <2>2. /\ applied[i] \in Requests /\ applied[j] \in Requests
        /\ applied[i] \in Range(applied) /\ applied[i] # r
    BY <1>a, <1>2, <2>1 DEF Injective, Range
  <2>3. Ok(applied[i]) /\ reply'[applied[i]] = reply[applied[i]]
    BY Zenon, <1>4, <2>2 DEF Ok
  <2>4. CASE applied[j] = r
    BY Zenon, <1>r, <1>2, <1>4, <1>7, <2>2, <2>3, <2>4 DEF SeenBefore, Ok, m, t
  <2>5. CASE applied[j] # r
    <3>1. Ok(applied[j]) /\ reply'[applied[j]] = reply[applied[j]]
      BY Zenon, <1>4, <2>2, <2>5 DEF Ok
    <3> QED BY Zenon, <1>2, <2>3, <3>1 DEF VersionsOrderWrites, Ok, SameTask, TaskFor
  <2> QED BY Zenon, <2>4, <2>5
<1> QED BY Zenon, <1>b, <1>1, <1>8, <1>9 DEF VersionInv

(* One step of the engine keeps it.                                        *)
LEMMA VersionStep ==
  ASSUME TypeInv, LifeInv, RequestInv, RowInv, VersionInv, [Next]_vars
  PROVE  VersionInv'
  BY StepKinds, CallersKeepVersions, ReadsKeepVersions, CommitKeepsVersions, CompleteKeepsVersions, Zenon
     DEF Serves

(* Versions order the writes of a task, and no update is lost: whatever is *)
(* submitted, answered, given up or restarted.                             *)
THEOREM VersionsAlwaysOrderWrites == Spec => []VersionsOrderWrites
<1>1. Init => LifeInv
  BY Zenon DEF Init, LifeInv, LiveProc
<1>2. Init => RequestInv /\ RowInv /\ VersionInv
  BY Zenon, RequestInit, RowInit, VersionInit
<1>3. TypeInv /\ LifeInv /\ RequestInv /\ RowInv /\ VersionInv /\ [Next]_vars =>
        RequestInv' /\ RowInv' /\ VersionInv'
  BY Zenon, RequestStep, RowStep, VersionStep
<1>4. VersionInv => VersionsOrderWrites
  BY Zenon DEF VersionInv
<1> QED BY <1>1, <1>2, <1>3, <1>4, InitTypeInv, TypeStep, LifeStep, PTL DEF Spec

----------------------------------------------------------------------------
(* What a caller can make of each reply.                                   *)
LEMMA AnswerTable ==
  /\ AnswerOf("unsent") = "none" /\ AnswerOf("pending") = "pending" /\ AnswerOf("ok") = "ok"
  /\ \A c \in Rejection : AnswerOf(c) = "refused"
  /\ \A c \in Unknown : AnswerOf(c) = "unknown"
  BY Zenon DEF AnswerOf, Rejection, Unknown

(* The decision of the abstract store is the one the loop came to.         *)
LEMMA OutcomeIsDecision ==
  ASSUME NEW r \in Requests
  PROVE  Store!Outcome(r) = Decision(r)
<1>1. \A task, u : Store!Merge(task, u) = Merge(task, u)
  BY Zenon DEF Store!Merge, Merge
<1>2. \A task : Store!Validated(task) = Validated(task)
  BY Zenon DEF Store!Validated, Validated, Store!Write, Write, Store!Fail, Fail,
     Store!ConsistentAssignment, ConsistentAssignment, Store!RequiresAssignee, RequiresAssignee
<1>3. \A from, to : Store!TransitionAllowed(from, to) <=> TransitionAllowed(from, to)
  BY Zenon DEF Store!TransitionAllowed, TransitionAllowed, Store!VALID_TRANSITIONS, VALID_TRANSITIONS,
     Store!TaskStatus, TaskStatus
<1>4. \A task, target, u : Store!with_transition(task, target, u) = with_transition(task, target, u)
  BY Zenon, <1>1, <1>2, <1>3 DEF Store!with_transition, with_transition, Store!Fail, Fail
<1>5. ASSUME NEW m
      PROVE  /\ Store!apply_create(m) = apply_create(m)
             /\ Store!apply_update(m, rows, Zeros) = apply_update(m, rows, Zeros)
             /\ Store!apply_transition(m, rows, Zeros) = apply_transition(m, rows, Zeros)
             /\ Store!apply_delete(m, rows) = apply_delete(m, rows)
             /\ Store!apply_cancel(m, rows) = apply_cancel(m, rows)
  <2>1. Store!apply_create(m) = apply_create(m)
    BY Zenon, <1>1, <1>2 DEF Store!apply_create, apply_create
  <2>2. \A t, e : Store!VersionMatches(Zeros, t, e) <=> VersionMatches(Zeros, t, e)
    BY Zenon DEF Store!VersionMatches, VersionMatches, Store!Seeded, Seeded
  <2>3. Store!apply_update(m, rows, Zeros) = apply_update(m, rows, Zeros)
    BY Zenon, <1>1, <1>2, <2>2 DEF Store!apply_update, apply_update, Store!Fail, Fail, Store!NoUpdates, NoUpdates
  <2>4. Store!apply_transition(m, rows, Zeros) = apply_transition(m, rows, Zeros)
    BY Zenon, <1>4, <2>2 DEF Store!apply_transition, apply_transition, Store!Fail, Fail
  <2>5. Store!apply_delete(m, rows) = apply_delete(m, rows)
    BY Zenon DEF Store!apply_delete, apply_delete, Store!Fail, Fail, Store!Write, Write
  <2>6. Store!apply_cancel(m, rows) = apply_cancel(m, rows)
    BY Zenon, <1>4 DEF Store!apply_cancel, apply_cancel, Store!Fail, Fail, Store!NoUpdates, NoUpdates
  <2> QED BY Zenon, <2>1, <2>3, <2>4, <2>5, <2>6
<1> QED BY Zenon, <1>5 DEF Store!Outcome, Decision, Unversioned, Zeros, Store!dispatch, dispatch,
           Store!TaskIds, TaskIds

(* What the store sees of a step: nothing ...                              *)
LEMMA SeesNothing ==
  ASSUME CallOK, UNCHANGED <<rows, mutation, applied>>,
         \A r \in Requests : AnswerOf(reply'[r].code) = AnswerOf(reply[r].code)
  PROVE  UNCHANGED Store!storeVars
<1>1. [r \in Requests |-> AnswerOf(reply[r].code)]' = [r \in Requests |-> AnswerOf(reply[r].code)]
  BY Zenon
<1> QED BY Zenon, <1>1 DEF Store!storeVars

(* ... requests that are given up ...                                      *)
LEMMA DropsRefine ==
  ASSUME CallOK, Drops
  PROVE  Store!Next
<1> DEFINE S == {r \in Requests : reply'[r] # reply[r]}
<1>1. S \in SUBSET Requests
  BY Zenon
<1>2. \A r \in S : AnswerOf(reply[r].code) = "pending" /\ AnswerOf(reply'[r].code) = "unknown"
  BY Zenon, AnswerTable DEF Drops
<1>3. \A r \in Requests \ S : reply'[r] = reply[r]
  BY Zenon
<1>4. UNCHANGED <<rows, mutation, applied>>
  BY Zenon DEF Drops
<1> HIDE DEF S
<1>5. Store!Abandon(S)
  BY Zenon, <1>1, <1>2, <1>3, <1>4 DEF Store!Abandon
<1> QED BY Zenon, <1>1, <1>5 DEF Store!Next

(* ... an invocation ...                                                   *)
LEMMA SubmitRefines ==
  ASSUME CallOK, NEW r \in Requests, NEW m \in Mutations, Submit(r, m)
  PROVE  Store!Next
<1>1. /\ reply[r].code = "unsent" /\ mutation' = [mutation EXCEPT ![r] = m]
      /\ reply'[r].code \in {"pending", "not_running", "queue_full"}
      /\ \A q \in Requests : q # r => reply'[q] = reply[q]
      /\ UNCHANGED <<rows, applied>>
  BY Zenon DEF Submit, CallOK, Reply, storeVars
<1>2. AnswerOf(reply[r].code) = "none" /\ AnswerOf(reply'[r].code) \in {"pending", "refused"}
  BY Zenon, <1>1, AnswerTable DEF Rejection
<1>3. Store!Invoke(r, m)
  BY Zenon, <1>1, <1>2 DEF Store!Invoke
<1> QED BY Zenon, <1>3 DEF Store!Next

(* ... an answer ...                                                       *)
LEMMA AnswerRefines ==
  ASSUME CallOK, NEW r \in Requests, NEW c, NEW v, Answer(r, c, v), UNCHANGED <<rows, mutation, applied>>,
         \/ c = "ok" /\ (r \in Range(applied) \/ Decision(r).code = "noop")
         \/ /\ c \in Rejection /\ r \notin Range(applied)
            /\ Decision(r).code \in {"not_found", "validation"} \/ mutation[r].expected_version # None
  PROVE  Store!Next \/ UNCHANGED Store!storeVars
<1>1. CASE reply[r].code # "pending"
  <2>1. reply' = reply
    BY <1>1, Zenon DEF Answer
  <2> QED BY Zenon, <2>1, SeesNothing
<1>2. CASE reply[r].code = "pending"
  <2>1. reply'[r].code = c /\ \A q \in Requests : q # r => reply'[q] = reply[q]
    BY Zenon, <1>2, AnswerOnce
  <2>2. AnswerOf(reply[r].code) = "pending"
    BY Zenon, <1>2, AnswerTable
  <2>3. CASE c = "ok" /\ (r \in Range(applied) \/ Decision(r).code = "noop")
    <3>1. AnswerOf(reply'[r].code) = "ok"
      BY Zenon, <2>1, <2>3, AnswerTable
    <3>2. Store!Succeed(r)
      BY Zenon, <2>1, <2>2, <2>3, <3>1, OutcomeIsDecision DEF Store!Succeed
    <3> QED BY Zenon, <3>2 DEF Store!Next
  <2>4. CASE /\ c \in Rejection /\ r \notin Range(applied)
             /\ Decision(r).code \in {"not_found", "validation"} \/ mutation[r].expected_version # None
    <3>1. AnswerOf(reply'[r].code) = "refused"
      BY Zenon, <2>1, <2>4, AnswerTable
    <3>2. Store!Refuse(r)
      BY Zenon, <2>1, <2>2, <2>4, <3>1, OutcomeIsDecision DEF Store!Refuse
    <3> QED BY Zenon, <3>2 DEF Store!Next
  <2> QED BY Zenon, <2>3, <2>4
<1> QED BY Zenon, <1>1, <1>2


(* Only a mutation that names an expected version meets a conflict.        *)
LEMMA ConflictExpected ==
  ASSUME NEW m \in Mutations, NEW R \in [TaskIds -> Task \cup {None}], NEW V \in [TaskIds -> Nat],
         dispatch(m, R, V).code = "version_conflict"
  PROVE  m.expected_version # None
<1>1. m.type \in MutationType
  BY Zenon, MutationsAssumption DEF Mutation
<1>2. \A task : Validated(task).code # "version_conflict"
  BY Zenon DEF Validated, Write, Fail
<1>3. \A task, target, u : with_transition(task, target, u).code # "version_conflict"
  BY Zenon, <1>2 DEF with_transition, Fail
<1>4. CASE m.type = "create"
  BY Zenon, <1>2, <1>4 DEF dispatch, apply_create
<1>5. CASE m.type = "update"
  <2>1. dispatch(m, R, V) = apply_update(m, R, V)
    BY Zenon, <1>5 DEF dispatch
  <2> QED BY <1>2, <2>1 DEF apply_update, VersionMatches, Fail
<1>6. CASE m.type = "transition"
  <2>1. dispatch(m, R, V) = apply_transition(m, R, V)
    BY Zenon, <1>6 DEF dispatch
  <2> QED BY <1>3, <2>1 DEF apply_transition, VersionMatches, Fail
<1>7. CASE m.type \in {"delete", "cancel"}
  BY Zenon, <1>3, <1>7 DEF dispatch, apply_delete, apply_cancel, Write, Fail
<1> QED BY <1>1, <1>4, <1>5, <1>6, <1>7 DEF MutationType

(* ... or the effect of a write.                                           *)
LEMMA ServeRefines ==
  ASSUME TypeInv, RequestInv, RowInv, NEW g \in Gens, Serves(g)
  PROVE  Store!Next \/ UNCHANGED Store!storeVars
<1>a. StoreOK /\ CallOK /\ ProcOK /\ EnvOK /\ applied \in Seq(Requests)
  BY Zenon DEF TypeInv, TypeOK
<1>b. Served
  BY Zenon DEF RequestInv
<1> DEFINE m == mutation[env[g]]
           d == dispatch(m, rows, versions)
<1>c. ASSUME Busy(g) PROVE env[g] \in Requests /\ m \in Mutations
  BY Zenon, <1>a, <1>c, BusyType DEF Busy
<1>d. ASSUME Busy(g) PROVE Decision(env[g]) = d \/ d.code = "version_conflict"
  BY Zenon, <1>a, <1>c, <1>d, VersionCheckOnly DEF Decision, StoreOK
<1>1. CASE LoopTake(g) \/ LoopPlan(g)
  <2>1. UNCHANGED <<rows, mutation, applied, reply>>
    BY Zenon, <1>1 DEF LoopTake, LoopPlan, storeVars, callVars
  <2> QED BY Zenon, <1>a, <2>1, SeesNothing
<1>2. CASE LoopReject(g)
  <2>1. /\ Busy(g) /\ d.code \in {"not_found", "version_conflict", "validation"}
        /\ Answer(env[g], d.code, 0) /\ UNCHANGED <<rows, mutation, applied>>
    BY Zenon, <1>2 DEF LoopReject, Resumes, Busy, BusyPc
  <2>2. env[g] \notin Range(applied)
    BY Zenon, <1>2, <1>b DEF LoopReject, Resumes, Served
  <2>3. d.code = "version_conflict" => m.expected_version # None
    <3>1. m \in Mutations
      BY Zenon, <1>c, <2>1
    <3> HIDE DEF m
    <3> QED BY Zenon, <1>a, <3>1, ConflictExpected DEF StoreOK
  <2>4. d.code \in Rejection
    BY Zenon, <2>1 DEF Rejection
  <2> HIDE DEF d
  <2>5. Decision(env[g]).code \in {"not_found", "validation"} \/ mutation[env[g]].expected_version # None
    BY Zenon, <1>d, <2>1, <2>3
  <2> QED BY Zenon, <1>a, <1>c, <2>1, <2>2, <2>4, <2>5, AnswerRefines
<1>3. CASE LoopNoop(g)
  <2>1. /\ Busy(g) /\ d.code = "noop"
        /\ Answer(env[g], "ok", versions'[m.task]) /\ UNCHANGED <<rows, mutation, applied>>
    BY Zenon, <1>3 DEF LoopNoop, Resumes, Busy, BusyPc
  <2> HIDE DEF d
  <2>2. Decision(env[g]).code = "noop"
    BY Zenon, <1>d, <2>1
  <2> QED BY Zenon, <1>a, <1>c, <2>1, <2>2, AnswerRefines
<1>4. CASE LoopComplete(g)
  <2>1. /\ Busy(g) /\ UNCHANGED <<rows, mutation, applied>>
        /\ \E v : Answer(env[g], "ok", v)
    BY <1>4, Zenon DEF LoopComplete, Resumes, Busy, BusyPc
  <2>2. env[g] \in Range(applied)
    BY Zenon, <1>4, <1>a, <1>b, FinalInRange DEF LoopComplete, Resumes, Served
  <2> QED BY Zenon, <1>a, <1>c, <2>1, <2>2, AnswerRefines
<1>5. CASE StoreCommit(g)
  <2>1. /\ Busy(g) /\ procPc[g] = "save" /\ UNCHANGED <<mutation, reply>>
        /\ rows' = [rows EXCEPT ![TaskOf(env[g], m)] = plan[g]]
    BY Zenon, <1>5 DEF StoreCommit, callVars, Busy, BusyPc
  <2>2. env[g] \notin Range(applied) /\ Range(applied') = Range(applied) \cup {env[g]}
    BY Zenon, <1>5, CommitRows
  <2>3. Decision(env[g]).code = "write" /\ Decision(env[g]).row = plan[g]
    BY Zenon, <2>1 DEF RowInv, PlanHolds
  <2>4. AnswerOf(reply[env[g]].code) \in {"pending", "unknown"}
    BY Zenon, <1>b, <2>1, AnswerTable DEF Served, Open
  <2>5. Store!TaskOf(env[g], m) = TaskOf(env[g], m)
    BY Zenon DEF Store!TaskOf, TaskOf
  <2> HIDE DEF d
  <2>6. Store!TakeEffect(env[g])
    BY Zenon, <1>c, <2>1, <2>2, <2>3, <2>4, <2>5, OutcomeIsDecision DEF Store!TakeEffect
  <2> QED BY Zenon, <1>c, <2>1, <2>6 DEF Store!Next
<1> QED BY <1>1, <1>2, <1>3, <1>4, <1>5 DEF Serves

(* The engine implements the atomic store: every initial state is one of   *)
(* the store's, and every step is a step of the store or invisible to it.  *)
THEOREM EngineImplementsStore == Spec => ImplementsStore
<1>1. Init => LifeInv
  BY Zenon DEF Init, LifeInv, LiveProc
<1>2. Init => RequestInv /\ RowInv
  BY Zenon, RequestInit, RowInit
<1>3. TypeInv /\ LifeInv /\ RequestInv /\ RowInv /\ [Next]_vars => RequestInv' /\ RowInv'
  BY Zenon, RequestStep, RowStep
<1>4. Init => Store!Init
  BY RangeEmpty, AnswerTable DEF Init, Store!Init, Store!TaskIds, TaskIds
<1>5. ASSUME TypeInv, LifeInv, RequestInv, RowInv, [Next]_vars PROVE [Store!Next]_(Store!storeVars)
  <2>1. CallOK
    BY Zenon, <1>5 DEF TypeInv, TypeOK
  <2> QED BY Zenon, <1>5, <2>1, StepKinds, DropsRefine, SubmitRefines, ServeRefines
<1>6. TypeInv /\ LifeInv /\ RequestInv /\ RowInv /\ [Next]_vars => [Store!Next]_(Store!storeVars)
  BY Zenon, <1>5
<1>7. Spec => Store!Spec
  BY <1>1, <1>2, <1>3, <1>4, <1>6, InitTypeInv, TypeStep, LifeStep, PTL DEF Spec, Store!Spec
<1> QED BY <1>7 DEF ImplementsStore

==============================================================================
