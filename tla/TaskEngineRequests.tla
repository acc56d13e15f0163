------------------------- MODULE TaskEngineRequests --------------------------
(***************************************************************************)
(* What becomes of a request, for every set of requests, mutations and     *)
(* faults: what the operators of a mutation compute, the few ways in which *)
(* a step may change rows, requests and envelopes, and from these that the *)
(* answers of the task engine tell the truth.                              *)
(***************************************************************************)
EXTENDS TaskEngineProofs

----------------------------------------------------------------------------
(* Sequences without repetition.                                           *)
Injective(s) == \A i, j \in DOMAIN s : s[i] = s[j] => i = j

(* A new element at the end, or the head taken away, does not repeat one.  *)
LEMMA InjectiveAppend ==
  ASSUME NEW S, NEW s \in Seq(S), NEW e \in S, e \notin Range(s), Injective(s)
  PROVE  Injective(Append(s, e))
<1>1. Len(Append(s, e)) = Len(s) + 1 /\ DOMAIN s = 1..Len(s) /\ DOMAIN Append(s, e) = 1..(Len(s) + 1)
  OBVIOUS
<1>2. \A i \in 1..Len(s) : Append(s, e)[i] = s[i] /\ s[i] # e
  BY DEF Range
<1>3. Append(s, e)[Len(s) + 1] = e
  OBVIOUS
<1> QED BY <1>1, <1>2, <1>3 DEF Injective

(* ... and the head does not occur again.                                  *)
LEMMA InjectiveTail ==
  ASSUME NEW S, NEW s \in Seq(S), s # << >>, Injective(s)
  PROVE  Injective(Tail(s)) /\ Head(s) \notin Range(Tail(s))
<1>1. /\ Len(s) \in Nat /\ Len(s) > 0 /\ DOMAIN s = 1..Len(s) /\ Head(s) = s[1]
      /\ Tail(s) \in Seq(S) /\ DOMAIN Tail(s) = 1..(Len(s) - 1)
  OBVIOUS
<1>2. \A i \in 1..(Len(s) - 1) : Tail(s)[i] = s[i + 1]
  OBVIOUS
<1>3. \A i \in DOMAIN Tail(s) : Tail(s)[i] = s[i + 1] /\ i + 1 \in DOMAIN s /\ i + 1 # 1
  BY <1>1, <1>2
<1>4. Injective(Tail(s))
  BY <1>1, <1>3 DEF Injective
<1>5. Head(s) \notin Range(Tail(s))
  BY <1>1, <1>3 DEF Injective, Range
<1> QED BY Zenon, <1>4, <1>5

Final(s) == s[Len(s)]

(* The element appended is the last one.                                   *)
LEMMA FinalAppend ==
  ASSUME NEW S, NEW s \in Seq(S), NEW e \in S
  PROVE  Append(s, e) # << >> /\ Final(Append(s, e)) = e
  BY DEF Final

(* Of two places of an extended sequence the earlier one is a place of the *)
(* sequence itself, and the later one is too or is the new last place.     *)
LEMMA PlacesAppend ==
  ASSUME NEW S, NEW s \in Seq(S), NEW e \in S, NEW u, u = Append(s, e),
         NEW i \in DOMAIN u, NEW j \in DOMAIN u, i < j
  PROVE  /\ i \in DOMAIN s /\ u[i] = s[i]
         /\ u[j] = e \/ (j \in DOMAIN s /\ u[j] = s[j])
<1>1. Len(s) \in Nat /\ DOMAIN s = 1..Len(s) /\ DOMAIN u = 1..(Len(s) + 1)
  OBVIOUS
<1>2. \A k \in 1..Len(s) : u[k] = s[k]
  OBVIOUS
<1>3. u[Len(s) + 1] = e
  OBVIOUS
<1>4. i \in 1..Len(s) /\ (j = Len(s) + 1 \/ j \in 1..Len(s))
  BY <1>1
<1> QED BY Zenon, <1>1, <1>2, <1>3, <1>4

(* The last element of a sequence is one of its elements.                  *)
LEMMA FinalInRange ==
  ASSUME NEW S, NEW s \in Seq(S), s # << >>
  PROVE  Final(s) \in Range(s)
<1>1. Len(s) \in DOMAIN s
  OBVIOUS
<1> QED BY Zenon, <1>1 DEF Final, Range

----------------------------------------------------------------------------
(* What dispatch() means for the row: a write other than a creation needs  *)
(* a stored row, only a deletion writes None, and the status moves along   *)
(* VALID_TRANSITIONS or not at all.                                        *)
LEMMA WriteMeaning ==
  ASSUME NEW m \in Mutations, NEW R \in [TaskIds -> Task \cup {None}], NEW V \in [TaskIds -> Nat],
         dispatch(m, R, V).code = "write"
  PROVE  LET row == dispatch(m, R, V).row
         IN /\ m.type # "create" => R[m.task] # None
            /\ row = None <=> m.type = "delete"
            /\ row # None => row \in Task /\ ConsistentAssignment(row)
            /\ row # None /\ m.type # "create" =>
                 \/ row.status = R[m.task].status
                 \/ TransitionAllowed(R[m.task].status, row.status)
<1> USE MutationsAssumption
<1>m. /\ m.type \in MutationType /\ m.updates \in Updates
      /\ m.type = "create" => m.updates.payload \in Payloads
      /\ m.type # "create" => m.task \in TaskIds
      /\ m.type = "transition" => m.target \in TaskStatus
  BY Zenon DEF Mutation, MutationType, Updates
<1>r. dispatch(m, R, V).row # None => dispatch(m, R, V).row \in Task /\ ConsistentAssignment(dispatch(m, R, V).row)
  BY Zenon, DispatchType
<1>n. None \notin Task /\ NoUpdates \in Updates /\ "CANCELLED" \in TaskStatus
  BY Zenon DEF NoUpdates, Updates, TaskStatus
<1>v. \A task \in Task : Validated(task).code = "write" => Validated(task).row = task
  BY Zenon DEF Validated, Write, Fail
<1>t. ASSUME NEW task \in Task, NEW target \in TaskStatus, NEW u \in Updates,
             with_transition(task, target, u).code = "write"
      PROVE  LET row == with_transition(task, target, u).row
             IN row \in Task /\ row # None /\ TransitionAllowed(task.status, row.status)
  <2>1. [Merge(task, u) EXCEPT !.status = target] \in Task
    BY Zenon, <1>t, MergeType DEF Task
  <2>2. [Merge(task, u) EXCEPT !.status = target].status = target
    BY Zenon, <1>t, MergeType DEF Task
  <2>3. TransitionAllowed(task.status, target)
    BY Zenon, <1>t DEF with_transition, Fail
  <2>4. with_transition(task, target, u).row = [Merge(task, u) EXCEPT !.status = target]
    BY Zenon, <1>t, <2>1, <2>3, <1>v DEF with_transition
  <2> QED BY <2>1, <2>2, <2>3, <2>4, <1>n
<1>1. CASE m.type = "create"
  <2>1. [status |-> "CREATED", assigned_to |-> None, payload |-> m.updates.payload] \in Task
    BY Zenon, <1>1, <1>m DEF Task, TaskStatus
  <2>2. dispatch(m, R, V) = apply_create(m)
    BY Zenon, <1>1 DEF dispatch
  <2>3. dispatch(m, R, V).row \in Task
    BY <2>1, <2>2, <1>m, <1>v, MergeType DEF apply_create
  <2> QED BY Zenon, <1>1, <2>3, <1>r, <1>n
<1>2. CASE m.type = "update"
  <2>1. dispatch(m, R, V) = apply_update(m, R, V)
    BY Zenon, <1>2 DEF dispatch
  <2>2. R[m.task] # None
    BY <1>2, <2>1 DEF apply_update, Fail
  <2>3. R[m.task] \in Task /\ Merge(R[m.task], m.updates) \in Task
    BY Zenon, <1>2, <2>2, <1>m, MergeType
  <2>4. dispatch(m, R, V).row = Merge(R[m.task], m.updates)
    BY <2>1, <2>2, <2>3, <1>v DEF apply_update, Fail
  <2>5. Merge(R[m.task], m.updates).status = R[m.task].status
    BY Zenon, <2>3 DEF Merge, Task
  <2> QED BY Zenon, <1>2, <2>2, <2>3, <2>4, <2>5, <1>r, <1>n
<1>3. CASE m.type = "transition"
  <2>1. dispatch(m, R, V) = apply_transition(m, R, V)
    BY Zenon, <1>3 DEF dispatch
  <2>2. R[m.task] # None
    BY <1>3, <2>1 DEF apply_transition, Fail
  <2>3. R[m.task] \in Task
    BY Zenon, <1>3, <2>2, <1>m
  <2>4. dispatch(m, R, V) = with_transition(R[m.task], m.target, m.updates)
    BY <2>1, <2>2 DEF apply_transition, Fail
  <2> QED BY <1>3, <2>2, <2>3, <2>4, <1>t, <1>m, <1>r, <1>n
<1>4. CASE m.type = "delete"
  <2>1. dispatch(m, R, V) = apply_delete(m, R)
    BY Zenon, <1>4 DEF dispatch
  <2> QED BY <1>4, <2>1 DEF apply_delete, Fail, Write
<1>5. CASE m.type = "cancel"
  <2>1. dispatch(m, R, V) = apply_cancel(m, R)
    BY Zenon, <1>5 DEF dispatch
  <2>2. R[m.task] # None
    BY <1>5, <2>1 DEF apply_cancel, Fail
  <2>3. R[m.task] \in Task
    BY Zenon, <1>5, <2>2, <1>m
  <2>4. dispatch(m, R, V) = with_transition(R[m.task], "CANCELLED", NoUpdates)
    BY Zenon, <2>1, <2>2 DEF apply_cancel
  <2> QED BY <1>5, <2>2, <2>3, <2>4, <1>t, <1>r, <1>n
<1> QED BY Zenon, <1>1, <1>2, <1>3, <1>4, <1>5, <1>m DEF MutationType

(* The decision about request r, its version check aside: what the atomic  *)
(* store of module TaskStore decides.                                      *)
Zeros == [t \in TaskIds |-> 0]
Unversioned(m) == [m EXCEPT !.expected_version = None]
Decision(r) == dispatch(Unversioned(mutation[r]), rows, Zeros)

(* The version check only ever adds a conflict, to a mutation that names   *)
(* an expected_version.                                                    *)
LEMMA VersionCheckOnly ==
  ASSUME NEW m \in Mutations, NEW R \in [TaskIds -> Task \cup {None}], NEW V \in [TaskIds -> Nat]
  PROVE  \/ dispatch(m, R, V) = dispatch(Unversioned(m), R, Zeros)
         \/ m.expected_version # None /\ dispatch(m, R, V).code = "version_conflict"
<1> DEFINE u == Unversioned(m)
<1>1. m.type \in MutationType /\ m \in Mutation
  BY Zenon, MutationsAssumption DEF Mutation
<1>2. /\ u.type = m.type /\ u.task = m.task /\ u.target = m.target /\ u.updates = m.updates
      /\ u.expected_version = None
  BY Zenon, <1>1 DEF Mutation, Unversioned
<1> HIDE DEF u
<1>3. CASE m.type = "create"
  BY Zenon, <1>2, <1>3 DEF dispatch, apply_create, u
<1>4. CASE m.type = "update"
  <2>1. dispatch(m, R, V) = apply_update(m, R, V) /\ dispatch(u, R, Zeros) = apply_update(u, R, Zeros)
    BY Zenon, <1>2, <1>4 DEF dispatch
  <2> QED BY <1>2, <2>1 DEF apply_update, VersionMatches, Fail, u
<1>5. CASE m.type = "transition"
  <2>1. /\ dispatch(m, R, V) = apply_transition(m, R, V)
        /\ dispatch(u, R, Zeros) = apply_transition(u, R, Zeros)
    BY Zenon, <1>2, <1>5 DEF dispatch
  <2> QED BY <1>2, <2>1 DEF apply_transition, VersionMatches, Fail, u
<1>6. CASE m.type = "delete"
  BY Zenon, <1>2, <1>6 DEF dispatch, apply_delete, u
<1>7. CASE m.type = "cancel"
  BY Zenon, <1>2, <1>7 DEF dispatch, apply_cancel, u
<1> QED BY Zenon, <1>1, <1>3, <1>4, <1>5, <1>6, <1>7 DEF MutationType, u

(* A write that passed the version check expected the current version.     *)
LEMMA WriteExpected ==
  ASSUME NEW m \in Mutations, NEW R \in [TaskIds -> Task \cup {None}], NEW V \in [TaskIds -> Nat],
         dispatch(m, R, V).code = "write", m.expected_version # None
  PROVE  m.type # "create" /\ m.expected_version = Seeded(V[m.task])
<1>1. m.type \in {"update", "transition"}
  BY Zenon, MutationsAssumption
<1> QED BY Zenon, <1>1 DEF dispatch, apply_update, apply_transition, VersionMatches, Fail

----------------------------------------------------------------------------
(* The steps that matter to a request.  Beside submit() and the steps of   *)
(* the processing loop, a step may only forget queued envelopes, let loops *)
(* let go of theirs, and resolve pending futures without a result.         *)
Unknown == {"gone", "shutdown", "internal", "exception"}
Busy(g) == procPc[g] \in BusyPc

Drops ==
  /\ UNCHANGED <<rows, versions, mutation, applied>>
  /\ queue' = queue \/ queue' = << >>
  /\ \A g \in Gens : Busy(g)' => procPc'[g] = procPc[g] /\ env'[g] = env[g] /\ plan'[g] = plan[g]
  /\ \A r \in Requests : \/ reply'[r] = reply[r]
                         \/ reply[r].code = "pending" /\ reply'[r].code \in Unknown

(* Resolving a future without a result.                                    *)
LEMMA AnswerDrops ==
  ASSUME CallOK, NEW r \in Requests, NEW code \in Unknown, Answer(r, code, 0)
  PROVE  \A q \in Requests : \/ reply'[q] = reply[q]
                             \/ reply[q].code = "pending" /\ reply'[q].code \in Unknown
  BY Zenon DEF Answer, CallOK

(* A future is resolved once.                                              *)
LEMMA AnswerOnce ==
  ASSUME CallOK, NEW r \in Requests, NEW code, NEW v, Answer(r, code, v)
  PROVE  /\ \A q \in Requests : q # r => reply'[q] = reply[q]
         /\ \/ reply'[r] = reply[r] /\ reply[r].code # "pending"
            \/ reply[r].code = "pending" /\ reply'[r].code = code /\ reply'[r].version = v
<1>1. CASE reply[r].code = "pending"
  BY Zenon, <1>1 DEF Answer, CallOK
<1>2. CASE reply[r].code # "pending"
  BY Zenon, <1>2 DEF Answer
<1> QED BY Zenon, <1>1, <1>2

(* ... and all those that a drain gives up                                 *)
LEMMA FailDrops ==
  ASSUME CallOK, NEW s, FailRemainingFutures(s)
  PROVE  /\ queue' = << >>
         /\ \A q \in Requests : \/ reply'[q] = reply[q]
                                \/ reply[q].code = "pending" /\ reply'[q].code \in Unknown
  BY Zenon DEF FailRemainingFutures, AbortFutures, CallOK, Unknown

(* start(), stop() and the deadlines only drop.                            *)
LEMMA StopDrops ==
  ASSUME TypeInv, StopNext
  PROVE  Drops
<1> SUFFICES ASSUME CallOK, ProcOK, LoopsOK, LifeOK PROVE Drops
  BY Zenon DEF TypeInv, TypeOK
<1>1. CASE Start
  <2>1. starts + 1 \in Gens /\ starts + 1 > starts
    BY <1>1, Constants DEF Start, LifeOK, Gens
  <2>2. \A g \in Gens : Busy(g)' => procPc'[g] = procPc[g]
    BY Zenon, <1>1, <2>1 DEF Start, Busy, BusyPc, ProcOK
  <2> QED BY Zenon, <1>1, <2>2 DEF Start, Drops, storeVars, callVars
<1>2. CASE StartRollback
  BY Zenon, <1>2 DEF StartRollback, Drops, storeVars, callVars, procVars
<1>3. CASE StopBegin \/ BudgetExpires \/ HardDeadline \/ StopCancelForwarded
  BY Zenon, <1>3 DEF StopBegin, BudgetExpires, HardDeadline, StopCancelForwarded, StopUnchanged, Drops,
     storeVars, callVars, procVars
<1>4. CASE StopProcessingDrained \/ StopProcessingTimeout \/ StopProcessingReapedDead
  BY Zenon, <1>4 DEF StopProcessingDrained, StopProcessingTimeout, StopProcessingReapedDead, StopUnchanged,
     Drops, storeVars, callVars, procVars
<1>5. CASE StopObserverDrained \/ StopObserverTimeout \/ StopObserverReaped
  BY Zenon, <1>5 DEF StopObserverDrained, StopObserverTimeout, StopObserverReaped, StopUnchanged,
     Drops, storeVars, callVars, procVars
<1>6. CASE StopPutSentinel
  BY Zenon, <1>6 DEF StopPutSentinel, Drops, storeVars, callVars, procVars
<1>7. CASE StopProcessingDied
  BY Zenon, <1>7, FailDrops DEF StopProcessingDied, StopUnchanged, Drops, storeVars, procVars
<1>8. CASE StopProcessingReaped
  BY Zenon, <1>8, FailDrops DEF StopProcessingReaped, StopUnchanged, Drops, storeVars, procVars
<1>9. CASE StopAborted
  <2>1. CASE stopPc = "drainProcessing"
    BY Zenon, <1>9, <2>1, FailDrops DEF StopAborted, StopUnchanged, Drops, storeVars, procVars
  <2>2. CASE stopPc # "drainProcessing"
    BY Zenon, <1>9, <2>2 DEF StopAborted, StopUnchanged, Drops, storeVars, procVars
  <2> QED BY Zenon, <2>1, <2>2
<1> QED BY Zenon, <1>1, <1>2, <1>3, <1>4, <1>5, <1>6, <1>7, <1>8, <1>9 DEF StopNext, StopStep


(* The steps of the processing loop that serve an envelope.                *)
Serves(g) == LoopTake(g) \/ LoopReject(g) \/ LoopNoop(g) \/ LoopPlan(g) \/ StoreCommit(g) \/ LoopComplete(g)

(* Every step submits a request, serves one, or only drops.                *)
LEMMA StepKinds ==
  ASSUME TypeInv, [Next]_vars
  PROVE  \/ \E r \in Requests, m \in Mutations : Submit(r, m)
         \/ \E g \in Gens : Serves(g)
         \/ Drops
<1> USE DEF Drops
<1>a. CallOK /\ ProcOK /\ EnvOK /\ LoopsOK
  BY Zenon DEF TypeInv, TypeOK
<1>1. ASSUME NEW r \in Requests, CallerGone(r) PROVE Drops
  BY Zenon, <1>1, <1>a DEF CallerGone, storeVars, procVars, CallOK, Reply, Unknown
<1>2. CASE ObserverNext
  BY Zenon, <1>2 DEF ObserverNext, ObsTake, ObsReturn, ObsDies, ObsCancelled, ObsIgnoresCancel, storeVars,
     callVars, procVars
<1>3. ASSUME NEW g \in Gens, LoopExit(g) PROVE Drops
  BY Zenon, <1>3, <1>a DEF LoopExit, storeVars, callVars, Busy, BusyPc, ProcOK
<1>4. ASSUME NEW g \in Gens, LoopIgnoresCancel(g) PROVE Drops
  BY Zenon, <1>4 DEF LoopIgnoresCancel, storeVars, callVars, procVars
<1>5. ASSUME NEW g \in Gens, LoopNotify(g) PROVE Drops
  BY Zenon, <1>5, <1>a DEF LoopNotify, NextEnvelope, storeVars, Busy, BusyPc, ProcOK
<1>6. ASSUME NEW g \in Gens, LoopStoreError(g) PROVE Drops
  <2>1. env[g] \in Requests /\ "internal" \in Unknown
    BY Zenon, <1>6, <1>a, BusyType DEF LoopStoreError, Resumes, BusyPc, Unknown
  <2> QED BY Zenon, <1>6, <1>a, <2>1, AnswerDrops DEF LoopStoreError, NextEnvelope, storeVars, Busy, BusyPc,
             ProcOK
<1>7. ASSUME NEW g \in Gens, LoopDies(g) PROVE Drops
  <2>1. env[g] \in Requests /\ "exception" \in Unknown
    BY <1>7, <1>a, BusyType, Zenon DEF LoopDies, Resumes, BusyPc, Unknown
  <2> QED BY Zenon, <1>7, <1>a, <2>1, AnswerDrops DEF LoopDies, storeVars, Busy, BusyPc, ProcOK
<1>8. ASSUME NEW g \in Gens, LoopCancelled(g) PROVE Drops
  BY Zenon, <1>8, <1>a DEF LoopCancelled, storeVars, Busy, BusyPc, ProcOK
<1>9. CASE StopNext
  BY Zenon, <1>9, StopDrops
<1>10. CASE UNCHANGED vars
  BY Zenon, <1>10 DEF vars, storeVars, callVars, procVars
<1> HIDE DEF Drops
<1> QED BY <1>1, <1>2, <1>3, <1>4, <1>5, <1>6, <1>7, <1>8, <1>9, <1>10, Zenon
        DEF Next, LoopStep, Serves, ObserverNext, StopNext

(* Only one loop is busy.                                                  *)
LEMMA OneBusy ==
  ASSUME LifeInv, NEW g \in LiveProc, NEW h \in Gens, Busy(h)
  PROVE  h = g
<1>1. h \in LiveProc
  BY Zenon DEF Busy, BusyPc, LiveProc
<1> QED BY Zenon, <1>1 DEF LifeInv

(* Where a request is in its life.  An envelope that is queued or being    *)
(* served was submitted, is in one place only, has not been applied before *)
(* the loop saves its row, and is not answered before the loop does it:    *)
(* its future is pending, or was given up without a result.  A row that    *)
(* was just saved is the last one applied.                                 *)
Open == {"pending"} \cup Unknown

Queued ==
  /\ Injective(queue)
  /\ \A r \in Range(queue) : reply[r].code \in Open /\ r \notin Range(applied)

Served ==
  \A g \in Gens :
    /\ Busy(g) => env[g] \notin Range(queue)
    /\ procPc[g] \in {"dispatch", "save"} => env[g] \notin Range(applied)
    /\ procPc[g] \in {"dispatch", "save", "saved"} => reply[env[g]].code \in Open
    /\ procPc[g] = "saved" \/ (procPc[g] = "publish" /\ Writes(env[g])) =>
         applied # << >> /\ Final(applied) = env[g]

Sent ==
  /\ \A r \in Requests : mutation[r] = None <=> reply[r].code = "unsent"
  /\ \A r \in Range(applied) : mutation[r] # None

RequestInv == Sent /\ Queued /\ Served /\ ReplyMatchesEffect

(* It holds initially.                                                     *)
LEMMA RequestInit == Init => RequestInv
<1> SUFFICES ASSUME Init PROVE RequestInv
  BY Zenon
<1>1. Sent /\ Queued /\ Served
  BY RangeEmpty DEF Init, Sent, Queued, Served, Injective, Busy, BusyPc
<1>2. ReplyMatchesEffect
  BY RangeEmpty DEF Init, ReplyMatchesEffect, Rejection
<1> QED BY Zenon, <1>1, <1>2 DEF RequestInv

(* Dropping keeps it.                                                      *)
LEMMA DropsKeepRequests ==
  ASSUME TypeInv, RequestInv, Drops
  PROVE  RequestInv'
<1>a. CallOK /\ ProcOK /\ EnvOK
  BY Zenon DEF TypeInv, TypeOK
<1>b. Sent /\ Queued /\ Served /\ ReplyMatchesEffect
  BY Zenon DEF RequestInv
<1>1. \A r \in Requests : /\ reply[r].code \in Open => reply'[r].code \in Open
                          /\ reply[r].code = "unsent" <=> reply'[r].code = "unsent"
                          /\ reply'[r].code = "ok" => reply[r].code = "ok"
                          /\ reply'[r].code \in Rejection => reply[r].code \in Rejection
  BY Zenon DEF Drops, Open, Unknown, Rejection
<1>2. Range(queue') \subseteq Range(queue) /\ Range(queue) \subseteq Requests /\ Injective(queue')
  BY <1>a, <1>b, RangeEmpty DEF Drops, Queued, Injective, CallOK, Range
<1>3. mutation' = mutation /\ applied' = applied /\ Range(applied') = Range(applied)
  BY Zenon DEF Drops
<1>4. Sent'
  BY Zenon, <1>b, <1>1, <1>3 DEF Sent
<1>5. Queued'
  BY Zenon, <1>b, <1>1, <1>2, <1>3 DEF Queued
<1>6. ASSUME NEW g \in Gens, Busy(g)'
      PROVE  /\ procPc'[g] = procPc[g] /\ env'[g] = env[g] /\ env[g] \in Requests
             /\ Writes(env[g])' <=> Writes(env[g])
  BY <1>6, <1>3, <1>a DEF Drops, Busy, EnvOK, ProcOK, Writes
<1>7. Served'
  BY <1>b, <1>1, <1>2, <1>3, <1>6 DEF Served, Busy, BusyPc
<1>8. ReplyMatchesEffect'
  BY Zenon, <1>b, <1>1, <1>3 DEF ReplyMatchesEffect, Writes
<1> QED BY Zenon, <1>4, <1>5, <1>7, <1>8 DEF RequestInv


(* submit() keeps it: the request is new.                                  *)
LEMMA SubmitKeepsRequests ==
  ASSUME TypeInv, RequestInv, NEW r \in Requests, NEW m \in Mutations, Submit(r, m)
  PROVE  RequestInv'
<1>a. CallOK /\ ProcOK /\ EnvOK /\ applied \in Seq(Requests)
  BY Zenon DEF TypeInv, TypeOK
<1>b. Sent /\ Queued /\ Served /\ ReplyMatchesEffect
  BY Zenon DEF RequestInv
<1>1. mutation[r] = None /\ r \notin Range(applied) /\ r \notin Range(queue)
  BY Zenon, <1>b DEF Submit, Sent, Queued, Open, Unknown
<1>2. /\ mutation' = [mutation EXCEPT ![r] = m] /\ m # None
      /\ reply'[r].code \in {"pending", "not_running", "queue_full"}
      /\ \A q \in Requests : q # r => reply'[q] = reply[q] /\ mutation'[q] = mutation[q]
      /\ UNCHANGED <<applied, procPc, env>>
  BY Zenon, <1>a, MutationsAssumption DEF Submit, CallOK, Reply, procVars
<1>3. queue' = queue \/ (queue' = Append(queue, r) /\ reply'[r].code = "pending")
  <2> DEFINE code == IF ~running THEN "not_running"
                     ELSE IF Full(queue, MaxQueue) THEN "queue_full" ELSE "pending"
  <2>1. /\ reply' = [reply EXCEPT ![r].code = code]
        /\ queue' = IF code = "pending" THEN Append(queue, r) ELSE queue
    BY Zenon DEF Submit
  <2> HIDE DEF code
  <2>2. reply'[r].code = code
    BY Zenon, <1>a, <2>1 DEF CallOK, Reply
  <2>3. CASE code = "pending"
    BY Zenon, <2>1, <2>2, <2>3
  <2>4. CASE code # "pending"
    BY Zenon, <2>1, <2>4
  <2> QED BY Zenon, <2>3, <2>4
<1>4. /\ Injective(queue') /\ Range(queue') \subseteq Range(queue) \cup {r}
      /\ r \in Range(queue') => reply'[r].code = "pending"
  <2>1. Injective(queue) /\ queue \in Seq(Requests)
    BY Zenon, <1>a, <1>b DEF Queued, CallOK
  <2>2. CASE queue' = queue
    BY Zenon, <2>1, <2>2, <1>1
  <2>3. CASE queue' = Append(queue, r) /\ reply'[r].code = "pending"
    BY <2>1, <2>3, <1>1, InjectiveAppend, RangeAppend
  <2> QED BY Zenon, <1>3, <2>2, <2>3
<1>5. Range(queue) \subseteq Requests /\ Range(applied) \subseteq Requests
  BY <1>a DEF CallOK, Range
<1>6. Sent'
  BY <1>a, <1>b, <1>2, <1>5 DEF Sent, CallOK
<1>7. Queued'
  BY Zenon, <1>b, <1>1, <1>2, <1>4, <1>5 DEF Queued, Open
<1>8. \A g \in Gens : Busy(g) => env[g] \in Requests /\ env[g] # r
  BY Zenon, <1>a, <1>1 DEF EnvOK, ProcOK, Busy
<1>9. Served'
  BY <1>b, <1>2, <1>4, <1>8 DEF Served, Busy, BusyPc, Writes
<1>10. ReplyMatchesEffect'
  BY <1>b, <1>1, <1>2 DEF ReplyMatchesEffect, Writes, Rejection
<1> QED BY Zenon, <1>6, <1>7, <1>9, <1>10 DEF RequestInv

(* The loop that serves an envelope is the only one that is busy.          *)
LEMMA Alone ==
  ASSUME TypeInv, LifeInv, NEW g \in Gens, Serves(g)
  PROVE  /\ \A h \in Gens : h # g => ~Busy(h) /\ procPc'[h] = procPc[h]
         /\ mutation' = mutation
         /\ \A h \in Gens : h # g => env'[h] = env[h] /\ plan'[h] = plan[h]
<1>1. ProcOK
  BY Zenon DEF TypeInv, TypeOK
<1>2. g \in LiveProc
  BY Zenon DEF Serves, LoopTake, LoopReject, LoopNoop, LoopPlan, StoreCommit, LoopComplete, Resumes, LiveProc
<1>3. /\ \A h \in Gens : h # g => procPc'[h] = procPc[h] /\ env'[h] = env[h] /\ plan'[h] = plan[h]
      /\ mutation' = mutation
  BY Zenon, <1>1 DEF Serves, LoopTake, LoopReject, LoopNoop, LoopPlan, StoreCommit, LoopComplete, NextEnvelope,
     ProcOK, callVars
<1> QED BY Zenon, <1>2, <1>3, OneBusy

(* Serving an envelope keeps it: taking it from the queue ...              *)
LEMMA TakeKeepsRequests ==
  ASSUME TypeInv, LifeInv, RequestInv, NEW g \in Gens, LoopTake(g)
  PROVE  RequestInv'
<1>a. CallOK /\ ProcOK /\ EnvOK
  BY Zenon DEF TypeInv, TypeOK
<1>b. Sent /\ Queued /\ Served /\ ReplyMatchesEffect
  BY Zenon DEF RequestInv
<1>1. /\ Injective(queue') /\ Range(queue') \subseteq Range(queue)
      /\ env'[g] \in Range(queue) /\ env'[g] \notin Range(queue')
  BY <1>a, <1>b, InjectiveTail, RangeTail DEF LoopTake, CallOK, ProcOK, Queued
<1>2. UNCHANGED <<mutation, reply, applied>> /\ procPc'[g] = "dispatch"
  BY Zenon, <1>a DEF LoopTake, ProcOK
<1>3. \A h \in Gens : h # g => ~Busy(h)'
  BY Zenon, <1>a, Alone DEF Serves, Busy
<1>4. Served'
  BY Zenon, <1>b, <1>1, <1>2, <1>3 DEF Served, Queued, Busy, BusyPc
<1>5. Sent' /\ Queued'
  BY Zenon, <1>b, <1>1, <1>2 DEF Sent, Queued
<1>6. ReplyMatchesEffect'
  BY Zenon, <1>b, <1>2 DEF ReplyMatchesEffect, Writes
<1> QED BY Zenon, <1>4, <1>5, <1>6 DEF RequestInv

(* ... answering it with a code c that fits what was applied ...           *)
LEMMA AnswerKeepsRequests ==
  ASSUME TypeInv, LifeInv, RequestInv, NEW g \in Gens, Serves(g),
         procPc[g] \in BusyPc, NEW c \in ReplyCode \ {"unsent"}, NEW v \in Nat, Answer(env[g], c, v),
         UNCHANGED <<queue, applied>>,
         procPc'[g] = "poll" \/ (procPc'[g] = "publish" /\ env'[g] = env[g]),
         c = "ok" /\ Writes(env[g]) => env[g] \in Range(applied),
         c \in Rejection => env[g] \notin Range(applied),
         procPc'[g] = "publish" /\ Writes(env[g]) => procPc[g] = "saved"
  PROVE  RequestInv'
<1>a. CallOK /\ ProcOK /\ EnvOK
  BY Zenon DEF TypeInv, TypeOK
<1>b. Sent /\ Queued /\ Served /\ ReplyMatchesEffect
  BY Zenon DEF RequestInv
<1>1. env[g] \in Requests /\ Busy(g) /\ mutation' = mutation /\ env[g] \notin Range(queue)
  BY Zenon, <1>a, <1>b, BusyType, Alone DEF Busy, Served
<1>2. /\ \A q \in Requests : q # env[g] => reply'[q] = reply[q]
      /\ reply'[env[g]] = reply[env[g]] \/ (reply[env[g]].code = "pending" /\ reply'[env[g]].code = c)
  BY <1>a, <1>1, AnswerOnce, Zenon
<1>3. \A h \in Gens : h # g => ~Busy(h)'
  BY Zenon, <1>a, Alone DEF Busy
<1>4. Range(queue) \subseteq Requests
  BY <1>a DEF CallOK, Range
<1>5. Sent'
  BY Zenon, <1>b, <1>1, <1>2 DEF Sent
<1>6. Queued'
  BY Zenon, <1>b, <1>1, <1>2, <1>4 DEF Queued
<1>7. Served'
  BY Zenon, <1>b, <1>1, <1>3 DEF Served, Busy, BusyPc, Writes
<1>8. ReplyMatchesEffect'
  BY Zenon, <1>b, <1>1, <1>2 DEF ReplyMatchesEffect, Writes
<1> QED BY Zenon, <1>5, <1>6, <1>7, <1>8 DEF RequestInv


(* ... refusing it, finding nothing to write, or completing its write ...  *)
LEMMA AnswersKeepRequests ==
  ASSUME TypeInv, LifeInv, RequestInv, NEW g \in Gens, LoopReject(g) \/ LoopNoop(g) \/ LoopComplete(g)
  PROVE  RequestInv'
<1>a. StoreOK /\ CallOK /\ ProcOK /\ EnvOK /\ applied \in Seq(Requests)
  BY Zenon DEF TypeInv, TypeOK
<1>b. Served
  BY Zenon DEF RequestInv
<1>c. procPc[g] \in BusyPc /\ Serves(g)
  BY Zenon DEF LoopReject, LoopNoop, LoopComplete, Resumes, BusyPc, Serves
<1>1. env[g] \in Requests /\ mutation[env[g]] \in Mutations /\ TaskOf(env[g], mutation[env[g]]) \in TaskIds
  BY Zenon, <1>a, <1>c, BusyType
<1> DEFINE m == mutation[env[g]]
<1>2. CASE LoopReject(g)
  <2>1. PICK c \in {"not_found", "version_conflict", "validation"} : Answer(env[g], c, 0)
    BY Zenon, <1>2 DEF LoopReject
  <2>2. c \in ReplyCode \ {"unsent"} /\ c # "ok" /\ env[g] \notin Range(applied) /\ 0 \in Nat
    BY Zenon, <1>2, <1>b DEF LoopReject, Resumes, ReplyCode, Served
  <2>3. UNCHANGED <<queue, applied>> /\ procPc'[g] = "poll"
    BY Zenon, <1>2, <1>a DEF LoopReject, NextEnvelope, ProcOK
  <2> QED BY Zenon, <1>c, <2>1, <2>2, <2>3, AnswerKeepsRequests
<1>3. CASE LoopNoop(g)
  <2>1. dispatch(m, rows, versions).code = "noop"
    BY Zenon, <1>3 DEF LoopNoop
  <2>2. m.type = "update" /\ m.updates = NoUpdates /\ m.task \in TaskIds
    <3>1. m.type \in MutationType /\ (m.type # "create" => m.task \in TaskIds)
      BY Zenon, <1>1, MutationsAssumption DEF Mutation
    <3>v. \A task : Validated(task).code # "noop"
      BY Zenon DEF Validated, Write, Fail
    <3>2. \A task, target, u : with_transition(task, target, u).code # "noop"
      BY Zenon, <3>v DEF with_transition, Fail
    <3>3. CASE m.type = "create"
      BY Zenon, <2>1, <3>3, <3>v DEF dispatch, apply_create
    <3>4. CASE m.type = "update"
      BY Zenon, <2>1, <3>4, <3>1, <3>v DEF dispatch, apply_update, Fail
    <3>5. CASE m.type = "transition"
      BY <2>1, <3>5, <3>2 DEF dispatch, apply_transition, Fail
    <3>6. CASE m.type \in {"delete", "cancel"}
      BY Zenon, <2>1, <3>6, <3>2 DEF dispatch, apply_delete, apply_cancel, Fail, Write
    <3> QED BY Zenon, <3>1, <3>3, <3>4, <3>5, <3>6 DEF MutationType
  <2>3. versions'[m.task] \in Nat /\ Answer(env[g], "ok", versions'[m.task])
    <3>1. Answer(env[g], "ok", versions'[m.task]) /\ versions' = VersionsChecked(m, rows, versions)
      BY <1>3, Zenon DEF LoopNoop
    <3>2. VersionsChecked(m, rows, versions) \in [TaskIds -> Nat]
      BY Zenon, <1>1, <1>a, VersionsType DEF StoreOK
    <3> QED BY Zenon, <2>2, <3>1, <3>2
  <2>4. ~Writes(env[g]) /\ "ok" \in ReplyCode \ {"unsent"} /\ "ok" \notin Rejection
    BY Zenon, <2>2 DEF Writes, ReplyCode, Rejection
  <2>5. UNCHANGED <<queue, applied, env>> /\ procPc'[g] = "publish"
    BY Zenon, <1>3, <1>a DEF LoopNoop, ProcOK
  <2> QED BY Zenon, <1>c, <2>3, <2>4, <2>5, AnswerKeepsRequests
<1>4. CASE LoopComplete(g)
  <2> DEFINE t == TaskOf(env[g], mutation[env[g]])
  <2>1. versions'[t] \in Nat /\ Answer(env[g], "ok", versions'[t])
    <3>1. Answer(env[g], "ok", versions'[t]) /\ versions' = VersionsWritten(m, t, versions)
      BY <1>4, Zenon DEF LoopComplete
    <3>2. VersionsWritten(m, t, versions)[t] \in Nat
      BY Zenon, <1>1, <1>a, VersionsType DEF StoreOK
    <3> QED BY Zenon, <3>1, <3>2
  <2>2. procPc[g] = "saved" /\ env[g] \in Range(applied)
    BY Zenon, <1>4, <1>a, <1>b, FinalInRange DEF LoopComplete, Resumes, Served
  <2>3. "ok" \in ReplyCode \ {"unsent"} /\ "ok" \notin Rejection
    BY Zenon DEF ReplyCode, Rejection
  <2>4. UNCHANGED <<queue, applied, env>> /\ procPc'[g] = "publish"
    BY Zenon, <1>4, <1>a DEF LoopComplete, ProcOK
  <2> HIDE DEF t
  <2> QED BY Zenon, <1>c, <2>1, <2>2, <2>3, <2>4, AnswerKeepsRequests
<1> QED BY Zenon, <1>2, <1>3, <1>4

(* ... planning the write ...                                              *)
LEMMA PlanKeepsRequests ==
  ASSUME TypeInv, LifeInv, RequestInv, NEW g \in Gens, LoopPlan(g)
  PROVE  RequestInv'
<1>a. ProcOK
  BY Zenon DEF TypeInv, TypeOK
<1>b. Sent /\ Queued /\ Served /\ ReplyMatchesEffect
  BY Zenon DEF RequestInv
<1>1. UNCHANGED <<queue, mutation, reply, applied, env>> /\ procPc'[g] = "save" /\ procPc[g] = "dispatch"
  BY Zenon, <1>a DEF LoopPlan, Resumes, ProcOK, callVars
<1>2. \A h \in Gens : h # g => ~Busy(h)'
  BY Zenon, <1>a, Alone DEF Serves, Busy
<1>3. Served'
  BY Zenon, <1>b, <1>1, <1>2 DEF Served, Busy, BusyPc
<1>4. Sent' /\ Queued' /\ ReplyMatchesEffect'
  BY Zenon, <1>b, <1>1 DEF Sent, Queued, ReplyMatchesEffect, Writes
<1> QED BY Zenon, <1>3, <1>4 DEF RequestInv

(* ... and the write itself.                                               *)
LEMMA CommitKeepsRequests ==
  ASSUME TypeInv, LifeInv, RequestInv, NEW g \in Gens, StoreCommit(g)
  PROVE  RequestInv'
<1>a. CallOK /\ ProcOK /\ EnvOK /\ applied \in Seq(Requests)
  BY Zenon DEF TypeInv, TypeOK
<1>b. Sent /\ Queued /\ Served /\ ReplyMatchesEffect
  BY Zenon DEF RequestInv
<1>1. /\ UNCHANGED <<queue, mutation, reply, env>> /\ applied' = Append(applied, env[g])
      /\ procPc'[g] = "saved" /\ procPc[g] = "save"
  BY Zenon, <1>a DEF StoreCommit, ProcOK, callVars
<1>2. \A h \in Gens : h # g => ~Busy(h)'
  BY Zenon, <1>a, Alone DEF Serves, Busy
<1>3. env[g] \in Requests /\ mutation[env[g]] # None
  BY Zenon, <1>a, <1>1 DEF EnvOK, ProcOK, BusyPc
<1>4. env[g] \notin Range(queue) /\ env[g] \notin Range(applied) /\ reply[env[g]].code \in Open
  BY Zenon, <1>b, <1>1 DEF Served, Busy, BusyPc
<1>5. /\ Range(applied') = Range(applied) \cup {env[g]}
      /\ applied' # << >> /\ Final(applied') = env[g]
  BY <1>a, <1>1, <1>3, RangeAppend, FinalAppend
<1>6. Injective(applied')
  BY <1>a, <1>b, <1>1, <1>3, <1>4, InjectiveAppend DEF ReplyMatchesEffect, Injective
<1>7. Served'
  BY Zenon, <1>1, <1>2, <1>4, <1>5 DEF Served, Busy, BusyPc
<1>8. Sent' /\ Queued'
  BY Zenon, <1>b, <1>1, <1>3, <1>4, <1>5 DEF Sent, Queued
<1>9. ReplyMatchesEffect'
  BY Zenon, <1>b, <1>1, <1>4, <1>5, <1>6 DEF ReplyMatchesEffect, Injective, Writes, Open, Unknown, Rejection
<1> QED BY Zenon, <1>7, <1>8, <1>9 DEF RequestInv

(* One step of the engine keeps it.                                        *)
LEMMA RequestStep ==
  ASSUME TypeInv, LifeInv, RequestInv, [Next]_vars
  PROVE  RequestInv'
  BY StepKinds, DropsKeepRequests, SubmitKeepsRequests, TakeKeepsRequests, AnswersKeepRequests,
     PlanKeepsRequests, CommitKeepsRequests, Zenon DEF Serves

(* The answers of the engine tell the truth, whatever is submitted and     *)
(* whichever faults happen: applied at most once, applied when answered    *)
(* with success, not applied when refused.                                 *)
THEOREM AnswersTellTheTruth == Spec => []ReplyMatchesEffect
<1>1. Init => LifeInv
  BY Zenon DEF Init, LifeInv, LiveProc
<1>2. Init => RequestInv
  BY Zenon, RequestInit
<1>3. TypeInv /\ LifeInv /\ RequestInv /\ [Next]_vars => RequestInv'
  BY Zenon, RequestStep
<1>4. RequestInv => ReplyMatchesEffect
  BY Zenon DEF RequestInv
<1> QED BY <1>1, <1>2, <1>3, <1>4, InitTypeInv, TypeStep, LifeStep, PTL DEF Spec
==============================================================================
