-------------------------- MODULE TaskEngineProofs ---------------------------
(***************************************************************************)
(* Type correctness and the single writer, for every set of requests,      *)
(* mutations and faults, every queue bound and every number of restarts.   *)
(***************************************************************************)
EXTENDS TaskEngine, TLAPS

----------------------------------------------------------------------------
(* Merging the fields of a mutation into a task gives a task again         *)
(* (model_dump, update, model_validate).                                   *)
LEMMA MergeType ==
  ASSUME NEW task \in Task, NEW u \in Updates
  PROVE  Merge(task, u) \in Task
  BY Zenon DEF Merge, Task, Updates

(* What dispatch() decides is a well-formed decision; a row that it wants  *)
(* written is a task with a consistent assignee, or None for a deletion.   *)
LEMMA DispatchType ==
  ASSUME NEW m \in Mutations, NEW R \in [TaskIds -> Task \cup {None}], NEW V \in [TaskIds -> Nat]
  PROVE  LET d == dispatch(m, R, V)
         IN /\ d.code \in {"write", "noop", "not_found", "version_conflict", "validation"}
            /\ d.row \in Task \cup {None}
            /\ d.code = "write" /\ d.row # None => ConsistentAssignment(d.row)
<1> USE MutationsAssumption
<1>m. /\ m \in Mutation
      /\ m.type \in MutationType /\ m.updates \in Updates
      /\ m.type = "create" => m.updates.payload \in Payloads
      /\ m.type # "create" => m.task \in TaskIds
      /\ m.type = "transition" => m.target \in TaskStatus
  BY Zenon DEF Mutation, MutationType, Updates
<1>v. \A task \in Task : LET d == Validated(task)
                         IN /\ d.code \in {"write", "validation"}
                            /\ d.row \in Task \cup {None}
                            /\ d.code = "write" => ConsistentAssignment(d.row)
  BY Zenon DEF Validated, Write, Fail
<1>t. ASSUME NEW task \in Task, NEW target \in TaskStatus, NEW u \in Updates
      PROVE  LET d == with_transition(task, target, u)
             IN /\ d.code \in {"write", "validation"}
                /\ d.row \in Task \cup {None}
                /\ d.code = "write" => ConsistentAssignment(d.row)
  <2>1. [Merge(task, u) EXCEPT !.status = target] \in Task
    BY Zenon, <1>t, MergeType DEF Task
  <2> QED BY Zenon, <2>1, <1>v DEF with_transition, Fail
<1>n. NoUpdates \in Updates
  BY Zenon DEF NoUpdates, Updates
<1>1. CASE m.type = "create"
  <2>1. [status |-> "CREATED", assigned_to |-> None, payload |-> m.updates.payload] \in Task
    BY Zenon, <1>1, <1>m DEF Task, TaskStatus
  <2>2. dispatch(m, R, V) = apply_create(m)
    BY Zenon, <1>1 DEF dispatch
  <2> QED BY Zenon, <2>1, <2>2, <1>m, <1>v, MergeType DEF apply_create
<1>2. CASE m.type = "update"
  <2>1. dispatch(m, R, V) = apply_update(m, R, V)
    BY Zenon, <1>2 DEF dispatch
  <2>2. R[m.task] # None => Merge(R[m.task], m.updates) \in Task /\ R[m.task] \in Task
    BY Zenon, <1>2, <1>m, MergeType
  <2> QED BY <2>1, <2>2, <1>m, <1>v DEF apply_update, Fail
<1>3. CASE m.type = "transition"
  <2>1. dispatch(m, R, V) = apply_transition(m, R, V)
    BY Zenon, <1>3 DEF dispatch
  <2>2. R[m.task] # None => R[m.task] \in Task
    BY Zenon, <1>3, <1>m
  <2> QED BY <2>1, <2>2, <1>3, <1>m, <1>t DEF apply_transition, Fail
<1>4. CASE m.type = "delete"
  <2>1. dispatch(m, R, V) = apply_delete(m, R)
    BY Zenon, <1>4 DEF dispatch
  <2> QED BY <2>1 DEF apply_delete, Fail, Write
<1>5. CASE m.type = "cancel"
  <2>1. dispatch(m, R, V) = apply_cancel(m, R)
    BY Zenon, <1>5 DEF dispatch
  <2>2. R[m.task] # None => R[m.task] \in Task
    BY Zenon, <1>5, <1>m
  <2>3. "CANCELLED" \in TaskStatus
    BY Zenon DEF TaskStatus
  <2> QED BY <2>1, <2>2, <2>3, <1>n, <1>t DEF apply_cancel, Fail
<1> QED BY Zenon, <1>1, <1>2, <1>3, <1>4, <1>5, <1>m DEF MutationType

(* The version counters stay counters through check, bump, create, delete. *)
LEMMA VersionsType ==
  ASSUME NEW m \in Mutations, NEW t \in TaskIds,
         NEW R \in [TaskIds -> Task \cup {None}], NEW V \in [TaskIds -> Nat]
  PROVE  /\ VersionsChecked(m, R, V) \in [TaskIds -> Nat]
         /\ VersionsWritten(m, t, V) \in [TaskIds -> Nat]
         /\ VersionsWritten(m, t, V)[t] \in Nat
<1>1. m.type # "create" => m.task \in TaskIds
  BY Zenon, MutationsAssumption DEF Mutation
<1>2. VersionsChecked(m, R, V) \in [TaskIds -> Nat]
  BY Zenon, <1>1 DEF VersionsChecked, VersionSeed, Seeded
<1>3. /\ VersionBump(V, t) \in [TaskIds -> Nat]
      /\ VersionBump(V, t)[t] \in Nat
  BY DEF VersionBump, Seeded
<1>4. /\ VersionsWritten(m, t, V) \in [TaskIds -> Nat]
      /\ VersionsWritten(m, t, V)[t] \in Nat
  BY Zenon, <1>3 DEF VersionsWritten
<1> QED BY Zenon, <1>2, <1>4

(* Sequences: what Append and Tail do to the elements.                     *)
LEMMA RangeAppend ==
  ASSUME NEW S, NEW s \in Seq(S), NEW e \in S
  PROVE  Append(s, e) \in Seq(S) /\ Range(Append(s, e)) = Range(s) \cup {e}
<1>1. Append(s, e) \in Seq(S) /\ Len(Append(s, e)) = Len(s) + 1
  OBVIOUS
<1>2. \A i \in 1..Len(s) : Append(s, e)[i] = s[i]
  OBVIOUS
<1>3. Append(s, e)[Len(s) + 1] = e
  OBVIOUS
<1>4. Range(Append(s, e)) \subseteq Range(s) \cup {e}
  BY <1>1, <1>2, <1>3 DEF Range
<1>5. Range(s) \cup {e} \subseteq Range(Append(s, e))
  BY <1>1, <1>2, <1>3 DEF Range
<1> QED BY Zenon, <1>1, <1>4, <1>5

(* ... Tail takes the head away                                             *)
LEMMA RangeTail ==
  ASSUME NEW S, NEW s \in Seq(S), s # << >>
  PROVE  /\ Tail(s) \in Seq(S) /\ Head(s) \in S
         /\ Range(s) = Range(Tail(s)) \cup {Head(s)}
<1>1. Tail(s) \in Seq(S) /\ Head(s) \in S /\ Len(Tail(s)) = Len(s) - 1 /\ Len(s) > 0 /\ Head(s) = s[1]
  OBVIOUS
<1>2. \A i \in 1..Len(s) - 1 : Tail(s)[i] = s[i + 1]
  OBVIOUS
<1>3. Range(Tail(s)) \cup {Head(s)} \subseteq Range(s)
  BY <1>1, <1>2 DEF Range
<1>4. ASSUME NEW i \in 1..Len(s) PROVE s[i] \in Range(Tail(s)) \cup {Head(s)}
  <2>1. CASE i = 1
    BY Zenon, <2>1, <1>1
  <2>2. CASE i # 1
    <3>1. i - 1 \in 1..Len(s) - 1 /\ Tail(s)[i - 1] = s[i]
      BY <2>2, <1>2
    <3>2. i - 1 \in DOMAIN Tail(s)
      BY <3>1, <1>1
    <3> QED BY <3>1, <3>2, Zenon DEF Range
  <2> QED BY Zenon, <2>1, <2>2
<1>5. Range(s) \subseteq Range(Tail(s)) \cup {Head(s)}
  <2>1. DOMAIN s = 1..Len(s)
    OBVIOUS
  <2> QED BY Zenon, <1>4, <2>1 DEF Range
<1> QED BY Zenon, <1>1, <1>3, <1>5

(* ... and the empty sequence has none.                                    *)
LEMMA RangeEmpty == Range(<< >>) = {}
  BY DEF Range

----------------------------------------------------------------------------
(* What the proofs use of the assumptions on the constants.                *)
LEMMA Constants ==
  /\ MaxStarts \in Nat /\ MaxStarts > 0
  /\ Sentinel \notin Requests /\ None \notin Requests
  /\ None \notin Mutations
  BY EngineAssumption, MutationsAssumption

(* Beside its type: a loop that works on an envelope works on one that was *)
(* submitted, so that mutation[env[g]] is a mutation; a loop beyond        *)
(* `starts' was never created; and a CancelledError is only under way to a *)
(* loop that is alive.                                                     *)
BusyPc == {"dispatch", "save", "saved", "publish"}

QueueOK == \A r \in Range(queue) : mutation[r] # None

EnvOK ==
  /\ \A g \in Gens : procPc[g] \in BusyPc => env[g] # None /\ mutation[env[g]] # None
  /\ \A g \in Gens : procPc[g] \notin BusyPc => env[g] = None

LoopsOK ==
  /\ \A g \in Gens : g > starts => procPc[g] = "none"
  /\ \A g \in Gens : Proc(g) \in cancelling => g \in LiveProc

HandleOK ==
  /\ stopPc # "idle" => ~running
  /\ running \/ stopPc \in {"drainProcessing", "reapProcessing"} => processingTask \in Gens

TypeInv == TypeOK /\ QueueOK /\ EnvOK /\ LoopsOK /\ HandleOK

(* Types and envelopes hold initially.                                     *)
LEMMA InitTypeInv == Init => TypeInv
<1> SUFFICES ASSUME Init PROVE TypeInv
  BY Zenon
<1>1. StoreOK
  BY Zenon, EngineAssumption DEF Init, StoreOK
<1>2. LifeOK
  <2>1. 0 \in 0..MaxStarts /\ 0 \in 0..0
    BY Constants
  <2> QED BY <2>1, Zenon DEF Init, LifeOK
<1>3. CallOK
  <2>1. [code |-> "unsent", version |-> 0] \in Reply
    BY Zenon DEF Reply, ReplyCode
  <2> QED BY <2>1 DEF Init, CallOK
<1>4. ProcOK
  BY Zenon DEF Init, ProcOK
<1>5. ObsOK
  BY DEF Init, ObsOK
<1>6. StopOK
  BY Zenon DEF Init, StopOK
<1>7. cancelling \subseteq ({"processing", "observer"} \X Gens) /\ applied \in Seq(Requests)
  BY DEF Init
<1>8. QueueOK
  BY DEF Init, QueueOK, Range
<1>9. EnvOK /\ LoopsOK /\ HandleOK
  BY Zenon DEF Init, EnvOK, LoopsOK, HandleOK, BusyPc, LiveProc
<1> QED BY Zenon, <1>1, <1>2, <1>3, <1>4, <1>5, <1>6, <1>7, <1>8, <1>9 DEF TypeInv, TypeOK

(* A component whose variables a step leaves alone keeps its type.         *)
LEMMA Untouched ==
  /\ StoreOK /\ UNCHANGED storeVars => StoreOK'
  /\ LifeOK /\ UNCHANGED lifeVars => LifeOK'
  /\ CallOK /\ UNCHANGED callVars => CallOK'
  /\ ProcOK /\ UNCHANGED procVars => ProcOK'
  /\ ObsOK /\ UNCHANGED obsVars => ObsOK'
  /\ StopOK /\ UNCHANGED stopVars => StopOK'
  /\ QueueOK /\ UNCHANGED callVars => QueueOK'
  /\ QueueOK /\ UNCHANGED <<queue, mutation>> => QueueOK'
  /\ EnvOK /\ UNCHANGED <<mutation, procVars>> => EnvOK'
  /\ EnvOK /\ UNCHANGED <<callVars, procVars>> => EnvOK'
  /\ LoopsOK /\ UNCHANGED <<lifeVars, procVars, cancelling>> => LoopsOK'
  /\ LoopsOK /\ UNCHANGED <<starts, procVars, cancelling>> => LoopsOK'
  /\ HandleOK /\ UNCHANGED <<lifeVars, stopVars>> => HandleOK'
  /\ HandleOK /\ UNCHANGED <<lifeVars, stopPc>> => HandleOK'
<1>1. StoreOK /\ UNCHANGED storeVars => StoreOK'
  BY Zenon DEF StoreOK, storeVars
<1>2. LifeOK /\ UNCHANGED lifeVars => LifeOK'
  BY Zenon DEF LifeOK, lifeVars
<1>3. CallOK /\ UNCHANGED callVars => CallOK'
  BY Zenon DEF CallOK, callVars
<1>4. ProcOK /\ UNCHANGED procVars => ProcOK'
  BY Zenon DEF ProcOK, procVars
<1>5. ObsOK /\ UNCHANGED obsVars => ObsOK'
  BY Zenon DEF ObsOK, obsVars
<1>6. StopOK /\ UNCHANGED stopVars => StopOK'
  BY Zenon DEF StopOK, stopVars
<1>7. QueueOK /\ UNCHANGED <<queue, mutation>> => QueueOK'
  BY Zenon DEF QueueOK, Range
<1>8. QueueOK /\ UNCHANGED callVars => QueueOK'
  BY Zenon, <1>7 DEF callVars
<1>9. EnvOK /\ UNCHANGED <<mutation, procVars>> => EnvOK'
  BY Zenon DEF EnvOK, procVars
<1>10. EnvOK /\ UNCHANGED <<callVars, procVars>> => EnvOK'
  BY Zenon, <1>9 DEF callVars
<1>11. LoopsOK /\ UNCHANGED <<starts, procVars, cancelling>> => LoopsOK'
  BY Zenon DEF LoopsOK, LiveProc, procVars
<1>12. LoopsOK /\ UNCHANGED <<lifeVars, procVars, cancelling>> => LoopsOK'
  BY Zenon, <1>11 DEF lifeVars
<1>13. HandleOK /\ UNCHANGED <<lifeVars, stopPc>> => HandleOK'
  BY DEF HandleOK, lifeVars
<1>14. HandleOK /\ UNCHANGED <<lifeVars, stopVars>> => HandleOK'
  BY Zenon, <1>13 DEF stopVars
<1> QED BY <1>1, <1>2, <1>3, <1>4, <1>5, <1>6, <1>7, <1>8, <1>9, <1>10, <1>11, <1>12, <1>13, <1>14

(* The three ways futures are resolved keep the type of the replies.       *)
LEMMA AnswerType ==
  ASSUME CallOK, NEW r \in Requests, NEW code \in ReplyCode, NEW v \in Nat, Answer(r, code, v)
  PROVE  reply' \in [Requests -> Reply]
  BY Zenon DEF Answer, CallOK, Reply

(* ... a reply that changes its code only                                  *)
LEMMA RecodeType ==
  ASSUME CallOK, NEW r \in Requests, NEW c \in ReplyCode, reply' = [reply EXCEPT ![r].code = c]
  PROVE  reply' \in [Requests -> Reply]
<1>1. reply[r] \in [code : ReplyCode, version : Nat]
  BY Zenon DEF CallOK, Reply
<1>2. [reply[r] EXCEPT !.code = c] \in Reply
  BY Zenon, <1>1 DEF Reply
<1>3. reply' = [reply EXCEPT ![r] = [reply[r] EXCEPT !.code = c]]
  BY Zenon DEF CallOK
<1> QED BY Zenon, <1>2, <1>3 DEF CallOK

(* ... and _fail_remaining_futures                                         *)
LEMMA FailType ==
  ASSUME CallOK, NEW s \in Requests \cup {None}, FailRemainingFutures(s), mutation' = mutation
  PROVE  CallOK' /\ QueueOK'
<1>1. [code |-> "shutdown", version |-> 0] \in Reply
  BY Zenon DEF Reply, ReplyCode
<1>2. reply' \in [Requests -> Reply]
  BY Zenon, <1>1 DEF FailRemainingFutures, AbortFutures, CallOK
<1>3. CallOK'
  BY <1>2 DEF FailRemainingFutures, AbortFutures, CallOK
<1>4. QueueOK'
  BY Zenon, RangeEmpty DEF FailRemainingFutures, AbortFutures, QueueOK
<1> QED BY Zenon, <1>3, <1>4

(* What the processing loop works on has the type dispatch() expects.      *)
LEMMA BusyType ==
  ASSUME ProcOK, CallOK, EnvOK, NEW g \in Gens, procPc[g] \in BusyPc
  PROVE  /\ env[g] \in Requests /\ mutation[env[g]] \in Mutations
         /\ TaskOf(env[g], mutation[env[g]]) \in TaskIds
         /\ mutation[env[g]].type # "create" => mutation[env[g]].task \in TaskIds
<1>1. env[g] \in Requests /\ mutation[env[g]] \in Mutations
  BY Zenon DEF ProcOK, CallOK, EnvOK
<1>2. mutation[env[g]].type # "create" => mutation[env[g]].task \in TaskIds
  BY Zenon, <1>1, MutationsAssumption DEF Mutation
<1> QED BY Zenon, <1>1, <1>2 DEF TaskOf, TaskIds

(* What the callers do ...                                                 *)
CallerNext == \E r \in Requests : (\E m \in Mutations : Submit(r, m)) \/ CallerGone(r)
(* ... keeps types and envelopes.                                          *)
LEMMA CallersKeepTypes ==
  ASSUME TypeInv, CallerNext
  PROVE  TypeInv'
<1> DEFINE Cancels == cancelling \subseteq ({"processing", "observer"} \X Gens)
           Applied == applied \in Seq(Requests)
<1> SUFFICES ASSUME StoreOK, LifeOK, CallOK, ProcOK, ObsOK, StopOK, Cancels, Applied,
                    QueueOK, EnvOK, LoopsOK, HandleOK
             PROVE  /\ StoreOK' /\ LifeOK' /\ CallOK' /\ ProcOK' /\ ObsOK' /\ StopOK'
                    /\ Cancels' /\ Applied' /\ QueueOK' /\ EnvOK' /\ LoopsOK' /\ HandleOK'
  BY Zenon DEF TypeInv, TypeOK
<1>1. ASSUME NEW r \in Requests, NEW m \in Mutations, Submit(r, m)
      PROVE  /\ StoreOK' /\ LifeOK' /\ CallOK' /\ ProcOK' /\ ObsOK' /\ StopOK'
             /\ Cancels' /\ Applied' /\ QueueOK' /\ EnvOK' /\ LoopsOK' /\ HandleOK'
  <2>1. reply' \in [Requests -> Reply]
    BY <1>1, RecodeType, Zenon DEF Submit, ReplyCode
  <2>2. queue' \in Seq(Requests) /\ Range(queue') \subseteq Range(queue) \cup {r}
    BY <1>1, RangeAppend DEF Submit, CallOK
  <2>3. mutation' \in [Requests -> Mutations \cup {None}] /\ mutation'[r] = m /\ m # None
    BY Zenon, <1>1, Constants DEF Submit, CallOK
  <2>4. CallOK'
    BY Zenon, <1>1, <2>1, <2>2, <2>3 DEF Submit, CallOK
  <2>5. \A q \in Requests : mutation[q] # None => mutation'[q] # None
    BY Zenon, <1>1, <2>3 DEF Submit, CallOK
  <2>6. Range(queue) \subseteq Requests
    BY DEF CallOK, Range
  <2>7. QueueOK'
    BY Zenon, <2>2, <2>3, <2>5, <2>6 DEF QueueOK
  <2>8. EnvOK'
    BY <1>1, <2>5 DEF Submit, EnvOK, ProcOK, procVars
  <2> QED
    BY Zenon, <1>1, <2>4, <2>7, <2>8, Untouched DEF Submit
<1>2. ASSUME NEW r \in Requests, CallerGone(r)
      PROVE  /\ StoreOK' /\ LifeOK' /\ CallOK' /\ ProcOK' /\ ObsOK' /\ StopOK'
             /\ Cancels' /\ Applied' /\ QueueOK' /\ EnvOK' /\ LoopsOK' /\ HandleOK'
  <2>1. reply' \in [Requests -> Reply]
    BY <1>2, RecodeType, Zenon DEF CallerGone, ReplyCode
  <2>2. CallOK'
    BY Zenon, <1>2, <2>1 DEF CallerGone, CallOK
  <2> QED
    BY Zenon, <1>2, <2>2, Untouched DEF CallerGone
<1> QED BY <1>1, <1>2, Zenon DEF CallerNext

(* What the observer loop does ...                                         *)
ObserverNext ==
  \E g \in Gens : \/ ObsTake(g) \/ ObsReturn(g) \/ ObsDies(g)
                  \/ ObsCancelled(g) \/ ObsIgnoresCancel(g)
(* ... keeps them.                                                         *)
LEMMA ObserversKeepTypes ==
  ASSUME TypeInv, ObserverNext
  PROVE  TypeInv'
<1> DEFINE Cancels == cancelling \subseteq ({"processing", "observer"} \X Gens)
           Applied == applied \in Seq(Requests)
<1> SUFFICES ASSUME StoreOK, LifeOK, CallOK, ProcOK, ObsOK, StopOK, Cancels, Applied,
                    QueueOK, EnvOK, LoopsOK, HandleOK
             PROVE  /\ StoreOK' /\ LifeOK' /\ CallOK' /\ ProcOK' /\ ObsOK' /\ StopOK'
                    /\ Cancels' /\ Applied' /\ QueueOK' /\ EnvOK' /\ LoopsOK' /\ HandleOK'
  BY Zenon DEF TypeInv, TypeOK
<1>1. ASSUME NEW g \in Gens, ObsTake(g)
      PROVE  /\ StoreOK' /\ LifeOK' /\ CallOK' /\ ProcOK' /\ ObsOK' /\ StopOK'
             /\ Cancels' /\ Applied' /\ QueueOK' /\ EnvOK' /\ LoopsOK' /\ HandleOK'
  <2>1. /\ Head(observerQueue) \in Requests \cup {Sentinel}
         /\ observerQueue' \in Seq(Requests \cup {Sentinel})
    BY Zenon, <1>1, RangeTail DEF ObsTake, ObsOK
  <2>2. ASSUME Head(observerQueue) = Sentinel PROVE ObsOK'
    BY Zenon, <1>1, <2>2, <2>1 DEF ObsTake, ObsOK
  <2>3. ASSUME Head(observerQueue) # Sentinel PROVE ObsOK'
    <3>1. Head(observerQueue) \in Requests
      BY Zenon, <2>3, <2>1
    <3>2. told' = Append(told, Head(observerQueue)) /\ obsPc' = [obsPc EXCEPT ![g] = "notify"]
      BY Zenon, <1>1, <2>3 DEF ObsTake
    <3>3. told' \in Seq(Requests)
      BY Zenon, <3>1, <3>2, RangeAppend DEF ObsOK
    <3> QED BY Zenon, <1>1, <2>1, <3>2, <3>3 DEF ObsOK
  <2>4. ObsOK'
    BY Zenon, <2>2, <2>3
  <2> QED
    BY Zenon, <1>1, <2>4, Untouched DEF ObsTake
<1>2. ASSUME NEW g \in Gens, ObsReturn(g)
      PROVE  /\ StoreOK' /\ LifeOK' /\ CallOK' /\ ProcOK' /\ ObsOK' /\ StopOK'
             /\ Cancels' /\ Applied' /\ QueueOK' /\ EnvOK' /\ LoopsOK' /\ HandleOK'
  <2>1. ObsOK'
    BY Zenon, <1>2 DEF ObsReturn, ObsOK
  <2> QED
    BY Zenon, <1>2, <2>1, Untouched DEF ObsReturn
<1>3. ASSUME NEW g \in Gens, ObsDies(g)
      PROVE  /\ StoreOK' /\ LifeOK' /\ CallOK' /\ ProcOK' /\ ObsOK' /\ StopOK'
             /\ Cancels' /\ Applied' /\ QueueOK' /\ EnvOK' /\ LoopsOK' /\ HandleOK'
  <2>1. ObsOK'
    BY Zenon, <1>3 DEF ObsDies, ObsOK
  <2> QED
    BY Zenon, <1>3, <2>1, Untouched DEF ObsDies
<1>4. ASSUME NEW g \in Gens, ObsCancelled(g)
      PROVE  /\ StoreOK' /\ LifeOK' /\ CallOK' /\ ProcOK' /\ ObsOK' /\ StopOK'
             /\ Cancels' /\ Applied' /\ QueueOK' /\ EnvOK' /\ LoopsOK' /\ HandleOK'
  <2>1. ObsOK'
    BY Zenon, <1>4 DEF ObsCancelled, ObsOK
  <2>2. Cancels'
    BY Zenon, <1>4 DEF ObsCancelled
  <2>3. LoopsOK'
    BY Zenon, <1>4 DEF ObsCancelled, LoopsOK, lifeVars, procVars, LiveProc
  <2> QED
    BY Zenon, <1>4, <2>1, <2>2, <2>3, Untouched DEF ObsCancelled
<1>5. ASSUME NEW g \in Gens, ObsIgnoresCancel(g)
      PROVE  /\ StoreOK' /\ LifeOK' /\ CallOK' /\ ProcOK' /\ ObsOK' /\ StopOK'
             /\ Cancels' /\ Applied' /\ QueueOK' /\ EnvOK' /\ LoopsOK' /\ HandleOK'
  <2>1. Cancels'
    BY Zenon, <1>5 DEF ObsIgnoresCancel
  <2>2. LoopsOK'
    BY <1>5, Zenon DEF ObsIgnoresCancel, LoopsOK, lifeVars, procVars, LiveProc
  <2> QED
    BY Zenon, <1>5, <2>1, <2>2, Untouched DEF ObsIgnoresCancel
<1> QED BY <1>1, <1>2, <1>3, <1>4, <1>5, Zenon DEF ObserverNext

----------------------------------------------------------------------------
(* What the processing loop does ...                                       *)
LoopNext ==
  \E g \in Gens : \/ LoopStep(g) \/ LoopStoreError(g) \/ LoopDies(g)
                  \/ LoopCancelled(g) \/ LoopIgnoresCancel(g)
(* ... keeps types and envelopes.                                          *)
LEMMA LoopsKeepTypes ==
  ASSUME TypeInv, LoopNext
  PROVE  TypeInv'
<1> DEFINE Cancels == cancelling \subseteq ({"processing", "observer"} \X Gens)
           Applied == applied \in Seq(Requests)
<1> SUFFICES ASSUME StoreOK, LifeOK, CallOK, ProcOK, ObsOK, StopOK, Cancels, Applied,
                    QueueOK, EnvOK, LoopsOK, HandleOK
             PROVE  /\ StoreOK' /\ LifeOK' /\ CallOK' /\ ProcOK' /\ ObsOK' /\ StopOK'
                    /\ Cancels' /\ Applied' /\ QueueOK' /\ EnvOK' /\ LoopsOK' /\ HandleOK'
  BY Zenon DEF TypeInv, TypeOK
<1>1. ASSUME NEW g \in Gens, LoopTake(g)
      PROVE  /\ StoreOK' /\ LifeOK' /\ CallOK' /\ ProcOK' /\ ObsOK' /\ StopOK'
             /\ Cancels' /\ Applied' /\ QueueOK' /\ EnvOK' /\ LoopsOK' /\ HandleOK'
  <2>1. /\ queue' \in Seq(Requests) /\ Head(queue) \in Requests
         /\ Head(queue) \in Range(queue) /\ Range(queue') \subseteq Range(queue)
    BY <1>1, RangeTail DEF LoopTake, CallOK
  <2>2. Head(queue) # None /\ mutation[Head(queue)] # None
    BY Zenon, <2>1, Constants DEF QueueOK
  <2>3. CallOK'
    BY Zenon, <1>1, <2>1 DEF LoopTake, CallOK
  <2>4. ProcOK'
    BY Zenon, <1>1, <2>1 DEF LoopTake, ProcOK
  <2>5. QueueOK'
    BY Zenon, <1>1, <2>1 DEF LoopTake, QueueOK
  <2>6. EnvOK'
    BY Zenon, <1>1, <2>2 DEF LoopTake, EnvOK, ProcOK, BusyPc
  <2>7. LoopsOK'
    BY Zenon, <1>1 DEF LoopTake, Resumes, LoopsOK, ProcOK, lifeVars, LiveProc, Proc
  <2> QED
    BY Zenon, <1>1, <2>3, <2>4, <2>5, <2>6, <2>7, Untouched DEF LoopTake
<1>2. ASSUME NEW g \in Gens, LoopExit(g)
      PROVE  /\ StoreOK' /\ LifeOK' /\ CallOK' /\ ProcOK' /\ ObsOK' /\ StopOK'
             /\ Cancels' /\ Applied' /\ QueueOK' /\ EnvOK' /\ LoopsOK' /\ HandleOK'
  <2>1. ProcOK'
    BY Zenon, <1>2 DEF LoopExit, ProcOK
  <2>2. EnvOK'
    BY Zenon, <1>2 DEF LoopExit, Resumes, EnvOK, ProcOK, BusyPc, callVars
  <2>3. LoopsOK'
    BY Zenon, <1>2 DEF LoopExit, Resumes, LoopsOK, ProcOK, lifeVars, LiveProc, Proc
  <2> QED
    BY Zenon, <1>2, <2>1, <2>2, <2>3, Untouched DEF LoopExit
<1>3. ASSUME NEW g \in Gens, LoopReject(g)
      PROVE  /\ StoreOK' /\ LifeOK' /\ CallOK' /\ ProcOK' /\ ObsOK' /\ StopOK'
             /\ Cancels' /\ Applied' /\ QueueOK' /\ EnvOK' /\ LoopsOK' /\ HandleOK'
  <2>1. env[g] \in Requests /\ mutation[env[g]] \in Mutations
    BY Zenon, <1>3, BusyType DEF LoopReject, Resumes, BusyPc
  <2>2. StoreOK'
    BY <1>3, <2>1, VersionsType, Zenon DEF LoopReject, StoreOK, TaskIds
  <2>3. reply' \in [Requests -> Reply]
    BY Zenon, <1>3, <2>1, AnswerType DEF LoopReject, ReplyCode
  <2>4. CallOK'
    BY Zenon, <1>3, <2>3 DEF LoopReject, NextEnvelope, CallOK
  <2>5. ProcOK'
    BY Zenon, <1>3 DEF LoopReject, NextEnvelope, ProcOK
  <2>6. EnvOK'
    BY Zenon, <1>3 DEF LoopReject, NextEnvelope, EnvOK, ProcOK, BusyPc
  <2>7. LoopsOK'
    BY Zenon, <1>3 DEF LoopReject, NextEnvelope, Resumes, LoopsOK, ProcOK, lifeVars, LiveProc, Proc
  <2> QED
    BY Zenon, <1>3, <2>2, <2>4, <2>5, <2>6, <2>7, Untouched DEF LoopReject, NextEnvelope
<1>4. ASSUME NEW g \in Gens, LoopNoop(g)
      PROVE  /\ StoreOK' /\ LifeOK' /\ CallOK' /\ ProcOK' /\ ObsOK' /\ StopOK'
             /\ Cancels' /\ Applied' /\ QueueOK' /\ EnvOK' /\ LoopsOK' /\ HandleOK'
  <2>1. env[g] \in Requests /\ mutation[env[g]] \in Mutations
    BY Zenon, <1>4, BusyType DEF LoopNoop, Resumes, BusyPc
  <2>2. StoreOK'
    BY <1>4, <2>1, VersionsType, Zenon DEF LoopNoop, StoreOK, TaskIds
  <2>3. mutation[env[g]].type # "create"
    BY Zenon, <1>4 DEF LoopNoop, dispatch, apply_create, Validated, Write, Fail
  <2>4. mutation[env[g]].task \in TaskIds
    BY Zenon, <1>4, <2>3, BusyType DEF LoopNoop, Resumes, BusyPc
  <2>5. versions'[mutation[env[g]].task] \in Nat
    BY Zenon, <2>2, <2>4 DEF StoreOK
  <2>6. reply' \in [Requests -> Reply]
    BY Zenon, <1>4, <2>1, <2>5, AnswerType DEF LoopNoop, ReplyCode
  <2>7. CallOK'
    BY Zenon, <1>4, <2>6 DEF LoopNoop, CallOK
  <2>8. ProcOK'
    BY Zenon, <1>4 DEF LoopNoop, ProcOK
  <2>9. EnvOK'
    BY Zenon, <1>4 DEF LoopNoop, Resumes, EnvOK, ProcOK, BusyPc, callVars
  <2>10. LoopsOK'
    BY Zenon, <1>4 DEF LoopNoop, Resumes, LoopsOK, ProcOK, lifeVars, LiveProc, Proc
  <2> QED
    BY Zenon, <1>4, <2>2, <2>7, <2>8, <2>9, <2>10, Untouched DEF LoopNoop
<1>5. ASSUME NEW g \in Gens, LoopPlan(g)
      PROVE  /\ StoreOK' /\ LifeOK' /\ CallOK' /\ ProcOK' /\ ObsOK' /\ StopOK'
             /\ Cancels' /\ Applied' /\ QueueOK' /\ EnvOK' /\ LoopsOK' /\ HandleOK'
  <2>1. env[g] \in Requests /\ mutation[env[g]] \in Mutations
    BY Zenon, <1>5, BusyType DEF LoopPlan, Resumes, BusyPc
  <2>2. StoreOK'
    BY <1>5, <2>1, VersionsType, Zenon DEF LoopPlan, StoreOK, TaskIds
  <2>3. dispatch(mutation[env[g]], rows, versions).row \in Task \cup {None}
    BY Zenon, <2>1, DispatchType DEF StoreOK
  <2>4. ProcOK'
    BY Zenon, <1>5, <2>3 DEF LoopPlan, ProcOK
  <2>5. EnvOK'
    BY Zenon, <1>5 DEF LoopPlan, Resumes, EnvOK, ProcOK, BusyPc, callVars
  <2>6. LoopsOK'
    BY Zenon, <1>5 DEF LoopPlan, Resumes, LoopsOK, ProcOK, lifeVars, LiveProc, Proc
  <2> QED
    BY Zenon, <1>5, <2>2, <2>4, <2>5, <2>6, Untouched DEF LoopPlan
<1>6. ASSUME NEW g \in Gens, StoreCommit(g)
      PROVE  /\ StoreOK' /\ LifeOK' /\ CallOK' /\ ProcOK' /\ ObsOK' /\ StopOK'
             /\ Cancels' /\ Applied' /\ QueueOK' /\ EnvOK' /\ LoopsOK' /\ HandleOK'
  <2>1. env[g] \in Requests /\ TaskOf(env[g], mutation[env[g]]) \in TaskIds
    BY Zenon, <1>6, BusyType DEF StoreCommit, BusyPc
  <2>2. StoreOK'
    BY Zenon, <1>6, <2>1 DEF StoreCommit, StoreOK, ProcOK
  <2>3. Applied'
    BY Zenon, <1>6, <2>1, RangeAppend DEF StoreCommit
  <2>4. ProcOK'
    BY Zenon, <1>6 DEF StoreCommit, ProcOK
  <2>5. EnvOK'
    BY Zenon, <1>6 DEF StoreCommit, Resumes, EnvOK, ProcOK, BusyPc, callVars
  <2>6. LoopsOK'
    BY Zenon, <1>6 DEF StoreCommit, Resumes, LoopsOK, ProcOK, lifeVars, LiveProc, Proc
  <2> QED
    BY Zenon, <1>6, <2>2, <2>3, <2>4, <2>5, <2>6, Untouched DEF StoreCommit
<1>7. ASSUME NEW g \in Gens, LoopComplete(g)
      PROVE  /\ StoreOK' /\ LifeOK' /\ CallOK' /\ ProcOK' /\ ObsOK' /\ StopOK'
             /\ Cancels' /\ Applied' /\ QueueOK' /\ EnvOK' /\ LoopsOK' /\ HandleOK'
  <2>1. /\ env[g] \in Requests /\ mutation[env[g]] \in Mutations
         /\ TaskOf(env[g], mutation[env[g]]) \in TaskIds
    BY <1>7, BusyType, Zenon DEF LoopComplete, Resumes, BusyPc
  <2>2. StoreOK'
    BY <1>7, <2>1, VersionsType, Zenon DEF LoopComplete, StoreOK
  <2>3. versions'[TaskOf(env[g], mutation[env[g]])] \in Nat
    BY Zenon, <2>1, <2>2 DEF StoreOK
  <2>4. reply' \in [Requests -> Reply]
    BY <1>7, <2>1, <2>3, AnswerType, Zenon DEF LoopComplete, ReplyCode
  <2>5. CallOK'
    BY Zenon, <1>7, <2>4 DEF LoopComplete, CallOK
  <2>6. ProcOK'
    BY Zenon, <1>7 DEF LoopComplete, ProcOK
  <2>7. EnvOK'
    BY Zenon, <1>7 DEF LoopComplete, Resumes, EnvOK, ProcOK, BusyPc, callVars
  <2>8. LoopsOK'
    BY Zenon, <1>7 DEF LoopComplete, Resumes, LoopsOK, ProcOK, lifeVars, LiveProc, Proc
  <2> QED
    BY <1>7, <2>2, <2>5, <2>6, <2>7, <2>8, Untouched, Zenon DEF LoopComplete
<1>8. ASSUME NEW g \in Gens, LoopNotify(g)
      PROVE  /\ StoreOK' /\ LifeOK' /\ CallOK' /\ ProcOK' /\ ObsOK' /\ StopOK'
             /\ Cancels' /\ Applied' /\ QueueOK' /\ EnvOK' /\ LoopsOK' /\ HandleOK'
  <2>1. env[g] \in Requests
    BY Zenon, <1>8, BusyType DEF LoopNotify, Resumes, BusyPc
  <2>2. observerQueue' \in Seq(Requests \cup {Sentinel})
    BY Zenon, <1>8, <2>1, RangeAppend DEF LoopNotify, ObsOK
  <2>3. ObsOK'
    BY Zenon, <1>8, <2>2 DEF LoopNotify, ObsOK
  <2>4. CallOK'
    BY Zenon, <1>8 DEF LoopNotify, NextEnvelope, CallOK
  <2>5. ProcOK'
    BY Zenon, <1>8 DEF LoopNotify, NextEnvelope, ProcOK
  <2>6. EnvOK'
    BY Zenon, <1>8 DEF LoopNotify, NextEnvelope, EnvOK, ProcOK, BusyPc
  <2>7. LoopsOK'
    BY Zenon, <1>8 DEF LoopNotify, NextEnvelope, Resumes, LoopsOK, ProcOK, lifeVars, LiveProc, Proc
  <2> QED
    BY Zenon, <1>8, <2>3, <2>4, <2>5, <2>6, <2>7, Untouched DEF LoopNotify, NextEnvelope
<1>9. ASSUME NEW g \in Gens, LoopStoreError(g)
      PROVE  /\ StoreOK' /\ LifeOK' /\ CallOK' /\ ProcOK' /\ ObsOK' /\ StopOK'
             /\ Cancels' /\ Applied' /\ QueueOK' /\ EnvOK' /\ LoopsOK' /\ HandleOK'
  <2>1. env[g] \in Requests
    BY Zenon, <1>9, BusyType DEF LoopStoreError, Resumes, BusyPc
  <2>2. reply' \in [Requests -> Reply]
    BY Zenon, <1>9, <2>1, AnswerType DEF LoopStoreError, ReplyCode
  <2>3. CallOK'
    BY Zenon, <1>9, <2>2 DEF LoopStoreError, NextEnvelope, CallOK
  <2>4. ProcOK'
    BY Zenon, <1>9 DEF LoopStoreError, NextEnvelope, ProcOK
  <2>5. EnvOK'
    BY Zenon, <1>9 DEF LoopStoreError, NextEnvelope, EnvOK, ProcOK, BusyPc
  <2>6. LoopsOK'
    BY Zenon, <1>9 DEF LoopStoreError, NextEnvelope, Resumes, LoopsOK, ProcOK, lifeVars, LiveProc, Proc
  <2> QED
    BY Zenon, <1>9, <2>3, <2>4, <2>5, <2>6, Untouched DEF LoopStoreError, NextEnvelope
<1>10. ASSUME NEW g \in Gens, LoopDies(g)
      PROVE  /\ StoreOK' /\ LifeOK' /\ CallOK' /\ ProcOK' /\ ObsOK' /\ StopOK'
             /\ Cancels' /\ Applied' /\ QueueOK' /\ EnvOK' /\ LoopsOK' /\ HandleOK'
  <2>1. env[g] \in Requests
    BY <1>10, BusyType, Zenon DEF LoopDies, Resumes, BusyPc
  <2>2. reply' \in [Requests -> Reply]
    BY Zenon, <1>10, <2>1, AnswerType DEF LoopDies, ReplyCode
  <2>3. CallOK'
    BY Zenon, <1>10, <2>2 DEF LoopDies, CallOK
  <2>4. ProcOK'
    BY Zenon, <1>10 DEF LoopDies, ProcOK
  <2>5. EnvOK'
    BY Zenon, <1>10 DEF LoopDies, EnvOK, ProcOK, BusyPc
  <2>6. LoopsOK'
    BY Zenon, <1>10 DEF LoopDies, Resumes, LoopsOK, ProcOK, lifeVars, LiveProc, Proc
  <2> QED
    BY Zenon, <1>10, <2>3, <2>4, <2>5, <2>6, Untouched DEF LoopDies
<1>11. ASSUME NEW g \in Gens, LoopCancelled(g)
      PROVE  /\ StoreOK' /\ LifeOK' /\ CallOK' /\ ProcOK' /\ ObsOK' /\ StopOK'
             /\ Cancels' /\ Applied' /\ QueueOK' /\ EnvOK' /\ LoopsOK' /\ HandleOK'
  <2>1. g \in LiveProc
    BY <1>11, Zenon DEF LoopCancelled, LoopsOK
  <2>2. CallOK'
    BY Zenon, <1>11 DEF LoopCancelled, CallOK
  <2>3. ProcOK'
    BY Zenon, <1>11 DEF LoopCancelled, ProcOK
  <2>4. Cancels'
    BY Zenon, <1>11 DEF LoopCancelled
  <2>5. EnvOK'
    BY Zenon, <1>11 DEF LoopCancelled, EnvOK, ProcOK, BusyPc
  <2>6. LoopsOK'
    BY Zenon, <1>11, <2>1 DEF LoopCancelled, LoopsOK, ProcOK, lifeVars, LiveProc, Proc
  <2> QED
    BY Zenon, <1>11, <2>2, <2>3, <2>4, <2>5, <2>6, Untouched DEF LoopCancelled
<1>12. ASSUME NEW g \in Gens, LoopIgnoresCancel(g)
      PROVE  /\ StoreOK' /\ LifeOK' /\ CallOK' /\ ProcOK' /\ ObsOK' /\ StopOK'
             /\ Cancels' /\ Applied' /\ QueueOK' /\ EnvOK' /\ LoopsOK' /\ HandleOK'
  <2>1. Cancels'
    BY Zenon, <1>12 DEF LoopIgnoresCancel
  <2>2. LoopsOK'
    BY <1>12, Zenon DEF LoopIgnoresCancel, LoopsOK, lifeVars, procVars, LiveProc
  <2> QED
    BY Zenon, <1>12, <2>1, <2>2, Untouched DEF LoopIgnoresCancel
<1> QED
  BY <1>1, <1>2, <1>3, <1>4, <1>5, <1>6, <1>7, <1>8, <1>9, <1>10, <1>11, <1>12, Zenon
     DEF LoopNext, LoopStep

----------------------------------------------------------------------------

(* What start() and stop() do ...                                          *)
StopNext ==
  \/ Start \/ StartRollback \/ StopBegin \/ BudgetExpires \/ StopStep
  \/ HardDeadline \/ StopCancelForwarded \/ StopAborted
(* ... keeps types and envelopes.                                          *)
LEMMA StopKeepsTypes ==
  ASSUME TypeInv, StopNext
  PROVE  TypeInv'
<1> DEFINE Cancels == cancelling \subseteq ({"processing", "observer"} \X Gens)
           Applied == applied \in Seq(Requests)
<1> SUFFICES ASSUME StoreOK, LifeOK, CallOK, ProcOK, ObsOK, StopOK, Cancels, Applied,
                    QueueOK, EnvOK, LoopsOK, HandleOK
             PROVE  /\ StoreOK' /\ LifeOK' /\ CallOK' /\ ProcOK' /\ ObsOK' /\ StopOK'
                    /\ Cancels' /\ Applied' /\ QueueOK' /\ EnvOK' /\ LoopsOK' /\ HandleOK'
  BY Zenon DEF TypeInv, TypeOK
<1>1. ASSUME Start
      PROVE  /\ StoreOK' /\ LifeOK' /\ CallOK' /\ ProcOK' /\ ObsOK' /\ StopOK'
             /\ Cancels' /\ Applied' /\ QueueOK' /\ EnvOK' /\ LoopsOK' /\ HandleOK'
  <2>1. starts \in Nat /\ starts < MaxStarts /\ starts + 1 \in 1..MaxStarts
    BY <1>1, Constants DEF Start, LifeOK
  <2>2. LifeOK'
    BY <1>1, <2>1, Constants DEF Start, LifeOK, Gens
  <2>3. ProcOK'
    BY Zenon, <1>1, <2>1 DEF Start, ProcOK, Gens
  <2>4. ObsOK'
    BY Zenon, <1>1, <2>1 DEF Start, ObsOK, Gens
  <2>5. procPc[starts + 1] = "none"
    BY <2>1 DEF LoopsOK, Gens
  <2>6. EnvOK'
    BY Zenon, <1>1, <2>5 DEF Start, EnvOK, ProcOK, BusyPc, callVars
  <2>7. \A g \in Gens : g > starts' => procPc'[g] = "none"
    BY <1>1, <2>1 DEF Start, LoopsOK, ProcOK, Gens
  <2>8. \A g \in LiveProc : g \in LiveProc'
    BY Zenon, <1>1, <2>1 DEF Start, ProcOK, LiveProc
  <2>9. LoopsOK'
    BY Zenon, <1>1, <2>7, <2>8 DEF Start, LoopsOK
  <2>10. HandleOK'
    BY Zenon, <1>1, <2>1 DEF Start, StartMayProceed, HandleOK, stopVars, Gens
  <2> QED
    BY Zenon, <1>1, <2>2, <2>3, <2>4, <2>6, <2>9, <2>10, Untouched DEF Start
<1>2. ASSUME StartRollback
      PROVE  /\ StoreOK' /\ LifeOK' /\ CallOK' /\ ProcOK' /\ ObsOK' /\ StopOK'
             /\ Cancels' /\ Applied' /\ QueueOK' /\ EnvOK' /\ LoopsOK' /\ HandleOK'
  <2>1. LifeOK'
    BY <1>2 DEF StartRollback, LifeOK
  <2>2. ObsOK'
    BY Zenon, <1>2 DEF StartRollback, ObsOK
  <2>3. HandleOK'
    BY Zenon, <1>2 DEF StartRollback, StartMayProceed, HandleOK, stopVars
  <2> QED
    BY Zenon, <1>2, <2>1, <2>2, <2>3, Untouched DEF StartRollback
<1>3. ASSUME StopBegin
      PROVE  /\ StoreOK' /\ LifeOK' /\ CallOK' /\ ProcOK' /\ ObsOK' /\ StopOK'
             /\ Cancels' /\ Applied' /\ QueueOK' /\ EnvOK' /\ LoopsOK' /\ HandleOK'
  <2>1. LifeOK'
    BY <1>3, Zenon DEF StopBegin, LifeOK
  <2>2. StopOK'
    BY <1>3, Zenon DEF StopBegin, StopOK
  <2>3. HandleOK'
    BY Zenon, <1>3 DEF StopBegin, HandleOK
  <2> QED
    BY Zenon, <1>3, <2>1, <2>2, <2>3, Untouched DEF StopBegin, StopUnchanged, callVars
<1>4. ASSUME BudgetExpires
      PROVE  /\ StoreOK' /\ LifeOK' /\ CallOK' /\ ProcOK' /\ ObsOK' /\ StopOK'
             /\ Cancels' /\ Applied' /\ QueueOK' /\ EnvOK' /\ LoopsOK' /\ HandleOK'
  <2>1. StopOK'
    BY Zenon, <1>4 DEF BudgetExpires, StopOK
  <2> QED
    BY Zenon, <1>4, <2>1, Untouched DEF BudgetExpires, StopUnchanged, callVars
<1>5. ASSUME StopProcessingDrained
      PROVE  /\ StoreOK' /\ LifeOK' /\ CallOK' /\ ProcOK' /\ ObsOK' /\ StopOK'
             /\ Cancels' /\ Applied' /\ QueueOK' /\ EnvOK' /\ LoopsOK' /\ HandleOK'
  <2>1. LifeOK'
    BY <1>5 DEF StopProcessingDrained, LifeOK
  <2>2. StopOK'
    BY Zenon, <1>5 DEF StopProcessingDrained, StopOK, CallOK
  <2>3. HandleOK'
    BY Zenon, <1>5 DEF StopProcessingDrained, HandleOK
  <2> QED
    BY Zenon, <1>5, <2>1, <2>2, <2>3, Untouched DEF StopProcessingDrained, StopUnchanged, callVars
<1>6. ASSUME StopProcessingDied
      PROVE  /\ StoreOK' /\ LifeOK' /\ CallOK' /\ ProcOK' /\ ObsOK' /\ StopOK'
             /\ Cancels' /\ Applied' /\ QueueOK' /\ EnvOK' /\ LoopsOK' /\ HandleOK'
  <2>1. LifeOK'
    BY <1>6 DEF StopProcessingDied, LifeOK
  <2>2. StopOK'
    BY Zenon, <1>6 DEF StopProcessingDied, StopOK, CallOK
  <2>3. HandleOK'
    BY Zenon, <1>6 DEF StopProcessingDied, HandleOK
  <2>4. CallOK' /\ QueueOK'
    BY Zenon, <1>6, FailType DEF StopProcessingDied, StopUnchanged, CallOK
  <2> QED
    BY Zenon, <1>6, <2>1, <2>2, <2>3, <2>4, Untouched DEF StopProcessingDied, StopUnchanged, callVars
<1>7. ASSUME StopProcessingTimeout
      PROVE  /\ StoreOK' /\ LifeOK' /\ CallOK' /\ ProcOK' /\ ObsOK' /\ StopOK'
             /\ Cancels' /\ Applied' /\ QueueOK' /\ EnvOK' /\ LoopsOK' /\ HandleOK'
  <2>1. StopOK'
    BY Zenon, <1>7 DEF StopProcessingTimeout, StopOK, CallOK
  <2>2. Cancels'
    BY <1>7 DEF StopProcessingTimeout, LiveProc, Proc
  <2>3. LoopsOK'
    BY Zenon, <1>7 DEF StopProcessingTimeout, StopUnchanged, LoopsOK, lifeVars, procVars, LiveProc,
       Proc
  <2>4. HandleOK'
    BY Zenon, <1>7 DEF StopProcessingTimeout, HandleOK, lifeVars
  <2> QED
    BY Zenon, <1>7, <2>1, <2>2, <2>3, <2>4, Untouched DEF StopProcessingTimeout, StopUnchanged, callVars
<1>8. ASSUME StopProcessingReaped
      PROVE  /\ StoreOK' /\ LifeOK' /\ CallOK' /\ ProcOK' /\ ObsOK' /\ StopOK'
             /\ Cancels' /\ Applied' /\ QueueOK' /\ EnvOK' /\ LoopsOK' /\ HandleOK'
  <2>1. LifeOK'
    BY <1>8 DEF StopProcessingReaped, LifeOK
  <2>2. StopOK'
    BY Zenon, <1>8 DEF StopProcessingReaped, StopOK, CallOK
  <2>3. HandleOK'
    BY Zenon, <1>8 DEF StopProcessingReaped, HandleOK
  <2>4. CallOK' /\ QueueOK'
    BY Zenon, <1>8, FailType DEF StopProcessingReaped, StopUnchanged, StopOK
  <2> QED
    BY Zenon, <1>8, <2>1, <2>2, <2>3, <2>4, Untouched DEF StopProcessingReaped, StopUnchanged, callVars
<1>9. ASSUME StopProcessingReapedDead
      PROVE  /\ StoreOK' /\ LifeOK' /\ CallOK' /\ ProcOK' /\ ObsOK' /\ StopOK'
             /\ Cancels' /\ Applied' /\ QueueOK' /\ EnvOK' /\ LoopsOK' /\ HandleOK'
  <2>1. LifeOK'
    BY <1>9 DEF StopProcessingReapedDead, LifeOK
  <2>2. StopOK'
    BY Zenon, <1>9 DEF StopProcessingReapedDead, StopOK, CallOK
  <2>3. HandleOK'
    BY Zenon, <1>9 DEF StopProcessingReapedDead, HandleOK
  <2> QED
    BY Zenon, <1>9, <2>1, <2>2, <2>3, Untouched DEF StopProcessingReapedDead, StopUnchanged, callVars
<1>10. ASSUME StopPutSentinel
      PROVE  /\ StoreOK' /\ LifeOK' /\ CallOK' /\ ProcOK' /\ ObsOK' /\ StopOK'
             /\ Cancels' /\ Applied' /\ QueueOK' /\ EnvOK' /\ LoopsOK' /\ HandleOK'
  <2>1. ASSUME expired PROVE ObsOK'
    BY Zenon, <1>10, <2>1 DEF StopPutSentinel, ObsOK
  <2>2. ASSUME ~expired PROVE ObsOK'
    <3>1. observerQueue' = Append(observerQueue, Sentinel) /\ Sentinel \in Requests \cup {Sentinel}
      BY Zenon, <1>10, <2>2 DEF StopPutSentinel
    <3>2. observerQueue' \in Seq(Requests \cup {Sentinel})
      BY Zenon, <3>1, RangeAppend DEF ObsOK
    <3> QED BY Zenon, <1>10, <3>2 DEF StopPutSentinel, ObsOK
  <2>3. ObsOK'
    BY Zenon, <2>1, <2>2
  <2>4. StopOK'
    BY Zenon, <1>10 DEF StopPutSentinel, StopOK
  <2>5. HandleOK'
    BY Zenon, <1>10 DEF StopPutSentinel, HandleOK, lifeVars
  <2> QED
    BY Zenon, <1>10, <2>3, <2>4, <2>5, Untouched DEF StopPutSentinel
<1>11. ASSUME StopObserverDrained
      PROVE  /\ StoreOK' /\ LifeOK' /\ CallOK' /\ ProcOK' /\ ObsOK' /\ StopOK'
             /\ Cancels' /\ Applied' /\ QueueOK' /\ EnvOK' /\ LoopsOK' /\ HandleOK'
  <2>1. LifeOK'
    BY <1>11 DEF StopObserverDrained, LifeOK
  <2>2. StopOK'
    BY Zenon, <1>11 DEF StopObserverDrained, StopOK, CallOK
  <2>3. HandleOK'
    BY Zenon, <1>11 DEF StopObserverDrained, HandleOK
  <2> QED
    BY Zenon, <1>11, <2>1, <2>2, <2>3, Untouched DEF StopObserverDrained, StopUnchanged, callVars
<1>12. ASSUME StopObserverTimeout
      PROVE  /\ StoreOK' /\ LifeOK' /\ CallOK' /\ ProcOK' /\ ObsOK' /\ StopOK'
             /\ Cancels' /\ Applied' /\ QueueOK' /\ EnvOK' /\ LoopsOK' /\ HandleOK'
  <2>1. StopOK'
    BY Zenon, <1>12 DEF StopObserverTimeout, StopOK
  <2>2. Cancels'
    BY <1>12 DEF StopObserverTimeout, LiveObs, Obs
  <2>3. LoopsOK'
    BY Zenon, <1>12 DEF StopObserverTimeout, StopUnchanged, LoopsOK, lifeVars, procVars, LiveProc, Proc,
       Obs
  <2>4. HandleOK'
    BY Zenon, <1>12 DEF StopObserverTimeout, HandleOK, lifeVars
  <2> QED
    BY Zenon, <1>12, <2>1, <2>2, <2>3, <2>4, Untouched DEF StopObserverTimeout, StopUnchanged, callVars
<1>13. ASSUME StopObserverReaped
      PROVE  /\ StoreOK' /\ LifeOK' /\ CallOK' /\ ProcOK' /\ ObsOK' /\ StopOK'
             /\ Cancels' /\ Applied' /\ QueueOK' /\ EnvOK' /\ LoopsOK' /\ HandleOK'
  <2>1. LifeOK'
    BY <1>13 DEF StopObserverReaped, LifeOK
  <2>2. StopOK'
    BY Zenon, <1>13 DEF StopObserverReaped, StopOK, CallOK
  <2>3. HandleOK'
    BY Zenon, <1>13 DEF StopObserverReaped, HandleOK
  <2> QED
    BY Zenon, <1>13, <2>1, <2>2, <2>3, Untouched DEF StopObserverReaped, StopUnchanged, callVars
<1>14. ASSUME HardDeadline
      PROVE  /\ StoreOK' /\ LifeOK' /\ CallOK' /\ ProcOK' /\ ObsOK' /\ StopOK'
             /\ Cancels' /\ Applied' /\ QueueOK' /\ EnvOK' /\ LoopsOK' /\ HandleOK'
  <2>1. StopOK'
    BY Zenon, <1>14 DEF HardDeadline, StopOK
  <2>2. Cancels'
    BY <1>14 DEF HardDeadline, AwaitedLive, Awaited, LiveProc, LiveObs, Proc, Obs
  <2>3. LoopsOK'
    BY Zenon, <1>14 DEF HardDeadline, AwaitedLive, Awaited, StopUnchanged, LoopsOK, lifeVars, procVars,
       LiveProc, Proc, Obs
  <2>4. HandleOK'
    BY Zenon, <1>14 DEF HardDeadline, HandleOK, lifeVars
  <2> QED
    BY Zenon, <1>14, <2>1, <2>2, <2>3, <2>4, Untouched DEF HardDeadline, StopUnchanged, callVars
<1>15. ASSUME StopCancelForwarded
      PROVE  /\ StoreOK' /\ LifeOK' /\ CallOK' /\ ProcOK' /\ ObsOK' /\ StopOK'
             /\ Cancels' /\ Applied' /\ QueueOK' /\ EnvOK' /\ LoopsOK' /\ HandleOK'
  <2>1. Cancels'
    BY <1>15 DEF StopCancelForwarded, AwaitedLive, Awaited, LiveProc, LiveObs, Proc, Obs
  <2>2. LoopsOK'
    BY Zenon, <1>15 DEF StopCancelForwarded, AwaitedLive, Awaited, StopUnchanged, LoopsOK, lifeVars,
       procVars, LiveProc, Proc, Obs
  <2> QED
    BY Zenon, <1>15, <2>1, <2>2, Untouched DEF StopCancelForwarded, StopUnchanged, callVars
<1>16. ASSUME StopAborted
      PROVE  /\ StoreOK' /\ LifeOK' /\ CallOK' /\ ProcOK' /\ ObsOK' /\ StopOK'
             /\ Cancels' /\ Applied' /\ QueueOK' /\ EnvOK' /\ LoopsOK' /\ HandleOK'
  <2>1. ASSUME stopPc = "drainProcessing" PROVE CallOK' /\ QueueOK'
    BY Zenon, <1>16, <2>1, FailType DEF StopAborted, StopUnchanged, CallOK
  <2>2. ASSUME stopPc # "drainProcessing" PROVE CallOK' /\ QueueOK'
    BY Zenon, <1>16, <2>2, Untouched DEF StopAborted, StopUnchanged, callVars
  <2>3. CallOK' /\ QueueOK'
    BY Zenon, <2>1, <2>2
  <2>4. LifeOK'
    BY <1>16 DEF StopAborted, LifeOK
  <2>5. StopOK'
    BY Zenon, <1>16 DEF StopAborted, StopOK
  <2>6. HandleOK'
    BY Zenon, <1>16 DEF StopAborted, HandleOK
  <2> QED
    BY Zenon, <1>16, <2>3, <2>4, <2>5, <2>6, Untouched DEF StopAborted, StopUnchanged, callVars
<1> QED
  BY <1>1, <1>2, <1>3, <1>4, <1>5, <1>6, <1>7, <1>8, <1>9, <1>10, <1>11,
     <1>12, <1>13, <1>14, <1>15, <1>16, Zenon DEF StopNext, StopStep

(* One step of the engine keeps types and envelopes.                       *)
LEMMA TypeStep == TypeInv /\ [Next]_vars => TypeInv'
<1>1. ASSUME TypeInv, UNCHANGED vars PROVE TypeInv'
  BY Zenon, <1>1, Untouched DEF vars, TypeInv, TypeOK
<1> QED BY <1>1, CallersKeepTypes, ObserversKeepTypes, LoopsKeepTypes, StopKeepsTypes, Zenon
        DEF Next, CallerNext, ObserverNext, LoopNext, StopNext

(* Type correctness: every behaviour of the engine keeps TypeOK.           *)
THEOREM TypeCorrect == Spec => []TypeOK
<1>1. Spec => []TypeInv
  BY InitTypeInv, TypeStep, PTL DEF Spec
<1> QED BY <1>1, PTL DEF TypeInv

----------------------------------------------------------------------------
(* The inductive invariant behind SingleWriter.  Only the newest           *)
(* processing loop may be alive; stop() holds its handle until it has seen *)
(* it end; and an engine that is stopped while the loop is still alive is  *)
(* unrestartable, so start() cannot create a second one.                   *)
LifeInv ==
  /\ \A g \in LiveProc : g = starts
  /\ LiveProc # {} /\ ~running /\ stopPc = "idle" => unrestartable
  /\ stopPc \in {"putSentinel", "drainObserver", "reapObserver"} => LiveProc = {}
  /\ running \/ stopPc \in {"drainProcessing", "reapProcessing"} => processingTask = starts
  /\ unrestartable => ~running

(* A step that leaves the lifecycle alone and at most ends loops keeps it. *)
LEMMA LiveShrinks ==
  ASSUME LifeInv, LiveProc' \subseteq LiveProc, stopPc' = stopPc,
         UNCHANGED <<running, unrestartable, starts, processingTask>>
  PROVE  LifeInv'
BY Zenon DEF LifeInv

(* One step of the engine keeps it.                                        *)
LEMMA LifeStep == TypeInv /\ LifeInv /\ [Next]_vars => LifeInv'
<1> SUFFICES ASSUME LifeOK, ProcOK, StopOK, LoopsOK, HandleOK, LifeInv, [Next]_vars PROVE LifeInv'
  BY Zenon DEF TypeInv, TypeOK
<1>1. ASSUME NEW r \in Requests, NEW m \in Mutations, Submit(r, m) PROVE LifeInv'
  BY Zenon, <1>1, LiveShrinks DEF Submit, lifeVars, procVars, stopVars, LiveProc
<1>2. ASSUME NEW r \in Requests, CallerGone(r) PROVE LifeInv'
  BY Zenon, <1>2, LiveShrinks DEF CallerGone, lifeVars, procVars, stopVars, LiveProc
<1>3. ASSUME NEW g \in Gens, LoopTake(g) PROVE LifeInv'
  <2>1. LiveProc' \subseteq LiveProc
    BY Zenon, <1>3 DEF LoopTake, Resumes, NextEnvelope, LiveProc, ProcOK, procVars
  <2> QED BY Zenon, <1>3, <2>1, LiveShrinks DEF LoopTake, lifeVars, stopVars
<1>4. ASSUME NEW g \in Gens, LoopExit(g) PROVE LifeInv'
  <2>1. LiveProc' \subseteq LiveProc
    BY Zenon, <1>4 DEF LoopExit, Resumes, LiveProc, ProcOK, procVars
  <2> QED BY Zenon, <1>4, <2>1, LiveShrinks DEF LoopExit, lifeVars, stopVars
<1>5. ASSUME NEW g \in Gens, LoopReject(g) PROVE LifeInv'
  <2>1. LiveProc' \subseteq LiveProc
    BY Zenon, <1>5 DEF LoopReject, Resumes, NextEnvelope, LiveProc, ProcOK, procVars
  <2> QED BY Zenon, <1>5, <2>1, LiveShrinks DEF LoopReject, lifeVars, stopVars
<1>6. ASSUME NEW g \in Gens, LoopNoop(g) PROVE LifeInv'
  <2>1. LiveProc' \subseteq LiveProc
    BY Zenon, <1>6 DEF LoopNoop, Resumes, NextEnvelope, LiveProc, ProcOK, procVars
  <2> QED BY Zenon, <1>6, <2>1, LiveShrinks DEF LoopNoop, lifeVars, stopVars
<1>7. ASSUME NEW g \in Gens, LoopPlan(g) PROVE LifeInv'
  <2>1. LiveProc' \subseteq LiveProc
    BY Zenon, <1>7 DEF LoopPlan, Resumes, LiveProc, ProcOK, procVars
  <2> QED BY Zenon, <1>7, <2>1, LiveShrinks DEF LoopPlan, lifeVars, stopVars
<1>8. ASSUME NEW g \in Gens, StoreCommit(g) PROVE LifeInv'
  <2>1. LiveProc' \subseteq LiveProc
    BY Zenon, <1>8 DEF StoreCommit, LiveProc, ProcOK, procVars
  <2> QED BY Zenon, <1>8, <2>1, LiveShrinks DEF StoreCommit, lifeVars, stopVars
<1>9. ASSUME NEW g \in Gens, LoopComplete(g) PROVE LifeInv'
  <2>1. LiveProc' \subseteq LiveProc
    BY Zenon, <1>9 DEF LoopComplete, Resumes, NextEnvelope, LiveProc, ProcOK, procVars
  <2> QED BY Zenon, <1>9, <2>1, LiveShrinks DEF LoopComplete, lifeVars, stopVars
<1>10. ASSUME NEW g \in Gens, LoopNotify(g) PROVE LifeInv'
  <2>1. LiveProc' \subseteq LiveProc
    BY Zenon, <1>10 DEF LoopNotify, Resumes, NextEnvelope, LiveProc, ProcOK, procVars
  <2> QED BY Zenon, <1>10, <2>1, LiveShrinks DEF LoopNotify, lifeVars, stopVars
<1>11. ASSUME NEW g \in Gens, LoopStoreError(g) PROVE LifeInv'
  <2>1. LiveProc' \subseteq LiveProc
    BY Zenon, <1>11 DEF LoopStoreError, Resumes, NextEnvelope, LiveProc, ProcOK, procVars
  <2> QED BY Zenon, <1>11, <2>1, LiveShrinks DEF LoopStoreError, lifeVars, stopVars
<1>12. ASSUME NEW g \in Gens, LoopDies(g) PROVE LifeInv'
  <2>1. LiveProc' \subseteq LiveProc
    BY Zenon, <1>12 DEF LoopDies, Resumes, LiveProc, ProcOK, procVars
  <2> QED BY Zenon, <1>12, <2>1, LiveShrinks DEF LoopDies, lifeVars, stopVars
<1>13. ASSUME NEW g \in Gens, LoopCancelled(g) PROVE LifeInv'
  <2>1. LiveProc' \subseteq LiveProc
    BY Zenon, <1>13 DEF LoopCancelled, Resumes, LiveProc, ProcOK, procVars
  <2> QED BY Zenon, <1>13, <2>1, LiveShrinks DEF LoopCancelled, lifeVars, stopVars
<1>14. ASSUME NEW g \in Gens, LoopIgnoresCancel(g) PROVE LifeInv'
  BY Zenon, <1>14, LiveShrinks DEF LoopIgnoresCancel, lifeVars, procVars, stopVars, LiveProc
<1>15. ASSUME NEW g \in Gens, ObsTake(g) PROVE LifeInv'
  BY Zenon, <1>15, LiveShrinks DEF ObsTake, lifeVars, procVars, stopVars, LiveProc
<1>16. ASSUME NEW g \in Gens, ObsReturn(g) PROVE LifeInv'
  BY Zenon, <1>16, LiveShrinks DEF ObsReturn, lifeVars, procVars, stopVars, LiveProc
<1>17. ASSUME NEW g \in Gens, ObsDies(g) PROVE LifeInv'
  BY Zenon, <1>17, LiveShrinks DEF ObsDies, lifeVars, procVars, stopVars, LiveProc
<1>18. ASSUME NEW g \in Gens, ObsCancelled(g) PROVE LifeInv'
  BY Zenon, <1>18, LiveShrinks DEF ObsCancelled, lifeVars, procVars, stopVars, LiveProc
<1>19. ASSUME NEW g \in Gens, ObsIgnoresCancel(g) PROVE LifeInv'
  BY Zenon, <1>19, LiveShrinks DEF ObsIgnoresCancel, lifeVars, procVars, stopVars, LiveProc
<1>20. ASSUME Start PROVE LifeInv'
  BY Zenon, <1>20 DEF Start, StartMayProceed, LifeOK, ProcOK, StopOK, LoopsOK, HandleOK, LifeInv,
     StopUnchanged, LiveProc,
     lifeVars, procVars, stopVars
<1>21. ASSUME StartRollback PROVE LifeInv'
  BY Zenon, <1>21 DEF StartRollback, StartMayProceed, LifeOK, ProcOK, StopOK, LoopsOK, HandleOK, LifeInv,
     StopUnchanged, LiveProc,
     lifeVars, procVars, stopVars
<1>22. ASSUME StopBegin PROVE LifeInv'
  BY Zenon, <1>22 DEF StopBegin, LifeOK, ProcOK, StopOK, LoopsOK, HandleOK, LifeInv, StopUnchanged,
     LiveProc,
     lifeVars, procVars, stopVars
<1>23. ASSUME BudgetExpires PROVE LifeInv'
  BY Zenon, <1>23, LiveShrinks DEF BudgetExpires, StopUnchanged, lifeVars, procVars, stopVars, LiveProc
<1>24. ASSUME StopProcessingDrained PROVE LifeInv'
  BY Zenon, <1>24 DEF StopProcessingDrained, LifeOK, ProcOK, StopOK, LoopsOK, HandleOK, LifeInv,
     StopUnchanged, LiveProc,
     lifeVars, procVars, stopVars
<1>25. ASSUME StopProcessingDied PROVE LifeInv'
  BY Zenon, <1>25 DEF StopProcessingDied, LifeOK, ProcOK, StopOK, LoopsOK, HandleOK, LifeInv,
     StopUnchanged, LiveProc,
     lifeVars, procVars, stopVars
<1>26. ASSUME StopProcessingTimeout PROVE LifeInv'
  BY Zenon, <1>26 DEF StopProcessingTimeout, LifeOK, ProcOK, StopOK, LoopsOK, HandleOK, LifeInv,
     StopUnchanged, LiveProc,
     lifeVars, procVars, stopVars
<1>27. ASSUME StopProcessingReaped PROVE LifeInv'
  BY Zenon, <1>27 DEF StopProcessingReaped, LifeOK, ProcOK, StopOK, LoopsOK, HandleOK, LifeInv,
     StopUnchanged, LiveProc,
     lifeVars, procVars, stopVars
<1>28. ASSUME StopProcessingReapedDead PROVE LifeInv'
  BY Zenon, <1>28 DEF StopProcessingReapedDead, LifeOK, ProcOK, StopOK, LoopsOK, HandleOK, LifeInv,
     StopUnchanged, LiveProc,
     lifeVars, procVars, stopVars
<1>29. ASSUME StopPutSentinel PROVE LifeInv'
  BY Zenon, <1>29 DEF StopPutSentinel, LifeOK, ProcOK, StopOK, LoopsOK, HandleOK, LifeInv, StopUnchanged,
     LiveProc,
     lifeVars, procVars, stopVars
<1>30. ASSUME StopObserverDrained PROVE LifeInv'
  BY Zenon, <1>30 DEF StopObserverDrained, LifeOK, ProcOK, StopOK, LoopsOK, HandleOK, LifeInv,
     StopUnchanged, LiveProc,
     lifeVars, procVars, stopVars
<1>31. ASSUME StopObserverTimeout PROVE LifeInv'
  BY Zenon, <1>31 DEF StopObserverTimeout, LifeOK, ProcOK, StopOK, LoopsOK, HandleOK, LifeInv,
     StopUnchanged, LiveProc,
     lifeVars, procVars, stopVars
<1>32. ASSUME StopObserverReaped PROVE LifeInv'
  BY Zenon, <1>32 DEF StopObserverReaped, LifeOK, ProcOK, StopOK, LoopsOK, HandleOK, LifeInv,
     StopUnchanged, LiveProc,
     lifeVars, procVars, stopVars
<1>33. ASSUME HardDeadline PROVE LifeInv'
  BY Zenon, <1>33 DEF HardDeadline, LifeOK, ProcOK, StopOK, LoopsOK, HandleOK, LifeInv, StopUnchanged,
     LiveProc,
     lifeVars, procVars, stopVars
<1>34. ASSUME StopCancelForwarded PROVE LifeInv'
  BY Zenon, <1>34 DEF StopCancelForwarded, LifeOK, ProcOK, StopOK, LoopsOK, HandleOK, LifeInv,
     StopUnchanged, LiveProc,
     lifeVars, procVars, stopVars
<1>35. ASSUME StopAborted PROVE LifeInv'
  BY Zenon, <1>35 DEF StopAborted, LifeOK, ProcOK, StopOK, LoopsOK, HandleOK, LifeInv, StopUnchanged,
     LiveProc,
     lifeVars, procVars, stopVars
<1>36. CASE UNCHANGED vars
  BY Zenon, <1>36, LiveShrinks DEF vars, lifeVars, procVars, stopVars, LiveProc
<1> QED
  BY <1>1, <1>2, <1>3, <1>4, <1>5, <1>6, <1>7, <1>8, <1>9, <1>10, <1>11, <1>12, <1>13,
     <1>14, <1>15, <1>16, <1>17, <1>18, <1>19, <1>20, <1>21, <1>22, <1>23, <1>24, <1>25,
     <1>26, <1>27, <1>28, <1>29, <1>30, <1>31, <1>32, <1>33, <1>34, <1>35, <1>36, Zenon DEF Next,
     LoopStep, StopStep

(* Single writer: for every number of restarts, every fault and every      *)
(* interleaving of start(), stop(), the loops and the deadlines, at most   *)
(* one processing loop is alive.                                           *)
THEOREM SingleWriterAlways == Spec => []SingleWriter
<1>1. Init => LifeInv
  BY Zenon DEF Init, LifeInv, LiveProc
<1>2. LifeInv => SingleWriter
  BY Zenon DEF LifeInv, SingleWriter
<1> QED BY <1>1, <1>2, InitTypeInv, TypeStep, LifeStep, PTL DEF Spec
==============================================================================
