--------------------------- MODULE TaskEngineDrain ---------------------------
(***************************************************************************)
(* What observers are told, and what a stop() of the task engine leaves    *)
(* behind, for every set of requests and mutations.                        *)
(***************************************************************************)
EXTENDS TaskEngineRequests

(* The engine is done with a request: it is neither queued nor served, and *)
(* was applied if it writes at all.                                        *)
Done(r) ==
  /\ mutation[r] # None /\ r \notin Range(queue)
  /\ \A g \in Gens : env[g] # r
  /\ Writes(r) => r \in Range(applied)

(* q comes before r: another request, and not applied after r.             *)
Before(q, r) ==
  q # r /\ \A k, l \in DOMAIN applied : applied[k] = q /\ applied[l] = r => k < l

(* Only requests that write are saved.                                     *)
SavedWrites ==
  /\ \A r \in Range(applied) : Writes(r)
  /\ \A g \in Gens : procPc[g] = "save" => Writes(env[g])

(* The events, told or waiting to be, are of requests the engine is done   *)
(* with, in the order of their writes.                                     *)
ToldInv ==
  /\ \A i \in DOMAIN told : Done(told[i])
  /\ \A i \in DOMAIN observerQueue : observerQueue[i] # Sentinel => Done(observerQueue[i])
  /\ \A i, j \in DOMAIN told : i < j => Before(told[i], told[j])
  /\ \A i \in DOMAIN told, j \in DOMAIN observerQueue :
       observerQueue[j] # Sentinel => Before(told[i], observerQueue[j])
  /\ \A i, j \in DOMAIN observerQueue :
       i < j /\ observerQueue[i] # Sentinel /\ observerQueue[j] # Sentinel =>
         Before(observerQueue[i], observerQueue[j])

EventInv == SavedWrites /\ ToldInv

(* It holds initially.                                                     *)
LEMMA EventInit == Init => EventInv
<1>1. Init => /\ applied = << >> /\ told = << >> /\ observerQueue = << >>
              /\ \A g \in Gens : procPc[g] = "none"
  BY Zenon DEF Init
<1> QED BY <1>1, RangeEmpty DEF EventInv, SavedWrites, ToldInv

(* A mutation that is to be written is no empty update.                    *)
LEMMA WriteWrites ==
  ASSUME NEW m \in Mutations, NEW R \in [TaskIds -> Task \cup {None}], NEW V \in [TaskIds -> Nat],
         dispatch(m, R, V).code = "write"
  PROVE  ~(m.type = "update" /\ m.updates = NoUpdates)
  BY Zenon DEF dispatch, apply_update, Fail

(* Saved requests write: one step of the engine keeps that.                *)
LEMMA SavedWritesStep ==
  ASSUME TypeInv, LifeInv, RequestInv, SavedWrites, [Next]_vars
  PROVE  SavedWrites'
<1>a. StoreOK /\ CallOK /\ ProcOK /\ EnvOK /\ applied \in Seq(Requests)
  BY Zenon DEF TypeInv, TypeOK
<1>1. CASE Drops
  BY Zenon, <1>1 DEF Drops, SavedWrites, Busy, BusyPc, Writes
<1>2. ASSUME NEW r \in Requests, NEW m \in Mutations, Submit(r, m) PROVE SavedWrites'
  <2>1. mutation[r] = None /\ r \notin Range(applied)
    BY Zenon, <1>2 DEF Submit, RequestInv, Sent
  <2>2. /\ UNCHANGED <<applied, procPc, env>>
        /\ \A q \in Requests : q # r => mutation'[q] = mutation[q]
    BY Zenon, <1>2, <1>a DEF Submit, CallOK, procVars
  <2>3. \A q \in Range(applied) : q \in Requests /\ q # r
    BY <1>a, <2>1 DEF Range
  <2>4. \A g \in Gens : procPc[g] = "save" => mutation'[env[g]] = mutation[env[g]]
    BY <1>a, <2>1, <2>2 DEF EnvOK, ProcOK, BusyPc
  <2> QED BY <2>2, <2>3, <2>4 DEF SavedWrites, Writes
<1>3. ASSUME NEW g \in Gens, Serves(g) PROVE SavedWrites'
  <2>1. mutation' = mutation /\ \A h \in Gens : h # g => procPc'[h] # "save"
    BY Zenon, <1>3, Alone DEF Busy, BusyPc
  <2>2. CASE LoopPlan(g)
    <3>1. procPc[g] = "dispatch" /\ UNCHANGED <<applied, env>>
      BY Zenon, <2>2 DEF LoopPlan, Resumes
    <3>2. env[g] \in Requests /\ mutation[env[g]] \in Mutations
      BY Zenon, <1>a, <3>1, BusyType DEF BusyPc
    <3>3. Writes(env[g])
      BY Zenon, <1>a, <2>2, <3>2, WriteWrites DEF LoopPlan, StoreOK, Writes
    <3> QED BY <2>1, <3>1, <3>3 DEF SavedWrites, Writes
  <2>3. CASE StoreCommit(g)
    <3>1. procPc[g] = "save" /\ procPc'[g] = "saved" /\ applied' = Append(applied, env[g])
      BY <2>3, <1>a DEF StoreCommit, ProcOK
    <3>2. Range(applied') = Range(applied) \cup {env[g]}
      BY <1>a, <3>1, BusyType, RangeAppend DEF BusyPc
    <3> QED BY Zenon, <2>1, <3>1, <3>2 DEF SavedWrites, Writes
  <2>4. CASE ~LoopPlan(g) /\ ~StoreCommit(g)
    <3>1. procPc'[g] # "save" /\ applied' = applied
      BY Zenon, <1>3, <2>4, <1>a DEF Serves, LoopTake, LoopReject, LoopNoop, LoopComplete, NextEnvelope, ProcOK
    <3> QED BY Zenon, <2>1, <3>1 DEF SavedWrites, Writes
  <2> QED BY Zenon, <2>2, <2>3, <2>4
<1> QED BY Zenon, <1>1, <1>2, <1>3, StepKinds

(* Once done, a request stays done, and two that are done keep their order.*)
LEMMA DoneStays ==
  ASSUME TypeInv, TypeInv', LifeInv, RequestInv, [Next]_vars
  PROVE  /\ \A r \in Requests : Done(r) => Done(r)'
         /\ \A q, r \in Requests : Done(q) /\ Done(r) /\ Before(q, r) => Before(q, r)'
<1>a. CallOK /\ ProcOK /\ EnvOK /\ applied \in Seq(Requests)
  BY Zenon DEF TypeInv, TypeOK
<1>1. ASSUME UNCHANGED <<mutation, applied>>, Range(queue') \subseteq Range(queue),
             \A g \in Gens : env'[g] \in {env[g], None} \cup Range(queue)
      PROVE  /\ \A r \in Requests : Done(r) => Done(r)'
             /\ \A q, r \in Requests : Done(q) /\ Done(r) /\ Before(q, r) => Before(q, r)'
  BY <1>1, Constants DEF Done, Before, Writes
<1>2. CASE Drops
  <2>1. UNCHANGED <<mutation, applied>> /\ Range(queue') \subseteq Range(queue)
    BY Zenon, <1>2, RangeEmpty DEF Drops
  <2>2. \A g \in Gens : env'[g] \in {env[g], None}
    BY Zenon, <1>2 DEF Drops, Busy, TypeInv, EnvOK
  <2> QED BY Zenon, <1>1, <2>1, <2>2
<1>3. ASSUME NEW x \in Requests, NEW m \in Mutations, Submit(x, m)
      PROVE  /\ \A r \in Requests : Done(r) => Done(r)'
             /\ \A q, r \in Requests : Done(q) /\ Done(r) /\ Before(q, r) => Before(q, r)'
  <2>1. mutation[x] = None
    BY Zenon, <1>3 DEF Submit, RequestInv, Sent
  <2>2. /\ UNCHANGED <<applied, env>> /\ Range(queue') \subseteq Range(queue) \cup {x}
        /\ \A q \in Requests : q # x => mutation'[q] = mutation[q]
    BY <1>3, <1>a, RangeAppend DEF Submit, CallOK, procVars
  <2> QED BY <2>1, <2>2 DEF Done, Before, Writes
<1>4. ASSUME NEW g \in Gens, Serves(g)
      PROVE  /\ \A r \in Requests : Done(r) => Done(r)'
             /\ \A q, r \in Requests : Done(q) /\ Done(r) /\ Before(q, r) => Before(q, r)'
  <2>1. mutation' = mutation /\ \A h \in Gens : h # g => env'[h] = env[h]
    BY Zenon, <1>4, Alone
  <2>2. CASE LoopTake(g)
    <3>1. Range(queue') \subseteq Range(queue) /\ env'[g] \in Range(queue)
      BY <2>2, <1>a, RangeTail DEF LoopTake, CallOK, ProcOK
    <3>2. applied' = applied
      BY Zenon, <2>2 DEF LoopTake
    <3> QED BY Zenon, <1>1, <2>1, <3>1, <3>2
  <2>3. CASE LoopReject(g) \/ LoopNoop(g) \/ LoopPlan(g) \/ LoopComplete(g)
    <3>1. UNCHANGED <<applied, queue>> /\ env'[g] \in {env[g], None}
      BY Zenon, <2>3, <1>a DEF LoopReject, LoopNoop, LoopPlan, LoopComplete, NextEnvelope, ProcOK, callVars
    <3> QED BY Zenon, <1>1, <2>1, <3>1
  <2>4. CASE StoreCommit(g)
    <3>1. /\ UNCHANGED <<queue, env>> /\ applied' = Append(applied, env[g])
          /\ env[g] \in Requests
      BY <2>4, <1>a, BusyType DEF StoreCommit, callVars, BusyPc
    <3>2. \A r \in Requests : Done(r) => Done(r)' /\ r # env[g]
      BY <1>a, <2>1, <3>1, RangeAppend DEF Done, Writes
    <3>3. /\ DOMAIN applied' = 1..(Len(applied) + 1) /\ DOMAIN applied = 1..Len(applied)
          /\ applied'[Len(applied) + 1] = env[g] /\ Len(applied) \in Nat
          /\ \A k \in DOMAIN applied : applied'[k] = applied[k]
      BY <1>a, <3>1
    <3>4. ASSUME NEW q \in Requests, NEW r \in Requests, q # env[g], r # env[g], Before(q, r)
          PROVE  Before(q, r)'
      BY <3>3, <3>4 DEF Before
    <3> QED BY Zenon, <3>2, <3>4
  <2> QED BY Zenon, <1>4, <2>2, <2>3, <2>4 DEF Serves
<1> QED BY <1>2, <1>3, <1>4, StepKinds

(* The steps that concern events: one is handed to the observer loop, one  *)
(* is taken by it, the sentinel is put, or none.                           *)
LEMMA EventKinds ==
  ASSUME [Next]_vars
  PROVE  \/ UNCHANGED <<observerQueue, told>>
         \/ \E g \in Gens : LoopNotify(g) \/ ObsTake(g)
         \/ observerQueue' = Append(observerQueue, Sentinel) /\ told' = told
<1> USE DEF obsVars
<1>1. CASE CallerNext \/ UNCHANGED vars
  BY Zenon, <1>1 DEF CallerNext, Submit, CallerGone, vars
<1>2. CASE ObserverNext
  BY Zenon, <1>2 DEF ObserverNext, ObsReturn, ObsDies, ObsCancelled, ObsIgnoresCancel
<1>3. ASSUME NEW g \in Gens, LoopStep(g) \/ LoopStoreError(g) \/ LoopDies(g) \/ LoopCancelled(g) \/ LoopIgnoresCancel(g)
      PROVE  UNCHANGED <<observerQueue, told>> \/ LoopNotify(g)
  BY Zenon, <1>3 DEF LoopStep, LoopStoreError, LoopDies, LoopCancelled, LoopIgnoresCancel, LoopTake, LoopExit,
     LoopReject, LoopNoop, LoopPlan, StoreCommit, LoopComplete
<1>4. CASE Start \/ StartRollback \/ StopPutSentinel
  BY Zenon, <1>4 DEF Start, StartRollback, StopPutSentinel
<1>5. CASE \/ StopBegin \/ BudgetExpires \/ HardDeadline \/ StopCancelForwarded \/ StopAborted
           \/ (StopStep /\ ~StopPutSentinel)
  BY Zenon, <1>5 DEF StopBegin, BudgetExpires, HardDeadline, StopCancelForwarded, StopAborted, StopStep,
     StopProcessingDrained, StopProcessingDied, StopProcessingTimeout, StopProcessingReaped,
     StopProcessingReapedDead, StopObserverDrained, StopObserverTimeout, StopObserverReaped, StopUnchanged
<1> QED BY Zenon, <1>1, <1>2, <1>3, <1>4, <1>5 DEF Next, CallerNext, ObserverNext, StopStep

(* One step of the engine keeps the events in order.                       *)
LEMMA EventStep ==
  ASSUME TypeInv, TypeInv', LifeInv, RequestInv, EventInv, [Next]_vars
  PROVE  EventInv'
<1>a. /\ CallOK /\ ProcOK /\ EnvOK /\ applied \in Seq(Requests) /\ told \in Seq(Requests)
      /\ observerQueue \in Seq(Requests \cup {Sentinel}) /\ Sentinel \notin Requests
      /\ DOMAIN told = 1..Len(told) /\ DOMAIN observerQueue = 1..Len(observerQueue)
      /\ Len(told) \in Nat /\ Len(observerQueue) \in Nat
  BY Constants DEF TypeInv, TypeOK, ObsOK
<1>b. SavedWrites /\ ToldInv /\ SavedWrites'
  BY Zenon, SavedWritesStep DEF EventInv
<1>c. /\ \A i \in DOMAIN told : told[i] \in Requests
      /\ \A i \in DOMAIN observerQueue : observerQueue[i] # Sentinel => observerQueue[i] \in Requests
  BY <1>a
<1>d. /\ \A r \in Requests : Done(r) => Done(r)'
      /\ \A q, r \in Requests : Done(q) /\ Done(r) /\ Before(q, r) => Before(q, r)'
  BY Zenon, DoneStays
<1>1. CASE UNCHANGED <<observerQueue, told>>
  BY Zenon, <1>b, <1>c, <1>d, <1>1 DEF ToldInv, EventInv
<1>2. CASE observerQueue' = Append(observerQueue, Sentinel) /\ told' = told
  <2>1. /\ DOMAIN observerQueue' = 1..(Len(observerQueue) + 1)
        /\ observerQueue'[Len(observerQueue) + 1] = Sentinel
        /\ \A i \in DOMAIN observerQueue : observerQueue'[i] = observerQueue[i]
    BY <1>a, <1>2
  <2>2. \A i \in DOMAIN observerQueue' : observerQueue'[i] # Sentinel => i \in DOMAIN observerQueue
    BY <1>a, <2>1
  <2> QED BY Zenon, <1>b, <1>c, <1>d, <1>2, <2>1, <2>2 DEF ToldInv, EventInv
<1>3. ASSUME NEW g \in Gens, ObsTake(g) PROVE EventInv'
  <2> DEFINE event == Head(observerQueue)
  <2>1. /\ observerQueue # << >> /\ observerQueue' = Tail(observerQueue)
        /\ IF event = Sentinel THEN told' = told ELSE told' = Append(told, event)
    BY Zenon, <1>3 DEF ObsTake
  <2>2. /\ DOMAIN observerQueue' = 1..(Len(observerQueue) - 1) /\ event = observerQueue[1]
        /\ 1 \in DOMAIN observerQueue
        /\ \A i \in DOMAIN observerQueue' : /\ observerQueue'[i] = observerQueue[i + 1]
                                            /\ i + 1 \in DOMAIN observerQueue /\ 1 < i + 1
    BY <1>a, <2>1
  <2>3. \A i, j \in DOMAIN observerQueue' : i < j => i + 1 < j + 1
    BY <1>a, <2>2
  <2>4. CASE event = Sentinel
    BY <1>b, <1>c, <1>d, <2>1, <2>2, <2>3, <2>4 DEF ToldInv, EventInv
  <2>5. CASE event # Sentinel
    <3> HIDE DEF event
    <3>e. PICK e \in Requests : e = event
      BY Zenon, <1>a, <1>c, <2>2, <2>5
    <3>1. /\ DOMAIN told' = 1..(Len(told) + 1) /\ told'[Len(told) + 1] = e
          /\ \A i \in DOMAIN told : told'[i] = told[i]
      BY <1>a, <2>1, <2>5, <3>e
    <3>2. \A i \in DOMAIN told' : i \in DOMAIN told \/ i = Len(told) + 1
      BY <1>a, <3>1
    <3>3. \A i, j \in DOMAIN told' : i < j => i \in DOMAIN told
      BY <1>a, <3>1
    <3>4. /\ Done(e) /\ \A i \in DOMAIN told : Before(told[i], e)
          /\ \A i \in DOMAIN observerQueue' : observerQueue'[i] # Sentinel => Before(e, observerQueue'[i])
      BY Zenon, <1>b, <2>2, <2>5, <3>e DEF ToldInv
    <3>5. /\ \A i \in DOMAIN told' : told'[i] \in Requests /\ Done(told'[i])
          /\ \A i \in DOMAIN observerQueue' : observerQueue'[i] # Sentinel =>
               observerQueue'[i] \in Requests /\ Done(observerQueue'[i])
      BY Zenon, <1>b, <1>c, <2>2, <3>1, <3>2, <3>4 DEF ToldInv
    <3>6. /\ \A i, j \in DOMAIN told' : i < j => Before(told'[i], told'[j])
          /\ \A i \in DOMAIN told', j \in DOMAIN observerQueue' :
               observerQueue'[j] # Sentinel => Before(told'[i], observerQueue'[j])
      BY <1>b, <2>2, <3>1, <3>2, <3>3, <3>4 DEF ToldInv
    <3>7. \A i, j \in DOMAIN observerQueue' :
            i < j /\ observerQueue'[i] # Sentinel /\ observerQueue'[j] # Sentinel =>
              Before(observerQueue'[i], observerQueue'[j])
      BY Zenon, <1>b, <2>2, <2>3 DEF ToldInv
    <3> QED BY Zenon, <1>b, <1>d, <3>5, <3>6, <3>7 DEF ToldInv, EventInv
  <2> QED BY Zenon, <2>4, <2>5
<1>4. ASSUME NEW g \in Gens, LoopNotify(g) PROVE EventInv'
  <2>1. /\ procPc[g] = "publish" /\ UNCHANGED <<queue, mutation, applied, told>>
        /\ env'[g] = None /\ \A h \in Gens : h # g => env'[h] = env[h]
        /\ observerQueue' = observerQueue \/ observerQueue' = Append(observerQueue, env[g])
    BY Zenon, <1>4, <1>a DEF LoopNotify, Resumes, NextEnvelope, ProcOK
  <2>e. PICK e \in Requests : e = env[g] /\ mutation[e] # None
    BY <1>a, <2>1 DEF EnvOK, ProcOK, BusyPc
  <2>2. \A h \in Gens : h # g => env[h] = None
    <3>1. g \in LiveProc
      BY Zenon, <2>1 DEF LiveProc
    <3> QED BY Zenon, <1>a, <3>1, OneBusy DEF Busy, EnvOK
  <2>3. e \notin Range(queue) /\ (Writes(e) => applied # << >> /\ Final(applied) = e)
    BY Zenon, <2>1, <2>e DEF RequestInv, Served, Busy, BusyPc
  <2>4. Done(e)'
    BY <1>a, <2>1, <2>2, <2>3, <2>e, FinalInRange, Constants DEF Done, Writes
  <2>5. ASSUME NEW q \in Requests, Done(q) PROVE Before(q, e)'
    <3>1. q # e
      BY Zenon, <2>5, <2>e DEF Done
    <3>2. ASSUME NEW k \in DOMAIN applied, NEW l \in DOMAIN applied, applied[k] = q, applied[l] = e
          PROVE  k < l
      <4>1. Writes(e) /\ Injective(applied)
        BY Zenon, <1>b, <3>2 DEF SavedWrites, RequestInv, ReplyMatchesEffect, Injective, Range
      <4>2. l = Len(applied) /\ k # l /\ k \in 1..Len(applied) /\ Len(applied) \in Nat
        BY <1>a, <2>3, <3>1, <3>2, <4>1 DEF Injective, Final
      <4> QED BY <4>2
    <3> QED BY Zenon, <2>1, <3>1, <3>2 DEF Before
  <2>6. CASE observerQueue' = observerQueue
    BY Zenon, <1>1, <2>1, <2>6
  <2>7. CASE observerQueue' = Append(observerQueue, env[g])
    <3>1. /\ DOMAIN observerQueue' = 1..(Len(observerQueue) + 1)
          /\ observerQueue'[Len(observerQueue) + 1] = e
          /\ \A i \in DOMAIN observerQueue : observerQueue'[i] = observerQueue[i]
      BY <1>a, <2>7, <2>e
    <3>2. /\ \A i \in DOMAIN observerQueue' : i \in DOMAIN observerQueue \/ i = Len(observerQueue) + 1
          /\ \A i, j \in DOMAIN observerQueue' : i < j => i \in DOMAIN observerQueue
      BY <1>a, <3>1
    <3>3. /\ \A i \in DOMAIN told : Done(told[i]) /\ told[i] \in Requests
          /\ \A i \in DOMAIN observerQueue : observerQueue[i] # Sentinel =>
               Done(observerQueue[i]) /\ observerQueue[i] \in Requests
      BY Zenon, <1>b, <1>c DEF ToldInv
    <3>4. /\ \A i, j \in DOMAIN told : i < j => Before(told[i], told[j])
          /\ \A i \in DOMAIN told, j \in DOMAIN observerQueue :
               observerQueue[j] # Sentinel => Before(told[i], observerQueue[j])
          /\ \A i, j \in DOMAIN observerQueue :
               i < j /\ observerQueue[i] # Sentinel /\ observerQueue[j] # Sentinel =>
                 Before(observerQueue[i], observerQueue[j])
      BY Zenon, <1>b DEF ToldInv
    <3> QED BY Zenon, <1>b, <1>d, <2>1, <2>4, <2>5, <3>1, <3>2, <3>3, <3>4 DEF ToldInv, EventInv
  <2> QED BY Zenon, <2>1, <2>6, <2>7
<1> QED BY <1>1, <1>2, <1>3, <1>4, EventKinds

(* Observers are told of successful mutations only, each at most once, and *)
(* in the order of the writes, for every behaviour of the engine.          *)
THEOREM ToldAlwaysInOrder == Spec => []ToldInOrder
<1>1. Init => LifeInv
  BY DEF Init, LifeInv, LiveProc
<1>2. Init => RequestInv /\ EventInv
  BY Zenon, RequestInit, EventInit
<1>3. TypeInv /\ LifeInv /\ RequestInv /\ EventInv /\ [Next]_vars => RequestInv' /\ EventInv'
  BY Zenon, RequestStep, EventStep, TypeStep
<1>4. TypeInv /\ EventInv => ToldInOrder
  <2> SUFFICES ASSUME TypeInv, EventInv PROVE ToldInOrder
    BY Zenon
  <2>1. DOMAIN told = 1..Len(told) /\ Len(told) \in Nat
    BY DEF TypeInv, TypeOK, ObsOK
  <2>2. \A i, j \in DOMAIN told : i # j => i < j \/ j < i
    BY <2>1
  <2> QED BY Zenon, <2>2 DEF EventInv, ToldInv, Done, Before, ToldInOrder
<1> QED BY <1>1, <1>2, <1>3, <1>4, InitTypeInv, TypeStep, LifeStep, PTL DEF Spec


----------------------------------------------------------------------------
(* What a drain holds.  While nobody has given the engine up, _in_flight   *)
(* is the envelope the loop works on; a loop is cancelled by the drain     *)
(* only, which remembers its envelope; and an envelope whose event is      *)
(* being published is answered.  Some of this is lost when an awaited call *)
(* swallows the CancelledError and the loop goes on to other envelopes:    *)
(* here no call does.                                                      *)
Obeys == "ignore_cancel" \notin Faults

FlightInv ==
  /\ stopPc # "idle" => ~unrestartable
  /\ \A g \in Gens : Busy(g) /\ ~unrestartable => inFlight = env[g]
  /\ (\A g \in Gens : ~Busy(g)) => inFlight = None

CancelInv ==
  /\ \A g \in Gens : Proc(g) \in cancelling => stopPc = "reapProcessing" /\ saved = env[g]
  /\ stopPc = "reapProcessing" =>
       /\ processingTask \in LiveProc => Proc(processingTask) \in cancelling
       /\ procPc[processingTask] \in {"died", "exited"} => saved = None

PublishedIsAnswered == \A g \in Gens : procPc[g] = "publish" => reply[env[g]].code # "pending"

HoldInv == FlightInv /\ CancelInv /\ PublishedIsAnswered /\ PendingIsHeld

(* It holds initially.                                                     *)
LEMMA HoldInit == Init => HoldInv
<1>1. Init => FlightInv /\ CancelInv /\ PublishedIsAnswered
  BY Zenon DEF Init, FlightInv, CancelInv, PublishedIsAnswered, Busy, BusyPc
<1>2. Init => PendingIsHeld
  BY DEF Init, PendingIsHeld
<1> QED BY Zenon, <1>1, <1>2 DEF HoldInv

(* The steps that take no envelope from anyone.                            *)
CalmLoops ==
  /\ \A g \in Gens : /\ Busy(g)' <=> Busy(g)
                     /\ g \in LiveProc' <=> g \in LiveProc
                     /\ procPc'[g] \in {"died", "exited"} => procPc[g] \in {"died", "exited"}
                     /\ procPc'[g] = "publish" => procPc[g] = "publish"
                     /\ Proc(g) \in cancelling' <=> Proc(g) \in cancelling
  /\ UNCHANGED <<queue, inFlight, env, saved>>

CalmStop ==
  /\ stopPc' = "reapProcessing" <=> stopPc = "reapProcessing"
  /\ stopPc' = "reapProcessing" => processingTask' = processingTask /\ processingTask \in Gens
  /\ stopPc' # "idle" => ~unrestartable'
  /\ unrestartable => unrestartable'

CalmReplies == \A r \in Requests : reply'[r].code = "pending" => reply[r].code = "pending"

(* They keep it.                                                           *)
LEMMA CalmKeepsHold ==
  ASSUME ProcOK, EnvOK, HoldInv, CalmLoops, CalmStop, CalmReplies
  PROVE  HoldInv'
<1>a. FlightInv /\ CancelInv /\ PublishedIsAnswered /\ PendingIsHeld
  BY Zenon DEF HoldInv
<1>1. FlightInv'
  BY Zenon, <1>a DEF FlightInv, CalmLoops, CalmStop
<1>2. CancelInv'
  BY Zenon, <1>a DEF CancelInv, CalmLoops, CalmStop
<1>3. PublishedIsAnswered'
  BY Zenon, <1>a DEF PublishedIsAnswered, CalmLoops, CalmReplies, EnvOK, ProcOK, BusyPc
<1>4. PendingIsHeld'
  BY Zenon, <1>a DEF PendingIsHeld, CalmLoops, CalmStop, CalmReplies, LiveProc
<1> QED BY Zenon, <1>1, <1>2, <1>3, <1>4 DEF HoldInv


(* Callers that give up, observers, stuttering ...                         *)
LEMMA BystandersKeepHold ==
  ASSUME TypeInv, HoldInv,
         ObserverNext \/ UNCHANGED vars \/ \E r \in Requests : CallerGone(r)
  PROVE  HoldInv'
<1>a. CallOK /\ ProcOK /\ EnvOK /\ HandleOK
  BY Zenon DEF TypeInv, TypeOK
<1>1. /\ UNCHANGED <<queue, inFlight, env, saved, procPc, stopPc, processingTask, unrestartable>>
      /\ \A g \in Gens : Proc(g) \in cancelling' <=> Proc(g) \in cancelling
      /\ \A r \in Requests : reply'[r].code = "pending" => reply[r].code = "pending"
  <2>1. CASE ObserverNext
    BY Zenon, <2>1 DEF ObserverNext, ObsTake, ObsReturn, ObsDies, ObsCancelled, ObsIgnoresCancel, callVars,
       procVars, stopVars, lifeVars, Proc, Obs
  <2>2. CASE UNCHANGED vars
    BY Zenon, <2>2 DEF vars, callVars, procVars, stopVars, lifeVars
  <2>3. ASSUME NEW x \in Requests, CallerGone(x)
        PROVE /\ UNCHANGED <<queue, inFlight, env, saved, procPc, stopPc, processingTask, unrestartable,
                             cancelling>>
              /\ \A r \in Requests : reply'[r].code = "pending" => reply[r].code = "pending"
    BY Zenon, <2>3, <1>a DEF CallerGone, procVars, stopVars, lifeVars, CallOK, Reply
  <2> QED BY Zenon, <2>1, <2>2, <2>3
<1>2. CalmLoops
  BY Zenon, <1>1 DEF CalmLoops, Busy, LiveProc
<1>3. CalmStop
  BY Zenon, <1>1, <1>a DEF CalmStop, HandleOK, HoldInv, FlightInv
<1> QED BY Zenon, <1>a, <1>1, <1>2, <1>3, CalmKeepsHold DEF CalmReplies

(* ... the plan and the write of a row ...                                 *)
LEMMA WritesKeepHold ==
  ASSUME TypeInv, HoldInv, NEW g \in Gens, LoopPlan(g) \/ StoreCommit(g)
  PROVE  HoldInv'
<1>a. ProcOK /\ EnvOK /\ HandleOK
  BY Zenon DEF TypeInv, TypeOK
<1>1. /\ UNCHANGED <<queue, inFlight, env, saved, cancelling, stopPc, processingTask, unrestartable, reply>>
      /\ procPc[g] \in {"dispatch", "save"} /\ procPc'[g] \in {"save", "saved"}
      /\ \A h \in Gens : h # g => procPc'[h] = procPc[h]
  BY Zenon, <1>a DEF LoopPlan, StoreCommit, Resumes, callVars, stopVars, lifeVars, ProcOK
<1>2. CalmLoops
  BY Zenon, <1>1 DEF CalmLoops, Busy, BusyPc, LiveProc
<1>3. CalmStop
  BY Zenon, <1>1, <1>a DEF CalmStop, HandleOK, HoldInv, FlightInv
<1> QED BY Zenon, <1>a, <1>1, <1>2, <1>3, CalmKeepsHold DEF CalmReplies

(* ... and most of start(), stop() and the deadlines ...                   *)
CalmStopNext ==
  \/ StartRollback \/ StopBegin \/ BudgetExpires \/ StopProcessingDrained \/ StopPutSentinel
  \/ StopObserverDrained \/ StopObserverTimeout \/ StopObserverReaped
  \/ HardDeadline \/ StopCancelForwarded \/ (StopAborted /\ stopPc # "drainProcessing")

(* ... keep it.                                                            *)
LEMMA StopKeepsHold ==
  ASSUME TypeInv, LifeInv, HoldInv, CalmStopNext
  PROVE  HoldInv'
<1>a. ProcOK /\ EnvOK /\ HandleOK /\ FlightInv /\ CancelInv /\ StopOK
  BY Zenon DEF TypeInv, TypeOK, HoldInv
<1>1. UNCHANGED <<queue, inFlight, env, saved, procPc, reply>>
  BY Zenon DEF CalmStopNext, StartRollback, StopBegin, BudgetExpires, StopProcessingDrained, StopPutSentinel,
     StopObserverDrained, StopObserverTimeout, StopObserverReaped, HardDeadline, StopCancelForwarded,
     StopAborted, StopUnchanged, callVars, procVars, stopVars
<1>2. \A g \in Gens : Proc(g) \in cancelling' <=> Proc(g) \in cancelling
  <2>1. CASE HardDeadline \/ StopCancelForwarded
    <3>1. AwaitedLive /\ cancelling' = cancelling \cup {Awaited}
      BY Zenon, <2>1 DEF HardDeadline, StopCancelForwarded
    <3>2. CASE stopPc = "reapProcessing"
      BY Zenon, <1>a, <3>1, <3>2 DEF AwaitedLive, Awaited, CancelInv
    <3>3. CASE stopPc # "reapProcessing"
      BY Zenon, <3>1, <3>3 DEF Awaited, Proc, Obs
    <3> QED BY Zenon, <3>2, <3>3
  <2>2. CASE StopObserverTimeout
    BY Zenon, <2>2 DEF StopObserverTimeout, Proc, Obs
  <2>3. CASE ~(HardDeadline \/ StopCancelForwarded \/ StopObserverTimeout)
    <3>1. cancelling' = cancelling
      BY Zenon, <2>3 DEF CalmStopNext, StartRollback, StopBegin, BudgetExpires, StopProcessingDrained, StopPutSentinel,
         StopObserverDrained, StopObserverReaped, StopAborted, StopUnchanged
    <3> QED BY Zenon, <3>1
  <2> QED BY Zenon, <2>1, <2>2, <2>3
<1>3. CalmStop
  <2>1. CASE StartRollback
    BY Zenon, <2>1, <1>a DEF StartRollback, StartMayProceed, CalmStop, stopVars
  <2>2. CASE StopBegin
    BY Zenon, <2>2 DEF StopBegin, CalmStop, LifeInv
  <2>3. CASE BudgetExpires \/ HardDeadline \/ StopCancelForwarded
    BY <2>3, <1>a DEF BudgetExpires, HardDeadline, StopCancelForwarded, CalmStop, lifeVars, stopVars,
       HandleOK, FlightInv
  <2>4. CASE \/ StopProcessingDrained \/ StopPutSentinel \/ StopObserverDrained \/ StopObserverTimeout
             \/ StopObserverReaped
    BY <2>4, <1>a DEF StopProcessingDrained, StopPutSentinel, StopObserverDrained, StopObserverTimeout,
       StopObserverReaped, CalmStop, lifeVars, FlightInv
  <2>5. CASE StopAborted /\ stopPc # "drainProcessing"
    BY Zenon, <2>5 DEF StopAborted, CalmStop
  <2> QED BY <2>1, <2>2, <2>3, <2>4, <2>5 DEF CalmStopNext
<1>4. CalmLoops
  BY Zenon, <1>1, <1>2 DEF CalmLoops, Busy, LiveProc
<1> QED BY <1>a, <1>1, <1>3, <1>4, CalmKeepsHold DEF CalmReplies


(* submit() keeps it: the new envelope is queued.                          *)
LEMMA SubmitKeepsHold ==
  ASSUME TypeInv, RequestInv, HoldInv, NEW r \in Requests, NEW m \in Mutations, Submit(r, m)
  PROVE  HoldInv'
<1>a. CallOK /\ ProcOK /\ EnvOK /\ FlightInv /\ CancelInv /\ PublishedIsAnswered /\ PendingIsHeld
  BY Zenon DEF TypeInv, TypeOK, HoldInv
<1>1. /\ UNCHANGED <<inFlight, env, saved, procPc, stopPc, processingTask, unrestartable, cancelling>>
      /\ mutation[r] = None
      /\ \A q \in Requests : q # r => reply'[q] = reply[q]
  BY Zenon, <1>a DEF Submit, procVars, stopVars, lifeVars, CallOK, RequestInv, Sent
<1>2. Range(queue) \subseteq Range(queue') /\ (reply'[r].code = "pending" => r \in Range(queue'))
  <2> DEFINE code == IF ~running THEN "not_running"
                     ELSE IF Full(queue, MaxQueue) THEN "queue_full" ELSE "pending"
  <2>1. /\ reply' = [reply EXCEPT ![r].code = code]
        /\ queue' = IF code = "pending" THEN Append(queue, r) ELSE queue
    BY Zenon DEF Submit
  <2> HIDE DEF code
  <2>2. reply'[r].code = code
    BY Zenon, <1>a, <2>1 DEF CallOK, Reply
  <2>3. CASE code = "pending"
    BY <1>a, <2>1, <2>3, RangeAppend DEF CallOK
  <2>4. CASE code # "pending"
    BY Zenon, <2>1, <2>2, <2>4
  <2> QED BY Zenon, <2>3, <2>4
<1>3. FlightInv' /\ CancelInv'
  BY Zenon, <1>a, <1>1 DEF FlightInv, CancelInv, Busy, LiveProc
<1>4. \A g \in Gens : procPc[g] = "publish" => env[g] \in Requests /\ env[g] # r
  BY Zenon, <1>a, <1>1 DEF EnvOK, ProcOK, BusyPc
<1>5. PublishedIsAnswered'
  BY Zenon, <1>a, <1>1, <1>4 DEF PublishedIsAnswered
<1>6. PendingIsHeld'
  BY Zenon, <1>a, <1>1, <1>2 DEF PendingIsHeld, LiveProc
<1> QED BY Zenon, <1>3, <1>5, <1>6 DEF HoldInv

(* A loop that resumes is not awaited by a drain that cancelled it.        *)
LEMMA ResumesUncancelled ==
  ASSUME TypeInv, LifeInv, HoldInv, NEW g \in LiveProc, Proc(g) \notin cancelling
  PROVE  stopPc # "reapProcessing" /\ \A h \in Gens : Proc(h) \notin cancelling
<1>1. g \in Gens /\ g = starts
  BY Zenon DEF LiveProc, LifeInv
<1>2. stopPc = "reapProcessing" => processingTask = g
  BY Zenon, <1>1 DEF LifeInv
<1>3. stopPc # "reapProcessing"
  BY Zenon, <1>2 DEF HoldInv, CancelInv
<1> QED BY Zenon, <1>3 DEF HoldInv, CancelInv

(* Taking an envelope, or finding none and leaving, keeps it ...           *)
LEMMA PollKeepsHold ==
  ASSUME TypeInv, LifeInv, HoldInv, NEW g \in Gens, LoopTake(g) \/ LoopExit(g)
  PROVE  HoldInv'
<1>a. CallOK /\ ProcOK /\ EnvOK /\ FlightInv /\ PublishedIsAnswered /\ PendingIsHeld
  BY Zenon DEF TypeInv, TypeOK, HoldInv
<1>b. /\ UNCHANGED <<saved, stopPc, unrestartable, cancelling, reply>>
      /\ procPc[g] = "poll" /\ Proc(g) \notin cancelling
      /\ \A h \in Gens : h # g => procPc'[h] = procPc[h] /\ env'[h] = env[h]
  BY Zenon, <1>a DEF LoopTake, LoopExit, Resumes, stopVars, lifeVars, callVars, ProcOK
<1>c. g \in LiveProc /\ env[g] = None
  BY Zenon, <1>a, <1>b DEF LiveProc, EnvOK, BusyPc
<1>d. stopPc # "reapProcessing" /\ \A h \in Gens : Proc(h) \notin cancelling
  BY Zenon, <1>b, <1>c, ResumesUncancelled
<1>e. \A h \in Gens : ~Busy(h) /\ (h \in LiveProc => h = g)
  BY Zenon, <1>b, <1>c, OneBusy DEF Busy, BusyPc, LifeInv
<1>f. \A r \in Requests : reply[r].code = "pending" => r \in Range(queue)
  BY Zenon, <1>a, <1>c, <1>d, <1>e, Constants DEF PendingIsHeld, LiveProc
<1>1. CancelInv'
  BY Zenon, <1>b, <1>d DEF CancelInv
<1>2. PublishedIsAnswered' /\ FlightInv' /\ PendingIsHeld'
  <2>1. CASE LoopTake(g)
    <3>1. /\ procPc'[g] = "dispatch" /\ env'[g] = Head(queue) /\ inFlight' = Head(queue)
          /\ Range(queue) = Range(queue') \cup {Head(queue)} /\ g \in LiveProc'
      BY Zenon, <2>1, <1>a, RangeTail DEF LoopTake, ProcOK, CallOK, LiveProc
    <3>2. PublishedIsAnswered'
      BY Zenon, <1>b, <1>e, <3>1 DEF PublishedIsAnswered, Busy, BusyPc
    <3>3. FlightInv'
      BY Zenon, <1>a, <1>b, <1>e, <3>1 DEF FlightInv, Busy, BusyPc
    <3>4. PendingIsHeld'
      BY Zenon, <1>b, <1>f, <3>1 DEF PendingIsHeld
    <3> QED BY Zenon, <3>2, <3>3, <3>4
  <2>2. CASE LoopExit(g)
    <3>1. /\ procPc'[g] = "exited" /\ UNCHANGED <<env, queue, inFlight>>
      BY Zenon, <2>2, <1>a DEF LoopExit, ProcOK, callVars
    <3>2. PublishedIsAnswered' /\ FlightInv'
      BY Zenon, <1>a, <1>b, <1>e, <3>1 DEF PublishedIsAnswered, FlightInv, Busy, BusyPc
    <3>3. PendingIsHeld'
      BY Zenon, <1>b, <1>f, <3>1 DEF PendingIsHeld
    <3> QED BY Zenon, <3>2, <3>3
  <2> QED BY Zenon, <2>1, <2>2
<1> QED BY Zenon, <1>1, <1>2 DEF HoldInv


(* ... ending with one ...                                                 *)
LoopEnds(g) == \/ LoopReject(g) \/ LoopNoop(g) \/ LoopComplete(g) \/ LoopNotify(g)
               \/ LoopStoreError(g) \/ LoopDies(g)

(* ... keeps it: its future is resolved ...                                *)
LEMMA EndsKeepHold ==
  ASSUME TypeInv, LifeInv, HoldInv, NEW g \in Gens, LoopEnds(g)
  PROVE  HoldInv'
<1>a. CallOK /\ ProcOK /\ EnvOK /\ FlightInv /\ PublishedIsAnswered /\ PendingIsHeld
  BY Zenon DEF TypeInv, TypeOK, HoldInv
<1>b. /\ UNCHANGED <<queue, saved, stopPc, unrestartable, cancelling>>
      /\ procPc[g] \in BusyPc /\ Proc(g) \notin cancelling
      /\ \A h \in Gens : h # g => procPc'[h] = procPc[h] /\ env'[h] = env[h]
      /\ \/ procPc'[g] \in {"poll", "died"} /\ env'[g] = None /\ inFlight' = None
         \/ procPc'[g] = "publish" /\ env'[g] = env[g] /\ inFlight' = inFlight
  BY Zenon, <1>a DEF LoopEnds, LoopReject, LoopNoop, LoopComplete, LoopNotify, LoopStoreError, LoopDies,
     NextEnvelope, Resumes, stopVars, lifeVars, callVars, ProcOK, BusyPc
<1>c. g \in LiveProc /\ env[g] \in Requests
  BY Zenon, <1>a, <1>b, BusyType DEF LiveProc, BusyPc
<1>d. stopPc # "reapProcessing" /\ \A h \in Gens : Proc(h) \notin cancelling
  BY Zenon, <1>b, <1>c, ResumesUncancelled
<1>e. \A h \in Gens : h # g => ~Busy(h) /\ h \notin LiveProc
  BY Zenon, <1>c, OneBusy DEF LifeInv
<1>f. /\ \A q \in Requests : q # env[g] => reply'[q] = reply[q]
      /\ reply'[env[g]].code # "pending"
  <2>1. CASE LoopNotify(g)
    BY Zenon, <2>1, <1>a, <1>c DEF LoopNotify, Resumes, PublishedIsAnswered
  <2>2. CASE ~LoopNotify(g)
    <3>1. \E c \in ReplyCode \ {"pending"} : \E v : Answer(env[g], c, v)
      BY <2>2, Zenon DEF LoopEnds, LoopReject, LoopNoop, LoopComplete, LoopStoreError, LoopDies, ReplyCode
    <3> QED BY Zenon, <1>a, <1>c, <3>1, AnswerOnce
  <2> QED BY Zenon, <2>1, <2>2
<1>1. CancelInv'
  BY Zenon, <1>b, <1>d DEF CancelInv
<1>2. PublishedIsAnswered'
  BY Zenon, <1>b, <1>e, <1>f DEF PublishedIsAnswered, Busy, BusyPc
<1>3. FlightInv'
  BY Zenon, <1>a, <1>b, <1>e DEF FlightInv, Busy, BusyPc
<1>4. \A r \in Requests : reply'[r].code = "pending" => r \in Range(queue)
  BY Zenon, <1>a, <1>d, <1>e, <1>f DEF PendingIsHeld, LiveProc
<1>5. PendingIsHeld'
  BY Zenon, <1>b, <1>4 DEF PendingIsHeld
<1> QED BY Zenon, <1>1, <1>2, <1>3, <1>5 DEF HoldInv

(* ... or its loop is cancelled, and the drain remembers it.               *)
LEMMA CancelledKeepsHold ==
  ASSUME TypeInv, LifeInv, HoldInv, NEW g \in Gens, LoopCancelled(g)
  PROVE  HoldInv'
<1>a. CallOK /\ ProcOK /\ EnvOK /\ LoopsOK /\ FlightInv /\ CancelInv /\ PublishedIsAnswered /\ PendingIsHeld
  BY Zenon DEF TypeInv, TypeOK, HoldInv
<1>b. /\ UNCHANGED <<queue, saved, stopPc, unrestartable, reply, processingTask>> /\ Proc(g) \in cancelling
      /\ procPc'[g] = "cancelled" /\ env'[g] = None
      /\ \A h \in Gens : h # g => procPc'[h] = procPc[h] /\ env'[h] = env[h]
      /\ inFlight' = IF env[g] = None THEN inFlight ELSE None
      /\ cancelling' = cancelling \ {Proc(g)}
  BY Zenon, <1>a DEF LoopCancelled, stopVars, lifeVars, ProcOK
<1>c. g \in LiveProc /\ stopPc = "reapProcessing" /\ saved = env[g] /\ processingTask = g
  BY Zenon, <1>a, <1>b DEF LoopsOK, CancelInv, LifeInv
<1>e. \A h \in Gens : h # g => ~Busy(h) /\ h \notin LiveProc
  BY Zenon, <1>c, OneBusy DEF LifeInv
<1>1. CancelInv'
  BY Zenon, <1>a, <1>b, <1>c, <1>e DEF CancelInv, LiveProc, LoopsOK
<1>2. PublishedIsAnswered'
  BY Zenon, <1>b, <1>e DEF PublishedIsAnswered, Busy, BusyPc
<1>3. FlightInv'
  BY Zenon, <1>a, <1>b, <1>e DEF FlightInv, Busy, BusyPc, EnvOK
<1>4. PendingIsHeld'
  BY Zenon, <1>a, <1>b, <1>c, <1>e DEF PendingIsHeld, LiveProc
<1> QED BY Zenon, <1>1, <1>2, <1>3, <1>4 DEF HoldInv


(* start() keeps it ...                                                    *)
LEMMA StartKeepsHold ==
  ASSUME TypeInv, LifeInv, HoldInv, Start
  PROVE  HoldInv'
<1>a. ProcOK /\ EnvOK /\ LoopsOK /\ LifeOK /\ FlightInv /\ CancelInv /\ PublishedIsAnswered /\ PendingIsHeld
  BY Zenon DEF TypeInv, TypeOK, HoldInv
<1>1. starts + 1 \in Gens /\ procPc[starts + 1] = "none" /\ procPc' = [procPc EXCEPT ![starts + 1] = "poll"]
  BY <1>a, Constants DEF Start, LifeOK, LoopsOK, Gens
<1>2. /\ UNCHANGED <<queue, inFlight, reply, env, saved, stopPc, unrestartable, cancelling>>
      /\ stopPc = "idle"
  BY Zenon DEF Start, StartMayProceed, callVars, stopVars
<1>3. \A g \in Gens : /\ Busy(g)' <=> Busy(g)
                      /\ procPc'[g] = "publish" => procPc[g] = "publish"
                      /\ g \in LiveProc => g \in LiveProc'
  BY Zenon, <1>a, <1>1 DEF Busy, BusyPc, LiveProc, ProcOK
<1>4. FlightInv' /\ CancelInv' /\ PublishedIsAnswered'
  BY Zenon, <1>a, <1>2, <1>3 DEF FlightInv, CancelInv, PublishedIsAnswered
<1>5. PendingIsHeld'
  BY Zenon, <1>a, <1>2, <1>3 DEF PendingIsHeld, LiveProc
<1> QED BY Zenon, <1>4, <1>5 DEF HoldInv

(* ... and so do the steps of stop() that end the processing loop, ...     *)
LEMMA DrainKeepsHold ==
  ASSUME TypeInv, LifeInv, HoldInv,
         StopProcessingDied \/ StopProcessingTimeout \/ StopProcessingReaped \/ StopProcessingReapedDead
  PROVE  HoldInv'
<1>a. /\ CallOK /\ ProcOK /\ EnvOK /\ LoopsOK /\ HandleOK
      /\ FlightInv /\ CancelInv /\ PublishedIsAnswered /\ PendingIsHeld
  BY Zenon DEF TypeInv, TypeOK, HoldInv
<1>b. /\ UNCHANGED <<procPc, env, unrestartable>>
      /\ stopPc \in {"drainProcessing", "reapProcessing"}
  BY Zenon DEF StopProcessingDied, StopProcessingTimeout, StopProcessingReaped, StopProcessingReapedDead,
     StopUnchanged, procVars, lifeVars
<1>c. /\ processingTask \in Gens /\ \A g \in LiveProc : g = processingTask
      /\ ~unrestartable
  BY Zenon, <1>a, <1>b DEF HandleOK, LifeInv, FlightInv
<1>1. CASE StopProcessingTimeout
  <2>1. /\ UNCHANGED <<queue, inFlight, reply, processingTask>> /\ stopPc = "drainProcessing"
        /\ saved' = inFlight /\ stopPc' = "reapProcessing"
        /\ cancelling' = IF processingTask \in LiveProc
                           THEN cancelling \cup {Proc(processingTask)} ELSE cancelling
    BY Zenon, <1>1 DEF StopProcessingTimeout, lifeVars
  <2>2. inFlight = IF processingTask \in LiveProc THEN env[processingTask] ELSE None
    <3>1. CASE processingTask \in LiveProc /\ Busy(processingTask)
      BY Zenon, <1>a, <1>c, <3>1 DEF FlightInv
    <3>2. CASE ~(processingTask \in LiveProc /\ Busy(processingTask))
      <4>1. \A g \in Gens : ~Busy(g)
        BY Zenon, <1>c, <3>2 DEF Busy, BusyPc, LiveProc
      <4> QED BY Zenon, <1>a, <1>c, <4>1 DEF FlightInv, EnvOK, Busy
    <3> QED BY Zenon, <3>1, <3>2
  <2>3. FlightInv' /\ PublishedIsAnswered'
    BY Zenon, <1>a, <1>b, <1>c, <2>1 DEF FlightInv, PublishedIsAnswered, Busy
  <2>4. \A g \in Gens : Proc(g) \in cancelling' => g = processingTask /\ g \in LiveProc
    BY Zenon, <1>a, <2>1 DEF CancelInv, Proc
  <2>5. CancelInv'
    BY Zenon, <1>b, <1>c, <2>1, <2>2, <2>4 DEF CancelInv, LiveProc
  <2>6. PendingIsHeld'
    BY Zenon, <1>a, <1>b, <2>1 DEF PendingIsHeld, LiveProc
  <2> QED BY Zenon, <2>3, <2>5, <2>6 DEF HoldInv
<1>2. CASE ~StopProcessingTimeout
  <2>1. procPc[processingTask] \in {"died", "cancelled", "exited"} /\ stopPc' # "reapProcessing"
        /\ cancelling' = cancelling
    BY Zenon, <1>2 DEF StopProcessingDied, StopProcessingReaped, StopProcessingReapedDead
  <2>2. LiveProc = {} /\ LiveProc' = {} /\ \A g \in Gens : ~Busy(g) /\ ~Busy(g)'
    BY Zenon, <1>b, <1>c, <2>1 DEF LiveProc, Busy, BusyPc
  <2>3. inFlight = None /\ \A g \in Gens : Proc(g) \notin cancelling
    BY Zenon, <1>a, <2>2 DEF FlightInv, LoopsOK
  <2>4. inFlight' = None /\ (queue' = << >> \/ (queue' = queue /\ reply' = reply /\ saved = None))
    BY Zenon, <1>2, <1>a, <2>3 DEF StopProcessingDied, StopProcessingReaped, StopProcessingReapedDead,
       FailRemainingFutures, AbortFutures, CancelInv
  <2>5. FlightInv' /\ CancelInv' /\ PublishedIsAnswered'
    BY Zenon, <1>b, <1>c, <2>1, <2>2, <2>3, <2>4 DEF FlightInv, CancelInv, PublishedIsAnswered, Busy, BusyPc
  <2>6. \A r \in Requests : reply[r].code = "pending" => r \in Range(queue) \/ (stopPc = "reapProcessing" /\ saved = r)
    BY Zenon, <1>a, <2>2 DEF PendingIsHeld
  <2>7. PendingIsHeld'
    <3>1. CASE StopProcessingReapedDead
      <4>1. saved = None /\ UNCHANGED <<queue, reply>>
        BY Zenon, <3>1, <1>a DEF StopProcessingReapedDead, CancelInv
      <4> QED BY Zenon, <2>6, <4>1, Constants DEF PendingIsHeld
    <3>2. CASE StopProcessingDied
      <4>1. stopPc = "drainProcessing" /\ FailRemainingFutures(inFlight)
        BY Zenon, <3>2 DEF StopProcessingDied
      <4>2. \A r \in Requests : reply'[r].code # "pending"
        BY Zenon, <1>a, <2>6, <4>1 DEF FailRemainingFutures, AbortFutures, CallOK
      <4> QED BY Zenon, <4>2 DEF PendingIsHeld
    <3>3. CASE StopProcessingReaped
      <4>1. FailRemainingFutures(saved)
        BY Zenon, <3>3 DEF StopProcessingReaped
      <4>2. \A r \in Requests : reply'[r].code # "pending"
        BY <1>a, <2>6, <4>1, Constants DEF FailRemainingFutures, AbortFutures, CallOK
      <4> QED BY Zenon, <4>2 DEF PendingIsHeld
    <3> QED BY <1>2, <3>1, <3>2, <3>3
  <2> QED BY Zenon, <2>5, <2>7 DEF HoldInv
<1> QED BY Zenon, <1>1, <1>2


(* ... and the one that gives the engine up while the loop lives.          *)
LEMMA AbortKeepsHold ==
  ASSUME TypeInv, LifeInv, HoldInv, StopAborted, stopPc = "drainProcessing"
  PROVE  HoldInv'
<1>a. /\ CallOK /\ ProcOK /\ EnvOK
      /\ FlightInv /\ CancelInv /\ PublishedIsAnswered /\ PendingIsHeld
  BY Zenon DEF TypeInv, TypeOK, HoldInv
<1>1. /\ FailRemainingFutures(inFlight) /\ UNCHANGED <<procPc, env, cancelling>>
      /\ unrestartable' /\ stopPc' = "idle"
  BY Zenon DEF StopAborted, StopUnchanged, procVars
<1>2. /\ inFlight' = None
      /\ \A r \in Requests : reply'[r].code = "pending" =>
           reply[r].code = "pending" /\ r \notin Range(queue)
  BY Zenon, <1>1, <1>a DEF FailRemainingFutures, AbortFutures, CallOK
<1>3. FlightInv' /\ CancelInv'
  BY Zenon, <1>a, <1>1, <1>2 DEF FlightInv, CancelInv
<1>4. PublishedIsAnswered'
  BY Zenon, <1>a, <1>1, <1>2 DEF PublishedIsAnswered, EnvOK, ProcOK, BusyPc
<1>5. PendingIsHeld'
  BY Zenon, <1>a, <1>1, <1>2 DEF PendingIsHeld, LiveProc
<1> QED BY Zenon, <1>3, <1>4, <1>5 DEF HoldInv

(* One step of the engine keeps it.                                        *)
LEMMA HoldStep ==
  ASSUME Obeys, TypeInv, LifeInv, RequestInv, HoldInv, [Next]_vars
  PROVE  HoldInv'
<1>1. CASE CallerNext \/ ObserverNext \/ UNCHANGED vars
  BY Zenon, <1>1, BystandersKeepHold, SubmitKeepsHold DEF CallerNext
<1>2. ASSUME NEW g \in Gens,
             LoopStep(g) \/ LoopStoreError(g) \/ LoopDies(g) \/ LoopCancelled(g) \/ LoopIgnoresCancel(g)
      PROVE  HoldInv'
  <2>1. ~LoopIgnoresCancel(g)
    BY Zenon DEF LoopIgnoresCancel, Obeys
  <2> QED BY <1>2, <2>1, PollKeepsHold, WritesKeepHold, EndsKeepHold, CancelledKeepsHold DEF LoopStep, LoopEnds
<1>3. CASE StopNext
  BY Zenon, <1>3, StopKeepsHold, StartKeepsHold, DrainKeepsHold, AbortKeepsHold DEF StopNext, StopStep, CalmStopNext
<1> QED BY Zenon, <1>1, <1>2, <1>3 DEF Next, CallerNext, ObserverNext, StopNext

(* No request is stranded: in every behaviour in which awaited calls let a *)
(* CancelledError through, a pending future belongs to an envelope that is *)
(* queued, served, or remembered by the drain.                             *)
THEOREM PendingAlwaysHeld ==
  ASSUME "ignore_cancel" \notin Faults
  PROVE  Spec => []PendingIsHeld
<1>1. Init => LifeInv
  BY DEF Init, LifeInv, LiveProc
<1>2. Init => RequestInv /\ HoldInv
  BY Zenon, RequestInit, HoldInit
<1>3. TypeInv /\ LifeInv /\ RequestInv /\ HoldInv /\ [Next]_vars => RequestInv' /\ HoldInv'
  BY Zenon, RequestStep, HoldStep DEF Obeys
<1>4. HoldInv => PendingIsHeld
  BY Zenon DEF HoldInv
<1> QED BY <1>1, <1>2, <1>3, <1>4, InitTypeInv, TypeStep, LifeStep, PTL DEF Spec

----------------------------------------------------------------------------
(* What stop() leaves behind: no queued envelope once the processing loop  *)
(* has drained the queue or its rest was failed, and no observer loop, if  *)
(* stop() went all the way.                                                *)
DrainedInv ==
  /\ running => procPc[processingTask] # "exited"
  /\ stopPc \in {"drainProcessing", "reapProcessing"} /\ procPc[processingTask] = "exited" => queue = << >>
  /\ stopPc \in {"putSentinel", "drainObserver", "reapObserver"} => queue = << >>
  /\ stopPc = "idle" /\ ~running /\ ~unrestartable /\ ~LoopDied => queue = << >>

ObserverInv ==
  ~LoopDied /\ ~unrestartable =>
    /\ LiveObs \subseteq {observerTask}
    /\ stopPc = "idle" /\ ~running => LiveObs = {}

LeftInv == DrainedInv /\ ObserverInv

(* It holds initially.                                                     *)
LEMMA LeftInit == Init => LeftInv
  BY Zenon DEF Init, LeftInv, DrainedInv, ObserverInv, LiveObs

LoopMoves(g) ==
  /\ \A h \in Gens : \/ procPc'[h] = procPc[h]
                     \/ h \in LiveProc /\ (procPc'[h] = "exited" => ~running /\ queue' = << >>)
  /\ queue' = queue \/ queue # << >>
  /\ UNCHANGED <<lifeVars, stopPc, obsPc>>

(* A step of a processing loop moves a live loop on, touches neither the   *)
(* lifecycle nor the observers, and ends the loop normally only when the   *)
(* engine is stopped and the queue empty.                                  *)
LEMMA LoopStepsMove ==
  ASSUME TypeInv, NEW g \in Gens,
         LoopStep(g) \/ LoopStoreError(g) \/ LoopDies(g) \/ LoopCancelled(g) \/ LoopIgnoresCancel(g)
  PROVE  LoopMoves(g)
<1>a. ProcOK /\ LoopsOK
  BY Zenon DEF TypeInv, TypeOK
<1> USE DEF obsVars, stopVars
<1>1. CASE LoopTake(g)
  BY Zenon, <1>1, <1>a DEF ProcOK, LoopTake, LoopMoves, Resumes, LiveProc
<1>2. CASE LoopExit(g)
  BY <1>2, <1>a DEF ProcOK, LoopExit, LoopMoves, Resumes, LiveProc, callVars
<1>3. CASE LoopReject(g)
  BY Zenon, <1>3, <1>a DEF ProcOK, LoopReject, LoopMoves, Resumes, LiveProc, NextEnvelope
<1>4. CASE LoopNoop(g)
  BY Zenon, <1>4, <1>a DEF ProcOK, LoopNoop, LoopMoves, Resumes, LiveProc
<1>5. CASE LoopPlan(g)
  BY Zenon, <1>5, <1>a DEF ProcOK, LoopPlan, LoopMoves, Resumes, LiveProc, callVars
<1>6. CASE StoreCommit(g)
  BY Zenon, <1>6, <1>a DEF ProcOK, StoreCommit, LoopMoves, LiveProc, callVars
<1>7. CASE LoopComplete(g)
  BY Zenon, <1>7, <1>a DEF ProcOK, LoopComplete, LoopMoves, Resumes, LiveProc
<1>8. CASE LoopNotify(g)
  BY Zenon, <1>8, <1>a DEF ProcOK, LoopNotify, LoopMoves, Resumes, LiveProc, NextEnvelope
<1>9. CASE LoopStoreError(g)
  BY Zenon, <1>9, <1>a DEF ProcOK, LoopStoreError, LoopMoves, Resumes, LiveProc, NextEnvelope
<1>10. CASE LoopDies(g)
  BY Zenon, <1>10, <1>a DEF ProcOK, LoopDies, LoopMoves, Resumes, LiveProc
<1>11. CASE LoopCancelled(g)
  BY Zenon, <1>11, <1>a DEF ProcOK, LoopCancelled, LoopMoves, LoopsOK, LiveProc
<1>12. CASE LoopIgnoresCancel(g)
  BY Zenon, <1>12 DEF LoopIgnoresCancel, LoopMoves, procVars, callVars
<1> QED BY <1>1, <1>2, <1>3, <1>4, <1>5, <1>6, <1>7, <1>8, <1>9, <1>10, <1>11, <1>12 DEF LoopStep

(* start(), stop() and the deadlines move no processing loop, but for the  *)
(* fresh one of start().                                                   *)
LEMMA StopMovesNoLoop ==
  ASSUME StopNext, ~Start
  PROVE  UNCHANGED procPc
<1> USE DEF procVars, StopUnchanged
<1>1. CASE StartRollback \/ StopBegin \/ BudgetExpires
  BY Zenon, <1>1 DEF StartRollback, StopBegin, BudgetExpires
<1>2. CASE StopProcessingDrained \/ StopProcessingDied \/ StopProcessingTimeout
  BY Zenon, <1>2 DEF StopProcessingDrained, StopProcessingDied, StopProcessingTimeout
<1>3. CASE StopProcessingReaped \/ StopProcessingReapedDead \/ StopPutSentinel
  BY Zenon, <1>3 DEF StopProcessingReaped, StopProcessingReapedDead, StopPutSentinel
<1>4. CASE StopObserverDrained \/ StopObserverTimeout \/ StopObserverReaped
  BY Zenon, <1>4 DEF StopObserverDrained, StopObserverTimeout, StopObserverReaped
<1>5. CASE HardDeadline \/ StopCancelForwarded \/ StopAborted
  BY <1>5 DEF HardDeadline, StopCancelForwarded, StopAborted
<1> QED BY <1>1, <1>2, <1>3, <1>4, <1>5 DEF StopNext, StopStep

(* A dead loop stays dead.                                                 *)
LEMMA DeadStaysDead ==
  ASSUME TypeInv, [Next]_vars
  PROVE  LoopDied => LoopDied'
<1>a. ProcOK /\ LoopsOK /\ LifeOK
  BY Zenon DEF TypeInv, TypeOK
<1> SUFFICES ASSUME NEW g \in Gens, procPc[g] = "died" PROVE procPc'[g] = "died"
  BY Zenon DEF LoopDied
<1>1. CASE CallerNext \/ ObserverNext \/ UNCHANGED vars
  BY <1>1 DEF CallerNext, ObserverNext, Submit, CallerGone, ObsTake, ObsReturn, ObsDies, ObsCancelled,
     ObsIgnoresCancel, vars, procVars
<1>2. ASSUME NEW h \in Gens,
             LoopStep(h) \/ LoopStoreError(h) \/ LoopDies(h) \/ LoopCancelled(h) \/ LoopIgnoresCancel(h)
      PROVE  procPc'[g] = "died"
  BY Zenon, <1>a, <1>2, LoopStepsMove DEF LoopMoves, LiveProc, ProcOK
<1>3. CASE Start
  BY <1>3, <1>a, Constants DEF Start, LoopsOK, LifeOK, ProcOK, Gens
<1>4. CASE StopNext /\ ~Start
  BY Zenon, <1>4, StopMovesNoLoop
<1> QED BY Zenon, <1>1, <1>2, <1>3, <1>4 DEF Next, CallerNext, ObserverNext, StopNext

(* Callers, observers and processing loops keep it ...                     *)
LEMMA LoopsKeepLeft ==
  ASSUME TypeInv, LeftInv, LoopDied => LoopDied',
         UNCHANGED <<running, unrestartable, processingTask, observerTask, stopPc>>,
         LiveObs' \subseteq LiveObs,
         \/ queue' = queue \/ running \/ queue # << >>,
         \A g \in Gens : procPc'[g] = "exited" => procPc[g] = "exited" \/ (~running /\ queue' = << >>)
  PROVE  LeftInv'
<1>a. HandleOK /\ DrainedInv /\ ObserverInv
  BY Zenon DEF TypeInv, LeftInv
<1>1. DrainedInv'
  BY Zenon, <1>a DEF DrainedInv, HandleOK
<1>2. ObserverInv'
  BY Zenon, <1>a DEF ObserverInv
<1> QED BY Zenon, <1>1, <1>2 DEF LeftInv

(* ... and so do start(), stop() and the deadlines.                        *)
LEMMA StopKeepsLeft ==
  ASSUME TypeInv, LifeInv, LeftInv, LoopDied => LoopDied', StopNext
  PROVE  LeftInv'
<1>a. HandleOK /\ DrainedInv /\ ObserverInv /\ LifeOK /\ LoopsOK /\ ProcOK /\ ObsOK /\ StopOK
  BY Zenon DEF TypeInv, TypeOK, LeftInv
<1>1. CASE Start
  <2>1. /\ starts + 1 \in Gens /\ procPc'[starts + 1] = "poll"
        /\ \A g \in Gens : obsPc'[g] \in {"poll", "notify"} => g = starts + 1 \/ obsPc[g] \in {"poll", "notify"}
        /\ processingTask' = starts + 1 /\ observerTask' = starts + 1 /\ running'
        /\ UNCHANGED <<stopPc, unrestartable, queue>> /\ stopPc = "idle" /\ ~running
    BY <1>1, <1>a, Constants DEF Start, StartMayProceed, LifeOK, ProcOK, ObsOK, Gens, stopVars, callVars
  <2>2. ObserverInv'
    BY Zenon, <1>a, <2>1 DEF ObserverInv, LiveObs
  <2> QED BY Zenon, <2>1, <2>2 DEF LeftInv, DrainedInv
<1>2. CASE StartRollback
  <2>1. /\ LiveObs' \subseteq LiveObs /\ UNCHANGED <<stopPc, unrestartable, queue, running, procPc>>
        /\ stopPc = "idle" /\ ~running
    BY Zenon, <1>2, <1>a DEF StartRollback, StartMayProceed, LiveObs, stopVars, callVars, procVars
  <2>2. ObserverInv'
    BY Zenon, <1>a, <2>1 DEF ObserverInv
  <2> QED BY Zenon, <1>a, <2>1, <2>2 DEF LeftInv, DrainedInv
<1>3. CASE StopBegin
  <2>1. /\ UNCHANGED <<unrestartable, queue, procPc, processingTask, observerTask, obsPc>> /\ running
        /\ stopPc' = "drainProcessing" /\ ~running'
    BY Zenon, <1>3 DEF StopBegin, StopUnchanged, procVars, obsVars
  <2> QED BY Zenon, <1>a, <2>1 DEF LeftInv, DrainedInv, ObserverInv, LiveObs
<1>4. CASE BudgetExpires \/ HardDeadline \/ StopCancelForwarded
  <2>1. UNCHANGED <<running, unrestartable, queue, procPc, processingTask, observerTask, obsPc, stopPc>>
    BY Zenon, <1>4 DEF BudgetExpires, HardDeadline, StopCancelForwarded, StopUnchanged, procVars, obsVars,
       lifeVars, stopVars
  <2> QED BY Zenon, <1>a, <2>1 DEF LeftInv, DrainedInv, ObserverInv, LiveObs
<1>5. CASE StopProcessingDrained
  <2>1. /\ UNCHANGED <<running, unrestartable, queue, observerTask, obsPc>> /\ stopPc' = "putSentinel"
        /\ stopPc = "drainProcessing" /\ procPc[processingTask] = "exited"
    BY Zenon, <1>5 DEF StopProcessingDrained, StopUnchanged, obsVars
  <2> QED BY Zenon, <1>a, <2>1 DEF LeftInv, DrainedInv, ObserverInv, LiveObs, HandleOK
<1>6. CASE StopProcessingDied \/ StopProcessingReapedDead
  <2>1. /\ LoopDied' /\ stopPc' = "idle" /\ ~running'
    BY <1>6, <1>a DEF StopProcessingDied, StopProcessingReapedDead, StopUnchanged, procVars, LoopDied, HandleOK
  <2> QED BY Zenon, <2>1 DEF LeftInv, DrainedInv, ObserverInv
<1>7. CASE StopProcessingTimeout
  <2>1. /\ UNCHANGED <<running, unrestartable, queue, procPc, processingTask, observerTask, obsPc>>
        /\ stopPc = "drainProcessing" /\ stopPc' = "reapProcessing"
    BY Zenon, <1>7 DEF StopProcessingTimeout, StopUnchanged, procVars, obsVars, lifeVars
  <2> QED BY Zenon, <1>a, <2>1 DEF LeftInv, DrainedInv, ObserverInv, LiveObs
<1>8. CASE StopProcessingReaped
  <2>1. /\ UNCHANGED <<running, unrestartable, observerTask, obsPc>> /\ stopPc' = "putSentinel"
        /\ queue' = << >> /\ stopPc = "reapProcessing"
    BY Zenon, <1>8 DEF StopProcessingReaped, FailRemainingFutures, AbortFutures, StopUnchanged, obsVars
  <2> QED BY Zenon, <1>a, <2>1 DEF LeftInv, DrainedInv, ObserverInv, LiveObs, HandleOK
<1>9. CASE StopPutSentinel \/ StopObserverTimeout
  <2>1. /\ UNCHANGED <<running, unrestartable, queue, observerTask, obsPc>>
        /\ stopPc \in {"putSentinel", "drainObserver"} /\ stopPc' \in {"drainObserver", "reapObserver"}
    BY Zenon, <1>9 DEF StopPutSentinel, StopObserverTimeout, StopUnchanged, obsVars, lifeVars, callVars
  <2> QED BY Zenon, <1>a, <2>1 DEF LeftInv, DrainedInv, ObserverInv, LiveObs, HandleOK
<1>10. CASE StopObserverDrained \/ StopObserverReaped
  <2>1. /\ UNCHANGED <<running, unrestartable, queue, obsPc>> /\ observerTask \notin LiveObs
        /\ stopPc \in {"drainObserver", "reapObserver"} /\ stopPc' = "idle"
    BY Zenon, <1>10 DEF StopObserverDrained, StopObserverReaped, StopUnchanged, obsVars
  <2> QED BY Zenon, <1>a, <2>1 DEF LeftInv, DrainedInv, ObserverInv, LiveObs, HandleOK
<1>11. CASE StopAborted
  <2>1. unrestartable' /\ stopPc' = "idle" /\ ~running'
    BY Zenon, <1>11, <1>a DEF StopAborted, HandleOK
  <2> QED BY Zenon, <2>1 DEF LeftInv, DrainedInv, ObserverInv
<1> QED BY <1>1, <1>2, <1>3, <1>4, <1>5, <1>6, <1>7, <1>8, <1>9, <1>10, <1>11 DEF StopNext, StopStep


(* One step of the engine keeps it.                                        *)
LEMMA LeftStep ==
  ASSUME TypeInv, LifeInv, LeftInv, [Next]_vars
  PROVE  LeftInv'
<1>a. ProcOK /\ ObsOK /\ LifeOK /\ HandleOK /\ (LoopDied => LoopDied')
  BY Zenon, DeadStaysDead DEF TypeInv, TypeOK
<1>1. CASE CallerNext \/ UNCHANGED vars
  <2>1. /\ UNCHANGED <<lifeVars, procPc, stopPc, obsPc>>
        /\ queue' = queue \/ running
    BY Zenon, <1>1 DEF CallerNext, Submit, CallerGone, vars, procVars, stopVars, obsVars, callVars
  <2> QED BY Zenon, <1>a, <2>1, LoopsKeepLeft DEF lifeVars, LiveObs
<1>2. CASE ObserverNext
  <2>1. /\ UNCHANGED <<lifeVars, procPc, stopPc, queue>>
        /\ LiveObs' \subseteq LiveObs
    <3> PICK g \in Gens : ObsTake(g) \/ ObsReturn(g) \/ ObsDies(g) \/ ObsCancelled(g) \/ ObsIgnoresCancel(g)
      BY Zenon, <1>2 DEF ObserverNext
    <3> USE <1>a DEF procVars, stopVars, callVars, obsVars, LiveObs, ObsOK, ObsResumes
    <3>1. CASE ObsTake(g)
      BY Zenon, <3>1 DEF ObsTake
    <3>2. CASE ObsReturn(g) \/ ObsDies(g)
      BY Zenon, <3>2 DEF ObsReturn, ObsDies
    <3>3. CASE ObsCancelled(g) \/ ObsIgnoresCancel(g)
      BY Zenon, <3>3 DEF ObsCancelled, ObsIgnoresCancel
    <3> QED BY Zenon, <3>1, <3>2, <3>3
  <2> QED BY Zenon, <1>a, <2>1, LoopsKeepLeft DEF lifeVars
<1>3. ASSUME NEW g \in Gens,
             LoopStep(g) \/ LoopStoreError(g) \/ LoopDies(g) \/ LoopCancelled(g) \/ LoopIgnoresCancel(g)
      PROVE  LeftInv'
  <2>1. LoopMoves(g)
    BY Zenon, <1>3, LoopStepsMove
  <2>2. LiveObs' \subseteq LiveObs
    BY Zenon, <2>1 DEF LoopMoves, LiveObs
  <2>3. \A h \in Gens : procPc'[h] = "exited" => procPc[h] = "exited" \/ (~running /\ queue' = << >>)
    BY Zenon, <1>a, <2>1 DEF LoopMoves, ProcOK
  <2> QED BY Zenon, <1>a, <2>1, <2>2, <2>3, LoopsKeepLeft DEF LoopMoves, lifeVars
<1>4. CASE StopNext
  BY <1>4, <1>a, StopKeepsLeft
<1> QED BY <1>1, <1>2, <1>3, <1>4 DEF Next, CallerNext, ObserverNext, StopNext

(* A stop() that returned has drained everything, in every behaviour in    *)
(* which awaited calls let a CancelledError through: no loop runs and no   *)
(* caller waits.                                                           *)
THEOREM StopAlwaysDrains ==
  ASSUME "ignore_cancel" \notin Faults
  PROVE  Spec => []StopDrains
<1>1. Init => LifeInv
  BY Zenon DEF Init, LifeInv, LiveProc
<1>2. Init => RequestInv /\ HoldInv /\ LeftInv
  BY RequestInit, HoldInit, LeftInit
<1>3. TypeInv /\ LifeInv /\ RequestInv /\ HoldInv /\ [Next]_vars => RequestInv' /\ HoldInv'
  BY Zenon, RequestStep, HoldStep DEF Obeys
<1>4. TypeInv /\ LifeInv /\ LeftInv /\ [Next]_vars => LeftInv'
  BY Zenon, LeftStep
<1>5. LifeInv /\ HoldInv /\ LeftInv => StopDrains
  <2> SUFFICES ASSUME LifeInv, HoldInv, LeftInv, ~running, stopPc = "idle", ~unrestartable, ~LoopDied
               PROVE  LiveProc = {} /\ LiveObs = {} /\ \A r \in Requests : reply[r].code # "pending"
    BY Zenon DEF StopDrains
  <2>1. LiveProc = {} /\ LiveObs = {} /\ queue = << >>
    BY Zenon DEF LifeInv, LeftInv, DrainedInv, ObserverInv
  <2>2. PendingIsHeld /\ FlightInv
    BY Zenon DEF HoldInv
  <2> QED BY Zenon, <2>1, <2>2, RangeEmpty DEF PendingIsHeld, FlightInv
<1> QED BY <1>1, <1>2, <1>3, <1>4, <1>5, InitTypeInv, TypeStep, LifeStep, PTL DEF Spec

==============================================================================
