----------------------------- MODULE TaskEngine -----------------------------
(***************************************************************************)
(* The single-writer task engine: engine/task_engine.py and its mixin      *)
(* engine/task_engine_loops.py.  Callers submit mutations to a bounded     *)
(* queue; one processing loop applies them to persistence and resolves the *)
(* callers' futures; an observer loop tells observers of what succeeded;   *)
(* start() and stop() create and drain the two loops.                      *)
(*                                                                         *)
(* One action is the code between two suspension points of one coroutine   *)
(* (asyncio runs it without interruption).  Neither submit() nor start()   *)
(* suspends while it holds the admission lock (the rollback of start()     *)
(* does, but a submit() that waits for it finds the engine not running),   *)
(* so that lock is not a variable; the lifecycle lock is held exactly      *)
(* while stopPc # "idle".  Calls that are refused without touching state   *)
(* (start() on a running or unrestartable engine, stop() on a stopped one  *)
(* or with a non-positive timeout) are stuttering steps.                   *)
(***************************************************************************)
EXTENDS TaskMutations, Sequences

CONSTANTS MaxQueue,          \* config.max_queue_size (0: unbounded)
          MaxObserverQueue,  \* config.effective_observer_queue_size (0: unbounded)
          MaxStarts,         \* bound: how often start() succeeds
          Sentinel,          \* the None that ends the observer loop
          OldRows,           \* what may be stored for an old task when the process starts
          Faults             \* which of the faults below the environment commits

(* "store_error"    a persistence call raises, having changed nothing      *)
(* "fatal"          MemoryError or RecursionError inside a loop            *)
(* "stop_cancelled" the caller of stop() is cancelled                      *)
(* "ignore_cancel"  a persistence call, a bus publication or an observer   *)
(*                  swallows CancelledError, and may then never return     *)
(* "caller_gone"    a caller stops waiting for its future                  *)
FaultKinds == {"store_error", "fatal", "stop_cancelled", "ignore_cancel", "caller_gone"}

ASSUME EngineAssumption ==
  /\ MaxQueue \in Nat /\ MaxObserverQueue \in Nat /\ MaxStarts \in Nat \ {0}
  /\ Faults \subseteq FaultKinds
  /\ \A row \in OldRows \ {None} : row \in Task /\ ConsistentAssignment(row)
  /\ Sentinel \notin Requests
  /\ None \notin Requests

Gens == 1..MaxStarts      \* the g-th pair of loops

VARIABLES
  rows,           \* persistence.tasks
  versions,       \* _versions
  running,        \* _running
  unrestartable,  \* _unrestartable
  starts,         \* how many loop pairs were created so far
  processingTask, \* _processing_task: a generation, or 0 for None
  observerTask,   \* _observer_task
  queue,          \* _queue
  inFlight,       \* _in_flight
  mutation,       \* the mutation in each envelope
  reply,          \* the envelope's future
  procPc,         \* where each processing loop is suspended
  env,            \* the envelope each processing loop works on
  plan,           \* the row it is about to save
  observerQueue,  \* _observer_queue
  obsPc,          \* where each observer loop is suspended
  cancelling,     \* loops with a CancelledError on its way
  stopPc,         \* where stop() is suspended
  expired,        \* the drain budget of the current stop() is used up
  hardExpired,    \* its hard deadline has fired
  saved,          \* saved_in_flight of _drain_processing
  applied,        \* history: requests in the order their row was written
  told            \* history: requests in the order observers were told

storeVars == <<rows, versions>>
lifeVars  == <<running, unrestartable, starts, processingTask, observerTask>>
callVars  == <<queue, inFlight, mutation, reply>>
procVars  == <<procPc, env, plan>>
obsVars   == <<observerQueue, obsPc, told>>
stopVars  == <<stopPc, expired, hardExpired, saved>>
vars == <<storeVars, lifeVars, callVars, procVars, obsVars, cancelling, stopVars, applied>>

Proc(g) == <<"processing", g>>
Obs(g)  == <<"observer", g>>

ReplyCode == {"unsent", "pending", "ok", "not_found", "version_conflict", "validation",
              "internal", "shutdown", "exception", "gone", "not_running", "queue_full"}
Reply == [code : ReplyCode, version : Nat]

LiveProc == {g \in Gens : procPc[g] \in {"poll", "dispatch", "save", "saved", "publish"}}
LiveObs  == {g \in Gens : obsPc[g] \in {"poll", "notify"}}

LoopDied == \E g \in Gens : procPc[g] = "died"

Full(q, max) == max > 0 /\ Len(q) >= max
Range(s) == {s[i] : i \in DOMAIN s}

Init ==
  /\ rows \in {f \in [TaskIds -> OldRows \cup {None}] : \A r \in Requests : f[r] = None}
  /\ versions = [t \in TaskIds |-> 0]
  /\ running = FALSE /\ unrestartable = FALSE /\ starts = 0
  /\ processingTask = 0 /\ observerTask = 0
  /\ queue = << >> /\ inFlight = None
  /\ mutation = [r \in Requests |-> None]
  /\ reply = [r \in Requests |-> [code |-> "unsent", version |-> 0]]
  /\ procPc = [g \in Gens |-> "none"]
  /\ env = [g \in Gens |-> None] /\ plan = [g \in Gens |-> None]
  /\ observerQueue = << >> /\ obsPc = [g \in Gens |-> "none"] /\ told = << >>
  /\ cancelling = {}
  /\ stopPc = "idle" /\ expired = FALSE /\ hardExpired = FALSE /\ saved = None
  /\ applied = << >>

----------------------------------------------------------------------------
(* Futures: every writer checks `not future.done()' first.                 *)
Answer(r, code, version) ==
  reply' = IF reply[r].code = "pending"
             THEN [reply EXCEPT ![r] = [code |-> code, version |-> version]]
             ELSE reply

(* the futures of S that nobody resolved yet get the shutdown result, and  *)
(* nothing is in flight or queued any more                                 *)
AbortFutures(S) ==
  /\ reply' = [r \in Requests |->
                  IF r \in S /\ reply[r].code = "pending"
                    THEN [code |-> "shutdown", version |-> 0] ELSE reply[r]]
  /\ inFlight' = None
  /\ queue' = << >>

(* mutants: the cancelled loop has already cleared _in_flight, and only    *)
(* saved_in_flight remembers it; the queued envelopes are forgotten        *)
FailInFlightAndQueue(savedInFlight) == AbortFutures(Range(queue) \cup {inFlight})
FailInFlightOnly(savedInFlight) == AbortFutures({savedInFlight, inFlight})

(* _fail_remaining_futures                                                 *)
FailRemainingFutures(savedInFlight) ==
  AbortFutures(Range(queue) \cup {IF savedInFlight # None THEN savedInFlight ELSE inFlight})

----------------------------------------------------------------------------
(* submit(): admit, or refuse with TaskEngineNotRunningError /             *)
(* TaskEngineQueueFullError                                                *)
Submit(r, m) ==
  /\ reply[r].code = "unsent"
  /\ mutation' = [mutation EXCEPT ![r] = m]
  /\ LET code == IF ~running THEN "not_running"
                 ELSE IF Full(queue, MaxQueue) THEN "queue_full" ELSE "pending"
     IN /\ reply' = [reply EXCEPT ![r].code = code]
        /\ queue' = IF code = "pending" THEN Append(queue, r) ELSE queue
  /\ UNCHANGED <<storeVars, lifeVars, inFlight, procVars, obsVars, cancelling, stopVars, applied>>

(* the task awaiting envelope.future is cancelled: so is the future        *)
CallerGone(r) ==
  /\ "caller_gone" \in Faults
  /\ reply[r].code = "pending"
  /\ reply' = [reply EXCEPT ![r].code = "gone"]
  /\ UNCHANGED <<storeVars, lifeVars, queue, inFlight, mutation, procVars, obsVars, cancelling,
                 stopVars, applied>>

----------------------------------------------------------------------------
(* start() holds the lifecycle lock and is not refused                     *)
StartMayProceedAfterAbort == stopPc = "idle" /\ ~running    \* mutant: _unrestartable is not consulted

StartMayProceed == stopPc = "idle" /\ ~unrestartable /\ ~running

(* start()                                                                 *)
Start ==
  /\ StartMayProceed
  /\ starts < MaxStarts
  /\ LET g == starts + 1
     IN /\ starts' = g
        /\ processingTask' = g /\ observerTask' = g
        /\ procPc' = [procPc EXCEPT ![g] = "poll"]
        /\ obsPc' = [obsPc EXCEPT ![g] = "poll"]
  /\ running' = TRUE
  /\ UNCHANGED <<storeVars, unrestartable, callVars, env, plan, observerQueue, told, cancelling,
                 stopVars, applied>>

(* start() when creating one of the two loops raises: whatever the two     *)
(* handles hold is cancelled and awaited, and both handles are cleared     *)
StartRollback ==
  /\ "fatal" \in Faults
  /\ StartMayProceed
  /\ observerTask' = 0 /\ processingTask' = 0
  /\ obsPc' = [g \in Gens |-> IF g = observerTask /\ g \in LiveObs THEN "cancelled" ELSE obsPc[g]]
  /\ UNCHANGED <<storeVars, running, unrestartable, starts, callVars, procVars, observerQueue, told,
                 cancelling, stopVars, applied>>

----------------------------------------------------------------------------
(* _processing_loop / _process_one, loop g.  A loop with a CancelledError  *)
(* on its way takes no step of its own: the next thing it sees is the      *)
(* exception.                                                              *)
Resumes(g, pc) == procPc[g] = pc /\ Proc(g) \notin cancelling

(* back to the top of the loop; `finally: self._in_flight = None'          *)
NextEnvelope(g) ==
  /\ procPc' = [procPc EXCEPT ![g] = "poll"]
  /\ env' = [env EXCEPT ![g] = None]
  /\ plan' = [plan EXCEPT ![g] = None]
  /\ inFlight' = None

(* queue.get() returns and _process_one begins                             *)
LoopTake(g) ==
  /\ Resumes(g, "poll")
  /\ queue # << >>
  /\ queue' = Tail(queue)
  /\ inFlight' = Head(queue)
  /\ env' = [env EXCEPT ![g] = Head(queue)]
  /\ procPc' = [procPc EXCEPT ![g] = "dispatch"]
  /\ UNCHANGED <<storeVars, lifeVars, mutation, reply, plan, obsVars, cancelling, stopVars, applied>>

(* `while self._running or not self._queue.empty()' is false               *)
LoopExit(g) ==
  /\ Resumes(g, "poll")
  /\ ~running /\ queue = << >>
  /\ procPc' = [procPc EXCEPT ![g] = "exited"]
  /\ UNCHANGED <<storeVars, lifeVars, callVars, env, plan, obsVars, cancelling, stopVars, applied>>

(* persistence answered the read: the mutation is refused ...              *)
LoopReject(g) ==
  /\ Resumes(g, "dispatch")
  /\ LET r == env[g]
         d == dispatch(mutation[r], rows, versions)
     IN /\ d.code \in {"not_found", "version_conflict", "validation"}
        /\ Answer(r, d.code, 0)
        /\ versions' = VersionsChecked(mutation[r], rows, versions)
  /\ NextEnvelope(g)
  /\ UNCHANGED <<rows, lifeVars, queue, mutation, obsVars, cancelling, stopVars, applied>>

(* ... or succeeds without a write (an update of no field) ...             *)
LoopNoop(g) ==
  /\ Resumes(g, "dispatch")
  /\ LET r == env[g]
         m == mutation[r]
     IN /\ dispatch(m, rows, versions).code = "noop"
        /\ versions' = VersionsChecked(m, rows, versions)
        /\ Answer(r, "ok", versions'[m.task])
  /\ procPc' = [procPc EXCEPT ![g] = "publish"]
  /\ UNCHANGED <<rows, lifeVars, queue, inFlight, mutation, env, plan, obsVars, cancelling, stopVars,
                 applied>>

(* mutant: the caller is answered before the row is saved                  *)
LoopPlanAnswersFirst(g) ==
  /\ Resumes(g, "dispatch")
  /\ LET m == mutation[env[g]]
         d == dispatch(m, rows, versions)
     IN /\ d.code = "write"
        /\ plan' = [plan EXCEPT ![g] = d.row]
        /\ versions' = VersionsChecked(m, rows, versions)
        /\ Answer(env[g], "ok", 0)
  /\ procPc' = [procPc EXCEPT ![g] = "save"]
  /\ UNCHANGED <<rows, lifeVars, queue, inFlight, mutation, env, obsVars, cancelling, stopVars, applied>>

(* ... or asks persistence to save or delete the row                       *)
LoopPlan(g) ==
  /\ Resumes(g, "dispatch")
  /\ LET m == mutation[env[g]]
         d == dispatch(m, rows, versions)
     IN /\ d.code = "write"
        /\ plan' = [plan EXCEPT ![g] = d.row]
        /\ versions' = VersionsChecked(m, rows, versions)
  /\ procPc' = [procPc EXCEPT ![g] = "save"]
  /\ UNCHANGED <<rows, lifeVars, callVars, env, obsVars, cancelling, stopVars, applied>>

(* persistence commits the write; the loop has not resumed yet             *)
StoreCommit(g) ==
  /\ procPc[g] = "save"
  /\ rows' = [rows EXCEPT ![TaskOf(env[g], mutation[env[g]])] = plan[g]]
  /\ applied' = Append(applied, env[g])
  /\ procPc' = [procPc EXCEPT ![g] = "saved"]
  /\ UNCHANGED <<versions, lifeVars, callVars, env, plan, obsVars, cancelling, stopVars>>

(* the loop resumes: version counter, then the caller's future, then the   *)
(* snapshot is published                                                   *)
LoopComplete(g) ==
  /\ Resumes(g, "saved")
  /\ LET r == env[g]
         t == TaskOf(r, mutation[r])
     IN /\ versions' = VersionsWritten(mutation[r], t, versions)
        /\ Answer(r, "ok", versions'[t])
  /\ procPc' = [procPc EXCEPT ![g] = "publish"]
  /\ UNCHANGED <<rows, lifeVars, queue, inFlight, mutation, env, plan, obsVars, cancelling, stopVars,
                 applied>>

(* mutant: the newest event overtakes the queued ones                      *)
LoopNotifyOvertakes(g) ==
  /\ Resumes(g, "publish")
  /\ observerQueue' = IF Full(observerQueue, MaxObserverQueue)
                        THEN observerQueue ELSE <<env[g]>> \o observerQueue
  /\ NextEnvelope(g)
  /\ UNCHANGED <<storeVars, lifeVars, queue, mutation, reply, obsPc, told, cancelling, stopVars,
                 applied>>

(* publish_snapshot returned (its failures are swallowed): hand the event  *)
(* to the observer loop, or drop it when that queue is full                *)
LoopNotify(g) ==
  /\ Resumes(g, "publish")
  /\ observerQueue' = IF Full(observerQueue, MaxObserverQueue)
                        THEN observerQueue ELSE Append(observerQueue, env[g])
  /\ NextEnvelope(g)
  /\ UNCHANGED <<storeVars, lifeVars, queue, mutation, reply, obsPc, told, cancelling, stopVars,
                 applied>>

(* a persistence call raises an ordinary exception                         *)
LoopStoreError(g) ==
  /\ "store_error" \in Faults
  /\ Resumes(g, "dispatch") \/ Resumes(g, "save")
  /\ Answer(env[g], "internal", 0)
  /\ NextEnvelope(g)
  /\ UNCHANGED <<storeVars, lifeVars, queue, mutation, obsVars, cancelling, stopVars, applied>>

(* MemoryError / RecursionError: the caller sees it, and so does the loop  *)
LoopDies(g) ==
  /\ "fatal" \in Faults
  /\ \E pc \in {"dispatch", "save", "saved", "publish"} : Resumes(g, pc)
  /\ Answer(env[g], "exception", 0)
  /\ procPc' = [procPc EXCEPT ![g] = "died"]
  /\ env' = [env EXCEPT ![g] = None]
  /\ plan' = [plan EXCEPT ![g] = None]
  /\ inFlight' = None
  /\ UNCHANGED <<storeVars, lifeVars, queue, mutation, obsVars, cancelling, stopVars, applied>>

(* the CancelledError arrives: no future is resolved here                  *)
LoopCancelled(g) ==
  /\ Proc(g) \in cancelling
  /\ cancelling' = cancelling \ {Proc(g)}
  /\ procPc' = [procPc EXCEPT ![g] = "cancelled"]
  /\ env' = [env EXCEPT ![g] = None]
  /\ plan' = [plan EXCEPT ![g] = None]
  /\ inFlight' = IF env[g] = None THEN inFlight ELSE None
  /\ UNCHANGED <<storeVars, lifeVars, queue, mutation, reply, obsVars, stopVars, applied>>

(* the awaited call swallows the CancelledError and goes on waiting        *)
LoopIgnoresCancel(g) ==
  /\ "ignore_cancel" \in Faults
  /\ Proc(g) \in cancelling
  /\ procPc[g] # "poll"
  /\ cancelling' = cancelling \ {Proc(g)}
  /\ UNCHANGED <<storeVars, lifeVars, callVars, procVars, obsVars, stopVars, applied>>

----------------------------------------------------------------------------
(* _observer_dispatch_loop, loop g                                         *)
ObsResumes(g, pc) == obsPc[g] = pc /\ Obs(g) \notin cancelling

(* take an event and call the observers, or leave on the sentinel          *)
ObsTake(g) ==
  /\ ObsResumes(g, "poll")
  /\ observerQueue # << >>
  /\ observerQueue' = Tail(observerQueue)
  /\ LET event == Head(observerQueue)
     IN IF event = Sentinel
          THEN /\ obsPc' = [obsPc EXCEPT ![g] = "exited"]
               /\ UNCHANGED told
          ELSE /\ obsPc' = [obsPc EXCEPT ![g] = "notify"]
               /\ told' = Append(told, event)
  /\ UNCHANGED <<storeVars, lifeVars, callVars, procVars, cancelling, stopVars, applied>>

(* the observers returned; what they raise is logged and swallowed         *)
ObsReturn(g) ==
  /\ ObsResumes(g, "notify")
  /\ obsPc' = [obsPc EXCEPT ![g] = "poll"]
  /\ UNCHANGED <<storeVars, lifeVars, callVars, procVars, observerQueue, told, cancelling, stopVars,
                 applied>>

ObsDies(g) ==
  /\ "fatal" \in Faults
  /\ ObsResumes(g, "notify")
  /\ obsPc' = [obsPc EXCEPT ![g] = "died"]
  /\ UNCHANGED <<storeVars, lifeVars, callVars, procVars, observerQueue, told, cancelling, stopVars,
                 applied>>

ObsCancelled(g) ==
  /\ Obs(g) \in cancelling
  /\ cancelling' = cancelling \ {Obs(g)}
  /\ obsPc' = [obsPc EXCEPT ![g] = "cancelled"]
  /\ UNCHANGED <<storeVars, lifeVars, callVars, procVars, observerQueue, told, stopVars, applied>>

ObsIgnoresCancel(g) ==
  /\ "ignore_cancel" \in Faults
  /\ Obs(g) \in cancelling
  /\ obsPc[g] = "notify"
  /\ cancelling' = cancelling \ {Obs(g)}
  /\ UNCHANGED <<storeVars, lifeVars, callVars, procVars, obsVars, stopVars, applied>>

----------------------------------------------------------------------------
(* stop(), _drain_all, _drain_processing, _drain_observer                  *)
StopUnchanged == UNCHANGED <<storeVars, mutation, procVars, obsVars, applied>>

StopBegin ==
  /\ stopPc = "idle" /\ running
  /\ running' = FALSE
  /\ stopPc' = "drainProcessing"
  /\ expired' = FALSE /\ hardExpired' = FALSE
  /\ StopUnchanged
  /\ UNCHANGED <<unrestartable, starts, processingTask, observerTask, queue, inFlight, reply,
                 cancelling, saved>>

(* mutant: the sentinel is put without a timeout                           *)
BudgetExpiresUnlessPutting ==
  /\ stopPc \in {"drainProcessing", "drainObserver"}
  /\ ~expired
  /\ expired' = TRUE
  /\ StopUnchanged
  /\ UNCHANGED <<lifeVars, queue, inFlight, reply, cancelling, stopPc, hardExpired, saved>>

(* the drain budget, shared by the three waits of _drain_all, runs out     *)
BudgetExpires ==
  /\ stopPc \in {"drainProcessing", "putSentinel", "drainObserver"}
  /\ ~expired
  /\ expired' = TRUE
  /\ StopUnchanged
  /\ UNCHANGED <<lifeVars, queue, inFlight, reply, cancelling, stopPc, hardExpired, saved>>

(* the processing loop finished: it drained the queue ...                  *)
StopProcessingDrained ==
  /\ stopPc = "drainProcessing"
  /\ procPc[processingTask] = "exited"
  /\ processingTask' = 0
  /\ stopPc' = "putSentinel"
  /\ StopUnchanged
  /\ UNCHANGED <<running, unrestartable, starts, observerTask, queue, inFlight, reply, cancelling,
                 expired, hardExpired, saved>>

(* ... or it had died: stop() re-raises its exception and goes no further  *)
StopProcessingDied ==
  /\ stopPc = "drainProcessing"
  /\ procPc[processingTask] = "died"
  /\ FailRemainingFutures(inFlight)
  /\ processingTask' = 0
  /\ stopPc' = "idle"
  /\ StopUnchanged
  /\ UNCHANGED <<running, unrestartable, starts, observerTask, cancelling, expired, hardExpired, saved>>

(* the budget ran out first: cancel the loop and wait for it               *)
StopProcessingTimeout ==
  /\ stopPc = "drainProcessing" /\ expired
  /\ saved' = inFlight
  /\ cancelling' = IF processingTask \in LiveProc
                     THEN cancelling \cup {Proc(processingTask)} ELSE cancelling
  /\ stopPc' = "reapProcessing"
  /\ StopUnchanged
  /\ UNCHANGED <<lifeVars, queue, inFlight, reply, expired, hardExpired>>

StopProcessingReaped ==
  /\ stopPc = "reapProcessing"
  /\ procPc[processingTask] \in {"cancelled", "exited"}
  /\ FailRemainingFutures(saved)
  /\ saved' = None
  /\ processingTask' = 0
  /\ stopPc' = "putSentinel"
  /\ StopUnchanged
  /\ UNCHANGED <<running, unrestartable, starts, observerTask, cancelling, expired, hardExpired>>

(* the loop turns out to have died just before the budget ran out: its     *)
(* exception leaves _drain_processing from inside the timeout handler      *)
StopProcessingReapedDead ==
  /\ stopPc = "reapProcessing"
  /\ procPc[processingTask] = "died"
  /\ saved' = None
  /\ processingTask' = 0
  /\ stopPc' = "idle"
  /\ StopUnchanged
  /\ UNCHANGED <<running, unrestartable, starts, observerTask, queue, inFlight, reply, cancelling,
                 expired, hardExpired>>

(* observer_queue.put(None) within the remaining budget; with no budget    *)
(* left wait_for() cancels the put before it runs                          *)
StopPutSentinel ==
  /\ stopPc = "putSentinel"
  /\ \/ /\ ~expired
        /\ ~Full(observerQueue, MaxObserverQueue)
        /\ observerQueue' = Append(observerQueue, Sentinel)
     \/ /\ expired
        /\ UNCHANGED observerQueue
  /\ stopPc' = "drainObserver"
  /\ UNCHANGED <<storeVars, lifeVars, callVars, procVars, obsPc, told, cancelling, expired,
                 hardExpired, saved, applied>>

(* the observer loop finished (its exception, if it died, is re-raised)    *)
StopObserverDrained ==
  /\ stopPc = "drainObserver"
  /\ observerTask \notin LiveObs
  /\ observerTask' = 0
  /\ stopPc' = "idle"
  /\ StopUnchanged
  /\ UNCHANGED <<running, unrestartable, starts, processingTask, queue, inFlight, reply, cancelling,
                 expired, hardExpired, saved>>

StopObserverTimeout ==
  /\ stopPc = "drainObserver" /\ expired
  /\ cancelling' = IF observerTask \in LiveObs
                     THEN cancelling \cup {Obs(observerTask)} ELSE cancelling
  /\ stopPc' = "reapObserver"
  /\ StopUnchanged
  /\ UNCHANGED <<lifeVars, queue, inFlight, reply, expired, hardExpired, saved>>

StopObserverReaped ==
  /\ stopPc = "reapObserver"
  /\ observerTask \notin LiveObs
  /\ observerTask' = 0
  /\ stopPc' = "idle"
  /\ StopUnchanged
  /\ UNCHANGED <<running, unrestartable, starts, processingTask, queue, inFlight, reply, cancelling,
                 expired, hardExpired, saved>>

(* the loop that stop() awaits, having cancelled it                        *)
Awaited == IF stopPc = "reapProcessing" THEN Proc(processingTask) ELSE Obs(observerTask)
AwaitedLive == \/ stopPc = "reapProcessing" /\ processingTask \in LiveProc
               \/ stopPc = "reapObserver" /\ observerTask \in LiveObs

(* The hard deadline cancels the task that runs stop().  That task awaits  *)
(* a loop directly, so asyncio hands the cancellation to the loop; the     *)
(* CancelledError that comes back is suppressed, stop() goes on and the    *)
(* deadline never becomes a TimeoutError.                                  *)
HardDeadline ==
  /\ AwaitedLive /\ ~hardExpired
  /\ hardExpired' = TRUE
  /\ cancelling' = cancelling \cup {Awaited}
  /\ StopUnchanged
  /\ UNCHANGED <<lifeVars, queue, inFlight, reply, stopPc, expired, saved>>

(* The caller of stop() is cancelled at the same two places: same effect.  *)
StopCancelForwarded ==
  /\ "stop_cancelled" \in Faults
  /\ AwaitedLive
  /\ cancelling' = cancelling \cup {Awaited}
  /\ StopUnchanged
  /\ UNCHANGED <<lifeVars, queue, inFlight, reply, stopVars>>

(* Anywhere else the cancellation ends stop(), which gives the engine up.  *)
(* (An event loop blocked past both deadlines ends the same way, with a    *)
(* TimeoutError: the inner and the outer timer fire together.)             *)
StopAborted ==
  /\ "stop_cancelled" \in Faults
  /\ unrestartable' = TRUE
  /\ stopPc' = "idle"
  /\ \/ /\ stopPc = "drainProcessing"
        /\ FailRemainingFutures(inFlight)
        /\ processingTask' = 0
        /\ UNCHANGED observerTask
     \/ /\ stopPc = "putSentinel"
        /\ UNCHANGED <<queue, inFlight, reply, processingTask, observerTask>>
     \/ /\ stopPc = "drainObserver"
        /\ observerTask' = 0
        /\ UNCHANGED <<queue, inFlight, reply, processingTask>>
  /\ StopUnchanged
  /\ UNCHANGED <<running, starts, cancelling, expired, hardExpired, saved>>

----------------------------------------------------------------------------
LoopStep(g) ==
  \/ LoopTake(g) \/ LoopExit(g) \/ LoopReject(g) \/ LoopNoop(g) \/ LoopPlan(g)
  \/ StoreCommit(g) \/ LoopComplete(g) \/ LoopNotify(g)

StopStep ==
  \/ StopProcessingDrained \/ StopProcessingDied \/ StopProcessingTimeout
  \/ StopProcessingReaped \/ StopProcessingReapedDead \/ StopPutSentinel
  \/ StopObserverDrained \/ StopObserverTimeout \/ StopObserverReaped

Next ==
  \/ \E r \in Requests : (\E m \in Mutations : Submit(r, m)) \/ CallerGone(r)
  \/ \E g \in Gens : \/ LoopStep(g) \/ LoopStoreError(g) \/ LoopDies(g)
                     \/ LoopCancelled(g) \/ LoopIgnoresCancel(g)
                     \/ ObsTake(g) \/ ObsReturn(g) \/ ObsDies(g)
                     \/ ObsCancelled(g) \/ ObsIgnoresCancel(g)
  \/ Start \/ StartRollback
  \/ StopBegin \/ BudgetExpires \/ StopStep
  \/ HardDeadline \/ StopCancelForwarded \/ StopAborted

Spec == Init /\ [][Next]_vars

(* What the event loop guarantees by itself: timers fire (so a polling     *)
(* loop looks at its queue again), a thrown CancelledError is delivered    *)
(* (or swallowed), and stop() resumes when what it awaits is done.         *)
LoopFairness ==
  /\ WF_vars(StopStep)
  /\ WF_vars(BudgetExpires)
  /\ WF_vars(HardDeadline)
  /\ \A g \in Gens : /\ WF_vars(LoopTake(g) \/ LoopExit(g))
                     /\ WF_vars(ObsTake(g))
                     /\ WF_vars(LoopCancelled(g) \/ LoopIgnoresCancel(g))
                     /\ WF_vars(ObsCancelled(g) \/ ObsIgnoresCancel(g))

(* What a property assumes when it needs persistence, the bus and the      *)
(* observers to return: the two loops go on.                               *)
CallsReturn ==
  \A g \in Gens : /\ WF_vars(LoopStep(g))
                  /\ WF_vars(ObsTake(g) \/ ObsReturn(g))

FairSpec == Spec /\ LoopFairness

----------------------------------------------------------------------------
StoreOK ==
  /\ rows \in [TaskIds -> Task \cup {None}]
  /\ versions \in [TaskIds -> Nat]

LifeOK ==
  /\ running \in BOOLEAN /\ unrestartable \in BOOLEAN
  /\ starts \in 0..MaxStarts
  /\ processingTask \in 0..starts /\ observerTask \in 0..starts

CallOK ==
  /\ queue \in Seq(Requests) /\ inFlight \in Requests \cup {None}
  /\ mutation \in [Requests -> Mutations \cup {None}]
  /\ reply \in [Requests -> Reply]

ProcOK ==
  /\ procPc \in [Gens -> {"none", "poll", "dispatch", "save", "saved", "publish",
                         "exited", "died", "cancelled"}]
  /\ env \in [Gens -> Requests \cup {None}]
  /\ plan \in [Gens -> Task \cup {None}]

ObsOK ==
  /\ observerQueue \in Seq(Requests \cup {Sentinel})
  /\ obsPc \in [Gens -> {"none", "poll", "notify", "exited", "died", "cancelled"}]
  /\ told \in Seq(Requests)

StopOK ==
  /\ stopPc \in {"idle", "drainProcessing", "reapProcessing", "putSentinel",
                 "drainObserver", "reapObserver"}
  /\ expired \in BOOLEAN /\ hardExpired \in BOOLEAN
  /\ saved \in Requests \cup {None}

(* Every variable keeps its type.                                          *)
TypeOK ==
  /\ StoreOK /\ LifeOK /\ CallOK /\ ProcOK /\ ObsOK /\ StopOK
  /\ cancelling \subseteq ({"processing", "observer"} \X Gens)
  /\ applied \in Seq(Requests)

(* Single writer: however start(), stop(), time-outs, cancellations and    *)
(* dying loops interleave, at most one processing loop is alive (the       *)
(* purpose of _lifecycle_lock and _unrestartable).                         *)
SingleWriter == \A g, h \in LiveProc : g = h

(* No request is stranded: a future that is still pending belongs to an    *)
(* envelope in the queue, in the hands of a live processing loop, or       *)
(* remembered by the drain that cancelled that loop.                       *)
PendingIsHeld ==
  \A r \in Requests : reply[r].code = "pending" =>
    \/ r \in Range(queue)
    \/ \E g \in LiveProc : env[g] = r
    \/ stopPc = "reapProcessing" /\ saved = r

Writes(r) == ~(mutation[r].type = "update" /\ mutation[r].updates = NoUpdates)
Rejection == {"not_found", "version_conflict", "validation", "not_running", "queue_full"}

(* The answer tells the truth: a request is applied at most once, one that *)
(* was answered with success is applied, and one that was refused is not.  *)
ReplyMatchesEffect ==
  /\ \A i, j \in DOMAIN applied : applied[i] = applied[j] => i = j
  /\ \A r \in Requests :
       /\ reply[r].code = "ok" /\ Writes(r) => r \in Range(applied)
       /\ reply[r].code \in Rejection => r \notin Range(applied)

SameTask(q, r) == TaskOf(q, mutation[q]) = TaskOf(r, mutation[r])

(* Versions order the writes of a task: of two successful writes, the      *)
(* earlier one was answered with the smaller version, and the later one,   *)
(* if it named an expected_version, had seen the earlier one (no lost      *)
(* update), although the counter is bumped only after the row is saved.    *)
VersionsOrderWrites ==
  \A i, j \in DOMAIN applied :
    LET q == applied[i]
        r == applied[j]
    IN i < j /\ SameTask(q, r) /\ reply[q].code = "ok" /\ reply[r].code = "ok" =>
         /\ mutation[r].type # "delete" => reply[q].version < reply[r].version
         /\ mutation[r].expected_version # None =>
              reply[q].version <= mutation[r].expected_version

(* Observers are told of successful mutations only, each at most once, and *)
(* in the order in which the rows were written.                            *)
ToldInOrder ==
  \A i, j \in DOMAIN told :
    /\ told[i] = told[j] => i = j
    /\ Writes(told[i]) => told[i] \in Range(applied)
    /\ i < j => \A k, l \in DOMAIN applied :
                  applied[k] = told[i] /\ applied[l] = told[j] => k < l

(* A stop() that returned has drained everything: unless it gave the       *)
(* engine up, or re-raised the error a processing loop had died of, no     *)
(* loop is left running and no caller is left waiting.                     *)
StopDrains ==
  starts > 0 /\ ~running /\ stopPc = "idle" /\ ~unrestartable /\ ~LoopDied =>
    /\ LiveProc = {} /\ LiveObs = {}
    /\ \A r \in Requests : reply[r].code # "pending"

(* A running engine has both of its loops: what start() promises to a      *)
(* submit() that sees _running = True.                                     *)
BothLoopsCommitted == running => processingTask \in LiveProc /\ observerTask \in LiveObs

(* No second observer loop is ever attached beside an older one.           *)
OneObserverLoop == \A g, h \in LiveObs : g = h

(* Stored tasks only move along VALID_TRANSITIONS, keep a consistent       *)
(* assignee, and a deleted task never comes back, although every mutation  *)
(* reads its row in one step and saves it in a later one.                  *)
RowsEvolve ==
  [][\A t \in TaskIds :
       /\ rows'[t] # None => ConsistentAssignment(rows'[t])
       /\ rows[t] # None /\ rows'[t] # None =>
            \/ rows'[t].status = rows[t].status
            \/ TransitionAllowed(rows[t].status, rows'[t].status)
       /\ rows[t] = None /\ rows'[t] # None =>
            \A r \in Range(applied) : TaskOf(r, mutation[r]) # t]_vars

(* Every admitted request is answered, if the calls to persistence, the    *)
(* bus and the observers return and no processing loop dies.               *)
Answered ==
  CallsReturn /\ []~LoopDied =>
    \A r \in Requests : reply[r].code = "pending" ~> reply[r].code # "pending"

(* stop() ends, and releases the lifecycle lock, whatever the loops wait   *)
(* for.                                                                    *)
StopTerminates == stopPc # "idle" ~> stopPc = "idle"
=============================================================================
