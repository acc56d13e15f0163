---------------------------- MODULE TaskDispatch ----------------------------
(***************************************************************************)
(* The distributed task queue (workers/): the dispatcher that observes the *)
(* task engine and publishes a claim for every task that becomes ASSIGNED, *)
(* the JetStream work queue, and a pool of workers that execute claims.    *)
(*                                                                         *)
(* The engine hands its observers one event at a time and waits for them.  *)
(* JetStream, the executor and the orchestrator that restarts the worker   *)
(* process are external: a publication may be stored although it raises, a *)
(* delivery comes back when the ack deadline passes, and a claim that was  *)
(* delivered MaxDeliver times stays in the stream and is not delivered     *)
(* again.  Malformed messages, which this code never publishes and which   *)
(* next_claim() acks and drops, are left out.                              *)
(***************************************************************************)
EXTENDS Naturals, Sequences

CONSTANTS Changes,      \* the task-state changes the engine reports, in order
          Workers, None,
          MaxAttempts,  \* _PUBLISH_MAX_ATTEMPTS
          MaxDeliver,   \* max_deliver of the consumer
          MaxDeaths,    \* bound on the deaths of the worker process
          Faults

(* "nats_error"      a publication raises, stored or not                   *)
(* "queue_stops"     the API process stops its queue client                *)
(* "finalize_error"  an ack or nak raises, applied or not                  *)
(* "worker_dies"     the worker process is killed, or a fetch raises       *)
FaultKinds == {"nats_error", "queue_stops", "finalize_error", "worker_dies"}

Events == DOMAIN Changes

(* _is_dispatchable()                                                      *)
Dispatchable(e) == Changes[e].new = "ASSIGNED" /\ Changes[e].previous # Changes[e].new

(* <<e, n>>: what the n-th attempt to publish the claim of event e stored  *)
Claims == {e \in Events : Dispatchable(e)} \X (1..MaxAttempts)

VARIABLES observed,  \* how many events the dispatcher was handed
          disp,      \* where on_task_state_changed() is
          outcome,   \* what came of each event
          client,    \* the queue client: "up", "closing" (inside stop()) or "down"
          stream,    \* the work-queue stream
          worker,    \* the workers of the pool
          verdicts,  \* claims for which an execution returned SUCCESS or FAILED
          deaths

dispatcherVars == <<observed, disp, outcome, client>>
poolVars == <<worker, verdicts, deaths>>
vars == <<dispatcherVars, stream, poolVars>>

Absent == [status |-> "absent", deliveries |-> 0]
Ready == [status |-> "ready", deliveries |-> 0]
Polling == [pc |-> "poll", msg |-> None, status |-> None]
Down == [pc |-> "down", msg |-> None, status |-> None]
Idle == [pc |-> "idle", attempt |-> 0]

Init ==
  /\ observed = 0 /\ disp = Idle /\ outcome = [e \in Events |-> "none"] /\ client = "up"
  /\ stream = [m \in Claims |-> Absent]
  /\ worker = [w \in Workers |-> Polling] /\ verdicts = {} /\ deaths = 0

----------------------------------------------------------------------------
(* The dispatcher.                                                         *)

IsRunning == client = "up"

Ends(e, result) == disp' = Idle /\ outcome' = [outcome EXCEPT ![e] = result]

Observe ==
  /\ disp.pc = "idle" /\ observed < Len(Changes)
  /\ observed' = observed + 1
  /\ LET e == observed + 1 IN
       \/ ~Dispatchable(e) /\ Ends(e, "ignored")
       \/ Dispatchable(e) /\ ~IsRunning /\ Ends(e, "dropped")
       \/ /\ Dispatchable(e) /\ IsRunning
          /\ disp' = [pc |-> "publish", attempt |-> 1] /\ UNCHANGED outcome
  /\ UNCHANGED <<client, stream, poolVars>>

ThisClaim == <<observed, disp.attempt>>
Store(m) == stream' = [stream EXCEPT ![m] = Ready]

Publish ==
  /\ disp.pc = "publish" /\ client # "down"
  /\ Store(ThisClaim) /\ Ends(observed, "enqueued")
  /\ UNCHANGED <<observed, client, poolVars>>

(* mutant: the attempts are not counted                                    *)
RetryForever ==
  /\ disp' = [pc |-> "backoff", attempt |-> 0]
  /\ UNCHANGED outcome

Retry ==
  \/ /\ disp.attempt < MaxAttempts
     /\ disp' = [disp EXCEPT !.pc = "backoff"] /\ UNCHANGED outcome
  \/ disp.attempt = MaxAttempts /\ Ends(observed, "exhausted")

(* publish_claim() raises: the client is stopped, or NATS fails, with or   *)
(* without the message stored                                              *)
PublishRaises ==
  /\ disp.pc = "publish"
  /\ \/ client = "down" /\ UNCHANGED stream
     \/ "nats_error" \in Faults /\ client # "down" /\ (Store(ThisClaim) \/ UNCHANGED stream)
  /\ Retry
  /\ UNCHANGED <<observed, client, poolVars>>

Backoff ==
  /\ disp.pc = "backoff"
  /\ disp' = [pc |-> "publish", attempt |-> disp.attempt + 1]
  /\ UNCHANGED <<observed, outcome, client, stream, poolVars>>

(* stop(), at shutdown: is_running is cleared, and once the connection is  *)
(* drained there is no JetStream context any more.  start() comes before   *)
(* the first event.                                                        *)
StopQueue ==
  /\ "queue_stops" \in Faults
  /\ \/ client = "up" /\ client' = "closing"
     \/ client = "closing" /\ client' = "down"
  /\ UNCHANGED <<observed, disp, outcome, stream, poolVars>>

----------------------------------------------------------------------------
(* JetStream: redelivery, acknowledgement.                                 *)

(* mutant: the consumer is created without max_deliver                     *)
RequeueUnlimited(m) ==
  stream' = [stream EXCEPT ![m].status = "ready"]

Requeue(m) ==
  stream' = [stream EXCEPT ![m].status =
               IF stream[m].deliveries < MaxDeliver THEN "ready" ELSE "exhausted"]

AckWaitPasses(m) ==
  /\ stream[m].status = "out" /\ Requeue(m)
  /\ UNCHANGED <<dispatcherVars, poolVars>>

Ack(m) ==
  \/ stream' = [stream EXCEPT ![m].status = "gone"]
  \/ stream[m].status = "exhausted" /\ UNCHANGED stream
Nak(m) ==
  \/ stream[m].status = "out" /\ Requeue(m)
  \/ stream[m].status # "out" /\ UNCHANGED stream

----------------------------------------------------------------------------
(* The workers.                                                            *)

Becomes(w, state) == worker' = [worker EXCEPT ![w] = state]

NextClaim(w) ==
  /\ worker[w].pc = "poll"
  /\ \E m \in Claims :
       /\ stream[m].status = "ready"
       /\ stream' = [stream EXCEPT ![m] = [status |-> "out",
            deliveries |-> IF @.deliveries < MaxDeliver THEN @.deliveries + 1 ELSE @.deliveries]]
       /\ Becomes(w, [Polling EXCEPT !.pc = "execute", !.msg = m])
  /\ UNCHANGED <<dispatcherVars, verdicts, deaths>>

(* the executor returns SUCCESS or FAILED, or returns RETRY or raises      *)
ExecuteClaim(w) ==
  /\ worker[w].pc = "execute"
  /\ \/ /\ Becomes(w, [worker[w] EXCEPT !.pc = "finalize", !.status = "terminal"])
        /\ verdicts' = verdicts \cup {worker[w].msg}
     \/ /\ Becomes(w, [worker[w] EXCEPT !.pc = "finalize", !.status = "retry"])
        /\ UNCHANGED verdicts
  /\ UNCHANGED <<dispatcherVars, stream, deaths>>

(* mutant: RETRY is acked as well                                          *)
SettleAcked(w) == Ack(worker[w].msg)

Settle(w) ==
  \/ worker[w].status = "terminal" /\ Ack(worker[w].msg)
  \/ worker[w].status = "retry" /\ Nak(worker[w].msg)

FinalizeClaim(w) ==
  /\ worker[w].pc = "finalize"
  /\ Settle(w) /\ Becomes(w, Polling)
  /\ UNCHANGED <<dispatcherVars, verdicts, deaths>>

(* the failure is re-raised, so the task group cancels the other workers   *)
(* and the process ends                                                    *)
FinalizeFails(w) ==
  /\ "finalize_error" \in Faults /\ worker[w].pc = "finalize"
  /\ Settle(w) \/ UNCHANGED stream
  /\ worker' = [v \in Workers |-> Down]
  /\ UNCHANGED <<dispatcherVars, verdicts, deaths>>

PoolDies ==
  /\ "worker_dies" \in Faults /\ deaths < MaxDeaths
  /\ \E w \in Workers : worker[w].pc # "down"
  /\ deaths' = deaths + 1 /\ worker' = [w \in Workers |-> Down]
  /\ UNCHANGED <<dispatcherVars, stream, verdicts>>

PoolStarts ==
  /\ \A w \in Workers : worker[w].pc = "down"
  /\ worker' = [w \in Workers |-> Polling]
  /\ UNCHANGED <<dispatcherVars, stream, verdicts, deaths>>

DispatcherStep == Observe \/ Publish \/ PublishRaises \/ Backoff
WorkerStep(w) == NextClaim(w) \/ ExecuteClaim(w) \/ FinalizeClaim(w)

Next ==
  \/ DispatcherStep \/ StopQueue \/ PoolDies \/ PoolStarts
  \/ \E w \in Workers : WorkerStep(w) \/ FinalizeFails(w)
  \/ \E m \in Claims : AckWaitPasses(m)

Spec == Init /\ [][Next]_vars

(* Publications return, executions end, the server's ack timer fires and   *)
(* the orchestrator restarts the worker process.                           *)
Fairness ==
  /\ WF_vars(DispatcherStep) /\ WF_vars(PoolStarts)
  /\ \A w \in Workers : WF_vars(WorkerStep(w))
  /\ \A m \in Claims : WF_vars(AckWaitPasses(m))
FairSpec == Spec /\ Fairness

----------------------------------------------------------------------------
(* At least once: a claim leaves the work queue only after an execution of *)
(* it ended with SUCCESS or FAILED -- not when an execution raised, when   *)
(* its worker died, or when an ack got lost or came late.                  *)
AckedWasExecuted ==
  \A m \in Claims : stream[m].status = "gone" => m \in verdicts

(* The dispatcher gives the engine's observer loop back, even when every   *)
(* attempt to publish fails, and tells the truth about the event: the one  *)
(* it reports as enqueued has a claim in the stream, whatever the attempts *)
(* before the last one did.                                                *)
ObserverReturns ==
  disp.pc # "idle" ~>
    /\ disp.pc = "idle"
    /\ \A e \in Events :
         outcome[e] = "enqueued" => \E m \in Claims : m[1] = e /\ stream[m].status # "absent"

(* A stored claim does not circulate for ever: it is acked, or delivered *)
(* MaxDeliver times and given up, whatever executors and workers do.       *)
ClaimsSettle ==
  \A m \in Claims :
    stream[m].status \in {"ready", "out"} ~> stream[m].status \in {"gone", "exhausted"}

(* Every enqueued claim comes to a verdict: it is executed to SUCCESS or   *)
(* FAILED, or, when max_deliver attempts failed, the dispatcher fails the  *)
(* task.  (No code does the latter, so no action of this module does.)     *)
ClaimsGetVerdict ==
  \A m \in Claims : stream[m].status = "ready" ~> m \in verdicts
=============================================================================
