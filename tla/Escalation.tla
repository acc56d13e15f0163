----------------------------- MODULE Escalation -----------------------------
(***************************************************************************)
(* The human escalation queue: resolve() of                                *)
(* communication/conflict_resolution/human_strategy.py, its registry of    *)
(* futures, the store (persistence/postgres/escalation_repo.py), the two   *)
(* endpoints of api/controllers/escalations.py, the expiration sweeper and *)
(* the subscriber that carries decisions between API workers.              *)
(*                                                                         *)
(* One call of resolve() creates one escalation, so a resolver and its     *)
(* escalation share a name.  An action is the code between two suspension  *)
(* points.  The awaits under asyncio.shield are tasks of their own: they   *)
(* finish even when the resolver that waits for them is cancelled.         *)
(* Time is the set `due' of the escalations whose expires_at has passed; a *)
(* resolver starts to wait after expires_at was computed, so its deadline  *)
(* comes no earlier.                                                       *)
(***************************************************************************)
EXTENDS Sequences, Naturals

CONSTANTS Resolvers, Requests, Workers, Decisions, Conflicts,
          None,
          Home,        \* the worker that runs each resolver
          ConflictOf,  \* the conflict each resolver was called with
          Accepted,    \* the decisions the configured processor accepts
          HasTimeout,  \* default_timeout_seconds is not None
          Shared,      \* the store publishes transitions to all workers (Postgres)
          Faults

(* "store_error"   a store call raises, before or after it committed       *)
(* "notify_lost"   a publication fails, or a subscriber loses its channel  *)
(* "cancelled"     the task that runs resolve() is cancelled               *)
(* "shutdown"      a worker closes its registry                            *)
(* "crash"         a worker dies and is restarted                          *)
FaultKinds == {"store_error", "notify_lost", "cancelled", "shutdown", "crash"}

Status == {"none", "pending", "decided", "expired", "cancelled"}
Terminal == {"decided", "expired", "cancelled"}
Outcome == {"none", "timeout", "cancelled", "raised", "aborted", "dead"}

ASSUME EscalationAssumption ==
  /\ Home \in [Resolvers -> Workers] /\ ConflictOf \in [Resolvers -> Conflicts]
  /\ Accepted \subseteq Decisions
  /\ HasTimeout \in BOOLEAN /\ Shared \in BOOLEAN
  /\ Faults \subseteq FaultKinds
  /\ None \notin Decisions /\ None \notin Requests /\ "system" \notin Requests
  /\ Decisions \cap (Outcome \cup {"pending"}) = {}
  /\ Resolvers \cap Requests = {} /\ Resolvers \cap Workers = {} /\ Requests \cap Workers = {}

Actors == Resolvers \cup Requests \cup Workers

VARIABLES
  rows,        \* the table conflict_escalations
  due,         \* escalations whose expires_at has passed
  registered,  \* ids in the registries (an id is registered at Home[id])
  future,      \* the future of each resolver
  pc,          \* where each resolver is suspended
  decision,    \* its local decision
  task,        \* the shielded task it started last
  result,      \* what resolve() returned
  op,          \* the operators' requests
  unpublished, \* transitions an actor committed and has not published yet
  inbox,       \* notifications on their way to each worker's subscriber
  listening,   \* workers whose subscriber has its channel open
  inTime       \* history: resolvers that were waiting when their decision was stored,
               \* unless a fault has kept them from seeing it

resolverVars == <<pc, decision, task, result>>
registryVars == <<registered, future>>
channelVars == <<unpublished, inbox, listening>>
vars == <<rows, due, registryVars, resolverVars, op, channelVars, inTime>>

Row == [status : Status, decision : Decisions \cup {None}, by : Requests \cup {None, "system"}]
ResolverPc == {"idle", "create", "wait", "late", "late_drop", "expire_drop", "expire",
               "cancel_drop", "cancel", "decided_by", "done"}
NoRow == [status |-> "none", decision |-> None, by |-> None]
NoOp == [pc |-> "idle", kind |-> "decide", worker |-> None, target |-> None,
         decision |-> None, answer |-> "none"]

Init ==
  /\ rows = [r \in Resolvers |-> NoRow] /\ due = {}
  /\ registered = {} /\ future = [r \in Resolvers |-> "none"]
  /\ pc = [r \in Resolvers |-> "idle"] /\ decision = [r \in Resolvers |-> None]
  /\ task = [r \in Resolvers |-> "none"] /\ result = [r \in Resolvers |-> "none"]
  /\ op = [q \in Requests |-> NoOp]
  /\ unpublished = [a \in Actors |-> {}] /\ inbox = [w \in Workers |-> << >>]
  /\ listening = Workers /\ inTime = {}

----------------------------------------------------------------------------
(* The registry of pending futures.                                        *)

Settle(r, value) ==
  /\ registered' = registered \ {r}
  /\ future' = IF r \in registered /\ future[r] = "pending"
                 THEN [future EXCEPT ![r] = value] ELSE future

(* registry.resolve() and registry.cancel() at worker w                    *)
RegistryResolve(w, r, d) == IF Home[r] = w THEN Settle(r, d) ELSE UNCHANGED registryVars
RegistryCancel(w, r) == IF Home[r] = w THEN Settle(r, "cancelled") ELSE UNCHANGED registryVars

(* The store: each transition is one conditional UPDATE.                   *)

PendingRow(r) == rows[r].status = "pending"
DuePending == {r \in due : PendingRow(r)}
Conflicting(r) == \E s \in Resolvers : PendingRow(s) /\ ConflictOf[s] = ConflictOf[r]

Decided(d, q) == [status |-> "decided", decision |-> d, by |-> q]
Cancelled(by) == [status |-> "cancelled", decision |-> None, by |-> by]
Expired == [status |-> "expired", decision |-> None, by |-> "system"]

StoreTerminal(r, row) == rows' = [rows EXCEPT ![r] = row]

(* mutant: no `status = 'pending'' in the UPDATE                           *)
MarkAnyExpired ==
  rows' = [r \in Resolvers |->
             IF r \in due /\ rows[r].status # "none"
               THEN [rows[r] EXCEPT !.status = "expired", !.by = "system"] ELSE rows[r]]

MarkExpired == rows' = [r \in Resolvers |-> IF r \in DuePending THEN Expired ELSE rows[r]]
ToPublish(a, S) == unpublished' = [unpublished EXCEPT ![a] = IF Shared THEN S ELSE {}]

Finish(r, outcome) ==
  /\ pc' = [pc EXCEPT ![r] = "done"]
  /\ result' = [result EXCEPT ![r] = outcome]

----------------------------------------------------------------------------
(* resolve(): register the future, create the row, wait.                   *)

Start(r) ==
  /\ pc[r] = "idle"
  /\ pc' = [pc EXCEPT ![r] = "create"]
  /\ registered' = registered \cup {r}
  /\ future' = [future EXCEPT ![r] = "pending"]
  /\ UNCHANGED <<rows, due, decision, task, result, op, channelVars, inTime>>

Create(r) ==
  /\ pc[r] = "create"
  /\ \/ /\ ~Conflicting(r)
        /\ StoreTerminal(r, [NoRow EXCEPT !.status = "pending"])
        /\ pc' = [pc EXCEPT ![r] = "wait"]
        /\ UNCHANGED <<registryVars, result>>
     \/ /\ Conflicting(r)
        /\ Settle(r, "cancelled")
        /\ Finish(r, "raised")
        /\ UNCHANGED rows
  /\ UNCHANGED <<due, decision, task, op, channelVars, inTime>>

(* the INSERT raises: the future is reaped, the row may be there all the   *)
(* same when it was the acknowledgement that got lost                      *)
CreateFails(r) ==
  /\ "store_error" \in Faults /\ pc[r] = "create"
  /\ \/ UNCHANGED rows
     \/ ~Conflicting(r) /\ StoreTerminal(r, [NoRow EXCEPT !.status = "pending"])
  /\ Settle(r, "cancelled")
  /\ Finish(r, "raised")
  /\ UNCHANGED <<due, decision, task, op, channelVars, inTime>>

PassDeadline(r) ==
  /\ HasTimeout /\ pc[r] # "idle" /\ r \notin due
  /\ due' = due \cup {r}
  /\ UNCHANGED <<rows, registryVars, resolverVars, op, channelVars, inTime>>

(* the future is done and the resolver runs again                          *)
Wake(r) ==
  /\ pc[r] = "wait" /\ future[r] # "pending"
  /\ \/ /\ future[r] = "cancelled"
        /\ pc' = [pc EXCEPT ![r] = "cancel_drop"]
        /\ task' = [task EXCEPT ![r] = "drop"]
        /\ UNCHANGED decision
     \/ /\ future[r] \in Decisions
        /\ pc' = [pc EXCEPT ![r] = "decided_by"]
        /\ decision' = [decision EXCEPT ![r] = future[r]]
        /\ UNCHANGED task
  /\ UNCHANGED <<rows, due, registryVars, result, op, channelVars, inTime>>

(* _resolve_decided_by() reads the row (an error makes it "human"), then   *)
(* the processor turns the decision into the resolution                    *)
ReadDecidedBy(r) ==
  /\ pc[r] = "decided_by"
  /\ Finish(r, decision[r])
  /\ UNCHANGED <<rows, due, registryVars, decision, task, op, channelVars, inTime>>

(* mutant: the deadline counts only while the row is pending              *)
TimeOutIfPending(r) ==
  /\ pc[r] = "wait" /\ r \in due /\ PendingRow(r)
  /\ future' = IF future[r] = "pending" THEN [future EXCEPT ![r] = "cancelled"] ELSE future
  /\ pc' = [pc EXCEPT ![r] = "late"]
  /\ UNCHANGED <<rows, due, registered, decision, task, result, op, channelVars, inTime>>

(* wait_for() gives up; it wins even when the future is already done but   *)
(* the resolver has not run since                                          *)
TimeOut(r) ==
  /\ pc[r] = "wait" /\ r \in due
  /\ future' = IF future[r] = "pending" THEN [future EXCEPT ![r] = "cancelled"] ELSE future
  /\ pc' = [pc EXCEPT ![r] = "late"]
  /\ UNCHANGED <<rows, due, registered, decision, task, result, op, channelVars, inTime>>

(* mutant: the row is not read again                                       *)
SkipLateDecision(r) ==
  /\ pc[r] = "late"
  /\ pc' = [pc EXCEPT ![r] = "expire_drop"]
  /\ task' = [task EXCEPT ![r] = "drop"]
  /\ UNCHANGED <<rows, due, registryVars, decision, result, op, channelVars, inTime>>

ReadLateDecision(r) ==
  /\ pc[r] = "late"
  /\ \/ /\ rows[r].status = "decided"
        /\ pc' = [pc EXCEPT ![r] = "late_drop"]
        /\ decision' = [decision EXCEPT ![r] = rows[r].decision]
        /\ UNCHANGED inTime
     \/ /\ rows[r].status # "decided" \/ "store_error" \in Faults
        /\ pc' = [pc EXCEPT ![r] = "expire_drop"]
        /\ inTime' = IF rows[r].status = "decided" THEN inTime \ {r} ELSE inTime
        /\ UNCHANGED decision
  /\ task' = [task EXCEPT ![r] = "drop"]
  /\ UNCHANGED <<rows, due, registryVars, result, op, channelVars>>

----------------------------------------------------------------------------
(* The shielded tasks, and the resolver that goes on when one is done.     *)

(* mutant: a future that is done is left to the garbage collector          *)
DropIfPending(r) ==
  /\ task[r] = "drop"
  /\ IF future[r] = "pending" THEN Settle(r, "cancelled") ELSE UNCHANGED registryVars
  /\ pc' = [pc EXCEPT ![r] = CASE pc[r] = "expire_drop" -> "expire"
                               [] pc[r] = "cancel_drop" -> "cancel"
                               [] OTHER -> "done"]
  /\ task' = [task EXCEPT ![r] = CASE pc[r] = "expire_drop" -> "expire"
                                   [] pc[r] = "cancel_drop" -> "cancel"
                                   [] OTHER -> "none"]
  /\ result' = IF pc[r] = "late_drop" THEN [result EXCEPT ![r] = decision[r]] ELSE result
  /\ UNCHANGED <<rows, due, decision, op, channelVars, inTime>>

(* registry.cancel(), then what the resolver does next                     *)
RunDrop(r) ==
  /\ task[r] = "drop"
  /\ Settle(r, "cancelled")
  /\ \/ /\ pc[r] = "late_drop"
        /\ Finish(r, decision[r])
        /\ task' = [task EXCEPT ![r] = "none"]
     \/ /\ pc[r] = "expire_drop"
        /\ pc' = [pc EXCEPT ![r] = "expire"]
        /\ task' = [task EXCEPT ![r] = "expire"]
        /\ UNCHANGED result
     \/ /\ pc[r] = "cancel_drop"
        /\ pc' = [pc EXCEPT ![r] = "cancel"]
        /\ task' = [task EXCEPT ![r] = "cancel"]
        /\ UNCHANGED result
     \/ /\ pc[r] = "done"
        /\ task' = [task EXCEPT ![r] = "none"]
        /\ UNCHANGED <<pc, result>>
  /\ UNCHANGED <<rows, due, decision, op, channelVars, inTime>>

(* store.mark_expired(), which expires every row that is due; its failure  *)
(* is logged and ignored                                                   *)
RunExpire(r) ==
  /\ task[r] = "expire"
  /\ task' = [task EXCEPT ![r] = "publish"]
  /\ \/ MarkExpired /\ ToPublish(r, DuePending)
     \/ "store_error" \in Faults /\ UNCHANGED <<rows, unpublished>>
  /\ UNCHANGED <<due, registryVars, pc, decision, result, op, inbox, listening, inTime>>

(* store.cancel(), refused when the row is not pending; every error is     *)
(* logged and ignored                                                      *)
RunCancel(r) ==
  /\ task[r] = "cancel"
  /\ task' = [task EXCEPT ![r] = "publish"]
  /\ \/ PendingRow(r) /\ StoreTerminal(r, Cancelled("system")) /\ ToPublish(r, {r})
     \/ /\ ~PendingRow(r) \/ "store_error" \in Faults
        /\ UNCHANGED <<rows, unpublished>>
  /\ UNCHANGED <<due, registryVars, pc, decision, result, op, inbox, listening, inTime>>

(* the store call returns once its notifications are out                   *)
EndTask(r) ==
  /\ task[r] = "publish" /\ unpublished[r] = {}
  /\ task' = [task EXCEPT ![r] = "none"]
  /\ \/ pc[r] = "expire" /\ Finish(r, "timeout")
     \/ pc[r] = "cancel" /\ Finish(r, "cancelled")
     \/ pc[r] = "done" /\ UNCHANGED <<pc, result>>
  /\ UNCHANGED <<rows, due, registryVars, decision, op, channelVars, inTime>>

(* The caller's task is cancelled.  Only the wait is covered by `except    *)
(* CancelledError'; anywhere else resolve() is left at once.               *)
CancelTask(r) ==
  /\ "cancelled" \in Faults
  /\ inTime' = inTime \ {r}
  /\ \/ /\ pc[r] = "wait"
        /\ future' = IF future[r] = "pending" THEN [future EXCEPT ![r] = "cancelled"] ELSE future
        /\ pc' = [pc EXCEPT ![r] = "cancel_drop"]
        /\ task' = [task EXCEPT ![r] = "drop"]
        /\ UNCHANGED <<rows, result>>
     \/ /\ pc[r] = "create"
        /\ \/ UNCHANGED rows
           \/ ~Conflicting(r) /\ StoreTerminal(r, [NoRow EXCEPT !.status = "pending"])
        /\ Finish(r, "aborted")
        /\ UNCHANGED <<future, task>>
     \/ /\ pc[r] \notin {"idle", "create", "wait", "done"}
        /\ Finish(r, "aborted")
        /\ UNCHANGED <<rows, future, task>>
  /\ UNCHANGED <<due, registered, decision, op, channelVars>>

----------------------------------------------------------------------------
(* The endpoints of the operators.                                         *)

Ended(q, answer) == op' = [op EXCEPT ![q].pc = "done", ![q].answer = answer]

(* why a request about r is refused (404, 409, 422), or "none"             *)
Refusal(r, acceptable) ==
  IF rows[r].status = "none" THEN "not_found"
  ELSE IF rows[r].status \in Terminal THEN "conflict"
  ELSE IF acceptable THEN "none" ELSE "invalid"

(* POST .../decision: the checks before the transition                     *)
SubmitDecision(q, w, r, d) ==
  /\ op[q].pc = "idle"
  /\ LET refusal == Refusal(r, d \in Accepted)
     IN op' = [op EXCEPT ![q] = [pc |-> IF refusal = "none" THEN "apply" ELSE "done",
                                 kind |-> "decide", worker |-> w, target |-> r,
                                 decision |-> d, answer |-> refusal]]
  /\ UNCHANGED <<rows, due, registryVars, resolverVars, channelVars, inTime>>

StoredInTime(r) ==
  inTime' = IF pc[r] = "wait" /\ future[r] = "pending" THEN inTime \cup {r} ELSE inTime

(* mutant: the UPDATE has no `AND status = 'pending''                      *)
ApplyUnconditionally(q) ==
  /\ op[q].pc = "apply"
  /\ LET r == op[q].target
     IN /\ StoreTerminal(r, Decided(op[q].decision, q))
        /\ ToPublish(q, {r})
        /\ StoredInTime(r)
        /\ op' = [op EXCEPT ![q].pc = "wake"]
  /\ UNCHANGED <<due, registryVars, resolverVars, inbox, listening>>

(* store.apply_decision()                                                  *)
ApplyDecision(q) ==
  /\ op[q].pc = "apply"
  /\ LET r == op[q].target
     IN \/ /\ PendingRow(r)
           /\ StoreTerminal(r, Decided(op[q].decision, q))
           /\ ToPublish(q, {r})
           /\ StoredInTime(r)
           /\ op' = [op EXCEPT ![q].pc = "wake"]
        \/ /\ ~PendingRow(r)
           /\ Ended(q, "conflict")
           /\ UNCHANGED <<rows, unpublished, inTime>>
  /\ UNCHANGED <<due, registryVars, resolverVars, inbox, listening>>

(* apply_decision() raises, perhaps after the commit                       *)
ApplyFails(q) ==
  /\ "store_error" \in Faults /\ op[q].pc = "apply"
  /\ LET r == op[q].target
     IN \/ UNCHANGED <<rows, inTime>>
        \/ /\ PendingRow(r)
           /\ StoreTerminal(r, Decided(op[q].decision, q))
           /\ StoredInTime(r)
  /\ Ended(q, "error")
  /\ UNCHANGED <<due, registryVars, resolverVars, channelVars>>

(* POST .../cancel: store.cancel() at once                                 *)
SubmitCancel(q, w, r) ==
  /\ op[q].pc = "idle"
  /\ LET refusal == Refusal(r, TRUE)
     IN /\ op' = [op EXCEPT ![q] = [pc |-> IF refusal = "none" THEN "wake" ELSE "done",
                                    kind |-> "cancel", worker |-> w, target |-> r,
                                    decision |-> None, answer |-> refusal]]
        /\ IF refusal = "none"
             THEN StoreTerminal(r, Cancelled(q)) /\ ToPublish(q, {r})
             ELSE UNCHANGED <<rows, unpublished>>
  /\ UNCHANGED <<due, registryVars, resolverVars, inbox, listening, inTime>>

(* ... which raises, perhaps after the commit                              *)
SubmitCancelFails(q, w, r) ==
  /\ "store_error" \in Faults /\ op[q].pc = "idle"
  /\ op' = [op EXCEPT ![q] = [pc |-> "done", kind |-> "cancel", worker |-> w, target |-> r,
                              decision |-> None, answer |-> "error"]]
  /\ \/ UNCHANGED rows
     \/ PendingRow(r) /\ StoreTerminal(r, Cancelled(q))
  /\ UNCHANGED <<due, registryVars, resolverVars, channelVars, inTime>>

(* the store call has returned: wake the resolver if it is registered here *)
WakeResolver(q) ==
  /\ op[q].pc = "wake" /\ unpublished[q] = {}
  /\ IF op[q].kind = "decide"
       THEN RegistryResolve(op[q].worker, op[q].target, op[q].decision)
       ELSE RegistryCancel(op[q].worker, op[q].target)
  /\ Ended(q, "ok")
  /\ UNCHANGED <<rows, due, resolverVars, channelVars, inTime>>

----------------------------------------------------------------------------
(* Notifications between workers, and the sweeper.                         *)

(* _publish_notify(): everyone who listens gets it                         *)
Publish(a) ==
  /\ \E r \in unpublished[a] :
       /\ unpublished' = [unpublished EXCEPT ![a] = @ \ {r}]
       /\ \/ inbox' = [w \in Workers |->
                          IF w \in listening
                            THEN Append(inbox[w], [id |-> r, status |-> rows[r].status])
                            ELSE inbox[w]]
          \/ "notify_lost" \in Faults /\ UNCHANGED inbox
  /\ UNCHANGED <<rows, due, registryVars, resolverVars, op, listening, inTime>>

(* mutant: cancelled rows are not forwarded                                *)
DispatchKnown(w) ==
  /\ inbox[w] # << >>
  /\ inbox' = [inbox EXCEPT ![w] = Tail(@)]
  /\ LET p == Head(inbox[w])
     IN CASE p.status = "decided" -> RegistryResolve(w, p.id, rows[p.id].decision)
          [] p.status = "expired" -> RegistryCancel(w, p.id)
          [] OTHER -> UNCHANGED registryVars
  /\ UNCHANGED <<rows, due, resolverVars, op, unpublished, listening, inTime>>

(* _dispatch_payload(): a terminal row never changes, so reading it and    *)
(* resolving the future are one step; a failed read drops the payload      *)
Dispatch(w) ==
  /\ inbox[w] # << >>
  /\ inbox' = [inbox EXCEPT ![w] = Tail(@)]
  /\ LET p == Head(inbox[w])
     IN \/ p.status = "decided" /\ RegistryResolve(w, p.id, rows[p.id].decision)
        \/ p.status \in {"expired", "cancelled"} /\ RegistryCancel(w, p.id)
        \/ p.status = "decided" /\ "store_error" \in Faults /\ UNCHANGED registryVars
  /\ UNCHANGED <<rows, due, resolverVars, op, unpublished, listening, inTime>>

(* the LISTEN connection breaks; _run() opens another one after a delay    *)
LoseChannel(w) ==
  /\ "notify_lost" \in Faults /\ w \in listening
  /\ listening' = listening \ {w}
  /\ inbox' = [inbox EXCEPT ![w] = << >>]
  /\ UNCHANGED <<rows, due, registryVars, resolverVars, op, unpublished, inTime>>

ReopenChannel(w) ==
  /\ w \notin listening
  /\ listening' = listening \cup {w}
  /\ UNCHANGED <<rows, due, registryVars, resolverVars, op, unpublished, inbox, inTime>>

(* mutant: only rows that a resolver still waits for are swept             *)
SweepRegistered(w) ==
  /\ unpublished[w] = {} /\ DuePending \cap registered # {}
  /\ rows' = [r \in Resolvers |-> IF r \in DuePending \cap registered THEN Expired ELSE rows[r]]
  /\ ToPublish(w, DuePending \cap registered)
  /\ UNCHANGED <<due, registryVars, resolverVars, op, inbox, listening, inTime>>

(* _sweep_once()                                                           *)
Sweep(w) ==
  /\ unpublished[w] = {} /\ DuePending # {}
  /\ MarkExpired /\ ToPublish(w, DuePending)
  /\ UNCHANGED <<due, registryVars, resolverVars, op, inbox, listening, inTime>>

----------------------------------------------------------------------------
(* A worker closes its registry at shutdown.                               *)
CloseRegistry(w) ==
  /\ "shutdown" \in Faults
  /\ LET mine == {r \in registered : Home[r] = w}
     IN /\ mine # {}
        /\ registered' = registered \ mine
        /\ future' = [r \in Resolvers |->
                        IF r \in mine /\ future[r] = "pending" THEN "cancelled" ELSE future[r]]
        /\ inTime' = inTime \ mine
  /\ UNCHANGED <<rows, due, resolverVars, op, channelVars>>

(* A worker dies: its coroutines, its registry and what was on the way to  *)
(* it are gone; the table stays.                                           *)
Crash(w) ==
  /\ "crash" \in Faults
  /\ LET here == {r \in Resolvers : Home[r] = w /\ pc[r] # "idle"}
         live == {r \in here : pc[r] # "done"}
         ops  == {q \in Requests : op[q].worker = w /\ op[q].pc \in {"apply", "wake"}}
     IN /\ live # {}
        /\ registered' = registered \ here
        /\ pc' = [r \in Resolvers |-> IF r \in live THEN "done" ELSE pc[r]]
        /\ result' = [r \in Resolvers |-> IF r \in live THEN "dead" ELSE result[r]]
        /\ task' = [r \in Resolvers |-> IF r \in here THEN "none" ELSE task[r]]
        /\ op' = [q \in Requests |->
                    IF q \in ops THEN [op[q] EXCEPT !.pc = "done", !.answer = "error"] ELSE op[q]]
        /\ unpublished' = [a \in Actors |-> IF a \in here \cup ops \cup {w} THEN {} ELSE unpublished[a]]
        /\ inTime' = inTime \ live
  /\ inbox' = [inbox EXCEPT ![w] = << >>]
  /\ UNCHANGED <<rows, due, future, decision, listening>>

----------------------------------------------------------------------------
ResolverStep(r) ==
  \/ Create(r) \/ CreateFails(r) \/ Wake(r) \/ ReadDecidedBy(r)
  \/ TimeOut(r) \/ ReadLateDecision(r)
  \/ RunDrop(r) \/ RunExpire(r) \/ RunCancel(r) \/ EndTask(r)

RequestStep(q) == ApplyDecision(q) \/ ApplyFails(q) \/ WakeResolver(q)

Next ==
  \/ \E r \in Resolvers : Start(r) \/ PassDeadline(r) \/ ResolverStep(r) \/ CancelTask(r)
  \/ \E q \in Requests :
       \/ \E w \in Workers, r \in Resolvers :
            \/ SubmitCancel(q, w, r) \/ SubmitCancelFails(q, w, r)
            \/ \E d \in Decisions : SubmitDecision(q, w, r, d)
       \/ RequestStep(q)
  \/ \E a \in Actors : Publish(a)
  \/ \E w \in Workers : \/ Dispatch(w) \/ LoseChannel(w) \/ ReopenChannel(w) \/ Sweep(w)
                         \/ CloseRegistry(w) \/ Crash(w)

Spec == Init /\ [][Next]_vars

(* The event loop runs every coroutine that can go on, store calls return, *)
(* timers fire, the sweeper and the subscribers keep running.  Operators   *)
(* owe nothing.                                                            *)
Fairness ==
  /\ \A r \in Resolvers : WF_vars(ResolverStep(r)) /\ WF_vars(PassDeadline(r))
  /\ \A q \in Requests : WF_vars(RequestStep(q))
  /\ \A a \in Actors : WF_vars(Publish(a))
  /\ \A w \in Workers : WF_vars(Dispatch(w)) /\ WF_vars(ReopenChannel(w)) /\ WF_vars(Sweep(w))

FairSpec == Spec /\ Fairness

----------------------------------------------------------------------------
(* Every variable has its type: in particular a row has the shapes the     *)
(* table's CHECK constraints allow, a decision being stored in a decided   *)
(* row and nowhere else.                                                   *)
TypeOK ==
  /\ rows \in [Resolvers -> Row]
  /\ \A r \in Resolvers : rows[r].decision # None <=> rows[r].status = "decided"
  /\ due \subseteq Resolvers /\ registered \subseteq Resolvers /\ inTime \subseteq Resolvers
  /\ future \in [Resolvers -> Decisions \cup {"none", "pending", "cancelled"}]
  /\ pc \in [Resolvers -> ResolverPc]
  /\ decision \in [Resolvers -> Decisions \cup {None}]
  /\ task \in [Resolvers -> {"none", "drop", "expire", "cancel", "publish"}]
  /\ result \in [Resolvers -> Decisions \cup Outcome]
  /\ op \in [Requests -> [pc : {"idle", "apply", "wake", "done"}, kind : {"decide", "cancel"},
                          worker : Workers \cup {None}, target : Resolvers \cup {None},
                          decision : Decisions \cup {None},
                          answer : {"none", "ok", "not_found", "conflict", "invalid", "error"}]]
  /\ unpublished \in [Actors -> SUBSET Resolvers]
  /\ inbox \in [Workers -> Seq([id : Resolvers, status : Terminal])]
  /\ listening \subseteq Workers

(* A decision that resolve() returns is the decision stored in its row,    *)
(* whichever way it came: the local endpoint, a notification from another  *)
(* worker, or the re-read after the timeout.                               *)
ResolutionIsStored ==
  \A r \in Resolvers : result[r] \in Decisions => rows[r].decision = result[r]

(* An operator who was told "ok" made the transition: no other operator,   *)
(* no expiry and no cleanup of the resolver is recorded in that row.       *)
AnswerIsStored ==
  \A q \in Requests : op[q].answer = "ok" =>
     /\ rows[op[q].target].by = q
     /\ rows[op[q].target].decision = op[q].decision

(* A row leaves PENDING once, and never changes again (the WHERE clause of *)
(* each UPDATE), whoever else decides, cancels, sweeps or cleans up.       *)
TerminalForever ==
  [][\A r \in Resolvers : rows[r].status \in Terminal => rows'[r] = rows[r]]_vars

(* At most one active escalation per conflict, with concurrent calls of    *)
(* resolve() for it on any workers.                                        *)
OnePendingPerConflict ==
  \A r, s \in Resolvers :
     PendingRow(r) /\ PendingRow(s) /\ ConflictOf[r] = ConflictOf[s] => r = s

(* A future is registered only while its resolver still runs ("so the      *)
(* registry does not leak"), whichever way resolve() ends: decided, timed  *)
(* out, refused by the store, cancelled by an operator or at shutdown.     *)
(* Only one that CancelledError took out of resolve() leaves it behind.    *)
RegistryHoldsLiveResolvers == \A r \in registered : pc[r] = "done" => result[r] = "aborted"

(* A decision stored while the resolver was waiting is what resolve()      *)
(* returns, even when the notification is lost or the deadline wins the    *)
(* race against the wake-up.  Only a cancelled call, a closed registry, a  *)
(* dead worker or a failed re-read keep the resolver from seeing it.       *)
InTimeDecisionIsReturned ==
  \A r \in inTime : pc[r] = "done" => result[r] = rows[r].decision

(* A resolver that gives up does not mask an operator's accepted decision. *)
NeverMasked ==
  \A r \in Resolvers : result[r] = "timeout" => rows[r].status # "decided"

(* With a timeout configured, resolve() always returns.                    *)
AlwaysReturns == \A r \in Resolvers : pc[r] = "create" ~> pc[r] = "done"

(* With a timeout configured no row stays pending, whatever became of its  *)
(* resolver: the sweeper outlives it.                                      *)
RowsSettle == \A r \in Resolvers : PendingRow(r) ~> ~PendingRow(r)

(* A resolver whose row was settled on any worker returns, also without a  *)
(* timeout of its own.                                                     *)
SettledIsNoticed == \A r \in Resolvers : rows[r].status \in Terminal ~> pc[r] = "done"
=============================================================================
