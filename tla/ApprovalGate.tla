---------------------------- MODULE ApprovalGate ----------------------------
(***************************************************************************)
(* How an agent waits for a human: the approval tool                       *)
(* (tools/approval_tool.py) submits approvals while the turn's tool calls  *)
(* run, the loop parks the context (engine/loop_tool_execution.py,         *)
(* park_context() of engine/approval_gate.py), somebody decides            *)
(* (api/controllers/approvals.py, the MCP handlers, the timeout scheduler) *)
(* and the HTTP controller resumes the parked context or hands the         *)
(* decision to the review gate (api/controllers/_approval_review_gate.py). *)
(*                                                                         *)
(* The approvals live in the book that ApprovalStore implements; its       *)
(* operations are used here as atomic steps.  The tool's approvals have no *)
(* expires_at.                                                             *)
(***************************************************************************)
EXTENDS Sequences, FiniteSetsExt

CONSTANTS Agents, Approvals, Requests, None,
          TurnOf,   \* the approvals an agent asks for in one turn, in tool-call order
          Entries,  \* how decisions come in: "http", "mcp", "timeout"
          Faults

(* "park_error"  serializing or persisting the context raises              *)
(* "cancelled"   the agent's task is cancelled while it parks              *)
(* "load_error"  the parked row cannot be read or deserialized             *)
(* "delete_error" the parked row cannot be deleted                         *)
(* "crash"       the process dies and is restarted                         *)
FaultKinds == {"park_error", "cancelled", "load_error", "delete_error", "crash"}

ASSUME ApprovalGateAssumption ==
  /\ TurnOf \in [Agents -> Seq(Approvals)]
  /\ Entries \subseteq {"http", "mcp", "timeout"}
  /\ Faults \subseteq FaultKinds
  /\ {None, "pending", "expired"} \cap Requests = {} /\ None \notin {"pending", "expired"}

VARIABLES book,        \* the approvals
          failed,      \* approvals whose tool call reported an error
          agent,       \* "turn" (tool calls run), "persist" and "persisted" (in
                       \* park_context()), "parked", "ended", "error", "cancelled", "dead"
          rows,        \* the table parked_contexts: agents with a row
          interrupt,   \* the interrupt of each agent
          resumes,     \* how often each context was resumed
          req          \* the decision requests

(* the answers to the requests are not told apart here                     *)
Book == INSTANCE ApprovalBook
          WITH Calls <- Requests, OldItems <- {None}, told <- [q \in Requests |-> "none"]

agentVars == <<failed, agent, rows, interrupt>>
vars == <<book, agentVars, resumes, req>>

ApprovalsOf(g) == {TurnOf[g][i] : i \in DOMAIN TurnOf[g]}

(* should_park(): the first escalation in the order of the tool calls      *)
Escalated(g) == {i \in DOMAIN TurnOf[g] : book[TurnOf[g][i]] # None /\ TurnOf[g][i] \notin failed}
ParkedFor(g) == TurnOf[g][Min(Escalated(g))]

NoRequest == [pc |-> "idle", entry |-> "http", target |-> None, found |-> None]

Init ==
  /\ Book!Init
  /\ failed = {} /\ rows = {} /\ agent = [g \in Agents |-> "turn"]
  /\ interrupt = [g \in Agents |-> "none"] /\ resumes = [g \in Agents |-> 0]
  /\ req = [q \in Requests |-> NoRequest]

----------------------------------------------------------------------------
(* The agent's turn and park_context().                                    *)

Moves(g, pc) == agent' = [agent EXCEPT ![g] = pc]

(* one call of the tool; add() may raise, stored or not                    *)
Ask(g, a) ==
  /\ agent[g] = "turn" /\ a \in ApprovalsOf(g) \ failed
  /\ \/ Book!Submit(a) /\ UNCHANGED failed
     \/ /\ book[a] = None /\ failed' = failed \cup {a}
        /\ Book!Submit(a) \/ UNCHANGED book
  /\ UNCHANGED <<agent, rows, interrupt, resumes, req>>

(* All tool calls are back.  An interrupt is emitted when the caller named *)
(* a session and the store accepts it.                                     *)
BeginPark(g) ==
  /\ agent[g] = "turn" /\ \A a \in ApprovalsOf(g) : book[a] # None \/ a \in failed
  /\ \/ Escalated(g) = {} /\ Moves(g, "ended") /\ UNCHANGED interrupt
     \/ /\ Escalated(g) # {} /\ Moves(g, "persist")
        /\ \E i \in {"none", "pending"} : interrupt' = [interrupt EXCEPT ![g] = i]
  /\ UNCHANGED <<book, failed, rows, resumes, req>>

PersistParked(g) ==
  /\ agent[g] = "persist"
  /\ rows' = rows \cup {g} /\ Moves(g, "persisted")
  /\ UNCHANGED <<book, failed, interrupt, resumes, req>>

(* the save returns; best-effort notification, then the PARKED result      *)
Parked(g) ==
  /\ agent[g] = "persisted" /\ Moves(g, "parked")
  /\ UNCHANGED <<book, failed, rows, interrupt, resumes, req>>

ResolveInterrupt(g) ==
  interrupt' = IF interrupt[g] = "pending" THEN [interrupt EXCEPT ![g] = "resolved"] ELSE interrupt

(* mutant: a failed park leaves its interrupt                              *)
ParkFailsUncompensated(g) ==
  /\ \/ "park_error" \in Faults /\ agent[g] = "persist"
     \/ "cancelled" \in Faults /\ agent[g] \in {"persist", "persisted"}
  /\ Moves(g, "error") /\ UNCHANGED interrupt
  /\ UNCHANGED <<book, failed, rows, resumes, req>>

(* an error or a cancellation: the interrupt is resolved in compensation   *)
ParkFails(g) ==
  /\ \/ "park_error" \in Faults /\ agent[g] = "persist"
     \/ "cancelled" \in Faults /\ agent[g] \in {"persist", "persisted"}
  /\ Moves(g, "error") /\ ResolveInterrupt(g)
  /\ UNCHANGED <<book, failed, rows, resumes, req>>

(* cancelled in the notification: the row and its interrupt stay           *)
NotifyCancelled(g) ==
  /\ "cancelled" \in Faults /\ agent[g] = "persisted" /\ Moves(g, "cancelled")
  /\ UNCHANGED <<book, failed, rows, interrupt, resumes, req>>

----------------------------------------------------------------------------
(* A decision: approve() / reject() over HTTP, _decide() of the MCP        *)
(* handlers, _evaluate_item() of the timeout scheduler.                    *)

Goes(q, r) == req' = [req EXCEPT ![q] = r]
At(q, pc) == req[q].pc = pc
Finished == {"done", "failed"}
Ends(q) == Goes(q, [NoRequest EXCEPT !.pc = "done"])
Fails(q) == Goes(q, [NoRequest EXCEPT !.pc = "failed"])

(* the approval is read and must be PENDING                                *)
Request(q, entry, a) ==
  /\ At(q, "idle") /\ entry \in Entries /\ book[a] = "pending"
  /\ Goes(q, [NoRequest EXCEPT !.pc = "got", !.entry = entry, !.target = a])
  /\ UNCHANGED <<book, agentVars, resumes>>

(* the review gate's preflight refuses, before anything is stored          *)
Preflight(q) ==
  /\ At(q, "got") /\ req[q].entry = "http"
  /\ Ends(q)
  /\ UNCHANGED <<book, agentVars, resumes>>

(* mutant: the controller does not look at what save_if_pending() returned *)
SaveIfPendingUnread(q) ==
  /\ At(q, "got")
  /\ Goes(q, [req[q] EXCEPT !.pc = "saved"])
  /\ \/ Book!Decide(req[q].target, q)
     \/ book[req[q].target] # "pending" /\ UNCHANGED book
  /\ UNCHANGED <<agentVars, resumes>>

SaveIfPending(q) ==
  /\ At(q, "got")
  /\ \/ Book!Decide(req[q].target, q) /\ Goes(q, [req[q] EXCEPT !.pc = "saved"])
     \/ book[req[q].target] # "pending" /\ Ends(q) /\ UNCHANGED book
  /\ UNCHANGED <<agentVars, resumes>>

(* mutant: the resume is not signalled                                     *)
ConfirmSilent(q) == At(q, "saved") /\ Ends(q) /\ UNCHANGED <<book, agentVars, resumes>>

(* only the HTTP controller signals the resume                             *)
Confirm(q) ==
  /\ At(q, "saved")
  /\ \/ req[q].entry = "http" /\ Goes(q, [req[q] EXCEPT !.pc = "load"])
     \/ req[q].entry # "http" /\ Ends(q)
  /\ UNCHANGED <<book, agentVars, resumes>>

----------------------------------------------------------------------------
(* signal_resume_intent() and resume_context().                            *)

RowFor(a) == {g \in rows : ParkedFor(g) = a}

LoadParked(q) ==
  /\ At(q, "load")
  /\ \/ \E g \in RowFor(req[q].target) : Goes(q, [req[q] EXCEPT !.pc = "loaded", !.found = g])
     \/ RowFor(req[q].target) = {} /\ Goes(q, [req[q] EXCEPT !.pc = "review"])
  /\ UNCHANGED <<book, agentVars, resumes>>

(* the row is kept; the error counts as handled                            *)
LoadFails(q) ==
  /\ "load_error" \in Faults /\ At(q, "load") /\ Fails(q)
  /\ UNCHANGED <<book, agentVars, resumes>>

(* _cleanup_parked() goes on whatever delete() says                        *)
DeleteParked(q) ==
  /\ At(q, "loaded")
  /\ \/ rows' = rows \ {req[q].found}
     \/ "delete_error" \in Faults /\ UNCHANGED rows
  /\ Goes(q, [req[q] EXCEPT !.pc = "deleted"])
  /\ UNCHANGED <<book, failed, agent, interrupt, resumes>>

ResumeContext(q) ==
  /\ At(q, "deleted")
  /\ LET g == req[q].found IN
     /\ ResolveInterrupt(g)
     /\ resumes' = [resumes EXCEPT ![g] = @ + 1]
  /\ Ends(q)
  /\ UNCHANGED <<book, failed, agent, rows>>

(* no parked context: complete_review() on the task, whatever comes of it  *)
ReviewTransition(q) ==
  /\ At(q, "review") /\ Ends(q)
  /\ UNCHANGED <<book, agentVars, resumes>>

Crash ==
  /\ "crash" \in Faults
  /\ agent' = [g \in Agents |->
                 IF agent[g] \in {"turn", "persist", "persisted"} THEN "dead" ELSE agent[g]]
  /\ interrupt' = [g \in Agents |-> "none"]
  /\ req' = [q \in Requests |-> IF req[q].pc \in {"idle"} \cup Finished THEN req[q]
                                ELSE [NoRequest EXCEPT !.pc = "failed"]]
  /\ UNCHANGED <<book, failed, rows, resumes>>

AgentStep(g) ==
  \/ \E a \in Approvals : Ask(g, a)
  \/ BeginPark(g) \/ PersistParked(g) \/ Parked(g)
RequestStep(q) ==
  \/ SaveIfPending(q) \/ Confirm(q) \/ LoadParked(q) \/ DeleteParked(q)
  \/ ResumeContext(q) \/ ReviewTransition(q)

Next ==
  \/ \E g \in Agents : AgentStep(g) \/ ParkFails(g) \/ NotifyCancelled(g)
  \/ \E q \in Requests : \/ \E entry \in Entries, a \in Approvals : Request(q, entry, a)
                         \/ Preflight(q) \/ RequestStep(q) \/ LoadFails(q)
  \/ Crash

Spec == Init /\ [][Next]_vars

(* Tool calls come back, the event loop runs the agents and the requests.  *)
(* Nobody has to decide.                                                   *)
FairSpec ==
  /\ Spec
  /\ \A g \in Agents : WF_vars(AgentStep(g))
  /\ \A q \in Requests : WF_vars(RequestStep(q))

----------------------------------------------------------------------------
(* A parked context is resumed at most once, and only after the approval   *)
(* it is parked on was decided: of several deciders only the one whose     *)
(* decision was saved goes on to resume, even when the delete of the row   *)
(* fails and the row stays.                                                *)
ResumedOnceDecided ==
  \A g \in Agents : resumes[g] > 0 => resumes[g] = 1 /\ book[ParkedFor(g)] \in Requests

(* An interrupt does not outlive the wait it announces: when parking       *)
(* failed, and when the agent was resumed, nothing is left to answer.      *)
InterruptsSettle ==
  \A g \in Agents : agent[g] = "error" \/ resumes[g] > 0 => interrupt[g] # "pending"

(* A context whose row is stored when the HTTP decision is saved gets      *)
(* resumed, unless reading the row fails or the process dies.              *)
StoredParkIsResumed ==
  \A q \in Requests, g \in Agents :
    At(q, "saved") /\ req[q].entry = "http" /\ g \in RowFor(req[q].target)
      ~> resumes[g] > 0 \/ At(q, "failed")

(* Execution is paused until a human decides: an agent that is parked and  *)
(* whose approvals are all decided is resumed.                             *)
PausedUntilDecided ==
  \A g \in Agents :
    agent[g] = "parked" /\ (\A a \in ApprovalsOf(g) : book[a] \in Requests) ~> resumes[g] > 0
=============================================================================
