------------------------- MODULE GateAndQueueProofs -------------------------
(***************************************************************************)
(* Safety of the approval gate and of the distributed task queue, for      *)
(* every value of their constants.                                         *)
(***************************************************************************)
EXTENDS GateAndQueue, TLAPS

----------------------------------------------------------------------------
(* The approval gate.                                                      *)

AgentPc == {"turn", "persist", "persisted", "parked", "ended", "error", "cancelled", "dead"}
RequestPc == {"idle", "got", "saved", "load", "loaded", "deleted", "review", "done", "failed"}
(* where a request has saved its decision, and where it knows the row      *)
Saved == {"saved", "load", "loaded", "deleted", "review"}
Found == {"loaded", "deleted"}

RequestType == [pc : RequestPc, entry : {"http", "mcp", "timeout"},
                target : Approvals \cup {None}, found : Agents \cup {None}]
GateType ==
  /\ book \in [Approvals -> {None, "pending", "expired"} \cup Requests]
  /\ agent \in [Agents -> AgentPc] /\ rows \subseteq Agents
  /\ interrupt \in [Agents -> {"none", "pending", "resolved"}]
  /\ resumes \in [Agents -> Nat]
  /\ req \in [Requests -> RequestType]

(* The tool calls of a turn are back; from then on the approval the agent  *)
(* is parked for stays the same.                                           *)
Asked(g) == \A a \in ApprovalsOf(g) : book[a] # None \/ a \in failed

(* What a request knows is true: its decision is the one in the book, and  *)
(* the context it found waits for that approval.                           *)
Knows(q) ==
  /\ req[q].pc \in Saved \cup {"got"} => req[q].target \in Approvals
  /\ req[q].pc \in Saved => book[req[q].target] = q
  /\ req[q].pc \in Found => req[q].found \in Agents
  /\ \A g \in Agents : req[q].pc \in Found /\ g = req[q].found =>
       agent[g] # "turn" /\ Asked(g) /\ ParkedFor(g) = req[q].target

(* A context that was resumed was resumed once, by a request that is over  *)
(* and decided the approval it was parked for.                             *)
ResumedBy(g) ==
  /\ resumes[g] = 1 /\ Asked(g) /\ ParkedFor(g) \in Approvals
  /\ \E q \in Requests : book[ParkedFor(g)] = q /\ req[q].pc \in Finished

GateInv ==
  /\ GateType
  /\ \A g \in Agents : agent[g] = "turn" => g \notin rows /\ resumes[g] = 0
  /\ \A g \in Agents : agent[g] = "persist" \/ g \in rows => Asked(g)
  /\ \A q \in Requests : Knows(q)
  /\ \A g \in Agents : resumes[g] > 0 => ResumedBy(g)
  /\ InterruptsSettle

(* The records of requests that move on.                                   *)
LEMMA RequestRecords ==
  ASSUME NEW r \in RequestType, NEW pc \in RequestPc, NEW g \in Agents \cup {None}
  PROVE  /\ [r EXCEPT !.pc = pc] \in RequestType
         /\ [r EXCEPT !.pc = pc, !.found = g] \in RequestType
         /\ [r EXCEPT !.pc = pc, !.found = g].pc = pc
         /\ [r EXCEPT !.pc = pc, !.found = g].found = g
         /\ [r EXCEPT !.pc = pc, !.found = g].target = r.target
  BY Zenon DEF RequestType

(* What no step of the gate does: take an approval or a decision back, or  *)
(* turn a tool call that reported back into a failed one.                  *)
BookStep ==
  \A a \in Approvals :
    /\ book[a] # None \/ a \in failed => (a \in failed' <=> a \in failed)
    /\ book[a] # None => book'[a] # None
    /\ book[a] \in Requests => book'[a] = book[a]

(* It holds initially.                                                     *)
LEMMA GateInit == Init => GateInv
<1> SUFFICES ASSUME Init PROVE GateInv
  BY Zenon
<1>1. /\ req = [q \in Requests |-> NoRequest] /\ resumes = [g \in Agents |-> 0] /\ rows = {}
      /\ agent = [g \in Agents |-> "turn"] /\ interrupt = [g \in Agents |-> "none"]
      /\ book \in [Approvals -> {None}]
  BY Zenon DEF Init, Book!Init
<1>2. GateType
  BY Zenon, <1>1 DEF GateType, NoRequest, AgentPc, RequestPc, RequestType
<1>3. \A q \in Requests : Knows(q)
  BY Zenon, <1>1 DEF Knows, NoRequest, Saved, Found
<1> QED
  BY <1>1, <1>2, <1>3 DEF GateInv, InterruptsSettle

(* A step of the gate keeps what is in the book.                           *)
LEMMA BookSteps ==
  ASSUME GateInv, [Next]_vars
  PROVE  BookStep
<1>a. GateType
  BY Zenon DEF GateInv
<1> USE ApprovalGateAssumption
<1>1. ASSUME NEW g \in Agents, NEW a \in Approvals, Ask(g, a) PROVE BookStep
  BY Zenon, <1>1, <1>a DEF Ask, Book!Submit, BookStep, GateType
<1>2. ASSUME NEW q \in Requests, SaveIfPending(q) PROVE BookStep
  BY Zenon, <1>2, <1>a DEF SaveIfPending, Book!Decide, BookStep, GateType, agentVars
<1>3. ASSUME UNCHANGED <<book, failed>> PROVE BookStep
  BY Zenon, <1>3 DEF BookStep
<1>4. CASE UNCHANGED vars
  BY Zenon, <1>4, <1>3 DEF vars, agentVars
<1>5. ASSUME NEW g \in Agents, AgentStep(g) \/ ParkFails(g) \/ NotifyCancelled(g) PROVE BookStep
  BY Zenon, <1>5, <1>1, <1>3 DEF AgentStep, BeginPark, PersistParked, Parked, ParkFails, NotifyCancelled
<1>6. ASSUME NEW q \in Requests, NEW entry \in Entries, NEW a \in Approvals, Request(q, entry, a)
      PROVE  BookStep
  BY Zenon, <1>6, <1>3 DEF Request, agentVars
<1>7. ASSUME NEW q \in Requests, Preflight(q) \/ RequestStep(q) \/ LoadFails(q) PROVE BookStep
  BY Zenon, <1>7, <1>2, <1>3 DEF Preflight, RequestStep, LoadFails, Confirm, LoadParked, DeleteParked,
     ResumeContext, ReviewTransition, agentVars
<1>8. CASE Crash
  BY Zenon, <1>8, <1>3 DEF Crash
<1> QED
  BY Zenon, <1>4, <1>5, <1>6, <1>7, <1>8 DEF Next

(* The approval an agent is parked for stays the same.                     *)
LEMMA AskedStays ==
  ASSUME BookStep, NEW g \in Agents, Asked(g)
  PROVE  Asked(g)' /\ ParkedFor(g)' = ParkedFor(g)
<1>1. ApprovalsOf(g) \subseteq Approvals /\ \A i \in DOMAIN TurnOf[g] : TurnOf[g][i] \in ApprovalsOf(g)
  BY ApprovalGateAssumption DEF ApprovalsOf
<1>2. Asked(g)'
  BY Zenon, <1>1 DEF Asked, BookStep, ApprovalsOf
<1>3. Escalated(g)' = Escalated(g)
  BY Zenon, <1>1 DEF Asked, BookStep, Escalated
<1> QED
  BY Zenon, <1>2, <1>3 DEF ParkedFor

AgentsGoOn == \A g \in Agents : agent'[g] = "turn" => agent[g] = "turn"

(* What a request knows stays true while it does not run.                  *)
LEMMA KnowsStays ==
  ASSUME GateInv, BookStep, AgentsGoOn, NEW q \in Requests, req'[q] = req[q]
  PROVE  Knows(q)'
<1>1. Knows(q)
  BY Zenon DEF GateInv
<1>2. req[q].pc \in Saved => book'[req[q].target] = q
  BY Zenon, <1>1 DEF Knows, BookStep
<1>3. ASSUME NEW g \in Agents, req[q].pc \in Found, g = req[q].found
      PROVE  agent'[g] # "turn" /\ Asked(g)' /\ ParkedFor(g)' = req[q].target
  <2>1. agent[g] # "turn" /\ Asked(g) /\ ParkedFor(g) = req[q].target
    BY Zenon, <1>1, <1>3 DEF Knows
  <2> QED
    BY Zenon, <2>1, AskedStays DEF AgentsGoOn
<1> QED
  BY Zenon, <1>1, <1>2, <1>3 DEF Knows, AgentsGoOn

RequestsStayOver == \A q \in Requests : req[q].pc \in Finished => req'[q].pc \in Finished

(* That a context was resumed by a decision stays true while it is not     *)
(* resumed again.                                                          *)
LEMMA ResumedStays ==
  ASSUME GateInv, BookStep, RequestsStayOver, NEW g \in Agents, resumes[g] > 0, resumes'[g] = resumes[g]
  PROVE  ResumedBy(g)'
<1>1. /\ resumes[g] = 1 /\ Asked(g) /\ ParkedFor(g) \in Approvals
      /\ \E q \in Requests : book[ParkedFor(g)] = q /\ req[q].pc \in Finished
  BY Zenon DEF GateInv, ResumedBy
<1>2. PICK q \in Requests : book[ParkedFor(g)] = q /\ req[q].pc \in Finished
  BY Zenon, <1>1
<1>3. PICK a : a = ParkedFor(g)
  BY Zenon
<1>4. Asked(g)' /\ ParkedFor(g)' = a
  BY Zenon, <1>1, <1>3, AskedStays
<1> QED
  BY <1>1, <1>2, <1>3, <1>4 DEF ResumedBy, BookStep, RequestsStayOver

(* What a step may do: a row is stored by an agent that parks, an agent    *)
(* parks once its tool calls are back, a request that runs still knows the *)
(* truth, and a context is resumed by the request that decided.            *)
GateMove ==
  /\ AgentsGoOn /\ RequestsStayOver
  /\ \A g \in rows' : g \in rows \/ agent[g] = "persist"
  /\ \A g \in Agents : agent'[g] = "persist" => agent[g] = "persist" \/ Asked(g)
  /\ \A q \in Requests : req'[q] = req[q] \/ Knows(q)'
  /\ \A g \in Agents : resumes'[g] = resumes[g] \/ (ResumedBy(g)' /\ agent[g] # "turn")

(* These moves keep the invariant.                                         *)
LEMMA GateMovesKeep ==
  ASSUME GateInv, BookStep, GateType', GateMove, InterruptsSettle'
  PROVE  GateInv'
<1>1. \A q \in Requests : Knows(q)'
  BY Zenon, KnowsStays DEF GateMove
<1>2. \A g \in Agents : resumes'[g] > 0 => ResumedBy(g)'
  BY Zenon, ResumedStays DEF GateMove
<1>3. \A g \in Agents : agent'[g] = "turn" => g \notin rows' /\ resumes'[g] = 0
  BY Zenon DEF GateMove, GateInv, AgentsGoOn
<1>4. ASSUME NEW g \in Agents, agent'[g] = "persist" \/ g \in rows' PROVE Asked(g)'
  <2>1. Asked(g)
    BY Zenon, <1>4 DEF GateMove, GateInv
  <2> QED
    BY Zenon, <2>1, AskedStays
<1> QED
  BY Zenon, <1>1, <1>2, <1>3, <1>4 DEF GateInv

(* The agents' steps and the crash are such moves ...                      *)
LEMMA AgentMoves ==
  ASSUME GateInv, NEW g \in Agents, AgentStep(g) \/ ParkFails(g) \/ NotifyCancelled(g)
  PROVE  GateType' /\ GateMove /\ InterruptsSettle'
<1> USE ApprovalGateAssumption
<1>a. GateType /\ InterruptsSettle /\ resumes' = resumes /\ req' = req
  BY Zenon DEF GateInv, AgentStep, Ask, BeginPark, PersistParked, Parked, ParkFails, NotifyCancelled
<1>b. agent[g] = "turn" => resumes[g] = 0
  BY Zenon DEF GateInv
<1>1. ASSUME NEW a \in Approvals, Ask(g, a) PROVE GateType' /\ GateMove /\ InterruptsSettle'
  <2>1. book' \in [Approvals -> {None, "pending", "expired"} \cup Requests]
    BY Zenon, <1>a, <1>1 DEF GateType, Ask, Book!Submit
  <2> QED
    BY Zenon, <1>a, <1>1, <2>1 DEF Ask, GateType, GateMove, AgentsGoOn, RequestsStayOver, InterruptsSettle
<1>2. CASE BeginPark(g)
  <2>1. GateType'
    BY Zenon, <1>a, <1>2 DEF BeginPark, Moves, GateType, AgentPc
  <2>2. Asked(g)
    BY Zenon, <1>2 DEF BeginPark, Asked
  <2>3. GateMove
    BY Zenon, <1>a, <1>2, <2>2 DEF BeginPark, Moves, GateMove, AgentsGoOn, RequestsStayOver, GateType
  <2>4. InterruptsSettle'
    BY <1>a, <1>b, <1>2 DEF BeginPark, Moves, InterruptsSettle, GateType
  <2> QED
    BY Zenon, <2>1, <2>3, <2>4
<1>3. CASE PersistParked(g)
  BY Zenon, <1>a, <1>3 DEF PersistParked, Moves, GateType, AgentPc, GateMove, AgentsGoOn, RequestsStayOver,
     InterruptsSettle
<1>4. CASE Parked(g)
  BY Zenon, <1>a, <1>4 DEF Parked, Moves, GateType, AgentPc, GateMove, AgentsGoOn, RequestsStayOver,
     InterruptsSettle
<1>5. CASE ParkFails(g)
  BY Zenon, <1>a, <1>5 DEF ParkFails, Moves, ResolveInterrupt, GateType, AgentPc, GateMove, AgentsGoOn,
     RequestsStayOver, InterruptsSettle
<1>6. CASE NotifyCancelled(g)
  BY Zenon, <1>a, <1>6 DEF NotifyCancelled, Moves, GateType, AgentPc, GateMove, AgentsGoOn, RequestsStayOver,
     InterruptsSettle
<1> QED
  BY Zenon, <1>1, <1>2, <1>3, <1>4, <1>5, <1>6 DEF AgentStep

(* A crash ends the turns and forgets the requests in flight; what the     *)
(* approval store and the parked rows hold, it leaves alone.               *)
LEMMA CrashMoves ==
  ASSUME GateInv, Crash
  PROVE  GateType' /\ GateMove /\ InterruptsSettle'
<1>a. GateType
  BY Zenon DEF GateInv
<1>1. GateType'
  BY Zenon, <1>a DEF Crash, GateType, NoRequest, AgentPc, RequestPc, RequestType
<1>2. ASSUME NEW q \in Requests PROVE req'[q] = req[q] \/ Knows(q)'
  BY Zenon, <1>a DEF Crash, Knows, NoRequest, Saved, Found
<1>3. GateMove
  BY Zenon, <1>a, <1>2 DEF Crash, GateMove, AgentsGoOn, RequestsStayOver, GateType, Finished
<1> QED
  BY Zenon, <1>1, <1>3 DEF Crash, InterruptsSettle

(* ... and so are the requests' steps.                                     *)
LEMMA RequestMoves ==
  ASSUME GateInv, BookStep, NEW q \in Requests,
         \/ \E entry \in Entries, a \in Approvals : Request(q, entry, a)
         \/ Preflight(q) \/ RequestStep(q) \/ LoadFails(q)
  PROVE  GateType' /\ GateMove /\ InterruptsSettle'
<1> USE ApprovalGateAssumption
<1>e. failed' = failed /\ agent' = agent
  BY Zenon DEF Request, Preflight, RequestStep, LoadFails, SaveIfPending, Confirm, LoadParked,
     DeleteParked, ResumeContext, ReviewTransition, agentVars
<1>a. GateType /\ InterruptsSettle /\ Knows(q) /\ failed' = failed /\ agent' = agent
  BY Zenon, <1>e DEF GateInv
<1>b. AgentsGoOn
  BY Zenon, <1>a DEF AgentsGoOn
<1>c. ASSUME NEW r \in RequestType, Goes(q, r), ~At(q, "done"), ~At(q, "failed"),
             book' \in [Approvals -> {None, "pending", "expired"} \cup Requests],
             rows' \subseteq rows, UNCHANGED <<interrupt, resumes>>, Knows(q)'
      PROVE  GateType' /\ GateMove /\ InterruptsSettle'
  BY Zenon, <1>a, <1>b, <1>c DEF Goes, At, GateType, GateMove, RequestsStayOver, Finished, InterruptsSettle
<1>r. req[q] \in RequestType /\ \A pc \in RequestPc : [req[q] EXCEPT !.pc = pc] \in RequestType
  BY Zenon, <1>a, RequestRecords DEF GateType
<1>s. book \in [Approvals -> {None, "pending", "expired"} \cup Requests]
  BY Zenon, <1>a DEF GateType
<1>d. ASSUME Ends(q) \/ Fails(q), ~At(q, "done"), ~At(q, "failed"), UNCHANGED <<book, rows, interrupt, resumes>>
      PROVE  GateType' /\ GateMove /\ InterruptsSettle'
  <2>1. PICK pc \in {"done", "failed"} : Goes(q, [NoRequest EXCEPT !.pc = pc])
    BY Zenon, <1>d DEF Ends, Fails
  <2>2. Knows(q)'
    BY Zenon, <1>a, <2>1 DEF Goes, NoRequest, Knows, Saved, Found, GateType
  <2> QED
    BY Zenon, <1>s, <1>c, <1>d, <2>1, <2>2 DEF NoRequest, RequestPc, RequestType
<1>1. ASSUME NEW entry \in Entries, NEW a \in Approvals, Request(q, entry, a)
      PROVE  GateType' /\ GateMove /\ InterruptsSettle'
  <2>1. Knows(q)'
    BY Zenon, <1>1, <1>a DEF Request, Goes, NoRequest, Knows, Saved, Found, GateType
  <2> QED
    BY Zenon, <1>1, <1>s, <1>c, <2>1 DEF Request, At, NoRequest, RequestPc, RequestType, agentVars
<1>2. CASE Preflight(q) \/ ReviewTransition(q) \/ LoadFails(q)
  BY Zenon, <1>2, <1>d DEF Preflight, ReviewTransition, LoadFails, At, agentVars
<1>3. CASE SaveIfPending(q)
  <2>1. CASE Book!Decide(req[q].target, q) /\ Goes(q, [req[q] EXCEPT !.pc = "saved"])
    <3>1. Knows(q)' /\ book' \in [Approvals -> {None, "pending", "expired"} \cup Requests]
      BY <1>3, <1>a, <2>1 DEF SaveIfPending, At, Goes, Book!Decide, Knows, Saved, Found, GateType
    <3> QED
      BY Zenon, <1>3, <1>r, <1>c, <2>1, <3>1 DEF SaveIfPending, At, RequestPc, agentVars
  <2>2. CASE Ends(q) /\ UNCHANGED book
    BY Zenon, <1>3, <1>d, <2>2 DEF SaveIfPending, At, agentVars
  <2> QED
    BY Zenon, <1>3, <2>1, <2>2 DEF SaveIfPending
<1>4. CASE Confirm(q)
  <2>1. CASE Goes(q, [req[q] EXCEPT !.pc = "load"])
    <3>1. Knows(q)'
      BY <1>4, <1>a, <2>1 DEF Confirm, At, Goes, Knows, Saved, Found, GateType, agentVars
    <3> QED
      BY Zenon, <1>4, <1>r, <1>s, <1>c, <2>1, <3>1 DEF Confirm, At, RequestPc, agentVars
  <2>2. CASE Ends(q)
    BY Zenon, <1>4, <1>d, <2>2 DEF Confirm, At, agentVars
  <2> QED
    BY Zenon, <1>4, <2>1, <2>2 DEF Confirm
<1>5. CASE LoadParked(q)
  <2>1. CASE RowFor(req[q].target) = {} /\ Goes(q, [req[q] EXCEPT !.pc = "review"])
    <3>1. Knows(q)'
      BY <1>5, <1>a, <2>1 DEF LoadParked, At, Goes, Knows, Saved, Found, GateType, agentVars
    <3> QED
      BY Zenon, <1>5, <1>r, <1>s, <1>c, <2>1, <3>1 DEF LoadParked, At, RequestPc, agentVars
  <2>2. ASSUME NEW g \in RowFor(req[q].target), Goes(q, [req[q] EXCEPT !.pc = "loaded", !.found = g])
        PROVE  GateType' /\ GateMove /\ InterruptsSettle'
    <3>1. g \in rows /\ g \in Agents /\ agent[g] # "turn" /\ Asked(g) /\ ParkedFor(g) = req[q].target
      BY Zenon, <2>2, <1>a DEF RowFor, GateInv, GateType
    <3>2. agent'[g] # "turn" /\ Asked(g)' /\ ParkedFor(g)' = req[q].target
      BY Zenon, <3>1, <1>a, AskedStays
    <3>r. req'[q] = [req[q] EXCEPT !.pc = "loaded", !.found = g]
      BY Zenon, <1>a, <2>2 DEF Goes, GateType
    <3>s. req'[q].pc = "loaded" /\ req'[q].found = g /\ req'[q].target = req[q].target
      BY Zenon, <1>r, <3>r DEF RequestType
    <3>3. req[q].target \in Approvals /\ book'[req[q].target] = q
      BY Zenon, <1>5, <1>a DEF LoadParked, At, Knows, Saved
    <3>4. Knows(q)'
      BY Zenon, <3>1, <3>2, <3>3, <3>s DEF Knows, Saved, Found
    <3>5. [req[q] EXCEPT !.pc = "loaded", !.found = g] \in RequestType
      BY Zenon, <1>r, <3>1, RequestRecords DEF RequestPc
    <3> QED
      BY Zenon, <1>5, <1>s, <1>c, <2>2, <3>4, <3>5 DEF LoadParked, At, agentVars
  <2> QED
    BY Zenon, <1>5, <2>1, <2>2 DEF LoadParked
<1>6. CASE DeleteParked(q)
  <2>1. PICK g \in Agents : /\ g = req[q].found /\ agent[g] # "turn" /\ Asked(g)
                            /\ ParkedFor(g) = req[q].target
    BY Zenon, <1>6, <1>a DEF DeleteParked, At, Knows, Found
  <2>2. Asked(g)' /\ ParkedFor(g)' = req[q].target
    BY Zenon, <2>1, AskedStays
  <2>3. Knows(q)'
    BY <1>6, <1>a, <2>1, <2>2 DEF DeleteParked, At, Goes, Knows, Saved, Found, GateType
  <2> QED
    BY Zenon, <1>6, <1>r, <1>s, <1>c, <2>3 DEF DeleteParked, At, RequestPc
<1>7. CASE ResumeContext(q)
  <2>1. PICK g \in Agents : /\ g = req[q].found /\ agent[g] # "turn" /\ Asked(g)
                            /\ ParkedFor(g) = req[q].target
    BY Zenon, <1>7, <1>a DEF ResumeContext, At, Knows, Found
  <2>2. Asked(g)' /\ ParkedFor(g)' = req[q].target
    BY Zenon, <2>1, AskedStays
  <2>3. req[q].target \in Approvals /\ book[req[q].target] = q /\ req[q].pc \notin Finished
    BY Zenon, <1>7, <1>a DEF ResumeContext, At, Knows, Saved, Finished
  <2>4. resumes[g] = 0
    <3>1. ~ResumedBy(g)
      BY Zenon, <2>1, <2>3 DEF ResumedBy
    <3>2. resumes[g] > 0 => ResumedBy(g)
      BY Zenon DEF GateInv
    <3> QED
      BY <1>a, <3>1, <3>2 DEF GateType
  <2>5. /\ req' = [req EXCEPT ![q] = [NoRequest EXCEPT !.pc = "done"]] /\ book' = book
        /\ resumes' = [resumes EXCEPT ![g] = 1] /\ rows' = rows
        /\ interrupt' = IF interrupt[g] = "pending" THEN [interrupt EXCEPT ![g] = "resolved"] ELSE interrupt
    BY <1>7, <1>a, <2>1, <2>4 DEF ResumeContext, ResolveInterrupt, Ends, Goes, GateType
  <2>6. GateType'
    BY Zenon, <1>a, <2>5 DEF GateType, NoRequest, RequestPc, RequestType
  <2>7. Knows(q)'
    BY Zenon, <1>a, <2>5 DEF Knows, NoRequest, Saved, Found, GateType
  <2>8. ResumedBy(g)'
    BY Zenon, <1>a, <2>2, <2>3, <2>5 DEF ResumedBy, GateType, NoRequest, Finished
  <2>9. GateMove
    BY Zenon, <1>a, <1>b, <2>1, <2>5, <2>7, <2>8 DEF GateMove, RequestsStayOver, NoRequest, Finished, GateType
  <2> QED
    BY Zenon, <1>a, <2>5, <2>6, <2>9 DEF InterruptsSettle, GateType
<1> QED
  BY Zenon, <1>1, <1>2, <1>3, <1>4, <1>5, <1>6, <1>7 DEF RequestStep

(* The gate keeps its invariant.                                           *)
LEMMA GateAlways == Spec => []GateInv
<1>1. ASSUME GateInv, [Next]_vars PROVE GateInv'
  <2>1. BookStep
    BY Zenon, <1>1, BookSteps
  <2>2. CASE UNCHANGED vars
    <3>1. GateMove
      BY Zenon, <2>2 DEF vars, agentVars, GateMove, AgentsGoOn, RequestsStayOver
    <3>2. GateType' /\ InterruptsSettle'
      BY Zenon, <1>1, <2>2 DEF vars, agentVars, GateInv, GateType, InterruptsSettle
    <3> QED
      BY Zenon, <1>1, <2>1, <3>1, <3>2, GateMovesKeep
  <2>3. CASE Crash
    BY Zenon, <1>1, <2>1, <2>3, CrashMoves, GateMovesKeep
  <2>4. ASSUME NEW g \in Agents, AgentStep(g) \/ ParkFails(g) \/ NotifyCancelled(g) PROVE GateInv'
    BY Zenon, <1>1, <2>1, <2>4, AgentMoves, GateMovesKeep
  <2>5. ASSUME NEW q \in Requests,
               \/ \E entry \in Entries, a \in Approvals : Request(q, entry, a)
               \/ Preflight(q) \/ RequestStep(q) \/ LoadFails(q)
        PROVE  GateInv'
    BY Zenon, <1>1, <2>1, <2>5, RequestMoves, GateMovesKeep
  <2> QED
    BY Zenon, <1>1, <2>2, <2>3, <2>4, <2>5 DEF Next
<1> QED
  BY <1>1, GateInit, PTL DEF Spec

(* A parked context is resumed at most once, and only after its approval   *)
(* was decided: with any number of agents, approvals and requests, through *)
(* every fault (ResumedOnceDecided of the approval gate).                  *)
THEOREM ResumedOnlyOnceDecided == Spec => []ResumedOnceDecided
<1>1. GateInv => ResumedOnceDecided
  BY Zenon DEF GateInv, ResumedBy, ResumedOnceDecided
<1> QED
  BY <1>1, GateAlways, PTL

(* No interrupt outlives the wait it announces: neither a park that failed *)
(* nor a resumed agent leaves one pending (InterruptsSettle).              *)
THEOREM InterruptsAlwaysSettle == Spec => []InterruptsSettle
<1>1. GateInv => InterruptsSettle
  BY Zenon DEF GateInv
<1> QED
  BY <1>1, GateAlways, PTL

(* Without a crash a context is not lost between the park and the resume:  *)
(* once its row was saved, the row is there, or a request that deleted it  *)
(* is on its way to resume the context, or the context was resumed.        *)
Resuming(g) == \E q \in Requests : At(q, "deleted") /\ req[q].found = g
ParkIsKept ==
  "crash" \notin Faults =>
    \A g \in Agents : agent[g] \in {"persisted", "parked", "cancelled"} =>
      g \in rows \/ resumes[g] > 0 \/ Resuming(g)

(* It is kept by whatever leaves rows, resumes and deleting requests.      *)
LEMMA ParkStaysKept ==
  ASSUME ParkIsKept, rows \subseteq rows', resumes' = resumes,
         \A g \in Agents : agent'[g] \in {"persisted", "parked", "cancelled"} =>
           agent[g] \in {"persisted", "parked", "cancelled"} \/ g \in rows',
         \A q \in Requests : At(q, "deleted") => req'[q] = req[q]
  PROVE  ParkIsKept'
<1>1. ASSUME NEW g \in Agents, Resuming(g) PROVE Resuming(g)'
  <2>1. PICK q \in Requests : req[q].pc = "deleted" /\ req[q].found = g
    BY Zenon, <1>1 DEF Resuming, At
  <2>2. req'[q] = req[q]
    BY Zenon, <2>1 DEF At
  <2> QED
    BY Zenon, <2>1, <2>2 DEF Resuming, At
<1> QED
  BY Zenon, <1>1 DEF ParkIsKept

(* The requests keep it: the one that deletes a row resumes its context.   *)
LEMMA RequestsKeepParks ==
  ASSUME GateInv, ParkIsKept, NEW q \in Requests,
         \/ \E entry \in Entries, a \in Approvals : Request(q, entry, a)
         \/ Preflight(q) \/ RequestStep(q) \/ LoadFails(q)
  PROVE  ParkIsKept'
<1>a. agent' = agent
  BY Zenon DEF Request, Preflight, RequestStep, LoadFails, SaveIfPending, Confirm, LoadParked,
     DeleteParked, ResumeContext, ReviewTransition, agentVars
<1>b. /\ req \in [Requests -> RequestType] /\ resumes \in [Agents -> Nat]
      /\ req[q].pc \in Found => req[q].found \in Agents
  BY Zenon DEF GateInv, GateType, Knows
<1>1. CASE DeleteParked(q)
  <2>1. PICK r : r = [req[q] EXCEPT !.pc = "deleted"]
    BY Zenon
  <2>2. r.pc = "deleted" /\ r.found = req[q].found
    BY Zenon, <1>b, <2>1 DEF RequestType
  <2>3. /\ req' = [req EXCEPT ![q] = r] /\ At(q, "loaded") /\ resumes' = resumes
        /\ \A g \in rows : g \in rows' \/ g = req[q].found
    BY Zenon, <1>1, <2>1 DEF DeleteParked, Goes
  <2>4. req'[q] = r /\ \A p \in Requests : p # q => req'[p] = req[p]
    BY Zenon, <1>b, <2>3
  <2>5. ASSUME NEW g \in Agents, Resuming(g) PROVE Resuming(g)'
    <3>1. PICK p \in Requests : req[p].pc = "deleted" /\ req[p].found = g
      BY Zenon, <2>5 DEF Resuming, At
    <3>2. req'[p] = req[p]
      BY Zenon, <2>3, <2>4, <3>1 DEF At
    <3> QED
      BY Zenon, <3>1, <3>2 DEF Resuming, At
  <2>6. ASSUME NEW g \in Agents, g = req[q].found PROVE Resuming(g)'
    BY Zenon, <2>2, <2>4, <2>6 DEF Resuming, At
  <2> QED
    BY Zenon, <1>a, <2>3, <2>5, <2>6 DEF ParkIsKept
<1>2. CASE ResumeContext(q)
  <2>1. /\ resumes' = [resumes EXCEPT ![req[q].found] = @ + 1] /\ rows' = rows /\ At(q, "deleted")
        /\ req' = [req EXCEPT ![q] = [NoRequest EXCEPT !.pc = "done"]]
    BY Zenon, <1>2 DEF ResumeContext, Ends, Goes
  <2>2. \A p \in Requests : p # q => req'[p] = req[p]
    BY Zenon, <1>b, <2>1
  <2>3. req[q].found \in Agents
    BY Zenon, <1>b, <2>1 DEF At, Found
  <2>4. resumes'[req[q].found] > 0 /\ \A g \in Agents : resumes[g] > 0 => resumes'[g] > 0
    BY <1>b, <2>1, <2>3
  <2>5. ASSUME NEW g \in Agents, Resuming(g) PROVE Resuming(g)' \/ g = req[q].found
    <3>1. PICK p \in Requests : req[p].pc = "deleted" /\ req[p].found = g
      BY Zenon, <2>5 DEF Resuming, At
    <3>2. req'[p] = req[p] \/ p = q
      BY Zenon, <2>2
    <3> QED
      BY Zenon, <3>1, <3>2 DEF Resuming, At
  <2> QED
    BY Zenon, <1>a, <2>1, <2>4, <2>5 DEF ParkIsKept
<1>3. CASE ~DeleteParked(q) /\ ~ResumeContext(q)
  <2>1. /\ rows' = rows /\ resumes' = resumes /\ req[q].pc # "deleted"
        /\ \E r : req' = [req EXCEPT ![q] = r]
    BY Zenon, <1>3 DEF Request, Preflight, RequestStep, LoadFails, SaveIfPending, Confirm, LoadParked,
       ReviewTransition, agentVars, Goes, Ends, Fails, At
  <2>2. \A p \in Requests : At(p, "deleted") => req'[p] = req[p]
    BY Zenon, <1>b, <2>1 DEF At
  <2> QED
    BY Zenon, <1>a, <2>1, <2>2, ParkStaysKept
<1> QED
  BY Zenon, <1>1, <1>2, <1>3

(* A context that was saved is never lost while the process lives: what    *)
(* the delivery of a stored park rests on (ParkIsKept).                    *)
THEOREM ParkIsAlwaysKept == Spec => []ParkIsKept
<1>1. Init => ParkIsKept
  BY Zenon DEF Init, ParkIsKept
<1>2. ASSUME GateInv, ParkIsKept, [Next]_vars PROVE ParkIsKept'
  <2>a. agent \in [Agents -> AgentPc]
    BY Zenon, <1>2 DEF GateInv, GateType
  <2>1. CASE UNCHANGED vars
    BY Zenon, <1>2, <2>1, ParkStaysKept DEF vars, agentVars
  <2>2. CASE Crash
    BY Zenon, <2>2 DEF Crash, ParkIsKept
  <2>3. ASSUME NEW g \in Agents, AgentStep(g) \/ ParkFails(g) \/ NotifyCancelled(g) PROVE ParkIsKept'
    <3>1. rows \subseteq rows' /\ resumes' = resumes /\ req' = req
      BY Zenon, <2>3 DEF AgentStep, Ask, BeginPark, PersistParked, Parked, ParkFails, NotifyCancelled
    <3>2. CASE PersistParked(g)
      <4>1. \A h \in Agents : agent'[h] = agent[h] \/ h \in rows'
        BY Zenon, <2>a, <3>2 DEF PersistParked, Moves
      <4> QED
        BY Zenon, <1>2, <3>1, <4>1, ParkStaysKept
    <3>3. CASE ~PersistParked(g)
      <4>1. \A h \in Agents : agent'[h] \in {"persisted", "parked", "cancelled"} =>
              agent[h] \in {"persisted", "parked", "cancelled"}
        BY Zenon, <2>3, <2>a, <3>3 DEF AgentStep, Ask, BeginPark, Parked, ParkFails, NotifyCancelled, Moves
      <4> QED
        BY Zenon, <1>2, <3>1, <4>1, ParkStaysKept
    <3> QED
      BY Zenon, <3>2, <3>3
  <2> QED
    BY Zenon, <1>2, <2>1, <2>2, <2>3, RequestsKeepParks DEF Next
<1> QED
  BY <1>1, <1>2, GateAlways, PTL DEF Spec

----------------------------------------------------------------------------
(* The distributed task queue.                                             *)

ClaimStatus == {"absent", "ready", "out", "gone", "exhausted"}
WorkerType == [pc : {"poll", "execute", "finalize", "down"}, msg : Dispatch!Claims \cup {None},
               status : {"terminal", "retry", None}]

(* The claim being published is one of the claims, with an attempt that    *)
(* counts.                                                                 *)
Publishing ==
  disp.pc # "idle" =>
    /\ observed \in Dispatch!Events /\ Dispatch!Dispatchable(observed)
    /\ disp.attempt \in 1..MaxAttempts
    /\ disp.pc = "backoff" => disp.attempt < MaxAttempts

DispatchType ==
  /\ observed \in 0..Len(Changes)
  /\ disp \in [pc : {"idle", "publish", "backoff"}, attempt : Nat] /\ Publishing
  /\ outcome \in [Dispatch!Events -> {"none", "ignored", "dropped", "enqueued", "exhausted"}]
  /\ stream \in [Dispatch!Claims -> [status : ClaimStatus, deliveries : Nat]]
  /\ worker \in [Workers -> WorkerType]

(* An event is reported as enqueued only when one of its claims is, or     *)
(* was, in the stream.                                                     *)
EnqueuedIsStored ==
  \A e \in Dispatch!Events : outcome[e] = "enqueued" =>
    \E m \in Dispatch!Claims : m[1] = e /\ stream[m].status # "absent"

(* A worker that is about to ack has seen the execution end.               *)
WorkersKnow ==
  \A w \in Workers :
    /\ worker[w].status = "terminal" => worker[w].msg \in verdicts
    /\ worker[w].pc \in {"execute", "finalize"} => worker[w].msg \in Dispatch!Claims

DispatchInv == DispatchType /\ EnqueuedIsStored /\ WorkersKnow /\ AckedWasExecuted

(* The numbers and statuses of the task queue.                             *)
LEMMA DispatchConstants ==
  /\ Len(Changes) \in Nat /\ Dispatch!Events = 1..Len(Changes)
  /\ MaxAttempts \in Nat \ {0} /\ MaxDeliver \in Nat
  /\ None # "terminal" /\ None # "retry"
  BY DispatchAssumption DEF Dispatch!Events

(* It holds initially.                                                     *)
LEMMA DispatchInit == Dispatch!Init => DispatchInv
<1> SUFFICES ASSUME Dispatch!Init PROVE DispatchInv
  BY Zenon
<1> USE DispatchConstants DEF Dispatch!Init
<1>1. disp = [pc |-> "idle", attempt |-> 0] /\ worker = [w \in Workers |-> Dispatch!Polling]
  BY Zenon DEF Dispatch!Idle
<1>2. stream = [m \in Dispatch!Claims |-> [status |-> "absent", deliveries |-> 0]]
  BY Zenon DEF Dispatch!Absent
<1>3. DispatchType
  BY <1>1, <1>2 DEF DispatchType, Publishing, Dispatch!Polling, WorkerType, ClaimStatus
<1>4. EnqueuedIsStored /\ AckedWasExecuted
  BY <1>2 DEF EnqueuedIsStored, AckedWasExecuted, Dispatch!AckedWasExecuted
<1>5. WorkersKnow
  BY <1>1 DEF WorkersKnow, Dispatch!Polling
<1> QED
  BY Zenon, <1>3, <1>4, <1>5 DEF DispatchInv

(* What the dispatcher does to the stream: it stores the claim at hand, or *)
(* nothing.                                                                *)
LEMMA StoredClaim ==
  ASSUME DispatchInv, disp.pc # "idle", Dispatch!Store(Dispatch!ThisClaim)
  PROVE  /\ stream' \in [Dispatch!Claims -> [status : ClaimStatus, deliveries : Nat]]
         /\ \A m \in Dispatch!Claims : stream'[m].status = "absent" => stream[m].status = "absent"
         /\ \A m \in Dispatch!Claims : stream'[m].status = "gone" => stream[m].status = "gone"
         /\ \E m \in Dispatch!Claims : m[1] = observed /\ stream'[m].status # "absent"
<1>1. stream' = [stream EXCEPT ![<<observed, disp.attempt>>] = [status |-> "ready", deliveries |-> 0]]
  BY Zenon DEF Dispatch!Store, Dispatch!ThisClaim, Dispatch!Ready
<1>2. <<observed, disp.attempt>> \in Dispatch!Claims
  BY Zenon DEF DispatchInv, DispatchType, Publishing, Dispatch!Claims
<1>3. stream \in [Dispatch!Claims -> [status : ClaimStatus, deliveries : Nat]]
  BY Zenon DEF DispatchInv, DispatchType
<1>4. stream'[<<observed, disp.attempt>>].status = "ready"
  BY Zenon, <1>1, <1>2, <1>3
<1>5. \E m \in Dispatch!Claims : m[1] = observed /\ stream'[m].status # "absent"
  BY Zenon, <1>2, <1>4
<1> QED
  BY Zenon, <1>1, <1>2, <1>3, <1>5 DEF ClaimStatus

(* The dispatcher's steps, and stopping its client, keep the invariant.    *)
LEMMA DispatcherKeeps ==
  ASSUME DispatchInv, Dispatch!DispatcherStep \/ Dispatch!StopQueue
  PROVE  DispatchInv'
<1> USE DispatchConstants
<1>a. DispatchType /\ EnqueuedIsStored /\ WorkersKnow /\ AckedWasExecuted /\ Publishing
  BY Zenon DEF DispatchInv, DispatchType
<1>b. worker' = worker /\ verdicts' = verdicts
  BY Zenon DEF Dispatch!DispatcherStep, Dispatch!Observe, Dispatch!Publish, Dispatch!PublishRaises,
     Dispatch!Backoff, Dispatch!StopQueue, Dispatch!poolVars
<1>c. ASSUME stream' \in [Dispatch!Claims -> [status : ClaimStatus, deliveries : Nat]],
             \A m \in Dispatch!Claims : stream'[m].status = "absent" => stream[m].status = "absent",
             \A m \in Dispatch!Claims : stream'[m].status = "gone" => stream[m].status = "gone",
             outcome' \in [Dispatch!Events -> {"none", "ignored", "dropped", "enqueued", "exhausted"}],
             \A e \in Dispatch!Events : outcome'[e] = "enqueued" =>
               \/ outcome[e] = "enqueued"
               \/ \E m \in Dispatch!Claims : m[1] = e /\ stream'[m].status # "absent",
             observed' \in 0..Len(Changes),
             disp' \in [pc : {"idle", "publish", "backoff"}, attempt : Nat], Publishing'
      PROVE  DispatchInv'
  <2>1. DispatchType'
    BY Zenon, <1>a, <1>b, <1>c DEF DispatchType
  <2>2. EnqueuedIsStored'
    BY <1>a, <1>c DEF EnqueuedIsStored
  <2>3. WorkersKnow' /\ AckedWasExecuted'
    BY Zenon, <1>a, <1>b, <1>c DEF WorkersKnow, AckedWasExecuted, Dispatch!AckedWasExecuted
  <2> QED
    BY Zenon, <2>1, <2>2, <2>3 DEF DispatchInv
<1>d. /\ stream \in [Dispatch!Claims -> [status : ClaimStatus, deliveries : Nat]]
      /\ outcome \in [Dispatch!Events -> {"none", "ignored", "dropped", "enqueued", "exhausted"}]
      /\ observed \in 0..Len(Changes) /\ disp \in [pc : {"idle", "publish", "backoff"}, attempt : Nat]
  BY Zenon, <1>a DEF DispatchType
<1>1. CASE Dispatch!Observe
  <2>1. observed' = observed + 1 /\ observed' \in Dispatch!Events /\ stream' = stream
    BY <1>1, <1>d DEF Dispatch!Observe
  <2>2. /\ outcome' \in [Dispatch!Events -> {"none", "ignored", "dropped", "enqueued", "exhausted"}]
        /\ \A e \in Dispatch!Events : outcome'[e] = "enqueued" => outcome[e] = "enqueued"
    BY Zenon, <1>1, <1>d, <2>1 DEF Dispatch!Observe, Dispatch!Ends
  <2>3. disp' \in [pc : {"idle", "publish", "backoff"}, attempt : Nat] /\ Publishing'
    BY <1>1, <1>d, <2>1 DEF Dispatch!Observe, Dispatch!Ends, Dispatch!Idle, Publishing
  <2> QED
    BY <1>c, <1>d, <2>1, <2>2, <2>3
<1>2. CASE Dispatch!Publish
  <2>1. /\ disp' = [pc |-> "idle", attempt |-> 0] /\ outcome' = [outcome EXCEPT ![observed] = "enqueued"]
        /\ observed' = observed /\ disp.pc # "idle" /\ Dispatch!Store(Dispatch!ThisClaim)
    BY Zenon, <1>2 DEF Dispatch!Publish, Dispatch!Ends, Dispatch!Idle
  <2>2. Publishing' /\ disp' \in [pc : {"idle", "publish", "backoff"}, attempt : Nat]
    BY Zenon, <2>1 DEF Publishing
  <2>3. \A e \in Dispatch!Events : outcome'[e] = "enqueued" => outcome[e] = "enqueued" \/ e = observed
    BY Zenon, <1>d, <2>1
  <2>4. outcome' \in [Dispatch!Events -> {"none", "ignored", "dropped", "enqueued", "exhausted"}]
    BY Zenon, <1>d, <2>1
  <2>5. \E m \in Dispatch!Claims : m[1] = observed /\ stream'[m].status # "absent"
    BY Zenon, <2>1, StoredClaim
  <2>6. /\ stream' \in [Dispatch!Claims -> [status : ClaimStatus, deliveries : Nat]]
        /\ \A m \in Dispatch!Claims : stream'[m].status = "absent" => stream[m].status = "absent"
        /\ \A m \in Dispatch!Claims : stream'[m].status = "gone" => stream[m].status = "gone"
    BY Zenon, <2>1, StoredClaim
  <2> QED
    BY <1>c, <1>d, <2>1, <2>2, <2>3, <2>4, <2>5, <2>6
<1>3. CASE Dispatch!PublishRaises
  <2>1. /\ disp.pc = "publish" /\ observed' = observed /\ Dispatch!Retry
        /\ stream' = stream \/ Dispatch!Store(Dispatch!ThisClaim)
    BY Zenon, <1>3 DEF Dispatch!PublishRaises
  <2>2. /\ stream' \in [Dispatch!Claims -> [status : ClaimStatus, deliveries : Nat]]
        /\ \A m \in Dispatch!Claims : stream'[m].status = "absent" => stream[m].status = "absent"
        /\ \A m \in Dispatch!Claims : stream'[m].status = "gone" => stream[m].status = "gone"
    BY Zenon, <1>d, <2>1, StoredClaim
  <2>3. /\ outcome' \in [Dispatch!Events -> {"none", "ignored", "dropped", "enqueued", "exhausted"}]
        /\ \A e \in Dispatch!Events : outcome'[e] = "enqueued" => outcome[e] = "enqueued"
    BY Zenon, <1>d, <2>1 DEF Dispatch!Retry, Dispatch!Ends
  <2>4. disp' \in [pc : {"idle", "publish", "backoff"}, attempt : Nat] /\ Publishing'
    BY <1>a, <1>d, <2>1 DEF Dispatch!Retry, Dispatch!Ends, Dispatch!Idle, Publishing
  <2> QED
    BY Zenon, <1>c, <1>d, <2>1, <2>2, <2>3, <2>4
<1>4. CASE Dispatch!Backoff
  <2>1. disp' \in [pc : {"idle", "publish", "backoff"}, attempt : Nat] /\ Publishing'
    BY <1>4, <1>a, <1>d DEF Dispatch!Backoff, Publishing
  <2> QED
    BY Zenon, <1>4, <1>c, <1>d, <2>1 DEF Dispatch!Backoff
<1>5. CASE Dispatch!StopQueue
  BY Zenon, <1>5, <1>a, <1>c, <1>d DEF Dispatch!StopQueue, Publishing
<1> QED
  BY Zenon, <1>1, <1>2, <1>3, <1>4, <1>5 DEF Dispatch!DispatcherStep

(* What the server does to a claim that is nacked, acked or timed out.     *)
LEMMA SettledClaim ==
  ASSUME DispatchInv, NEW m \in Dispatch!Claims,
         Dispatch!Requeue(m) \/ Dispatch!Ack(m) \/ Dispatch!Nak(m)
  PROVE  /\ stream' \in [Dispatch!Claims -> [status : ClaimStatus, deliveries : Nat]]
         /\ \A n \in Dispatch!Claims : stream'[n].status = "absent" => stream[n].status = "absent"
         /\ \A n \in Dispatch!Claims : stream'[n].status = "gone" =>
              stream[n].status = "gone" \/ (n = m /\ Dispatch!Ack(m))
<1>1. stream \in [Dispatch!Claims -> [status : ClaimStatus, deliveries : Nat]]
  BY Zenon DEF DispatchInv, DispatchType
<1>2. CASE Dispatch!Requeue(m)
  BY <1>1, <1>2 DEF Dispatch!Requeue, ClaimStatus
<1>3. CASE Dispatch!Ack(m)
  BY <1>1, <1>3 DEF Dispatch!Ack, ClaimStatus
<1> QED
  BY Zenon, <1>1, <1>2, <1>3 DEF Dispatch!Nak

(* The workers' steps, the server's timer and the worker process that dies *)
(* and restarts keep the invariant.                                        *)
LEMMA PoolKeeps ==
  ASSUME DispatchInv,
         \/ Dispatch!PoolDies \/ Dispatch!PoolStarts
         \/ \E w \in Workers : Dispatch!WorkerStep(w) \/ Dispatch!FinalizeFails(w)
         \/ \E m \in Dispatch!Claims : Dispatch!AckWaitPasses(m)
  PROVE  DispatchInv'
<1> USE DispatchConstants
<1>a. DispatchType /\ EnqueuedIsStored /\ WorkersKnow /\ AckedWasExecuted /\ Publishing
  BY Zenon DEF DispatchInv, DispatchType
<1>b. observed' = observed /\ disp' = disp /\ outcome' = outcome
  BY Zenon DEF Dispatch!PoolDies, Dispatch!PoolStarts, Dispatch!WorkerStep, Dispatch!FinalizeFails,
     Dispatch!AckWaitPasses, Dispatch!NextClaim, Dispatch!ExecuteClaim, Dispatch!FinalizeClaim,
     Dispatch!dispatcherVars
<1>c. ASSUME stream' \in [Dispatch!Claims -> [status : ClaimStatus, deliveries : Nat]],
             \A n \in Dispatch!Claims : stream'[n].status = "absent" => stream[n].status = "absent",
             \A n \in Dispatch!Claims : stream'[n].status = "gone" =>
               stream[n].status = "gone" \/ n \in verdicts,
             verdicts \subseteq verdicts', worker' \in [Workers -> WorkerType],
             WorkersKnow'
      PROVE  DispatchInv'
  <2>1. DispatchType'
    BY Zenon, <1>a, <1>b, <1>c DEF DispatchType, Publishing
  <2>2. EnqueuedIsStored'
    BY <1>a, <1>b, <1>c DEF EnqueuedIsStored
  <2>3. WorkersKnow' /\ AckedWasExecuted'
    BY Zenon, <1>a, <1>c DEF AckedWasExecuted, Dispatch!AckedWasExecuted
  <2> QED
    BY Zenon, <2>1, <2>2, <2>3 DEF DispatchInv
<1>d. /\ stream \in [Dispatch!Claims -> [status : ClaimStatus, deliveries : Nat]]
      /\ worker \in [Workers -> WorkerType]
  BY Zenon, <1>a DEF DispatchType
<1>e. Dispatch!Polling \in WorkerType /\ Dispatch!Down \in WorkerType
  BY Zenon DEF Dispatch!Polling, Dispatch!Down, WorkerType
<1>f. /\ Dispatch!Polling.status # "terminal" /\ Dispatch!Down.status # "terminal"
      /\ Dispatch!Polling.pc = "poll" /\ Dispatch!Down.pc = "down"
  BY Zenon DEF Dispatch!Polling, Dispatch!Down
<1>1. CASE Dispatch!PoolDies \/ Dispatch!PoolStarts
  BY Zenon, <1>1, <1>c, <1>d, <1>e, <1>f DEF Dispatch!PoolDies, Dispatch!PoolStarts, WorkersKnow
<1>2. ASSUME NEW m \in Dispatch!Claims, Dispatch!AckWaitPasses(m) PROVE DispatchInv'
  <2>1. Dispatch!Requeue(m) /\ worker' = worker /\ verdicts' = verdicts
    BY Zenon, <1>2 DEF Dispatch!AckWaitPasses, Dispatch!poolVars
  <2>2. \A n \in Dispatch!Claims : stream'[n].status = "gone" => stream[n].status = "gone"
    BY Zenon, <2>1, <1>d DEF Dispatch!Requeue
  <2> QED
    BY Zenon, <1>a, <1>c, <1>d, <2>1, <2>2, SettledClaim DEF WorkersKnow
<1>3. ASSUME NEW w \in Workers, Dispatch!NextClaim(w) PROVE DispatchInv'
  <2>1. PICK m \in Dispatch!Claims :
          /\ stream' = [stream EXCEPT ![m] = [status |-> "out",
               deliveries |-> IF @.deliveries < MaxDeliver THEN @.deliveries + 1 ELSE @.deliveries]]
          /\ worker' = [worker EXCEPT ![w] = [Dispatch!Polling EXCEPT !.pc = "execute", !.msg = m]]
    BY Zenon, <1>3 DEF Dispatch!NextClaim, Dispatch!Becomes
  <2>2. /\ stream' \in [Dispatch!Claims -> [status : ClaimStatus, deliveries : Nat]]
        /\ \A n \in Dispatch!Claims : stream'[n].status = "absent" => stream[n].status = "absent"
        /\ \A n \in Dispatch!Claims : stream'[n].status = "gone" => stream[n].status = "gone"
    BY <1>d, <2>1 DEF ClaimStatus
  <2>3. /\ [Dispatch!Polling EXCEPT !.pc = "execute", !.msg = m] \in WorkerType
        /\ [Dispatch!Polling EXCEPT !.pc = "execute", !.msg = m].status # "terminal"
        /\ [Dispatch!Polling EXCEPT !.pc = "execute", !.msg = m].msg = m
    BY Zenon DEF Dispatch!Polling, WorkerType
  <2>4. verdicts' = verdicts
    BY Zenon, <1>3 DEF Dispatch!NextClaim
  <2>5. worker' \in [Workers -> WorkerType] /\ WorkersKnow'
    BY Zenon, <1>a, <1>d, <2>1, <2>3, <2>4 DEF WorkersKnow
  <2> QED
    BY Zenon, <1>c, <2>2, <2>4, <2>5
<1>4. ASSUME NEW w \in Workers, Dispatch!ExecuteClaim(w) PROVE DispatchInv'
  <2>1. PICK s \in {"terminal", "retry"} :
          /\ worker' = [worker EXCEPT ![w] = [worker[w] EXCEPT !.pc = "finalize", !.status = s]]
          /\ verdicts' = IF s = "terminal" THEN verdicts \cup {worker[w].msg} ELSE verdicts
          /\ stream' = stream
    BY Zenon, <1>4 DEF Dispatch!ExecuteClaim, Dispatch!Becomes
  <2>b. [worker[w] EXCEPT !.pc = "finalize", !.status = s] \in WorkerType
    BY Zenon, <1>d DEF WorkerType
  <2>2. worker' \in [Workers -> WorkerType]
    BY Zenon, <1>d, <2>1, <2>b
  <2>a. worker[w].pc = "execute"
    BY Zenon, <1>4 DEF Dispatch!ExecuteClaim
  <2>3. WorkersKnow'
    BY Zenon, <1>a, <1>d, <2>1, <2>a DEF WorkersKnow, WorkerType
  <2> QED
    BY Zenon, <1>c, <1>d, <2>1, <2>2, <2>3
<1>5. ASSUME NEW w \in Workers, Dispatch!FinalizeClaim(w) \/ Dispatch!FinalizeFails(w) PROVE DispatchInv'
  <2>1. /\ Dispatch!Settle(w) \/ stream' = stream
        /\ worker' = [worker EXCEPT ![w] = Dispatch!Polling] \/ worker' = [v \in Workers |-> Dispatch!Down]
        /\ verdicts' = verdicts /\ worker[w].pc = "finalize"
    BY Zenon, <1>5 DEF Dispatch!FinalizeClaim, Dispatch!FinalizeFails, Dispatch!Becomes
  <2>2. worker' \in [Workers -> WorkerType]
    BY Zenon, <1>d, <1>e, <2>1
  <2>3. WorkersKnow'
    BY Zenon, <1>a, <1>d, <1>f, <2>1 DEF WorkersKnow
  <2>4. worker[w].msg \in Dispatch!Claims
    BY Zenon, <1>a, <2>1 DEF WorkersKnow
  <2>5. CASE Dispatch!Settle(w)
    <3>1. PICK m : m = worker[w].msg
      BY Zenon
    <3>2. CASE worker[w].status = "terminal" /\ Dispatch!Ack(m)
      <4>1. m \in verdicts /\ m \in Dispatch!Claims
        BY Zenon, <1>a, <2>4, <3>1, <3>2 DEF WorkersKnow
      <4>2. /\ stream' \in [Dispatch!Claims -> [status : ClaimStatus, deliveries : Nat]]
            /\ \A n \in Dispatch!Claims : stream'[n].status = "absent" => stream[n].status = "absent"
            /\ \A n \in Dispatch!Claims : stream'[n].status = "gone" => stream[n].status = "gone" \/ n = m
        BY Zenon, <3>2, <4>1, SettledClaim
      <4> QED
        BY Zenon, <1>c, <2>1, <2>2, <2>3, <4>1, <4>2
    <3>3. CASE Dispatch!Nak(m)
      <4>1. stream' = stream \/ \E s \in {"ready", "exhausted"} : stream' = [stream EXCEPT ![m].status = s]
        BY Zenon, <3>3 DEF Dispatch!Nak, Dispatch!Requeue
      <4>2. \A n \in Dispatch!Claims : stream'[n].status = "gone" => stream[n].status = "gone"
        BY Zenon, <1>d, <2>4, <3>1, <4>1
      <4> QED
        BY Zenon, <1>c, <2>1, <2>2, <2>3, <2>4, <3>1, <3>3, <4>2, SettledClaim
    <3> QED
      BY Zenon, <2>5, <3>1, <3>2, <3>3 DEF Dispatch!Settle
  <2>6. CASE stream' = stream
    BY Zenon, <1>c, <1>d, <2>1, <2>2, <2>3, <2>6
  <2> QED
    BY Zenon, <2>1, <2>5, <2>6
<1> QED
  BY Zenon, <1>1, <1>2, <1>3, <1>4, <1>5 DEF Dispatch!WorkerStep

(* The task queue keeps its invariant.                                     *)
LEMMA DispatchAlways == Dispatch!Spec => []DispatchInv
<1>1. ASSUME DispatchInv, [Dispatch!Next]_(Dispatch!vars) PROVE DispatchInv'
  <2>1. CASE UNCHANGED Dispatch!vars
    BY <1>1, <2>1 DEF Dispatch!vars, Dispatch!dispatcherVars, Dispatch!poolVars, DispatchInv, DispatchType,
       Publishing, EnqueuedIsStored, WorkersKnow, AckedWasExecuted, Dispatch!AckedWasExecuted
  <2> QED
    BY Zenon, <1>1, <2>1, DispatcherKeeps, PoolKeeps DEF Dispatch!Next
<1> QED
  BY <1>1, DispatchInit, PTL DEF Dispatch!Spec

(* At least once: with any number of workers and claims, and through every *)
(* fault, a claim leaves the work queue only after an execution of it came *)
(* to a verdict (AckedWasExecuted of the task queue).                      *)
THEOREM AckedWasAlwaysExecuted == Dispatch!Spec => []AckedWasExecuted
<1>1. DispatchInv => AckedWasExecuted
  BY Zenon DEF DispatchInv
<1> QED
  BY <1>1, DispatchAlways, PTL

(* An event that the dispatcher reports as enqueued has a claim in the     *)
(* stream, whichever attempts to publish it failed.                        *)
THEOREM EnqueuedIsAlwaysStored == Dispatch!Spec => []EnqueuedIsStored
<1>1. DispatchInv => EnqueuedIsStored
  BY Zenon DEF DispatchInv
<1> QED
  BY <1>1, DispatchAlways, PTL

(* A claim that is in the stream, or in the hands of a worker, is that of  *)
(* an event which the dispatcher was handed and did not ignore or drop.    *)
Holds(w, m) == worker[w].pc \in {"execute", "finalize"} /\ worker[w].msg = m
NoPhantomClaims ==
  \A m \in Dispatch!Claims :
    stream[m].status # "absent" \/ (\E w \in Workers : Holds(w, m)) =>
      m[1] <= observed /\ outcome[m[1]] \notin {"ignored", "dropped"}

(* A claim is published in its turn: by the event at hand, and by no later *)
(* attempt than the one at hand.                                           *)
InTurn(m) ==
  /\ m[1] <= observed /\ outcome[m[1]] \notin {"ignored", "dropped"}
  /\ m[1] = observed /\ disp.pc # "idle" =>
       m[2] < disp.attempt \/ (m[2] = disp.attempt /\ disp.pc = "backoff")
Undecided ==
  /\ \A e \in Dispatch!Events : e > observed => outcome[e] = "none"
  /\ disp.pc # "idle" => outcome[observed] = "none"
ClaimsInv ==
  /\ Undecided
  /\ \A m \in Dispatch!Claims : stream[m].status # "absent" => InTurn(m)
  /\ \A w \in Workers, m \in Dispatch!Claims : Holds(w, m) => stream[m].status # "absent"

(* A claim is an event and the number of an attempt.                       *)
LEMMA ClaimParts ==
  ASSUME NEW m \in Dispatch!Claims
  PROVE  m[1] \in Dispatch!Events /\ m[2] \in 1..MaxAttempts /\ m = <<m[1], m[2]>>
  BY DEF Dispatch!Claims

(* The pool publishes nothing: it moves claims that are in the stream.     *)
LEMMA PoolPublishesNothing ==
  ASSUME DispatchInv, ClaimsInv,
         \/ Dispatch!PoolDies \/ Dispatch!PoolStarts
         \/ \E w \in Workers : Dispatch!WorkerStep(w) \/ Dispatch!FinalizeFails(w)
         \/ \E m \in Dispatch!Claims : Dispatch!AckWaitPasses(m)
  PROVE  ClaimsInv'
<1>a. observed' = observed /\ disp' = disp /\ outcome' = outcome
  BY Zenon DEF Dispatch!PoolDies, Dispatch!PoolStarts, Dispatch!WorkerStep, Dispatch!FinalizeFails,
     Dispatch!AckWaitPasses, Dispatch!NextClaim, Dispatch!ExecuteClaim, Dispatch!FinalizeClaim,
     Dispatch!dispatcherVars
<1>b. /\ stream \in [Dispatch!Claims -> [status : ClaimStatus, deliveries : Nat]]
      /\ worker \in [Workers -> WorkerType]
      /\ \A w \in Workers : worker[w].pc \in {"execute", "finalize"} => worker[w].msg \in Dispatch!Claims
  BY Zenon DEF DispatchInv, DispatchType, WorkersKnow
<1>c. ASSUME \A m \in Dispatch!Claims : (stream'[m].status = "absent") = (stream[m].status = "absent"),
             \A w \in Workers, m \in Dispatch!Claims :
               Holds(w, m)' => Holds(w, m) \/ stream[m].status # "absent"
      PROVE  ClaimsInv'
  BY Zenon, <1>a, <1>c DEF ClaimsInv, Undecided, InTurn
<1>1. CASE Dispatch!PoolDies \/ Dispatch!PoolStarts
  <2>1. stream' = stream /\ \E r \in {Dispatch!Down, Dispatch!Polling} : worker' = [w \in Workers |-> r]
    BY Zenon, <1>1 DEF Dispatch!PoolDies, Dispatch!PoolStarts
  <2>a. Dispatch!Polling.pc = "poll" /\ Dispatch!Down.pc = "down"
    BY Zenon DEF Dispatch!Down, Dispatch!Polling
  <2>2. \A w \in Workers : worker'[w].pc \in {"down", "poll"}
    BY Zenon, <2>1, <2>a
  <2> QED
    BY Zenon, <1>c, <2>1, <2>2 DEF Holds
<1>2. ASSUME NEW m \in Dispatch!Claims, Dispatch!AckWaitPasses(m) PROVE ClaimsInv'
  <2>1. stream[m].status # "absent" /\ worker' = worker
    BY Zenon, <1>2 DEF Dispatch!AckWaitPasses, Dispatch!poolVars
  <2>2. \E s \in {"ready", "exhausted"} : stream' = [stream EXCEPT ![m].status = s]
    BY Zenon, <1>2 DEF Dispatch!AckWaitPasses, Dispatch!Requeue
  <2>3. \A n \in Dispatch!Claims : (stream'[n].status = "absent") = (stream[n].status = "absent")
    BY <1>b, <2>1, <2>2
  <2> QED
    BY Zenon, <1>c, <2>1, <2>3 DEF Holds
<1>3. ASSUME NEW w \in Workers, Dispatch!NextClaim(w) PROVE ClaimsInv'
  <2>1. PICK m \in Dispatch!Claims :
          /\ stream[m].status = "ready"
          /\ \E d : stream' = [stream EXCEPT ![m] = [status |-> "out", deliveries |-> d]]
          /\ worker' = [worker EXCEPT ![w] = [Dispatch!Polling EXCEPT !.pc = "execute", !.msg = m]]
    BY Zenon, <1>3 DEF Dispatch!NextClaim, Dispatch!Becomes
  <2>2. \A n \in Dispatch!Claims : (stream'[n].status = "absent") = (stream[n].status = "absent")
    BY <1>b, <2>1
  <2>3. [Dispatch!Polling EXCEPT !.pc = "execute", !.msg = m].msg = m
    BY Zenon DEF Dispatch!Polling
  <2>4. \A v \in Workers, n \in Dispatch!Claims : Holds(v, n)' => Holds(v, n) \/ n = m
    BY Zenon, <1>b, <2>1, <2>3 DEF Holds
  <2>5. stream[m].status # "absent"
    BY ZenonT(60), <2>1
  <2> QED
    BY Zenon, <1>c, <2>2, <2>4, <2>5
<1>4. ASSUME NEW w \in Workers, Dispatch!ExecuteClaim(w) PROVE ClaimsInv'
  <2>1. PICK s \in {"terminal", "retry"} :
          worker' = [worker EXCEPT ![w] = [worker[w] EXCEPT !.pc = "finalize", !.status = s]]
    BY Zenon, <1>4 DEF Dispatch!ExecuteClaim, Dispatch!Becomes
  <2>2. stream' = stream /\ worker[w].pc = "execute"
    BY Zenon, <1>4 DEF Dispatch!ExecuteClaim
  <2>3. [worker[w] EXCEPT !.pc = "finalize", !.status = s].msg = worker[w].msg
    BY Zenon, <1>b DEF WorkerType
  <2>4. \A v \in Workers, n \in Dispatch!Claims : Holds(v, n)' => Holds(v, n)
    BY Zenon, <1>b, <2>1, <2>2, <2>3 DEF Holds
  <2> QED
    BY Zenon, <1>c, <2>2, <2>4
<1>5. ASSUME NEW w \in Workers, Dispatch!FinalizeClaim(w) \/ Dispatch!FinalizeFails(w) PROVE ClaimsInv'
  <2>1. /\ Dispatch!Settle(w) \/ stream' = stream
        /\ worker' = [worker EXCEPT ![w] = Dispatch!Polling] \/ worker' = [v \in Workers |-> Dispatch!Down]
        /\ worker[w].pc = "finalize"
    BY Zenon, <1>5 DEF Dispatch!FinalizeClaim, Dispatch!FinalizeFails, Dispatch!Becomes
  <2>2. Dispatch!Polling.pc = "poll" /\ Dispatch!Down.pc = "down"
    BY Zenon DEF Dispatch!Polling, Dispatch!Down
  <2>3. \A v \in Workers, n \in Dispatch!Claims : Holds(v, n)' => Holds(v, n)
    BY Zenon, <1>b, <2>1, <2>2 DEF Holds
  <2>4. PICK m \in Dispatch!Claims : m = worker[w].msg
    BY Zenon, <1>b, <2>1
  <2>5. stream[m].status # "absent"
    BY Zenon, <2>1, <2>4 DEF ClaimsInv, Holds
  <2>6. stream' = stream \/ \E s \in {"ready", "exhausted", "gone"} : stream' = [stream EXCEPT ![m].status = s]
    BY Zenon, <2>1, <2>4 DEF Dispatch!Settle, Dispatch!Ack, Dispatch!Nak, Dispatch!Requeue
  <2>7. \A n \in Dispatch!Claims : (stream'[n].status = "absent") = (stream[n].status = "absent")
    BY <1>b, <2>4, <2>5, <2>6
  <2> QED
    BY Zenon, <1>c, <2>3, <2>7
<1> QED
  BY Zenon, <1>1, <1>2, <1>3, <1>4, <1>5 DEF Dispatch!WorkerStep

(* The dispatcher publishes claims in their turn.                          *)
LEMMA DispatcherPublishesInTurn ==
  ASSUME DispatchInv, ClaimsInv, Dispatch!DispatcherStep \/ Dispatch!StopQueue
  PROVE  ClaimsInv'
<1> USE DispatchConstants
<1>a. /\ Publishing /\ observed \in 0..Len(Changes)
      /\ stream \in [Dispatch!Claims -> [status : ClaimStatus, deliveries : Nat]]
      /\ disp \in [pc : {"idle", "publish", "backoff"}, attempt : Nat]
      /\ outcome \in [Dispatch!Events -> {"none", "ignored", "dropped", "enqueued", "exhausted"}]
  BY Zenon DEF DispatchInv, DispatchType
<1>b. worker' = worker
  BY Zenon DEF Dispatch!DispatcherStep, Dispatch!Observe, Dispatch!Publish, Dispatch!PublishRaises,
     Dispatch!Backoff, Dispatch!StopQueue, Dispatch!poolVars
<1>c. ASSUME Undecided', \A m \in Dispatch!Claims : stream'[m].status # "absent" => InTurn(m)',
             \A m \in Dispatch!Claims : stream'[m].status = "absent" => stream[m].status = "absent"
      PROVE  ClaimsInv'
  BY Zenon, <1>b, <1>c DEF ClaimsInv, Holds
<1>d. /\ Undecided /\ \A m \in Dispatch!Claims : stream[m].status # "absent" => InTurn(m)
      /\ \A m \in Dispatch!Claims : m[1] \in 1..Len(Changes) /\ m[2] \in Nat
  BY ClaimParts DEF ClaimsInv
<1>1. CASE Dispatch!Observe
  <2>1. /\ observed' = observed + 1 /\ observed' \in Dispatch!Events /\ stream' = stream
        /\ disp'.pc # "idle" => outcome' = outcome
    BY <1>1, <1>a DEF Dispatch!Observe, Dispatch!Ends, Dispatch!Idle
  <2>2. \A e \in Dispatch!Events : e # observed + 1 => outcome'[e] = outcome[e]
    BY Zenon, <1>1, <1>a DEF Dispatch!Observe, Dispatch!Ends
  <2>3. Undecided'
    BY <1>a, <1>d, <2>1, <2>2 DEF Undecided
  <2>4. ASSUME NEW m \in Dispatch!Claims, stream[m].status # "absent" PROVE InTurn(m)'
    <3>1. m[1] <= observed /\ outcome[m[1]] \notin {"ignored", "dropped"} /\ m[1] \in Dispatch!Events
      BY Zenon, <1>d, <2>4, ClaimParts DEF InTurn
    <3>2. m[1] <= observed + 1 /\ m[1] # observed + 1
      BY <1>a, <3>1
    <3> QED
      BY Zenon, <2>1, <2>2, <3>1, <3>2 DEF InTurn
  <2> QED
    BY Zenon, <1>c, <2>1, <2>3, <2>4
<1>2. ASSUME Dispatch!Store(Dispatch!ThisClaim) \/ stream' = stream, disp.pc = "publish", observed' = observed,
             \/ disp' = [pc |-> "backoff", attempt |-> disp.attempt] /\ outcome' = outcome
             \/ /\ disp' = [pc |-> "idle", attempt |-> 0]
                /\ \E s \in {"enqueued", "exhausted"} : outcome' = [outcome EXCEPT ![observed] = s]
      PROVE  ClaimsInv'
  <2>1. observed \in Dispatch!Events /\ outcome[observed] = "none"
    BY Zenon, <1>2, <1>a, <1>d DEF Publishing, Undecided
  <2>2. /\ \A e \in Dispatch!Events : e # observed => outcome'[e] = outcome[e]
        /\ outcome'[observed] \notin {"ignored", "dropped"}
    BY Zenon, <1>2, <1>a, <2>1
  <2>3. disp'.pc = "idle" \/ (disp'.pc = "backoff" /\ disp'.attempt = disp.attempt /\ outcome' = outcome)
    BY <1>2
  <2>4. Undecided'
    BY <1>2, <1>a, <1>d, <2>1, <2>2, <2>3 DEF Undecided
  <2>5. \A m \in Dispatch!Claims : stream[m].status # "absent" => InTurn(m)'
    BY <1>2, <1>a, <1>d, <2>1, <2>2, <2>3 DEF InTurn
  <2>6. \A m \in Dispatch!Claims : stream'[m].status # "absent" =>
          stream[m].status # "absent" \/ m = <<observed, disp.attempt>>
    BY Zenon, <1>2, <1>a DEF Dispatch!Store, Dispatch!ThisClaim
  <2>7. ASSUME NEW m \in Dispatch!Claims, m = <<observed, disp.attempt>> PROVE InTurn(m)'
    <3>1. m[1] = observed /\ m[2] = disp.attempt
      BY Zenon, <2>7
    <3> QED
      BY <1>2, <1>a, <2>2, <2>3, <3>1 DEF InTurn
  <2>8. \A m \in Dispatch!Claims : stream'[m].status = "absent" => stream[m].status = "absent"
    BY Zenon, <1>2, StoredClaim
  <2> QED
    BY Zenon, <1>c, <2>4, <2>5, <2>6, <2>7, <2>8
<1>3. CASE Dispatch!Publish
  BY Zenon, <1>2, <1>3 DEF Dispatch!Publish, Dispatch!Ends, Dispatch!Idle
<1>4. CASE Dispatch!PublishRaises
  <2>1. [disp EXCEPT !.pc = "backoff"] = [pc |-> "backoff", attempt |-> disp.attempt]
    BY <1>a
  <2>2. Dispatch!Retry /\ disp.pc = "publish" /\ observed' = observed
    BY Zenon, <1>4 DEF Dispatch!PublishRaises
  <2>3. Dispatch!Store(Dispatch!ThisClaim) \/ stream' = stream
    BY Zenon, <1>4 DEF Dispatch!PublishRaises
  <2>4. \/ disp' = [pc |-> "backoff", attempt |-> disp.attempt] /\ outcome' = outcome
        \/ /\ disp' = [pc |-> "idle", attempt |-> 0]
           /\ \E s \in {"enqueued", "exhausted"} : outcome' = [outcome EXCEPT ![observed] = s]
    BY Zenon, <2>1, <2>2 DEF Dispatch!Retry, Dispatch!Ends, Dispatch!Idle
  <2> QED
    BY Zenon, <1>2, <2>2, <2>3, <2>4
<1>5. CASE Dispatch!Backoff
  <2>1. /\ disp.pc = "backoff" /\ disp'.pc = "publish" /\ disp'.attempt = disp.attempt + 1
        /\ observed' = observed /\ outcome' = outcome /\ stream' = stream
    BY Zenon, <1>5 DEF Dispatch!Backoff
  <2>2. \A m \in Dispatch!Claims : InTurn(m) => InTurn(m)'
    BY <1>a, <1>d, <2>1 DEF InTurn
  <2>3. Undecided'
    BY Zenon, <1>d, <2>1 DEF Undecided
  <2> QED
    BY Zenon, <1>c, <1>d, <2>1, <2>2, <2>3
<1>6. CASE Dispatch!StopQueue
  BY Zenon, <1>6, <1>c, <1>d DEF Dispatch!StopQueue, Undecided, InTurn
<1> QED
  BY Zenon, <1>1, <1>3, <1>4, <1>5, <1>6 DEF Dispatch!DispatcherStep

(* No phantom claims: with any number of workers, attempts and events, and *)
(* through every fault, nobody holds or is going to get a claim for a task *)
(* that the dispatcher did not try to publish (NoPhantomClaims).           *)
THEOREM ClaimsAreNeverPhantoms == Dispatch!Spec => []NoPhantomClaims
<1>1. Dispatch!Init => ClaimsInv
  <2> SUFFICES ASSUME Dispatch!Init PROVE ClaimsInv
    BY Zenon
  <2>1. disp.pc = "idle" /\ Dispatch!Polling.pc = "poll" /\ Dispatch!Absent.status = "absent"
    BY Zenon DEF Dispatch!Init, Dispatch!Idle, Dispatch!Polling, Dispatch!Absent
  <2> QED
    BY Zenon, <2>1 DEF Dispatch!Init, ClaimsInv, Undecided, Holds
<1>2. ASSUME DispatchInv, ClaimsInv, [Dispatch!Next]_(Dispatch!vars) PROVE ClaimsInv'
  <2>1. CASE UNCHANGED Dispatch!vars
    BY Zenon, <1>2, <2>1 DEF Dispatch!vars, Dispatch!dispatcherVars, Dispatch!poolVars, ClaimsInv,
       Undecided, InTurn, Holds
  <2> QED
    BY Zenon, <1>2, <2>1, DispatcherPublishesInTurn, PoolPublishesNothing DEF Dispatch!Next
<1>3. ClaimsInv => NoPhantomClaims
  BY Zenon DEF ClaimsInv, NoPhantomClaims, InTurn
<1> QED
  BY <1>1, <1>2, <1>3, DispatchAlways, PTL DEF Dispatch!Spec
=============================================================================
