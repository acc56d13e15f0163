-------------------------- MODULE EscalationProofs ---------------------------
(***************************************************************************)
(* Safety of the escalation queue, for any number of workers, resolvers    *)
(* and operators and under every fault: types, a settled row never         *)
(* changes, what resolve() returns and what operators are told is what the *)
(* table says, a conflict has one pending escalation, every registered     *)
(* future has a resolver that waits for it, an answer that is in time is   *)
(* the one returned, and no wake-up is lost while notifications are sound. *)
(*                                                                         *)
(* The inductive invariant says where a decision may be on its way from    *)
(* the table to a resolver (a future, a notification, a local variable, an *)
(* operator's request) and that each of these copies agrees with a row     *)
(* that is already settled.  Each action is shown to change the variables  *)
(* of one group in one of few ways (RowsMove, FutureMove, ...); the        *)
(* invariant is preserved by these ways of moving alone.                   *)
(***************************************************************************)
EXTENDS Escalation, TLAPS

RowsType ==
  /\ rows \in [Resolvers -> Row]
  /\ \A r \in Resolvers : rows[r].decision # None <=> rows[r].status = "decided"
SetsType ==
  /\ due \subseteq Resolvers /\ registered \subseteq Resolvers
  /\ inTime \subseteq Resolvers /\ listening \subseteq Workers
FutureType == future \in [Resolvers -> Decisions \cup {"none", "pending", "cancelled"}]
ResolverType ==
  /\ pc \in [Resolvers -> ResolverPc]
  /\ decision \in [Resolvers -> Decisions \cup {None}]
  /\ task \in [Resolvers -> {"none", "drop", "expire", "cancel", "publish"}]
  /\ result \in [Resolvers -> Decisions \cup Outcome]
Operation == [pc : {"idle", "apply", "wake", "done"}, kind : {"decide", "cancel"},
              worker : Workers \cup {None}, target : Resolvers \cup {None},
              decision : Decisions \cup {None},
              answer : {"none", "ok", "not_found", "conflict", "invalid", "error"}]
Payload == [id : Resolvers, status : Terminal]
ChannelType ==
  /\ unpublished \in [Actors -> SUBSET Resolvers]
  /\ inbox \in [Workers -> Seq(Payload)]

(* the row of a resolver that has not created it yet                       *)
NotCreated == \A r \in Resolvers : pc[r] \in {"idle", "create"} => rows[r].status = "none"
(* a future and a local variable hold the stored decision                  *)
FutureStored == \A r \in Resolvers : future[r] \in Decisions => rows[r].decision = future[r]
LocalStored ==
  \A r \in Resolvers :
     /\ decision[r] # None => rows[r].decision = decision[r]
     /\ pc[r] \in {"late_drop", "decided_by"} => decision[r] # None
(* a request that is under way, and one that was answered                  *)
RequestStored ==
  \A q \in Requests :
     /\ op[q].pc = "apply" => /\ op[q].target \in Resolvers /\ op[q].decision \in Decisions
                              /\ op[q].kind = "decide" /\ op[q].answer = "none"
     /\ op[q].pc = "wake" \/ op[q].answer = "ok" =>
          /\ op[q].target \in Resolvers
          /\ rows[op[q].target].status \in Terminal
          /\ rows[op[q].target].by = q
          /\ rows[op[q].target].decision = op[q].decision
     /\ op[q].pc = "wake" => /\ op[q].kind = "decide" => op[q].decision \in Decisions
                             /\ op[q].kind = "cancel" => op[q].decision = None
(* only settled rows are published                                         *)
PublishedSettled ==
  /\ \A a \in Actors : \A r \in unpublished[a] : rows[r].status \in Terminal
  /\ \A w \in Workers : \A i \in 1..Len(inbox[w]) :
        inbox[w][i].status = rows[inbox[w][i].id].status

IInv ==
  /\ RowsType /\ SetsType /\ FutureType /\ ResolverType
  /\ op \in [Requests -> Operation]
  /\ ChannelType
  /\ NotCreated /\ FutureStored /\ LocalStored /\ RequestStored /\ PublishedSettled
  /\ ResolutionIsStored /\ OnePendingPerConflict

----------------------------------------------------------------------------
(* The ways a row moves: not at all, from nothing to pending by its own    *)
(* resolver, from pending to settled.                                      *)
RowsMove ==
  /\ RowsType'
  /\ \A r \in Resolvers :
        \/ rows'[r] = rows[r]
        \/ /\ rows[r].status = "none" /\ rows'[r].status = "pending"
           /\ pc'[r] \notin {"idle", "create"} /\ ~Conflicting(r)
           /\ \A s \in Resolvers \ {r} : rows'[s] = rows[s]
        \/ rows[r].status = "pending" /\ rows'[r].status \in Terminal

(* Writing one pending or settled row is such a move.                      *)
LEMMA OneRowMoves ==
  ASSUME IInv, NEW r \in Resolvers, NEW row \in Row, StoreTerminal(r, row),
         row.decision # None <=> row.status = "decided",
         \/ /\ pc[r] = "create" /\ pc'[r] \notin {"idle", "create"} /\ ~Conflicting(r)
            /\ row.status = "pending"
         \/ PendingRow(r) /\ row.status \in Terminal
  PROVE  RowsMove
<1>1. rows \in [Resolvers -> Row] /\ rows' = [rows EXCEPT ![r] = row]
  BY Zenon DEF IInv, RowsType, StoreTerminal
<1>2. pc[r] = "create" => rows[r].status = "none"
  BY Zenon DEF IInv, NotCreated
<1>3. RowsType'
  BY Zenon, <1>1 DEF IInv, RowsType
<1>4. \A s \in Resolvers \ {r} : rows'[s] = rows[s]
  BY Zenon, <1>1
<1>5. rows'[r] = row
  BY Zenon, <1>1
<1> QED BY Zenon, <1>2, <1>3, <1>4, <1>5 DEF RowsMove, PendingRow

(* mark_expired() expires pending rows and moves no other.                 *)
LEMMA ExpiringMovesRows ==
  ASSUME IInv, MarkExpired
  PROVE  RowsMove
<1>1. Expired \in Row /\ Expired.decision = None /\ Expired.status = "expired"
  BY Zenon DEF Expired, Row, Status
<1>2. RowsType'
  BY Zenon, <1>1 DEF IInv, RowsType, MarkExpired
<1>3. \A r \in Resolvers : rows'[r] = IF r \in DuePending THEN Expired ELSE rows[r]
  BY Zenon DEF MarkExpired
<1> QED BY Zenon, <1>1, <1>2, <1>3 DEF RowsMove, DuePending, PendingRow, Terminal

(* The rows that are written.                                              *)
LEMMA WrittenRows ==
  /\ [NoRow EXCEPT !.status = "pending"] \in Row
  /\ [NoRow EXCEPT !.status = "pending"].status = "pending"
  /\ [NoRow EXCEPT !.status = "pending"].decision = None
  /\ \A d \in Decisions, q \in Requests :
        Decided(d, q) \in Row /\ Decided(d, q).status = "decided" /\ Decided(d, q).decision = d
        /\ Decided(d, q).by = q
  /\ \A b \in Requests \cup {"system"} :
        Cancelled(b) \in Row /\ Cancelled(b).status = "cancelled" /\ Cancelled(b).decision = None
        /\ Cancelled(b).by = b
  BY Zenon DEF NoRow, Row, Status, Decided, Cancelled

(* Every step moves the rows in one of these ways.                         *)
LEMMA RowsMoveByNext ==
  ASSUME IInv, Next
  PROVE  RowsMove
<1> USE EscalationAssumption
<1>t. pc \in [Resolvers -> ResolverPc] /\ \A d \in Decisions : d # None
  BY Zenon DEF IInv, ResolverType
<1>0. CASE rows' = rows
  BY Zenon, <1>0 DEF IInv, RowsType, RowsMove
<1>1. ASSUME NEW r \in Resolvers, Create(r) \/ CreateFails(r) PROVE RowsMove
  <2>1. CASE rows' = rows
    BY Zenon, <2>1, <1>0
  <2>2. CASE StoreTerminal(r, [NoRow EXCEPT !.status = "pending"]) /\ ~Conflicting(r)
    <3>1. pc[r] = "create" /\ pc'[r] \notin {"idle", "create"}
      BY Zenon, <1>1, <1>t DEF Create, CreateFails, Finish
    <3> QED BY Zenon, <3>1, <2>2, WrittenRows, OneRowMoves
  <2> QED BY Zenon, <1>1, <2>1, <2>2 DEF Create, CreateFails
<1>2. ASSUME NEW r \in Resolvers, CancelTask(r) PROVE RowsMove
  <2>1. CASE rows' = rows
    BY Zenon, <2>1, <1>0
  <2>2. CASE /\ StoreTerminal(r, [NoRow EXCEPT !.status = "pending"]) /\ ~Conflicting(r)
             /\ pc[r] = "create" /\ Finish(r, "aborted")
    <3>1. pc'[r] \notin {"idle", "create"}
      BY Zenon, <2>2, <1>t DEF Finish
    <3> QED BY Zenon, <3>1, <2>2, WrittenRows, OneRowMoves
  <2> QED BY <1>2, <2>1, <2>2 DEF CancelTask
<1>3. ASSUME NEW r \in Resolvers, RunExpire(r) PROVE RowsMove
  BY Zenon, <1>3, <1>0, ExpiringMovesRows DEF RunExpire
<1>4. ASSUME NEW r \in Resolvers, RunCancel(r) PROVE RowsMove
  <2>1. CASE PendingRow(r) /\ StoreTerminal(r, Cancelled("system"))
    BY <2>1, WrittenRows, OneRowMoves DEF Terminal
  <2> QED BY Zenon, <1>4, <2>1, <1>0 DEF RunCancel
<1>5. ASSUME NEW q \in Requests, ApplyDecision(q) \/ ApplyFails(q) PROVE RowsMove
  <2>1. op[q].target \in Resolvers /\ op[q].decision \in Decisions
    BY Zenon, <1>5 DEF IInv, RequestStored, ApplyDecision, ApplyFails
  <2>2. CASE PendingRow(op[q].target) /\ StoreTerminal(op[q].target, Decided(op[q].decision, q))
    BY <2>1, <2>2, <1>t, WrittenRows, OneRowMoves DEF Terminal
  <2> QED BY Zenon, <1>5, <2>2, <1>0 DEF ApplyDecision, ApplyFails
<1>6. ASSUME NEW q \in Requests, NEW w \in Workers, NEW r \in Resolvers,
             SubmitCancel(q, w, r) \/ SubmitCancelFails(q, w, r)
      PROVE  RowsMove
  <2>1. CASE PendingRow(r) /\ StoreTerminal(r, Cancelled(q))
    BY ZenonT(60), <2>1, WrittenRows, OneRowMoves DEF Terminal
  <2>2. rows[r].status \in Status
    BY Zenon DEF IInv, RowsType, Row
  <2>3. rows' = rows \/ (PendingRow(r) /\ StoreTerminal(r, Cancelled(q)))
    BY Zenon, <1>6, <2>2 DEF Refusal, SubmitCancel, SubmitCancelFails, PendingRow, Status, Terminal
  <2> QED BY Zenon, <2>1, <2>3, <1>0
<1>7. ASSUME NEW w \in Workers, Sweep(w) PROVE RowsMove
  BY Zenon, <1>7, ExpiringMovesRows DEF Sweep
<1>8. \/ rows' = rows
      \/ \E r \in Resolvers : Create(r) \/ CreateFails(r) \/ CancelTask(r) \/ RunExpire(r) \/ RunCancel(r)
      \/ \E q \in Requests : \/ ApplyDecision(q) \/ ApplyFails(q)
                            \/ \E w \in Workers, r \in Resolvers :
                                 SubmitCancel(q, w, r) \/ SubmitCancelFails(q, w, r)
      \/ \E w \in Workers : Sweep(w)
  BY ZenonT(40) DEF Next, ResolverStep, RequestStep, Start, PassDeadline, Wake, ReadDecidedBy,
     TimeOut,
         ReadLateDecision, RunDrop, EndTask, SubmitDecision, WakeResolver, Publish, Dispatch,
         LoseChannel, ReopenChannel, CloseRegistry, Crash
<1> QED BY Zenon, <1>0, <1>1, <1>2, <1>3, <1>4, <1>5, <1>6, <1>7, <1>8

----------------------------------------------------------------------------
(* The ways a future moves: a decision it gets is the stored one.          *)
FutureMove ==
  /\ FutureType' /\ registered' \subseteq Resolvers
  /\ \A r \in Resolvers : future'[r] \in Decisions => future'[r] \in {future[r], rows[r].decision}

(* Settling a future with the stored decision is one of these ways.        *)
LEMMA SettlingMovesFutures ==
  ASSUME IInv, NEW r \in Resolvers, NEW value \in Decisions \cup {"cancelled"}, Settle(r, value),
         value \in Decisions => value = rows[r].decision
  PROVE  FutureMove
<1>1. /\ future \in [Resolvers -> Decisions \cup {"none", "pending", "cancelled"}]
      /\ registered \subseteq Resolvers
  BY Zenon DEF IInv, FutureType, SetsType
<1>2. "cancelled" \notin Decisions
  BY Zenon, EscalationAssumption DEF Outcome
<1> QED BY Zenon, <1>1, <1>2 DEF Settle, FutureMove, FutureType

(* Every step moves the futures in one of these ways.                      *)
LEMMA FutureMoveByNext ==
  ASSUME IInv, Next
  PROVE  FutureMove
<1>t. /\ future \in [Resolvers -> Decisions \cup {"none", "pending", "cancelled"}]
      /\ registered \subseteq Resolvers
      /\ "cancelled" \notin Decisions /\ "pending" \notin Decisions
  BY Zenon, EscalationAssumption DEF IInv, FutureType, SetsType, Outcome
<1>0. CASE UNCHANGED registryVars
  BY Zenon, <1>0, <1>t DEF registryVars, FutureMove, FutureType
<1>1. ASSUME NEW r \in Resolvers, Start(r) PROVE FutureMove
  BY Zenon, <1>1, <1>t DEF Start, FutureMove, FutureType
<1>2. ASSUME NEW r \in Resolvers, Create(r) \/ CreateFails(r) \/ RunDrop(r) PROVE FutureMove
  BY Zenon, <1>2, <1>0, <1>t, SettlingMovesFutures DEF Create, CreateFails, RunDrop
<1>3. ASSUME NEW r \in Resolvers, TimeOut(r) \/ CancelTask(r) PROVE FutureMove
  BY Zenon, <1>3, <1>t DEF TimeOut, CancelTask, FutureMove, FutureType
<1>4. ASSUME NEW q \in Requests, WakeResolver(q) PROVE FutureMove
  <2>1. /\ op[q].target \in Resolvers
        /\ op[q].kind = "decide" => /\ op[q].decision \in Decisions
                                   /\ op[q].decision = rows[op[q].target].decision
    BY Zenon, <1>4 DEF IInv, RequestStored, WakeResolver
  <2>2. \/ UNCHANGED registryVars
        \/ op[q].kind = "decide" /\ Settle(op[q].target, op[q].decision)
        \/ Settle(op[q].target, "cancelled")
    BY Zenon, <1>4 DEF WakeResolver, RegistryResolve, RegistryCancel
  <2> QED BY Zenon, <1>0, <1>t, <2>1, <2>2, SettlingMovesFutures
<1>5. ASSUME NEW w \in Workers, Dispatch(w) PROVE FutureMove
  <2> DEFINE p == Head(inbox[w])
  <2>1. /\ inbox[w] \in Seq(Payload) /\ inbox[w] # << >>
        /\ \A i \in 1..Len(inbox[w]) : inbox[w][i].status = rows[inbox[w][i].id].status
    BY Zenon, <1>5 DEF Dispatch, IInv, ChannelType, PublishedSettled
  <2>2. p \in Payload /\ p.status = rows[p.id].status
    BY <2>1
  <2>3. p.id \in Resolvers /\ (p.status = "decided" => rows[p.id].decision \in Decisions)
    BY Zenon, <2>2 DEF IInv, RowsType, Row, Payload
  <2>4. \/ UNCHANGED registryVars
        \/ p.status = "decided" /\ Settle(p.id, rows[p.id].decision)
        \/ Settle(p.id, "cancelled")
    BY Zenon, <1>5 DEF Dispatch, RegistryResolve, RegistryCancel
  <2> HIDE DEF p
  <2> QED BY Zenon, <1>0, <1>t, <2>3, <2>4, SettlingMovesFutures
<1>6. ASSUME NEW w \in Workers, CloseRegistry(w) PROVE FutureMove
  BY Zenon, <1>6, <1>t DEF CloseRegistry, FutureMove, FutureType
<1>7. ASSUME NEW w \in Workers, Crash(w) PROVE FutureMove
  BY Zenon, <1>7, <1>t DEF Crash, FutureMove, FutureType
<1>8. \/ UNCHANGED registryVars
      \/ \E r \in Resolvers : \/ Start(r) \/ Create(r) \/ CreateFails(r) \/ RunDrop(r)
                             \/ TimeOut(r) \/ CancelTask(r)
      \/ \E q \in Requests : WakeResolver(q)
      \/ \E w \in Workers : Dispatch(w) \/ CloseRegistry(w) \/ Crash(w)
  <2>1. ASSUME NEW r \in Resolvers, PassDeadline(r) \/ Wake(r) \/ ReadDecidedBy(r) \/ ReadLateDecision(r) \/ RunExpire(r) \/ RunCancel(r) \/ EndTask(r)
        PROVE  UNCHANGED registryVars
    BY Zenon, <2>1 DEF PassDeadline, Wake, ReadDecidedBy, ReadLateDecision, RunExpire, RunCancel, EndTask
  <2>2. ASSUME NEW q \in Requests, NEW w \in Workers, NEW r \in Resolvers, NEW d \in Decisions,
               SubmitDecision(q, w, r, d)
        PROVE  UNCHANGED registryVars
    BY Zenon, <2>2 DEF SubmitDecision
  <2>3. ASSUME NEW q \in Requests, NEW w \in Workers, NEW r \in Resolvers,
               SubmitCancel(q, w, r) \/ SubmitCancelFails(q, w, r)
        PROVE  UNCHANGED registryVars
    BY <2>3, ZenonT(40) DEF SubmitCancel, SubmitCancelFails
  <2>4. ASSUME NEW q \in Requests, ApplyDecision(q) \/ ApplyFails(q)
        PROVE  UNCHANGED registryVars
    BY Zenon, <2>4 DEF ApplyDecision, ApplyFails
  <2>5. ASSUME NEW a \in Actors, Publish(a)
        PROVE  UNCHANGED registryVars
    BY Zenon, <2>5 DEF Publish
  <2>6. ASSUME NEW w \in Workers, LoseChannel(w) \/ ReopenChannel(w) \/ Sweep(w)
        PROVE  UNCHANGED registryVars
    BY Zenon, <2>6 DEF LoseChannel, ReopenChannel, Sweep
  <2> QED BY Zenon, <2>1, <2>2, <2>3, <2>4, <2>5, <2>6 DEF Next, ResolverStep, RequestStep
<1> QED BY Zenon, <1>0, <1>1, <1>2, <1>3, <1>4, <1>5, <1>6, <1>7, <1>8

----------------------------------------------------------------------------
(* The ways a resolver moves: it never goes back before its creation, a    *)
(* decision it learns is the stored one, and what it returns it had learnt. *)
ResolverMove ==
  /\ ResolverType'
  /\ \A r \in Resolvers :
        /\ pc'[r] \in {"idle", "create"} => pc[r] \in {"idle", "create"}
        /\ decision'[r] # None => decision'[r] \in {decision[r], rows[r].decision}
        /\ pc'[r] \in {"late_drop", "decided_by"} => decision'[r] # None
        /\ result'[r] \in Decisions => result'[r] \in {result[r], decision[r]}

(* Every step moves the resolvers in one of these ways.                    *)
LEMMA ResolverMoveByNext ==
  ASSUME IInv, Next
  PROVE  ResolverMove
<1>t. /\ pc \in [Resolvers -> ResolverPc]
      /\ decision \in [Resolvers -> Decisions \cup {None}]
      /\ task \in [Resolvers -> {"none", "drop", "expire", "cancel", "publish"}]
      /\ result \in [Resolvers -> Decisions \cup Outcome]
      /\ \A r \in Resolvers : pc[r] \in {"late_drop", "decided_by"} => decision[r] # None
  BY Zenon DEF IInv, ResolverType, LocalStored
<1>d. \A v \in Outcome : v \notin Decisions
  BY Zenon, EscalationAssumption
<1>n. None \notin Decisions
  BY Zenon, EscalationAssumption
<1>0. CASE UNCHANGED resolverVars
  BY Zenon, <1>0, <1>t DEF resolverVars, ResolverMove, ResolverType
<1>1. ASSUME NEW r \in Resolvers, Start(r) PROVE ResolverMove
  BY Zenon, <1>1, <1>t DEF Start, ResolverMove, ResolverType, ResolverPc
<1>2. ASSUME NEW r \in Resolvers, Create(r) \/ CreateFails(r) PROVE ResolverMove
  BY <1>2, <1>t, <1>d DEF Create, CreateFails, Finish, ResolverMove, ResolverType, ResolverPc,
     Outcome
<1>3. ASSUME NEW r \in Resolvers, Wake(r) PROVE ResolverMove
  <2>1. future[r] \in Decisions => rows[r].decision = future[r]
    BY Zenon DEF IInv, FutureStored
  <2> QED BY <1>3, <1>t, <1>n, <2>1 DEF Wake, ResolverMove, ResolverType, ResolverPc
<1>4. ASSUME NEW r \in Resolvers, ReadDecidedBy(r) PROVE ResolverMove
  BY Zenon, <1>4, <1>t DEF ReadDecidedBy, Finish, ResolverMove, ResolverType, ResolverPc
<1>5. ASSUME NEW r \in Resolvers, TimeOut(r) PROVE ResolverMove
  BY Zenon, <1>5, <1>t DEF TimeOut, ResolverMove, ResolverType, ResolverPc
<1>6. ASSUME NEW r \in Resolvers, ReadLateDecision(r) PROVE ResolverMove
  <2>1. rows[r].status = "decided" => rows[r].decision \in Decisions
    BY Zenon DEF IInv, RowsType, Row
  <2> QED BY <1>6, <1>t, <1>n, <2>1 DEF ReadLateDecision, ResolverMove, ResolverType, ResolverPc
<1>7. ASSUME NEW r \in Resolvers, RunDrop(r) PROVE ResolverMove
  BY <1>7, <1>t DEF RunDrop, Finish, ResolverMove, ResolverType, ResolverPc
<1>8. ASSUME NEW r \in Resolvers, RunExpire(r) \/ RunCancel(r) PROVE ResolverMove
  BY Zenon, <1>8, <1>t DEF RunExpire, RunCancel, ResolverMove, ResolverType
<1>9. ASSUME NEW r \in Resolvers, EndTask(r) PROVE ResolverMove
  BY <1>9, <1>t, <1>d DEF EndTask, Finish, ResolverMove, ResolverType, ResolverPc, Outcome
<1>10. ASSUME NEW r \in Resolvers, CancelTask(r) PROVE ResolverMove
  BY <1>10, <1>t, <1>d DEF CancelTask, Finish, ResolverMove, ResolverType, ResolverPc, Outcome
<1>11. ASSUME NEW w \in Workers, Crash(w) PROVE ResolverMove
  BY Zenon, <1>11, <1>t, <1>d DEF Crash, ResolverMove, ResolverType, ResolverPc, Outcome
<1>12. \/ UNCHANGED resolverVars
       \/ \E r \in Resolvers : \/ Start(r) \/ Create(r) \/ CreateFails(r) \/ Wake(r)
                              \/ ReadDecidedBy(r) \/ TimeOut(r) \/ ReadLateDecision(r) \/ RunDrop(r)
                              \/ RunExpire(r) \/ RunCancel(r) \/ EndTask(r) \/ CancelTask(r)
       \/ \E w \in Workers : Crash(w)
  <2>1. ASSUME NEW r \in Resolvers, PassDeadline(r)
        PROVE  UNCHANGED resolverVars
    BY Zenon, <2>1 DEF PassDeadline
  <2>2. ASSUME NEW q \in Requests, NEW w \in Workers, NEW r \in Resolvers, NEW d \in Decisions,
               SubmitDecision(q, w, r, d)
        PROVE  UNCHANGED resolverVars
    BY Zenon, <2>2 DEF SubmitDecision
  <2>3. ASSUME NEW q \in Requests, NEW w \in Workers, NEW r \in Resolvers,
               SubmitCancel(q, w, r) \/ SubmitCancelFails(q, w, r)
        PROVE  UNCHANGED resolverVars
    BY <2>3, ZenonT(40) DEF SubmitCancel, SubmitCancelFails
  <2>4. ASSUME NEW q \in Requests, ApplyDecision(q) \/ ApplyFails(q) \/ WakeResolver(q)
        PROVE  UNCHANGED resolverVars
    BY Zenon, <2>4 DEF ApplyDecision, ApplyFails, WakeResolver
  <2>5. ASSUME NEW a \in Actors, Publish(a)
        PROVE  UNCHANGED resolverVars
    BY Zenon, <2>5 DEF Publish
  <2>6. ASSUME NEW w \in Workers, Dispatch(w) \/ LoseChannel(w) \/ ReopenChannel(w) \/ CloseRegistry(w) \/ Sweep(w)
        PROVE  UNCHANGED resolverVars
    BY Zenon, <2>6 DEF Dispatch, LoseChannel, ReopenChannel, CloseRegistry, Sweep
  <2> QED BY Zenon, <2>1, <2>2, <2>3, <2>4, <2>5, <2>6 DEF Next, ResolverStep, RequestStep
<1> QED BY Zenon, <1>0, <1>1, <1>2, <1>3, <1>4, <1>5, <1>6, <1>7, <1>8, <1>9, <1>10, <1>11, <1>12

----------------------------------------------------------------------------
(* A settled row stays as it is.                                           *)
LEMMA SettledStays ==
  ASSUME RowsMove, NEW r \in Resolvers, rows[r].status \in Terminal
  PROVE  rows'[r] = rows[r]
  BY Zenon DEF RowsMove, Terminal

(* A request that does not move keeps its promises, because its row does.  *)
Promises(q) ==
  /\ op[q].pc = "apply" => /\ op[q].target \in Resolvers /\ op[q].decision \in Decisions
                           /\ op[q].kind = "decide" /\ op[q].answer = "none"
  /\ op[q].pc = "wake" \/ op[q].answer = "ok" =>
       /\ op[q].target \in Resolvers
       /\ rows[op[q].target].status \in Terminal
       /\ rows[op[q].target].by = q
       /\ rows[op[q].target].decision = op[q].decision
  /\ op[q].pc = "wake" => /\ op[q].kind = "decide" => op[q].decision \in Decisions
                          /\ op[q].kind = "cancel" => op[q].decision = None

(* A request that does not move keeps what it promises.                    *)
LEMMA StillRequestKeepsPromises ==
  ASSUME IInv, RowsMove, NEW q \in Requests, op'[q] = op[q]
  PROVE  Promises(q)'
<1>1. Promises(q)
  BY Zenon DEF IInv, RequestStored, Promises
<1>2. op[q].target \in Resolvers /\ rows[op[q].target].status \in Terminal
        => rows'[op[q].target] = rows[op[q].target]
  BY Zenon, SettledStays
<1> QED BY Zenon, <1>1, <1>2 DEF Promises

(* Every step keeps what the requests promise.                             *)
LEMMA RequestMoveByNext ==
  ASSUME IInv, Next, RowsMove
  PROVE  (op \in [Requests -> Operation])' /\ RequestStored'
<1> DEFINE Goal == (op \in [Requests -> Operation])' /\ \A q \in Requests : Promises(q)'
<1>q. SUFFICES Goal
  BY Zenon DEF RequestStored, Promises
<1>t. op \in [Requests -> Operation]
  BY Zenon DEF IInv
<1>r. \A r \in Resolvers : rows[r] \in Row
  BY Zenon DEF IInv, RowsType
<1>0. CASE op' = op
  BY Zenon, <1>0, <1>t, StillRequestKeepsPromises
<1>1. ASSUME NEW q \in Requests, NEW o \in Operation, op' = [op EXCEPT ![q] = o], Promises(q)'
      PROVE  Goal
  <2>1. (op \in [Requests -> Operation])'
    BY Zenon, <1>1, <1>t
  <2>2. \A p \in Requests \ {q} : op'[p] = op[p]
    BY Zenon, <1>1, <1>t
  <2> QED BY Zenon, <1>1, <2>1, <2>2, StillRequestKeepsPromises
<1>2. ASSUME NEW q \in Requests, NEW w \in Workers, NEW r \in Resolvers, NEW d \in Decisions,
             SubmitDecision(q, w, r, d)
      PROVE  Goal
  <2> DEFINE refusal == Refusal(r, d \in Accepted)
             o == [pc |-> IF refusal = "none" THEN "apply" ELSE "done", kind |-> "decide",
                   worker |-> w, target |-> r, decision |-> d, answer |-> refusal]
  <2>0. refusal \in {"none", "not_found", "conflict", "invalid"}
    BY Zenon DEF Refusal
  <2>1. /\ o \in Operation /\ op' = [op EXCEPT ![q] = o] /\ o.answer # "ok" /\ o.pc # "wake"
        /\ o.target = r /\ o.decision = d /\ o.kind = "decide"
        /\ o.pc = "apply" => o.answer = "none"
    <3> HIDE DEF refusal
    <3>1. o \in Operation
      BY Zenon, <2>0 DEF Operation
    <3>2. op' = [op EXCEPT ![q] = o]
      BY Zenon, <1>2 DEF SubmitDecision, refusal
    <3> QED BY Zenon, <2>0, <3>1, <3>2
  <2> HIDE DEF o
  <2>2. op'[q] = o
    BY Zenon, <2>1, <1>t
  <2>3. Promises(q)'
    BY Zenon, <2>1, <2>2 DEF Promises
  <2> QED BY Zenon, <2>1, <2>3, <1>1
<1>3. ASSUME NEW q \in Requests, NEW w \in Workers, NEW r \in Resolvers, SubmitCancel(q, w, r)
      PROVE  Goal
  <2> DEFINE refusal == Refusal(r, TRUE)
             o == [pc |-> IF refusal = "none" THEN "wake" ELSE "done", kind |-> "cancel",
                   worker |-> w, target |-> r, decision |-> None, answer |-> refusal]
  <2>0. refusal \in {"none", "not_found", "conflict"}
    BY Zenon DEF Refusal
  <2>1. /\ o \in Operation /\ op' = [op EXCEPT ![q] = o] /\ o.answer # "ok" /\ o.pc # "apply"
        /\ o.target = r /\ o.decision = None /\ o.kind = "cancel"
        /\ o.pc = "wake" => StoreTerminal(r, Cancelled(q))
    <3> HIDE DEF refusal
    <3>1. o \in Operation
      BY Zenon, <2>0 DEF Operation
    <3>2. op' = [op EXCEPT ![q] = o] /\ (refusal = "none" => StoreTerminal(r, Cancelled(q)))
      BY Zenon, <1>3 DEF SubmitCancel, refusal
    <3> QED BY Zenon, <2>0, <3>1, <3>2
  <2> HIDE DEF o
  <2>2. op'[q] = o
    BY Zenon, <2>1, <1>t
  <2>3. o.pc = "wake" => rows'[r] = Cancelled(q)
    BY Zenon, <2>1 DEF StoreTerminal, IInv, RowsType
  <2>4. Promises(q)'
    BY <2>1, <2>2, <2>3, WrittenRows DEF Promises, Terminal
  <2> QED BY Zenon, <2>1, <2>4, <1>1
<1>4. ASSUME NEW q \in Requests, NEW w \in Workers, NEW r \in Resolvers, SubmitCancelFails(q, w, r)
      PROVE  Goal
  <2> DEFINE o == [pc |-> "done", kind |-> "cancel", worker |-> w, target |-> r,
                   decision |-> None, answer |-> "error"]
  <2>1. o \in Operation /\ op' = [op EXCEPT ![q] = o] /\ o.answer = "error" /\ o.pc = "done"
    BY Zenon, <1>4 DEF SubmitCancelFails, Operation
  <2> HIDE DEF o
  <2>2. op'[q] = o
    BY Zenon, <2>1, <1>t
  <2>3. Promises(q)'
    BY Zenon, <2>1, <2>2 DEF Promises
  <2> QED BY Zenon, <2>1, <2>3, <1>1
<1>5. ASSUME NEW q \in Requests, ApplyDecision(q) PROVE Goal
  <2>0. /\ op[q] \in Operation /\ op[q].target \in Resolvers /\ op[q].decision \in Decisions
        /\ op[q].kind = "decide" /\ op[q].answer = "none"
    BY Zenon, <1>5, <1>t DEF IInv, RequestStored, ApplyDecision
  <2>1. CASE op' = [op EXCEPT ![q].pc = "wake"]
             /\ StoreTerminal(op[q].target, Decided(op[q].decision, q))
    <3>1. PICK o \in Operation : /\ op' = [op EXCEPT ![q] = o] /\ o.answer = "none" /\ o.pc = "wake"
                                 /\ o.target = op[q].target /\ o.decision = op[q].decision
                                 /\ o.kind = "decide"
      <4> DEFINE o == [op[q] EXCEPT !.pc = "wake"]
      <4>1. o \in Operation
        BY Zenon, <2>0 DEF Operation
      <4>2. /\ o.answer = "none" /\ o.pc = "wake" /\ o.kind = "decide"
            /\ o.target = op[q].target /\ o.decision = op[q].decision
        BY Zenon, <2>0 DEF Operation
      <4>3. op' = [op EXCEPT ![q] = o]
        BY Zenon, <2>1, <1>t
      <4> QED BY Zenon, <4>1, <4>2, <4>3
    <3>2. op'[q] = o
      BY Zenon, <3>1, <1>t
    <3>3. rows'[op[q].target] = Decided(op[q].decision, q)
      BY Zenon, <2>0, <2>1 DEF StoreTerminal, IInv, RowsType
    <3>4. Promises(q)'
      BY <2>0, <3>1, <3>2, <3>3, WrittenRows DEF Promises, Terminal
    <3> QED BY Zenon, <3>1, <3>4, <1>1
  <2>2. CASE Ended(q, "conflict")
    <3>1. op'[q].pc = "done" /\ op'[q].answer = "conflict"
      BY Zenon, <2>0, <2>2, <1>t DEF Ended, Operation
    <3>2. PICK o \in Operation : op' = [op EXCEPT ![q] = o]
      <4>1. [op[q] EXCEPT !.pc = "done", !.answer = "conflict"] \in Operation
        BY Zenon, <2>0 DEF Operation
      <4> QED BY Zenon, <2>2, <4>1, <1>t DEF Ended
    <3>3. Promises(q)'
      BY Zenon, <3>1 DEF Promises
    <3> QED BY Zenon, <3>2, <3>3, <1>1
  <2> QED BY Zenon, <1>5, <2>1, <2>2 DEF ApplyDecision
<1>6. ASSUME NEW q \in Requests, ApplyFails(q) PROVE Goal
  <2>0. op[q] \in Operation /\ Ended(q, "error")
    BY Zenon, <1>6, <1>t DEF ApplyFails
  <2>1. op'[q].pc = "done" /\ op'[q].answer = "error"
    BY Zenon, <2>0, <1>t DEF Ended, Operation
  <2>2. PICK o \in Operation : op' = [op EXCEPT ![q] = o]
    <3>1. [op[q] EXCEPT !.pc = "done", !.answer = "error"] \in Operation
      BY Zenon, <2>0 DEF Operation
    <3> QED BY Zenon, <2>0, <3>1, <1>t DEF Ended
  <2>3. Promises(q)'
    BY Zenon, <2>1 DEF Promises
  <2> QED BY Zenon, <2>2, <2>3, <1>1
<1>7. ASSUME NEW q \in Requests, WakeResolver(q) PROVE Goal
  <2>0. op[q] \in Operation /\ op[q].pc = "wake" /\ Ended(q, "ok") /\ Promises(q)
    BY Zenon, <1>7, <1>t DEF WakeResolver, IInv, RequestStored, Promises
  <2> DEFINE o == [op[q] EXCEPT !.pc = "done", !.answer = "ok"]
  <2>1. o \in Operation
    BY Zenon, <2>0 DEF Operation
  <2>2. /\ o.pc = "done" /\ o.target = op[q].target /\ o.decision = op[q].decision
    BY Zenon, <2>0 DEF Operation
  <2>3. op' = [op EXCEPT ![q] = o]
    BY Zenon, <2>0, <1>t DEF Ended
  <2>4. op'[q] = o
    BY Zenon, <2>3, <1>t
  <2> HIDE DEF o
  <2>5. op[q].target \in Resolvers /\ rows'[op[q].target] = rows[op[q].target]
    BY Zenon, <2>0, SettledStays DEF Promises
  <2>6. Promises(q)'
    BY Zenon, <2>0, <2>2, <2>4, <2>5 DEF Promises
  <2> QED BY Zenon, <2>1, <2>3, <2>6, <1>1
<1>8. ASSUME NEW w \in Workers, Crash(w) PROVE Goal
  <2>1. ASSUME NEW q \in Requests
        PROVE  op'[q] = op[q] \/ op'[q] = [op[q] EXCEPT !.pc = "done", !.answer = "error"]
    BY <1>8, ZenonT(40) DEF Crash
  <2>2. ASSUME NEW q \in Requests, op'[q] = [op[q] EXCEPT !.pc = "done", !.answer = "error"]
        PROVE  op'[q] \in Operation /\ op'[q].pc = "done" /\ op'[q].answer = "error"
    BY <2>2, <1>t, ZenonT(40) DEF Operation
  <2>3. op' \in [Requests -> Operation]
    <3>1. op' = [q \in Requests |-> op'[q]]
      BY Zenon, <1>8 DEF Crash
    <3>2. \A q \in Requests : op'[q] \in Operation
      BY <2>1, <2>2, <1>t, ZenonT(40)
    <3> QED BY Zenon, <3>1, <3>2
  <2>4. \A q \in Requests : Promises(q)'
    BY <2>1, <2>2, StillRequestKeepsPromises, ZenonT(40) DEF Promises
  <2> QED BY Zenon, <2>3, <2>4
<1>9. \/ op' = op
      \/ \E q \in Requests :
           \/ \E w \in Workers, r \in Resolvers :
                \/ SubmitCancel(q, w, r) \/ SubmitCancelFails(q, w, r)
                \/ \E d \in Decisions : SubmitDecision(q, w, r, d)
           \/ ApplyDecision(q) \/ ApplyFails(q) \/ WakeResolver(q)
      \/ \E w \in Workers : Crash(w)
  BY ZenonT(40) DEF Next, ResolverStep, RequestStep, Start, PassDeadline, Create, CreateFails, Wake,
         ReadDecidedBy, TimeOut, ReadLateDecision, RunDrop, RunExpire, RunCancel, EndTask, CancelTask,
         Publish, Dispatch, LoseChannel, ReopenChannel, Sweep, CloseRegistry
<1> HIDE DEF Goal
<1> QED BY Zenon, <1>0, <1>2, <1>3, <1>4, <1>5, <1>6, <1>7, <1>8, <1>9


----------------------------------------------------------------------------
(* Only settled rows are published, and what was published stays true.     *)
LEMMA PublishedStays ==
  ASSUME IInv, RowsMove
  PROVE  /\ \A a \in Actors : \A r \in unpublished[a] : rows'[r].status \in Terminal
         /\ \A w \in Workers : \A i \in 1..Len(inbox[w]) :
               inbox[w][i].status = rows'[inbox[w][i].id].status
<1>1. \A a \in Actors : \A r \in unpublished[a] : r \in Resolvers /\ rows[r].status \in Terminal
  BY Zenon DEF IInv, ChannelType, PublishedSettled
<1>2. ASSUME NEW w \in Workers, NEW i \in 1..Len(inbox[w])
      PROVE  inbox[w][i].status = rows'[inbox[w][i].id].status
  <2>1. inbox[w][i] \in Payload /\ inbox[w][i].status = rows[inbox[w][i].id].status
    <3>1. inbox[w] \in Seq(Payload)
      BY Zenon DEF IInv, ChannelType
    <3>2. inbox[w][i] \in Payload
      BY <3>1
    <3>3. inbox[w][i].status = rows[inbox[w][i].id].status
      BY Zenon DEF IInv, PublishedSettled
    <3> QED BY Zenon, <3>2, <3>3
  <2>2. inbox[w][i].id \in Resolvers /\ rows[inbox[w][i].id].status \in Terminal
    BY Zenon, <2>1 DEF Payload
  <2> QED BY Zenon, <2>1, <2>2, SettledStays
<1> QED BY Zenon, <1>1, <1>2, SettledStays

(* What Append and Tail hold, element by element.                          *)
LEMMA AppendedElement ==
  ASSUME NEW S, NEW s \in Seq(S), NEW x \in S, NEW i \in 1..Len(Append(s, x))
  PROVE  \/ i \in 1..Len(s) /\ Append(s, x)[i] = s[i]
         \/ Append(s, x)[i] = x
  OBVIOUS

(* Tail shifts the elements by one.                                        *)
LEMMA TailElement ==
  ASSUME NEW S, NEW s \in Seq(S), s # << >>
  PROVE  /\ Tail(s) \in Seq(S)
         /\ \A i \in 1..Len(Tail(s)) : Tail(s)[i] = s[i + 1] /\ i + 1 \in 1..Len(s)
  OBVIOUS

(* Every step keeps the notifications true to settled rows.                *)
LEMMA ChannelMoveByNext ==
  ASSUME IInv, Next, RowsMove
  PROVE  ChannelType' /\ PublishedSettled'
<1> DEFINE Goal == ChannelType' /\ PublishedSettled'
<1>t. /\ unpublished \in [Actors -> SUBSET Resolvers]
      /\ inbox \in [Workers -> Seq(Payload)]
  BY Zenon DEF IInv, ChannelType
<1>0. CASE unpublished' = unpublished /\ inbox' = inbox
  BY Zenon, <1>0, <1>t, PublishedStays DEF ChannelType, PublishedSettled
<1>1. ASSUME NEW a \in Actors, NEW S \in SUBSET Resolvers, ToPublish(a, S), inbox' = inbox,
             \A r \in S : rows'[r].status \in Terminal
      PROVE  Goal
  <2>1. ChannelType'
    BY Zenon, <1>1, <1>t DEF ToPublish, ChannelType
  <2>2. ASSUME NEW b \in Actors, NEW r \in unpublished'[b] PROVE rows'[r].status \in Terminal
    BY Zenon, <1>1, <1>t, <2>2, PublishedStays DEF ToPublish
  <2> QED BY Zenon, <1>1, <2>1, <2>2, PublishedStays DEF PublishedSettled
<1>e. MarkExpired => /\ DuePending \in SUBSET Resolvers
                     /\ \A r \in DuePending : rows'[r].status \in Terminal
  BY DEF MarkExpired, DuePending, Expired, Terminal, IInv, SetsType
<1>2. ASSUME NEW r \in Resolvers, RunExpire(r) PROVE Goal
  BY Zenon, <1>2, <1>0, <1>1, <1>e DEF RunExpire, Actors
<1>3. ASSUME NEW r \in Resolvers, RunCancel(r) PROVE Goal
  <2>1. CASE StoreTerminal(r, Cancelled("system")) /\ ToPublish(r, {r})
    <3>1. rows'[r].status \in Terminal
      BY <2>1, WrittenRows DEF StoreTerminal, IInv, RowsType, Terminal
    <3> QED BY Zenon, <1>3, <1>1, <2>1, <3>1 DEF RunCancel, Actors
  <2> QED BY Zenon, <1>3, <1>0, <2>1 DEF RunCancel
<1>4. ASSUME NEW q \in Requests, ApplyDecision(q) PROVE Goal
  <2> DEFINE r == op[q].target
  <2>1. r \in Resolvers /\ op[q].decision \in Decisions
    BY Zenon, <1>4 DEF ApplyDecision, IInv, RequestStored
  <2>2. CASE StoreTerminal(r, Decided(op[q].decision, q)) /\ ToPublish(q, {r})
    <3>1. rows'[r].status \in Terminal
      BY <2>1, <2>2, WrittenRows DEF StoreTerminal, IInv, RowsType, Terminal
    <3> QED BY Zenon, <1>4, <1>1, <2>1, <2>2, <3>1 DEF ApplyDecision, Actors
  <2> QED BY Zenon, <1>4, <1>0, <2>2 DEF ApplyDecision
<1>5. ASSUME NEW q \in Requests, NEW w \in Workers, NEW r \in Resolvers, SubmitCancel(q, w, r)
      PROVE  Goal
  <2>1. CASE StoreTerminal(r, Cancelled(q)) /\ ToPublish(q, {r})
    <3>1. rows'[r].status \in Terminal
      BY <2>1, WrittenRows DEF StoreTerminal, IInv, RowsType, Terminal
    <3> QED BY Zenon, <1>5, <1>1, <2>1, <3>1 DEF SubmitCancel, Actors
  <2> QED BY Zenon, <1>5, <1>0, <2>1 DEF SubmitCancel
<1>6. ASSUME NEW w \in Workers, Sweep(w) PROVE Goal
  BY Zenon, <1>6, <1>1, <1>e DEF Sweep, Actors
<1>7. ASSUME NEW a \in Actors, Publish(a) PROVE Goal
  <2>1. PICK r \in unpublished[a] :
          /\ unpublished' = [unpublished EXCEPT ![a] = @ \ {r}]
          /\ \/ inbox' = [w \in Workers |->
                             IF w \in listening
                               THEN Append(inbox[w], [id |-> r, status |-> rows[r].status])
                               ELSE inbox[w]]
             \/ inbox' = inbox
    BY Zenon, <1>7 DEF Publish
  <2> DEFINE p == [id |-> r, status |-> rows[r].status]
  <2>2. r \in Resolvers /\ rows[r].status \in Terminal /\ rows'[r] = rows[r]
    BY Zenon, <1>t, SettledStays DEF IInv, PublishedSettled
  <2>3. p \in Payload /\ p.status = rows'[p.id].status
    BY Zenon, <2>2 DEF Payload
  <2>4. unpublished' \in [Actors -> SUBSET Resolvers]
        /\ \A b \in Actors : unpublished'[b] \subseteq unpublished[b]
    BY Zenon, <2>1, <1>t
  <2>5. \A w \in Workers : inbox'[w] \in {inbox[w], Append(inbox[w], p)}
    BY Zenon, <2>1
  <2> HIDE DEF p
  <2>6. inbox' \in [Workers -> Seq(Payload)]
    <3>1. ASSUME NEW w \in Workers PROVE inbox'[w] \in Seq(Payload)
      <4>1. inbox[w] \in Seq(Payload)
        BY Zenon, <1>t
      <4>2. Append(inbox[w], p) \in Seq(Payload)
        BY <4>1, <2>3
      <4> QED BY <4>1, <4>2, <2>5, Zenon
    <3>2. inbox' = [w \in Workers |-> inbox'[w]]
      BY Zenon, <1>t, <2>1
    <3> QED BY Zenon, <3>1, <3>2
  <2>7. ASSUME NEW w \in Workers, NEW i \in 1..Len(inbox'[w])
        PROVE  inbox'[w][i].status = rows'[inbox'[w][i].id].status
    <3>1. CASE inbox'[w] = inbox[w]
      BY <3>1, <2>7, PublishedStays
    <3>2. CASE inbox'[w] = Append(inbox[w], p)
      <4>1. inbox[w] \in Seq(Payload)
        BY Zenon, <1>t
      <4>2. \/ i \in 1..Len(inbox[w]) /\ inbox'[w][i] = inbox[w][i]
            \/ inbox'[w][i] = p
        BY <3>2, <4>1, <2>3, <2>7, AppendedElement
      <4> QED BY Zenon, <4>2, <2>3, PublishedStays
    <3> QED BY Zenon, <2>5, <3>1, <3>2
  <2> QED BY Zenon, <2>4, <2>6, <2>7, PublishedStays DEF ChannelType, PublishedSettled
<1>8. ASSUME NEW w \in Workers, Dispatch(w) \/ LoseChannel(w) \/ Crash(w) PROVE Goal
  <2>1. /\ \A v \in Workers : inbox'[v] \in {inbox[v], Tail(inbox[v]), << >>}
        /\ \A v \in Workers : inbox[v] = << >> => inbox'[v] = << >>
        /\ inbox' = [v \in Workers |-> inbox'[v]]
    BY <1>8, <1>t, ZenonT(40) DEF Dispatch, LoseChannel, Crash
  <2>2. ASSUME NEW v \in Workers
        PROVE  /\ inbox'[v] \in Seq(Payload)
               /\ \A i \in 1..Len(inbox'[v]) : \E j \in 1..Len(inbox[v]) : inbox'[v][i] = inbox[v][j]
    <3>1. inbox[v] \in Seq(Payload)
      BY Zenon, <1>t
    <3>2. CASE inbox'[v] = inbox[v]
      BY Zenon, <3>1, <3>2
    <3>3. CASE inbox'[v] = << >>
      BY <3>3
    <3>4. CASE inbox[v] # << >> /\ inbox'[v] = Tail(inbox[v])
      <4>1. /\ Tail(inbox[v]) \in Seq(Payload)
            /\ \A i \in 1..Len(Tail(inbox[v])) : /\ Tail(inbox[v])[i] = inbox[v][i + 1]
                                                 /\ i + 1 \in 1..Len(inbox[v])
        BY Zenon, <3>1, <3>4, TailElement
      <4> QED BY Zenon, <3>4, <4>1
    <3> QED BY Zenon, <2>1, <3>2, <3>3, <3>4
  <2>3. inbox' \in [Workers -> Seq(Payload)]
    BY Zenon, <2>1, <2>2
  <2>4. ASSUME NEW v \in Workers, NEW i \in 1..Len(inbox'[v])
        PROVE  inbox'[v][i].status = rows'[inbox'[v][i].id].status
    <3>1. PICK j \in 1..Len(inbox[v]) : inbox'[v][i] = inbox[v][j]
      BY Zenon, <2>2
    <3>2. inbox[v][j].status = rows'[inbox[v][j].id].status
      BY Zenon, PublishedStays
    <3> QED BY Zenon, <3>1, <3>2
  <2>5. /\ unpublished' \in [Actors -> SUBSET Resolvers]
        /\ \A b \in Actors : unpublished'[b] \subseteq unpublished[b]
    BY <1>8, <1>t, ZenonT(40) DEF Dispatch, LoseChannel, Crash
  <2> QED BY Zenon, <2>3, <2>4, <2>5, PublishedStays DEF ChannelType, PublishedSettled
<1>9. \/ unpublished' = unpublished /\ inbox' = inbox
      \/ \E r \in Resolvers : RunExpire(r) \/ RunCancel(r)
      \/ \E q \in Requests : \/ ApplyDecision(q)
                            \/ \E w \in Workers, r \in Resolvers : SubmitCancel(q, w, r)
      \/ \E a \in Actors : Publish(a)
      \/ \E w \in Workers : Sweep(w) \/ Dispatch(w) \/ LoseChannel(w) \/ Crash(w)
  <2> DEFINE Quiet == unpublished' = unpublished /\ inbox' = inbox
  <2>1. ASSUME NEW r \in Resolvers
        PROVE  /\ Start(r) \/ PassDeadline(r) \/ CancelTask(r) => Quiet
               /\ ResolverStep(r) => Quiet \/ RunExpire(r) \/ RunCancel(r)
    <3>1. Start(r) \/ PassDeadline(r) \/ CancelTask(r) => Quiet
      BY Zenon DEF Start, PassDeadline, CancelTask, channelVars
    <3>2. Create(r) \/ CreateFails(r) \/ Wake(r) \/ ReadDecidedBy(r) => Quiet
      BY Zenon DEF Create, CreateFails, Wake, ReadDecidedBy, channelVars
    <3>3. TimeOut(r) \/ ReadLateDecision(r) \/ RunDrop(r) \/ EndTask(r) => Quiet
      BY Zenon DEF TimeOut, ReadLateDecision, RunDrop, EndTask, channelVars
    <3> HIDE DEF Quiet
    <3> QED BY Zenon, <3>1, <3>2, <3>3 DEF ResolverStep
  <2>2. ASSUME NEW q \in Requests
        PROVE  /\ \A w \in Workers, r \in Resolvers : SubmitCancelFails(q, w, r) => Quiet
               /\ \A w \in Workers, r \in Resolvers, d \in Decisions :
                     SubmitDecision(q, w, r, d) => Quiet
               /\ RequestStep(q) => Quiet \/ ApplyDecision(q)
    <3>1. \A w \in Workers, r \in Resolvers : SubmitCancelFails(q, w, r) => Quiet
      BY Zenon DEF SubmitCancelFails, channelVars
    <3>2. \A w \in Workers, r \in Resolvers, d \in Decisions : SubmitDecision(q, w, r, d) => Quiet
      BY Zenon DEF SubmitDecision, channelVars
    <3>3. ApplyFails(q) \/ WakeResolver(q) => Quiet
      BY Zenon DEF ApplyFails, WakeResolver, channelVars
    <3> HIDE DEF Quiet
    <3> QED BY Zenon, <3>1, <3>2, <3>3 DEF RequestStep
  <2>3. ASSUME NEW w \in Workers PROVE ReopenChannel(w) \/ CloseRegistry(w) => Quiet
    BY Zenon DEF ReopenChannel, CloseRegistry, channelVars
  <2> HIDE DEF Quiet
  <2>4. \/ Quiet
        \/ \E r \in Resolvers : RunExpire(r) \/ RunCancel(r)
        \/ \E q \in Requests : \/ ApplyDecision(q)
                              \/ \E w \in Workers, r \in Resolvers : SubmitCancel(q, w, r)
        \/ \E a \in Actors : Publish(a)
        \/ \E w \in Workers : Sweep(w) \/ Dispatch(w) \/ LoseChannel(w) \/ Crash(w)
    <3>1. CASE \E r \in Resolvers : Start(r) \/ PassDeadline(r) \/ ResolverStep(r) \/ CancelTask(r)
      BY <3>1, <2>1, Zenon
    <3>2. CASE \E q \in Requests :
                 \/ \E w \in Workers, r \in Resolvers :
                      \/ SubmitCancel(q, w, r) \/ SubmitCancelFails(q, w, r)
                      \/ \E d \in Decisions : SubmitDecision(q, w, r, d)
                 \/ RequestStep(q)
      BY <3>2, <2>2, Zenon
    <3>3. CASE \E w \in Workers : \/ Dispatch(w) \/ LoseChannel(w) \/ ReopenChannel(w)
                                  \/ Sweep(w) \/ CloseRegistry(w) \/ Crash(w)
      BY <3>3, <2>3, Zenon
    <3> QED BY <3>1, <3>2, <3>3, Zenon DEF Next
  <2> QED BY <2>4, Zenon DEF Quiet
<1> HIDE DEF Goal
<1> QED BY Zenon, <1>0, <1>2, <1>3, <1>4, <1>5, <1>6, <1>7, <1>8, <1>9 DEF Goal

----------------------------------------------------------------------------
(* Every step keeps the types of the sets.                                 *)
LEMMA SetsByNext ==
  ASSUME IInv, Next, FutureMove
  PROVE  SetsType'
<1>1. due \subseteq Resolvers /\ inTime \subseteq Resolvers /\ listening \subseteq Workers
  BY Zenon DEF IInv, SetsType
<1>2. \A q \in Requests : op[q].pc = "apply" => op[q].target \in Resolvers
  BY Zenon DEF IInv, RequestStored
<1> DEFINE Untouched == UNCHANGED <<due, listening>> /\ inTime' \subseteq inTime
<1>3. ASSUME NEW r \in Resolvers, Start(r) \/ ResolverStep(r) \/ CancelTask(r) PROVE Untouched
  <2>1. Start(r) \/ Create(r) \/ CreateFails(r) \/ CancelTask(r) => Untouched
    BY Zenon DEF Start, Create, CreateFails, CancelTask, channelVars
  <2>2. Wake(r) \/ ReadDecidedBy(r) \/ TimeOut(r) \/ ReadLateDecision(r) => Untouched
    BY Zenon DEF Wake, ReadDecidedBy, TimeOut, ReadLateDecision, channelVars
  <2>3. RunDrop(r) \/ RunExpire(r) \/ RunCancel(r) \/ EndTask(r) => Untouched
    BY Zenon DEF RunDrop, RunExpire, RunCancel, EndTask, channelVars
  <2> HIDE DEF Untouched
  <2> QED BY Zenon, <1>3, <2>1, <2>2, <2>3 DEF ResolverStep
<1>4. ASSUME NEW r \in Resolvers, PassDeadline(r) PROVE SetsType'
  BY Zenon, <1>1, <1>4 DEF PassDeadline, channelVars, FutureMove, SetsType
<1>5. ASSUME NEW q \in Requests, NEW w \in Workers, NEW r \in Resolvers,
             \/ SubmitCancel(q, w, r) \/ SubmitCancelFails(q, w, r)
             \/ \E d \in Decisions : SubmitDecision(q, w, r, d)
      PROVE  Untouched
  <2>1. SubmitCancel(q, w, r) => Untouched
    BY Zenon DEF SubmitCancel, channelVars
  <2>2. SubmitCancelFails(q, w, r) => Untouched
    BY Zenon DEF SubmitCancelFails, channelVars
  <2>3. \A d \in Decisions : SubmitDecision(q, w, r, d) => Untouched
    BY Zenon DEF SubmitDecision, channelVars
  <2> HIDE DEF Untouched
  <2> QED BY Zenon, <1>5, <2>1, <2>2, <2>3
<1>6. ASSUME NEW q \in Requests, WakeResolver(q) PROVE Untouched
  BY Zenon, <1>6 DEF WakeResolver, channelVars
<1>7. ASSUME NEW q \in Requests, ApplyDecision(q) \/ ApplyFails(q) PROVE SetsType'
  <2>1. op[q].target \in Resolvers
    BY Zenon, <1>7, <1>2 DEF ApplyDecision, ApplyFails
  <2>2. inTime' \subseteq inTime \cup {op[q].target}
    BY Zenon, <1>7 DEF ApplyDecision, ApplyFails, StoredInTime
  <2>3. due' = due /\ listening' = listening
    BY Zenon, <1>7 DEF ApplyDecision, ApplyFails, channelVars
  <2> QED BY Zenon, <1>1, <2>1, <2>2, <2>3 DEF FutureMove, SetsType
<1>8. ASSUME NEW a \in Actors, Publish(a) PROVE Untouched
  BY Zenon, <1>8 DEF Publish
<1>9. ASSUME NEW w \in Workers, Sweep(w) \/ CloseRegistry(w) \/ Dispatch(w) \/ Crash(w)
      PROVE  Untouched
  <2>1. Sweep(w) => Untouched
    BY Zenon DEF Sweep, channelVars
  <2>2. CloseRegistry(w) => Untouched
    BY Zenon DEF CloseRegistry, channelVars
  <2>3. Dispatch(w) => Untouched
    BY Zenon DEF Dispatch, channelVars
  <2>4. Crash(w) => Untouched
    BY Zenon DEF Crash, channelVars
  <2> HIDE DEF Untouched
  <2> QED BY Zenon, <1>9, <2>1, <2>2, <2>3, <2>4
<1>10. ASSUME NEW w \in Workers, LoseChannel(w) \/ ReopenChannel(w) PROVE SetsType'
  BY Zenon, <1>1, <1>10 DEF LoseChannel, ReopenChannel, FutureMove, SetsType
<1>11. Untouched => SetsType'
  BY Zenon, <1>1 DEF FutureMove, SetsType
<1> HIDE DEF Untouched
<1> QED BY Zenon, <1>3, <1>4, <1>5, <1>6, <1>7, <1>8, <1>9, <1>10, <1>11 DEF Next, RequestStep

----------------------------------------------------------------------------
(* The moves preserve the invariant.                                       *)
LEMMA MovesKeepStored ==
  ASSUME IInv, RowsMove, FutureMove, ResolverMove
  PROVE  NotCreated' /\ FutureStored' /\ LocalStored' /\ ResolutionIsStored' /\ OnePendingPerConflict'
<1>t. /\ rows \in [Resolvers -> Row]
      /\ \A r \in Resolvers : rows[r].decision # None <=> rows[r].status = "decided"
      /\ \A d \in Decisions : d # None
  BY Zenon, EscalationAssumption DEF IInv, RowsType
<1>s. ASSUME NEW r \in Resolvers, rows[r].decision # None PROVE rows'[r] = rows[r]
  BY Zenon, <1>s, <1>t, SettledStays DEF Terminal
<1>1. NotCreated'
  <2> SUFFICES ASSUME NEW r \in Resolvers, pc'[r] \in {"idle", "create"}
               PROVE  rows'[r].status = "none"
    BY Zenon DEF NotCreated
  <2>1. rows[r].status = "none"
    BY Zenon DEF ResolverMove, IInv, NotCreated
  <2> QED BY Zenon, <2>1 DEF RowsMove
<1>2. FutureStored'
  <2> SUFFICES ASSUME NEW r \in Resolvers, future'[r] \in Decisions
               PROVE  rows'[r].decision = future'[r]
    BY Zenon DEF FutureStored
  <2>1. rows[r].decision = future'[r]
    BY Zenon DEF FutureMove, IInv, FutureStored
  <2> QED BY Zenon, <2>1, <1>t, <1>s
<1>3. LocalStored'
  <2>1. ASSUME NEW r \in Resolvers, decision'[r] # None PROVE rows'[r].decision = decision'[r]
    <3>1. rows[r].decision = decision'[r]
      BY Zenon, <2>1 DEF ResolverMove, IInv, LocalStored
    <3> QED BY Zenon, <2>1, <3>1, <1>s
  <2> QED BY Zenon, <2>1 DEF LocalStored, ResolverMove
<1>4. ResolutionIsStored'
  <2> SUFFICES ASSUME NEW r \in Resolvers, result'[r] \in Decisions
               PROVE  rows'[r].decision = result'[r]
    BY Zenon DEF ResolutionIsStored
  <2>1. rows[r].decision = result'[r]
    BY <1>t DEF ResolverMove, IInv, ResolutionIsStored, LocalStored
  <2> QED BY Zenon, <2>1, <1>t, <1>s
<1>5. OnePendingPerConflict'
  <2> SUFFICES ASSUME NEW r \in Resolvers, NEW s \in Resolvers, r # s,
                      rows'[r].status = "pending", rows'[s].status = "pending",
                      ConflictOf[r] = ConflictOf[s]
               PROVE  FALSE
    BY Zenon DEF OnePendingPerConflict, PendingRow
  <2>1. ASSUME NEW x \in Resolvers, NEW y \in Resolvers, x # y, ConflictOf[x] = ConflictOf[y],
               rows'[x].status = "pending", rows[x].status # "pending", rows'[y].status = "pending"
        PROVE  FALSE
    <3>1. ~Conflicting(x) /\ rows'[y] = rows[y]
      BY Zenon, <2>1 DEF RowsMove, Terminal
    <3> QED BY Zenon, <2>1, <3>1 DEF Conflicting, PendingRow
  <2>2. rows[r].status = "pending" /\ rows[s].status = "pending"
    BY Zenon, <2>1
  <2> QED BY Zenon, <2>2 DEF IInv, OnePendingPerConflict, PendingRow
<1> QED BY Zenon, <1>1, <1>2, <1>3, <1>4, <1>5

(* The invariant holds initially ...                                       *)
LEMMA IInvInit == Init => IInv
<1> SUFFICES ASSUME Init PROVE IInv
  BY Zenon
<1> USE EscalationAssumption
<1>1. NoRow \in Row /\ NoRow.decision = None /\ NoRow.status = "none"
  BY Zenon DEF NoRow, Row, Status
<1>2. NoOp \in Operation /\ NoOp.pc = "idle" /\ NoOp.answer = "none"
  BY Zenon DEF NoOp, Operation
<1>3. RowsType /\ SetsType /\ FutureType /\ ResolverType /\ op \in [Requests -> Operation]
  BY Zenon, <1>1, <1>2 DEF Init, RowsType, SetsType, FutureType, ResolverType, ResolverPc, Outcome
<1>4. ChannelType /\ PublishedSettled
  BY DEF Init, ChannelType, PublishedSettled
<1>5. NotCreated /\ OnePendingPerConflict
  BY Zenon, <1>1 DEF Init, NotCreated, OnePendingPerConflict, PendingRow
<1>6. FutureStored /\ LocalStored /\ ResolutionIsStored
  BY Zenon DEF Init, FutureStored, LocalStored, ResolutionIsStored, Outcome
<1>7. RequestStored
  BY Zenon, <1>2 DEF Init, RequestStored
<1> QED BY Zenon, <1>3, <1>4, <1>5, <1>6, <1>7 DEF IInv

(* ... every step keeps it ...                                             *)
LEMMA IInvNext == IInv /\ [Next]_vars => IInv'
<1>1. CASE IInv /\ Next
  <2>1. RowsMove
    BY Zenon, <1>1, RowsMoveByNext
  <2>2. FutureMove
    BY Zenon, <1>1, FutureMoveByNext
  <2>3. ResolverMove
    BY Zenon, <1>1, ResolverMoveByNext
  <2>4. SetsType'
    BY Zenon, <1>1, <2>2, SetsByNext
  <2>5. (op \in [Requests -> Operation])' /\ RequestStored'
    BY Zenon, <1>1, <2>1, RequestMoveByNext
  <2>6. ChannelType' /\ PublishedSettled'
    BY Zenon, <1>1, <2>1, ChannelMoveByNext
  <2>7. NotCreated' /\ FutureStored' /\ LocalStored' /\ ResolutionIsStored' /\ OnePendingPerConflict'
    BY Zenon, <1>1, <2>1, <2>2, <2>3, MovesKeepStored
  <2> QED BY Zenon, <2>1, <2>2, <2>3, <2>4, <2>5, <2>6, <2>7 DEF IInv, RowsMove, FutureMove,
             ResolverMove
<1>2. CASE IInv /\ UNCHANGED vars
  <2>1. UNCHANGED <<rows, due, registered, future, pc, decision, task, result, op, unpublished, inbox,
                    listening, inTime>>
    BY Zenon, <1>2 DEF vars, registryVars, resolverVars, channelVars
  <2>2. RowsType' /\ SetsType' /\ FutureType' /\ ResolverType'
    BY Zenon, <1>2, <2>1 DEF IInv, RowsType, SetsType, FutureType, ResolverType
  <2>3. (op \in [Requests -> Operation])' /\ ChannelType'
    BY Zenon, <1>2, <2>1 DEF IInv, ChannelType
  <2>4. NotCreated' /\ FutureStored' /\ LocalStored'
    BY Zenon, <1>2, <2>1 DEF IInv, NotCreated, FutureStored, LocalStored
  <2>5. RequestStored'
    BY <1>2, <2>1 DEF IInv, RequestStored
  <2>6. PublishedSettled'
    BY Zenon, <1>2, <2>1 DEF IInv, PublishedSettled
  <2>7. ResolutionIsStored' /\ OnePendingPerConflict'
    BY Zenon, <1>2, <2>1 DEF IInv, ResolutionIsStored, OnePendingPerConflict, PendingRow
  <2> QED BY Zenon, <2>2, <2>3, <2>4, <2>5, <2>6, <2>7 DEF IInv
<1> QED BY Zenon, <1>1, <1>2

(* ... so it holds always.                                                 *)
LEMMA Inductive == Spec => []IInv
  BY IInvInit, IInvNext, PTL DEF Spec

----------------------------------------------------------------------------
(* Types, with the row shapes that the CHECK constraints of the table      *)
(* demand (persistence/postgres/escalation_repo.py).                       *)
THEOREM TypeCorrect == Spec => []TypeOK
<1>1. IInv => TypeOK
  BY Zenon DEF IInv, TypeOK, RowsType, SetsType, FutureType, ResolverType, ChannelType, Operation,
     Payload
<1> QED BY <1>1, Inductive, PTL

(* What resolve() returns as a decision is what the table holds, along     *)
(* every path a decision can take to the resolver.                         *)
THEOREM ResolutionAlwaysStored == Spec => []ResolutionIsStored
<1>1. IInv => ResolutionIsStored
  BY Zenon DEF IInv
<1> QED BY <1>1, Inductive, PTL

(* An operator who is told "ok" is the one recorded in the row, whoever    *)
(* raced them.                                                             *)
THEOREM AnswerAlwaysStored == Spec => []AnswerIsStored
<1>1. IInv => AnswerIsStored
  BY Zenon DEF IInv, RequestStored, AnswerIsStored
<1> QED BY <1>1, Inductive, PTL

(* At most one pending escalation per conflict (create()).                 *)
THEOREM OnePendingAlways == Spec => []OnePendingPerConflict
<1>1. IInv => OnePendingPerConflict
  BY Zenon DEF IInv
<1> QED BY <1>1, Inductive, PTL

(* A settled row never changes again, by anyone's hand.                    *)
THEOREM SettledForever == Spec => TerminalForever
<1>1. IInv /\ [Next]_vars =>
        [\A r \in Resolvers : rows[r].status \in Terminal => rows'[r] = rows[r]]_vars
  BY Zenon, RowsMoveByNext, SettledStays
<1> QED BY <1>1, Inductive, PTL DEF Spec, TerminalForever

----------------------------------------------------------------------------
(* Where the future of a resolver may be: it is registered until the       *)
(* resolver has dropped it, and an operator's decision takes it out of the *)
(* registry.  A decision that came in time is in the future, in the local  *)
(* variable or still to be read, unless it is returned already.            *)
Place(r) ==
  /\ r \in registered =>
       /\ future[r] \in {"pending", "cancelled"}
       /\ \/ pc[r] \in {"create", "wait", "late", "late_drop", "expire_drop", "cancel_drop"}
          \/ pc[r] = "done" /\ result[r] = "aborted"
  /\ r \in inTime =>
       /\ rows[r].status = "decided"
       /\ pc[r] \in {"wait", "late", "late_drop", "decided_by", "done"}
       /\ pc[r] = "wait" => future[r] # "cancelled"
       /\ pc[r] = "done" => result[r] = rows[r].decision

Places == \A r \in Resolvers : Place(r)

(* nothing but r and its future moves                                      *)
Alone(r) ==
  \A s \in Resolvers \ {r} :
     /\ pc'[s] = pc[s] /\ result'[s] = result[s] /\ future'[s] = future[s]
     /\ s \in registered' => s \in registered
     /\ s \in inTime' => s \in inTime

(* A resolver that does not move keeps its place, because its row stays.   *)
LEMMA AloneKeepsPlaces ==
  ASSUME RowsMove, Places, NEW r \in Resolvers, Alone(r), Place(r)'
  PROVE  Places'
<1> SUFFICES ASSUME NEW s \in Resolvers \ {r} PROVE Place(s)'
  BY Zenon DEF Places
<1>1. Place(s)
  BY Zenon DEF Places
<1>2. s \in inTime => rows'[s] = rows[s]
  BY Zenon, <1>1, SettledStays DEF Place, Terminal
<1> QED BY <1>1, <1>2 DEF Place, Alone

(* When neither resolvers nor registries move, all keep their places.      *)
LEMMA StillKeepsPlaces ==
  ASSUME RowsMove, Places, UNCHANGED <<pc, result, future>>,
         registered' \subseteq registered, inTime' \subseteq inTime
  PROVE  Places'
<1> SUFFICES ASSUME NEW r \in Resolvers PROVE Place(r)'
  BY Zenon DEF Places
<1>1. Place(r)
  BY Zenon DEF Places
<1>2. r \in inTime => rows'[r] = rows[r]
  BY Zenon, <1>1, SettledStays DEF Place, Terminal
<1> QED BY Zenon, <1>1, <1>2 DEF Place

(* Settling a future keeps all places, unless it cancels a future whose    *)
(* row is decided.                                                         *)
LEMMA SettlingKeepsPlaces ==
  ASSUME IInv, RowsMove, Places, NEW r \in Resolvers, NEW value, Settle(r, value),
         UNCHANGED <<pc, result, inTime>>, value = "cancelled" => rows[r].status # "decided"
  PROVE  Places'
<1>1. Alone(r) /\ r \notin registered' /\ future'[r] \in {future[r], value}
  BY Zenon DEF IInv, FutureType, Settle, Alone
<1>2. Place(r) /\ (r \in inTime => rows'[r] = rows[r])
  BY Zenon, SettledStays DEF Places, Place, Terminal
<1>3. Place(r)'
  BY Zenon, <1>1, <1>2 DEF Place
<1> QED BY Zenon, <1>1, <1>3, AloneKeepsPlaces

(* A resolver's own steps keep it in its place ...                         *)
LEMMA ResolverKeepsPlaces ==
  ASSUME IInv, RowsMove, Places, NEW r \in Resolvers,
         Start(r) \/ PassDeadline(r) \/ ResolverStep(r) \/ CancelTask(r)
  PROVE  Places'
<1>t. /\ pc \in [Resolvers -> ResolverPc] /\ result \in [Resolvers -> Decisions \cup Outcome]
      /\ future \in [Resolvers -> Decisions \cup {"none", "pending", "cancelled"}]
      /\ registered \subseteq Resolvers /\ inTime \subseteq Resolvers
  BY Zenon DEF IInv, ResolverType, FutureType, SetsType
<1>p. Place(r) /\ (r \in inTime => rows'[r] = rows[r])
  BY Zenon, SettledStays DEF Places, Place, Terminal
<1>s. Alone(r) /\ Place(r)' => Places'
  BY Zenon, AloneKeepsPlaces
<1>d. "pending" \notin Decisions /\ "cancelled" \notin Decisions
  BY Zenon, EscalationAssumption DEF Outcome
<1>l. pc[r] \in {"late_drop", "decided_by"} => decision[r] = rows[r].decision
  BY Zenon DEF IInv, LocalStored
<1>1. CASE Start(r)
  <2>1. Alone(r)
    BY Zenon, <1>1, <1>t DEF Start, Alone
  <2>2. Place(r)'
    BY Zenon, <1>1, <1>t, <1>p DEF Start, Place
  <2> QED BY Zenon, <1>s, <2>1, <2>2
<1>2. CASE PassDeadline(r) \/ RunExpire(r) \/ RunCancel(r)
  <2>1. UNCHANGED <<pc, result, registered, future, inTime>>
    BY Zenon, <1>2 DEF PassDeadline, RunExpire, RunCancel, registryVars, resolverVars
  <2> QED BY Zenon, <2>1, StillKeepsPlaces
<1>3. CASE Create(r) \/ CreateFails(r)
  <2>1. Alone(r)
    BY <1>3, <1>t DEF Create, CreateFails, Settle, Finish, registryVars, Alone
  <2>2. Place(r)'
    BY Zenon, <1>3, <1>t, <1>p DEF Create, CreateFails, Settle, Finish, registryVars, Place
  <2> QED BY Zenon, <1>s, <2>1, <2>2
<1>4. CASE Wake(r)
  <2>1. Alone(r)
    BY Zenon, <1>4, <1>t DEF Wake, registryVars, Alone
  <2>2. Place(r)'
    BY Zenon, <1>4, <1>t, <1>p, <1>d DEF Wake, registryVars, Place
  <2> QED BY Zenon, <1>s, <2>1, <2>2
<1>5. CASE ReadDecidedBy(r)
  <2>1. Alone(r)
    BY Zenon, <1>5, <1>t DEF ReadDecidedBy, Finish, registryVars, Alone
  <2>2. Place(r)'
    BY Zenon, <1>5, <1>t, <1>p, <1>l DEF ReadDecidedBy, Finish, registryVars, Place
  <2> QED BY Zenon, <1>s, <2>1, <2>2
<1>6. CASE TimeOut(r)
  <2>1. Alone(r)
    BY Zenon, <1>6, <1>t DEF TimeOut, Alone
  <2>2. Place(r)'
    BY Zenon, <1>6, <1>t, <1>p DEF TimeOut, Place
  <2> QED BY Zenon, <1>s, <2>1, <2>2
<1>7. CASE ReadLateDecision(r)
  <2>1. Alone(r)
    BY Zenon, <1>7, <1>t DEF ReadLateDecision, registryVars, Alone
  <2>2. Place(r)'
    BY Zenon, <1>7, <1>t, <1>p DEF ReadLateDecision, registryVars, Place
  <2> QED BY Zenon, <1>s, <2>1, <2>2
<1>8. CASE RunDrop(r)
  <2>1. Alone(r)
    BY Zenon, <1>8, <1>t DEF RunDrop, Settle, Finish, Alone
  <2>2. Place(r)'
    BY Zenon, <1>8, <1>t, <1>p, <1>l DEF RunDrop, Settle, Finish, Place
  <2> QED BY Zenon, <1>s, <2>1, <2>2
<1>9. CASE EndTask(r)
  <2>1. Alone(r)
    BY Zenon, <1>9, <1>t DEF EndTask, Finish, registryVars, Alone
  <2>2. Place(r)'
    BY Zenon, <1>9, <1>t, <1>p DEF EndTask, Finish, registryVars, Place
  <2> QED BY Zenon, <1>s, <2>1, <2>2
<1>10. CASE CancelTask(r)
  <2>1. Alone(r)
    BY Zenon, <1>10, <1>t DEF CancelTask, Finish, Alone
  <2>2. Place(r)'
    BY <1>10, <1>t, <1>p DEF CancelTask, Finish, Place
  <2> QED BY Zenon, <1>s, <2>1, <2>2
<1> QED BY Zenon, <1>1, <1>2, <1>3, <1>4, <1>5, <1>6, <1>7, <1>8, <1>9, <1>10 DEF ResolverStep

(* ... and so do operators' requests, which cancel futures of cancelled    *)
(* rows only ...                                                           *)
LEMMA RequestKeepsPlaces ==
  ASSUME IInv, RowsMove, Places, NEW q \in Requests,
         \/ \E w \in Workers, r \in Resolvers :
              \/ SubmitCancel(q, w, r) \/ SubmitCancelFails(q, w, r)
              \/ \E d \in Decisions : SubmitDecision(q, w, r, d)
         \/ RequestStep(q)
  PROVE  Places'
<1>t. /\ rows \in [Resolvers -> Row] /\ inTime \subseteq Resolvers
      /\ \A r \in Resolvers : rows[r].decision # None <=> rows[r].status = "decided"
      /\ op[q].kind \in {"decide", "cancel"}
  BY Zenon DEF IInv, SetsType, RowsType, Operation
<1> DEFINE Still == UNCHANGED <<pc, result, registered, future, inTime>>
<1>0. Still => Places'
  BY Zenon, StillKeepsPlaces
<1>1. CASE \E w \in Workers, r \in Resolvers :
             \/ SubmitCancel(q, w, r) \/ SubmitCancelFails(q, w, r)
             \/ \E d \in Decisions : SubmitDecision(q, w, r, d)
  <2>1. ASSUME NEW w \in Workers, NEW r \in Resolvers PROVE SubmitCancel(q, w, r) => Still
    BY Zenon DEF SubmitCancel, registryVars, resolverVars
  <2>2. ASSUME NEW w \in Workers, NEW r \in Resolvers PROVE SubmitCancelFails(q, w, r) => Still
    BY Zenon DEF SubmitCancelFails, registryVars, resolverVars
  <2>3. ASSUME NEW w \in Workers, NEW r \in Resolvers, NEW d \in Decisions
        PROVE  SubmitDecision(q, w, r, d) => Still
    BY Zenon DEF SubmitDecision, registryVars, resolverVars
  <2> HIDE DEF Still
  <2> QED BY Zenon, <1>0, <1>1, <2>1, <2>2, <2>3
<1>2. CASE ApplyDecision(q) \/ ApplyFails(q)
  <2>1. op[q].target \in Resolvers /\ op[q].decision \in Decisions
    BY Zenon, <1>2 DEF IInv, RequestStored, ApplyDecision, ApplyFails
  <2>r. PICK r \in Resolvers : r = op[q].target
    BY Zenon, <2>1
  <2>2. /\ UNCHANGED <<pc, result, registered, future>>
        /\ \/ inTime' = inTime
           \/ StoredInTime(r) /\ StoreTerminal(r, Decided(op[q].decision, q))
    BY Zenon, <1>2, <2>r DEF ApplyDecision, ApplyFails, registryVars, resolverVars
  <2>3. CASE inTime' = inTime
    BY Zenon, <1>0, <2>2, <2>3
  <2>4. CASE StoredInTime(r) /\ StoreTerminal(r, Decided(op[q].decision, q))
    <3>1. rows'[r].status = "decided"
      BY <1>t, <2>1, <2>4, WrittenRows DEF StoreTerminal
    <3>2. Place(r) /\ (r \in inTime => rows'[r] = rows[r])
      BY Zenon, <2>1, SettledStays DEF Places, Place, Terminal
    <3>3. Alone(r)
      BY Zenon, <2>2, <2>4 DEF Alone, StoredInTime
    <3>4. Place(r)'
      BY Zenon, <2>2, <2>4, <3>1, <3>2 DEF Place, StoredInTime
    <3> QED BY Zenon, <2>1, <3>3, <3>4, AloneKeepsPlaces
  <2> QED BY Zenon, <2>2, <2>3, <2>4
<1>3. CASE WakeResolver(q)
  <2>0. op[q].target \in Resolvers
    BY Zenon, <1>3 DEF IInv, RequestStored, WakeResolver
  <2>r. PICK r \in Resolvers : r = op[q].target
    BY Zenon, <2>0
  <2>1. /\ rows[r].decision = op[q].decision
        /\ op[q].kind = "decide" => op[q].decision \in Decisions
        /\ op[q].kind = "cancel" => op[q].decision = None
    BY Zenon, <1>3, <2>r DEF IInv, RequestStored, WakeResolver
  <2>2. /\ UNCHANGED <<pc, result, inTime>>
        /\ \/ UNCHANGED registryVars
           \/ op[q].kind = "decide" /\ Settle(r, op[q].decision)
           \/ op[q].kind = "cancel" /\ Settle(r, "cancelled")
    BY Zenon, <1>3, <1>t, <2>r DEF WakeResolver, RegistryResolve, RegistryCancel, resolverVars
  <2>3. op[q].decision \in Decisions => op[q].decision # "cancelled"
    BY Zenon, EscalationAssumption DEF Outcome
  <2>4. op[q].kind = "cancel" => rows[r].status # "decided"
    BY Zenon, <1>t, <2>1
  <2>5. CASE UNCHANGED registryVars
    BY Zenon, <1>0, <2>2, <2>5 DEF registryVars
  <2> QED BY Zenon, <2>1, <2>2, <2>3, <2>4, <2>5, SettlingKeepsPlaces
<1> QED BY Zenon, <1>1, <1>2, <1>3 DEF RequestStep

(* ... notifications, which tell what the rows say, and what workers do.   *)
LEMMA WorkerKeepsPlaces ==
  ASSUME IInv, RowsMove, Places, NEW w \in Workers,
         \/ Dispatch(w) \/ LoseChannel(w) \/ ReopenChannel(w) \/ Sweep(w)
         \/ CloseRegistry(w) \/ Crash(w)
  PROVE  Places'
<1>t. /\ pc \in [Resolvers -> ResolverPc] /\ result \in [Resolvers -> Decisions \cup Outcome]
      /\ future \in [Resolvers -> Decisions \cup {"none", "pending", "cancelled"}]
      /\ registered \subseteq Resolvers /\ inTime \subseteq Resolvers
  BY Zenon DEF IInv, ResolverType, FutureType, SetsType
<1>1. CASE LoseChannel(w) \/ ReopenChannel(w) \/ Sweep(w)
  <2>1. UNCHANGED <<pc, result, registered, future, inTime>>
    BY Zenon, <1>1 DEF LoseChannel, ReopenChannel, Sweep, registryVars, resolverVars
  <2> QED BY Zenon, <2>1, StillKeepsPlaces
<1>2. CASE Dispatch(w)
  <2> DEFINE p == Head(inbox[w])
  <2>1. /\ inbox[w] \in Seq(Payload) /\ inbox[w] # << >>
        /\ \A i \in 1..Len(inbox[w]) : inbox[w][i].status = rows[inbox[w][i].id].status
    BY Zenon, <1>2 DEF Dispatch, IInv, ChannelType, PublishedSettled
  <2>2. p \in Payload /\ p.status = rows[p.id].status
    BY <2>1
  <2>3. p.id \in Resolvers /\ (p.status = "decided" => rows[p.id].decision \in Decisions)
    BY Zenon, <2>2 DEF IInv, RowsType, Row, Payload
  <2>4. \A d \in Decisions : d # "cancelled"
    BY Zenon, EscalationAssumption DEF Outcome
  <2>5. /\ UNCHANGED <<pc, result, inTime>>
        /\ \/ UNCHANGED registryVars
           \/ p.status = "decided" /\ Settle(p.id, rows[p.id].decision)
           \/ p.status # "decided" /\ Settle(p.id, "cancelled")
    BY Zenon, <1>2 DEF Dispatch, RegistryResolve, RegistryCancel, resolverVars
  <2> HIDE DEF p
  <2>6. CASE UNCHANGED registryVars
    BY Zenon, <2>5, <2>6, StillKeepsPlaces DEF registryVars
  <2> QED BY Zenon, <2>2, <2>3, <2>4, <2>5, <2>6, SettlingKeepsPlaces
<1>3. CASE CloseRegistry(w)
  <2> SUFFICES ASSUME NEW r \in Resolvers PROVE Place(r)'
    BY Zenon DEF Places
  <2>1. Place(r) /\ rows' = rows /\ pc' = pc /\ result' = result
    BY Zenon, <1>3 DEF Places, CloseRegistry, resolverVars
  <2>2. CASE r \in registered /\ Home[r] = w
    <3>1. r \notin registered' /\ r \notin inTime'
      BY Zenon, <1>3, <2>2 DEF CloseRegistry
    <3> QED BY Zenon, <3>1 DEF Place
  <2>3. CASE ~(r \in registered /\ Home[r] = w)
    <3>1. /\ future'[r] = future[r]
          /\ (r \in registered' => r \in registered) /\ (r \in inTime' => r \in inTime)
      BY Zenon, <1>3, <2>3 DEF CloseRegistry
    <3> QED BY Zenon, <2>1, <3>1 DEF Place
  <2> QED BY Zenon, <2>2, <2>3
<1>4. CASE Crash(w)
  <2> SUFFICES ASSUME NEW r \in Resolvers PROVE Place(r)'
    BY Zenon DEF Places
  <2>1. Place(r) /\ rows' = rows /\ future' = future
    BY Zenon, <1>4 DEF Places, Crash
  <2>2. CASE Home[r] = w /\ pc[r] \notin {"idle", "done"}
    <3>1. r \notin registered' /\ r \notin inTime'
      BY Zenon, <1>4, <2>2 DEF Crash
    <3> QED BY Zenon, <3>1 DEF Place
  <2>3. CASE ~(Home[r] = w /\ pc[r] \notin {"idle", "done"})
    <3>1. /\ pc'[r] = pc[r] /\ result'[r] = result[r]
          /\ (r \in registered' => r \in registered) /\ (r \in inTime' => r \in inTime)
      BY Zenon, <1>4, <2>3 DEF Crash
    <3> QED BY Zenon, <2>1, <3>1 DEF Place
  <2> QED BY Zenon, <2>2, <2>3
<1> QED BY Zenon, <1>1, <1>2, <1>3, <1>4

(* All steps keep the places.                                              *)
LEMMA PlacesAlways == Spec => []Places
<1>1. Init => Places
  BY Zenon DEF Init, Places, Place
<1>2. IInv /\ Places /\ [Next]_vars => Places'
  <2>1. CASE IInv /\ Places /\ Next
    <3>1. RowsMove
      BY Zenon, <2>1, RowsMoveByNext
    <3>2. CASE \E a \in Actors : Publish(a)
      <4>1. UNCHANGED <<pc, result, registered, future, inTime>>
        BY Zenon, <3>2 DEF Publish, registryVars, resolverVars
      <4> QED BY Zenon, <2>1, <3>1, <4>1, StillKeepsPlaces
    <3> QED
      BY Zenon, <2>1, <3>1, <3>2, ResolverKeepsPlaces, RequestKeepsPlaces, WorkerKeepsPlaces DEF Next
  <2>2. CASE Places /\ UNCHANGED vars
    BY Zenon, <2>2 DEF vars, registryVars, resolverVars, Places, Place
  <2> QED BY Zenon, <2>1, <2>2
<1> QED BY <1>1, <1>2, Inductive, PTL DEF Spec

(* A resolver that is over has left the registry, however it ended and     *)
(* under every fault, unless CancelledError took it out of resolve()       *)
(* (RegistryHoldsLiveResolvers).                                           *)
THEOREM RegistryAlwaysHoldsLiveResolvers == Spec => []RegistryHoldsLiveResolvers
<1>1. IInv /\ Places => RegistryHoldsLiveResolvers
  BY Zenon DEF IInv, SetsType, Places, Place, RegistryHoldsLiveResolvers
<1> QED BY <1>1, Inductive, PlacesAlways, PTL

(* A decision stored while its resolver was waiting is what resolve()      *)
(* returns: through lost notifications, expired deadlines and operators    *)
(* who compete for the row (InTimeDecisionIsReturned).                     *)
THEOREM InTimeDecisionAlwaysReturned == Spec => []InTimeDecisionIsReturned
<1>1. IInv /\ Places => InTimeDecisionIsReturned
  BY Zenon DEF IInv, SetsType, Places, Place, InTimeDecisionIsReturned
<1> QED BY <1>1, Inductive, PlacesAlways, PTL
----------------------------------------------------------------------------
(* A resolver that sleeps, and a notification for it that is not yet       *)
(* published or that its worker has not dispatched.                        *)
Sleeps(r) == pc[r] = "wait" /\ future[r] = "pending"
OnItsWay(r) ==
  \/ \E a \in Actors : r \in unpublished[a]
  \/ \E i \in 1..Len(inbox[Home[r]]) : inbox[Home[r]][i].id = r
NoWakeUpLost ==
  \A r \in Resolvers : Sleeps(r) /\ rows[r].status \in Terminal => OnItsWay(r)

(* A pending future can be found in the registry until its resolver stops  *)
(* waiting; and a store call begins with nothing left to publish.          *)
Awaits(r) == pc[r] \in {"create", "wait"} /\ future[r] = "pending" => r \in registered
TaskPlace(r) ==
  /\ task[r] = "expire" => pc[r] \in {"expire", "done"}
  /\ task[r] = "cancel" => pc[r] \in {"cancel", "done"}
  /\ task[r] = "publish" => pc[r] \in {"expire", "cancel", "done"}
  /\ task[r] # "publish" => unpublished[r] = {}
RequestPlace(q) == op[q].pc # "wake" => unpublished[q] = {}
WakeInv ==
  /\ \A r \in Resolvers : Awaits(r) /\ TaskPlace(r)
  /\ \A q \in Requests : RequestPlace(q)
  /\ listening = Workers
  /\ NoWakeUpLost

(* The postgres store without errors of the store and the channel, and     *)
(* without crashes: only cancelled calls and closed registries.            *)
Reliable == Shared /\ Faults \subseteq {"cancelled", "shutdown"}

(* Append and Tail keep the elements, but for the head.                    *)
LEMMA AppendKeepsElements ==
  ASSUME NEW S, NEW s \in Seq(S), NEW x \in S
  PROVE  /\ \A i \in 1..Len(s) : i \in 1..Len(Append(s, x)) /\ Append(s, x)[i] = s[i]
         /\ Len(Append(s, x)) \in 1..Len(Append(s, x)) /\ Append(s, x)[Len(Append(s, x))] = x
  OBVIOUS

(* ... and Tail drops the first element only.                              *)
LEMMA TailKeepsElements ==
  ASSUME NEW S, NEW s \in Seq(S), s # << >>, NEW i \in 1..Len(s), s[i] # Head(s)
  PROVE  i - 1 \in 1..Len(Tail(s)) /\ Tail(s)[i - 1] = s[i]
  OBVIOUS

(* What a step has to show for the wake-ups: no resolver falls asleep      *)
(* after its row was settled, no notification of one who sleeps on gets    *)
(* lost, and who settles a row publishes it.                               *)
LEMMA StepKeepsWakeUps ==
  ASSUME IInv, RowsMove, WakeInv,
         \A r \in Resolvers : Awaits(r)' /\ TaskPlace(r)',
         \A q \in Requests : RequestPlace(q)', listening' = Workers,
         \A r \in Resolvers : Sleeps(r)' => Sleeps(r) \/ rows'[r].status = "pending",
         \A r \in Resolvers : Sleeps(r)' /\ OnItsWay(r) => OnItsWay(r)',
         \A r \in Resolvers : PendingRow(r) /\ rows'[r].status \in Terminal => OnItsWay(r)'
  PROVE  WakeInv'
<1>1. ASSUME NEW r \in Resolvers, Sleeps(r)', rows'[r].status \in Terminal PROVE OnItsWay(r)'
  <2>1. Sleeps(r)
    BY Zenon, <1>1 DEF Terminal
  <2>2. CASE rows'[r] = rows[r]
    BY Zenon, <1>1, <2>1, <2>2 DEF WakeInv, NoWakeUpLost
  <2>3. CASE PendingRow(r)
    BY Zenon, <1>1, <2>3
  <2> QED
    BY Zenon, <1>1, <2>2, <2>3 DEF RowsMove, PendingRow, Terminal
<1> QED BY Zenon, <1>1 DEF WakeInv, NoWakeUpLost

(* Nothing but r, its future and its task moves, and no row is settled.    *)
QuietButFor(r) ==
  /\ \A s \in Resolvers \ {r} :
       /\ pc'[s] = pc[s] /\ task'[s] = task[s] /\ future'[s] = future[s]
       /\ s \in registered => s \in registered'
  /\ op' = op /\ unpublished' = unpublished /\ inbox' = inbox /\ listening' = listening
  /\ \A s \in Resolvers : rows'[s] = rows[s] \/ rows'[s].status = "pending"

(* Such a step needs to look at r only.                                    *)
LEMMA QuietKeepsWakeUps ==
  ASSUME IInv, RowsMove, WakeInv, NEW r \in Resolvers, QuietButFor(r),
         Awaits(r)', TaskPlace(r)', Sleeps(r)' => Sleeps(r) \/ rows'[r].status = "pending"
  PROVE  WakeInv'
<1>1. \A s \in Resolvers : Awaits(s)' /\ TaskPlace(s)'
  <2> SUFFICES ASSUME NEW s \in Resolvers \ {r} PROVE Awaits(s)' /\ TaskPlace(s)'
    BY Zenon
  <2>1. Awaits(s) /\ TaskPlace(s)
    BY Zenon DEF WakeInv
  <2>2. Awaits(s)'
    BY Zenon, <2>1 DEF QuietButFor, Awaits
  <2>3. TaskPlace(s)'
    BY Zenon, <2>1 DEF QuietButFor, TaskPlace
  <2> QED BY Zenon, <2>2, <2>3
<1>2. /\ \A q \in Requests : RequestPlace(q)'
      /\ listening' = Workers
  BY Zenon DEF QuietButFor, WakeInv, RequestPlace
<1>3. \A s \in Resolvers : Sleeps(s)' => Sleeps(s) \/ rows'[s].status = "pending"
  BY Zenon DEF QuietButFor, Sleeps
<1>4. \A s \in Resolvers : OnItsWay(s) => OnItsWay(s)'
  BY Zenon DEF QuietButFor, OnItsWay
<1>5. \A s \in Resolvers : ~(PendingRow(s) /\ rows'[s].status \in Terminal)
  BY Zenon DEF QuietButFor, PendingRow, Terminal
<1> QED BY Zenon, <1>1, <1>2, <1>3, <1>4, <1>5, StepKeepsWakeUps

(* The steps of a resolver before and after its store calls.               *)
LEMMA ResolverKeepsWakeUps ==
  ASSUME Reliable, IInv, RowsMove, WakeInv, NEW r \in Resolvers,
         \/ Start(r) \/ PassDeadline(r) \/ CancelTask(r) \/ Create(r) \/ CreateFails(r) \/ Wake(r)
         \/ ReadDecidedBy(r) \/ TimeOut(r) \/ ReadLateDecision(r) \/ RunDrop(r) \/ EndTask(r)
  PROVE  WakeInv'
<1>t. /\ pc \in [Resolvers -> ResolverPc] /\ registered \subseteq Resolvers
      /\ task \in [Resolvers -> {"none", "drop", "expire", "cancel", "publish"}]
      /\ future \in [Resolvers -> Decisions \cup {"none", "pending", "cancelled"}]
      /\ rows \in [Resolvers -> Row]
  BY Zenon DEF IInv, ResolverType, FutureType, SetsType, RowsType
<1>p. Awaits(r) /\ TaskPlace(r)
  BY Zenon DEF WakeInv
<1>e. "store_error" \notin Faults
  BY Zenon DEF Reliable
<1>n. [NoRow EXCEPT !.status = "pending"].status = "pending"
  BY Zenon, WrittenRows
<1> DEFINE Mine == Awaits(r)' /\ TaskPlace(r)' /\ (Sleeps(r)' => Sleeps(r) \/ rows'[r].status = "pending")
<1>q. QuietButFor(r) /\ Mine => WakeInv'
  BY Zenon, QuietKeepsWakeUps
<1>1. CASE Start(r)
  <2>1. QuietButFor(r)
    BY Zenon, <1>1, <1>t DEF Start, QuietButFor, channelVars
  <2>2. Mine
    BY Zenon, <1>1, <1>t, <1>p DEF Start, channelVars, Awaits, TaskPlace, Sleeps
  <2> QED BY Zenon, <1>q, <2>1, <2>2
<1>2. CASE PassDeadline(r)
  <2>1. QuietButFor(r)
    BY Zenon, <1>2, <1>t DEF PassDeadline, QuietButFor, channelVars, registryVars, resolverVars
  <2>2. Mine
    BY Zenon, <1>2, <1>p DEF PassDeadline, channelVars, registryVars, resolverVars, Awaits, TaskPlace, Sleeps
  <2> QED BY Zenon, <1>q, <2>1, <2>2
<1>3. CASE Create(r)
  <2>1. CASE StoreTerminal(r, [NoRow EXCEPT !.status = "pending"]) /\ pc' = [pc EXCEPT ![r] = "wait"]
             /\ UNCHANGED registryVars
    <3>0. rows'[r].status = "pending" /\ \A s \in Resolvers \ {r} : rows'[s] = rows[s]
      BY Zenon, <2>1, <1>t, <1>n DEF StoreTerminal
    <3>1. QuietButFor(r)
      BY Zenon, <1>3, <2>1, <3>0, <1>t DEF Create, QuietButFor, channelVars, registryVars
    <3>2. Mine
      BY Zenon, <1>3, <2>1, <3>0, <1>t, <1>p DEF Create, channelVars, registryVars, Awaits, TaskPlace, Sleeps
    <3> QED BY Zenon, <1>q, <3>1, <3>2
  <2>2. CASE Settle(r, "cancelled") /\ Finish(r, "raised") /\ UNCHANGED rows
    <3>1. QuietButFor(r)
      BY Zenon, <1>3, <2>2, <1>t DEF Create, QuietButFor, channelVars, Settle, Finish
    <3>2. Mine
      BY Zenon, <1>3, <2>2, <1>t, <1>p DEF Create, channelVars, Finish, Awaits, TaskPlace, Sleeps
    <3> QED BY Zenon, <1>q, <3>1, <3>2
  <2> QED BY Zenon, <1>3, <2>1, <2>2 DEF Create
<1>4. CASE CreateFails(r)
  BY Zenon, <1>4, <1>e DEF CreateFails
<1>5. CASE Wake(r)
  <2>1. QuietButFor(r)
    BY Zenon, <1>5, <1>t DEF Wake, QuietButFor, channelVars, registryVars
  <2>2. Mine
    BY Zenon, <1>5, <1>t, <1>p DEF Wake, channelVars, registryVars, Awaits, TaskPlace, Sleeps
  <2> QED BY Zenon, <1>q, <2>1, <2>2
<1>6. CASE ReadDecidedBy(r)
  <2>1. QuietButFor(r)
    BY Zenon, <1>6, <1>t DEF ReadDecidedBy, Finish, QuietButFor, channelVars, registryVars
  <2>2. Mine
    BY Zenon, <1>6, <1>t, <1>p DEF ReadDecidedBy, Finish, channelVars, registryVars, Awaits, TaskPlace, Sleeps
  <2> QED BY Zenon, <1>q, <2>1, <2>2
<1>7. CASE TimeOut(r)
  <2>1. QuietButFor(r)
    BY Zenon, <1>7, <1>t DEF TimeOut, QuietButFor, channelVars
  <2>2. Mine
    BY Zenon, <1>7, <1>t, <1>p DEF TimeOut, channelVars, Awaits, TaskPlace, Sleeps
  <2> QED BY Zenon, <1>q, <2>1, <2>2
<1>8. CASE ReadLateDecision(r)
  <2>1. QuietButFor(r)
    BY Zenon, <1>8, <1>t DEF ReadLateDecision, QuietButFor, channelVars, registryVars
  <2>2. Mine
    BY Zenon, <1>8, <1>t, <1>p DEF ReadLateDecision, channelVars, registryVars, Awaits, TaskPlace, Sleeps
  <2> QED BY Zenon, <1>q, <2>1, <2>2
<1>9. CASE RunDrop(r)
  <2>1. QuietButFor(r)
    BY Zenon, <1>9, <1>t DEF RunDrop, Finish, Settle, QuietButFor, channelVars
  <2>2. Mine
    BY Zenon, <1>9, <1>t, <1>p DEF RunDrop, Finish, channelVars, Awaits, TaskPlace, Sleeps
  <2> QED BY Zenon, <1>q, <2>1, <2>2
<1>10. CASE EndTask(r)
  <2>1. QuietButFor(r)
    BY Zenon, <1>10, <1>t DEF EndTask, Finish, QuietButFor, channelVars, registryVars
  <2>2. Mine
    BY Zenon, <1>10, <1>t, <1>p DEF EndTask, Finish, channelVars, registryVars, Awaits, TaskPlace, Sleeps
  <2> QED BY Zenon, <1>q, <2>1, <2>2
<1>11. CASE CancelTask(r)
  <2>1. \A s \in Resolvers : rows'[s] = rows[s] \/ rows'[s].status = "pending"
    BY Zenon, <1>11, <1>t, <1>n DEF CancelTask, StoreTerminal
  <2>2. QuietButFor(r)
    BY ZenonT(60), <1>11, <2>1, <1>t DEF CancelTask, Finish, QuietButFor, channelVars
  <2>3. Mine
    BY Zenon, <1>11, <1>t, <1>p DEF CancelTask, Finish, channelVars, Awaits, TaskPlace, Sleeps
  <2> QED BY Zenon, <1>q, <2>2, <2>3
<1> QED BY Zenon, <1>1, <1>2, <1>3, <1>4, <1>5, <1>6, <1>7, <1>8, <1>9, <1>10, <1>11
(* A store call that settles rows hands all of them to its publication.    *)
LEMMA StoreCallKeepsWakeUps ==
  ASSUME Reliable, IInv, RowsMove, WakeInv, NEW a \in Actors, NEW S \in SUBSET Resolvers,
         ToPublish(a, S), unpublished[a] = {}, UNCHANGED <<pc, registryVars, inbox, listening>>,
         \A r \in Resolvers : PendingRow(r) /\ rows'[r].status \in Terminal => r \in S,
         \A r \in Resolvers : TaskPlace(r)', \A q \in Requests : RequestPlace(q)'
  PROVE  WakeInv'
<1>1. unpublished'[a] = S /\ \A b \in Actors : unpublished[b] \subseteq unpublished'[b]
  <2>1. unpublished \in [Actors -> SUBSET Resolvers] /\ unpublished' = [unpublished EXCEPT ![a] = S]
    BY Zenon DEF IInv, ChannelType, ToPublish, Reliable
  <2> QED BY Zenon, <2>1
<1>2. \A r \in Resolvers : Awaits(r)'
  BY Zenon DEF WakeInv, Awaits, registryVars
<1>3. \A r \in Resolvers : Sleeps(r)' => Sleeps(r)
  BY Zenon DEF Sleeps, registryVars
<1>4. \A r \in Resolvers : OnItsWay(r) => OnItsWay(r)'
  BY Zenon, <1>1 DEF OnItsWay
<1>5. \A r \in S : OnItsWay(r)'
  BY Zenon, <1>1 DEF OnItsWay
<1>6. listening' = Workers
  BY Zenon DEF WakeInv
<1> QED BY Zenon, <1>2, <1>3, <1>4, <1>5, <1>6, StepKeepsWakeUps

(* Two names for one actor are of one kind.                                *)
LEMMA ActorsDiffer ==
  /\ \A r \in Resolvers : r \in Actors /\ r \notin Requests /\ r \notin Workers
  /\ \A q \in Requests : q \in Actors /\ q \notin Resolvers /\ q \notin Workers
  /\ \A w \in Workers : w \in Actors /\ w \notin Resolvers /\ w \notin Requests
  BY Zenon, EscalationAssumption DEF Actors

(* mark_expired() settles what is due, and returns it.                     *)
LEMMA ExpiredArePublished ==
  ASSUME IInv, MarkExpired
  PROVE  /\ DuePending \in SUBSET Resolvers
         /\ \A r \in Resolvers : PendingRow(r) /\ rows'[r].status \in Terminal => r \in DuePending
<1>1. \A r \in Resolvers : rows'[r] = IF r \in DuePending THEN Expired ELSE rows[r]
  BY Zenon DEF MarkExpired
<1>2. DuePending \in SUBSET Resolvers
  BY Zenon DEF DuePending, IInv, SetsType
<1> QED BY Zenon, <1>1, <1>2 DEF PendingRow, Terminal

(* The store calls of the resolvers, ...                                   *)
LEMMA TaskKeepsWakeUps ==
  ASSUME Reliable, IInv, RowsMove, WakeInv, NEW r \in Resolvers, RunExpire(r) \/ RunCancel(r)
  PROVE  WakeInv'
<1>t. /\ task \in [Resolvers -> {"none", "drop", "expire", "cancel", "publish"}]
      /\ unpublished \in [Actors -> SUBSET Resolvers] /\ rows \in [Resolvers -> Row]
  BY Zenon DEF IInv, ResolverType, ChannelType, RowsType
<1>p. /\ task[r] \in {"expire", "cancel"} /\ pc[r] \in {"expire", "cancel", "done"}
      /\ unpublished[r] = {} /\ "store_error" \notin Faults
  BY Zenon DEF RunExpire, RunCancel, WakeInv, TaskPlace, Reliable
<1>1. /\ UNCHANGED <<pc, registryVars, op, inbox, listening>>
      /\ task' = [task EXCEPT ![r] = "publish"]
  BY Zenon DEF RunExpire, RunCancel
<1>2. ASSUME \A b \in Actors \ {r} : unpublished'[b] = unpublished[b]
      PROVE  (\A s \in Resolvers : TaskPlace(s)') /\ (\A q \in Requests : RequestPlace(q)')
  <2>1. TaskPlace(r)'
    BY Zenon, <1>t, <1>p, <1>1 DEF TaskPlace
  <2>2. ASSUME NEW s \in Resolvers \ {r} PROVE TaskPlace(s)'
    <3>1. task'[s] = task[s] /\ unpublished'[s] = unpublished[s] /\ TaskPlace(s)
      BY Zenon, <1>t, <1>1, <1>2, ActorsDiffer DEF WakeInv
    <3> QED BY Zenon, <1>1, <3>1 DEF TaskPlace
  <2>3. \A q \in Requests : RequestPlace(q)'
    BY Zenon, <1>1, <1>2, ActorsDiffer DEF WakeInv, RequestPlace
  <2> QED BY Zenon, <2>1, <2>2, <2>3
<1>3. ASSUME NEW S \in SUBSET Resolvers, ToPublish(r, S),
             \A s \in Resolvers : PendingRow(s) /\ rows'[s].status \in Terminal => s \in S
      PROVE  WakeInv'
  <2>1. \A b \in Actors \ {r} : unpublished'[b] = unpublished[b]
    BY Zenon, <1>t, <1>3 DEF ToPublish
  <2> QED BY Zenon, <1>p, <1>1, <1>2, <1>3, <2>1, StoreCallKeepsWakeUps, ActorsDiffer
<1>4. CASE RunExpire(r)
  BY Zenon, <1>p, <1>3, <1>4, ExpiredArePublished DEF RunExpire
<1>5. CASE PendingRow(r) /\ StoreTerminal(r, Cancelled("system")) /\ ToPublish(r, {r})
  <2>1. \A s \in Resolvers \ {r} : rows'[s] = rows[s]
    BY Zenon, <1>t, <1>5 DEF StoreTerminal
  <2>2. \A s \in Resolvers : PendingRow(s) /\ rows'[s].status \in Terminal => s \in {r}
    BY Zenon, <2>1 DEF PendingRow, Terminal
  <2> QED BY Zenon, <1>3, <1>5, <2>2
<1>6. CASE UNCHANGED <<rows, unpublished>>
  <2>1. \A s \in Resolvers : TaskPlace(s)' /\ Awaits(s)'
    BY Zenon, <1>1, <1>2, <1>6 DEF WakeInv, Awaits, registryVars
  <2>2. QuietButFor(r)
    BY Zenon, <1>t, <1>1, <1>6 DEF QuietButFor, registryVars
  <2>3. Sleeps(r)' => Sleeps(r)
    BY Zenon, <1>1 DEF Sleeps, registryVars
  <2> QED BY Zenon, <2>1, <2>2, <2>3, QuietKeepsWakeUps
<1> QED BY Zenon, <1>4, <1>5, <1>6 DEF RunCancel

(* ... those of the operators' requests, ...                               *)
LEMMA RequestKeepsWakeUps ==
  ASSUME Reliable, IInv, RowsMove, WakeInv, NEW q \in Requests,
         \/ \E w \in Workers, r \in Resolvers :
              \/ SubmitCancel(q, w, r) \/ SubmitCancelFails(q, w, r)
              \/ \E d \in Decisions : SubmitDecision(q, w, r, d)
         \/ ApplyDecision(q) \/ ApplyFails(q)
  PROVE  WakeInv'
<1>t. /\ unpublished \in [Actors -> SUBSET Resolvers] /\ rows \in [Resolvers -> Row]
      /\ op \in [Requests -> Operation] /\ "store_error" \notin Faults
  BY Zenon DEF IInv, ChannelType, RowsType, Reliable
<1> DEFINE Frame == /\ op[q].pc # "wake" /\ UNCHANGED <<pc, task, registryVars, inbox, listening>>
                    /\ \A p \in Requests \ {q} : op'[p] = op[p]
           Still == UNCHANGED <<rows, unpublished>>
           Settles(r) == /\ \A s \in Resolvers \ {r} : rows'[s] = rows[s]
                         /\ ToPublish(q, {r}) /\ op'[q].pc = "wake"
<1>1. ASSUME Frame, Still PROVE WakeInv'
  <2>1. \A r \in Resolvers : Awaits(r)' /\ TaskPlace(r)'
    BY Zenon, <1>1 DEF WakeInv, Awaits, TaskPlace, registryVars
  <2>2. \A p \in Requests : RequestPlace(p)'
    BY Zenon, <1>1 DEF WakeInv, RequestPlace
  <2>3. \A r \in Resolvers : (Sleeps(r)' => Sleeps(r)) /\ (OnItsWay(r) => OnItsWay(r)')
    BY Zenon, <1>1 DEF Sleeps, OnItsWay, registryVars
  <2>4. \A r \in Resolvers : ~(PendingRow(r) /\ rows'[r].status \in Terminal)
    BY Zenon, <1>1 DEF PendingRow, Terminal
  <2>5. listening' = Workers
    BY Zenon, <1>1 DEF WakeInv
  <2> QED BY Zenon, <2>1, <2>2, <2>3, <2>4, <2>5, StepKeepsWakeUps
<1>2. ASSUME NEW r \in Resolvers, Frame, Settles(r) PROVE WakeInv'
  <2>1. q \in Actors /\ unpublished[q] = {} /\ \A b \in Actors \ {q} : unpublished'[b] = unpublished[b]
    BY Zenon, <1>t, <1>2, ActorsDiffer DEF WakeInv, RequestPlace, ToPublish
  <2>2. \A s \in Resolvers : TaskPlace(s)'
    BY Zenon, <1>2, <2>1, ActorsDiffer DEF WakeInv, TaskPlace
  <2>3. \A p \in Requests : RequestPlace(p)'
    BY Zenon, <1>2, <2>1, ActorsDiffer DEF WakeInv, RequestPlace
  <2>4. \A s \in Resolvers : PendingRow(s) /\ rows'[s].status \in Terminal => s \in {r}
    BY Zenon, <1>2 DEF PendingRow, Terminal
  <2> QED BY Zenon, <1>2, <2>1, <2>2, <2>3, <2>4, StoreCallKeepsWakeUps
<1>3. ASSUME NEW w \in Workers, NEW r \in Resolvers, SubmitCancel(q, w, r) PROVE WakeInv'
  <2>0. PICK o : o = [pc |-> IF Refusal(r, TRUE) = "none" THEN "wake" ELSE "done",
                      kind |-> "cancel", worker |-> w, target |-> r,
                      decision |-> None, answer |-> Refusal(r, TRUE)]
    BY Zenon
  <2>1. op' = [op EXCEPT ![q] = o] /\ (Refusal(r, TRUE) = "none" => o.pc = "wake")
    BY Zenon, <1>3, <2>0 DEF SubmitCancel
  <2>2. Frame /\ op'[q] = o
    BY Zenon, <1>3, <1>t, <2>1 DEF SubmitCancel, resolverVars
  <2>3. CASE Refusal(r, TRUE) = "none"
    <3>1. StoreTerminal(r, Cancelled(q)) /\ ToPublish(q, {r})
      BY Zenon, <1>3, <2>3 DEF SubmitCancel
    <3>2. Settles(r)
      BY ZenonT(60), <1>t, <2>1, <2>2, <2>3, <3>1 DEF StoreTerminal
    <3> QED BY Zenon, <1>2, <2>2, <3>2
  <2>4. CASE Refusal(r, TRUE) # "none"
    BY Zenon, <1>1, <1>3, <2>2, <2>4 DEF SubmitCancel
  <2> QED BY Zenon, <2>3, <2>4
<1>4. ASSUME NEW w \in Workers, NEW r \in Resolvers, NEW d \in Decisions, SubmitDecision(q, w, r, d)
      PROVE  WakeInv'
  <2>1. Frame /\ Still
    BY Zenon, <1>4, <1>t DEF SubmitDecision, resolverVars, channelVars
  <2> QED BY Zenon, <1>1, <2>1
<1>5. CASE ApplyDecision(q)
  <2>1. PICK r \in Resolvers : r = op[q].target
    BY Zenon, <1>5 DEF ApplyDecision, IInv, RequestStored
  <2>2. Frame
    BY Zenon, <1>5, <1>t DEF ApplyDecision, Ended, resolverVars
  <2>3. CASE ToPublish(q, {r}) /\ StoreTerminal(r, Decided(op[q].decision, q)) /\ op' = [op EXCEPT ![q].pc = "wake"]
    <3>1. op'[q].pc = "wake"
      BY Zenon, <1>t, <2>3 DEF Operation
    <3>2. Settles(r)
      BY Zenon, <1>t, <2>3, <3>1 DEF StoreTerminal
    <3> QED BY Zenon, <1>2, <2>2, <3>2
  <2>4. CASE Still
    BY Zenon, <1>1, <2>2, <2>4
  <2> QED BY Zenon, <1>5, <2>1, <2>3, <2>4 DEF ApplyDecision
<1> HIDE DEF Frame, Still, Settles
<1> QED BY Zenon, <1>t, <1>3, <1>4, <1>5 DEF SubmitCancelFails, ApplyFails

(* ... and the sweeper's.                                                  *)
LEMMA SweepKeepsWakeUps ==
  ASSUME Reliable, IInv, RowsMove, WakeInv, NEW w \in Workers, Sweep(w)
  PROVE  WakeInv'
<1>1. /\ MarkExpired /\ ToPublish(w, DuePending) /\ unpublished[w] = {}
      /\ UNCHANGED <<pc, task, registryVars, op, inbox, listening>>
  BY Zenon DEF Sweep, resolverVars
<1>2. \A b \in Actors \ {w} : unpublished'[b] = unpublished[b]
  BY Zenon, <1>1 DEF ToPublish, IInv, ChannelType
<1>3. \A r \in Resolvers : TaskPlace(r)'
  BY Zenon, <1>1, <1>2, ActorsDiffer DEF WakeInv, TaskPlace
<1>4. \A q \in Requests : RequestPlace(q)'
  BY Zenon, <1>1, <1>2, ActorsDiffer DEF WakeInv, RequestPlace
<1> QED BY Zenon, <1>1, <1>3, <1>4, ActorsDiffer, ExpiredArePublished, StoreCallKeepsWakeUps

(* Publishing puts the notification into the inbox of every worker.        *)
LEMMA PublishKeepsWakeUps ==
  ASSUME Reliable, IInv, RowsMove, WakeInv, NEW a \in Actors, Publish(a)
  PROVE  WakeInv'
<1>t. /\ unpublished \in [Actors -> SUBSET Resolvers] /\ inbox \in [Workers -> Seq(Payload)]
      /\ listening = Workers /\ "notify_lost" \notin Faults
  BY Zenon DEF IInv, ChannelType, WakeInv, Reliable
<1>1. /\ UNCHANGED <<rows, pc, task, registryVars, op>> /\ listening' = Workers
  BY Zenon, <1>t DEF Publish, resolverVars
<1>2. PICK r \in unpublished[a] :
        /\ unpublished' = [unpublished EXCEPT ![a] = @ \ {r}]
        /\ inbox' = [w \in Workers |-> IF w \in listening
                                         THEN Append(inbox[w], [id |-> r, status |-> rows[r].status])
                                         ELSE inbox[w]]
  BY Zenon, <1>t DEF Publish
<1>3. PICK p \in Payload : p = [id |-> r, status |-> rows[r].status] /\ p.id = r
  <2>1. r \in Resolvers /\ rows[r].status \in Terminal
    BY Zenon, <1>t DEF IInv, PublishedSettled
  <2>2. [id |-> r, status |-> rows[r].status] \in Payload /\ [id |-> r, status |-> rows[r].status].id = r
    BY Zenon, <2>1 DEF Payload
  <2> QED BY Zenon, <2>2
<1>4. \A w \in Workers : inbox'[w] = Append(inbox[w], p)
  BY Zenon, <1>t, <1>2, <1>3
<1>5. /\ \A b \in Actors : unpublished'[b] \subseteq unpublished[b]
      /\ \A b \in Actors, s \in Resolvers \ {r} : s \in unpublished[b] => s \in unpublished'[b]
  BY Zenon, <1>t, <1>2
<1>6. ASSUME NEW w \in Workers
      PROVE  /\ \A i \in 1..Len(inbox[w]) : i \in 1..Len(inbox'[w]) /\ inbox'[w][i] = inbox[w][i]
             /\ \E i \in 1..Len(inbox'[w]) : inbox'[w][i].id = r
  <2>1. inbox[w] \in Seq(Payload) /\ inbox'[w] = Append(inbox[w], p)
    BY Zenon, <1>t, <1>4
  <2>2. PICK s \in Seq(Payload) : s = inbox[w]
    BY Zenon, <2>1
  <2>3. /\ \A i \in 1..Len(s) : i \in 1..Len(Append(s, p)) /\ Append(s, p)[i] = s[i]
        /\ Len(Append(s, p)) \in 1..Len(Append(s, p)) /\ Append(s, p)[Len(Append(s, p))] = p
    BY <1>3, <2>2, AppendKeepsElements
  <2> QED BY <1>3, <2>1, <2>2, <2>3
<1>7. ASSUME NEW s \in Resolvers, OnItsWay(s) PROVE OnItsWay(s)'
  <2>1. Home[s] \in Workers
    BY Zenon, EscalationAssumption
  <2>2. CASE s = r
    BY Zenon, <1>6, <2>1, <2>2 DEF OnItsWay
  <2>3. CASE s # r
    BY Zenon, <1>5, <1>6, <1>7, <2>1, <2>3 DEF OnItsWay
  <2> QED BY Zenon, <2>2, <2>3
<1>8. \A s \in Resolvers : Awaits(s)' /\ TaskPlace(s)'
  BY Zenon, <1>1, <1>5, ActorsDiffer DEF WakeInv, Awaits, TaskPlace, registryVars
<1>9. \A q \in Requests : RequestPlace(q)'
  BY Zenon, <1>1, <1>5, ActorsDiffer DEF WakeInv, RequestPlace
<1>10. \A s \in Resolvers : (Sleeps(s)' => Sleeps(s)) /\ ~(PendingRow(s) /\ rows'[s].status \in Terminal)
  BY Zenon, <1>1 DEF Sleeps, registryVars, PendingRow, Terminal
<1> QED BY Zenon, <1>1, <1>7, <1>8, <1>9, <1>10, StepKeepsWakeUps
(* Settling a future wakes its resolver if that one sleeps, and disturbs   *)
(* nobody else.                                                            *)
LEMMA SettlingWakes ==
  ASSUME IInv, WakeInv, NEW r \in Resolvers, NEW value, value # "pending", Settle(r, value), pc' = pc
  PROVE  /\ ~Sleeps(r)'
         /\ \A s \in Resolvers : Awaits(s)' /\ (Sleeps(s)' => Sleeps(s))
<1>1. /\ registered' = registered \ {r} /\ \A s \in Resolvers \ {r} : future'[s] = future[s]
      /\ future'[r] \in {future[r], value} /\ (r \in registered => future'[r] # "pending")
  BY Zenon DEF IInv, FutureType, Settle
<1>2. pc[r] \in {"create", "wait"} => future'[r] # "pending"
  BY Zenon, <1>1 DEF WakeInv, Awaits
<1>3. \A s \in Resolvers \ {r} : Awaits(s)' /\ (Sleeps(s)' => Sleeps(s))
  BY Zenon, <1>1 DEF WakeInv, Awaits, Sleeps
<1> QED BY Zenon, <1>2, <1>3 DEF Awaits, Sleeps

(* The operator's request wakes the resolver of its own worker.            *)
LEMMA WakingKeepsWakeUps ==
  ASSUME Reliable, IInv, RowsMove, WakeInv, NEW q \in Requests, WakeResolver(q)
  PROVE  WakeInv'
<1>0. /\ op[q].target \in Resolvers /\ op[q].kind \in {"decide", "cancel"}
      /\ op[q].kind = "decide" => op[q].decision \in Decisions
  BY Zenon DEF IInv, RequestStored, Operation, WakeResolver
<1>r. PICK r \in Resolvers : r = op[q].target
  BY Zenon, <1>0
<1>1. /\ UNCHANGED <<rows, pc, task, unpublished, inbox, listening>> /\ unpublished[q] = {}
      /\ \A p \in Requests \ {q} : op'[p] = op[p]
  BY Zenon DEF WakeResolver, resolverVars, channelVars, Ended, IInv
<1>2. "pending" \notin Decisions
  BY Zenon, EscalationAssumption
<1>3. \A s \in Resolvers : Awaits(s)' /\ (Sleeps(s)' => Sleeps(s))
  <2>1. CASE UNCHANGED registryVars
    BY Zenon, <1>1, <2>1 DEF registryVars, WakeInv, Awaits, Sleeps
  <2>2. ASSUME NEW value, value # "pending", Settle(r, value)
        PROVE  \A s \in Resolvers : Awaits(s)' /\ (Sleeps(s)' => Sleeps(s))
    BY Zenon, <1>1, <2>2, SettlingWakes
  <2> QED BY Zenon, <1>0, <1>r, <1>2, <2>1, <2>2 DEF WakeResolver, RegistryResolve, RegistryCancel
<1>4. \A s \in Resolvers : TaskPlace(s)' /\ (OnItsWay(s) => OnItsWay(s)')
  BY Zenon, <1>1 DEF WakeInv, TaskPlace, OnItsWay
<1>5. \A p \in Requests : RequestPlace(p)'
  BY Zenon, <1>1 DEF WakeInv, RequestPlace
<1>6. listening' = Workers /\ \A s \in Resolvers : ~(PendingRow(s) /\ rows'[s].status \in Terminal)
  BY Zenon, <1>1 DEF WakeInv, PendingRow, Terminal
<1> QED BY Zenon, <1>3, <1>4, <1>5, <1>6, StepKeepsWakeUps

(* Dispatching a notification wakes the resolver it is for, and leaves the *)
(* notifications behind it.                                                *)
LEMMA DispatchKeepsWakeUps ==
  ASSUME Reliable, IInv, RowsMove, WakeInv, NEW w \in Workers, Dispatch(w)
  PROVE  WakeInv'
<1>t. inbox \in [Workers -> Seq(Payload)] /\ inbox[w] \in Seq(Payload) /\ inbox[w] # << >>
  BY Zenon DEF IInv, ChannelType, Dispatch
<1>1. /\ UNCHANGED <<rows, pc, task, op, unpublished, listening>> /\ inbox'[w] = Tail(inbox[w])
      /\ \A v \in Workers \ {w} : inbox'[v] = inbox[v]
  BY Zenon, <1>t DEF Dispatch, resolverVars
<1>p. PICK p : p = Head(inbox[w])
  BY Zenon
<1>2. p \in Payload /\ p.status = rows[p.id].status
  <2>1. \A i \in 1..Len(inbox[w]) : inbox[w][i].status = rows[inbox[w][i].id].status
    BY Zenon DEF IInv, PublishedSettled
  <2> QED BY <1>t, <1>p, <2>1
<1>3. /\ p.id \in Resolvers /\ (p.status = "decided" => rows[p.id].decision \in Decisions)
      /\ "pending" \notin Decisions /\ "store_error" \notin Faults
  BY Zenon, <1>2, EscalationAssumption DEF IInv, RowsType, Row, Payload, Reliable
<1>r. PICK r \in Resolvers : r = p.id
  BY Zenon, <1>3
<1>4. /\ Home[r] # w => UNCHANGED registryVars
      /\ Home[r] = w => \E value : value # "pending" /\ Settle(r, value)
  BY Zenon, <1>3, <1>p, <1>r DEF Dispatch, RegistryResolve, RegistryCancel
<1>5. /\ \A s \in Resolvers : Awaits(s)' /\ (Sleeps(s)' => Sleeps(s))
      /\ Home[r] = w => ~Sleeps(r)'
  <2>1. CASE Home[r] = w
    <3>1. PICK value : value # "pending" /\ Settle(r, value)
      BY ZenonT(60), <1>4, <2>1
    <3> QED BY Zenon, <1>1, <3>1, SettlingWakes
  <2>2. CASE Home[r] # w
    <3>1. \A s \in Resolvers : Awaits(s)' /\ (Sleeps(s)' => Sleeps(s))
      BY Zenon, <1>1, <1>4, <2>2 DEF registryVars, WakeInv, Awaits, Sleeps
    <3> QED BY Zenon, <2>2, <3>1
  <2> QED BY Zenon, <2>1, <2>2
<1>6. ASSUME NEW s \in Resolvers, Sleeps(s)', OnItsWay(s) PROVE OnItsWay(s)'
  <2>1. Home[s] \in Workers
    BY Zenon, EscalationAssumption
  <2>2. CASE \E a \in Actors : s \in unpublished[a]
    BY Zenon, <1>1, <2>2 DEF OnItsWay
  <2>3. ASSUME NEW i \in 1..Len(inbox[Home[s]]), inbox[Home[s]][i].id = s PROVE OnItsWay(s)'
    <3>1. CASE Home[s] # w
      BY Zenon, <1>1, <2>1, <2>3, <3>1 DEF OnItsWay
    <3>2. CASE Home[s] = w
      <4>1. inbox[w][i] # Head(inbox[w])
        BY Zenon, <1>5, <1>6, <1>p, <1>r, <2>3, <3>2
      <4>2. i - 1 \in 1..Len(Tail(inbox[w])) /\ Tail(inbox[w])[i - 1] = inbox[w][i]
        BY <1>t, <2>3, <3>2, <4>1, TailKeepsElements
      <4>3. inbox'[Home[s]] = Tail(inbox[w]) /\ Home' = Home
        BY Zenon, <1>1, <3>2
      <4> QED BY Zenon, <2>3, <3>2, <4>2, <4>3 DEF OnItsWay
    <3> QED BY Zenon, <3>1, <3>2
  <2> QED BY Zenon, <1>6, <2>2, <2>3 DEF OnItsWay
<1>7. /\ \A s \in Resolvers : TaskPlace(s)'
      /\ \A q \in Requests : RequestPlace(q)'
  BY Zenon, <1>1 DEF WakeInv, TaskPlace, RequestPlace
<1>8. listening' = Workers /\ \A s \in Resolvers : ~(PendingRow(s) /\ rows'[s].status \in Terminal)
  BY Zenon, <1>1 DEF WakeInv, PendingRow, Terminal
<1> QED BY Zenon, <1>5, <1>6, <1>7, <1>8, StepKeepsWakeUps

(* A registry that closes wakes everybody it holds; the other steps of a   *)
(* worker are faults, or reopen a channel that was never lost.             *)
LEMMA WorkerKeepsWakeUps ==
  ASSUME Reliable, IInv, RowsMove, WakeInv, NEW w \in Workers,
         LoseChannel(w) \/ ReopenChannel(w) \/ CloseRegistry(w) \/ Crash(w)
  PROVE  WakeInv'
<1>1. CloseRegistry(w)
  BY Zenon DEF LoseChannel, ReopenChannel, Crash, Reliable, WakeInv
<1>2. /\ UNCHANGED <<rows, pc, task, op, unpublished, inbox, listening>>
      /\ \A r \in Resolvers : future'[r] = "pending" => future[r] = "pending" /\ (r \in registered => Home[r] # w)
      /\ \A r \in Resolvers : r \in registered /\ Home[r] # w => r \in registered'
  BY Zenon, <1>1 DEF CloseRegistry, resolverVars, channelVars
<1>3. \A r \in Resolvers : Awaits(r)' /\ (Sleeps(r)' => Sleeps(r))
  BY Zenon, <1>2 DEF WakeInv, Awaits, Sleeps
<1>4. \A r \in Resolvers : TaskPlace(r)' /\ (OnItsWay(r) => OnItsWay(r)')
  BY Zenon, <1>2 DEF WakeInv, TaskPlace, OnItsWay
<1>5. \A q \in Requests : RequestPlace(q)'
  BY Zenon, <1>2 DEF WakeInv, RequestPlace
<1>6. listening' = Workers /\ \A r \in Resolvers : ~(PendingRow(r) /\ rows'[r].status \in Terminal)
  BY Zenon, <1>2 DEF WakeInv, PendingRow, Terminal
<1> QED BY Zenon, <1>3, <1>4, <1>5, <1>6, StepKeepsWakeUps

(* No wake-up is lost between the workers: while a resolver sleeps whose   *)
(* row is settled -- by an operator on any worker, by the sweeper or by    *)
(* another resolver's clean-up -- a notification for it waits to be        *)
(* published or dispatched.  It holds for the shared store when neither    *)
(* store nor channel fails and no worker dies; calls may be cancelled and  *)
(* registries closed at any time.  What SettledIsNoticed adds is that the  *)
(* event loop runs.                                                        *)
THEOREM NoWakeUpIsEverLost ==
  ASSUME Reliable
  PROVE  Spec => []NoWakeUpLost
<1>1. Init => WakeInv
  <2> SUFFICES ASSUME Init PROVE WakeInv
    BY Zenon
  <2>1. \A r \in Resolvers : pc[r] = "idle" /\ task[r] = "none" /\ unpublished[r] = {}
    BY Zenon, ActorsDiffer DEF Init
  <2>2. \A q \in Requests : unpublished[q] = {}
    BY Zenon, ActorsDiffer DEF Init
  <2>3. listening = Workers
    BY Zenon DEF Init
  <2> QED BY Zenon, <2>1, <2>2, <2>3 DEF WakeInv, Awaits, TaskPlace, RequestPlace, NoWakeUpLost, Sleeps
<1>2. IInv /\ WakeInv /\ [Next]_vars => WakeInv'
  <2>1. CASE IInv /\ WakeInv /\ Next
    <3>1. RowsMove
      BY Zenon, <2>1, RowsMoveByNext
    <3>2. ASSUME NEW r \in Resolvers, Start(r) \/ PassDeadline(r) \/ ResolverStep(r) \/ CancelTask(r)
          PROVE  WakeInv'
      BY Zenon, <2>1, <3>1, <3>2, ResolverKeepsWakeUps, TaskKeepsWakeUps DEF ResolverStep
    <3>3. ASSUME NEW q \in Requests,
                 \/ \E w \in Workers, r \in Resolvers :
                      \/ SubmitCancel(q, w, r) \/ SubmitCancelFails(q, w, r)
                      \/ \E d \in Decisions : SubmitDecision(q, w, r, d)
                 \/ RequestStep(q)
          PROVE  WakeInv'
      BY Zenon, <2>1, <3>1, <3>3, RequestKeepsWakeUps, WakingKeepsWakeUps DEF RequestStep
    <3>4. ASSUME NEW w \in Workers, \/ Dispatch(w) \/ LoseChannel(w) \/ ReopenChannel(w) \/ Sweep(w)
                                    \/ CloseRegistry(w) \/ Crash(w)
          PROVE  WakeInv'
      BY Zenon, <2>1, <3>1, <3>4, DispatchKeepsWakeUps, SweepKeepsWakeUps, WorkerKeepsWakeUps
    <3> QED BY Zenon, <2>1, <3>1, <3>2, <3>3, <3>4, PublishKeepsWakeUps DEF Next
  <2>2. CASE WakeInv /\ UNCHANGED vars
    BY Zenon, <2>2 DEF vars, registryVars, resolverVars, channelVars, WakeInv, Awaits, TaskPlace,
                       RequestPlace, NoWakeUpLost, Sleeps, OnItsWay
  <2> QED BY Zenon, <2>1, <2>2
<1>3. WakeInv => NoWakeUpLost
  BY Zenon DEF WakeInv
<1> QED BY <1>1, <1>2, <1>3, Inductive, PTL DEF Spec
==============================================================================
