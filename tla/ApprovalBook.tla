---------------------------- MODULE ApprovalBook ----------------------------
(***************************************************************************)
(* What the approval store promises, without its cache, its lock and its   *)
(* repository calls: an approval is submitted once, and leaves PENDING     *)
(* once, decided by one call or expired.  A call that is told its decision *)
(* was saved is the one that decided; a call that is refused never decides.*)
(***************************************************************************)
CONSTANTS Approvals, Calls, None, OldItems

VARIABLES book,  \* None, "pending", "expired" or the call that decided
          told   \* what each call was answered

bookVars == <<book, told>>

Init == book \in [Approvals -> OldItems] /\ told = [c \in Calls |-> "none"]

Submit(a) ==
  /\ book[a] = None
  /\ book' = [book EXCEPT ![a] = "pending"] /\ UNCHANGED told

Decide(a, c) ==
  /\ book[a] = "pending" /\ told[c] = "none"
  /\ \A b \in Approvals : book[b] # c
  /\ book' = [book EXCEPT ![a] = c] /\ UNCHANGED told

Expire(a) ==
  /\ book[a] = "pending"
  /\ book' = [book EXCEPT ![a] = "expired"] /\ UNCHANGED told

Answer(c, answer) ==
  /\ told[c] = "none"
  /\ answer = "saved" => \E a \in Approvals : book[a] = c
  /\ answer = "refused" => \A a \in Approvals : book[a] # c
  /\ told' = [told EXCEPT ![c] = answer] /\ UNCHANGED book

(* the calls that were running when the process died                       *)
Abandon(S) ==
  /\ \A c \in S : told[c] = "none"
  /\ told' = [c \in Calls |-> IF c \in S THEN "dead" ELSE told[c]] /\ UNCHANGED book

Next ==
  \/ \E a \in Approvals : Submit(a) \/ Expire(a) \/ \E c \in Calls : Decide(a, c)
  \/ \E c \in Calls, answer \in {"saved", "refused", "added", "found", "error"} : Answer(c, answer)
  \/ \E S \in SUBSET Calls : Abandon(S)

Spec == Init /\ [][Next]_bookVars
=============================================================================
