--------------------------- MODULE ApprovalStore ---------------------------
(***************************************************************************)
(* The approval store (api/approval_store.py) over a durable repository:   *)
(* add(), get(), list_items(), save() and save_if_pending(), the cache     *)
(* `_items', the markers `_saves_in_flight' and the store-wide lock.       *)
(*                                                                         *)
(* An action is the code between two suspension points, so a repository    *)
(* call is two actions: the repository answers or commits, and later the   *)
(* caller runs again.  A caller that waits for the lock on entry has done  *)
(* nothing yet and is the same as one that has not called.  Who holds the  *)
(* lock is read off the places where the calls are suspended.              *)
(*                                                                         *)
(* Each call is made once.  An item is abstracted to what the store tells  *)
(* apart: PENDING, EXPIRED, or the item a call wrote, named by that call.  *)
(***************************************************************************)
CONSTANTS Approvals, Calls, None,
          OldItems,   \* what an earlier process may have left under an id
          Saveable,   \* the ids on which callers use the unconditional save()
          Expiring,   \* the ids whose item has an expires_at
          Faults

(* "cancelled"    the task that runs a call is cancelled                   *)
(* "store_error"  a repository call raises and has no effect               *)
(* "lost_ack"     a repository write commits and raises                    *)
(* "crash"        the process dies and is restarted on the same repository *)
FaultKinds == {"cancelled", "store_error", "lost_ack", "crash"}

Item == {"pending", "expired"} \cup Calls

ASSUME ApprovalStoreAssumption ==
  /\ Saveable \subseteq Approvals /\ Expiring \subseteq Approvals
  /\ OldItems \subseteq {None, "pending", "expired"}
  /\ Faults \subseteq FaultKinds
  /\ None \notin Item \cup Approvals /\ "pending" \notin Calls /\ "expired" \notin Calls

VARIABLES repo,      \* the table approvals
          items,     \* the cache
          inFlight,  \* ids whose save() is under way
          evicting,  \* calls whose shielded _invalidate_cache() has not run yet
          due,       \* ids whose expires_at has passed
          call       \* the calls

vars == <<repo, items, inFlight, evicting, due, call>>

Op == {"add", "get", "list", "save", "save_if_pending"}

(* mutant: save() keeps the lock while the repository writes               *)
HoldingThroughSave == {"read", "loaded", "expire", "expired", "write", "written", "save", "saved"}

(* where a call holds the lock                                             *)
Holding == {"read", "loaded", "expire", "expired", "write", "written"}
Pc == Holding \cup {"idle", "save", "saved", "evict", "unmark", "done"}
Contents == [Approvals -> Item \cup {None}]
NoItems == [a \in Approvals |-> None]
Only(a, item) == [NoItems EXCEPT ![a] = item]

Answer == {"none", "found", "added", "saved", "refused", "error", "dead"}
CallType == [pc : Pc, op : Op, id : Approvals \cup {None}, seen : Contents, answer : Answer]
NotCalled == [pc |-> "idle", op |-> "get", id |-> None, seen |-> NoItems, answer |-> "none"]

Init ==
  /\ repo \in [Approvals -> OldItems]
  /\ items = NoItems /\ inFlight = {} /\ evicting = {} /\ due = {}
  /\ call = [c \in Calls |-> NotCalled]

----------------------------------------------------------------------------
(* The lock, the cache and the ways a call goes on.                        *)

LockFree == \A c \in Calls : call[c].pc \notin Holding

Becomes(c, k) == call' = [call EXCEPT ![c] = k]
Return(c, k, answer) ==
  Becomes(c, [k EXCEPT !.pc = "done", !.seen = NoItems, !.answer = answer])

Cache(a, item) == items' = [items EXCEPT ![a] = item]
Populated(seen) == [a \in Approvals |-> IF seen[a] # None THEN seen[a] ELSE items[a]]

(* the item a call hands to the repository's upsert                        *)
Payload(c) == CASE call[c].pc \in {"expire", "expired"} -> "expired"
                [] call[c].op = "add"                   -> "pending"
                [] OTHER                                -> c

Lapsed(seen, a) == seen[a] = "pending" /\ a \in due

(* _check_expiration_locked() of every item in hand, one after the other,  *)
(* then the rest of get(), list_items() or save_if_pending()               *)
CheckExpiration(c, k) ==
  \/ \E a \in Approvals :
       Lapsed(k.seen, a) /\ Becomes(c, [k EXCEPT !.pc = "expire", !.id = a])
  \/ /\ \A a \in Approvals : ~Lapsed(k.seen, a)
     /\ \/ k.op \in {"get", "list"} /\ Return(c, k, "found")
        \/ /\ k.op = "save_if_pending" /\ k.seen[k.id] = "pending"
           /\ Becomes(c, [k EXCEPT !.pc = "write"])
        \/ /\ k.op = "save_if_pending" /\ k.seen[k.id] # "pending"
           /\ Return(c, k, "refused")

(* save(): take the id's marker and release the lock, or give up           *)
Claim(c, k, cached) ==
  \/ /\ cached[k.id] # None /\ k.id \notin inFlight
     /\ inFlight' = inFlight \cup {k.id}
     /\ Becomes(c, [k EXCEPT !.pc = "save", !.seen = NoItems])
  \/ /\ cached[k.id] = None \/ k.id \in inFlight
     /\ Return(c, k, "refused") /\ UNCHANGED inFlight

----------------------------------------------------------------------------
(* The calls, up to their first suspension.                                *)

Calling(c, op, a) == [NotCalled EXCEPT !.pc = "read", !.op = op, !.id = a]
Enter(c) == call[c].pc = "idle" /\ LockFree /\ UNCHANGED <<repo, items, evicting, due>>

(* mutant: add() only looks into the cache                                 *)
AddUnread(c, a) ==
  /\ Enter(c) /\ UNCHANGED inFlight
  /\ \/ items[a] = None /\ Becomes(c, [Calling(c, "add", a) EXCEPT !.pc = "write"])
     \/ items[a] # None /\ Return(c, Calling(c, "add", a), "refused")

Add(c, a) ==
  /\ Enter(c) /\ UNCHANGED inFlight
  /\ \/ items[a] = None /\ Becomes(c, Calling(c, "add", a))
     \/ items[a] # None /\ Return(c, Calling(c, "add", a), "refused")

Get(c, a) ==
  /\ Enter(c) /\ UNCHANGED inFlight
  /\ LET k == Calling(c, "get", a) IN
     \/ items[a] = None /\ Becomes(c, k)
     \/ items[a] # None /\ CheckExpiration(c, [k EXCEPT !.seen = Only(a, items[a])])

ListItems(c) ==
  /\ Enter(c) /\ UNCHANGED inFlight
  /\ Becomes(c, Calling(c, "list", None))

Save(c, a) ==
  /\ Enter(c) /\ a \in Saveable
  /\ LET k == Calling(c, "save", a) IN
     \/ items[a] = None /\ Becomes(c, k) /\ UNCHANGED inFlight
     \/ items[a] # None /\ Claim(c, k, items)

(* mutant: save_if_pending() does not look at the markers                  *)
SaveIfPendingUnmarked(c, a) ==
  /\ Enter(c) /\ UNCHANGED inFlight
  /\ LET k == Calling(c, "save_if_pending", a) IN
     \/ items[a] = None /\ Becomes(c, k)
     \/ items[a] # None /\ CheckExpiration(c, [k EXCEPT !.seen = Only(a, items[a])])

SaveIfPending(c, a) ==
  /\ Enter(c) /\ UNCHANGED inFlight
  /\ LET k == Calling(c, "save_if_pending", a) IN
     \/ a \in inFlight /\ Return(c, k, "refused")
     \/ a \notin inFlight /\ items[a] = None /\ Becomes(c, k)
     \/ /\ a \notin inFlight /\ items[a] # None
        /\ CheckExpiration(c, [k EXCEPT !.seen = Only(a, items[a])])

----------------------------------------------------------------------------
(* The repository's answers, and what the calls do with them.              *)

(* a row, or for list_items() the rows the status filter lets through      *)
Answers(c) ==
  IF call[c].op # "list" THEN {Only(call[c].id, repo[call[c].id])}
  ELSE {repo, [a \in Approvals |-> IF repo[a] = "pending" THEN "pending" ELSE None]}

RepoRead(c) ==
  /\ call[c].pc = "read"
  /\ \E seen \in Answers(c) : Becomes(c, [call[c] EXCEPT !.pc = "loaded", !.seen = seen])
  /\ UNCHANGED <<repo, items, inFlight, evicting, due>>

Loaded(c) ==
  /\ call[c].pc = "loaded"
  /\ items' = Populated(call[c].seen)
  /\ LET k == call[c] IN
     \/ /\ k.op = "add" /\ k.seen[k.id] = None
        /\ Becomes(c, [k EXCEPT !.pc = "write"]) /\ UNCHANGED inFlight
     \/ k.op = "add" /\ k.seen[k.id] # None /\ Return(c, k, "refused") /\ UNCHANGED inFlight
     \/ k.op = "save" /\ Claim(c, k, Populated(k.seen))
     \/ k.op \in {"get", "list", "save_if_pending"} /\ CheckExpiration(c, k) /\ UNCHANGED inFlight
  /\ UNCHANGED <<repo, evicting, due>>

Committed == [expire |-> "expired", write |-> "written", save |-> "saved"]

RepoCommit(c) ==
  /\ call[c].pc \in DOMAIN Committed
  /\ repo' = [repo EXCEPT ![call[c].id] = Payload(c)]
  /\ Becomes(c, [call[c] EXCEPT !.pc = Committed[call[c].pc]])
  /\ UNCHANGED <<items, inFlight, evicting, due>>

Expired(c) ==
  /\ call[c].pc = "expired"
  /\ Cache(call[c].id, "expired")
  /\ CheckExpiration(c, [call[c] EXCEPT !.seen = [@ EXCEPT ![call[c].id] = "expired"]])
  /\ UNCHANGED <<repo, inFlight, evicting, due>>

Written(c) ==
  /\ call[c].pc = "written"
  /\ Cache(call[c].id, Payload(c))
  /\ Return(c, call[c], IF call[c].op = "add" THEN "added" ELSE "saved")
  /\ UNCHANGED <<repo, inFlight, evicting, due>>

(* save() takes the lock again to update the cache, and once more to drop  *)
(* its marker                                                              *)
Saved(c) ==
  /\ call[c].pc = "saved" /\ LockFree
  /\ Cache(call[c].id, c)
  /\ Becomes(c, [call[c] EXCEPT !.pc = "unmark", !.answer = "saved"])
  /\ UNCHANGED <<repo, inFlight, evicting, due>>

Unmark(c) ==
  /\ call[c].pc = "unmark" /\ LockFree
  /\ inFlight' = inFlight \ {call[c].id}
  /\ Return(c, call[c], call[c].answer)
  /\ UNCHANGED <<repo, items, evicting, due>>

(* the shielded _invalidate_cache(), and save() when it is done            *)
Evict(c) ==
  /\ c \in evicting /\ LockFree
  /\ Cache(call[c].id, None)
  /\ evicting' = evicting \ {c}
  /\ UNCHANGED <<repo, inFlight, due, call>>

Evicted(c) ==
  /\ call[c].pc = "evict" /\ c \notin evicting
  /\ Becomes(c, [call[c] EXCEPT !.pc = "unmark", !.answer = "error"])
  /\ UNCHANGED <<repo, items, inFlight, evicting, due>>

----------------------------------------------------------------------------
(* Errors, cancellation, crash, time.                                      *)

(* a call that raises: save() still has to drop its marker                 *)
Raise(c) ==
  \/ /\ call[c].pc \in Holding /\ Return(c, call[c], "error")
  \/ /\ call[c].pc \in {"save", "saved"}
     /\ Becomes(c, [call[c] EXCEPT !.pc = "unmark", !.answer = "error"])

StoreFails(c) ==
  /\ \/ "store_error" \in Faults /\ call[c].pc \in {"read"} \cup DOMAIN Committed
     \/ "lost_ack" \in Faults /\ call[c].pc \in {"expired", "written", "saved"}
  /\ Raise(c)
  /\ UNCHANGED <<repo, items, inFlight, evicting, due>>

(* mutant: save_if_pending() keeps the cached item when it is cancelled    *)
CancelHolderNoEvict(c) ==
  /\ call[c].pc \in Holding
  /\ Return(c, call[c], "error")
  /\ UNCHANGED <<items, inFlight, evicting>>

(* while it holds the lock: save_if_pending() evicts the item it may have  *)
(* replaced, the others have nothing to undo                               *)
CancelHolder(c) ==
  /\ call[c].pc \in Holding
  /\ Return(c, call[c], "error")
  /\ IF call[c].op = "save_if_pending" /\ call[c].pc \in {"write", "written"}
       THEN Cache(call[c].id, None) ELSE UNCHANGED items
  /\ UNCHANGED <<inFlight, evicting>>

(* save(), in its repository call and in the shielded eviction             *)
CancelSave(c) ==
  /\ \/ /\ call[c].pc \in {"save", "saved"}
        /\ evicting' = evicting \cup {c}
        /\ Becomes(c, [call[c] EXCEPT !.pc = "evict"])
     \/ /\ call[c].pc = "evict"
        /\ Becomes(c, [call[c] EXCEPT !.pc = "unmark", !.answer = "error"])
        /\ UNCHANGED evicting
  /\ UNCHANGED <<items, inFlight>>

(* save(), while it waits for the lock that another call holds             *)
CancelWaiter(c) ==
  /\ ~LockFree
  /\ \/ /\ call[c].pc = "saved"
        /\ Becomes(c, [call[c] EXCEPT !.pc = "unmark", !.answer = "error"])
     \/ call[c].pc = "unmark" /\ Return(c, call[c], "error")
  /\ UNCHANGED <<items, inFlight, evicting>>

Cancel(c) ==
  /\ "cancelled" \in Faults
  /\ CancelHolder(c) \/ CancelSave(c) \/ CancelWaiter(c)
  /\ UNCHANGED <<repo, due>>

Crash ==
  /\ "crash" \in Faults
  /\ items # NoItems \/ \E c \in Calls : call[c].pc \notin {"idle", "done"}
  /\ items' = NoItems /\ inFlight' = {} /\ evicting' = {}
  /\ call' = [c \in Calls |->
                IF call[c].pc \in {"idle", "done"} THEN call[c]
                ELSE [call[c] EXCEPT !.pc = "done", !.seen = NoItems, !.answer = "dead"]]
  /\ UNCHANGED <<repo, due>>

PassDeadline(a) ==
  /\ a \in Expiring \ due
  /\ due' = due \cup {a}
  /\ UNCHANGED <<repo, items, inFlight, evicting, call>>

Begin(c) ==
  \/ ListItems(c)
  \/ \E a \in Approvals : Add(c, a) \/ Get(c, a) \/ Save(c, a) \/ SaveIfPending(c, a)
Step(c) ==
  \/ RepoRead(c) \/ Loaded(c) \/ RepoCommit(c) \/ Expired(c) \/ Written(c)
  \/ Saved(c) \/ Unmark(c) \/ Evict(c) \/ Evicted(c)

Next ==
  \/ \E c \in Calls : Begin(c) \/ Step(c) \/ StoreFails(c) \/ Cancel(c)
  \/ \E a \in Approvals : PassDeadline(a)
  \/ Crash

Spec == Init /\ [][Next]_vars

(* A call that was begun is run by the event loop, and the repository      *)
(* answers.  Nobody has to call, to fail, or to let a deadline pass.       *)
FairSpec == Spec /\ \A c \in Calls : WF_vars(Step(c))

----------------------------------------------------------------------------
(* Every variable has its type.                                            *)
TypeOK ==
  /\ repo \in Contents /\ items \in Contents
  /\ inFlight \subseteq Approvals /\ evicting \subseteq Calls /\ due \subseteq Expiring
  /\ call \in [Calls -> CallType]

(* The calls that decide a, between their check and their cache update.    *)
Deciding(a) ==
  {c \in Calls : /\ call[c].id = a /\ call[c].op \in {"save", "save_if_pending"}
                 /\ call[c].pc \in {"write", "written", "save", "saved"}}

(* First writer wins: among the calls that decide an approval -- save() on *)
(* its own, save_if_pending() under the lock -- at most one is between its *)
(* check and its cache update, so no decision is based on an item that     *)
(* another decision is replacing.                                          *)
FirstWriterWins == \A a \in Approvals : \A c, d \in Deciding(a) : c = d

(* Between two calls, the cache of an id on which save() is not used       *)
(* mirrors the repository: it is missing, or equal, or the PENDING item of *)
(* an approval that expired already and that the next reader expires again.*)
(* A call that is cancelled or fails half way leaves nothing stale behind. *)
CacheAgrees ==
  LockFree => \A a \in Approvals \ Saveable :
                \/ items[a] \in {None, repo[a]}
                \/ items[a] = "pending" /\ repo[a] = "expired" /\ a \in due

(* A decision in the repository is final: not even the lazy expiration     *)
(* replaces it.                                                            *)
DecisionsAreFinal ==
  [][\A a \in Approvals : repo[a] \in Calls => repo'[a] # "expired"]_vars

(* Every call that was begun returns: nobody keeps the lock, and the       *)
(* shielded evictions and the second and third acquisition of the lock in  *)
(* save() come through.                                                    *)
CallsReturn == \A c \in Calls : call[c].pc # "idle" ~> call[c].pc = "done"

(* the approvals on which save() is not used, and the calls on them        *)
Conditional == Approvals \ Saveable
Book == INSTANCE ApprovalBook
          WITH Approvals <- Conditional,
               book <- [a \in Conditional |-> repo[a]],
               told <- [c \in Calls |-> IF call[c].pc = "done" /\ call[c].id \notin Saveable
                                         THEN call[c].answer ELSE "none"]

(* The store implements the book of approvals: whatever the cache held,    *)
(* and whichever call was cancelled, failed or cut off by a crash, an      *)
(* approval leaves PENDING once, and the answers tell who decided.         *)
ImplementsBook == Book!Spec
============================================================================
