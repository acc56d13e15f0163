------------------------- MODULE ApprovalStoreProofs -------------------------
(***************************************************************************)
(* Safety of the approval store, for any number of approvals and calls and *)
(* under every fault: one call at a time decides an approval, the cache    *)
(* agrees with the repository between calls, and the store implements the  *)
(* book of approvals.  The last two need that a repository write which     *)
(* raises did not commit.                                                  *)
(*                                                                         *)
(* The inductive invariant has two halves.  Shapes says what a call may be *)
(* doing where it is suspended, that one call holds the lock, and that     *)
(* each marker belongs to one save().  Agreement says that what the holder *)
(* of the lock has read, or is about to write, still fits the repository.  *)
(***************************************************************************)
EXTENDS ApprovalStore, TLAPS

(* where save() owns its marker                                            *)
Marked == {"save", "saved", "evict", "unmark"}

(* what a call with record k may be doing when the markers are F           *)
ShapeOf(k, F) ==
  /\ k.op = "save" => k.id \in Saveable
  /\ k.pc \in Marked => k.op = "save" /\ k.id \in F
  /\ k.pc \in Holding =>
       /\ k.op = "save" => k.pc \in {"read", "loaded"}
       /\ k.op = "add" => k.pc \in {"read", "loaded", "write", "written"}
       /\ k.op \in {"get", "list"} => k.pc \in {"read", "loaded", "expire", "expired"}
       /\ k.pc \notin {"read", "loaded"} => k.id \in Approvals
       /\ k.op # "list" => k.id \in Approvals /\ \A a \in Approvals : a # k.id => k.seen[a] = None
       /\ k.op = "save_if_pending" => k.id \notin F

OneHolder ==
  \A c, d \in Calls : call[c].pc \in Holding /\ call[d].pc \in Holding => c = d
OneMarker ==
  \A c, d \in Calls :
    call[c].pc \in Marked /\ call[d].pc \in Marked /\ call[c].id = call[d].id => c = d

Shapes ==
  /\ TypeOK /\ OneHolder /\ OneMarker
  /\ \A c \in Calls : ShapeOf(call[c], inFlight)

----------------------------------------------------------------------------
(* Shapes.                                                                 *)

(* The empty cache, the record of a call not made and a cache of one item  *)
(* have their types.                                                       *)
LEMMA Records ==
  /\ NoItems \in Contents /\ NotCalled \in CallType
  /\ \A a \in Approvals : NoItems[a] = None
  /\ \A a \in Approvals, item \in Item \cup {None} :
       /\ Only(a, item) \in Contents /\ Only(a, item)[a] = item
       /\ \A b \in Approvals : b # a => Only(a, item)[b] = None
<1>1. NoItems \in Contents /\ \A a \in Approvals : NoItems[a] = None
  BY Zenon DEF NoItems, Contents
<1>2. NotCalled \in CallType
  BY Zenon, <1>1 DEF NotCalled, CallType, Pc, Op, Answer
<1>3. ASSUME NEW a \in Approvals, NEW item \in Item \cup {None}
      PROVE  /\ Only(a, item) \in Contents /\ Only(a, item)[a] = item
             /\ \A b \in Approvals : b # a => Only(a, item)[b] = None
  BY Zenon, <1>1 DEF Only, Contents
<1> QED BY Zenon, <1>1, <1>2, <1>3

(* A step of one call keeps Shapes when its new record has a shape, when   *)
(* it takes the lock only if that is free, and when it changes the markers *)
(* by its own.                                                             *)
LEMMA CallKeepsShapes ==
  ASSUME Shapes, NEW c \in Calls, NEW k \in CallType, Becomes(c, k),
         repo' \in Contents, items' \in Contents, evicting' \subseteq Calls, due' \subseteq Expiring,
         ShapeOf(k, inFlight'),
         k.pc \in Holding \/ inFlight' # inFlight =>
           LockFree \/ call[c].pc \in Holding \/ (call[c].pc = "unmark" /\ k.pc = "done"),
         \/ /\ inFlight' = inFlight
            /\ k.pc \in Marked => call[c].pc \in Marked /\ call[c].id = k.id
         \/ /\ k.id \in Approvals \ inFlight /\ inFlight' = inFlight \cup {k.id}
            /\ k.pc = "save" /\ (LockFree \/ call[c].pc \in Holding)
         \/ inFlight' = inFlight \ {call[c].id} /\ call[c].pc = "unmark" /\ k.pc = "done"
  PROVE  Shapes'
<1>1. /\ call \in [Calls -> CallType] /\ inFlight \subseteq Approvals
      /\ call' = [call EXCEPT ![c] = k]
  BY Zenon DEF Shapes, TypeOK, Becomes
<1>2. call'[c] = k /\ \A d \in Calls : d # c => call'[d] = call[d]
  BY Zenon, <1>1
<1>3. TypeOK'
  BY Zenon, <1>1 DEF TypeOK
<1>4. Holding \cap Marked = {} /\ "done" \notin Holding \cup Marked /\ "unmark" \in Marked
      /\ "save" \in Marked
  BY Zenon DEF Holding, Marked
<1>5. OneHolder'
  BY <1>2, <1>4 DEF OneHolder, Shapes, LockFree
<1>6. OneMarker'
  BY <1>2, <1>4 DEF OneMarker, Shapes, ShapeOf
<1>7. ASSUME NEW d \in Calls, d # c PROVE ShapeOf(call[d], inFlight')
  <2>1. ShapeOf(call[d], inFlight)
    BY Zenon DEF Shapes
  <2>2. CASE inFlight' = inFlight
    BY Zenon, <2>1, <2>2
  <2>3. CASE /\ inFlight' = inFlight \cup {k.id}
             /\ LockFree \/ call[c].pc \in Holding
    <3>1. call[d].pc \notin Holding
      BY Zenon, <2>3, <1>7 DEF Shapes, OneHolder, LockFree
    <3> QED BY Zenon, <3>1, <2>1, <2>3 DEF ShapeOf
  <2>4. CASE inFlight' = inFlight \ {call[c].id} /\ call[c].pc = "unmark"
    <3>1. call[d].pc \in Marked => call[d].id # call[c].id
      BY Zenon, <2>4, <1>4, <1>7 DEF Shapes, OneMarker
    <3> QED BY Zenon, <3>1, <2>1, <2>4 DEF ShapeOf
  <2> QED BY Zenon, <2>2, <2>3, <2>4
<1>8. \A d \in Calls : ShapeOf(call'[d], inFlight')
  BY Zenon, <1>2, <1>7
<1> QED BY Zenon, <1>3, <1>5, <1>6, <1>8 DEF Shapes

(* A call that looks for expired items goes on in one of three ways.       *)
LEMMA CheckExpirationMoves ==
  ASSUME NEW c \in Calls, NEW k \in CallType, NEW F,
         k.op \in {"get", "list", "save_if_pending"},
         k.op # "list" => k.id \in Approvals /\ \A a \in Approvals : a # k.id => k.seen[a] = None,
         k.op = "save_if_pending" => k.id \notin F,
         CheckExpiration(c, k)
  PROVE  \E m \in CallType :
           /\ Becomes(c, m) /\ ShapeOf(m, F) /\ m.op = k.op
           /\ k.op # "list" => m.id = k.id
           /\ \/ /\ m.pc = "expire" /\ m.seen = k.seen /\ m.id \in Approvals
                 /\ Lapsed(k.seen, m.id)
              \/ /\ m.pc = "write" /\ m.op = "save_if_pending" /\ m.seen = k.seen
                 /\ k.seen[k.id] = "pending" /\ ~Lapsed(k.seen, k.id)
              \/ m.pc = "done" /\ m.id = k.id /\ m.answer \in {"found", "refused"}
<1>0. /\ {"expire", "write", "done"} \subseteq Pc /\ {"found", "refused"} \subseteq Answer
      /\ NoItems \in Contents
  BY Zenon, Records DEF Pc, Holding, Answer
<1>1. ASSUME NEW a \in Approvals, Lapsed(k.seen, a),
             Becomes(c, [k EXCEPT !.pc = "expire", !.id = a])
      PROVE  \E m \in CallType :
               /\ Becomes(c, m) /\ ShapeOf(m, F) /\ m.op = k.op
               /\ k.op # "list" => m.id = k.id
               /\ m.pc = "expire" /\ m.seen = k.seen /\ m.id \in Approvals /\ Lapsed(k.seen, m.id)
  <2> DEFINE m == [k EXCEPT !.pc = "expire", !.id = a]
  <2>1. m \in CallType /\ m.op = k.op /\ m.pc = "expire" /\ m.seen = k.seen /\ m.id = a
    BY Zenon, <1>0 DEF CallType
  <2>2. k.op # "list" => a = k.id
    BY Zenon, <1>1, ApprovalStoreAssumption DEF Lapsed, Item
  <2>3. ShapeOf(m, F)
    BY Zenon, <2>1, <2>2 DEF ShapeOf, Marked, Holding
  <2> QED BY Zenon, <1>1, <2>1, <2>2, <2>3
<1>2. CASE k.op = "save_if_pending" /\ k.seen[k.id] = "pending" /\ ~Lapsed(k.seen, k.id)
           /\ Becomes(c, [k EXCEPT !.pc = "write"])
  <2> DEFINE m == [k EXCEPT !.pc = "write"]
  <2>1. m \in CallType /\ m.op = k.op /\ m.pc = "write" /\ m.seen = k.seen /\ m.id = k.id
    BY Zenon, <1>0 DEF CallType
  <2>2. ShapeOf(m, F)
    BY Zenon, <1>2, <2>1 DEF ShapeOf, Marked, Holding
  <2> QED BY Zenon, <1>2, <2>1, <2>2
<1>3. ASSUME NEW answer \in {"found", "refused"}, Return(c, k, answer)
      PROVE  \E m \in CallType :
               /\ Becomes(c, m) /\ ShapeOf(m, F) /\ m.op = k.op
               /\ m.pc = "done" /\ m.id = k.id /\ m.answer \in {"found", "refused"}
  <2> DEFINE m == [k EXCEPT !.pc = "done", !.seen = NoItems, !.answer = answer]
  <2>1. m \in CallType /\ m.op = k.op /\ m.pc = "done" /\ m.id = k.id /\ m.answer = answer
    BY Zenon, <1>0, <1>3 DEF CallType
  <2>2. ShapeOf(m, F)
    BY Zenon, <2>1 DEF ShapeOf, Marked, Holding
  <2> QED BY Zenon, <1>3, <2>1, <2>2 DEF Return
<1>4. \/ \E a \in Approvals : Lapsed(k.seen, a) /\ Becomes(c, [k EXCEPT !.pc = "expire", !.id = a])
      \/ k.op = "save_if_pending" /\ k.seen[k.id] = "pending" /\ ~Lapsed(k.seen, k.id)
         /\ Becomes(c, [k EXCEPT !.pc = "write"])
      \/ Return(c, k, "found") \/ Return(c, k, "refused")
  BY Zenon DEF CheckExpiration
<1>5. CASE \E a \in Approvals : Lapsed(k.seen, a) /\ Becomes(c, [k EXCEPT !.pc = "expire", !.id = a])
  BY Zenon, <1>1, <1>5
<1>6. CASE Return(c, k, "found") \/ Return(c, k, "refused")
  BY Zenon, <1>3, <1>6
<1> QED BY Zenon, <1>2, <1>4, <1>5, <1>6

(* The places where a call may be suspended, by their names.               *)
LEMMA Names ==
  /\ Holding \subseteq Pc /\ Marked \subseteq Pc /\ {"idle", "done"} \subseteq Pc
  /\ "none" \in Answer /\ "error" \in Answer /\ "saved" \in Answer /\ "added" \in Answer
  /\ "refused" \in Answer /\ "dead" \in Answer
  /\ Holding \cap Marked = {} /\ {"idle", "done"} \cap (Holding \cup Marked) = {}
  BY Zenon DEF Pc, Holding, Marked, Answer

(* The record of a call that has just been made.                           *)
LEMMA CallingRecord ==
  ASSUME NEW c \in Calls, NEW o \in Op, NEW a \in Approvals \cup {None}
  PROVE  /\ Calling(c, o, a) \in CallType /\ Calling(c, o, a).pc = "read"
         /\ Calling(c, o, a).op = o /\ Calling(c, o, a).id = a /\ Calling(c, o, a).seen = NoItems
<1>1. NotCalled \in CallType /\ NotCalled.seen = NoItems /\ "read" \in Pc
  BY Zenon, Records DEF NotCalled, Pc, Holding
<1> QED BY Zenon, <1>1 DEF Calling, CallType

(* A call that returns has a record that is done.                          *)
LEMMA ReturnMoves ==
  ASSUME NEW c \in Calls, NEW k \in CallType, NEW x \in Answer, NEW F, Return(c, k, x),
         k.op = "save" => k.id \in Saveable
  PROVE  \E m \in CallType : /\ Becomes(c, m) /\ ShapeOf(m, F) /\ m.pc = "done"
                             /\ m.op = k.op /\ m.id = k.id /\ m.answer = x
<1> DEFINE m == [k EXCEPT !.pc = "done", !.seen = NoItems, !.answer = x]
<1>1. m \in CallType /\ m.pc = "done" /\ m.op = k.op /\ m.id = k.id /\ m.answer = x
  BY Zenon, Records, Names DEF CallType
<1>2. ShapeOf(m, F)
  BY Zenon, <1>1 DEF ShapeOf, Holding, Marked
<1> QED BY Zenon, <1>1, <1>2 DEF Return

(* save() with its item in the cache: it claims the marker, or gives up.   *)
LEMMA ClaimMoves ==
  ASSUME Shapes, NEW c \in Calls, NEW k \in CallType, NEW cached, Claim(c, k, cached),
         k.op = "save", k.id \in Saveable
  PROVE  \E m \in CallType :
           /\ Becomes(c, m) /\ ShapeOf(m, inFlight') /\ m.op = "save" /\ m.id = k.id
           /\ \/ inFlight' = inFlight /\ m.pc = "done" /\ m.answer = "refused"
              \/ m.pc = "save" /\ m.id \in Approvals \ inFlight /\ inFlight' = inFlight \cup {m.id}
<1>1. CASE inFlight' = inFlight /\ Return(c, k, "refused")
  BY <1>1, ReturnMoves, Names
<1>2. CASE /\ k.id \notin inFlight /\ inFlight' = inFlight \cup {k.id}
           /\ Becomes(c, [k EXCEPT !.pc = "save", !.seen = NoItems])
  <2> DEFINE m == [k EXCEPT !.pc = "save", !.seen = NoItems]
  <2>1. m \in CallType /\ m.pc = "save" /\ m.op = "save" /\ m.id = k.id
    BY Zenon, Records, Names DEF CallType, Marked
  <2>2. ShapeOf(m, inFlight')
    BY <1>2, <2>1 DEF ShapeOf, Holding, Marked
  <2> QED BY Zenon, <1>2, <2>1, <2>2, ApprovalStoreAssumption
<1> QED BY Zenon, <1>1, <1>2 DEF Claim

(* The first step of a call keeps the shapes.                              *)
LEMMA BeginKeepsShapes ==
  ASSUME Shapes, NEW c \in Calls, Begin(c)
  PROVE  Shapes'
<1>0. /\ items \in Contents /\ repo \in Contents /\ evicting \subseteq Calls /\ due \subseteq Expiring
      /\ \A a \in Approvals : items[a] \in Item \cup {None}
  BY Zenon DEF Shapes, TypeOK, Contents
<1>u. Enter(c) => LockFree /\ UNCHANGED <<repo, items, evicting, due>>
  BY Zenon DEF Enter
<1>1. ASSUME NEW o \in Op \ {"save"}, NEW a \in Approvals \cup {None}, Enter(c), UNCHANGED inFlight,
             Becomes(c, Calling(c, o, a)), a = None => o = "list",
             o = "save_if_pending" => a \notin inFlight
      PROVE  Shapes'
  <2> DEFINE k == Calling(c, o, a)
  <2>1. k \in CallType /\ k.pc = "read" /\ k.op = o /\ k.id = a /\ k.seen = NoItems /\ Becomes(c, k)
    BY <1>1, CallingRecord
  <2> HIDE DEF k
  <2>2. ShapeOf(k, inFlight')
    BY Zenon, <1>1, <2>1, Records DEF ShapeOf, Holding, Marked
  <2> QED BY Zenon, <1>0, <1>1, <1>u, <2>1, <2>2, CallKeepsShapes DEF Holding, Marked
<1>2. ASSUME NEW o \in Op \ {"save"}, NEW a \in Approvals, Enter(c), UNCHANGED inFlight,
             Return(c, Calling(c, o, a), "refused")
      PROVE  Shapes'
  <2>1. PICK m \in CallType : Becomes(c, m) /\ ShapeOf(m, inFlight') /\ m.pc = "done"
    BY <1>2, CallingRecord, ReturnMoves, Names
  <2> QED BY Zenon, <1>0, <1>2, <1>u, <2>1, CallKeepsShapes, Names
<1>3. ASSUME NEW o \in {"get", "save_if_pending"}, NEW a \in Approvals, Enter(c), UNCHANGED inFlight,
             o = "save_if_pending" => a \notin inFlight,
             CheckExpiration(c, [Calling(c, o, a) EXCEPT !.seen = Only(a, items[a])])
      PROVE  Shapes'
  <2> DEFINE k == [Calling(c, o, a) EXCEPT !.seen = Only(a, items[a])]
  <2>1. PICK k0 \in CallType : k0 = Calling(c, o, a) /\ k0.op = o /\ k0.id = a
    BY CallingRecord DEF Op
  <2>3. k = [k0 EXCEPT !.seen = Only(a, items[a])]
    BY Zenon, <2>1
  <2>4. /\ k \in CallType /\ k.op = o /\ k.id = a /\ k.seen = Only(a, items[a])
    BY Zenon, <1>0, <2>1, <2>3, Records DEF CallType
  <2>5. CheckExpiration(c, k) /\ \A b \in Approvals : b # a => k.seen[b] = None
    BY <1>0, <1>3, <2>4, Records
  <2> HIDE DEF k
  <2>2. PICK m \in CallType : Becomes(c, m) /\ ShapeOf(m, inFlight') /\ m.pc \in {"expire", "write", "done"}
    BY <1>3, <2>4, <2>5, CheckExpirationMoves, SMTT(30)
  <2> QED BY Zenon, <1>0, <1>3, <1>u, <2>2, CallKeepsShapes DEF Marked
<1>4. CASE ListItems(c)
  BY Zenon, <1>1, <1>4 DEF ListItems, Op
<1>5. ASSUME NEW a \in Approvals, Add(c, a) PROVE Shapes'
  BY Zenon, <1>1, <1>2, <1>5, ApprovalStoreAssumption DEF Add, Op
<1>6. ASSUME NEW a \in Approvals, Get(c, a) PROVE Shapes'
  BY Zenon, <1>1, <1>3, <1>6, ApprovalStoreAssumption DEF Get, Op
<1>7. ASSUME NEW a \in Approvals, SaveIfPending(c, a) PROVE Shapes'
  BY Zenon, <1>1, <1>2, <1>3, <1>7, ApprovalStoreAssumption DEF SaveIfPending, Op
<1>8. ASSUME NEW a \in Approvals, Save(c, a) PROVE Shapes'
  <2> DEFINE k == Calling(c, "save", a)
  <2>1. a \in Saveable /\ Enter(c) /\ k \in CallType /\ k.pc = "read" /\ k.op = "save" /\ k.id = a
        /\ k.seen = NoItems
    BY <1>8, CallingRecord DEF Save, Op
  <2> HIDE DEF k
  <2>2. CASE Becomes(c, k) /\ UNCHANGED inFlight
    <3>1. ShapeOf(k, inFlight')
      BY Zenon, <2>1, Records DEF ShapeOf, Holding, Marked
    <3> QED BY Zenon, <1>0, <1>u, <2>1, <2>2, <3>1, CallKeepsShapes DEF Holding, Marked
  <2>3. CASE Claim(c, k, items)
    <3>1. PICK m \in CallType :
            /\ Becomes(c, m) /\ ShapeOf(m, inFlight') /\ m.op = "save" /\ m.id = k.id
            /\ \/ inFlight' = inFlight /\ m.pc = "done" /\ m.answer = "refused"
               \/ m.pc = "save" /\ m.id \in Approvals \ inFlight /\ inFlight' = inFlight \cup {m.id}
      BY Zenon, <2>1, <2>3, ClaimMoves
    <3> QED BY Zenon, <1>0, <1>u, <2>1, <3>1, CallKeepsShapes, Names
  <2> QED BY Zenon, <1>8, <2>2, <2>3 DEF Save, k
<1> QED BY Zenon, <1>4, <1>5, <1>6, <1>7, <1>8 DEF Begin

(* The repository answers, commits, or fails: only the place of the call   *)
(* and what it has read change.                                            *)
LEMMA RepoKeepsShapes ==
  ASSUME Shapes, NEW c \in Calls, RepoRead(c) \/ RepoCommit(c)
  PROVE  Shapes'
<1>0. /\ items \in Contents /\ repo \in Contents /\ evicting \subseteq Calls /\ due \subseteq Expiring
      /\ call[c] \in CallType /\ ShapeOf(call[c], inFlight)
  BY Zenon DEF Shapes, TypeOK
<1>k. PICK k \in CallType : k = call[c]
  BY Zenon, <1>0
<1>1. CASE RepoRead(c)
  <2>1. PICK seen \in Answers(c) : Becomes(c, [k EXCEPT !.pc = "loaded", !.seen = seen])
    BY Zenon, <1>1, <1>k DEF RepoRead
  <2>2. k.pc = "read" /\ UNCHANGED <<repo, items, inFlight, evicting, due>>
    BY Zenon, <1>1, <1>k DEF RepoRead
  <2>3. /\ seen \in Contents
        /\ k.op # "list" => \A a \in Approvals : a # k.id => seen[a] = None
    <3>1. CASE k.op # "list"
      <4>1. k.id \in Approvals /\ seen = Only(k.id, repo[k.id]) /\ repo[k.id] \in Item \cup {None}
        BY Zenon, <1>0, <1>k, <2>2, <3>1 DEF ShapeOf, Answers, Holding, Contents
      <4> QED BY <4>1, Records
    <3>2. CASE k.op = "list"
      BY Zenon, <1>0, <1>k, <3>2 DEF Answers, Contents, Item
    <3> QED BY Zenon, <3>1, <3>2
  <2> DEFINE m == [k EXCEPT !.pc = "loaded", !.seen = seen]
  <2>4. m \in CallType /\ m.pc = "loaded" /\ m.op = k.op /\ m.id = k.id /\ m.seen = seen
    BY Zenon, <2>3, Names DEF CallType, Holding
  <2> HIDE DEF m
  <2>5. ShapeOf(m, inFlight')
    BY Zenon, <1>0, <1>k, <2>2, <2>3, <2>4 DEF ShapeOf, Holding, Marked
  <2>6. Becomes(c, m)
    BY Zenon, <2>1 DEF m
  <2> QED BY Zenon, <1>0, <1>k, <2>2, <2>4, <2>5, <2>6, CallKeepsShapes DEF Holding, Marked
<1>2. CASE RepoCommit(c)
  <2> DEFINE p == Committed[k.pc]
             m == [k EXCEPT !.pc = p]
  <2>1. /\ k.pc \in {"expire", "write", "save"} /\ UNCHANGED <<items, inFlight, evicting, due>>
        /\ repo' = [repo EXCEPT ![k.id] = Payload(c)] /\ Becomes(c, m)
    BY Zenon, <1>2, <1>k DEF RepoCommit, Committed
  <2>2. /\ k.pc = "expire" => p = "expired"
        /\ k.pc = "write" => p = "written"
        /\ k.pc = "save" => p = "saved"
    BY DEF Committed
  <2> HIDE DEF p
  <2>3. m \in CallType /\ m.pc = p /\ m.op = k.op /\ m.id = k.id /\ m.seen = k.seen
    BY Zenon, <2>1, <2>2, Names DEF CallType, Holding, Marked
  <2> HIDE DEF m
  <2>4. ShapeOf(m, inFlight')
    BY <1>0, <1>k, <2>1, <2>2, <2>3 DEF ShapeOf, Holding, Marked
  <2>5. repo' \in Contents
    BY Zenon, <1>0, <2>1 DEF Contents, Item, Payload
  <2> QED BY Zenon, <1>0, <1>k, <2>1, <2>2, <2>3, <2>4, <2>5, CallKeepsShapes DEF Holding, Marked
<1> QED BY Zenon, <1>1, <1>2

(* Going on with what was read keeps the shapes.                           *)
LEMMA LoadedKeepsShapes ==
  ASSUME Shapes, NEW c \in Calls, Loaded(c)
  PROVE  Shapes'
<1>0. /\ items \in Contents /\ repo \in Contents /\ evicting \subseteq Calls /\ due \subseteq Expiring
      /\ call[c] \in CallType /\ ShapeOf(call[c], inFlight) /\ inFlight \subseteq Approvals
  BY Zenon DEF Shapes, TypeOK
<1>k. PICK k \in CallType : k = call[c]
  BY Zenon, <1>0
<1>1. k.pc = "loaded" /\ items' = Populated(k.seen) /\ UNCHANGED <<repo, evicting, due>>
  BY Zenon, <1>k DEF Loaded
<1>2. items' \in Contents
  BY Zenon, <1>0, <1>1 DEF CallType, Contents, Populated
<1>3. ASSUME NEW m \in CallType, Becomes(c, m), ShapeOf(m, inFlight'), inFlight' = inFlight, m.pc \notin Marked
      PROVE  Shapes'
  BY Zenon, <1>0, <1>k, <1>1, <1>2, <1>3, CallKeepsShapes DEF Holding
<1>4. CASE k.op = "add" /\ k.seen[k.id] = None /\ Becomes(c, [k EXCEPT !.pc = "write"]) /\ UNCHANGED inFlight
  <2> DEFINE m == [k EXCEPT !.pc = "write"]
  <2>1. m \in CallType /\ m.pc = "write" /\ m.op = k.op /\ m.id = k.id /\ m.seen = k.seen /\ Becomes(c, m)
    BY Zenon, <1>4, Names DEF CallType, Holding
  <2> HIDE DEF m
  <2>2. ShapeOf(m, inFlight')
    BY <1>0, <1>k, <1>1, <1>4, <2>1 DEF ShapeOf, Holding, Marked
  <2> QED BY Zenon, <1>3, <1>4, <2>1, <2>2 DEF Marked
<1>5. CASE k.op = "add" /\ Return(c, k, "refused") /\ UNCHANGED inFlight
  BY <1>3, <1>5, ReturnMoves, Names
<1>6. CASE k.op = "save" /\ Claim(c, k, Populated(k.seen))
  <2>1. k.id \in Saveable
    BY Zenon, <1>0, <1>k, <1>6 DEF ShapeOf
  <2>2. PICK m \in CallType :
          /\ Becomes(c, m) /\ ShapeOf(m, inFlight') /\ m.op = "save" /\ m.id = k.id
          /\ \/ inFlight' = inFlight /\ m.pc = "done" /\ m.answer = "refused"
             \/ m.pc = "save" /\ m.id \in Approvals \ inFlight /\ inFlight' = inFlight \cup {m.id}
    BY <1>6, <2>1, ClaimMoves
  <2> QED BY Zenon, <1>0, <1>k, <1>1, <1>2, <2>2, CallKeepsShapes, Names DEF Holding
<1>7. CASE k.op \in {"get", "list", "save_if_pending"} /\ CheckExpiration(c, k) /\ UNCHANGED inFlight
  <2>1. PICK m \in CallType : Becomes(c, m) /\ ShapeOf(m, inFlight') /\ m.pc \in {"expire", "write", "done"}
    <3>1. /\ k.op # "list" => k.id \in Approvals /\ \A a \in Approvals : a # k.id => k.seen[a] = None
          /\ k.op = "save_if_pending" => k.id \notin inFlight'
      BY Zenon, <1>0, <1>k, <1>1, <1>7 DEF ShapeOf, Holding
    <3> QED BY <1>7, <3>1, CheckExpirationMoves
  <2> QED BY Zenon, <1>3, <1>7, <2>1 DEF Marked
<1> QED BY Zenon, <1>k, <1>4, <1>5, <1>6, <1>7 DEF Loaded

(* save() goes on from one place where it owns its marker to another.      *)
LEMMA MarkedKeepsShapes ==
  ASSUME Shapes, NEW c \in Calls, NEW m, m \in CallType, Becomes(c, m),
         call[c].pc \in Marked, m.pc \in Marked, m.op = call[c].op, m.id = call[c].id,
         inFlight' = inFlight, repo' = repo, due' = due, items' \in Contents, evicting' \subseteq Calls
  PROVE  Shapes'
<1>1. ShapeOf(call[c], inFlight) /\ repo' \in Contents /\ due' \subseteq Expiring
  BY Zenon DEF Shapes, TypeOK
<1>2. ShapeOf(m, inFlight') /\ m.pc \notin Holding
  BY Zenon, <1>1, Names DEF ShapeOf
<1> QED BY Zenon, <1>1, <1>2, CallKeepsShapes

(* A call that does not own a marker returns.                              *)
LEMMA ReturnKeepsShapes ==
  ASSUME Shapes, NEW c \in Calls, NEW x \in Answer, Return(c, call[c], x),
         inFlight' = inFlight \/ (call[c].pc = "unmark" /\ inFlight' = inFlight \ {call[c].id}),
         repo' = repo, due' = due, items' \in Contents, evicting' \subseteq Calls
  PROVE  Shapes'
<1>1. /\ ShapeOf(call[c], inFlight) /\ repo' \in Contents /\ due' \subseteq Expiring
      /\ call[c] \in CallType
  BY Zenon DEF Shapes, TypeOK
<1>2. call[c].op = "save" => call[c].id \in Saveable
  BY Zenon, <1>1 DEF ShapeOf
<1>3. PICK m \in CallType : Becomes(c, m) /\ ShapeOf(m, inFlight') /\ m.pc = "done"
  BY <1>1, <1>2, ReturnMoves, SMTT(30)
<1> QED BY Zenon, <1>1, <1>3, CallKeepsShapes, Names

(* Every step of a call without a fault keeps the shapes ...               *)
LEMMA StepKeepsShapes ==
  ASSUME Shapes, NEW c \in Calls, Step(c)
  PROVE  Shapes'
<1>0. /\ items \in Contents /\ repo \in Contents /\ evicting \subseteq Calls /\ due \subseteq Expiring
      /\ call \in [Calls -> CallType] /\ ShapeOf(call[c], inFlight) /\ inFlight \subseteq Approvals
  BY Zenon DEF Shapes, TypeOK
<1>i. ASSUME NEW a, NEW item \in Item \cup {None}, Cache(a, item) PROVE items' \in Contents
  BY Zenon, <1>0, <1>i DEF Cache, Contents
<1>k. PICK k \in CallType : k = call[c]
  BY Zenon, <1>0
<1>1. CASE Expired(c)
  <2> DEFINE seen == [k.seen EXCEPT ![k.id] = "expired"]
             n == [k EXCEPT !.seen = seen]
  <2>1. /\ k.pc = "expired" /\ Cache(k.id, "expired") /\ CheckExpiration(c, n)
        /\ UNCHANGED <<repo, inFlight, evicting, due>>
    BY Zenon, <1>1, <1>k DEF Expired, CallType
  <2>2. seen \in Contents /\ \A a \in Approvals : a # k.id => seen[a] = k.seen[a]
    BY Zenon DEF CallType, Contents, Item
  <2> HIDE DEF seen
  <2>3. n \in CallType /\ n.op = k.op /\ n.id = k.id /\ n.seen = seen
    BY Zenon, <2>2 DEF CallType
  <2> HIDE DEF n
  <2>4. /\ k.op \in {"get", "list", "save_if_pending"}
        /\ k.op # "list" => k.id \in Approvals /\ \A a \in Approvals : a # k.id => seen[a] = None
        /\ k.op = "save_if_pending" => k.id \notin inFlight'
    BY <1>0, <1>k, <2>1, <2>2 DEF ShapeOf, Holding, CallType, Op
  <2>5. PICK m \in CallType : Becomes(c, m) /\ ShapeOf(m, inFlight') /\ m.pc \in {"expire", "write", "done"}
    BY <2>1, <2>3, <2>4, CheckExpirationMoves
  <2>6. items' \in Contents
    BY Zenon, <1>i, <2>1 DEF Item
  <2> QED BY Zenon, <1>0, <1>k, <2>1, <2>5, <2>6, CallKeepsShapes DEF Holding, Marked
<1>2. CASE Written(c)
  <2>1. /\ Cache(k.id, Payload(c)) /\ UNCHANGED <<repo, inFlight, evicting, due>>
        /\ Return(c, call[c], IF call[c].op = "add" THEN "added" ELSE "saved")
    BY Zenon, <1>2, <1>k DEF Written
  <2>2. items' \in Contents
    BY Zenon, <1>i, <2>1 DEF Item, Payload
  <2> QED BY Zenon, <1>0, <2>1, <2>2, ReturnKeepsShapes, Names
<1>3. CASE Saved(c)
  <2> DEFINE m == [k EXCEPT !.pc = "unmark", !.answer = "saved"]
  <2>1. /\ k.pc = "saved" /\ Cache(k.id, c) /\ Becomes(c, m)
        /\ UNCHANGED <<repo, inFlight, evicting, due>>
    BY Zenon, <1>3, <1>k DEF Saved
  <2>2. m \in CallType /\ m.pc = "unmark" /\ m.op = k.op /\ m.id = k.id
    BY Zenon, Names DEF CallType, Marked
  <2> HIDE DEF m
  <2>3. items' \in Contents
    BY Zenon, <1>i, <2>1 DEF Item
  <2> QED BY Zenon, <1>0, <1>k, <2>1, <2>2, <2>3, MarkedKeepsShapes DEF Marked
<1>4. CASE Unmark(c)
  BY Zenon, <1>0, <1>4, ReturnKeepsShapes DEF Unmark, CallType
<1>5. CASE Evict(c)
  <2>1. /\ Cache(k.id, None) /\ evicting' \subseteq Calls /\ UNCHANGED <<repo, inFlight, due, call>>
    BY Zenon, <1>0, <1>5, <1>k DEF Evict
  <2>2. items' \in Contents
    BY Zenon, <1>i, <2>1
  <2>3. TypeOK'
    BY Zenon, <1>0, <2>1, <2>2 DEF TypeOK
  <2> QED BY Zenon, <2>1, <2>3 DEF Shapes, OneHolder, OneMarker
<1>6. CASE Evicted(c)
  <2> DEFINE m == [k EXCEPT !.pc = "unmark", !.answer = "error"]
  <2>1. /\ k.pc = "evict" /\ Becomes(c, m) /\ UNCHANGED <<repo, items, inFlight, evicting, due>>
    BY Zenon, <1>6, <1>k DEF Evicted
  <2>2. m \in CallType /\ m.pc = "unmark" /\ m.op = k.op /\ m.id = k.id
    BY Zenon, Names DEF CallType, Marked
  <2> HIDE DEF m
  <2> QED BY Zenon, <1>0, <1>k, <2>1, <2>2, MarkedKeepsShapes DEF Marked
<1> QED BY Zenon, <1>1, <1>2, <1>3, <1>4, <1>5, <1>6, RepoKeepsShapes, LoadedKeepsShapes DEF Step

(* ... and so does a fault that one call meets.                            *)
LEMMA FaultKeepsShapes ==
  ASSUME Shapes, NEW c \in Calls, StoreFails(c) \/ Cancel(c)
  PROVE  Shapes'
<1>0. /\ items \in Contents /\ repo \in Contents /\ evicting \subseteq Calls /\ due \subseteq Expiring
      /\ call \in [Calls -> CallType] /\ ShapeOf(call[c], inFlight) /\ inFlight \subseteq Approvals
  BY Zenon DEF Shapes, TypeOK
<1>k. PICK k \in CallType : k = call[c]
  BY Zenon, <1>0
<1>u. /\ StoreFails(c) => UNCHANGED <<repo, items, inFlight, evicting, due>>
      /\ Cancel(c) => UNCHANGED <<repo, inFlight, due>>
  BY Zenon DEF StoreFails, Cancel, CancelHolder, CancelSave, CancelWaiter
<1>i. items' \in Contents /\ evicting' \subseteq Calls
  BY Zenon, <1>0 DEF StoreFails, Cancel, CancelHolder, CancelSave, CancelWaiter, Cache, Contents
<1>1. CASE Return(c, call[c], "error")
  BY Zenon, <1>0, <1>1, <1>i, <1>u, ReturnKeepsShapes, Names
<1>2. CASE k.pc \in Marked /\ Becomes(c, [k EXCEPT !.pc = "unmark", !.answer = "error"])
  <2> DEFINE m == [k EXCEPT !.pc = "unmark", !.answer = "error"]
  <2>2. m \in CallType /\ m.pc = "unmark" /\ m.op = k.op /\ m.id = k.id /\ Becomes(c, m)
    BY Zenon, <1>2, Names DEF CallType, Marked
  <2> HIDE DEF m
  <2> QED BY Zenon, <1>0, <1>2, <1>i, <1>k, <1>u, <2>2, MarkedKeepsShapes DEF Marked
<1>3. CASE k.pc \in Marked /\ Becomes(c, [k EXCEPT !.pc = "evict"])
  <2> DEFINE m == [k EXCEPT !.pc = "evict"]
  <2>2. m \in CallType /\ m.pc = "evict" /\ m.op = k.op /\ m.id = k.id /\ Becomes(c, m)
    BY Zenon, <1>3, Names DEF CallType, Marked
  <2> HIDE DEF m
  <2> QED BY Zenon, <1>0, <1>3, <1>i, <1>k, <1>u, <2>2, MarkedKeepsShapes DEF Marked
<1> QED BY Zenon, <1>1, <1>2, <1>3, <1>k
        DEF StoreFails, Raise, Cancel, CancelHolder, CancelSave, CancelWaiter, Marked

(* A crash ends every call, and drops every marker.                        *)
LEMMA CrashKeepsShapes ==
  ASSUME Shapes, Crash
  PROVE  /\ Shapes' /\ \A c \in Calls : call'[c].pc \in {"idle", "done"}
         /\ \A c \in Calls : call'[c].op = call[c].op /\ call'[c].id = call[c].id
         /\ \A c \in Calls : \/ call'[c] = call[c]
                             \/ /\ call[c].pc \notin {"idle", "done"}
                                /\ call'[c].pc = "done" /\ call'[c].answer = "dead"
<1>0. /\ repo \in Contents /\ due \subseteq Expiring /\ call \in [Calls -> CallType]
      /\ \A c \in Calls : ShapeOf(call[c], inFlight)
  BY Zenon DEF Shapes, TypeOK
<1>1. /\ items' = NoItems /\ inFlight' = {} /\ evicting' = {} /\ repo' = repo /\ due' = due
      /\ call' = [c \in Calls |->
                    IF call[c].pc \in {"idle", "done"} THEN call[c]
                    ELSE [call[c] EXCEPT !.pc = "done", !.seen = NoItems, !.answer = "dead"]]
  BY Zenon DEF Crash
<1>2. ASSUME NEW c \in Calls
      PROVE  /\ call'[c] \in CallType /\ call'[c].pc \in {"idle", "done"}
             /\ call'[c].op = call[c].op /\ call'[c].id = call[c].id
             /\ \/ call'[c] = call[c]
                \/ /\ call[c].pc \notin {"idle", "done"}
                   /\ call'[c].pc = "done" /\ call'[c].answer = "dead"
  <2>1. PICK k \in CallType : k = call[c]
    BY Zenon, <1>0
  <2>2. CASE k.pc \in {"idle", "done"}
    BY Zenon, <1>1, <2>1, <2>2
  <2>3. CASE k.pc \notin {"idle", "done"}
    <3> DEFINE m == [k EXCEPT !.pc = "done", !.seen = NoItems, !.answer = "dead"]
    <3>1. m \in CallType /\ m.pc = "done" /\ m.op = k.op /\ m.id = k.id /\ m.answer = "dead"
      BY Zenon, Records, Names DEF CallType
    <3>2. call'[c] = m
      BY Zenon, <1>1, <2>1, <2>3
    <3> HIDE DEF m
    <3> QED BY Zenon, <2>1, <2>3, <3>1, <3>2
  <2> QED BY Zenon, <2>2, <2>3
<1>3. TypeOK'
  <2>1. call' \in [Calls -> CallType]
    <3>1. call' = [c \in Calls |-> call'[c]]
      BY Zenon, <1>1
    <3> QED BY Zenon, <1>2, <3>1
  <2> QED BY Zenon, <1>0, <1>1, <2>1, Records DEF TypeOK
<1>4. \A c \in Calls : ShapeOf(call'[c], inFlight')
  BY <1>0, <1>2, Names DEF ShapeOf
<1>5. OneHolder' /\ OneMarker'
  BY Zenon, <1>2, Names DEF OneHolder, OneMarker
<1> QED BY Zenon, <1>2, <1>3, <1>4, <1>5 DEF Shapes

(* The shapes hold when the process starts ...                             *)
LEMMA InitHasShapes == Init => Shapes
<1> SUFFICES ASSUME Init PROVE Shapes
  BY Zenon
<1>1. TypeOK
  <2>1. repo \in Contents
    BY ApprovalStoreAssumption DEF Init, Contents, Item
  <2> QED BY Zenon, <2>1, Records DEF Init, TypeOK
<1>2. \A c \in Calls : call[c].pc = "idle" /\ call[c].op = "get"
  BY Zenon DEF Init, NotCalled
<1>3. \A c \in Calls : ShapeOf(call[c], inFlight)
  BY Zenon, <1>2, Names DEF ShapeOf
<1>4. OneHolder /\ OneMarker
  BY Zenon, <1>2, Names DEF OneHolder, OneMarker
<1> QED BY Zenon, <1>1, <1>3, <1>4 DEF Shapes

(* ... every step keeps them ...                                           *)
LEMMA NextKeepsShapes == Shapes /\ [Next]_vars => Shapes'
<1> SUFFICES ASSUME Shapes, [Next]_vars PROVE Shapes'
  BY Zenon
<1>1. ASSUME NEW a \in Approvals, PassDeadline(a) PROVE Shapes'
  <2>1. TypeOK'
    BY Zenon, <1>1 DEF PassDeadline, Shapes, TypeOK
  <2> QED BY Zenon, <1>1, <2>1 DEF PassDeadline, Shapes, OneHolder, OneMarker
<1>2. CASE UNCHANGED vars
  <2>1. TypeOK'
    BY Zenon, <1>2 DEF vars, Shapes, TypeOK
  <2> QED BY Zenon, <1>2, <2>1 DEF vars, Shapes, OneHolder, OneMarker
<1> QED BY Zenon, <1>1, <1>2, BeginKeepsShapes, StepKeepsShapes, FaultKeepsShapes,
           CrashKeepsShapes DEF Next

(* ... so they hold always.                                                *)
LEMMA ShapesHold == Spec => []Shapes
  BY InitHasShapes, NextKeepsShapes, PTL DEF Spec


----------------------------------------------------------------------------
(* a copy of an item that the repository holds, or held until it expired   *)
Current(item, a) ==
  item = repo[a] \/ (item = "pending" /\ repo[a] = "expired" /\ a \in due)

(* what call c with record k has read or is about to write fits            *)
Fits(c, k) ==
  /\ k.pc = "loaded" => \A a \in Conditional : k.seen[a] \in {None, repo[a]}
  /\ k.pc = "loaded" /\ k.op # "list" /\ k.id \in Conditional => k.seen[k.id] = repo[k.id]
  /\ k.pc \in {"expire", "expired"} =>
       k.id \in due /\ \A a \in Conditional : k.seen[a] = None \/ Current(k.seen[a], a)
  /\ k.id \in Conditional =>
       /\ k.pc = "expire" => repo[k.id] \in {"pending", "expired"}
       /\ k.pc = "expired" => repo[k.id] = "expired"
       /\ k.pc = "write" => repo[k.id] = IF k.op = "add" THEN None ELSE "pending"
       /\ k.pc = "written" => repo[k.id] = IF k.op = "add" THEN "pending" ELSE c

(* a decision in the repository was written by its own call                *)
WrittenBy(c, k) ==
  \A a \in Conditional :
    repo[a] = c => k.id = a /\ k.op = "save_if_pending" /\ k.pc \in {"written", "done"}

(* the cached item of a fits, unless its decision is being cached          *)
Uncached(a) ==
  \E c \in Calls : /\ call[c].id = a /\ call[c].op = "save_if_pending"
                   /\ call[c].pc = "written"
CacheFits == \A a \in Conditional : items[a] = None \/ Current(items[a], a) \/ Uncached(a)

Agreement ==
  /\ \A c \in Calls : Fits(c, call[c]) /\ WrittenBy(c, call[c])
  /\ CacheFits

----------------------------------------------------------------------------
(* Agreement, and the steps of the book.                                   *)

BookStep == [Book!Next]_(Book!bookVars)

(* What the assumptions on the constants tell apart.                       *)
LEMMA Apart == /\ None \notin Calls /\ None # "pending" /\ None # "expired"
               /\ "pending" \notin Calls /\ "expired" \notin Calls
               /\ Conditional \subseteq Approvals /\ Conditional \cap Saveable = {}
  BY Zenon, ApprovalStoreAssumption DEF Item, Conditional

(* Fits looks at the repository on Conditional only, and keeps holding when*)
(* deadlines pass ...                                                      *)
LEMMA FitsFrame ==
  ASSUME NEW d, NEW k, Fits(d, k), due \subseteq due', \A a \in Conditional : repo'[a] = repo[a]
  PROVE  Fits(d, k)'
<1>1. ASSUME NEW a \in Conditional, NEW x, Current(x, a) PROVE Current(x, a)'
  BY Zenon, <1>1 DEF Current
<1> QED BY <1>1 DEF Fits

(* ... and so does WrittenBy.                                              *)
LEMMA WrittenByFrame ==
  ASSUME NEW d, NEW k, WrittenBy(d, k), \A a \in Conditional : repo'[a] = repo[a]
  PROVE  WrittenBy(d, k)'
  BY Zenon DEF WrittenBy

(* A step of call c that leaves the repository alone.                      *)
LEMMA MoveAgrees ==
  ASSUME Shapes, Agreement, NEW c \in Calls, NEW m \in CallType, Becomes(c, m),
         repo' = repo, due' = due, items' \in Contents,
         call[c].pc # "done", m.pc # "written", Fits(c, m),
         call[c].pc = "written" => m.pc = "done" /\ m.id = call[c].id /\ m.op = call[c].op,
         \A a \in Conditional : items'[a] \in {None, items[a]} \/ Current(items'[a], a),
         call[c].pc = "written" /\ call[c].op = "save_if_pending" /\ call[c].id \in Conditional =>
           items'[call[c].id] = None \/ Current(items'[call[c].id], call[c].id),
         m.pc = "done" /\ m.id \notin Saveable =>
           /\ m.answer \in {"saved", "refused", "added", "found", "error"}
           /\ m.answer = "refused" => call[c].pc # "written"
           /\ m.answer = "saved" => call[c].pc = "written" /\ call[c].op # "add"
  PROVE  Agreement' /\ BookStep
<1>1. /\ call \in [Calls -> CallType] /\ call' = [call EXCEPT ![c] = m]
      /\ call'[c] = m /\ \A d \in Calls : d # c => call'[d] = call[d]
  BY Zenon DEF Shapes, TypeOK, Becomes
<1>2. (\A d \in Calls : Fits(d, call[d]))'
  <2>1. \A d \in Calls : Fits(d, call[d])
    BY Zenon DEF Agreement
  <2>2. \A d \in Calls : Fits(d, call'[d])
    BY Zenon, <1>1, <2>1
  <2> QED BY Zenon, <2>2, FitsFrame
<1>3. (\A d \in Calls : WrittenBy(d, call[d]))'
  <2>1. \A d \in Calls : WrittenBy(d, call[d])
    BY Zenon DEF Agreement
  <2>2. WrittenBy(c, m)
    BY Zenon, <2>1 DEF WrittenBy
  <2>3. \A d \in Calls : WrittenBy(d, call'[d])
    BY Zenon, <1>1, <2>1, <2>2
  <2> QED BY Zenon, <2>3, WrittenByFrame
<1>4. CacheFits'
  <2> SUFFICES ASSUME NEW a \in Conditional
               PROVE  items'[a] = None \/ Current(items'[a], a) \/ Uncached(a)'
    BY Zenon DEF CacheFits, Current
  <2>1. items[a] = None \/ Current(items[a], a) \/ Uncached(a)
    BY Zenon DEF Agreement, CacheFits
  <2>2. CASE Uncached(a) /\ items'[a] = items[a]
    <3>1. PICK d \in Calls : call[d].id = a /\ call[d].op = "save_if_pending" /\ call[d].pc = "written"
      BY Zenon, <2>2 DEF Uncached
    <3>2. CASE d = c
      BY Zenon, <3>1, <3>2
    <3>3. CASE d # c
      BY Zenon, <1>1, <3>1, <3>3 DEF Uncached
    <3> QED BY Zenon, <3>2, <3>3
  <2> QED BY Zenon, <2>1, <2>2
<1>5. BookStep
  <2>1. Book!bookVars' = Book!bookVars \/ Book!Next
    <3> DEFINE told == [d \in Calls |-> IF call[d].pc = "done" /\ call[d].id \notin Saveable
                                         THEN call[d].answer ELSE "none"]
               book == [a \in Conditional |-> repo[a]]
    <3>1. book' = book /\ told[c] = "none" /\ \A d \in Calls : d # c => told'[d] = told[d]
      BY Zenon, <1>1
    <3>2. CASE m.pc # "done" \/ m.id \in Saveable
      <4>1. told' = told
        BY Zenon, <1>1, <3>1, <3>2
      <4> QED BY Zenon, <3>1, <4>1 DEF Book!bookVars
    <3>3. CASE m.pc = "done" /\ m.id \notin Saveable
      <4>1. told' = [told EXCEPT ![c] = m.answer]
        BY Zenon, <1>1, <3>1, <3>3
      <4>2. m.answer = "saved" => \E a \in Conditional : book[a] = c
        <5>1. SUFFICES ASSUME m.answer = "saved" PROVE \E a \in Conditional : book[a] = c
          BY Zenon
        <5>2. call[c].pc = "written" /\ call[c].op # "add" /\ call[c].id = m.id /\ m.id \in Approvals
          BY Zenon, <3>3, <5>1 DEF Shapes, ShapeOf, Holding
        <5>3. m.id \in Conditional /\ Fits(c, call[c])
          BY Zenon, <3>3, <5>2 DEF Conditional, Agreement
        <5> QED BY Zenon, <5>2, <5>3 DEF Fits
      <4>3. m.answer = "refused" => \A a \in Conditional : book[a] # c
        BY Zenon, <3>3 DEF Agreement, WrittenBy
      <4>4. Book!Answer(c, m.answer)
        BY Zenon, <3>1, <4>1, <4>2, <4>3 DEF Book!Answer
      <4> QED BY Zenon, <3>3, <4>4 DEF Book!Next
    <3> QED BY Zenon, <3>2, <3>3
  <2> QED BY Zenon, <2>1 DEF BookStep
<1> QED BY Zenon, <1>2, <1>3, <1>4, <1>5 DEF Agreement

(* A step after which the call has nothing in hand that has to fit.        *)
LEMMA RestFits ==
  ASSUME NEW c \in Calls, NEW m \in CallType, m.pc \in {"idle", "read", "done"} \cup Marked
  PROVE  Fits(c, m) /\ m.pc # "written"
  BY Zenon DEF Fits, Marked

(* A call that returns keeps the agreement and answers as the book does.   *)
LEMMA ReturnAgrees ==
  ASSUME Shapes, Agreement, NEW c \in Calls, NEW k \in CallType, NEW x \in Answer, Return(c, k, x),
         repo' = repo, due' = due, items' \in Contents, call[c].pc # "done",
         call[c].pc = "written" => k.id = call[c].id /\ k.op = call[c].op,
         k.op = "save" => k.id \in Saveable,
         \A a \in Conditional : items'[a] \in {None, items[a]} \/ Current(items'[a], a),
         call[c].pc = "written" /\ call[c].op = "save_if_pending" /\ call[c].id \in Conditional =>
           items'[call[c].id] = None \/ Current(items'[call[c].id], call[c].id),
         k.id \notin Saveable =>
           /\ x \in {"saved", "refused", "added", "found", "error"}
           /\ x = "refused" => call[c].pc # "written"
           /\ x = "saved" => call[c].pc = "written" /\ call[c].op # "add"
  PROVE  Agreement' /\ BookStep
<1>1. PICK m \in CallType : /\ Becomes(c, m) /\ ShapeOf(m, inFlight) /\ m.pc = "done"
                            /\ m.op = k.op /\ m.id = k.id /\ m.answer = x
  BY ReturnMoves, SMTT(30)
<1>2. Fits(c, m)
  BY Zenon, <1>1, RestFits
<1> QED BY Zenon, <1>1, <1>2, MoveAgrees

(* What CheckExpiration() goes on with fits when what it was given fits.   *)
LEMMA ExpirationAgrees ==
  ASSUME Shapes, Agreement, NEW c \in Calls, NEW k \in CallType, CheckExpiration(c, k),
         k.op \in {"get", "list", "save_if_pending"},
         k.op # "list" => k.id \in Approvals /\ \A a \in Approvals : a # k.id => k.seen[a] = None,
         k.op = "save_if_pending" => k.id \notin inFlight,
         \A a \in Conditional : k.seen[a] = None \/ Current(k.seen[a], a),
         repo' = repo, due' = due, items' \in Contents, call[c].pc \notin {"written", "done"},
         \A a \in Conditional : items'[a] \in {None, items[a]} \/ Current(items'[a], a)
  PROVE  Agreement' /\ BookStep
<1>1. PICK m \in CallType :
        /\ Becomes(c, m) /\ ShapeOf(m, inFlight) /\ m.op = k.op
        /\ k.op # "list" => m.id = k.id
        /\ \/ /\ m.pc = "expire" /\ m.seen = k.seen /\ m.id \in Approvals
              /\ Lapsed(k.seen, m.id)
           \/ /\ m.pc = "write" /\ m.op = "save_if_pending" /\ m.seen = k.seen
              /\ k.seen[k.id] = "pending" /\ ~Lapsed(k.seen, k.id)
           \/ m.pc = "done" /\ m.id = k.id /\ m.answer \in {"found", "refused"}
  BY CheckExpirationMoves, SMTT(30)
<1>2. Fits(c, m)
  BY <1>1, Apart, SMTT(30) DEF Fits, Current, Lapsed
<1>3. m.pc # "written"
  BY Zenon, <1>1
<1> QED BY Zenon, <1>1, <1>2, <1>3, MoveAgrees

(* While nobody holds the lock, what is cached fits.                       *)
LEMMA FreeCacheFits ==
  ASSUME Agreement, LockFree, NEW a \in Conditional
  PROVE  items[a] = None \/ Current(items[a], a)
<1>1. ~Uncached(a)
  BY Zenon DEF Uncached, LockFree, Holding
<1> QED BY Zenon, <1>1 DEF Agreement, CacheFits

(* The first step of a call keeps it.                                      *)
LEMMA BeginAgrees ==
  ASSUME Shapes, Agreement, NEW c \in Calls, Begin(c)
  PROVE  Agreement' /\ BookStep
<1>0. items \in Contents /\ \A a \in Approvals : items[a] \in Item \cup {None}
  BY Zenon DEF Shapes, TypeOK, Contents
<1>u. Enter(c) => /\ call[c].pc = "idle" /\ LockFree /\ repo' = repo /\ items' = items /\ due' = due
                  /\ \A a \in Conditional : items'[a] \in {None, items[a]}
  BY Zenon DEF Enter
<1>1. ASSUME NEW o \in Op, NEW a \in Approvals \cup {None}, Enter(c), Becomes(c, Calling(c, o, a))
      PROVE  Agreement' /\ BookStep
  <2> DEFINE m == Calling(c, o, a)
  <2>1. m \in CallType /\ m.pc = "read" /\ Becomes(c, m)
    BY <1>1, CallingRecord
  <2> HIDE DEF m
  <2>2. Fits(c, m)
    BY Zenon, <2>1, RestFits
  <2> QED BY Zenon, <1>0, <1>1, <1>u, <2>1, <2>2, MoveAgrees
<1>2. ASSUME NEW o \in Op, NEW a \in Approvals, Enter(c), Return(c, Calling(c, o, a), "refused"),
             o = "save" => a \in Saveable
      PROVE  Agreement' /\ BookStep
  <2> DEFINE k == Calling(c, o, a)
  <2>1. k \in CallType /\ k.op = o /\ k.id = a /\ Return(c, k, "refused")
    BY <1>2, CallingRecord
  <2> HIDE DEF k
  <2> QED BY Zenon, <1>0, <1>2, <1>u, <2>1, ReturnAgrees, Names
<1>3. ASSUME NEW o \in {"get", "save_if_pending"}, NEW a \in Approvals, Enter(c),
             o = "save_if_pending" => a \notin inFlight,
             CheckExpiration(c, [Calling(c, o, a) EXCEPT !.seen = Only(a, items[a])])
      PROVE  Agreement' /\ BookStep
  <2> DEFINE k == [Calling(c, o, a) EXCEPT !.seen = Only(a, items[a])]
  <2>1. PICK k0 \in CallType : k0 = Calling(c, o, a) /\ k0.op = o /\ k0.id = a
    BY CallingRecord DEF Op
  <2>2. k = [k0 EXCEPT !.seen = Only(a, items[a])]
    BY Zenon, <2>1
  <2>3. k \in CallType /\ k.op = o /\ k.id = a /\ k.seen = Only(a, items[a])
    BY Zenon, <1>0, <2>1, <2>2, Records DEF CallType
  <2>4. CheckExpiration(c, k)
    BY Zenon, <1>3
  <2> HIDE DEF k
  <2>5. /\ k.seen[a] = items[a]
        /\ \A b \in Approvals : b # a => k.seen[b] = None
    BY <1>0, <2>3, Records
  <2>6. \A b \in Conditional : k.seen[b] = None \/ Current(k.seen[b], b)
    BY Zenon, <1>3, <1>u, <2>5, FreeCacheFits, Apart
  <2> QED BY <1>0, <1>3, <1>u, <2>3, <2>4, <2>5, <2>6, ExpirationAgrees
<1>4. CASE ListItems(c)
  BY Zenon, <1>1, <1>4 DEF ListItems, Op
<1>5. ASSUME NEW a \in Approvals, Add(c, a) PROVE Agreement' /\ BookStep
  BY Zenon, <1>1, <1>2, <1>5 DEF Add, Op
<1>6. ASSUME NEW a \in Approvals, Get(c, a) PROVE Agreement' /\ BookStep
  BY Zenon, <1>1, <1>3, <1>6 DEF Get, Op
<1>7. ASSUME NEW a \in Approvals, SaveIfPending(c, a) PROVE Agreement' /\ BookStep
  BY Zenon, <1>1, <1>2, <1>3, <1>7 DEF SaveIfPending, Op
<1>8. ASSUME NEW a \in Approvals, Save(c, a) PROVE Agreement' /\ BookStep
  <2>1. a \in Saveable /\ Enter(c) /\ Calling(c, "save", a) \in CallType
        /\ Calling(c, "save", a).op = "save" /\ Calling(c, "save", a).id = a
    BY <1>8, CallingRecord DEF Save, Op
  <2>2. CASE Claim(c, Calling(c, "save", a), items)
    <3>1. PICK m \in CallType : Becomes(c, m) /\ m.id = a /\ m.pc \in {"save", "done"}
      BY <2>1, <2>2, ClaimMoves
    <3>2. Fits(c, m) /\ m.pc # "written"
      BY Zenon, <3>1, RestFits DEF Marked
    <3> QED BY Zenon, <1>0, <1>u, <2>1, <3>1, <3>2, MoveAgrees
  <2> QED BY Zenon, <1>1, <1>8, <2>1, <2>2 DEF Save, Op
<1> QED BY Zenon, <1>4, <1>5, <1>6, <1>7, <1>8 DEF Begin

(* The repository answers a read with what it holds.                       *)
LEMMA RepoReadAgrees ==
  ASSUME Shapes, Agreement, NEW c \in Calls, RepoRead(c)
  PROVE  Agreement' /\ BookStep
<1>0. /\ items \in Contents /\ repo \in Contents
      /\ call[c] \in CallType /\ ShapeOf(call[c], inFlight)
  BY Zenon DEF Shapes, TypeOK
<1>k. PICK k \in CallType : k = call[c]
  BY Zenon, <1>0
<1>1. PICK seen \in Answers(c) : Becomes(c, [k EXCEPT !.pc = "loaded", !.seen = seen])
  BY Zenon, <1>k DEF RepoRead
<1>2. k.pc = "read" /\ repo' = repo /\ items' = items /\ due' = due
  BY Zenon, <1>k DEF RepoRead
<1>3. /\ seen \in Contents /\ \A a \in Approvals : seen[a] \in {None, repo[a]}
      /\ k.op # "list" => k.id \in Approvals /\ seen[k.id] = repo[k.id]
  <2>1. CASE k.op # "list"
    <3>1. k.id \in Approvals /\ seen = Only(k.id, repo[k.id]) /\ repo[k.id] \in Item \cup {None}
      BY Zenon, <1>0, <1>k, <1>2, <2>1 DEF ShapeOf, Answers, Holding, Contents
    <3> QED BY <3>1, Records
  <2>2. CASE k.op = "list"
    BY <1>0, <1>k, <2>2 DEF Answers, Contents, Item
  <2> QED BY Zenon, <2>1, <2>2
<1> DEFINE m == [k EXCEPT !.pc = "loaded", !.seen = seen]
<1>4. m \in CallType /\ m.pc = "loaded" /\ m.op = k.op /\ m.id = k.id /\ m.seen = seen /\ Becomes(c, m)
  BY Zenon, <1>1, <1>3, Names DEF CallType, Holding
<1> HIDE DEF m
<1>5. Fits(c, m)
  BY Zenon, <1>3, <1>4, Apart DEF Fits
<1> QED BY Zenon, <1>0, <1>k, <1>2, <1>4, <1>5, MoveAgrees

(* Going on with what was read: it is cached, claimed or checked.          *)
LEMMA LoadedAgrees ==
  ASSUME Shapes, Agreement, NEW c \in Calls, Loaded(c)
  PROVE  Agreement' /\ BookStep
<1>0. /\ items \in Contents /\ repo \in Contents
      /\ call[c] \in CallType /\ ShapeOf(call[c], inFlight) /\ Fits(c, call[c])
  BY Zenon DEF Shapes, TypeOK, Agreement
<1>k. PICK k \in CallType : k = call[c]
  BY Zenon, <1>0
<1>1. k.pc = "loaded" /\ items' = Populated(k.seen) /\ repo' = repo /\ due' = due
  BY Zenon, <1>k DEF Loaded
<1>2. items' \in Contents
  BY Zenon, <1>0, <1>1 DEF CallType, Contents, Populated
<1>3. \A a \in Conditional : k.seen[a] \in {None, repo[a]}
  BY Zenon, <1>0, <1>k, <1>1 DEF Fits
<1>4. \A a \in Conditional : items'[a] \in {None, items[a]} \/ Current(items'[a], a)
  BY Zenon, <1>1, <1>3, Apart DEF Populated, Current
<1>5. CASE k.op = "add" /\ k.seen[k.id] = None /\ Becomes(c, [k EXCEPT !.pc = "write"])
  <2> DEFINE m == [k EXCEPT !.pc = "write"]
  <2>1. m \in CallType /\ m.pc = "write" /\ m.op = k.op /\ m.id = k.id /\ Becomes(c, m)
    BY Zenon, <1>5, Names DEF CallType, Holding
  <2> HIDE DEF m
  <2>2. Fits(c, m)
    BY Zenon, <1>0, <1>k, <1>1, <1>5, <2>1 DEF Fits
  <2> QED BY Zenon, <1>k, <1>1, <1>2, <1>4, <2>1, <2>2, MoveAgrees
<1>6. CASE k.op = "add" /\ Return(c, k, "refused")
  BY Zenon, <1>k, <1>1, <1>2, <1>4, <1>6, ReturnAgrees, Names
<1>7. CASE k.op = "save" /\ Claim(c, k, Populated(k.seen))
  <2>1. k.id \in Saveable
    BY Zenon, <1>0, <1>k, <1>7 DEF ShapeOf
  <2>2. PICK m \in CallType : Becomes(c, m) /\ m.id = k.id /\ m.pc \in {"save", "done"}
    BY <1>7, <2>1, ClaimMoves
  <2>3. Fits(c, m) /\ m.pc # "written"
    BY Zenon, <2>2, RestFits DEF Marked
  <2> QED BY Zenon, <1>k, <1>1, <1>2, <1>4, <2>1, <2>2, <2>3, MoveAgrees
<1>8. CASE k.op \in {"get", "list", "save_if_pending"} /\ CheckExpiration(c, k)
  <2>1. /\ k.op # "list" => k.id \in Approvals /\ \A a \in Approvals : a # k.id => k.seen[a] = None
        /\ k.op = "save_if_pending" => k.id \notin inFlight
    BY Zenon, <1>0, <1>k, <1>1 DEF ShapeOf, Holding
  <2>2. \A a \in Conditional : k.seen[a] = None \/ Current(k.seen[a], a)
    BY Zenon, <1>3 DEF Current
  <2> QED BY Zenon, <1>k, <1>1, <1>2, <1>4, <1>8, <2>1, <2>2, ExpirationAgrees
<1> QED BY Zenon, <1>k, <1>5, <1>6, <1>7, <1>8 DEF Loaded

(* Going on after an expiration was stored: the cache follows.             *)
LEMMA ExpiredAgrees ==
  ASSUME Shapes, Agreement, NEW c \in Calls, Expired(c)
  PROVE  Agreement' /\ BookStep
<1>0. /\ items \in Contents /\ call[c] \in CallType
      /\ ShapeOf(call[c], inFlight) /\ Fits(c, call[c])
  BY Zenon DEF Shapes, TypeOK, Agreement
<1>k. PICK k \in CallType : k = call[c]
  BY Zenon, <1>0
<1> DEFINE seen == [k.seen EXCEPT ![k.id] = "expired"]
           n == [k EXCEPT !.seen = seen]
<1>1. /\ k.pc = "expired" /\ items' = [items EXCEPT ![k.id] = "expired"] /\ CheckExpiration(c, n)
      /\ repo' = repo /\ due' = due
  BY Zenon, <1>k DEF Expired, Cache, CallType
<1>2. /\ seen \in Contents /\ \A a \in Approvals : a # k.id => seen[a] = k.seen[a]
      /\ k.id \in Approvals => seen[k.id] = "expired"
  BY Zenon DEF CallType, Contents, Item
<1> HIDE DEF seen
<1>3. n \in CallType /\ n.op = k.op /\ n.id = k.id /\ n.seen = seen
  BY Zenon, <1>2 DEF CallType
<1> HIDE DEF n
<1>4. /\ k.op \in {"get", "list", "save_if_pending"} /\ k.id \in Approvals
      /\ k.op # "list" => k.id \in Approvals /\ \A a \in Approvals : a # k.id => seen[a] = None
      /\ k.op = "save_if_pending" => k.id \notin inFlight
  BY Zenon, <1>0, <1>k, <1>1, <1>2 DEF ShapeOf, Holding, CallType, Op
<1>5. /\ k.id \in Conditional => Current("expired", k.id)
      /\ \A a \in Conditional : k.seen[a] = None \/ Current(k.seen[a], a)
  BY Zenon, <1>0, <1>k, <1>1 DEF Fits, Current
<1>6. ASSUME NEW a \in Conditional PROVE seen[a] = None \/ Current(seen[a], a)
  <2>1. CASE a = k.id
    BY Zenon, <1>2, <1>4, <1>5, <2>1
  <2>2. CASE a # k.id
    <3>1. seen[a] = k.seen[a]
      BY Zenon, <1>2, <2>2, Apart
    <3> QED BY Zenon, <1>5, <3>1
  <2> QED BY Zenon, <2>1, <2>2
<1>7. items' \in Contents /\ \A a \in Conditional : items'[a] \in {None, items[a]} \/ Current(items'[a], a)
  BY Zenon, <1>0, <1>1, <1>5, Apart DEF Contents, Item
<1> QED BY Zenon, <1>k, <1>1, <1>3, <1>4, <1>6, <1>7, ExpirationAgrees

(* Going on after a write was stored: the cache follows.                   *)
LEMMA WrittenAgrees ==
  ASSUME Shapes, Agreement, NEW c \in Calls, Written(c)
  PROVE  Agreement' /\ BookStep
<1>0. /\ items \in Contents /\ call[c] \in CallType
      /\ ShapeOf(call[c], inFlight) /\ Fits(c, call[c])
  BY Zenon DEF Shapes, TypeOK, Agreement
<1>k. PICK k \in CallType : k = call[c]
  BY Zenon, <1>0
<1>1. /\ k.pc = "written" /\ items' = [items EXCEPT ![k.id] = Payload(c)]
      /\ Return(c, k, IF k.op = "add" THEN "added" ELSE "saved")
      /\ repo' = repo /\ due' = due
  BY Zenon, <1>k DEF Written, Cache
<1>2. Payload(c) = (IF k.op = "add" THEN "pending" ELSE c) /\ k.id \in Approvals /\ k.op # "save"
  BY Zenon, <1>0, <1>k, <1>1 DEF Payload, ShapeOf, Holding
<1>3. k.id \in Conditional => items'[k.id] = repo[k.id]
  BY Zenon, <1>0, <1>k, <1>1, <1>2 DEF Fits, Contents
<1>4. items' \in Contents /\ \A a \in Conditional : items'[a] \in {None, items[a]} \/ Current(items'[a], a)
  BY Zenon, <1>0, <1>1, <1>2, <1>3, Apart DEF Contents, Item, Current
<1>5. k.id \in Conditional => Current(items'[k.id], k.id)
  BY Zenon, <1>3 DEF Current
<1> QED BY Zenon, <1>k, <1>1, <1>2, <1>4, <1>5, ReturnAgrees, Names

(* A write to the repository.  On an id of save() it is invisible; on the  *)
(* others only the holder of the lock writes, and it submits, decides or   *)
(* expires the approval it has read.                                       *)
LEMMA CommitAgrees ==
  ASSUME Shapes, Agreement, NEW c \in Calls, RepoCommit(c)
  PROVE  Agreement' /\ BookStep
<1>0. /\ repo \in Contents /\ call \in [Calls -> CallType] /\ ShapeOf(call[c], inFlight)
      /\ \A d \in Calls : Fits(d, call[d]) /\ WrittenBy(d, call[d])
  BY Zenon DEF Shapes, TypeOK, Agreement
<1>k. PICK k \in CallType : k = call[c]
  BY Zenon, <1>0
<1> DEFINE p == Committed[k.pc]
           m == [k EXCEPT !.pc = p]
<1>1. /\ k.pc \in {"expire", "write", "save"} /\ items' = items /\ due' = due
      /\ repo' = [repo EXCEPT ![k.id] = Payload(c)] /\ Becomes(c, m)
  BY Zenon, <1>k DEF RepoCommit, Committed
<1>2. /\ k.pc = "expire" => p = "expired"
      /\ k.pc = "write" => p = "written"
      /\ k.pc = "save" => p = "saved"
  BY DEF Committed
<1> HIDE DEF p
<1>3. m \in CallType /\ m.pc = p /\ m.op = k.op /\ m.id = k.id /\ m.seen = k.seen
  BY Zenon, <1>1, <1>2, Names DEF CallType, Holding, Marked
<1> HIDE DEF m
<1>4. call'[c] = m /\ \A d \in Calls : d # c => call'[d] = call[d]
  BY Zenon, <1>0, <1>1 DEF Becomes
<1>5. \A a \in Conditional : repo[a] # c
  BY Zenon, <1>0, <1>k, <1>1 DEF WrittenBy
<1> DEFINE told == [d \in Calls |-> IF call[d].pc = "done" /\ call[d].id \notin Saveable
                                     THEN call[d].answer ELSE "none"]
           book == [a \in Conditional |-> repo[a]]
<1>6. told' = told /\ told[c] = "none"
  BY <1>k, <1>1, <1>2, <1>3, <1>4
<1>7. CASE k.id \notin Conditional
  <2>1. \A a \in Conditional : repo'[a] = repo[a]
    BY Zenon, <1>0, <1>1, <1>7, Apart DEF Contents
  <2>2. Fits(c, m) /\ WrittenBy(c, m)
    <3>1. Fits(c, k)
      BY Zenon, <1>0, <1>k
    <3>2. Fits(c, m)
      BY Zenon, <1>1, <1>2, <1>3, <1>7, <3>1 DEF Fits
    <3>3. WrittenBy(c, m)
      BY Zenon, <1>5 DEF WrittenBy
    <3> QED BY Zenon, <3>2, <3>3
  <2>3. \A d \in Calls : Fits(d, call'[d]) /\ WrittenBy(d, call'[d])
    BY Zenon, <1>0, <1>4, <2>2
  <2>4. (\A d \in Calls : Fits(d, call[d]) /\ WrittenBy(d, call[d]))'
    BY Zenon, <1>1, <2>1, <2>3, FitsFrame, WrittenByFrame
  <2>5. CacheFits'
    <3>1. ASSUME NEW a \in Conditional, Uncached(a) PROVE Uncached(a)'
      BY Zenon, <1>k, <1>1, <1>4, <3>1 DEF Uncached
    <3>2. CacheFits
      BY Zenon DEF Agreement
    <3> QED BY Zenon, <1>1, <2>1, <3>1, <3>2 DEF CacheFits, Current
  <2>6. book' = book
    BY Zenon, <2>1
  <2> QED BY Zenon, <1>6, <2>4, <2>5, <2>6 DEF Agreement, BookStep, Book!bookVars
<1>8. CASE k.id \in Conditional
  <2>1. k.pc \in {"expire", "write"} /\ k.op # "save"
    BY Zenon, <1>0, <1>k, <1>1, <1>8, Apart DEF ShapeOf, Marked
  <2>2. \A d \in Calls : d # c => call[d].pc \notin Holding
    BY Zenon, <1>k, <2>1 DEF Shapes, OneHolder, Holding
  <2>3. /\ repo'[k.id] = Payload(c) /\ \A a \in Conditional : a # k.id => repo'[a] = repo[a]
        /\ book' = [book EXCEPT ![k.id] = Payload(c)] /\ book[k.id] = repo[k.id]
    BY Zenon, <1>0, <1>1, <1>8, Apart DEF Contents
  <2>4. ~Uncached(k.id) /\ \A a \in Conditional : ~Uncached(a)
    BY Zenon, <1>k, <1>8, <2>1, <2>2 DEF Uncached, Holding
  <2>5. ASSUME NEW a \in Conditional PROVE items[a] = None \/ Current(items[a], a)
    BY Zenon, <2>4 DEF Agreement, CacheFits
  <2>6. Payload(c) \in {"pending", "expired", c}
    BY Zenon DEF Payload
  <2>7. (\A d \in Calls : d # c => Fits(d, call[d]) /\ WrittenBy(d, call[d]))'
    <3> SUFFICES ASSUME NEW d \in Calls, d # c PROVE (Fits(d, call[d]) /\ WrittenBy(d, call[d]))'
      BY Zenon
    <3>1. call'[d] = call[d] /\ call[d].pc \notin Holding /\ WrittenBy(d, call[d])
      BY Zenon, <1>0, <1>4, <2>2
    <3>2. Fits(d, call[d])'
      BY Zenon, <3>1 DEF Fits, Holding
    <3>3. WrittenBy(d, call[d])'
      BY <2>3, <2>6, <3>1, Apart DEF WrittenBy
    <3> QED BY Zenon, <3>2, <3>3
  <2>8. CASE k.pc = "expire"
    <3>1. Payload(c) = "expired" /\ k.id \in due /\ repo[k.id] \in {"pending", "expired"}
          /\ \A a \in Conditional : k.seen[a] = None \/ Current(k.seen[a], a)
      <4>1. Payload(c) = "expired"
        BY Zenon, <1>0, <1>k, <2>8 DEF Payload, ShapeOf, Holding
      <4>2. Fits(c, k)
        BY Zenon, <1>0, <1>k
      <4> QED BY Zenon, <1>8, <2>8, <4>1, <4>2 DEF Fits
    <3>2. \A a \in Conditional, x \in Item \cup {None} : Current(x, a) => Current(x, a)'
      BY <1>1, <2>3, <3>1, Apart DEF Current
    <3>3. \A a \in Conditional : k.seen[a] \in Item \cup {None} /\ items[a] \in Item \cup {None}
      BY Zenon, Apart DEF CallType, Contents, Shapes, TypeOK
    <3>4. \A a \in Conditional : m.seen[a] = None \/ Current(m.seen[a], a)'
      BY Zenon, <1>3, <3>1, <3>2, <3>3
    <3>5. Fits(c, call[c])'
      BY Zenon, <1>1, <1>2, <1>3, <1>4, <2>3, <2>8, <3>1, <3>4 DEF Fits
    <3>6. WrittenBy(c, call[c])'
      BY Zenon, <1>5, <2>3, <3>1, Apart DEF WrittenBy
    <3>7. CacheFits'
      BY Zenon, <1>1, <2>5, <3>2, <3>3 DEF CacheFits
    <3>8. BookStep
      <4>1. CASE repo[k.id] = "pending"
        <5>1. Book!Expire(k.id)
          BY Zenon, <1>6, <2>3, <3>1, <4>1 DEF Book!Expire
        <5> QED BY Zenon, <1>8, <5>1 DEF BookStep, Book!Next
      <4>2. CASE repo[k.id] = "expired"
        <5>1. book' = book
          BY Zenon, <2>3, <3>1, <4>2
        <5> QED BY Zenon, <1>6, <5>1 DEF BookStep, Book!bookVars
      <4> QED BY Zenon, <3>1, <4>1, <4>2
    <3> QED BY Zenon, <2>7, <3>5, <3>6, <3>7, <3>8 DEF Agreement
  <2>9. CASE k.pc = "write" /\ k.op = "add"
    <3>1. Payload(c) = "pending" /\ repo[k.id] = None
      BY Zenon, <1>0, <1>k, <1>8, <2>9 DEF Payload, Fits
    <3>2. Fits(c, call[c])'
      BY Zenon, <1>2, <1>3, <1>4, <2>3, <2>9, <3>1 DEF Fits
    <3>3. WrittenBy(c, call[c])'
      BY <1>5, <2>3, <3>1, Apart DEF WrittenBy
    <3>4. CacheFits'
      BY <1>1, <2>3, <2>5, <3>1, Apart DEF CacheFits, Current
    <3>5. Book!Submit(k.id)
      BY Zenon, <1>6, <2>3, <3>1 DEF Book!Submit
    <3>6. BookStep
      BY Zenon, <1>8, <3>5 DEF BookStep, Book!Next
    <3> QED BY Zenon, <2>7, <3>2, <3>3, <3>4, <3>6 DEF Agreement
  <2>10. CASE k.pc = "write" /\ k.op # "add"
    <3>1. Payload(c) = c /\ repo[k.id] = "pending" /\ k.op = "save_if_pending"
      BY Zenon, <1>0, <1>k, <1>8, <2>1, <2>10 DEF Payload, Fits, ShapeOf, Holding, CallType, Op
    <3>2. Fits(c, call[c])'
      BY Zenon, <1>2, <1>3, <1>4, <2>3, <2>10, <3>1 DEF Fits
    <3>3. WrittenBy(c, call[c])'
      BY <1>2, <1>3, <1>4, <1>5, <2>3, <2>10, <3>1 DEF WrittenBy
    <3>4. Uncached(k.id)'
      BY Zenon, <1>2, <1>3, <1>4, <2>10, <3>1 DEF Uncached
    <3>5. CacheFits'
      BY Zenon, <1>1, <2>3, <2>5, <3>4 DEF CacheFits, Current
    <3>6. Book!Decide(k.id, c)
      BY Zenon, <1>5, <1>6, <2>3, <3>1 DEF Book!Decide
    <3>7. BookStep
      BY Zenon, <1>8, <3>6 DEF BookStep, Book!Next
    <3> QED BY Zenon, <2>7, <3>2, <3>3, <3>5, <3>7 DEF Agreement
  <2> QED BY Zenon, <2>1, <2>8, <2>9, <2>10
<1> QED BY Zenon, <1>7, <1>8


----------------------------------------------------------------------------
(* At every moment at most one call is between the check that an approval  *)
(* is still undecided and the cache update that publishes its decision:    *)
(* save() is kept apart by its marker, save_if_pending() by the lock, and  *)
(* the one from the other by the markers.  No fault breaks it.             *)
THEOREM FirstWriterWinsHolds == Spec => []FirstWriterWins
<1>1. Shapes => FirstWriterWins
  <2> SUFFICES ASSUME Shapes, NEW a \in Approvals, NEW c \in Deciding(a), NEW d \in Deciding(a)
               PROVE  c = d
    BY Zenon DEF FirstWriterWins
  <2>1. /\ c \in Calls /\ call[c].id = a /\ ShapeOf(call[c], inFlight)
        /\ call[c].pc \in {"write", "written", "save", "saved"} /\ call[c].op \in {"save", "save_if_pending"}
    BY Zenon DEF Deciding, Shapes
  <2>2. /\ d \in Calls /\ call[d].id = a /\ ShapeOf(call[d], inFlight)
        /\ call[d].pc \in {"write", "written", "save", "saved"} /\ call[d].op \in {"save", "save_if_pending"}
    BY Zenon DEF Deciding, Shapes
  <2>3. CASE call[c].op = "save" /\ call[d].op = "save"
    BY Zenon, <2>1, <2>2, <2>3 DEF ShapeOf, Holding, Marked, Shapes, OneMarker
  <2>4. CASE call[c].op = "save_if_pending" /\ call[d].op = "save_if_pending"
    BY Zenon, <2>1, <2>2, <2>4 DEF ShapeOf, Holding, Marked, Shapes, OneHolder
  <2>5. CASE call[c].op # call[d].op
    BY <2>1, <2>2, <2>5 DEF ShapeOf, Holding, Marked
  <2> QED BY Zenon, <2>1, <2>2, <2>3, <2>4, <2>5
<1> QED BY <1>1, ShapesHold, PTL

----------------------------------------------------------------------------
(* Every step of a call without a fault keeps the agreement.               *)
LEMMA StepAgrees ==
  ASSUME Shapes, Agreement, NEW c \in Calls, Step(c)
  PROVE  Agreement' /\ BookStep
<1>0. /\ items \in Contents /\ call[c] \in CallType /\ ShapeOf(call[c], inFlight)
  BY Zenon DEF Shapes, TypeOK
<1>k. PICK k \in CallType : k = call[c]
  BY Zenon, <1>0
<1>i. ASSUME NEW a, NEW item \in Item \cup {None}, Cache(a, item)
      PROVE  items' \in Contents /\ \A b \in Conditional : b # a \/ item = None => items'[b] \in {None, items[b]}
  BY Zenon, <1>0, <1>i, Apart DEF Cache, Contents
<1>1. CASE Saved(c)
  <2> DEFINE m == [k EXCEPT !.pc = "unmark", !.answer = "saved"]
  <2>1. k.pc = "saved" /\ Cache(k.id, c) /\ Becomes(c, m) /\ repo' = repo /\ due' = due
    BY Zenon, <1>1, <1>k DEF Saved
  <2>2. m \in CallType /\ m.pc = "unmark"
    BY Zenon, Names DEF CallType, Marked
  <2> HIDE DEF m
  <2>3. k.id \notin Conditional
    BY Zenon, <1>0, <1>k, <2>1 DEF ShapeOf, Marked, Conditional
  <2>4. items' \in Contents /\ \A a \in Conditional : items'[a] \in {None, items[a]}
    BY Zenon, <1>i, <2>1, <2>3 DEF Item
  <2>5. Fits(c, m)
    BY Zenon, <2>2, RestFits DEF Marked
  <2> QED BY Zenon, <1>k, <2>1, <2>2, <2>4, <2>5, MoveAgrees
<1>2. CASE Unmark(c)
  <2>1. k.pc = "unmark" /\ Return(c, k, k.answer) /\ repo' = repo /\ items' = items /\ due' = due
    BY Zenon, <1>2, <1>k DEF Unmark
  <2>2. k.id \in Saveable /\ k.answer \in Answer
    BY Zenon, <1>0, <1>k, <2>1 DEF ShapeOf, Marked, CallType
  <2> QED BY Zenon, <1>0, <1>k, <2>1, <2>2, ReturnAgrees
<1>3. CASE Evicted(c)
  <2> DEFINE m == [k EXCEPT !.pc = "unmark", !.answer = "error"]
  <2>1. k.pc = "evict" /\ Becomes(c, m) /\ repo' = repo /\ items' = items /\ due' = due
    BY Zenon, <1>3, <1>k DEF Evicted
  <2>2. m \in CallType /\ m.pc = "unmark"
    BY Zenon, Names DEF CallType, Marked
  <2> HIDE DEF m
  <2>3. Fits(c, m)
    BY Zenon, <2>2, RestFits DEF Marked
  <2> QED BY Zenon, <1>0, <1>k, <2>1, <2>2, <2>3, MoveAgrees
<1>4. CASE Evict(c)
  <2>1. Cache(k.id, None) /\ repo' = repo /\ due' = due /\ call' = call
    BY Zenon, <1>4, <1>k DEF Evict
  <2>2. \A a \in Conditional : items'[a] \in {None, items[a]}
    BY Zenon, <1>i, <2>1
  <2>3. Agreement'
    <3>1. (\A d \in Calls : Fits(d, call[d]) /\ WrittenBy(d, call[d]))'
      BY Zenon, <2>1, FitsFrame, WrittenByFrame DEF Agreement
    <3>2. CacheFits'
      BY <2>1, <2>2 DEF Agreement, CacheFits, Current, Uncached
    <3> QED BY Zenon, <3>1, <3>2 DEF Agreement
  <2>4. BookStep
    BY Zenon, <2>1 DEF BookStep, Book!bookVars
  <2> QED BY Zenon, <2>3, <2>4
<1> QED BY Zenon, <1>1, <1>2, <1>3, <1>4, RepoReadAgrees, LoadedAgrees, CommitAgrees, ExpiredAgrees,
           WrittenAgrees DEF Step

(* When a write that raised did not commit, a failure or a cancellation    *)
(* leaves the cache as the repository is.                                  *)
LEMMA FaultAgrees ==
  ASSUME "lost_ack" \notin Faults, Shapes, Agreement, NEW c \in Calls, StoreFails(c) \/ Cancel(c)
  PROVE  Agreement' /\ BookStep
<1>0. /\ items \in Contents /\ call[c] \in CallType /\ ShapeOf(call[c], inFlight)
  BY Zenon DEF Shapes, TypeOK
<1>k. PICK k \in CallType : k = call[c]
  BY Zenon, <1>0
<1>u. repo' = repo /\ due' = due
  BY Zenon DEF StoreFails, Cancel
<1>i. /\ items' \in Contents /\ \A a \in Conditional : items'[a] \in {None, items[a]}
      /\ k.pc = "written" /\ k.op = "save_if_pending" /\ k.id \in Conditional => items'[k.id] = None
      /\ k.pc # "done"
  BY Zenon, <1>0, <1>k, Apart
     DEF StoreFails, Cancel, CancelHolder, CancelSave, CancelWaiter, Cache, Contents, Holding, Committed
<1>1. CASE Return(c, call[c], "error")
  <2>1. k.op = "save" => k.id \in Saveable
    BY Zenon, <1>0, <1>k DEF ShapeOf
  <2> QED BY Zenon, <1>1, <1>i, <1>k, <1>u, <2>1, ReturnAgrees, Names
<1>2. CASE k.pc \in Marked /\ Becomes(c, [k EXCEPT !.pc = "unmark", !.answer = "error"])
  <2> DEFINE m == [k EXCEPT !.pc = "unmark", !.answer = "error"]
  <2>1. m \in CallType /\ m.pc = "unmark" /\ Becomes(c, m)
    BY Zenon, <1>2, Names DEF CallType, Marked
  <2> HIDE DEF m
  <2>2. Fits(c, m)
    BY Zenon, <2>1, RestFits DEF Marked
  <2> QED BY Zenon, <1>2, <1>i, <1>k, <1>u, <2>1, <2>2, MoveAgrees DEF Marked
<1>3. CASE k.pc \in Marked /\ Becomes(c, [k EXCEPT !.pc = "evict"])
  <2> DEFINE m == [k EXCEPT !.pc = "evict"]
  <2>1. m \in CallType /\ m.pc = "evict" /\ Becomes(c, m)
    BY Zenon, <1>3, Names DEF CallType, Marked
  <2> HIDE DEF m
  <2>2. Fits(c, m)
    BY Zenon, <2>1, RestFits DEF Marked
  <2> QED BY Zenon, <1>3, <1>i, <1>k, <1>u, <2>1, <2>2, MoveAgrees DEF Marked
<1> QED BY Zenon, <1>1, <1>2, <1>3, <1>k
        DEF StoreFails, Raise, Cancel, CancelHolder, CancelSave, CancelWaiter, Marked

(* A deadline that passes keeps it.                                        *)
LEMMA DeadlineAgrees ==
  ASSUME Agreement, NEW a \in Approvals, PassDeadline(a)
  PROVE  Agreement' /\ BookStep
<1>1. repo' = repo /\ items' = items /\ call' = call /\ due \subseteq due'
  BY Zenon DEF PassDeadline
<1>2. (\A d \in Calls : Fits(d, call[d]) /\ WrittenBy(d, call[d]))'
  BY Zenon, <1>1, FitsFrame, WrittenByFrame DEF Agreement
<1>3. CacheFits'
  BY <1>1 DEF Agreement, CacheFits, Current, Uncached
<1>4. BookStep
  BY Zenon, <1>1 DEF BookStep, Book!bookVars
<1> QED BY Zenon, <1>2, <1>3, <1>4 DEF Agreement

(* The calls a crash cuts off are the ones the book abandons.              *)
LEMMA CrashAgrees ==
  ASSUME Shapes, Agreement, Crash
  PROVE  Agreement' /\ BookStep
<1>1. items' = NoItems /\ repo' = repo /\ due' = due
  BY Zenon DEF Crash
<1>2. ASSUME NEW c \in Calls
      PROVE  /\ call'[c].pc \in {"idle", "done"}
             /\ call'[c].op = call[c].op /\ call'[c].id = call[c].id
             /\ \/ call'[c] = call[c]
                \/ /\ call[c].pc \notin {"idle", "done"}
                   /\ call'[c].pc = "done" /\ call'[c].answer = "dead"
  BY Zenon, CrashKeepsShapes
<1>3. (\A d \in Calls : Fits(d, call[d]) /\ WrittenBy(d, call[d]))'
  <2> SUFFICES ASSUME NEW d \in Calls PROVE (Fits(d, call[d]) /\ WrittenBy(d, call[d]))'
    BY Zenon
  <2>1. WrittenBy(d, call[d])
    BY Zenon DEF Agreement
  <2>2. Fits(d, call[d])'
    BY Zenon, <1>2 DEF Fits
  <2>3. WrittenBy(d, call[d])'
    BY Zenon, <1>1, <1>2, <2>1 DEF WrittenBy
  <2> QED BY Zenon, <2>2, <2>3
<1>4. CacheFits'
  BY Zenon, <1>1, Records, Apart DEF CacheFits
<1> DEFINE told == [d \in Calls |-> IF call[d].pc = "done" /\ call[d].id \notin Saveable
                                     THEN call[d].answer ELSE "none"]
           book == [a \in Conditional |-> repo[a]]
<1>5. PICK S \in SUBSET Calls : \A c \in Calls : c \in S <=> call'[c] # call[c] /\ call[c].id \notin Saveable
  <2>1. {c \in Calls : call'[c] # call[c] /\ call[c].id \notin Saveable} \in SUBSET Calls
    BY Zenon
  <2> QED BY Zenon, <2>1
<1>6. book' = book /\ \A c \in S : told[c] = "none"
  BY Zenon, <1>1, <1>2, <1>5
<1>7. told' = [c \in Calls |-> IF c \in S THEN "dead" ELSE told[c]]
  BY <1>2, <1>5
<1>8. Book!Abandon(S)
  BY Zenon, <1>6, <1>7 DEF Book!Abandon
<1>9. BookStep
  BY Zenon, <1>8 DEF BookStep, Book!Next
<1> QED BY Zenon, <1>3, <1>4, <1>9 DEF Agreement

(* The agreement holds initially, and the book is in an initial state.     *)
LEMMA InitAgrees == Init => Agreement /\ Book!Init
<1> SUFFICES ASSUME Init PROVE Agreement /\ Book!Init
  BY Zenon
<1>1. \A c \in Calls : call[c].pc = "idle"
  BY Zenon DEF Init, NotCalled
<1>2. \A a \in Approvals : repo[a] \in OldItems /\ repo[a] \notin Calls /\ items[a] = None
  <2>1. repo \in [Approvals -> OldItems] /\ items = NoItems
    BY Zenon DEF Init
  <2>2. \A x \in OldItems : x \notin Calls
    BY Zenon, ApprovalStoreAssumption, Apart
  <2> QED BY Zenon, <2>1, <2>2, Records
<1>3. \A c \in Calls : Fits(c, call[c]) /\ WrittenBy(c, call[c])
  BY Zenon, <1>1, <1>2, Apart DEF Fits, WrittenBy
<1>4. CacheFits
  BY Zenon, <1>2, Apart DEF CacheFits
<1>5. Book!Init
  BY Zenon, <1>1, <1>2, Apart DEF Book!Init
<1> QED BY Zenon, <1>3, <1>4, <1>5 DEF Agreement

(* Every step keeps it, when a write that raises has not committed.        *)
LEMMA NextAgrees ==
  ASSUME "lost_ack" \notin Faults
  PROVE  Shapes /\ Agreement /\ [Next]_vars => Agreement' /\ BookStep
<1> SUFFICES ASSUME Shapes, Agreement, [Next]_vars PROVE Agreement' /\ BookStep
  BY Zenon
<1>1. CASE UNCHANGED vars
  <2>1. (\A d \in Calls : Fits(d, call[d]) /\ WrittenBy(d, call[d]))'
    BY Zenon, <1>1, FitsFrame, WrittenByFrame DEF vars, Agreement
  <2>2. CacheFits'
    BY Zenon, <1>1 DEF vars, Agreement, CacheFits, Current, Uncached
  <2>3. BookStep
    BY Zenon, <1>1 DEF vars, BookStep, Book!bookVars
  <2> QED BY Zenon, <2>1, <2>2, <2>3 DEF Agreement
<1>2. CASE Next
  BY Zenon, <1>2, BeginAgrees, StepAgrees, FaultAgrees, DeadlineAgrees, CrashAgrees DEF Next
<1> QED BY Zenon, <1>1, <1>2

(* While no call holds the lock, a cached approval that only goes through  *)
(* save_if_pending() is what the repository holds, or a PENDING copy of an *)
(* expired one, whatever was cancelled, failed or crashed before.  (Not    *)
(* when a write that raised did commit.)                                   *)
THEOREM CacheAgreesHolds ==
  ASSUME "lost_ack" \notin Faults
  PROVE  Spec => []CacheAgrees
<1>1. Agreement => CacheAgrees
  BY Zenon, FreeCacheFits DEF CacheAgrees, Conditional, Current
<1>2. Spec => []Agreement
  <2>1. Init => Agreement
    BY Zenon, InitAgrees
  <2>2. Shapes /\ Agreement /\ [Next]_vars => Agreement'
    BY Zenon, NextAgrees
  <2> QED BY <2>1, <2>2, ShapesHold, PTL DEF Spec
<1> QED BY <1>1, <1>2, PTL

(* The store with its cache, its lock, its markers and its repository      *)
(* calls implements the book of approvals, in which an approval leaves     *)
(* PENDING once and the answers tell who decided it.                       *)
THEOREM StoreImplementsBook ==
  ASSUME "lost_ack" \notin Faults
  PROVE  Spec => ImplementsBook
<1>1. Init => Book!Init /\ Agreement
  BY Zenon, InitAgrees
<1>2. Shapes /\ Agreement /\ [Next]_vars => Agreement' /\ [Book!Next]_(Book!bookVars)
  BY Zenon, NextAgrees DEF BookStep
<1> QED BY <1>1, <1>2, ShapesHold, PTL DEF Spec, ImplementsBook, Book!Spec
==============================================================================
