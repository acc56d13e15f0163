------------------------ MODULE BusAndSandboxProofs -------------------------
(***************************************************************************)
(* Safety of the message bus and of the sandbox life cycle, for every      *)
(* value of their constants.                                               *)
(***************************************************************************)
EXTENDS BusAndSandbox, TLAPS

----------------------------------------------------------------------------
(* The message bus: a message of a channel and subscriber waits in a       *)
(* queue, or in the removed queue that a receive() still holds; it is then *)
(* taken, and at last returned or lost.                                    *)

Holds(q, n) == \E i \in DOMAIN q : q[i] = n
Increasing(q) == \A i, j \in 1..Len(q) : i < j => q[i] < q[j]
Queue == {q \in Seq(Nat) : Increasing(q)} \cup {Nil}
CallType == [pc : {"idle", "waiting"}, item : Nat \cup {Nil}, rest : Queue,
             shut : {"none", "new", "waiting", "done"},
             unsub : BOOLEAN, registered : BOOLEAN, timed : BOOLEAN]

Queued(k) == {n \in Nat : queues[k] # Nil /\ Holds(queues[k], n)}
Left(k) == {n \in Nat : recv[k].rest # Nil /\ Holds(recv[k].rest, n)}
Taken(k) == {n \in Nat : n = recv[k].item}
Past(k) == {n \in Nat : <<n, k>> \in returned \cup lost}
Put(k) == {n \in Nat : <<n, k>> \in enqueued}

Before(S, T) == \A m \in S, n \in T : m < n

(* The messages of a channel and subscriber stand in the order of their    *)
(* publication.                                                            *)
InLine(k) ==
  /\ Before(Past(k), Taken(k)) /\ Before(Past(k), Left(k)) /\ Before(Past(k), Queued(k))
  /\ Before(Taken(k), Left(k)) /\ Before(Taken(k), Queued(k)) /\ Before(Left(k), Queued(k))
  /\ \A n \in Past(k) \cup Taken(k) \cup Left(k) \cup Queued(k) : n <= published

(* An open call waits on a queue, a closed one holds nothing, and what was *)
(* put into the queue is still in line.                                    *)
Kept(k) ==
  /\ recv[k].pc = "idle" => recv[k].item = Nil /\ recv[k].rest = Nil
  /\ recv[k].pc = "waiting" /\ recv[k].rest = Nil => queues[k] # Nil
  /\ Put(k) # {} => queues[k] # Nil
  /\ Put(k) \subseteq Queued(k) \cup Taken(k) \cup Past(k)

Subscribed == (SUBSET BusAgents) \cup {Nil}

BusType ==
  /\ published \in Nat
  /\ subscribers \in [Channels -> Subscribed] /\ knownAgents \subseteq BusAgents
  /\ queues \in [Bus!Keys -> Queue] /\ recv \in [Bus!Keys -> CallType]
  /\ enqueued \cup returned \cup lost \subseteq Nat \X Bus!Keys

BusInv == BusType /\ \A k \in Bus!Keys : InLine(k) /\ Kept(k)

(* The empty queue.                                                        *)
LEMMA EmptyQueue == <<>> \in Queue /\ <<>> # Nil /\ Nil \in Queue /\ \A n \in Nat : ~Holds(<<>>, n)
<1>1. <<>> \in Seq(Nat) /\ Increasing(<<>>)
  BY DEF Increasing
<1>2. Nil \notin Seq(Nat)
  BY Zenon, BusAssumption
<1>3. \A n \in Nat : ~Holds(<<>>, n)
  BY DOMAIN <<>> = {} DEF Holds
<1> QED
  BY Zenon, <1>1, <1>2, <1>3 DEF Queue

(* A queue to whose end a later message is appended.                       *)
LEMMA AppendQueue ==
  ASSUME NEW q \in Queue, q # Nil, NEW m \in Nat, \A n \in Nat : Holds(q, n) => n < m
  PROVE  /\ Append(q, m) \in Queue /\ Append(q, m) # Nil
         /\ \A n \in Nat : Holds(Append(q, m), n) <=> Holds(q, n) \/ n = m
<1>1. q \in Seq(Nat) /\ Increasing(q) /\ Nil \notin Seq(Nat)
  BY Zenon, BusAssumption DEF Queue
<1>2. /\ Append(q, m) \in Seq(Nat) /\ Len(Append(q, m)) = Len(q) + 1 /\ Len(q) \in Nat
      /\ \A i \in 1..Len(q) : Append(q, m)[i] = q[i]
      /\ Append(q, m)[Len(q) + 1] = m
      /\ DOMAIN Append(q, m) = 1..(Len(q) + 1) /\ DOMAIN q = 1..Len(q)
  BY <1>1
<1>3. ASSUME NEW i \in 1..Len(q) PROVE q[i] \in Nat /\ q[i] < m
  <2>1. q[i] \in Nat
    BY <1>1
  <2>2. Holds(q, q[i])
    BY Zenon, <1>2 DEF Holds
  <2> QED BY Zenon, <2>1, <2>2
<1>4. Increasing(Append(q, m))
  <2> SUFFICES ASSUME NEW i \in 1..(Len(q) + 1), NEW j \in 1..(Len(q) + 1), i < j
               PROVE  Append(q, m)[i] < Append(q, m)[j]
    BY Zenon, <1>2 DEF Increasing
  <2>1. i \in 1..Len(q)
    BY <1>2
  <2>2. CASE j = Len(q) + 1
    BY Zenon, <1>2, <1>3, <2>1, <2>2
  <2>3. CASE j \in 1..Len(q)
    BY Zenon, <1>1, <1>2, <2>1, <2>3 DEF Increasing
  <2> QED
    BY <1>2, <2>2, <2>3
<1>5. \A n \in Nat : Holds(Append(q, m), n) <=> Holds(q, n) \/ n = m
  <2>1. ASSUME NEW n \in Nat, Holds(Append(q, m), n) PROVE Holds(q, n) \/ n = m
    <3>1. PICK i \in 1..(Len(q) + 1) : Append(q, m)[i] = n
      BY Zenon, <1>2, <2>1 DEF Holds
    <3>2. i \in 1..Len(q) \/ i = Len(q) + 1
      BY <1>2, <3>1
    <3> QED
      BY Zenon, <1>2, <3>1, <3>2 DEF Holds
  <2>2. ASSUME NEW n \in Nat, Holds(q, n) \/ n = m PROVE Holds(Append(q, m), n)
    <3>1. CASE Holds(q, n)
      <4>1. PICK i \in 1..Len(q) : q[i] = n
        BY Zenon, <1>2, <3>1 DEF Holds
      <4>2. i \in 1..(Len(q) + 1) /\ Append(q, m)[i] = n
        BY <1>2, <4>1
      <4> QED
        BY Zenon, <1>2, <4>2 DEF Holds
    <3>2. CASE n = m
      <4>1. Len(q) + 1 \in 1..(Len(q) + 1)
        BY <1>2
      <4> QED
        BY Zenon, <1>2, <3>2, <4>1 DEF Holds
    <3> QED
      BY Zenon, <2>2, <3>1, <3>2
  <2> QED
    BY Zenon, <2>1, <2>2
<1> QED
  BY Zenon, <1>1, <1>2, <1>4, <1>5 DEF Queue

(* A queue whose first message is taken.                                   *)
LEMMA TailQueue ==
  ASSUME NEW q \in Queue, q # Nil, q # <<>>
  PROVE  /\ Tail(q) \in Queue /\ Tail(q) # Nil /\ Head(q) \in Nat
         /\ \A n \in Nat : Holds(q, n) <=> Holds(Tail(q), n) \/ n = Head(q)
         /\ \A n \in Nat : Holds(Tail(q), n) => Head(q) < n
<1>1. q \in Seq(Nat) /\ Increasing(q) /\ Nil \notin Seq(Nat)
  BY Zenon, BusAssumption DEF Queue
<1>2. /\ Tail(q) \in Seq(Nat) /\ Len(q) \in Nat /\ Len(q) >= 1 /\ Len(Tail(q)) = Len(q) - 1
      /\ \A i \in 1..(Len(q) - 1) : Tail(q)[i] = q[i + 1]
      /\ Head(q) = q[1] /\ Head(q) \in Nat
      /\ DOMAIN Tail(q) = 1..(Len(q) - 1) /\ DOMAIN q = 1..Len(q)
  BY <1>1
<1>3. Increasing(Tail(q))
  <2> SUFFICES ASSUME NEW i \in 1..(Len(q) - 1), NEW j \in 1..(Len(q) - 1), i < j
               PROVE  Tail(q)[i] < Tail(q)[j]
    BY Zenon, <1>2 DEF Increasing
  <2>1. i + 1 \in 1..Len(q) /\ j + 1 \in 1..Len(q) /\ i + 1 < j + 1
    BY <1>2
  <2> QED
    BY Zenon, <1>1, <1>2, <2>1 DEF Increasing
<1>4. ASSUME NEW n \in Nat, Holds(q, n) PROVE Holds(Tail(q), n) \/ n = Head(q)
  <2>1. PICK i \in 1..Len(q) : q[i] = n
    BY Zenon, <1>2, <1>4 DEF Holds
  <2>2. CASE i = 1
    BY Zenon, <1>2, <2>1, <2>2
  <2>3. CASE i # 1
    <3>1. i - 1 \in 1..(Len(q) - 1) /\ (i - 1) + 1 = i
      BY <1>2, <2>3
    <3>2. Tail(q)[i - 1] = n
      BY Zenon, <1>2, <2>1, <3>1
    <3> QED
      BY Zenon, <1>2, <3>1, <3>2 DEF Holds
  <2> QED
    BY Zenon, <2>2, <2>3
<1>5. ASSUME NEW n \in Nat, Holds(Tail(q), n) PROVE Holds(q, n) /\ Head(q) < n
  <2>1. PICK i \in 1..(Len(q) - 1) : Tail(q)[i] = n
    BY Zenon, <1>2, <1>5 DEF Holds
  <2>2. i + 1 \in 1..Len(q) /\ 1 \in 1..Len(q) /\ 1 < i + 1 /\ q[i + 1] = n
    BY <1>2, <2>1
  <2> QED
    BY Zenon, <1>1, <1>2, <2>2 DEF Holds, Increasing
<1>6. Holds(q, Head(q))
  <2>1. 1 \in 1..Len(q)
    BY <1>2
  <2> QED
    BY Zenon, <1>2, <2>1 DEF Holds
<1> QED
  BY Zenon, <1>1, <1>2, <1>3, <1>4, <1>5, <1>6 DEF Queue

(* What a step may do to the messages of one channel and subscriber: it    *)
(* leaves the call alone, and the queue too or makes sure there is one;    *)
SameCall(k) ==
  recv'[k].pc = recv[k].pc /\ recv'[k].item = recv[k].item /\ recv'[k].rest = recv[k].rest
SamePast(k) == Past(k)' = Past(k)
Ensured(k) ==
  /\ queues'[k] \in {queues[k], Bus!EnsureQueue(k)} /\ SameCall(k)
  /\ SamePast(k) /\ Put(k)' = Put(k)
(* takes the queue away, which an open call keeps;                         *)
Removed(k) ==
  /\ queues'[k] = Nil /\ recv'[k].pc = recv[k].pc /\ recv'[k].item = recv[k].item
  /\ recv'[k].rest = IF recv[k].pc = "waiting" /\ recv[k].rest = Nil THEN queues[k] ELSE recv[k].rest
  /\ SamePast(k) /\ Put(k)' = {}
(* appends the message just published;                                     *)
Appended(k) ==
  /\ queues'[k] = Append(Bus!EnsureQueue(k), published') /\ SameCall(k)
  /\ SamePast(k) /\ Put(k)' = Put(k) \cup {published'}
(* opens a call;                                                           *)
Opened(k) ==
  /\ queues'[k] = Bus!EnsureQueue(k) /\ recv[k].pc = "idle"
  /\ recv'[k].pc = "waiting" /\ recv'[k].item = Nil /\ recv'[k].rest = Nil
  /\ SamePast(k) /\ Put(k)' = Put(k)
(* takes the first message;                                                *)
Took(k) ==
  /\ recv[k].pc = "waiting" /\ recv[k].item = Nil /\ Bus!Source(k) # <<>>
  /\ recv'[k].pc = "waiting" /\ recv'[k].item = Head(Bus!Source(k))
  /\ \/ /\ recv[k].rest = Nil /\ recv'[k].rest = Nil /\ queues'[k] = Tail(queues[k])
     \/ /\ recv[k].rest # Nil /\ recv'[k].rest = Tail(recv[k].rest) /\ queues'[k] = queues[k]
  /\ SamePast(k) /\ Put(k)' = Put(k)
(* or closes the call, with the message in the books.                      *)
Closed(k) ==
  /\ queues'[k] = queues[k] /\ recv'[k].pc = "idle" /\ recv'[k].item = Nil /\ recv'[k].rest = Nil
  /\ Past(k)' = Past(k) \cup Taken(k) /\ Put(k)' = Put(k)

(* Each of these keeps the messages in line.                               *)
KeyMove(k) ==
  \/ Ensured(k) /\ published' \in {published, published + 1}
  \/ Removed(k) /\ published' = published
  \/ Appended(k) /\ published' = published + 1
  \/ (Opened(k) \/ Took(k) \/ Closed(k)) /\ published' = published

KeyInv(k) == queues[k] \in Queue /\ recv[k] \in CallType /\ InLine(k) /\ Kept(k)

(* The numbers in the line of a channel and subscriber.                    *)
LEMMA LineKept ==
  ASSUME NEW k, published \in Nat, KeyInv(k), KeyMove(k)
  PROVE  /\ InLine(k)' /\ Kept(k)' /\ queues'[k] \in Queue
         /\ recv'[k].rest \in Queue /\ recv'[k].item \in Nat \cup {Nil}
<1>1. /\ queues[k] \in Queue /\ recv[k].rest \in Queue /\ recv[k].item \in Nat \cup {Nil}
      /\ recv[k].pc \in {"idle", "waiting"} /\ InLine(k) /\ Kept(k) /\ Nil \notin Nat
  BY Zenon, BusAssumption DEF KeyInv, CallType
<1>2. /\ Bus!EnsureQueue(k) \in Queue /\ Bus!EnsureQueue(k) # Nil
      /\ \A n \in Nat : Holds(Bus!EnsureQueue(k), n) <=> n \in Queued(k)
  BY Zenon, <1>1, EmptyQueue DEF Bus!EnsureQueue, Queued
<1>3. CASE Ensured(k) /\ published' \in {published, published + 1}
  <2>1. Queued(k)' = Queued(k) /\ queues'[k] \in Queue /\ (queues[k] # Nil => queues'[k] # Nil)
    BY Zenon, <1>1, <1>2, <1>3 DEF Ensured, Queued
  <2>2. Left(k)' = Left(k) /\ Taken(k)' = Taken(k) /\ Past(k)' = Past(k) /\ Put(k)' = Put(k)
    BY Zenon, <1>3 DEF Ensured, SameCall, SamePast, Left, Taken
  <2>3. \A n \in Nat : n <= published => n <= published'
    BY <1>3
  <2>4. InLine(k)'
    BY Zenon, <1>1, <2>1, <2>2, <2>3 DEF InLine, Past, Taken, Left, Queued
  <2>5. Kept(k)'
    BY Zenon, <1>1, <1>3, <2>1, <2>2 DEF Kept, Ensured, SameCall
  <2> QED
    BY Zenon, <1>1, <1>3, <2>1, <2>4, <2>5 DEF Ensured, SameCall
<1>4. CASE Removed(k) /\ published' = published
  <2>1. Queued(k)' = {} /\ Taken(k)' = Taken(k) /\ Past(k)' = Past(k) /\ Put(k)' = {}
    BY Zenon, <1>4 DEF Removed, SamePast, Queued, Taken
  <2>2. recv'[k].rest \in Queue /\ (Left(k)' = Left(k) \/ Left(k)' = Queued(k))
    BY Zenon, <1>1, <1>4 DEF Removed, Left, Queued
  <2>3. InLine(k)'
    BY Zenon, <1>1, <1>4, <2>1, <2>2 DEF InLine, Before
  <2>4. Kept(k)'
    BY Zenon, <1>1, <1>4, <2>1 DEF Kept, Removed
  <2> QED
    BY Zenon, <1>1, <1>4, <2>2, <2>3, <2>4, EmptyQueue DEF Removed
<1>5. CASE Appended(k) /\ published' = published + 1
  <2>1. published' \in Nat /\ published < published' /\ \A n \in Nat : n <= published => n < published'
    BY <1>5
  <2>2. \A n \in Nat : Holds(Bus!EnsureQueue(k), n) => n < published'
    BY Zenon, <1>1, <1>2, <2>1 DEF InLine
  <2>3. /\ queues'[k] \in Queue /\ queues'[k] # Nil
        /\ \A n \in Nat : Holds(queues'[k], n) <=> Holds(Bus!EnsureQueue(k), n) \/ n = published'
    BY <1>2, <1>5, <2>1, <2>2, AppendQueue DEF Appended
  <2>4. Queued(k)' = Queued(k) \cup {published'}
    BY Zenon, <1>2, <2>1, <2>3 DEF Queued
  <2>5. /\ Left(k)' = Left(k) /\ Taken(k)' = Taken(k) /\ Past(k)' = Past(k)
        /\ Put(k)' = Put(k) \cup {published'}
    BY Zenon, <1>5 DEF Appended, SameCall, SamePast, Left, Taken
  <2>6. /\ \A n \in Past(k) \cup Taken(k) \cup Left(k) : n < published'
        /\ \A n \in Past(k) \cup Taken(k) \cup Left(k) \cup Queued(k) : n <= published'
    BY <1>1, <2>1 DEF InLine, Past, Taken, Left, Queued
  <2>7. InLine(k)'
    BY <1>1, <2>1, <2>4, <2>5, <2>6 DEF InLine, Before
  <2>8. Kept(k)'
    BY <1>1, <1>5, <2>3, <2>4, <2>5 DEF Kept, Appended, SameCall
  <2> QED
    BY Zenon, <1>1, <1>5, <2>3, <2>7, <2>8 DEF Appended, SameCall
<1>6. CASE Opened(k) /\ published' = published
  <2>1. Queued(k)' = Queued(k) /\ queues'[k] \in Queue /\ queues'[k] # Nil
    BY Zenon, <1>2, <1>6 DEF Opened, Queued
  <2>2. Left(k)' = {} /\ Taken(k)' = {} /\ Past(k)' = Past(k) /\ Put(k)' = Put(k)
    BY Zenon, <1>1, <1>6 DEF Opened, SamePast, Left, Taken
  <2>3. InLine(k)'
    BY Zenon, <1>1, <1>6, <2>1, <2>2 DEF InLine, Before
  <2>4. Taken(k) = {}
    BY Zenon, <1>1, <1>6 DEF Opened, Kept, Taken
  <2>5. Kept(k)'
    BY Zenon, <1>1, <1>6, <2>1, <2>2, <2>4 DEF Kept, Opened
  <2> QED
    BY Zenon, <1>6, <2>1, <2>3, <2>5, EmptyQueue DEF Opened
<1>7. CASE Took(k) /\ published' = published
  <2>1. Taken(k) = {} /\ Past(k)' = Past(k) /\ Put(k)' = Put(k)
    BY Zenon, <1>1, <1>7 DEF Took, Taken, SamePast
  <2>2. CASE recv[k].rest = Nil /\ recv'[k].rest = Nil /\ queues'[k] = Tail(queues[k])
    <3>1. queues[k] # Nil /\ queues[k] # <<>> /\ recv'[k].item = Head(queues[k])
      BY Zenon, <1>1, <1>7, <2>2 DEF Took, Kept, Bus!Source
    <3>2. /\ queues'[k] \in Queue /\ queues'[k] # Nil /\ recv'[k].item \in Nat
          /\ \A n \in Nat : Holds(queues[k], n) <=> Holds(queues'[k], n) \/ n = recv'[k].item
          /\ \A n \in Nat : Holds(queues'[k], n) => recv'[k].item < n
      BY <1>1, <2>2, <3>1, TailQueue
    <3>3. /\ Queued(k) = Queued(k)' \cup Taken(k)' /\ Left(k)' = {}
          /\ Before(Taken(k)', Queued(k)')
      BY Zenon, <2>2, <3>1, <3>2 DEF Queued, Taken, Left, Before
    <3>4. InLine(k)'
      BY Zenon, <1>1, <1>7, <2>1, <3>3 DEF InLine, Before
    <3>5. Kept(k)'
      BY Zenon, <1>1, <1>7, <2>1, <2>2, <3>2, <3>3 DEF Kept, Took
    <3> QED
      BY Zenon, <2>2, <3>2, <3>4, <3>5, EmptyQueue
  <2>3. CASE recv[k].rest # Nil /\ recv'[k].rest = Tail(recv[k].rest) /\ queues'[k] = queues[k]
    <3>1. recv[k].rest # <<>> /\ recv'[k].item = Head(recv[k].rest)
      BY Zenon, <1>7, <2>3 DEF Took, Bus!Source
    <3>2. /\ recv'[k].rest \in Queue /\ recv'[k].rest # Nil /\ recv'[k].item \in Nat
          /\ \A n \in Nat : Holds(recv[k].rest, n) <=> Holds(recv'[k].rest, n) \/ n = recv'[k].item
          /\ \A n \in Nat : Holds(recv'[k].rest, n) => recv'[k].item < n
      BY <1>1, <2>3, <3>1, TailQueue
    <3>3. /\ Left(k) = Left(k)' \cup Taken(k)' /\ Queued(k)' = Queued(k)
          /\ Before(Taken(k)', Left(k)')
      BY Zenon, <2>3, <3>1, <3>2 DEF Queued, Taken, Left, Before
    <3>4. InLine(k)'
      BY Zenon, <1>1, <1>7, <2>1, <3>3 DEF InLine, Before
    <3>5. Kept(k)'
      BY Zenon, <1>1, <1>7, <2>1, <2>3, <3>2, <3>3 DEF Kept, Took
    <3> QED
      BY Zenon, <1>1, <2>3, <3>2, <3>4, <3>5
  <2> QED
    BY Zenon, <1>7, <2>2, <2>3 DEF Took
<1>8. CASE Closed(k) /\ published' = published
  <2>1. /\ Queued(k)' = Queued(k) /\ Left(k)' = {} /\ Taken(k)' = {}
        /\ Past(k)' = Past(k) \cup Taken(k) /\ Put(k)' = Put(k)
    BY Zenon, <1>1, <1>8 DEF Closed, Queued, Left, Taken
  <2>2. InLine(k)'
    BY Zenon, <1>1, <1>8, <2>1 DEF InLine, Before
  <2>3. Kept(k)'
    BY Zenon, <1>1, <1>8, <2>1 DEF Kept, Closed
  <2> QED
    BY Zenon, <1>1, <1>8, <2>2, <2>3, EmptyQueue DEF Closed
<1> QED
  BY Zenon, <1>3, <1>4, <1>5, <1>6, <1>7, <1>8 DEF KeyMove

(* A step that moves each line as above, and keeps the shape of the rest.  *)
BusStep ==
  /\ \A k \in Bus!Keys : KeyMove(k)
  /\ \A k \in Bus!Keys :
       recv'[k].rest \in Queue /\ recv'[k].item \in Nat \cup {Nil} => recv'[k] \in CallType
  /\ queues' = [k \in Bus!Keys |-> queues'[k]] /\ recv' = [k \in Bus!Keys |-> recv'[k]]
  /\ published' \in Nat
  /\ subscribers' \in [Channels -> Subscribed] /\ knownAgents' \subseteq BusAgents
  /\ enqueued' \cup returned' \cup lost' \subseteq Nat \X Bus!Keys

(* Such a step keeps the invariant.                                        *)
LEMMA BusStepKeeps == ASSUME BusInv, BusStep PROVE BusInv'
<1>1. \A k \in Bus!Keys : KeyInv(k) /\ KeyMove(k) /\ published \in Nat
  BY Zenon DEF BusInv, BusType, KeyInv, BusStep
<1>2. \A k \in Bus!Keys :
        /\ InLine(k)' /\ Kept(k)' /\ queues'[k] \in Queue
        /\ recv'[k].rest \in Queue /\ recv'[k].item \in Nat \cup {Nil}
  BY Zenon, <1>1, LineKept
<1>3. \A k \in Bus!Keys : recv'[k] \in CallType
  BY Zenon, <1>2 DEF BusStep
<1>4. queues' \in [Bus!Keys -> Queue] /\ recv' \in [Bus!Keys -> CallType]
  BY Zenon, <1>2, <1>3 DEF BusStep
<1> QED
  BY Zenon, <1>2, <1>4 DEF BusInv, BusType, BusStep

(* It holds initially.                                                     *)
LEMMA BusInit == Bus!Init => BusInv
<1> SUFFICES ASSUME Bus!Init PROVE BusInv
  BY Zenon
<1> USE DEF Bus!Init
<1>1. /\ Bus!NoCall \in CallType /\ Bus!NoCall.pc = "idle"
      /\ Bus!NoCall.item = Nil /\ Bus!NoCall.rest = Nil
  BY Zenon, EmptyQueue DEF Bus!NoCall, CallType
<1>2. BusType
  <2>1. queues \in [Bus!Keys -> Queue] /\ recv \in [Bus!Keys -> CallType]
    BY Zenon, <1>1, EmptyQueue
  <2>2. subscribers \in [Channels -> Subscribed]
    BY Zenon DEF Subscribed
  <2>3. published \in Nat /\ knownAgents \subseteq BusAgents /\ enqueued \cup returned \cup lost \subseteq Nat \X Bus!Keys
    BY Zenon
  <2> QED
    BY Zenon, <2>1, <2>2, <2>3 DEF BusType
<1>3. ASSUME NEW k \in Bus!Keys PROVE InLine(k) /\ Kept(k)
  <2>1. queues[k] = Nil /\ recv[k] = Bus!NoCall /\ Nil \notin Nat
    BY Zenon, BusAssumption
  <2>2. Queued(k) = {} /\ Left(k) = {} /\ Taken(k) = {} /\ Past(k) = {} /\ Put(k) = {}
    BY Zenon, <1>1, <2>1 DEF Queued, Left, Taken, Past, Put
  <2> QED
    BY Zenon, <1>1, <2>1, <2>2 DEF InLine, Kept, Before
<1> QED
  BY Zenon, <1>2, <1>3 DEF BusInv

(* The records of the calls.                                               *)
LEMMA CallRecords ==
  ASSUME NEW r \in CallType
  PROVE  /\ \A s \in {"waiting", "done"} :
              /\ [r EXCEPT !.shut = s] \in CallType /\ [r EXCEPT !.shut = s].pc = r.pc
              /\ [r EXCEPT !.shut = s].item = r.item /\ [r EXCEPT !.shut = s].rest = r.rest
         /\ \A q : q \in Queue =>
              /\ [r EXCEPT !.rest = q] \in CallType /\ [r EXCEPT !.rest = q].pc = r.pc
              /\ [r EXCEPT !.rest = q].item = r.item /\ [r EXCEPT !.rest = q].rest = q
         /\ [r EXCEPT !.registered = FALSE] \in CallType /\ [r EXCEPT !.registered = FALSE].pc = r.pc
         /\ [r EXCEPT !.registered = FALSE].item = r.item /\ [r EXCEPT !.registered = FALSE].rest = r.rest
  BY Zenon DEF CallType

(* Those of receive() when it begins, and after unsubscribe().             *)
LEMMA CallEnds ==
  ASSUME NEW r \in CallType, NEW x \in BOOLEAN
  PROVE  /\ [r EXCEPT !.unsub = @ \/ x, !.registered = FALSE] \in CallType
         /\ [r EXCEPT !.unsub = @ \/ x, !.registered = FALSE].pc = r.pc
         /\ [r EXCEPT !.unsub = @ \/ x, !.registered = FALSE].item = r.item
         /\ [r EXCEPT !.unsub = @ \/ x, !.registered = FALSE].rest = r.rest
         /\ [Bus!NoCall EXCEPT !.pc = "waiting", !.shut = "new", !.registered = TRUE, !.timed = x] \in CallType
         /\ [Bus!NoCall EXCEPT !.pc = "waiting", !.shut = "new", !.registered = TRUE, !.timed = x].pc = "waiting"
         /\ [Bus!NoCall EXCEPT !.pc = "waiting", !.shut = "new", !.registered = TRUE, !.timed = x].item = Nil
         /\ [Bus!NoCall EXCEPT !.pc = "waiting", !.shut = "new", !.registered = TRUE, !.timed = x].rest = Nil
<1>1. (r.unsub \/ x) \in BOOLEAN
  BY Zenon
<1>2. Nil \in Queue
  BY Zenon, EmptyQueue
<1> QED
  BY Zenon, <1>1, <1>2 DEF CallType, Bus!NoCall

(* The facts about the bus that the steps use.                             *)
LEMMA BusFacts ==
  ASSUME BusInv
  PROVE  /\ published \in Nat /\ queues \in [Bus!Keys -> Queue] /\ recv \in [Bus!Keys -> CallType]
         /\ subscribers \in [Channels -> Subscribed] /\ knownAgents \subseteq BusAgents
         /\ enqueued \subseteq Nat \X Bus!Keys
         /\ returned \subseteq Nat \X Bus!Keys /\ lost \subseteq Nat \X Bus!Keys
  BY Zenon DEF BusInv, BusType

(* A step that leaves queues, calls and books alone.                       *)
LEMMA BusIdles ==
  ASSUME BusInv, queues' = queues, recv' = recv,
         published' = published, enqueued' = enqueued, returned' = returned, lost' = lost,
         subscribers' \in [Channels -> Subscribed], knownAgents' \subseteq BusAgents
  PROVE  BusInv'
  BY ZenonT(60) DEF BusInv, BusType, InLine, Kept, Queued, Left, Taken, Past, Put

(* The open call of a queue that is removed.                               *)
LEMMA DetachedCall ==
  ASSUME BusInv, NEW k \in Bus!Keys
  PROVE  /\ Bus!Detached(k) \in CallType
         /\ Bus!Detached(k).pc = recv[k].pc /\ Bus!Detached(k).item = recv[k].item
         /\ Bus!Detached(k).rest = IF recv[k].pc = "waiting" /\ recv[k].rest = Nil THEN queues[k]
                                   ELSE recv[k].rest
<1>1. recv[k] \in CallType /\ queues[k] \in Queue
  BY Zenon, BusFacts
<1>2. CASE recv[k].pc = "waiting" /\ recv[k].rest = Nil
  <2>1. Bus!Detached(k) = [recv[k] EXCEPT !.rest = queues[k]]
    BY Zenon, <1>2 DEF Bus!Detached, Bus!Waiting
  <2>2. /\ [recv[k] EXCEPT !.rest = queues[k]] \in CallType
        /\ [recv[k] EXCEPT !.rest = queues[k]].pc = recv[k].pc
        /\ [recv[k] EXCEPT !.rest = queues[k]].item = recv[k].item
        /\ [recv[k] EXCEPT !.rest = queues[k]].rest = queues[k]
    BY ZenonT(60), <1>1, CallRecords
  <2> QED
    BY Zenon, <1>2, <2>1, <2>2
<1> QED
  BY Zenon, <1>1, <1>2 DEF Bus!Detached, Bus!Waiting

(* start() and stop().                                                     *)
LEMMA StartStopKeep == ASSUME BusInv, Bus!Start \/ Bus!Stop PROVE BusInv'
<1>1. CASE Bus!Start
  <2>1. /\ published' = published /\ enqueued' = {} /\ returned' = returned /\ lost' = lost
        /\ queues' = [k \in Bus!Keys |-> Nil]
        /\ recv' = [k \in Bus!Keys |-> [Bus!Detached(k) EXCEPT !.registered = FALSE]]
    BY Zenon, <1>1 DEF Bus!Start
  <2>2. subscribers' \in [Channels -> Subscribed] /\ knownAgents' \subseteq BusAgents
    BY Zenon, <1>1 DEF Bus!Start, Subscribed
  <2>3. ASSUME NEW k \in Bus!Keys PROVE Removed(k) /\ recv'[k] \in CallType
    <3>1. /\ Bus!Detached(k) \in CallType
          /\ Bus!Detached(k).pc = recv[k].pc /\ Bus!Detached(k).item = recv[k].item
          /\ Bus!Detached(k).rest = IF recv[k].pc = "waiting" /\ recv[k].rest = Nil THEN queues[k]
                                    ELSE recv[k].rest
      BY Zenon, DetachedCall
    <3>2. /\ recv'[k] \in CallType /\ recv'[k].pc = recv[k].pc /\ recv'[k].item = recv[k].item
          /\ recv'[k].rest = Bus!Detached(k).rest
      BY Zenon, <2>1, <3>1, CallRecords
    <3> QED
      BY Zenon, <2>1, <3>1, <3>2 DEF Removed, SamePast, Past, Put
  <2>4. \A k \in Bus!Keys : KeyMove(k) /\ recv'[k] \in CallType
    BY Zenon, <2>1, <2>3 DEF KeyMove
  <2>5. queues' = [k \in Bus!Keys |-> queues'[k]] /\ recv' = [k \in Bus!Keys |-> recv'[k]]
    BY Zenon, <2>1
  <2>6. BusStep
    BY Zenon, <2>1, <2>2, <2>4, <2>5, BusFacts DEF BusStep
  <2> QED
    BY Zenon, <2>6, BusStepKeeps
<1>2. CASE Bus!Stop
  <2>1. /\ published' = published /\ enqueued' = enqueued /\ returned' = returned /\ lost' = lost
        /\ subscribers' = subscribers /\ knownAgents' = knownAgents /\ queues' = queues
        /\ recv' = [k \in Bus!Keys |-> Bus!Signalled(k)]
    BY Zenon, <1>2 DEF Bus!Stop, Bus!books
  <2>2. ASSUME NEW k \in Bus!Keys PROVE Ensured(k) /\ recv'[k] \in CallType
    <3>1. recv'[k] \in CallType /\ SameCall(k)
      BY Zenon, <2>1, BusFacts, CallRecords DEF Bus!Signalled, SameCall
    <3> QED
      BY Zenon, <2>1, <3>1 DEF Ensured, SamePast, Past, Put
  <2>3. queues' = [k \in Bus!Keys |-> queues'[k]] /\ recv' = [k \in Bus!Keys |-> recv'[k]]
    BY Zenon, <2>1, BusFacts
  <2>4. BusStep
    BY Zenon, <2>1, <2>2, <2>3, BusFacts DEF BusStep, KeyMove
  <2> QED
    BY Zenon, <2>4, BusStepKeeps
<1> QED
  BY Zenon, <1>1, <1>2

(* Channels and subscriptions.                                             *)
LEMMA SubscriptionsKeep ==
  ASSUME BusInv, NEW c \in Channels, NEW a \in BusAgents,
         Bus!Subscribe(c, a) \/ Bus!Unsubscribe(c, a)
  PROVE  BusInv'
<1>1. <<c, a>> \in Bus!Keys
  BY Zenon DEF Bus!Keys
<1>3. CASE Bus!Subscribe(c, a)
  <2>1. /\ published' = published /\ enqueued' = enqueued /\ returned' = returned /\ lost' = lost
        /\ recv' = recv /\ knownAgents' = knownAgents \cup {a}
        /\ queues' = queues \/ Bus!EnsureQueues({<<c, a>>})
    BY Zenon, <1>3 DEF Bus!Subscribe, Bus!books
  <2>2. /\ subscribers' = subscribers \/ subscribers' = [subscribers EXCEPT ![c] = @ \cup {a}]
        /\ subscribers[c] # Nil
    BY Zenon, <1>3 DEF Bus!Subscribe, Bus!Exists
  <2>3. subscribers' \in [Channels -> Subscribed] /\ knownAgents' \subseteq BusAgents
    BY <2>1, <2>2, BusFacts DEF Subscribed
  <2>4. /\ \A k \in Bus!Keys : queues'[k] \in {queues[k], Bus!EnsureQueue(k)}
        /\ queues' = [k \in Bus!Keys |-> queues'[k]] /\ recv' = [k \in Bus!Keys |-> recv'[k]]
    BY Zenon, <2>1, BusFacts DEF Bus!EnsureQueues
  <2>5. \A k \in Bus!Keys : KeyMove(k) /\ recv'[k] \in CallType
    BY Zenon, <2>1, <2>4, BusFacts DEF KeyMove, Ensured, SameCall, SamePast, Past, Put
  <2>6. BusStep
    BY Zenon, <2>1, <2>3, <2>4, <2>5, BusFacts DEF BusStep
  <2> QED
    BY Zenon, <2>6, BusStepKeeps
<1>4. CASE Bus!Unsubscribe(c, a)
  <2>1. /\ published' = published /\ returned' = returned /\ lost' = lost
        /\ enqueued' = {e \in enqueued : e[2] # <<c, a>>} /\ knownAgents' = knownAgents
        /\ queues' = [queues EXCEPT ![<<c, a>>] = Nil]
        /\ recv' = [recv EXCEPT ![<<c, a>>] =
             [Bus!Detached(<<c, a>>) EXCEPT !.unsub = @ \/ recv[<<c, a>>].registered, !.registered = FALSE]]
    BY Zenon, <1>4 DEF Bus!Unsubscribe
  <2>2. subscribers' \in [Channels -> Subscribed]
    BY <1>4, BusFacts DEF Bus!Unsubscribe, Bus!Exists, Subscribed
  <2>3. PICK k : k = <<c, a>>
    BY Zenon
  <2>4. k \in Bus!Keys /\ recv[k].registered \in BOOLEAN
    BY Zenon, <1>1, <2>3, BusFacts DEF CallType
  <2>5. /\ queues'[k] = Nil
        /\ recv'[k] = [Bus!Detached(k) EXCEPT !.unsub = @ \/ recv[k].registered, !.registered = FALSE]
    BY Zenon, <2>1, <2>3, <2>4, BusFacts
  <2>6. /\ recv'[k] \in CallType /\ recv'[k].pc = recv[k].pc /\ recv'[k].item = recv[k].item
        /\ recv'[k].rest = Bus!Detached(k).rest
    <3>1. PICK r \in CallType : r = Bus!Detached(k)
      BY Zenon, <2>4, DetachedCall
    <3>2. PICK x \in BOOLEAN : x = recv[k].registered
      BY Zenon, <2>4
    <3>3. recv'[k] = [r EXCEPT !.unsub = @ \/ x, !.registered = FALSE]
      BY Zenon, <2>5, <3>1, <3>2
    <3>4. /\ recv'[k] \in CallType /\ recv'[k].pc = r.pc /\ recv'[k].item = r.item
          /\ recv'[k].rest = r.rest
      BY ZenonT(60), <3>3, CallEnds
    <3> QED
      BY Zenon, <2>4, <3>1, <3>4, DetachedCall
  <2>7. Removed(k)
    BY Zenon, <2>1, <2>3, <2>4, <2>5, <2>6, DetachedCall DEF Removed, SamePast, Past, Put
  <2>8. ASSUME NEW j \in Bus!Keys, j # k PROVE Ensured(j) /\ recv'[j] \in CallType
    <3>1. queues'[j] = queues[j] /\ recv'[j] = recv[j]
      BY Zenon, <2>1, <2>3, <2>8, BusFacts
    <3>2. Put(j)' = Put(j) /\ Past(j)' = Past(j)
      BY Zenon, <2>1, <2>3, <2>8 DEF Put, Past
    <3> QED
      BY Zenon, <3>1, <3>2, BusFacts DEF Ensured, SameCall, SamePast
  <2>9. \A j \in Bus!Keys : KeyMove(j) /\ recv'[j] \in CallType
    BY Zenon, <2>1, <2>6, <2>7, <2>8 DEF KeyMove
  <2>10. queues' = [j \in Bus!Keys |-> queues'[j]] /\ recv' = [j \in Bus!Keys |-> recv'[j]]
    BY Zenon, <2>1, BusFacts
  <2>11. BusStep
    BY Zenon, <2>1, <2>2, <2>9, <2>10, BusFacts DEF BusStep
  <2> QED
    BY Zenon, <2>11, BusStepKeeps
<1> QED
  BY Zenon, <1>3, <1>4

(* The delivery of a message to the queues of its targets.                 *)
LEMMA DeliverKeeps ==
  ASSUME BusInv, NEW K \in SUBSET Bus!Keys, Bus!Deliver(K),
         subscribers' \in [Channels -> Subscribed], knownAgents' \subseteq BusAgents
  PROVE  BusInv'
<1> DEFINE room == {k \in K : Len(Bus!EnsureQueue(k)) < MaxQueue}
<1>1. /\ published' = published + 1 /\ recv' = recv /\ returned' = returned /\ lost' = lost
      /\ queues' = [k \in Bus!Keys |-> IF k \in K THEN Bus!EnqueueOrDrop(Bus!EnsureQueue(k), published + 1)
                                       ELSE queues[k]]
      /\ enqueued' = enqueued \cup {<<published + 1, k>> : k \in room}
  BY Zenon DEF Bus!Deliver
<1>2. ASSUME NEW k \in Bus!Keys PROVE Put(k)' = IF k \in room THEN Put(k) \cup {published + 1} ELSE Put(k)
  <2>1. published + 1 \in Nat
    BY BusFacts
  <2> QED
    BY Zenon, <1>1, <2>1 DEF Put
<1>3. ASSUME NEW k \in Bus!Keys PROVE KeyMove(k)
  <2>1. SameCall(k) /\ SamePast(k)
    BY Zenon, <1>1 DEF SameCall, SamePast, Past
  <2>2. CASE k \in room
    BY Zenon, <1>1, <1>2, <2>1, <2>2 DEF KeyMove, Appended, Bus!EnqueueOrDrop
  <2>3. CASE k \notin room
    <3>1. queues'[k] \in {queues[k], Bus!EnsureQueue(k)}
      BY Zenon, <1>1, <2>3 DEF Bus!EnqueueOrDrop
    <3> QED
      BY Zenon, <1>1, <1>2, <2>1, <2>3, <3>1 DEF KeyMove, Ensured
  <2> QED
    BY Zenon, <2>2, <2>3
<1>4. queues' = [k \in Bus!Keys |-> queues'[k]] /\ recv' = [k \in Bus!Keys |-> recv'[k]]
  BY Zenon, <1>1, BusFacts
<1>5. published' \in Nat /\ enqueued' \cup returned' \cup lost' \subseteq Nat \X Bus!Keys
  BY <1>1, BusFacts
<1>6. \A k \in Bus!Keys : recv'[k] \in CallType
  BY Zenon, <1>1, BusFacts
<1>7. BusStep
  BY Zenon, <1>3, <1>4, <1>5, <1>6 DEF BusStep
<1> QED
  BY Zenon, <1>7, BusStepKeeps

(* publish() and send_direct().                                            *)
LEMMA PublishKeeps ==
  ASSUME BusInv, NEW c \in Channels, Bus!Publish(c) \/ Bus!SendDirect(c)
  PROVE  BusInv'
<1>1. CASE Bus!Publish(c)
  <2>1. subscribers[c] \subseteq BusAgents /\ knownAgents \subseteq BusAgents
    BY Zenon, <1>1, BusFacts DEF Bus!Publish, Bus!Exists, Subscribed
  <2>2. PICK K \in SUBSET Bus!Keys : Bus!Deliver(K)
    <3>1. {c} \X (IF TypeOf[c] = "BROADCAST" THEN knownAgents ELSE subscribers[c]) \in SUBSET Bus!Keys
      BY Zenon, <2>1 DEF Bus!Keys
    <3> QED
      BY Zenon, <1>1, <3>1 DEF Bus!Publish
  <2>3. subscribers' \in [Channels -> Subscribed] /\ knownAgents' \subseteq BusAgents
    BY Zenon, <1>1, BusFacts DEF Bus!Publish, Bus!busVars
  <2> QED
    BY Zenon, <2>2, <2>3, DeliverKeeps
<1>2. CASE Bus!SendDirect(c)
  <2>1. PairOf[c] \subseteq BusAgents
    BY Zenon, BusAssumption
  <2>2. Bus!Deliver({c} \X PairOf[c]) /\ {c} \X PairOf[c] \in SUBSET Bus!Keys
    BY Zenon, <1>2, <2>1 DEF Bus!SendDirect, Bus!Keys
  <2>3. /\ knownAgents' = knownAgents \cup PairOf[c]
        /\ subscribers' = [subscribers EXCEPT ![c] =
             IF subscribers[c] = Nil THEN PairOf[c] ELSE subscribers[c] \cup PairOf[c]]
    BY Zenon, <1>2 DEF Bus!SendDirect
  <2>4. (IF subscribers[c] = Nil THEN PairOf[c] ELSE subscribers[c] \cup PairOf[c]) \in Subscribed
    BY Zenon, <2>1, BusFacts DEF Subscribed
  <2>5. subscribers' \in [Channels -> Subscribed] /\ knownAgents' \subseteq BusAgents
    BY Zenon, <2>1, <2>3, <2>4, BusFacts
  <2> QED
    BY Zenon, <2>2, <2>5, DeliverKeeps
<1> QED
  BY Zenon, <1>1, <1>2

(* A step of the receive() of one channel and subscriber.                  *)
LEMMA CallStepKeeps ==
  ASSUME BusInv, NEW k \in Bus!Keys, KeyMove(k),
         recv'[k].rest \in Queue /\ recv'[k].item \in Nat \cup {Nil} => recv'[k] \in CallType,
         NEW q, queues' = [queues EXCEPT ![k] = q], NEW r, recv' = [recv EXCEPT ![k] = r],
         published' = published, enqueued' = enqueued,
         returned \subseteq returned', returned' \subseteq returned \cup (Nat \X {k}),
         lost \subseteq lost', lost' \subseteq lost \cup (Nat \X {k}),
         subscribers' = subscribers, knownAgents' = knownAgents
  PROVE  BusInv'
<1>1. ASSUME NEW j \in Bus!Keys, j # k PROVE KeyMove(j) /\ recv'[j] \in CallType
  <2>1. queues'[j] = queues[j] /\ recv'[j] = recv[j]
    BY Zenon, <1>1, BusFacts
  <2>2. Put(j)' = Put(j)
    BY Zenon DEF Put
  <2>3. Past(j)' = Past(j)
    BY Zenon, <1>1 DEF Past
  <2> QED
    BY Zenon, <2>1, <2>2, <2>3, BusFacts DEF KeyMove, Ensured, SameCall, SamePast
<1>2. queues' = [j \in Bus!Keys |-> queues'[j]] /\ recv' = [j \in Bus!Keys |-> recv'[j]]
  BY Zenon, BusFacts
<1>3. enqueued' \cup returned' \cup lost' \subseteq Nat \X Bus!Keys
  BY Zenon, BusFacts
<1>4. BusStep
  BY Zenon, <1>1, <1>2, <1>3, BusFacts DEF BusStep
<1> QED
  BY Zenon, <1>4, BusStepKeeps

(* The first step of receive(), of its get_task and of its shutdown_task.  *)
LEMMA ReceiveKeeps ==
  ASSUME BusInv, NEW c \in Channels, NEW a \in BusAgents, Bus!Receive(c, a)
  PROVE  BusInv'
<1>1. PICK k \in Bus!Keys : k = <<c, a>>
  BY Zenon DEF Bus!Keys
<1>2. PICK t \in BOOLEAN :
        recv' = [recv EXCEPT ![k] = [Bus!NoCall EXCEPT !.pc = "waiting", !.shut = "new",
                                                       !.registered = TRUE, !.timed = t]]
  BY Zenon, <1>1 DEF Bus!Receive
<1>3. PICK r : r = [Bus!NoCall EXCEPT !.pc = "waiting", !.shut = "new", !.registered = TRUE, !.timed = t]
  BY Zenon
<1>4. recv[k] \in CallType
  BY Zenon, <1>1, BusFacts
<1>5. r \in CallType /\ r.pc = "waiting" /\ r.item = Nil /\ r.rest = Nil
  BY Zenon, <1>3, <1>4, CallEnds
<1>6. recv' = [recv EXCEPT ![k] = r] /\ recv'[k] = r
  BY Zenon, <1>1, <1>2, <1>3, BusFacts
<1>7. /\ recv[k].pc = "idle" /\ published' = published /\ enqueued' = enqueued
      /\ returned' = returned /\ lost' = lost /\ subscribers' = subscribers /\ knownAgents' = knownAgents
      /\ queues' = [j \in Bus!Keys |-> IF j \in {k} THEN Bus!EnsureQueue(j) ELSE queues[j]]
  BY Zenon, <1>1 DEF Bus!Receive, Bus!EnsureQueues, Bus!books, Bus!busVars
<1>8. PICK q : q = Bus!EnsureQueue(k)
  BY Zenon
<1>9. queues' = [queues EXCEPT ![k] = q] /\ queues'[k] = Bus!EnsureQueue(k)
  BY Zenon, <1>1, <1>7, <1>8, BusFacts
<1>10. KeyMove(k)
  BY Zenon, <1>5, <1>6, <1>7, <1>9 DEF KeyMove, Opened, SamePast, Past, Put
<1> QED
  BY ZenonT(60), <1>1, <1>5, <1>6, <1>7, <1>9, <1>10, CallStepKeeps

(* The get_task takes a message.                                           *)
LEMMA GetTaskKeeps ==
  ASSUME BusInv, NEW k \in Bus!Keys, Bus!GetTask(k)
  PROVE  BusInv'
<1>1. recv[k] \in CallType /\ recv \in [Bus!Keys -> CallType] /\ queues \in [Bus!Keys -> Queue]
  BY Zenon, BusFacts
<1>2. /\ recv[k].pc = "waiting" /\ recv[k].item = Nil /\ Bus!Source(k) # <<>>
      /\ published' = published /\ enqueued' = enqueued /\ returned' = returned /\ lost' = lost
      /\ subscribers' = subscribers /\ knownAgents' = knownAgents
  BY Zenon DEF Bus!GetTask, Bus!Waiting, Bus!books, Bus!busVars
<1>3. PICK h, s : h = Head(Bus!Source(k)) /\ s = IF recv[k].rest = Nil THEN Nil ELSE Tail(recv[k].rest)
  BY Zenon
<1>4. PICK r : r = [recv[k] EXCEPT !.item = h, !.rest = s]
  BY Zenon
<1>5. recv' = [recv EXCEPT ![k] = r] /\ recv'[k] = r
  <2>1. recv' = [recv EXCEPT ![k].item = h, ![k].rest = s]
    BY Zenon, <1>3 DEF Bus!GetTask
  <2> QED
    BY Zenon, <1>1, <1>4, <2>1 DEF CallType
<1>6. /\ r.pc = recv[k].pc /\ r.item = h /\ r.rest = s
      /\ h \in Nat \cup {Nil} /\ s \in Queue => r \in CallType
  BY Zenon, <1>1, <1>4 DEF CallType
<1>7. PICK q : queues' = [queues EXCEPT ![k] = q] /\ q = IF recv[k].rest = Nil THEN Tail(queues[k]) ELSE queues[k]
  BY Zenon, <1>1 DEF Bus!GetTask
<1>8. queues'[k] = q
  BY Zenon, <1>1, <1>7
<1>9. Took(k)
  BY Zenon, <1>2, <1>3, <1>5, <1>6, <1>7, <1>8 DEF Took, SamePast, Past, Put
<1> QED
  BY Zenon, <1>2, <1>5, <1>6, <1>7, <1>9, CallStepKeeps DEF KeyMove

(* The other steps of receive() and its cancellation.                      *)
LEMMA ReturnsKeep ==
  ASSUME BusInv, NEW k \in Bus!Keys,
         \/ Bus!ShutdownTask(k) \/ Bus!ReturnMessage(k) \/ Bus!ReturnNone(k) \/ Bus!CancelReceive(k)
  PROVE  BusInv'
<1>1. /\ recv[k] \in CallType /\ recv \in [Bus!Keys -> CallType] /\ queues \in [Bus!Keys -> Queue]
      /\ Nil \notin Nat
  BY Zenon, BusFacts, BusAssumption
<1>2. recv[k].item \in Nat \cup {Nil}
  BY Zenon, <1>1 DEF CallType
<1>3. queues' = queues /\ queues' = [queues EXCEPT ![k] = queues[k]] /\ queues'[k] = queues[k]
  <2>1. queues' = queues
    BY Zenon DEF Bus!ShutdownTask, Bus!ReturnMessage, Bus!ReturnNone, Bus!CancelReceive
  <2> QED
    BY Zenon, <1>1, <2>1
<1>4. /\ published' = published /\ enqueued' = enqueued
      /\ subscribers' = subscribers /\ knownAgents' = knownAgents
  BY Zenon DEF Bus!ShutdownTask, Bus!ReturnMessage, Bus!ReturnNone, Bus!CancelReceive, Bus!books, Bus!busVars
<1>5. CASE Bus!ShutdownTask(k)
  <2>1. PICK s \in {"waiting", "done"} : recv' = [recv EXCEPT ![k].shut = s]
    BY Zenon, <1>5 DEF Bus!ShutdownTask
  <2>2. recv' = [recv EXCEPT ![k] = [recv[k] EXCEPT !.shut = s]] /\ recv'[k] = [recv[k] EXCEPT !.shut = s]
    BY Zenon, <1>1, <2>1
  <2>3. recv'[k] \in CallType /\ SameCall(k)
    BY ZenonT(60), <1>1, <2>2, CallRecords DEF SameCall
  <2>4. returned' = returned /\ lost' = lost
    BY Zenon, <1>5 DEF Bus!ShutdownTask, Bus!books
  <2>5. KeyMove(k)
    BY Zenon, <1>3, <1>4, <2>3, <2>4 DEF KeyMove, Ensured, SamePast, Past, Put
  <2> QED
    BY Zenon, <1>3, <1>4, <2>2, <2>3, <2>4, <2>5, CallStepKeeps
<1>6. CASE Bus!ReturnMessage(k) \/ Bus!ReturnNone(k) \/ Bus!CancelReceive(k)
  <2>1. recv' = [recv EXCEPT ![k] = Bus!NoCall]
    BY Zenon, <1>6 DEF Bus!ReturnMessage, Bus!ReturnNone, Bus!CancelReceive, Bus!Finished
  <2>2. /\ recv'[k] \in CallType /\ recv'[k].pc = "idle" /\ recv'[k].item = Nil /\ recv'[k].rest = Nil
    BY Zenon, <1>1, <2>1, EmptyQueue DEF Bus!NoCall, CallType
  <2>3. \/ recv[k].item = Nil /\ returned' = returned /\ lost' = lost
        \/ recv[k].item # Nil /\ returned' = returned \cup {<<recv[k].item, k>>} /\ lost' = lost
        \/ recv[k].item # Nil /\ returned' = returned /\ lost' = lost \cup {<<recv[k].item, k>>}
    BY Zenon, <1>6 DEF Bus!ReturnMessage, Bus!ReturnNone, Bus!CancelReceive, Bus!books
  <2>4. Past(k)' = Past(k) \cup Taken(k)
    BY Zenon, <1>1, <1>2, <2>3 DEF Past, Taken
  <2>5. /\ returned \subseteq returned' /\ returned' \subseteq returned \cup (Nat \X {k})
        /\ lost \subseteq lost' /\ lost' \subseteq lost \cup (Nat \X {k})
    BY <1>2, <2>3
  <2>6. KeyMove(k)
    BY Zenon, <1>3, <1>4, <2>2, <2>4 DEF KeyMove, Closed, Put
  <2> QED
    BY Zenon, <1>3, <1>4, <2>1, <2>2, <2>5, <2>6, CallStepKeeps
<1> QED
  BY Zenon, <1>5, <1>6

(* The message bus keeps its invariant.                                    *)
LEMMA BusAlways == Bus!Spec => []BusInv
<1>1. ASSUME BusInv, [Bus!Next]_(Bus!vars) PROVE BusInv'
  <2>1. CASE UNCHANGED Bus!vars
    BY Zenon, <1>1, <2>1, BusIdles, BusFacts DEF Bus!vars, Bus!books, Bus!busVars
  <2>2. ASSUME NEW c \in Channels, Bus!CreateChannel(c) \/ Bus!Publish(c) \/ Bus!SendDirect(c) PROVE BusInv'
    <3>1. CASE Bus!CreateChannel(c)
      <4>1. subscribers' \in [Channels -> Subscribed]
        BY Zenon, <1>1, <3>1, BusFacts DEF Bus!CreateChannel, Subscribed
      <4> QED
        BY Zenon, <1>1, <3>1, <4>1, BusIdles, BusFacts DEF Bus!CreateChannel, Bus!books
    <3> QED
      BY Zenon, <1>1, <2>2, <3>1, PublishKeeps
  <2>3. ASSUME NEW c \in Channels, NEW a \in BusAgents, Bus!Subscribe(c, a) \/ Bus!Unsubscribe(c, a)
        PROVE  BusInv'
    BY Zenon, <1>1, <2>3, SubscriptionsKeep
  <2>4. ASSUME NEW k \in Pollers, Bus!Receive(k[1], k[2]) \/ Bus!ReceiveStep(k) \/ Bus!CancelReceive(k)
        PROVE  BusInv'
    <3>1. k \in Bus!Keys /\ k[1] \in Channels /\ k[2] \in BusAgents
      BY Zenon, BusAssumption DEF Bus!Keys
    <3> QED
      BY Zenon, <1>1, <2>4, <3>1, ReceiveKeeps, GetTaskKeeps, ReturnsKeep DEF Bus!ReceiveStep
  <2> QED
    BY Zenon, <1>1, <2>1, <2>2, <2>3, <2>4, StartStopKeep DEF Bus!Next
<1> QED
  BY <1>1, BusInit, PTL DEF Bus!Spec

(* A subscriber gets the messages of a channel in the order of their       *)
(* publication and none twice: with any number of channels, agents and     *)
(* messages, through restarts, removed subscriptions and cancelled calls   *)
(* (ReceivedInOrder of the message bus).                                   *)
THEOREM ReceivedAlwaysInOrder == Bus!Spec => []ReceivedInOrder
<1>1. ASSUME BusInv, NEW k \in Pollers, recv[k].item # Nil,
             NEW e \in returned \cup lost, e[2] = k
      PROVE  e[1] < recv[k].item
  <2>1. k \in Bus!Keys
    BY Zenon, BusAssumption DEF Bus!Keys
  <2>2. recv[k].item \in Nat /\ Before(Past(k), Taken(k))
    BY Zenon, <1>1, <2>1 DEF BusInv, BusType, CallType, InLine
  <2>3. e \in Nat \X Bus!Keys
    BY Zenon, <1>1, BusFacts
  <2>4. e[1] \in Past(k)
    BY <1>1, <2>3 DEF Past
  <2> QED
    BY Zenon, <2>2, <2>4 DEF Before, Taken
<1>2. BusInv => ReceivedInOrder
  BY Zenon, <1>1 DEF ReceivedInOrder, Bus!ReceivedInOrder
<1> QED
  BY <1>2, BusAlways, PTL

(* A message that was put into a queue is in it, in the hands of the       *)
(* receive() that took it, or was returned, unless its caller was          *)
(* cancelled (NothingVanishes of the message bus).                         *)
THEOREM NothingEverVanishes == Bus!Spec => []NothingVanishes
<1>1. ASSUME BusInv, NEW e \in enqueued
      PROVE  \/ \E i \in DOMAIN queues[e[2]] : queues[e[2]][i] = e[1]
             \/ e[1] = recv[e[2]].item \/ e \in returned \cup lost
  <2>1. PICK n \in Nat, k \in Bus!Keys : e = <<n, k>>
    BY <1>1, BusFacts
  <2>2. n \in Queued(k) \cup Taken(k) \cup Past(k)
    BY Zenon, <1>1, <2>1 DEF BusInv, Kept, Put
  <2> QED
    BY Zenon, <2>1, <2>2 DEF Queued, Holds, Taken, Past
<1>2. BusInv => NothingVanishes
  BY Zenon, <1>1 DEF NothingVanishes, Bus!NothingVanishes
<1> QED
  BY <1>2, BusAlways, PTL

(* What a receive() needs to notice that the bus stopped or that its       *)
(* subscription was removed: a result, a wake-up, or the first step of a   *)
(* shutdown_task that will find the event set.                             *)
Noticing(k) == Bus!Woken(k) \/ recv[k].item # Nil \/ (recv[k].shut = "new" /\ shutdown)
NoneSleepsOn ==
  starts <= 1 => \A k \in Pollers : Bus!Waiting(k) /\ (~running \/ ~recv[k].registered) => Noticing(k)

(* An open call is registered unless unsubscribe() has resolved its        *)
(* future; its shutdown_task exists, and does not wait for a shutdown that *)
(* has happened.                                                           *)
Alert(k) ==
  Bus!Waiting(k) => /\ recv[k].registered \/ recv[k].unsub
                    /\ recv[k].shut \in {"new", "waiting", "done"}
                    /\ ~running => recv[k].shut # "waiting"
FirstRun ==
  /\ starts \in Nat
  /\ starts = 0 => ~running /\ \A k \in Bus!Keys : ~Bus!Waiting(k)
  /\ starts = 1 => (~running => shutdown) /\ \A k \in Bus!Keys : Alert(k)

(* One call changes, the others do not.                                    *)
LEMMA OneCallAlert ==
  ASSUME BusInv, FirstRun, NEW k \in Bus!Keys, NEW r, recv' = [recv EXCEPT ![k] = r],
         running' = running, shutdown' = shutdown, starts' = starts,
         r.pc = "waiting" => /\ Bus!Waiting(k) \/ running
                             /\ Alert(k) \/ ~Bus!Waiting(k) =>
                                  /\ r.registered \/ r.unsub
                                  /\ r.shut \in {"new", "waiting", "done"}
                                  /\ ~running => (r.shut # "waiting" \/ ~shutdown)
  PROVE  FirstRun'
<1>1. recv'[k] = r /\ \A j \in Bus!Keys \ {k} : recv'[j] = recv[j]
  BY Zenon, BusFacts
<1>2. \A j \in Bus!Keys \ {k} : (Alert(j) => Alert(j)') /\ (~Bus!Waiting(j) => ~Bus!Waiting(j)')
  BY Zenon, <1>1 DEF Alert, Bus!Waiting
<1>3. starts = 1 => Alert(k)'
  BY Zenon, <1>1 DEF FirstRun, Alert, Bus!Waiting
<1>4. starts = 0 => ~Bus!Waiting(k)'
  BY Zenon, <1>1 DEF FirstRun, Bus!Waiting
<1> QED
  BY Zenon, <1>2, <1>3, <1>4 DEF FirstRun

(* start() and stop().                                                     *)
LEMMA StartStopAlert == ASSUME BusInv, FirstRun, Bus!Start \/ Bus!Stop PROVE FirstRun'
<1>1. CASE Bus!Start
  <2>1. starts' = starts + 1 /\ running' /\ starts \in Nat
    BY Zenon, <1>1 DEF Bus!Start, FirstRun
  <2>2. starts' \in Nat /\ starts' # 0 /\ (starts' = 1 => starts = 0)
    BY <2>1
  <2>3. ASSUME starts = 0, NEW k \in Bus!Keys PROVE ~Bus!Waiting(k)'
    <3>1. recv'[k] = [Bus!Detached(k) EXCEPT !.registered = FALSE]
      BY Zenon, <1>1 DEF Bus!Start
    <3>2. PICK r \in CallType : r = Bus!Detached(k)
      BY Zenon, DetachedCall
    <3>3. recv'[k].pc = r.pc
      BY ZenonT(60), <3>1, <3>2, CallRecords
    <3> QED
      BY Zenon, <2>3, <3>2, <3>3, DetachedCall DEF FirstRun, Bus!Waiting
  <2> QED
    BY Zenon, <2>1, <2>2, <2>3 DEF FirstRun, Alert
<1>2. CASE Bus!Stop
  <2>1. running /\ ~running' /\ shutdown' /\ starts' = starts /\ recv' = [k \in Bus!Keys |-> Bus!Signalled(k)]
    BY Zenon, <1>2 DEF Bus!Stop
  <2>2. ASSUME NEW k \in Bus!Keys, Alert(k) PROVE Alert(k)'
    <3>1. recv'[k] = Bus!Signalled(k) /\ recv[k] \in CallType
      BY Zenon, <2>1, BusFacts
    <3>2. CASE recv[k].shut = "waiting"
      <4>1. recv'[k] = [recv[k] EXCEPT !.shut = "done"]
        BY Zenon, <3>1, <3>2 DEF Bus!Signalled
      <4>2. /\ recv'[k].pc = recv[k].pc /\ recv'[k].registered = recv[k].registered
            /\ recv'[k].unsub = recv[k].unsub /\ recv'[k].shut = "done"
        BY Zenon, <3>1, <4>1 DEF CallType
      <4> QED
        BY Zenon, <2>2, <4>2 DEF Alert, Bus!Waiting
    <3>3. CASE recv[k].shut # "waiting"
      BY Zenon, <2>2, <3>1, <3>3 DEF Alert, Bus!Waiting, Bus!Signalled
    <3> QED
      BY Zenon, <3>2, <3>3
  <2> QED
    BY Zenon, <2>1, <2>2 DEF FirstRun
<1> QED
  BY Zenon, <1>1, <1>2

(* unsubscribe() and the beginning of receive().                           *)
LEMMA SubscriptionsAlert ==
  ASSUME BusInv, FirstRun, NEW c \in Channels, NEW a \in BusAgents,
         Bus!Unsubscribe(c, a) \/ Bus!Receive(c, a)
  PROVE  FirstRun'
<1>1. PICK k \in Bus!Keys : k = <<c, a>>
  BY Zenon DEF Bus!Keys
<1>2. running /\ running' = running /\ shutdown' = shutdown /\ starts' = starts /\ recv[k] \in CallType
  BY Zenon, BusFacts DEF Bus!Unsubscribe, Bus!Receive, Bus!busVars
<1>3. CASE Bus!Unsubscribe(c, a)
  <2>1. PICK d \in CallType : d = Bus!Detached(k)
    BY Zenon, DetachedCall
  <2>2. PICK r : r = [d EXCEPT !.unsub = @ \/ recv[k].registered, !.registered = FALSE]
    BY Zenon
  <2>3. recv' = [recv EXCEPT ![k] = r]
    BY Zenon, <1>1, <1>3, <2>1, <2>2 DEF Bus!Unsubscribe
  <2>4. d.pc = recv[k].pc /\ d.unsub = recv[k].unsub /\ d.shut = recv[k].shut
    BY Zenon, <1>2, <2>1 DEF Bus!Detached, CallType
  <2>5. r.pc = d.pc /\ r.shut = d.shut /\ r.unsub = (d.unsub \/ recv[k].registered)
    BY Zenon, <2>2 DEF CallType
  <2>6. recv[k].shut \in {"none", "new", "waiting", "done"}
    BY Zenon, <1>2 DEF CallType
  <2> QED
    BY Zenon, <1>2, <2>3, <2>4, <2>5, <2>6, OneCallAlert DEF Alert, Bus!Waiting
<1>4. CASE Bus!Receive(c, a)
  <2>1. PICK t \in BOOLEAN :
          recv' = [recv EXCEPT ![k] = [Bus!NoCall EXCEPT !.pc = "waiting", !.shut = "new",
                                                         !.registered = TRUE, !.timed = t]]
    BY Zenon, <1>1, <1>4 DEF Bus!Receive
  <2>2. PICK r : r = [Bus!NoCall EXCEPT !.pc = "waiting", !.shut = "new", !.registered = TRUE, !.timed = t]
    BY Zenon
  <2>3. r.registered /\ r.shut = "new"
    BY Zenon, <2>2 DEF Bus!NoCall
  <2> QED
    BY Zenon, <1>2, <2>1, <2>2, <2>3, OneCallAlert
<1> QED
  BY Zenon, <1>3, <1>4

(* The steps of an open receive().                                         *)
LEMMA CallAlert ==
  ASSUME BusInv, FirstRun, NEW k \in Bus!Keys, Bus!ReceiveStep(k) \/ Bus!CancelReceive(k)
  PROVE  FirstRun'
<1>1. /\ Bus!Waiting(k) /\ recv[k] \in CallType /\ recv \in [Bus!Keys -> CallType]
      /\ running' = running /\ shutdown' = shutdown /\ starts' = starts
  BY Zenon, BusFacts DEF Bus!ReceiveStep, Bus!GetTask, Bus!ShutdownTask, Bus!ReturnMessage,
                         Bus!ReturnNone, Bus!CancelReceive, Bus!busVars
<1>2. CASE Bus!GetTask(k)
  <2>1. PICK h, s : recv' = [recv EXCEPT ![k].item = h, ![k].rest = s]
    BY Zenon, <1>2 DEF Bus!GetTask
  <2>2. PICK r : r = [recv[k] EXCEPT !.item = h, !.rest = s]
    BY Zenon
  <2>3. recv' = [recv EXCEPT ![k] = r]
    BY Zenon, <1>1, <2>1, <2>2 DEF CallType
  <2>4. r.registered = recv[k].registered /\ r.unsub = recv[k].unsub /\ r.shut = recv[k].shut
    BY Zenon, <1>1, <2>2 DEF CallType
  <2> QED
    BY Zenon, <1>1, <2>3, <2>4, OneCallAlert DEF Alert
<1>3. CASE Bus!ShutdownTask(k)
  <2>1. PICK s \in {"waiting", "done"} : recv' = [recv EXCEPT ![k].shut = s] /\ (shutdown => s = "done")
    BY Zenon, <1>3 DEF Bus!ShutdownTask
  <2>2. PICK r : r = [recv[k] EXCEPT !.shut = s]
    BY Zenon
  <2>3. recv' = [recv EXCEPT ![k] = r]
    BY Zenon, <1>1, <2>1, <2>2
  <2>4. r.registered = recv[k].registered /\ r.unsub = recv[k].unsub /\ r.shut = s
    BY Zenon, <1>1, <2>2 DEF CallType
  <2> QED
    BY Zenon, <1>1, <2>1, <2>3, <2>4, OneCallAlert DEF Alert
<1>4. CASE Bus!Finished(k)
  <2>1. recv' = [recv EXCEPT ![k] = Bus!NoCall] /\ Bus!NoCall.pc # "waiting"
    BY Zenon, <1>4 DEF Bus!Finished, Bus!NoCall
  <2> QED
    BY Zenon, <1>1, <2>1, OneCallAlert
<1> QED
  BY Zenon, <1>2, <1>3, <1>4
  DEF Bus!ReceiveStep, Bus!ReturnMessage, Bus!ReturnNone, Bus!CancelReceive

(* No receive() sleeps on when the bus stops or its subscription is        *)
(* removed, with any number of channels and subscribers, wherever its      *)
(* shutdown_task and get_task are at that moment; WaitersWake has only to  *)
(* wait for the event loop.  It is said of the first run of the bus:       *)
(* start() clears the event and the table of waiting calls.                *)
THEOREM NoneEverSleepsOn == Bus!Spec => []NoneSleepsOn
<1>1. Bus!Init => FirstRun
  <2>1. Bus!Init => starts = 0 /\ ~running /\ recv = [k \in Bus!Keys |-> Bus!NoCall]
    BY Zenon DEF Bus!Init
  <2>2. Bus!NoCall.pc = "idle"
    BY ZenonT(60) DEF Bus!NoCall
  <2> QED
    BY <2>1, <2>2 DEF FirstRun, Bus!Waiting
<1>2. ASSUME BusInv, FirstRun, [Bus!Next]_(Bus!vars) PROVE FirstRun'
  <2>1. CASE recv' = recv /\ running' = running /\ shutdown' = shutdown /\ starts' = starts
    BY Zenon, <1>2, <2>1 DEF FirstRun, Alert, Bus!Waiting
  <2>2. CASE UNCHANGED Bus!vars
    BY Zenon, <2>1, <2>2 DEF Bus!vars, Bus!busVars
  <2>3. ASSUME NEW c \in Channels, Bus!CreateChannel(c) \/ Bus!Publish(c) \/ Bus!SendDirect(c)
        PROVE  FirstRun'
    BY Zenon, <2>1, <2>3 DEF Bus!CreateChannel, Bus!Publish, Bus!SendDirect, Bus!Deliver, Bus!busVars
  <2>4. ASSUME NEW c \in Channels, NEW a \in BusAgents, Bus!Subscribe(c, a) \/ Bus!Unsubscribe(c, a)
        PROVE  FirstRun'
    BY Zenon, <1>2, <2>1, <2>4, SubscriptionsAlert DEF Bus!Subscribe
  <2>5. ASSUME NEW k \in Pollers, Bus!Receive(k[1], k[2]) \/ Bus!ReceiveStep(k) \/ Bus!CancelReceive(k)
        PROVE  FirstRun'
    <3>1. k \in Bus!Keys /\ k[1] \in Channels /\ k[2] \in BusAgents
      BY Zenon, BusAssumption DEF Bus!Keys
    <3> QED
      BY Zenon, <1>2, <2>5, <3>1, SubscriptionsAlert, CallAlert
  <2> QED
    BY Zenon, <1>2, <2>2, <2>3, <2>4, <2>5, StartStopAlert DEF Bus!Next
<1>3. FirstRun => NoneSleepsOn
  <2>1. FirstRun /\ starts <= 1 => starts \in {0, 1}
    BY DEF FirstRun
  <2>2. Pollers \subseteq Bus!Keys
    BY Zenon, BusAssumption DEF Bus!Keys
  <2> QED
    BY Zenon, <2>1, <2>2 DEF FirstRun, NoneSleepsOn, Alert, Noticing, Bus!Woken
<1> QED
  BY <1>1, <1>2, <1>3, BusAlways, PTL DEF Bus!Spec

----------------------------------------------------------------------------
(* The sandbox containers.                                                 *)

ContainerStatus == {"none", "alive", "destroying", "gone", "lost"}
UseType == [pc : {"idle", "create", "drop", "using", "release"},
            held : Sandbox!Containers \cup {Nil}, loser : Sandbox!Containers \cup {Nil}]

SandboxType ==
  /\ container \in Sandbox!Containers \cup {Nil}
  /\ status \in [Sandbox!Containers -> ContainerStatus]
  /\ user \in [Users -> UseType] /\ alone \subseteq Users

(* The registered container is alive.                                      *)
RegisteredIsAlive == container # Nil => status[container] = "alive"

(* A user that nobody overlaps with is on its own; while it creates a      *)
(* container none is registered, while it uses one that one is, and no     *)
(* timer runs meanwhile.                                                   *)
OwnsContainer(u) ==
  /\ \A v \in Users \ {u} : user[v].pc = "idle"
  /\ user[u].pc = "create" => container = Nil
  /\ user[u].pc = "using" => container # Nil /\ container = user[u].held
  /\ user[u].pc \in {"create", "using"} => ~grace /\ ~idle
  /\ user[u].pc # "drop"

SandboxInv == SandboxType /\ RegisteredIsAlive /\ \A u \in alone : OwnsContainer(u)

(* Nil is no container.                                                   *)
LEMMA NilIsNoContainer == Nil \notin Sandbox!Containers
  BY SandboxAssumption, BusAssumption DEF Sandbox!Containers

(* The uses that the calls put on record.                                  *)
LEMMA UseRecords ==
  /\ Sandbox!NoUse \in UseType /\ Sandbox!NoUse.pc = "idle"
  /\ [Sandbox!NoUse EXCEPT !.pc = "create"] \in UseType
  /\ [Sandbox!NoUse EXCEPT !.pc = "create"].pc = "create"
  /\ \A c \in Sandbox!Containers :
       /\ Sandbox!Using(c) \in UseType /\ Sandbox!Using(c).pc = "using" /\ Sandbox!Using(c).held = c
       /\ [Sandbox!NoUse EXCEPT !.pc = "release", !.loser = c] \in UseType
       /\ [Sandbox!NoUse EXCEPT !.pc = "release", !.loser = c].pc = "release"
  /\ \A b, c \in Sandbox!Containers :
       /\ [pc |-> "drop", held |-> b, loser |-> c] \in UseType
       /\ [pc |-> "drop", held |-> b, loser |-> c].pc = "drop"
  BY Zenon DEF UseType, Sandbox!NoUse, Sandbox!Using

(* It holds initially.                                                     *)
LEMMA SandboxInit == Sandbox!Init => SandboxInv
<1> SUFFICES ASSUME Sandbox!Init PROVE SandboxInv
  BY Zenon
<1> USE DEF Sandbox!Init
<1>1. container \in Sandbox!Containers \cup {Nil} /\ RegisteredIsAlive
  BY Zenon DEF RegisteredIsAlive
<1>2. status \in [Sandbox!Containers -> ContainerStatus]
  BY Zenon DEF ContainerStatus
<1>3. user \in [Users -> UseType] /\ alone = {}
  BY Zenon, UseRecords
<1> QED
  BY Zenon, <1>1, <1>2, <1>3 DEF SandboxInv, SandboxType

(* A step that only ends a container other than the registered one keeps   *)
(* the invariant.                                                          *)
LEMMA StatusMoves ==
  ASSUME SandboxInv, NEW c \in Sandbox!Containers, NEW s \in ContainerStatus,
         status' = [status EXCEPT ![c] = s], status[c] # "alive",
         container' = container, user' = user, alone' = alone, grace' = grace, idle' = idle
  PROVE  SandboxInv'
  BY Zenon DEF SandboxInv, SandboxType, RegisteredIsAlive, OwnsContainer

(* A user who takes a step of its own keeps the invariant when it overlaps *)
(* with somebody, or has its container to itself afterwards.               *)
LEMMA UserGoes ==
  ASSUME SandboxInv, NEW u \in Users, NEW use \in UseType, Sandbox!Goes(u, use),
         container' \in Sandbox!Containers \cup {Nil},
         status' \in [Sandbox!Containers -> ContainerStatus],
         RegisteredIsAlive', alone' \subseteq {u},
         u \in alone' =>
           /\ \A v \in Users \ {u} : user[v].pc = "idle"
           /\ use.pc = "create" => container' = Nil
           /\ use.pc = "using" => container' # Nil /\ container' = use.held
           /\ use.pc \in {"create", "using"} => ~grace' /\ ~idle'
           /\ use.pc # "drop"
  PROVE  SandboxInv'
<1>1. user \in [Users -> UseType] /\ user' = [user EXCEPT ![u] = use]
  BY Zenon DEF SandboxInv, SandboxType, Sandbox!Goes
<1>2. user' \in [Users -> UseType] /\ alone' \subseteq Users /\ user'[u] = use
  BY Zenon, <1>1
<1>3. \A v \in Users \ {u} : user'[v] = user[v]
  BY Zenon, <1>1
<1>4. u \in alone' => OwnsContainer(u)'
  BY Zenon, <1>2, <1>3 DEF OwnsContainer
<1>5. \A v \in alone' : OwnsContainer(v)'
  BY Zenon, <1>4
<1> QED
  BY Zenon, <1>2, <1>5 DEF SandboxInv, SandboxType

(* While a call is open nobody but its user is on its own.                 *)
LEMMA OnItsOwn ==
  ASSUME SandboxInv, NEW u \in Users, user[u].pc # "idle"
  PROVE  alone \subseteq {u}
  BY Zenon DEF SandboxInv, SandboxType, OwnsContainer

(* acquire(), up to the await of the creation.                             *)
LEMMA AcquireKeeps ==
  ASSUME SandboxInv, NEW u \in Users, Sandbox!Acquire(u)
  PROVE  SandboxInv'
<1>1. /\ container' = container /\ status' = status /\ ~grace' /\ ~idle'
      /\ alone' = IF \A v \in Users \ {u} : user[v].pc = "idle" THEN {u} ELSE {}
  BY Zenon DEF Sandbox!Acquire, Sandbox!CancelTimers, Sandbox!Overlaps, Sandbox!Pc
<1>2. /\ container' \in Sandbox!Containers \cup {Nil} /\ alone' \subseteq {u}
      /\ status' \in [Sandbox!Containers -> ContainerStatus] /\ RegisteredIsAlive'
  BY Zenon, <1>1 DEF SandboxInv, SandboxType, RegisteredIsAlive
<1>3. PICK use \in UseType :
        /\ Sandbox!Goes(u, use)
        /\ \/ use.pc = "using" /\ container # Nil /\ container = use.held
           \/ use.pc = "create" /\ container = Nil
  <2>1. CASE container # Nil /\ Sandbox!Goes(u, Sandbox!Using(container))
    <3>1. container \in Sandbox!Containers
      BY Zenon, <1>1, <1>2, <2>1
    <3> QED
      BY ZenonT(60), <2>1, <3>1, UseRecords
  <2>2. CASE container = Nil /\ Sandbox!Goes(u, [Sandbox!NoUse EXCEPT !.pc = "create"])
    BY Zenon, <2>2, UseRecords
  <2> QED
    BY Zenon, <2>1, <2>2 DEF Sandbox!Acquire
<1> QED
  BY Zenon, <1>1, <1>2, <1>3, UserGoes

(* The ends of acquire().                                                  *)
LEMMA CreateKeeps ==
  ASSUME SandboxInv, NEW u \in Users,
         \/ Sandbox!CreateFails(u)
         \/ \E c \in Sandbox!Containers :
              Sandbox!Created(u, c) \/ Sandbox!CreatedTooLate(u, c) \/ Sandbox!CreatedForNothing(u, c)
  PROVE  SandboxInv'
<1>1. user[u].pc = "create" /\ alone' = alone /\ alone \subseteq {u} /\ (u \in alone => OwnsContainer(u))
  <2>1. user[u].pc = "create" /\ alone' = alone
    BY Zenon DEF Sandbox!CreateFails, Sandbox!Created, Sandbox!CreatedTooLate, Sandbox!CreatedForNothing, Sandbox!Pc
  <2> QED
    BY Zenon, <2>1, OnItsOwn DEF SandboxInv
<1>2. SandboxType /\ RegisteredIsAlive
  BY Zenon DEF SandboxInv
<1>3. CASE Sandbox!CreateFails(u)
  <2>1. Sandbox!Goes(u, Sandbox!NoUse) /\ container' = container /\ status' = status
    BY Zenon, <1>3 DEF Sandbox!CreateFails
  <2>2. RegisteredIsAlive'
    BY Zenon, <1>2, <2>1 DEF RegisteredIsAlive
  <2> QED
    BY Zenon, <1>1, <1>2, <2>1, <2>2, UserGoes, UseRecords DEF SandboxType, OwnsContainer
<1>4. ASSUME NEW c \in Sandbox!Containers, Sandbox!Created(u, c) PROVE SandboxInv'
  <2>1. /\ Sandbox!Goes(u, Sandbox!Using(c)) /\ container' = c /\ status' = [status EXCEPT ![c] = "alive"]
        /\ grace' = grace /\ idle' = idle
    BY Zenon, <1>4 DEF Sandbox!Created, Sandbox!timers
  <2>2. status' \in [Sandbox!Containers -> ContainerStatus] /\ RegisteredIsAlive'
    BY Zenon, <1>2, <2>1 DEF RegisteredIsAlive, SandboxType, ContainerStatus
  <2> QED
    BY Zenon, <1>1, <2>1, <2>2, UserGoes, UseRecords, NilIsNoContainer DEF OwnsContainer
<1>5. ASSUME NEW c \in Sandbox!Containers, Sandbox!CreatedTooLate(u, c) \/ Sandbox!CreatedForNothing(u, c)
      PROVE  SandboxInv'
  <2>1. /\ container # Nil /\ container \in Sandbox!Containers /\ container' = container
        /\ status[c] = "none"
    BY Zenon, <1>5, <1>2 DEF Sandbox!CreatedTooLate, Sandbox!CreatedForNothing, Sandbox!Fresh, SandboxType
  <2>2. u \notin alone'
    BY Zenon, <1>1, <2>1 DEF OwnsContainer
  <2>3. PICK s \in {"destroying", "lost"}, use \in UseType :
          status' = [status EXCEPT ![c] = s] /\ Sandbox!Goes(u, use)
    BY Zenon, <1>5, <2>1, UseRecords DEF Sandbox!CreatedTooLate, Sandbox!CreatedForNothing
  <2>4. status' \in [Sandbox!Containers -> ContainerStatus] /\ RegisteredIsAlive'
    BY Zenon, <1>2, <2>1, <2>3 DEF RegisteredIsAlive, SandboxType, ContainerStatus
  <2> QED
    BY Zenon, <1>1, <2>1, <2>2, <2>3, <2>4, UserGoes
<1> QED
  BY Zenon, <1>3, <1>4, <1>5

(* A call that returns, and release(), of either strategy.                 *)
LEMMA ReleaseKeeps ==
  ASSUME SandboxInv, NEW u \in Users,
         Sandbox!Returns(u) \/ Sandbox!Release(u) \/ Sandbox!ReleaseTask(u)
  PROVE  SandboxInv'
<1>1. /\ user[u].pc \in {"drop", "release", "using"} /\ alone' = alone
      /\ alone \subseteq {u} /\ (u \in alone => OwnsContainer(u))
  <2>1. user[u].pc \in {"drop", "release", "using"} /\ alone' = alone
    BY Zenon DEF Sandbox!Returns, Sandbox!Release, Sandbox!ReleaseTask, Sandbox!Pc
  <2> QED
    BY Zenon, <2>1, OnItsOwn DEF SandboxInv
<1>2. SandboxType /\ RegisteredIsAlive
  BY Zenon DEF SandboxInv
<1>3. ASSUME container' = container, status' = status, Sandbox!Goes(u, Sandbox!NoUse) PROVE SandboxInv'
  <2>1. RegisteredIsAlive'
    BY Zenon, <1>2, <1>3 DEF RegisteredIsAlive
  <2> QED
    BY Zenon, <1>1, <1>2, <1>3, <2>1, UserGoes, UseRecords DEF SandboxType, OwnsContainer
<1>4. CASE Sandbox!Returns(u)
  <2>1. container' = container /\ status' = status
    BY Zenon, <1>4 DEF Sandbox!Returns
  <2>2. CASE user[u].pc = "drop" /\ Sandbox!Goes(u, Sandbox!Using(user[u].held))
    <3>1. u \notin alone'
      BY Zenon, <1>1, <2>2 DEF OwnsContainer
    <3>2. Sandbox!Using(user[u].held) \in UseType
      BY Zenon, <1>2 DEF Sandbox!Using, Sandbox!NoUse, SandboxType, UseType
    <3>3. RegisteredIsAlive'
      BY Zenon, <1>2, <2>1 DEF RegisteredIsAlive
    <3> QED
      BY Zenon, <1>1, <1>2, <2>1, <2>2, <3>1, <3>2, <3>3, UserGoes DEF SandboxType
  <2> QED
    BY Zenon, <1>3, <1>4, <2>1, <2>2 DEF Sandbox!Returns, Sandbox!Pc
<1>5. CASE Sandbox!Release(u)
  BY Zenon, <1>3, <1>5 DEF Sandbox!Release
<1>6. CASE Sandbox!ReleaseTask(u)
  <2>1. CASE /\ container # Nil /\ Sandbox!Unregister
             /\ Sandbox!Goes(u, [Sandbox!NoUse EXCEPT !.pc = "release", !.loser = container])
    <3>1. container \in Sandbox!Containers
      BY Zenon, <1>2, <2>1 DEF SandboxType
    <3>2. /\ container' = Nil /\ status' \in [Sandbox!Containers -> ContainerStatus]
          /\ RegisteredIsAlive'
      BY Zenon, <1>2, <2>1 DEF Sandbox!Unregister, SandboxType, ContainerStatus, RegisteredIsAlive
    <3>3. PICK use \in UseType : use.pc = "release" /\ Sandbox!Goes(u, use)
      BY ZenonT(60), <2>1, <3>1, UseRecords
    <3> QED
      BY Zenon, <1>1, <3>2, <3>3, UserGoes DEF OwnsContainer
  <2> QED
    BY Zenon, <1>3, <1>6, <2>1 DEF Sandbox!ReleaseTask
<1> QED
  BY Zenon, <1>4, <1>5, <1>6

(* The timers, cleanup_all() and the calls of destroy_fn.                  *)
LEMMA TimersKeep ==
  ASSUME SandboxInv,
         \/ Sandbox!GraceExpire \/ Sandbox!IdleExpire \/ Sandbox!CleanupAll
         \/ \E c \in Sandbox!Containers : Sandbox!Destroy(c)
  PROVE  SandboxInv'
<1>1. SandboxType /\ RegisteredIsAlive /\ \A u \in alone : OwnsContainer(u)
  BY Zenon DEF SandboxInv
<1>2. ASSUME NEW c \in Sandbox!Containers, Sandbox!Destroy(c) PROVE SandboxInv'
  <2>1. PICK s \in {"gone", "lost"} : status' = [status EXCEPT ![c] = s]
    BY Zenon, <1>2 DEF Sandbox!Destroy
  <2>2. /\ status[c] # "alive" /\ s \in ContainerStatus /\ grace' = grace /\ idle' = idle
        /\ container' = container /\ user' = user /\ alone' = alone
    BY Zenon, <1>2 DEF Sandbox!Destroy, Sandbox!timers, ContainerStatus
  <2> QED
    BY Zenon, <2>1, <2>2, StatusMoves
<1>3. ASSUME Sandbox!Unregister, user' = user, alone' \subseteq alone,
             \A u \in alone' : user[u].pc \notin {"create", "using"}
      PROVE  SandboxInv'
  <2>1. SandboxType' /\ RegisteredIsAlive'
    BY Zenon, <1>1, <1>3 DEF Sandbox!Unregister, SandboxType, ContainerStatus, RegisteredIsAlive
  <2>2. \A u \in alone' : OwnsContainer(u)'
    BY Zenon, <1>1, <1>3 DEF OwnsContainer
  <2> QED
    BY Zenon, <2>1, <2>2 DEF SandboxInv
<1>4. CASE Sandbox!GraceExpire \/ Sandbox!IdleExpire
  <2>1. Sandbox!Unregister /\ user' = user /\ alone' = alone /\ (grace \/ idle)
    BY Zenon, <1>4 DEF Sandbox!GraceExpire, Sandbox!IdleExpire
  <2> QED
    BY Zenon, <1>1, <1>3, <2>1 DEF OwnsContainer
<1>5. CASE Sandbox!CleanupAll
  BY Zenon, <1>3, <1>5 DEF Sandbox!CleanupAll
<1> QED
  BY Zenon, <1>2, <1>4, <1>5

(* The sandbox life cycle keeps its invariant.                             *)
LEMMA SandboxAlways == Sandbox!Spec => []SandboxInv
<1>1. ASSUME SandboxInv, [Sandbox!Next]_(Sandbox!vars) PROVE SandboxInv'
  <2>1. CASE UNCHANGED Sandbox!vars
    BY <1>1, <2>1 DEF Sandbox!vars, Sandbox!timers, SandboxInv, SandboxType, RegisteredIsAlive, OwnsContainer
  <2>2. ASSUME NEW u \in Users, Sandbox!Acquire(u) \/ Sandbox!UserStep(u) \/ Sandbox!CreateFails(u)
        PROVE  SandboxInv'
    BY Zenon, <1>1, <2>2, AcquireKeeps, CreateKeeps, ReleaseKeeps DEF Sandbox!UserStep
  <2> QED
    BY Zenon, <1>1, <2>1, <2>2, TimersKeep DEF Sandbox!Next
<1> QED
  BY <1>1, SandboxInit, PTL DEF Sandbox!Spec

(* A tool call that nobody overlaps with keeps its container, with any     *)
(* number of users and calls: no timer that an earlier release() started   *)
(* and no clean-up after earlier, overlapping calls destroys it            *)
(* (InUseIsKept of the sandbox life cycle).                                *)
THEOREM InUseIsAlwaysKept == Sandbox!Spec => []InUseIsKept
<1>1. SandboxInv => InUseIsKept
  BY Zenon DEF SandboxInv, RegisteredIsAlive, OwnsContainer, InUseIsKept, Sandbox!InUseIsKept, Sandbox!Pc
<1> QED
  BY <1>1, SandboxAlways, PTL

(* A registered container is not forgotten: the one that is alive is the   *)
(* registered one, and while one is registered a grace timer runs or a     *)
(* call is open whose release() will deal with it.  Containers that lose   *)
(* the race to be registered are never "alive": they are destroyed or lost *)
(* at once (CreatedTooLate, CreatedForNothing).                            *)
Claimed == \E u \in Users : user[u].pc \in {"using", "drop"}
RegisteredNotForgotten ==
  /\ \A c \in Sandbox!Containers : status[c] = "alive" => c = container
  /\ container # Nil => grace \/ Claimed

(* A container comes to life only by being registered where none was, and  *)
(* is taken out of the registry only to be destroyed.                      *)
LEMMA NobodyForgets ==
  ASSUME RegisteredNotForgotten,
         \/ /\ container' = container
            /\ \A c \in Sandbox!Containers : status'[c] = "alive" => status[c] = "alive"
         \/ /\ container' = Nil
            /\ \A c \in Sandbox!Containers : status'[c] = "alive" => status[c] = "alive" /\ c # container
         \/ /\ container = Nil
            /\ \A c \in Sandbox!Containers : status'[c] = "alive" => status[c] = "alive" \/ c = container',
         container' # Nil => grace' \/ Claimed'
  PROVE  RegisteredNotForgotten'
  BY Zenon, NilIsNoContainer DEF RegisteredNotForgotten

(* A container that is taken out of the registry is not alive any more.    *)
LEMMA UnregisterForgetsNone ==
  ASSUME RegisteredNotForgotten, Sandbox!Unregister
  PROVE  RegisteredNotForgotten'
<1>1. /\ container' = Nil
      /\ \A c \in Sandbox!Containers : status'[c] = IF c = container THEN "destroying" ELSE status[c]
  BY Zenon DEF Sandbox!Unregister
<1> QED
  BY Zenon, <1>1, NobodyForgets

(* Who takes up a container claims it, and who had none takes no claim     *)
(* away.                                                                   *)
LEMMA ClaimsStay ==
  ASSUME SandboxInv, NEW u \in Users, NEW use, Sandbox!Goes(u, use),
         use.pc \in {"using", "drop"} \/ (Claimed /\ user[u].pc \notin {"using", "drop"})
  PROVE  Claimed'
<1>1. user'[u] = use /\ \A v \in Users \ {u} : user'[v] = user[v]
  BY Zenon DEF SandboxInv, SandboxType, Sandbox!Goes
<1> QED
  BY Zenon, <1>1 DEF Claimed

(* The steps of the calls.                                                 *)
LEMMA CallsForgetNone ==
  ASSUME SandboxInv, RegisteredNotForgotten, NEW u \in Users,
         Sandbox!Acquire(u) \/ Sandbox!UserStep(u) \/ Sandbox!CreateFails(u)
  PROVE  RegisteredNotForgotten'
<1> DEFINE Claims(use) == Sandbox!Goes(u, use) /\ use.pc \in {"using", "drop"}
<1>u. \A c : Sandbox!Using(c).pc = "using"
  BY Zenon DEF Sandbox!Using, Sandbox!NoUse
<1>t. status \in [Sandbox!Containers -> ContainerStatus]
  BY Zenon DEF SandboxInv, SandboxType
<1>1. CASE Sandbox!Acquire(u)
  <2>1. container' = container /\ status' = status
    BY Zenon, <1>1 DEF Sandbox!Acquire
  <2>2. container # Nil => Sandbox!Goes(u, Sandbox!Using(container))
    BY Zenon, <1>1 DEF Sandbox!Acquire
  <2> QED
    BY Zenon, <2>1, <2>2, <1>u, ClaimsStay, NobodyForgets
<1>2. ASSUME NEW c \in Sandbox!Containers, Sandbox!Created(u, c) PROVE RegisteredNotForgotten'
  <2>1. /\ container = Nil /\ container' = c /\ status' = [status EXCEPT ![c] = "alive"]
        /\ Sandbox!Goes(u, Sandbox!Using(c))
    BY Zenon, <1>2 DEF Sandbox!Created
  <2>2. \A b \in Sandbox!Containers : status'[b] = "alive" => status[b] = "alive" \/ b = container'
    BY Zenon, <2>1, <1>t
  <2> QED
    BY Zenon, <2>1, <2>2, <1>u, ClaimsStay, NobodyForgets
<1>3. ASSUME NEW c \in Sandbox!Containers,
             Sandbox!CreatedTooLate(u, c) \/ Sandbox!CreatedForNothing(u, c)
      PROVE  RegisteredNotForgotten'
  <2>1. container' = container
    BY Zenon, <1>3 DEF Sandbox!CreatedTooLate, Sandbox!CreatedForNothing
  <2>2. PICK s \in {"destroying", "lost"} : status' = [status EXCEPT ![c] = s]
    BY Zenon, <1>3 DEF Sandbox!CreatedTooLate, Sandbox!CreatedForNothing
  <2>3. \A b \in Sandbox!Containers : status'[b] = "alive" => status[b] = "alive"
    BY Zenon, <2>2, <1>t
  <2>4. PICK use : Claims(use)
    <3>1. [pc |-> "drop", held |-> container, loser |-> c].pc = "drop"
      BY Zenon
    <3> QED
      BY Zenon, <1>3, <1>u, <3>1 DEF Sandbox!CreatedTooLate, Sandbox!CreatedForNothing
  <2> QED
    BY Zenon, <2>1, <2>3, <2>4, ClaimsStay, NobodyForgets
<1>4. CASE Sandbox!CreateFails(u)
  <2>1. /\ container' = container /\ status' = status /\ grace' = grace
        /\ Sandbox!Goes(u, Sandbox!NoUse) /\ user[u].pc = "create"
    BY Zenon, <1>4 DEF Sandbox!CreateFails, Sandbox!timers, Sandbox!Pc
  <2>2. container' # Nil => grace' \/ Claimed'
    BY Zenon, <2>1, ClaimsStay DEF RegisteredNotForgotten
  <2> QED
    BY Zenon, <2>1, <2>2, NobodyForgets
<1>5. CASE Sandbox!Returns(u)
  <2>1. container' = container /\ status' = status /\ grace' = grace
    BY Zenon, <1>5 DEF Sandbox!Returns, Sandbox!timers
  <2>2. container' # Nil => grace' \/ Claimed'
    <3>1. CASE Sandbox!Goes(u, Sandbox!Using(user[u].held))
      BY Zenon, <3>1, <1>u, ClaimsStay
    <3>2. CASE user[u].pc = "release" /\ Sandbox!Goes(u, Sandbox!NoUse)
      BY Zenon, <3>2, <2>1, ClaimsStay DEF RegisteredNotForgotten
    <3> QED
      BY Zenon, <3>1, <3>2, <1>5 DEF Sandbox!Returns, Sandbox!Pc
  <2> QED
    BY Zenon, <2>1, <2>2, NobodyForgets
<1>6. CASE Sandbox!Release(u)
  <2>1. container' = container /\ status' = status /\ (container # Nil => grace')
    BY Zenon, <1>6 DEF Sandbox!Release
  <2> QED
    BY Zenon, <2>1, NobodyForgets
<1>7. CASE Sandbox!ReleaseTask(u)
  <2>1. CASE Sandbox!Unregister
    BY Zenon, <2>1, UnregisterForgetsNone
  <2>2. CASE container = Nil /\ container' = container /\ status' = status
    BY Zenon, <2>2, NobodyForgets
  <2> QED
    BY Zenon, <1>7, <2>1, <2>2 DEF Sandbox!ReleaseTask
<1> QED
  BY Zenon, <1>1, <1>2, <1>3, <1>4, <1>5, <1>6, <1>7 DEF Sandbox!UserStep

(* No registered container is forgotten, however calls, timers, clean-ups  *)
(* and failing destructions interleave, for any number of users: it has a  *)
(* grace timer or an open call, so that ContainersEnd has only to wait for *)
(* that one.                                                               *)
THEOREM RegisteredIsNeverForgotten == Sandbox!Spec => []RegisteredNotForgotten
<1>1. Sandbox!Init => RegisteredNotForgotten
  BY Zenon DEF Sandbox!Init, RegisteredNotForgotten
<1>2. ASSUME SandboxInv, RegisteredNotForgotten, [Sandbox!Next]_(Sandbox!vars) PROVE RegisteredNotForgotten'
  <2>1. CASE UNCHANGED Sandbox!vars
    BY Zenon, <1>2, <2>1 DEF Sandbox!vars, Sandbox!timers, RegisteredNotForgotten, Claimed
  <2>2. CASE Sandbox!GraceExpire \/ Sandbox!IdleExpire \/ Sandbox!CleanupAll
    BY Zenon, <1>2, <2>2, UnregisterForgetsNone
    DEF Sandbox!GraceExpire, Sandbox!IdleExpire, Sandbox!CleanupAll
  <2>3. ASSUME NEW c \in Sandbox!Containers, Sandbox!Destroy(c) PROVE RegisteredNotForgotten'
    <3>1. /\ container' = container /\ grace' = grace /\ user' = user
          /\ \E s \in {"gone", "lost"} : status' = [status EXCEPT ![c] = s]
      BY Zenon, <2>3 DEF Sandbox!Destroy, Sandbox!timers
    <3>2. \A b \in Sandbox!Containers : status'[b] = "alive" => status[b] = "alive"
      BY Zenon, <1>2, <3>1 DEF SandboxInv, SandboxType
    <3>3. container' # Nil => grace' \/ Claimed'
      BY Zenon, <1>2, <3>1 DEF RegisteredNotForgotten, Claimed
    <3> QED
      BY Zenon, <1>2, <3>1, <3>2, <3>3, NobodyForgets
  <2> QED
    BY Zenon, <1>2, <2>1, <2>2, <2>3, CallsForgetNone DEF Sandbox!Next
<1> QED
  BY <1>1, <1>2, SandboxAlways, PTL DEF Sandbox!Spec
=============================================================================
