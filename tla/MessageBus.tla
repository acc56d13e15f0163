----------------------------- MODULE MessageBus -----------------------------
(***************************************************************************)
(* The in-process message bus (communication/bus/memory.py): channels with *)
(* one bounded queue per subscriber, and receive() calls that wait for a   *)
(* message, the shutdown event, unsubscribe() or a time-out.               *)
(*                                                                         *)
(* Every critical section runs without an await, so it is one step.  What  *)
(* interleaves is receive(): after registering itself it waits for three   *)
(* tasks and futures that complete on their own, and only then looks at    *)
(* what happened.  A channel and subscriber have one receiver, as in the   *)
(* bridges and dispatchers that poll the bus.  Messages are numbered in    *)
(* the order of publication; channel history is left out.                  *)
(***************************************************************************)
EXTENDS Naturals, Sequences

CONSTANTS Channels, Configured,  \* the channels, and those start() creates
          TypeOf,                \* TOPIC, BROADCAST or DIRECT
          Agents, PairOf,        \* the two agents of a DIRECT channel
          Pollers,               \* who polls which channel
          None, MaxQueue,        \* max_subscriber_queue_size
          MaxMessages, MaxStarts

Keys == Channels \X Agents

VARIABLES running, shutdown,     \* _running, _shutdown_event
          starts,
          subscribers,           \* the existing channels' subscribers, or None
          knownAgents,
          queues,                \* the queue of a channel and subscriber, or None
          recv,                  \* the receive() call of a channel and subscriber
          published,             \* how many messages were published
          enqueued,              \* <<message, key>>: put into a queue that still exists
          returned,              \* <<message, key>>: returned by receive()
          lost                   \* <<message, key>>: taken by a cancelled receive()

busVars == <<running, shutdown, starts, subscribers, knownAgents>>
books == <<published, enqueued, returned, lost>>
vars == <<busVars, queues, recv, books>>

(* item: the result of get_task; rest: the queue object it waits on, once  *)
(* that is not the registered one any more; shut: shutdown_task; unsub:    *)
(* unsub_future, which is resolved only while it is registered             *)
NoCall == [pc |-> "idle", item |-> None, rest |-> None, shut |-> "none",
           unsub |-> FALSE, registered |-> FALSE, timed |-> FALSE]

Init ==
  /\ running = FALSE /\ shutdown = FALSE /\ starts = 0
  /\ subscribers = [c \in Channels |-> None] /\ knownAgents = {}
  /\ queues = [k \in Keys |-> None] /\ recv = [k \in Keys |-> NoCall]
  /\ published = 0 /\ enqueued = {} /\ returned = {} /\ lost = {}

Exists(c) == subscribers[c] # None
Waiting(k) == recv[k].pc = "waiting"

(* A receive() that still waits on a queue object that was removed keeps   *)
(* that object.                                                            *)
Detached(k) ==
  IF Waiting(k) /\ recv[k].rest = None THEN [recv[k] EXCEPT !.rest = queues[k]] ELSE recv[k]

----------------------------------------------------------------------------
(* The life cycle.                                                         *)

Start ==
  /\ ~running /\ starts < MaxStarts
  /\ running' = TRUE /\ shutdown' = FALSE /\ starts' = starts + 1
  /\ subscribers' = [c \in Channels |-> IF c \in Configured THEN {} ELSE None]
  /\ knownAgents' = {} /\ queues' = [k \in Keys |-> None]
  /\ recv' = [k \in Keys |-> [Detached(k) EXCEPT !.registered = FALSE]]
  /\ enqueued' = {} /\ UNCHANGED <<published, returned, lost>>

(* Event.set() completes every shutdown_task that is already waiting.      *)
Signalled(k) == IF recv[k].shut = "waiting" THEN [recv[k] EXCEPT !.shut = "done"] ELSE recv[k]

(* mutant: the event is not set                                            *)
StopSilently ==
  /\ running /\ running' = FALSE
  /\ UNCHANGED <<shutdown, starts, subscribers, knownAgents, queues, recv, books>>

Stop ==
  /\ running /\ running' = FALSE
  /\ shutdown' = TRUE /\ recv' = [k \in Keys |-> Signalled(k)]
  /\ UNCHANGED <<starts, subscribers, knownAgents, queues, books>>

----------------------------------------------------------------------------
(* Channels and subscriptions.                                             *)

EnsureQueue(k) == IF queues[k] = None THEN <<>> ELSE queues[k]
EnsureQueues(K) == queues' = [k \in Keys |-> IF k \in K THEN EnsureQueue(k) ELSE queues[k]]

CreateChannel(c) ==
  /\ running /\ ~Exists(c) /\ TypeOf[c] # "DIRECT"
  /\ subscribers' = [subscribers EXCEPT ![c] = {}]
  /\ UNCHANGED <<running, shutdown, starts, knownAgents, queues, recv, books>>

Subscribe(c, a) ==
  /\ running /\ Exists(c)
  /\ knownAgents' = knownAgents \cup {a}
  /\ \/ a \in subscribers[c] /\ UNCHANGED <<subscribers, queues>>
     \/ /\ a \notin subscribers[c]
        /\ subscribers' = [subscribers EXCEPT ![c] = @ \cup {a}] /\ EnsureQueues({<<c, a>>})
  /\ UNCHANGED <<running, shutdown, starts, recv, books>>

Unsubscribe(c, a) ==
  /\ running /\ Exists(c) /\ a \in subscribers[c]
  /\ subscribers' = [subscribers EXCEPT ![c] = @ \ {a}]
  /\ queues' = [queues EXCEPT ![<<c, a>>] = None]
  /\ recv' = [recv EXCEPT ![<<c, a>>] =
                [Detached(<<c, a>>) EXCEPT !.unsub = @ \/ recv[<<c, a>>].registered,
                                           !.registered = FALSE]]
  /\ enqueued' = {e \in enqueued : e[2] # <<c, a>>}
  /\ UNCHANGED <<running, shutdown, starts, knownAgents, published, returned, lost>>

----------------------------------------------------------------------------
(* Publishing: a message goes into the queue of every target that has      *)
(* room, and is dropped for the others.                                    *)

EnqueueOrDrop(q, m) == IF Len(q) < MaxQueue THEN Append(q, m) ELSE q

Deliver(K) ==
  LET m == published + 1
      room == {k \in K : Len(EnsureQueue(k)) < MaxQueue}
  IN /\ published < MaxMessages /\ published' = m
     /\ queues' = [k \in Keys |-> IF k \in K THEN EnqueueOrDrop(EnsureQueue(k), m) ELSE queues[k]]
     /\ enqueued' = enqueued \cup {<<m, k>> : k \in room}
     /\ UNCHANGED <<recv, returned, lost>>

Publish(c) ==
  /\ running /\ Exists(c)
  /\ Deliver({c} \X (IF TypeOf[c] = "BROADCAST" THEN knownAgents ELSE subscribers[c]))
  /\ UNCHANGED busVars

(* the DIRECT channel is created on demand, and both agents subscribed     *)
SendDirect(c) ==
  /\ running /\ TypeOf[c] = "DIRECT"
  /\ knownAgents' = knownAgents \cup PairOf[c]
  /\ subscribers' = [subscribers EXCEPT ![c] = IF @ = None THEN PairOf[c] ELSE @ \cup PairOf[c]]
  /\ Deliver({c} \X PairOf[c])
  /\ UNCHANGED <<running, shutdown, starts>>

----------------------------------------------------------------------------
(* receive().                                                              *)

Receive(c, a) ==
  LET k == <<c, a>> IN
  /\ recv[k].pc = "idle" /\ running /\ Exists(c)
  /\ TypeOf[c] = "BROADCAST" \/ a \in subscribers[c]
  /\ EnsureQueues({k})
  /\ \E timed \in BOOLEAN :
       recv' = [recv EXCEPT ![k] = [NoCall EXCEPT !.pc = "waiting", !.shut = "new",
                                                  !.registered = TRUE, !.timed = timed]]
  /\ UNCHANGED <<busVars, books>>

(* the queue the get_task waits on                                         *)
Source(k) == IF recv[k].rest = None THEN queues[k] ELSE recv[k].rest

GetTask(k) ==
  /\ Waiting(k) /\ recv[k].item = None /\ Source(k) # <<>>
  /\ recv' = [recv EXCEPT ![k].item = Head(Source(k)),
                          ![k].rest = IF @ = None THEN None ELSE Tail(@)]
  /\ queues' = IF recv[k].rest = None THEN [queues EXCEPT ![k] = Tail(@)] ELSE queues
  /\ UNCHANGED <<busVars, books>>

(* the first step of shutdown_task                                         *)
ShutdownTask(k) ==
  /\ Waiting(k) /\ recv[k].shut = "new"
  /\ recv' = [recv EXCEPT ![k].shut = IF shutdown THEN "done" ELSE "waiting"]
  /\ UNCHANGED <<busVars, queues, books>>

Finished(k) == recv' = [recv EXCEPT ![k] = NoCall]
Woken(k) == recv[k].shut = "done" \/ recv[k].unsub \/ recv[k].timed

(* mutant: a receive() that was woken for another reason does not look at  *)
(* its get_task                                                            *)
ReturnNoneFirst(k) ==
  /\ Waiting(k) /\ Woken(k)
  /\ Finished(k) /\ UNCHANGED <<busVars, queues, books>>

(* mutant: a cancelled receive() puts its message back at the end          *)
CancelReceiveRequeues(k) ==
  /\ Waiting(k) /\ Finished(k)
  /\ queues' = IF recv[k].item = None \/ queues[k] = None THEN queues
               ELSE [queues EXCEPT ![k] = Append(@, recv[k].item)]
  /\ UNCHANGED <<busVars, books>>

(* asyncio.wait() returns: a finished get_task counts, whatever else woke  *)
(* the call; an unfinished one is cancelled and leaves the queue alone     *)
ReturnMessage(k) ==
  /\ Waiting(k) /\ recv[k].item # None
  /\ returned' = returned \cup {<<recv[k].item, k>>} /\ Finished(k)
  /\ UNCHANGED <<busVars, queues, published, enqueued, lost>>

ReturnNone(k) ==
  /\ Waiting(k) /\ Woken(k) /\ recv[k].item = None
  /\ Finished(k) /\ UNCHANGED <<busVars, queues, books>>

(* the caller is cancelled: what the get_task took is gone                 *)
CancelReceive(k) ==
  /\ Waiting(k) /\ Finished(k)
  /\ lost' = IF recv[k].item = None THEN lost ELSE lost \cup {<<recv[k].item, k>>}
  /\ UNCHANGED <<busVars, queues, published, enqueued, returned>>

ReceiveStep(k) == GetTask(k) \/ ShutdownTask(k) \/ ReturnMessage(k) \/ ReturnNone(k)

Next ==
  \/ Start \/ Stop
  \/ \E c \in Channels : CreateChannel(c) \/ Publish(c) \/ SendDirect(c)
  \/ \E c \in Channels, a \in Agents : Subscribe(c, a) \/ Unsubscribe(c, a)
  \/ \E k \in Pollers : Receive(k[1], k[2]) \/ ReceiveStep(k) \/ CancelReceive(k)

Spec == Init /\ [][Next]_vars
(* the event loop runs every task that is ready                            *)
FairSpec == Spec /\ \A k \in Pollers : WF_vars(ReceiveStep(k))

----------------------------------------------------------------------------
(* A subscriber gets the messages of a channel in the order in which they  *)
(* were published, none of them twice, whatever calls time out, get        *)
(* cancelled or are overtaken by unsubscribe() and restarts.               *)
ReceivedInOrder ==
  \A k \in Pollers : recv[k].item # None =>
    \A e \in returned \cup lost : e[2] = k => e[1] < recv[k].item

(* A message that went into a queue stays there, is held by the receive()  *)
(* that took it, or was returned: a time-out, a shutdown or another wake   *)
(* that races with the message does not lose it.  Only cancelling the      *)
(* caller does.                                                            *)
NothingVanishes ==
  \A e \in enqueued :
    LET k == e[2] IN
    \/ \E i \in DOMAIN queues[k] : queues[k][i] = e[1]
    \/ e[1] = recv[k].item
    \/ e \in returned \cup lost

(* A receive() without a time-out that waits when the bus stops, or whose  *)
(* subscription is removed, returns.                                       *)
WaitersWake ==
  \A k \in Pollers : Waiting(k) /\ (~running \/ ~recv[k].registered) ~> ~Waiting(k)
=============================================================================
