-------------------------- MODULE SandboxLifecycle --------------------------
(***************************************************************************)
(* Which container the tool calls of one owner run in                      *)
(* (tools/sandbox/lifecycle/): the per-agent strategy, which keeps the     *)
(* container for a grace period after release(), and the per-task one,     *)
(* which destroys it at once.  Owners share nothing but the lock, and the  *)
(* lock is never held across an await other than cleanup_all()'s wait for  *)
(* timers it has cancelled, so a critical section is one step.             *)
(*                                                                         *)
(* The callbacks create_fn and destroy_fn are Docker's and external.       *)
(* grace_period_seconds and max_idle_seconds are configuration: the timers *)
(* fire in either order, and the idle timer need not exist.                *)
(***************************************************************************)
EXTENDS Naturals

CONSTANTS Users,       \* concurrent callers with the same owner_id
          None,
          Strategies,  \* "per-agent", "per-task": the ones to choose from
          MaxCalls,    \* bound on the acquire() calls
          Faults

(* "create_error"   create_fn raises                                       *)
(* "destroy_error"  destroy_fn raises                                      *)
FaultKinds == {"create_error", "destroy_error"}

(* numbered in the order of their creation                                 *)
Containers == 1..MaxCalls

VARIABLES strategy,
          container,   \* _containers
          grace, idle, \* whether _timers, _idle_timers hold a pending timer
          destroyFn,   \* whether _destroy_fns has a callback
          status,      \* "none", "alive", "destroying", "gone"; "lost": nobody will destroy it
          user,        \* the callers
          calls,       \* how many acquire() calls there were
          alone,       \* users that nobody has overlapped with since their acquire()
          cleaned

timers == <<grace, idle, destroyFn>>
vars == <<strategy, container, timers, status, user, calls, alone, cleaned>>

NoUse == [pc |-> "idle", held |-> None, loser |-> None]

Init ==
  /\ strategy \in Strategies
  /\ container = None /\ grace = FALSE /\ idle = FALSE /\ destroyFn = FALSE
  /\ status = [c \in Containers |-> "none"]
  /\ user = [u \in Users |-> NoUse] /\ calls = 0
  /\ alone = {} /\ cleaned = FALSE

Pc(u) == user[u].pc
Goes(u, use) == user' = [user EXCEPT ![u] = use]
Using(c) == [NoUse EXCEPT !.pc = "using", !.held = c]
CancelTimers == grace' = FALSE /\ idle' = FALSE /\ UNCHANGED destroyFn

(* the registered container is taken out, to be destroyed                  *)
Unregister ==
  /\ container' = None
  /\ status' = [c \in Containers |-> IF c = container THEN "destroying" ELSE status[c]]

----------------------------------------------------------------------------
(* acquire().                                                              *)

Overlaps(u) ==
  alone' = IF \A v \in Users \ {u} : Pc(v) = "idle" THEN {u} ELSE {}

(* mutant: the timers of the last release() keep running                   *)
AcquireUncancelled(u) ==
  /\ Pc(u) = "idle" /\ calls < MaxCalls /\ calls' = calls + 1
  /\ \/ container # None /\ Goes(u, Using(container))
     \/ container = None /\ Goes(u, [NoUse EXCEPT !.pc = "create"])
  /\ Overlaps(u) /\ UNCHANGED <<strategy, container, timers, status, cleaned>>

Acquire(u) ==
  /\ Pc(u) = "idle" /\ calls < MaxCalls /\ calls' = calls + 1
  /\ CancelTimers
  /\ \/ container # None /\ Goes(u, Using(container))
     \/ container = None /\ Goes(u, [NoUse EXCEPT !.pc = "create"])
  /\ Overlaps(u) /\ UNCHANGED <<strategy, container, status, cleaned>>

Fresh(c) == status[c] = "none" /\ \A b \in 1..(c - 1) : status[b] # "none"

(* create_fn returns c, and nobody registered a container meanwhile        *)
Created(u, c) ==
  /\ Pc(u) = "create" /\ Fresh(c) /\ container = None
  /\ container' = c /\ status' = [status EXCEPT ![c] = "alive"]
  /\ Goes(u, Using(c))
  /\ UNCHANGED <<strategy, timers, calls, alone, cleaned>>

(* a concurrent acquire() has won: per-agent destroys c, if some release() *)
(* has left a callback                                                     *)
CreatedTooLate(u, c) ==
  /\ strategy = "per-agent" /\ Pc(u) = "create" /\ Fresh(c) /\ container # None
  /\ CancelTimers
  /\ \/ /\ destroyFn /\ status' = [status EXCEPT ![c] = "destroying"]
        /\ Goes(u, [pc |-> "drop", held |-> container, loser |-> c])
     \/ /\ ~destroyFn /\ status' = [status EXCEPT ![c] = "lost"]
        /\ Goes(u, Using(container))
  /\ UNCHANGED <<strategy, container, calls, alone, cleaned>>

(* and per-task forgets it                                                 *)
CreatedForNothing(u, c) ==
  /\ strategy = "per-task" /\ Pc(u) = "create" /\ Fresh(c) /\ container # None
  /\ status' = [status EXCEPT ![c] = "lost"] /\ Goes(u, Using(container))
  /\ UNCHANGED <<strategy, container, timers, calls, alone, cleaned>>

CreateFails(u) ==
  /\ "create_error" \in Faults /\ Pc(u) = "create" /\ Goes(u, NoUse)
  /\ UNCHANGED <<strategy, container, timers, status, calls, alone, cleaned>>

(* acquire() returns the winner's container once the loser is destroyed,   *)
(* release() of the per-task strategy once the container is                *)
Returns(u) ==
  /\ Pc(u) \in {"drop", "release"}
  /\ status[user[u].loser] # "destroying"
  /\ \/ Pc(u) = "drop" /\ Goes(u, Using(user[u].held))
     \/ Pc(u) = "release" /\ Goes(u, NoUse)
  /\ UNCHANGED <<strategy, container, timers, status, calls, alone, cleaned>>

----------------------------------------------------------------------------
(* release(), the timers, cleanup_all().                                   *)

(* mutant: only the first release() starts the timers                      *)
ReleaseOnce(u) ==
  /\ strategy = "per-agent" /\ Pc(u) = "using" /\ Goes(u, NoUse)
  /\ \/ container # None /\ ~destroyFn /\ grace' = TRUE /\ idle' = TRUE /\ destroyFn' = TRUE
     \/ (container = None \/ destroyFn) /\ UNCHANGED timers
  /\ UNCHANGED <<strategy, container, status, calls, alone, cleaned>>

(* restart the timers, unless the container is gone already                *)
Release(u) ==
  /\ strategy = "per-agent" /\ Pc(u) = "using" /\ Goes(u, NoUse)
  /\ \/ container # None /\ grace' = TRUE /\ idle' = TRUE /\ destroyFn' = TRUE
     \/ container = None /\ UNCHANGED timers
  /\ UNCHANGED <<strategy, container, status, calls, alone, cleaned>>

ReleaseTask(u) ==
  /\ strategy = "per-task" /\ Pc(u) = "using"
  /\ \/ /\ container # None /\ Unregister
        /\ Goes(u, [NoUse EXCEPT !.pc = "release", !.loser = container])
     \/ container = None /\ Goes(u, NoUse) /\ UNCHANGED <<container, status>>
  /\ UNCHANGED <<strategy, timers, calls, alone, cleaned>>

GraceExpire ==
  /\ grace /\ grace' = FALSE /\ idle' = FALSE /\ destroyFn' = FALSE
  /\ Unregister
  /\ UNCHANGED <<strategy, user, calls, alone, cleaned>>

(* the grace timer stays                                                   *)
IdleExpire ==
  /\ idle /\ idle' = FALSE /\ destroyFn' = FALSE /\ UNCHANGED grace
  /\ Unregister
  /\ UNCHANGED <<strategy, user, calls, alone, cleaned>>

(* at shutdown, with calls still running                                   *)
CleanupAll ==
  /\ ~cleaned /\ cleaned' = TRUE /\ alone' = {}
  /\ grace' = FALSE /\ idle' = FALSE /\ destroyFn' = FALSE
  /\ Unregister
  /\ UNCHANGED <<strategy, user, calls>>

(* destroy_fn returns; when it raises, that is logged and the handle is    *)
(* forgotten                                                               *)
Destroy(c) ==
  /\ status[c] = "destroying"
  /\ \/ status' = [status EXCEPT ![c] = "gone"]
     \/ "destroy_error" \in Faults /\ status' = [status EXCEPT ![c] = "lost"]
  /\ UNCHANGED <<strategy, container, timers, user, calls, alone, cleaned>>

UserStep(u) ==
  \/ \E c \in Containers : Created(u, c) \/ CreatedTooLate(u, c) \/ CreatedForNothing(u, c)
  \/ Returns(u) \/ Release(u) \/ ReleaseTask(u)

Next ==
  \/ \E u \in Users : Acquire(u) \/ UserStep(u) \/ CreateFails(u)
  \/ GraceExpire \/ IdleExpire \/ CleanupAll
  \/ \E c \in Containers : Destroy(c)

Spec == Init /\ [][Next]_vars

(* Docker's calls and the tool calls end, and the grace timer fires.       *)
Fairness ==
  /\ \A u \in Users : WF_vars(UserStep(u))
  /\ WF_vars(GraceExpire) /\ \A c \in Containers : WF_vars(Destroy(c))
FairSpec == Spec /\ Fairness

----------------------------------------------------------------------------
(* A tool call that nobody overlaps with keeps its container: neither a    *)
(* timer that an earlier release() started, in whatever stage it is, nor   *)
(* the clean-up after earlier, overlapping calls destroys it, and the warm *)
(* container it was given had not been destroyed.                          *)
InUseIsKept ==
  \A u \in alone : Pc(u) = "using" => status[user[u].held] = "alive"

(* Containers do not stay: when the calls are over each one is destroyed,  *)
(* however acquire(), release() and the timers interleaved, except when    *)
(* Docker refuses or it lost a race with another creation and nobody knew  *)
(* how to destroy it.                                                      *)
ContainersEnd ==
  (\E c \in Containers : status[c] = "alive") ~> (\A c \in Containers : status[c] # "alive")
=============================================================================
