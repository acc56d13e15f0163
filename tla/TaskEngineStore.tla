-------------------------- MODULE TaskEngineStore --------------------------
(***************************************************************************)
(* TaskEngine implements TaskStore.                                        *)
(***************************************************************************)
EXTENDS TaskEngine

(* The answer a caller can act on.                                         *)
AnswerOf(code) ==
  CASE code = "unsent"        -> "none"
    [] code \in {"pending", "ok"} -> code
    [] code \in Rejection     -> "refused"
    [] OTHER                  -> "unknown"

Store == INSTANCE TaskStore
           WITH answer <- [r \in Requests |-> AnswerOf(reply[r].code)], applied <- Range(applied)

(* The engine implements the atomic store: queueing, the separate read,    *)
(* save and answer of _process_one, drains, cancellations and restarts are *)
(* invisible to the callers.                                               *)
ImplementsStore == Store!Spec
============================================================================
