---------------------------- MODULE MCTaskEngine ----------------------------
(***************************************************************************)
(* TaskEngine for TLC: one task stored by an earlier process, a handful of *)
(* mutations that contend for it, and one creation.                        *)
(***************************************************************************)
EXTENDS TaskEngineStore, TLC

CONSTANTS t0, a1, p1, p2

MCOldTasks == {t0}
MCAgents == {a1}
MCPayloads == {p1, p2}
MCOldRows == {[status |-> "ASSIGNED", assigned_to |-> a1, payload |-> p1]}

Mut(type, task, target, updates, expected) ==
  [type |-> type, task |-> task, target |-> target, updates |-> updates,
   expected_version |-> expected]

SetPayload == [assigned_to |-> Keep, payload |-> p2]

(* two updates that expect the version the other one replaces, ...         *)
Contending == {Mut("update", t0, None, SetPayload, 1), Mut("update", t0, None, SetPayload, 2)}
(* ... an unconditional transition, a cancellation, a deletion, an update  *)
(* of nothing, and a creation                                              *)
MCMutations == Contending \cup
  {Mut("transition", t0, "IN_PROGRESS", NoUpdates, None),
   Mut("cancel", t0, None, NoUpdates, None),
   Mut("delete", t0, None, NoUpdates, None),
   Mut("update", t0, None, NoUpdates, None),
   Mut("create", None, None, SetPayload, None)}

(* fewer mutations where the loops' life cycle is the question             *)
MCFewMutations == {Mut("update", t0, None, SetPayload, 1), Mut("cancel", t0, None, NoUpdates, None)}

(* a write, a deletion and an update of nothing                            *)
MCSomeMutations == {Mut("transition", t0, "IN_PROGRESS", NoUpdates, 1),
                    Mut("delete", t0, None, NoUpdates, None), Mut("update", t0, None, NoUpdates, None)}

(* calls of submit() are interchangeable                                   *)
RequestSymmetry == Permutations(Requests)
=============================================================================
