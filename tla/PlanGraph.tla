----------------------------- MODULE PlanGraph -----------------------------
(***************************************************************************)
(* The dependency graph of a swarm plan: src/crates/jcode-plan/src/lib.rs. *)
(* A plan is a function from item ids to items; blocked_by may name ids    *)
(* that are not in the plan, the item itself, or form cycles.  Everything  *)
(* here is a pure function of the items.                                   *)
(***************************************************************************)
EXTENDS Integers, FiniteSets

CONSTANTS Id,         \* item ids, in the plan or only named by blocked_by;
                      \* numbers, so that they are ordered as the strings are
          Session,    \* session ids
          None

ASSUME IdAssumption == Id \subseteq Nat /\ IsFiniteSet(Id)
ASSUME SessionAssumption == None \notin Session \cup Id

Status == {"queued", "ready", "pending", "todo", "running", "running_stale",
           "completed", "done", "failed", "stopped", "crashed", "blocked"}

Priority == {"high", "medium", "low"}

Item == [status : Status, priority : Priority, blocked_by : SUBSET Id,
         assigned_to : Session \cup {None}]

(* A plan: some of the ids, each with its item. *)
IsPlan(items) == DOMAIN items \subseteq Id /\ items \in [DOMAIN items -> Item]

-----------------------------------------------------------------------------
is_completed_status(s) == s \in {"completed", "done"}

is_terminal_status(s) == s \in {"completed", "done", "failed", "stopped", "crashed"}

is_active_status(s) == s \in {"running", "running_stale"}

is_runnable_status(s) == s \in {"queued", "ready", "pending", "todo"}

priority_rank(p) == CASE p = "high" -> 0 [] p = "low" -> 2 [] OTHER -> 1

completed_item_ids(items) == {i \in DOMAIN items : is_completed_status(items[i].status)}

(* Mutant: completed dependencies are not filtered out. *)
AllKnownDependencies(items, i) == items[i].blocked_by \cap DOMAIN items

unresolved_dependencies(items, i) ==
    (items[i].blocked_by \cap DOMAIN items) \ completed_item_ids(items)

missing_dependencies(items, i) == items[i].blocked_by \ DOMAIN items

is_unblocked(items, i) ==
    missing_dependencies(items, i) = {} /\ unresolved_dependencies(items, i) = {}

(* Dependencies that are items of the plan. *)
KnownDeps(items, i) == items[i].blocked_by \cap DOMAIN items

(* A set of items each of which waits for another of the set: none of them *)
(* can ever come first.                                                    *)
Entangled(items, S) == \A i \in S : KnownDeps(items, i) \cap S # {}

(* cycle_item_ids: the items that Kahn's elimination cannot remove, which  *)
(* are the items on a cycle and those that depend on one.  CycleDetect     *)
(* shows that the loop of the code computes this set.                      *)
cycle_item_ids(items) ==
    {i \in DOMAIN items : \E S \in SUBSET DOMAIN items : i \in S /\ Entangled(items, S)}

-----------------------------------------------------------------------------
(* summarize_plan_graph, one operator per field of PlanGraphSummary.       *)

HasDependencyBlocker(items, i) ==
    unresolved_dependencies(items, i) # {} \/ i \in cycle_item_ids(items)

(* Mutant: dependencies that are not in the plan do not block. *)
IsReadyIgnoringMissing(items, i) ==
    is_runnable_status(items[i].status) /\ ~ HasDependencyBlocker(items, i)

IsReady(items, i) ==
    /\ is_runnable_status(items[i].status)
    /\ missing_dependencies(items, i) = {}
    /\ ~ HasDependencyBlocker(items, i)

ready_ids(items) == {i \in DOMAIN items : IsReady(items, i)}

blocked_ids(items) ==
    {i \in DOMAIN items :
        /\ ~ IsReady(items, i)
        /\ ~ is_terminal_status(items[i].status)
        /\ ~ is_active_status(items[i].status)
        /\ \/ missing_dependencies(items, i) # {}
           \/ HasDependencyBlocker(items, i)
           \/ items[i].status = "blocked"}

active_ids(items) == {i \in DOMAIN items : is_active_status(items[i].status)}

terminal_ids(items) == {i \in DOMAIN items : is_terminal_status(items[i].status)}

unresolved_dependency_ids(items) ==
    UNION {missing_dependencies(items, i) : i \in DOMAIN items}

newly_ready_item_ids(before, after) == ready_ids(after) \ ready_ids(before)

(* The order of next_runnable_item_ids: by priority, then by id. *)
Precedes(items, i, j) ==
    \/ priority_rank(items[i].priority) < priority_rank(items[j].priority)
    \/ priority_rank(items[i].priority) = priority_rank(items[j].priority) /\ i < j

(* The first ready item in that order that nobody is assigned to, or None. *)
next_unassigned_runnable_item_id(items) ==
    LET free == {i \in ready_ids(items) : items[i].assigned_to = None} IN
    IF free = {} THEN None
    ELSE CHOOSE i \in free : \A j \in free \ {i} : Precedes(items, i, j)

(* explicit_task_blocked_reason: the first reason that applies, or "none"; *)
(* an id that is not in the plan has no reason.                            *)
explicit_task_blocked_reason(items, i) ==
    CASE i \notin DOMAIN items -> "none"
      [] i \in DOMAIN items /\ missing_dependencies(items, i) # {} -> "missing"
      [] /\ i \in DOMAIN items
         /\ missing_dependencies(items, i) = {}
         /\ unresolved_dependencies(items, i) # {} -> "unresolved"
      [] OTHER -> IF i \in cycle_item_ids(items) THEN "cycle" ELSE "none"

-----------------------------------------------------------------------------
ControlAction == {"start", "wake", "resume", "retry", "reassign", "replace", "salvage"}

task_control_action_allows_status(action, s) ==
    \/ action \in {"start", "wake"} /\ s = "queued"
    \/ action = "resume" /\ s \in {"queued", "running", "running_stale"}
    \/ action = "retry" /\ s \in {"failed", "running_stale"}
    \/ action \in {"reassign", "replace", "salvage"} /\ s # "done"
=============================================================================
