---------------------------- MODULE CycleDetect ----------------------------
(***************************************************************************)
(* The loop of cycle_item_ids (src/crates/jcode-plan/src/lib.rs): Kahn's   *)
(* elimination over the known dependencies.  The code pops from a Vec that *)
(* it fills in HashMap order, which differs from run to run: here any      *)
(* queued id may be popped next.  An id named twice in a blocked_by list   *)
(* counts twice in the degree and is released twice; here once.            *)
(***************************************************************************)
EXTENDS PlanGraph

CONSTANT InitPlans    \* the plans the function is called with

ASSUME InitPlansAssumption == \A p \in InitPlans : IsPlan(p)

VARIABLES plan,       \* the argument, items
          indegree,   \* known dependencies not yet visited, per item
          queue,      \* ids whose degree reached 0, still to be visited
          visited

kvars == <<plan, indegree, queue, visited>>

dependents(id) == {c \in DOMAIN plan : id \in KnownDeps(plan, c)}

KInit ==
    /\ plan \in InitPlans
    /\ indegree = [i \in DOMAIN plan |-> Cardinality(KnownDeps(plan, i))]
    /\ queue = {i \in DOMAIN plan : Cardinality(KnownDeps(plan, i)) = 0}
    /\ visited = {}

Released(id) == [c \in DOMAIN plan |->
                    IF c \in dependents(id) THEN indegree[c] - 1 ELSE indegree[c]]

(* Mutants: all children are queued, whatever their degree; no child is    *)
(* queued; the id stays on the queue and is visited again; it stays on the *)
(* queue and is skipped for ever.                                          *)
VisitAs(id, next_degree, next_queue) ==
    /\ id \in queue
    /\ visited' = visited \cup {id}
    /\ indegree' = next_degree
    /\ queue' = next_queue
    /\ UNCHANGED plan

VisitReleasingAll(id) == VisitAs(id, Released(id), (queue \ {id}) \cup dependents(id))

VisitReleasingNone(id) == VisitAs(id, Released(id), queue \ {id})

(* One turn of the while loop: visit an id and release its children. *)
Visit(id) ==
    /\ id \in queue
    /\ visited' = visited \cup {id}
    /\ indegree' = Released(id)
    /\ queue' = (queue \ {id}) \cup {c \in dependents(id) : Released(id)[c] = 0}
    /\ UNCHANGED plan

KNext == \E id \in Id : Visit(id)

KSpec == KInit /\ [][KNext]_kvars

(* The ids the function returns when the queue is empty. *)
Result == {i \in DOMAIN plan : indegree[i] > 0 /\ i \notin visited}

-----------------------------------------------------------------------------
(* Whatever order the ids are popped in, the loop returns exactly the      *)
(* items that lie on a dependency cycle or depend on one.                  *)
ReturnsCycleIds == queue = {} => Result = cycle_item_ids(plan)

(* No id is released early: all the known dependencies of a queued or      *)
(* visited id have been visited, and no id of a cycle is ever visited.     *)
ReleasedInOrder ==
    /\ \A i \in queue : KnownDeps(plan, i) \subseteq visited
    /\ visited \cap cycle_item_ids(plan) = {}

(* A plan does not stall: while some items still wait to be run and all    *)
(* the others are completed, one is ready, unless the summary names an     *)
(* obstacle - a dependency cycle or a dependency missing from the plan.    *)
NoSilentStall ==
    (/\ \E i \in DOMAIN plan : is_runnable_status(plan[i].status)
     /\ \A i \in DOMAIN plan :
           is_runnable_status(plan[i].status) \/ is_completed_status(plan[i].status)
     /\ cycle_item_ids(plan) = {}
     /\ unresolved_dependency_ids(plan) = {})
    => ready_ids(plan) # {}

(* Automatic assignment (next_unassigned_runnable_item_id) never picks an  *)
(* item that an explicit assignment would refuse as blocked.               *)
PickIsNotBlocked ==
    LET next == next_unassigned_runnable_item_id(plan) IN
    next # None => explicit_task_blocked_reason(plan, next) = "none"
=============================================================================
