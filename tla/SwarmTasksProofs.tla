-------------------------- MODULE SwarmTasksProofs --------------------------
(***************************************************************************)
(* Proofs about the swarm's plan: the graph of PlanGraph, the loop of      *)
(* CycleDetect and the tasks of SwarmTasks, for any finite plan and any    *)
(* number of sessions, requests and pending events.                        *)
(*                                                                         *)
(* The loop invariant of cycle_item_ids is that indegree counts the known  *)
(* dependencies that have not been visited, and that the queue holds       *)
(* exactly the unvisited items whose known dependencies all have.          *)
(*                                                                         *)
(* The inductive invariant of the tasks is IInv: the type invariant, what  *)
(* a position says about the request's task, and dependencies that         *)
(* succeeded before anything that depends on them was assigned.            *)
(***************************************************************************)
EXTENDS SwarmTasks, CycleDetect, FiniteSetTheorems, SequenceTheorems,
        WellFoundedInduction, TLAPS

(* The loop of cycle_item_ids: what an item still waits for. *)
Waiting(i) == KnownDeps(plan, i) \ visited

LoopInv ==
    /\ IsPlan(plan)
    /\ visited \subseteq DOMAIN plan
    /\ indegree = [i \in DOMAIN plan |-> Cardinality(Waiting(i))]
    /\ queue = {i \in DOMAIN plan \ visited : Waiting(i) = {}}
    /\ \A i \in visited : Waiting(i) = {}

-----------------------------------------------------------------------------
(* The sets whose sizes the loop counts are finite. *)
LEMMA WaitingFinite == IsPlan(plan) => \A i \in DOMAIN plan : IsFiniteSet(Waiting(i))
<1> SUFFICES ASSUME IsPlan(plan), NEW i \in DOMAIN plan PROVE IsFiniteSet(Waiting(i))
  OBVIOUS
<1>1. Waiting(i) \subseteq Id
  BY DEF IsPlan, Waiting, KnownDeps
<1> QED BY <1>1, IdAssumption, FS_Subset

(* A degree is 0 exactly when nothing is waited for. *)
LEMMA DegreeZero ==
  IsPlan(plan) => \A i \in DOMAIN plan :
     Cardinality(Waiting(i)) \in Nat /\ (Cardinality(Waiting(i)) = 0 <=> Waiting(i) = {})
BY WaitingFinite, FS_CardinalityType, FS_EmptySet

(* The loop invariant holds when the loop starts. *)
LEMMA LoopInit == KInit => LoopInv
<1> SUFFICES ASSUME KInit PROVE LoopInv
  OBVIOUS
<1>1. IsPlan(plan) /\ visited = {}
  BY InitPlansAssumption DEF KInit
<1>2. \A i \in DOMAIN plan : Waiting(i) = KnownDeps(plan, i)
  BY <1>1 DEF Waiting
<1>3. indegree = [i \in DOMAIN plan |-> Cardinality(Waiting(i))]
  BY <1>2 DEF KInit
<1>4. queue = {i \in DOMAIN plan \ visited : Waiting(i) = {}}
  BY <1>1, <1>2, DegreeZero DEF KInit
<1> QED BY <1>1, <1>3, <1>4 DEF LoopInv

(* Visiting an id takes it out of what every item waits for. *)
LEMMA LoopStep == LoopInv /\ [KNext]_kvars => LoopInv'
<1> SUFFICES ASSUME LoopInv, [KNext]_kvars PROVE LoopInv'
  OBVIOUS
<1>1. CASE UNCHANGED kvars
  BY <1>1 DEF kvars, LoopInv, Waiting
<1>2. ASSUME NEW id \in Id, Visit(id) PROVE LoopInv'
  <2>1. plan' = plan /\ visited' = visited \cup {id} /\ IsPlan(plan)
    BY <1>2 DEF Visit, LoopInv
  <2>2. id \in DOMAIN plan /\ id \notin visited /\ Waiting(id) = {}
    BY <1>2 DEF Visit, LoopInv
  <2>3. \A i \in DOMAIN plan : Waiting(i)' = Waiting(i) \ {id}
    BY <2>1 DEF Waiting
  <2>4. \A i \in DOMAIN plan : i \in dependents(id) <=> id \in Waiting(i)
    BY <2>2 DEF dependents, Waiting
  <2>5. \A i \in DOMAIN plan : Released(id)[i] = Cardinality(Waiting(i)')
    <3> SUFFICES ASSUME NEW i \in DOMAIN plan
                 PROVE  Released(id)[i] = Cardinality(Waiting(i)')
      OBVIOUS
    <3>1. IsFiniteSet(Waiting(i)) /\ indegree[i] = Cardinality(Waiting(i))
      BY <2>1, WaitingFinite DEF LoopInv
    <3>2. CASE id \in Waiting(i)
      <4>1. Cardinality(Waiting(i) \ {id}) = Cardinality(Waiting(i)) - 1
        BY <3>1, <3>2, FS_RemoveElement
      <4> QED BY <4>1, <3>1, <3>2, <2>3, <2>4 DEF Released
    <3>3. CASE id \notin Waiting(i)
      <4>1. Waiting(i)' = Waiting(i)
        BY <2>3, <3>3
      <4> QED BY <4>1, <3>1, <3>3, <2>4 DEF Released
    <3> QED BY <3>2, <3>3
  <2>6. indegree' = [i \in DOMAIN plan' |-> Cardinality(Waiting(i)')]
    BY <1>2, <2>1, <2>5 DEF Visit, Released
  <2>7. \A i \in DOMAIN plan : Cardinality(Waiting(i)') = 0 <=> Waiting(i)' = {}
    <3> SUFFICES ASSUME NEW i \in DOMAIN plan
                 PROVE  Cardinality(Waiting(i)') = 0 <=> Waiting(i)' = {}
      OBVIOUS
    <3>1. IsFiniteSet(Waiting(i)')
      BY <2>1, <2>3, WaitingFinite, FS_Subset
    <3> QED BY <3>1, FS_EmptySet
  <2>8. queue' = {i \in DOMAIN plan' \ visited' : Waiting(i)' = {}}
    <3>1. queue' = (queue \ {id}) \cup {c \in dependents(id) : Waiting(c)' = {}}
      BY <1>2, <2>5, <2>7 DEF Visit, dependents
    <3>2. queue = {i \in DOMAIN plan \ visited : Waiting(i) = {}}
      BY DEF LoopInv
    <3>3. \A c \in dependents(id) : c \in DOMAIN plan /\ c \notin visited /\ c # id
      BY <2>2, <2>4 DEF LoopInv, dependents
    <3>4. \A c \in DOMAIN plan :
             Waiting(c)' = {} <=> (Waiting(c) = {} \/ (c \in dependents(id) /\ Waiting(c)' = {}))
      BY <2>3, <2>4
    <3> QED BY <3>1, <3>2, <3>3, <3>4, <2>1
  <2>9. \A i \in visited' : Waiting(i)' = {}
    BY <2>1, <2>2, <2>3 DEF LoopInv
  <2> QED BY <2>1, <2>2, <2>6, <2>8, <2>9 DEF LoopInv
<1> QED BY <1>1, <1>2 DEF KNext

(* cycle_item_ids runs its loop within the loop invariant. *)
THEOREM LoopInvariant == KSpec => []LoopInv
BY LoopInit, LoopStep, PTL DEF KSpec

-----------------------------------------------------------------------------
(* A visited item never belongs to an entangled set.  This is an           *)
(* invariant, not a consequence of LoopInv: it depends on the order of the *)
(* visits.                                                                 *)
NoCycleVisited == visited \cap cycle_item_ids(plan) = {}

(* A visit keeps it: the dependencies of the visited id were visited.      *)
LEMMA NoCycleVisitedStep ==
  LoopInv /\ NoCycleVisited /\ [KNext]_kvars => NoCycleVisited'
<1> SUFFICES ASSUME LoopInv, NoCycleVisited, [KNext]_kvars PROVE NoCycleVisited'
  OBVIOUS
<1>1. CASE UNCHANGED kvars
  BY <1>1 DEF kvars, NoCycleVisited
<1>2. ASSUME NEW id \in Id, Visit(id) PROVE NoCycleVisited'
  <2>1. plan' = plan /\ visited' = visited \cup {id}
    BY <1>2 DEF Visit
  <2>2. KnownDeps(plan, id) \subseteq visited
    BY <1>2 DEF Visit, LoopInv, Waiting
  <2>3. ASSUME NEW S \in SUBSET DOMAIN plan, id \in S, Entangled(plan, S) PROVE FALSE
    <3>1. PICK d \in S : d \in KnownDeps(plan, id)
      BY <2>3 DEF Entangled
    <3>2. d \in visited /\ d \in cycle_item_ids(plan)
      BY <3>1, <2>2, <2>3 DEF cycle_item_ids
    <3> QED BY <3>2 DEF NoCycleVisited
  <2>4. id \notin cycle_item_ids(plan)
    BY <2>3 DEF cycle_item_ids
  <2> QED BY <2>1, <2>4 DEF NoCycleVisited
<1> QED BY <1>1, <1>2 DEF KNext

(* When the queue is empty the unvisited items are entangled with each other. *)
LEMMA UnvisitedEntangled ==
  LoopInv /\ queue = {} => Entangled(plan, DOMAIN plan \ visited)
BY DEF LoopInv, Waiting, Entangled, KnownDeps

(* The loop of cycle_item_ids releases ids only after their dependencies   *)
(* and never one of a cycle.                                               *)
THEOREM ReleaseOrder == KSpec => []ReleasedInOrder
<1>1. KInit => NoCycleVisited
  BY DEF KInit, NoCycleVisited
<1>2. LoopInv /\ NoCycleVisited => ReleasedInOrder
  BY DEF LoopInv, Waiting, NoCycleVisited, ReleasedInOrder
<1> QED BY <1>1, <1>2, NoCycleVisitedStep, LoopInvariant, PTL DEF KSpec

(* Kahn's loop is correct: for every finite plan and every order of visits *)
(* it returns exactly the items on a cycle and those that depend on one.   *)
THEOREM CycleDetectionCorrect == KSpec => []ReturnsCycleIds
<1>1. LoopInv /\ ReleasedInOrder => ReturnsCycleIds
  <2> SUFFICES ASSUME LoopInv, ReleasedInOrder, queue = {}
               PROVE  Result = cycle_item_ids(plan)
    BY DEF ReturnsCycleIds
  <2>1. \A i \in DOMAIN plan \ visited : i \in cycle_item_ids(plan) /\ Waiting(i) # {}
    BY UnvisitedEntangled DEF cycle_item_ids, LoopInv
  <2>2. \A i \in DOMAIN plan \ visited : indegree[i] > 0
    BY <2>1, DegreeZero DEF LoopInv
  <2>3. cycle_item_ids(plan) \subseteq DOMAIN plan \ visited
    BY DEF ReleasedInOrder, cycle_item_ids
  <2> QED BY <2>1, <2>2, <2>3 DEF Result
<1> QED BY <1>1, LoopInvariant, ReleaseOrder, PTL

(* A plan of runnable and completed items with no cycle and no missing     *)
(* dependency has a ready item as long as it is not finished, however      *)
(* large it is: summarize_plan_graph leaves no scheduler without work.     *)
THEOREM PlanNeverStalls == NoSilentStall
<1> SUFFICES ASSUME \A i \in DOMAIN plan : is_runnable_status(plan[i].status)
                                            \/ is_completed_status(plan[i].status),
                    cycle_item_ids(plan) = {},
                    unresolved_dependency_ids(plan) = {},
                    ready_ids(plan) = {},
                    NEW r \in DOMAIN plan, is_runnable_status(plan[r].status)
             PROVE  FALSE
  BY DEF NoSilentStall
<1> DEFINE S == {i \in DOMAIN plan : is_runnable_status(plan[i].status)}
<1>1. \A i \in S : missing_dependencies(plan, i) = {}
  BY DEF unresolved_dependency_ids
<1>2. \A i \in S : unresolved_dependencies(plan, i) # {}
  BY <1>1 DEF ready_ids, IsReady, HasDependencyBlocker
<1>3. \A i \in S : unresolved_dependencies(plan, i) \subseteq S \cap KnownDeps(plan, i)
  BY DEF unresolved_dependencies, completed_item_ids, KnownDeps
<1>4. Entangled(plan, S)
  BY <1>2, <1>3 DEF Entangled
<1>5. r \in cycle_item_ids(plan)
  BY <1>4 DEF cycle_item_ids
<1> QED BY <1>5
-----------------------------------------------------------------------------
(* The order by priority and id. *)

(* A nonempty set of item ids has a first one. *)
LEMMA FirstId ==
    ASSUME NEW S, S \subseteq Id, S # {}
    PROVE  \E i \in S : \A j \in S : i <= j
<1>1. S \subseteq Nat
  BY IdAssumption
<1>2. PICK i \in S : \A j \in S : ~ (<<j, i>> \in OpToRel(<, Nat))
  <2> DEFINE R == OpToRel(<, Nat)
  <2>1. IsWellFoundedOn(R, Nat)
    BY NatLessThanWellFounded
  <2> HIDE DEF R
  <2>2. \E x \in S : \A y \in S : ~ (<<y, x>> \in R)
    BY <1>1, <2>1, WFMin
  <2> QED BY <2>2 DEF R
<1>3. \A j \in S : ~ (j < i)
  BY <1>1, <1>2 DEF OpToRel
<1> QED BY <1>1, <1>3

(* A rank is one of the three. *)
LEMMA RankType == \A p : priority_rank(p) \in {0, 1, 2}
BY DEF priority_rank

(* Of the items of the plan that are given, one precedes all the others:   *)
(* the order by priority and id is total.                                  *)
LEMMA FirstItem ==
    ASSUME NEW p, NEW free, free \subseteq Id, free # {}
    PROVE  \E i \in free : \A j \in free \ {i} : Precedes(p, i, j)
<1> DEFINE rank(i) == priority_rank(p[i].priority)
           ofRank(n) == {i \in free : rank(i) = n}
<1>1. \A i \in free : rank(i) \in {0, 1, 2} /\ i \in Nat
  BY RankType, IdAssumption
<1>2. PICK n \in {0, 1, 2} : ofRank(n) # {} /\ \A k \in {0, 1, 2} : k < n => ofRank(k) = {}
  <2>1. ofRank(0) # {} \/ ofRank(1) # {} \/ ofRank(2) # {}
    BY <1>1
  <2> HIDE DEF ofRank
  <2> QED BY <2>1
<1>3. PICK i \in ofRank(n) : \A j \in ofRank(n) : i <= j
  BY <1>2, FirstId
<1>4. ASSUME NEW j \in free \ {i} PROVE Precedes(p, i, j)
  <2>1. /\ rank(i) = n /\ rank(j) \in {0, 1, 2} /\ i \in Nat /\ j \in Nat
        /\ rank(j) = n => i <= j
        /\ ~ (rank(j) < n)
    BY <1>1, <1>2, <1>3
  <2> QED BY <2>1 DEF Precedes
<1> QED BY <1>3, <1>4

(* next_unassigned_runnable_item_id picks a ready item that is unassigned, *)
(* and every other such item comes after it.                               *)
LEMMA PickIsFirst ==
    ASSUME NEW p, IsPlan(p), next_unassigned_runnable_item_id(p) # None
    PROVE  LET next == next_unassigned_runnable_item_id(p)
           IN  /\ next \in ready_ids(p) /\ p[next].assigned_to = None
               /\ \A j \in ready_ids(p) \ {next} :
                     p[j].assigned_to = None => Precedes(p, next, j)
<1> DEFINE free == {i \in ready_ids(p) : p[i].assigned_to = None}
           next == next_unassigned_runnable_item_id(p)
<1>1. free \subseteq Id /\ free # {}
  BY DEF next_unassigned_runnable_item_id, ready_ids, IsPlan
<1>2. \E i \in free : \A j \in free \ {i} : Precedes(p, i, j)
  BY <1>1, FirstItem
<1>3. next \in free /\ \A j \in free \ {next} : Precedes(p, next, j)
  BY <1>1, <1>2 DEF next_unassigned_runnable_item_id
<1> QED BY <1>3

(* The automatic and the explicit assignment agree: whatever the plan, the *)
(* item that next_unassigned_runnable_item_id picks is one for which       *)
(* explicit_task_blocked_reason finds no reason to refuse it.              *)
THEOREM PickIsAssignable == KSpec => []PickIsNotBlocked
<1>1. IsPlan(plan) => PickIsNotBlocked
  <2> SUFFICES ASSUME IsPlan(plan), next_unassigned_runnable_item_id(plan) # None
               PROVE  explicit_task_blocked_reason(plan,
                          next_unassigned_runnable_item_id(plan)) = "none"
    BY DEF PickIsNotBlocked
  <2> DEFINE next == next_unassigned_runnable_item_id(plan)
  <2>1. next \in ready_ids(plan)
    BY PickIsFirst
  <2> HIDE DEF next
  <2>2. /\ next \in DOMAIN plan /\ missing_dependencies(plan, next) = {}
        /\ unresolved_dependencies(plan, next) = {} /\ next \notin cycle_item_ids(plan)
    BY <2>1 DEF ready_ids, IsReady, HasDependencyBlocker
  <2>3. explicit_task_blocked_reason(plan, next) = "none"
    BY <2>2 DEF explicit_task_blocked_reason
  <2> QED BY <2>3 DEF next
<1>2. LoopInv => IsPlan(plan)
  BY DEF LoopInv
<1> QED BY <1>1, <1>2, LoopInvariant, PTL

-----------------------------------------------------------------------------
(* From its assignment on a request is about a task of the plan. *)
JobInv ==
    /\ \A q \in Req : pc[q] # "idle" => job[q] \in Job
    /\ \A q \in Req : pc[q] \notin {"idle", "assign", "over"} => job[q].task \in Task
    /\ \A q \in Req : events[q] > 0 =>
          /\ pc[q] \in {"turn", "ask_report", "report", "finish", "settle", "over"}
          /\ job[q].task \in Task

(* Only a successful run completes a task, and a task is assigned only     *)
(* when everything it waits for is completed.                              *)
DepInv ==
    /\ \A t \in Task : items[t].blocked_by = Dep[t]
    /\ \A t \in Task : is_completed_status(items[t].status) => t \in succeeded
    /\ \A t \in Task : items[t].assigned_to # None => Dep[t] \subseteq succeeded
    /\ \A q \in Req : pc[q] \in PC \ {"idle", "assign", "over"} =>
                          Dep[job[q].task] \subseteq succeeded

IInv == TypeOK /\ JobInv /\ DepInv /\ RunningHasRun

-----------------------------------------------------------------------------
(* The tasks: next_unassigned_runnable_item_id returns a ready task. *)
LEMMA NextIsReady ==
    ASSUME TypeOK, next_unassigned_runnable_item_id(items) # None
    PROVE  /\ next_unassigned_runnable_item_id(items) \in ready_ids(items)
           /\ next_unassigned_runnable_item_id(items) \in Task
<1>1. IsPlan(items) /\ ready_ids(items) \subseteq Task
  BY TaskAssumption DEF TypeOK, IsPlan, ready_ids
<1>2. next_unassigned_runnable_item_id(items) \in ready_ids(items)
  BY <1>1, PickIsFirst
<1> QED BY <1>1, <1>2

(* A task that is assigned is in the plan and has only completed blockers. *)
LEMMA SelectedIsUnblocked ==
    ASSUME TypeOK, JobInv, DepInv, NEW q \in Req, pc[q] = "assign", Selected(q) # None, ~ Blocked(q)
    PROVE  Selected(q) \in Task /\ Dep[Selected(q)] \subseteq succeeded
<1>1. job[q] \in Job
  BY DEF JobInv
<1>2. ASSUME NEW t \in Task, unresolved_dependencies(items, t) = {}, missing_dependencies(items, t) = {}
      PROVE Dep[t] \subseteq succeeded
  BY <1>2 DEF unresolved_dependencies, missing_dependencies, completed_item_ids, TypeOK, DepInv
<1>3. CASE job[q].task = None
  <2>1. Selected(q) \in ready_ids(items) /\ Selected(q) \in Task
    BY <1>3, NextIsReady DEF Selected
  <2>2. /\ unresolved_dependencies(items, Selected(q)) = {}
        /\ missing_dependencies(items, Selected(q)) = {}
    BY <2>1 DEF ready_ids, IsReady, HasDependencyBlocker
  <2> QED BY <1>2, <2>1, <2>2
<1>4. CASE job[q].task # None
  <2>1. Selected(q) = job[q].task /\ job[q].task \in Task /\ job[q].task \in DOMAIN items
    BY <1>1, <1>4 DEF Selected, Job, TypeOK
  <2>2. explicit_task_blocked_reason(items, job[q].task) = "none"
    BY <1>4 DEF Blocked
  <2>3. missing_dependencies(items, job[q].task) = {}
    BY <2>1, <2>2 DEF explicit_task_blocked_reason
  <2>4. unresolved_dependencies(items, job[q].task) = {}
    BY <2>1, <2>2, <2>3 DEF explicit_task_blocked_reason
  <2> QED BY <1>2, <2>1, <2>3, <2>4
<1> QED BY <1>3, <1>4

(* A change of the status or the assignee leaves an item an item. *)
LEMMA AssigneeUpdate ==
    ASSUME TypeOK, NEW t \in Task, NEW s \in Status, NEW w \in Session
    PROVE  [items EXCEPT ![t].assigned_to = w, ![t].status = s] \in [Task -> Item]
BY ZenonT(60) DEF TypeOK, Item

(* A heartbeat or an event changes at most a stale status, to running. *)
LEMMA TouchEffect ==
    ASSUME TypeOK, NEW t \in Task, Touch(t), NEW u \in Task
    PROVE  /\ items'[u].blocked_by = items[u].blocked_by
           /\ items'[u].assigned_to = items[u].assigned_to
           /\ items'[u].status \in {items[u].status, "running"}
<1>1. CASE items[t].status = "running_stale"
  <2>1. items' = [items EXCEPT ![t].status = "running"] /\ items[u] \in Item
    BY <1>1 DEF Touch, SetStatus, TypeOK
  <2>2. items'[u] = IF u = t THEN [items[t] EXCEPT !.status = "running"] ELSE items[u]
    BY <2>1 DEF TypeOK
  <2> QED BY <2>1, <2>2 DEF Item
<1>2. CASE items[t].status # "running_stale"
  BY <1>2 DEF Touch
<1> QED BY <1>1, <1>2

(* So does a change of its status alone. *)
LEMMA StatusUpdate ==
    ASSUME TypeOK, NEW t \in Task, NEW s \in Status, SetStatus(t, s)
    PROVE  items' \in [Task -> Item]
BY ZenonT(60) DEF TypeOK, Item, SetStatus

-----------------------------------------------------------------------------
(* Every step keeps the plan, the members and the runs well typed. *)
LEMMA TypeStep == TypeOK /\ JobInv /\ DepInv /\ [Next]_vars => TypeOK'
<1> SUFFICES ASSUME TypeOK, JobInv, DepInv, [Next]_vars PROVE TypeOK'
  OBVIOUS
<1> USE DEF TypeOK, PC, Working, Goto, MemberStatus
<1>1. ASSUME NEW q \in Req, NEW w \in Session, AssignAny(q, w) PROVE TypeOK'
  <2>1. [kind |-> "assign_any", task |-> None, target |-> w] \in Job
    BY <1>1 DEF AssignAny, Job, RequestKind, ControlAction, Item
  <2> QED BY <1>1, <2>1 DEF AssignAny, Accept, filter_swarm_agent_candidates
<1>2. ASSUME NEW q \in Req, NEW w \in Session, AssignNext(q, w) PROVE TypeOK'
  <2>1. next_unassigned_runnable_item_id(items) \in Task
    BY <1>2, NextIsReady DEF AssignNext
  <2>2. [kind |-> "assign_next", task |-> next_unassigned_runnable_item_id(items), target |-> w] \in Job
    BY <2>1 DEF Job, RequestKind
  <2> QED BY <1>2, <2>2 DEF AssignNext, Accept
<1>3. ASSUME NEW q \in Req, NEW t \in Task, NEW w \in Session, AssignExplicit(q, t, w)
      PROVE TypeOK'
  <2>1. [kind |-> "assign", task |-> t, target |-> w] \in Job
    BY <1>3 DEF AssignExplicit, Job, RequestKind, ControlAction, Item
  <2> QED BY <1>3, <2>1 DEF AssignExplicit, Accept
<1>4. ASSUME NEW q \in Req, NEW t \in Task, TaskRetry(q, t) PROVE TypeOK'
  <2>0. items[t].assigned_to \in Session
    BY <1>4 DEF TaskRetry, Item
  <2>1. [kind |-> "retry", task |-> t, target |-> items[t].assigned_to] \in Job
    BY <1>4, <2>0 DEF TaskRetry, Job, RequestKind, ControlAction, Item
  <2> QED BY <1>4, <2>1 DEF TaskRetry, Accept
<1>5. ASSUME NEW q \in Req, NEW t \in Task, NEW action \in ControlAction, TaskRestart(q, action, t)
      PROVE TypeOK'
  <2>0. items[t].assigned_to \in Session
    BY <1>5 DEF TaskRestart, Item
  <2>1. [kind |-> action, task |-> t, target |-> items[t].assigned_to] \in Job
    BY <1>5, <2>0 DEF TaskRestart, Job, RequestKind, ControlAction, Item
  <2> QED BY <1>5, <2>1 DEF TaskRestart, Accept
<1>6. ASSUME NEW q \in Req, NEW t \in Task, NEW action \in ControlAction, NEW w \in Session, TaskHandOff(q, action, t, w)
      PROVE TypeOK'
  <2>1. [kind |-> action, task |-> t, target |-> w] \in Job
    BY <1>6 DEF TaskHandOff, Job, RequestKind, ControlAction, Item
  <2> QED BY <1>6, <2>1 DEF TaskHandOff, Accept
<1>7. ASSUME NEW q \in Req, Refuse(q) PROVE TypeOK'
  BY <1>7 DEF Refuse
<1>8. ASSUME NEW q \in Req, Assign(q) PROVE TypeOK'
  <2>1. Selected(q) \in Task /\ job[q] \in Job /\ job[q].target \in Session
    BY <1>8, SelectedIsUnblocked DEF Assign, JobInv, Job
  <2>2. items' \in [Task -> Item]
    BY <1>8, <2>1, AssigneeUpdate DEF Assign, Status
  <2>3. [job[q] EXCEPT !.task = Selected(q)] \in Job
    BY <2>1 DEF Job
  <2> QED BY <1>8, <2>1, <2>2, <2>3 DEF Assign
<1>9. ASSUME NEW q \in Req, Deliver(q) PROVE TypeOK'
  BY <1>9 DEF Deliver
<1>10. ASSUME NEW q \in Req, Requeue(q) PROVE TypeOK'
  <2>0. job[q] \in Job /\ job[q].task \in Task /\ job[q].target \in Session
    BY <1>10 DEF Requeue, JobInv, Job
  <2>1. items' \in [Task -> Item]
    BY <1>10, <2>0, AssigneeUpdate DEF Requeue, Status
  <2> QED BY <1>10, <2>0, <2>1 DEF Requeue
<1>11. ASSUME NEW q \in Req, TryLock(q) PROVE TypeOK'
  BY <1>11 DEF TryLock
<1>12. ASSUME NEW q \in Req, Start(q) PROVE TypeOK'
  <2>0. job[q] \in Job /\ job[q].task \in Task /\ job[q].target \in Session
    BY <1>12 DEF Start, JobInv, Job
  <2>1. PICK s \in Status : SetStatus(job[q].task, s)
    BY <1>12 DEF Start, Status
  <2>2. items' \in [Task -> Item]
    BY <2>0, <2>1, StatusUpdate
  <2> QED BY <1>12, <2>0, <2>2 DEF Start
<1>13. ASSUME NEW q \in Req, Announce(q) PROVE TypeOK'
  <2>0. job[q] \in Job /\ job[q].task \in Task /\ job[q].target \in Session
    BY <1>13 DEF Announce, JobInv, Job
  <2> QED BY <1>13, <2>0 DEF Announce
<1>14. ASSUME NEW q \in Req, Ask(q) PROVE TypeOK'
  <2>0. job[q] \in Job /\ job[q].task \in Task /\ job[q].target \in Session
    BY <1>14 DEF Ask, JobInv, Job
  <2>1. Append(lockq[job[q].target], q) \in Seq(Req)
    BY <1>14, <2>0, AppendProperties, HeadTailProperties DEF Ask
  <2>2. lockq' = [lockq EXCEPT ![job[q].target] = Append(lockq[job[q].target], q)]
    BY <1>14 DEF Ask
  <2>3. lockq' \in [Session -> Seq(Req)]
    BY <2>0, <2>1, <2>2
  <2> QED BY <1>14, <2>0, <2>3 DEF Ask
<1>15. ASSUME NEW q \in Req, Count(q) PROVE TypeOK'
  <2>0. job[q] \in Job /\ job[q].task \in Task /\ job[q].target \in Session
    BY <1>15 DEF Count, JobInv, Job
  <2>1. Tail(lockq[job[q].target]) \in Seq(Req)
    BY <1>15, <2>0, AppendProperties, HeadTailProperties DEF Count, Holds
  <2>2. lockq' = [lockq EXCEPT ![job[q].target] = Tail(lockq[job[q].target])]
    BY <1>15 DEF Count
  <2>3. lockq' \in [Session -> Seq(Req)]
    BY <2>0, <2>1, <2>2
  <2> QED BY <1>15, <2>0, <2>3 DEF Count
<1>16. ASSUME NEW q \in Req, TurnSucceeds(q) PROVE TypeOK'
  <2>0. job[q] \in Job /\ job[q].task \in Task /\ job[q].target \in Session
    BY <1>16 DEF TurnSucceeds, JobInv, Job
  <2>1. Tail(lockq[job[q].target]) \in Seq(Req)
    BY <1>16, <2>0, AppendProperties, HeadTailProperties DEF TurnSucceeds, Holds
  <2>2. lockq' = [lockq EXCEPT ![job[q].target] = Tail(lockq[job[q].target])]
    BY <1>16 DEF TurnSucceeds
  <2>3. lockq' \in [Session -> Seq(Req)]
    BY <2>0, <2>1, <2>2
  <2> QED BY <1>16, <2>0, <2>3 DEF TurnSucceeds
<1>17. ASSUME NEW q \in Req, TurnFails(q) PROVE TypeOK'
  <2>0. job[q] \in Job /\ job[q].task \in Task /\ job[q].target \in Session
    BY <1>17 DEF TurnFails, JobInv, Job
  <2>1. Tail(lockq[job[q].target]) \in Seq(Req)
    BY <1>17, <2>0, AppendProperties, HeadTailProperties DEF TurnFails, Holds
  <2>2. lockq' = [lockq EXCEPT ![job[q].target] = Tail(lockq[job[q].target])]
    BY <1>17 DEF TurnFails
  <2>3. lockq' \in [Session -> Seq(Req)]
    BY <2>0, <2>1, <2>2
  <2> QED BY <1>17, <2>0, <2>3 DEF TurnFails
<1>18. ASSUME NEW q \in Req, Report(q) PROVE TypeOK'
  <2>0. job[q] \in Job /\ job[q].task \in Task /\ job[q].target \in Session
    BY <1>18 DEF Report, JobInv, Job
  <2>1. Tail(lockq[job[q].target]) \in Seq(Req)
    BY <1>18, <2>0, AppendProperties, HeadTailProperties DEF Report, Holds
  <2>2. lockq' = [lockq EXCEPT ![job[q].target] = Tail(lockq[job[q].target])]
    BY <1>18 DEF Report
  <2>3. lockq' \in [Session -> Seq(Req)]
    BY <2>0, <2>1, <2>2
  <2> QED BY <1>18, <2>0, <2>3 DEF Report
<1>19. ASSUME NEW q \in Req, Finish(q) PROVE TypeOK'
  <2>0. job[q] \in Job /\ job[q].task \in Task /\ job[q].target \in Session
    BY <1>19 DEF Finish, JobInv, Job
  <2>1. PICK s \in Status : SetStatus(job[q].task, s)
    BY <1>19 DEF Finish, Status
  <2>2. items' \in [Task -> Item]
    BY <2>0, <2>1, StatusUpdate
  <2> QED BY <1>19, <2>0, <2>2 DEF Finish
<1>20. ASSUME NEW q \in Req, Settle(q) PROVE TypeOK'
  <2>0. job[q] \in Job /\ job[q].task \in Task /\ job[q].target \in Session
    BY <1>20 DEF Settle, JobInv, Job
  <2> QED BY <1>20, <2>0 DEF Settle
<1>21. ASSUME NEW q \in Req, Emit(q) PROVE TypeOK'
  BY <1>21 DEF Emit, Holds
<1>22. ASSUME NEW q \in Req, Heartbeat(q) PROVE TypeOK'
  <2>0. job[q] \in Job /\ job[q].task \in Task /\ job[q].target \in Session
    BY <1>22 DEF Heartbeat, JobInv, Job
  <2>1. SetStatus(job[q].task, "running") => items' \in [Task -> Item]
    BY <2>0, StatusUpdate DEF Status
  <2>2. items' \in [Task -> Item]
    BY <1>22, <2>1 DEF Heartbeat, Touch
  <2> QED BY <1>22, <2>0, <2>2 DEF Heartbeat, Touch
<1>23. ASSUME NEW q \in Req, Drain(q) PROVE TypeOK'
  <2>0. job[q] \in Job /\ job[q].task \in Task /\ job[q].target \in Session
    BY <1>23 DEF Drain, JobInv, Job
  <2>1. SetStatus(job[q].task, "running") => items' \in [Task -> Item]
    BY <2>0, StatusUpdate DEF Status
  <2>2. items' \in [Task -> Item]
    BY <1>23, <2>1 DEF Drain, Touch
  <2> QED BY <1>23, <2>0, <2>2 DEF Drain, Touch
<1>24. ASSUME NEW t \in Task, Age(t) PROVE TypeOK'
  BY <1>24 DEF Age
<1>25. ASSUME refresh_swarm_task_staleness PROVE TypeOK'
  <2>1. \A t \in Task, s \in Status : [items[t] EXCEPT !.status = s] \in Item
    <3>1. \A x \in Item, s \in Status : [x EXCEPT !.status = s] \in Item
      BY DEF Item
    <3> QED BY <3>1
  <2>2. "running" \in Status /\ "running_stale" \in Status
    BY DEF Status
  <2> DEFINE swept(t) ==
               IF items[t].status = "running" /\ t \notin fresh
               THEN [items[t] EXCEPT !.status = "running_stale"]
               ELSE IF items[t].status = "running_stale" /\ t \in fresh
               THEN [items[t] EXCEPT !.status = "running"]
               ELSE items[t]
  <2>a. ASSUME NEW t \in Task PROVE swept(t) \in Item
    BY <2>1, <2>2
  <2>b. items' = [t \in Task |-> swept(t)]
    BY <1>25 DEF refresh_swarm_task_staleness
  <2> HIDE DEF swept
  <2>3. items' \in [Task -> Item]
    BY <2>a, <2>b
  <2> QED BY <1>25, <2>3 DEF refresh_swarm_task_staleness
<1>26. ASSUME UNCHANGED vars PROVE TypeOK'
  BY <1>26 DEF vars
<1> QED
  BY <1>1, <1>2, <1>3, <1>4, <1>5, <1>6, <1>7, <1>8, <1>9, <1>10, <1>11, <1>12,
     <1>13, <1>14, <1>15, <1>16, <1>17, <1>18, <1>19, <1>20, <1>21, <1>22, <1>23, <1>24, <1>25, <1>26
  DEF Next, Request, Handle, Execute, EndTurn

(* A request keeps its task from its assignment to the end of its run. *)
LEMMA JobStep == TypeOK /\ JobInv /\ DepInv /\ [Next]_vars => JobInv'
<1> SUFFICES ASSUME TypeOK, JobInv, DepInv, [Next]_vars PROVE JobInv'
  OBVIOUS
<1> USE EventsAssumption DEF TypeOK, JobInv, PC, Working, Goto
<1>1. ASSUME NEW q \in Req, NEW w \in Session, AssignAny(q, w) PROVE JobInv'
  <2>1. [kind |-> "assign_any", task |-> None, target |-> w] \in Job
    BY <1>1 DEF AssignAny, Job, RequestKind, ControlAction, Item
  <2> QED BY <1>1, <2>1 DEF AssignAny, Accept, filter_swarm_agent_candidates
<1>2. ASSUME NEW q \in Req, NEW w \in Session, AssignNext(q, w) PROVE JobInv'
  <2>1. next_unassigned_runnable_item_id(items) \in Task
    BY <1>2, NextIsReady DEF AssignNext
  <2>2. [kind |-> "assign_next", task |-> next_unassigned_runnable_item_id(items), target |-> w] \in Job
    BY <2>1 DEF Job, RequestKind
  <2> QED BY <1>2, <2>2 DEF AssignNext, Accept
<1>3. ASSUME NEW q \in Req, NEW t \in Task, NEW w \in Session, AssignExplicit(q, t, w)
      PROVE JobInv'
  <2>1. [kind |-> "assign", task |-> t, target |-> w] \in Job
    BY <1>3 DEF AssignExplicit, Job, RequestKind, ControlAction, Item
  <2> QED BY <1>3, <2>1 DEF AssignExplicit, Accept
<1>4. ASSUME NEW q \in Req, NEW t \in Task, TaskRetry(q, t) PROVE JobInv'
  <2>0. items[t].assigned_to \in Session
    BY <1>4 DEF TaskRetry, Item
  <2>1. [kind |-> "retry", task |-> t, target |-> items[t].assigned_to] \in Job
    BY <1>4, <2>0 DEF TaskRetry, Job, RequestKind, ControlAction, Item
  <2> QED BY <1>4, <2>1 DEF TaskRetry, Accept
<1>5. ASSUME NEW q \in Req, NEW t \in Task, NEW action \in ControlAction, TaskRestart(q, action, t)
      PROVE JobInv'
  <2>0. items[t].assigned_to \in Session
    BY <1>5 DEF TaskRestart, Item
  <2>1. [kind |-> action, task |-> t, target |-> items[t].assigned_to] \in Job
    BY <1>5, <2>0 DEF TaskRestart, Job, RequestKind, ControlAction, Item
  <2> QED BY <1>5, <2>1 DEF TaskRestart, Accept
<1>6. ASSUME NEW q \in Req, NEW t \in Task, NEW action \in ControlAction, NEW w \in Session, TaskHandOff(q, action, t, w)
      PROVE JobInv'
  <2>1. [kind |-> action, task |-> t, target |-> w] \in Job
    BY <1>6 DEF TaskHandOff, Job, RequestKind, ControlAction, Item
  <2> QED BY <1>6, <2>1 DEF TaskHandOff, Accept
<1>7. ASSUME NEW q \in Req, Refuse(q) PROVE JobInv'
  BY <1>7 DEF Refuse
<1>8. ASSUME NEW q \in Req, Assign(q) PROVE JobInv'
  <2>1. Selected(q) \in Task /\ job[q] \in Job
    BY <1>8, SelectedIsUnblocked DEF Assign
  <2>2. [job[q] EXCEPT !.task = Selected(q)] \in Job /\ [job[q] EXCEPT !.task = Selected(q)].task = Selected(q)
    BY <2>1 DEF Job
  <2> QED BY <1>8, <2>1, <2>2 DEF Assign
<1>9. ASSUME NEW q \in Req, Deliver(q) PROVE JobInv'
  BY <1>9 DEF Deliver
<1>10. ASSUME NEW q \in Req, Requeue(q) PROVE JobInv'
  BY <1>10 DEF Requeue
<1>11. ASSUME NEW q \in Req, TryLock(q) PROVE JobInv'
  BY <1>11 DEF TryLock
<1>12. ASSUME NEW q \in Req, Start(q) PROVE JobInv'
  BY <1>12 DEF Start, SetStatus
<1>13. ASSUME NEW q \in Req, Announce(q) PROVE JobInv'
  BY <1>13 DEF Announce
<1>14. ASSUME NEW q \in Req, Ask(q) PROVE JobInv'
  BY <1>14 DEF Ask
<1>15. ASSUME NEW q \in Req, Count(q) PROVE JobInv'
  BY <1>15 DEF Count, Holds
<1>16. ASSUME NEW q \in Req, TurnSucceeds(q) PROVE JobInv'
  BY <1>16 DEF TurnSucceeds, Holds
<1>17. ASSUME NEW q \in Req, TurnFails(q) PROVE JobInv'
  BY <1>17 DEF TurnFails, Holds
<1>18. ASSUME NEW q \in Req, Report(q) PROVE JobInv'
  BY <1>18 DEF Report, Holds
<1>19. ASSUME NEW q \in Req, Finish(q) PROVE JobInv'
  BY <1>19 DEF Finish, SetStatus
<1>20. ASSUME NEW q \in Req, Settle(q) PROVE JobInv'
  BY <1>20 DEF Settle
<1>21. ASSUME NEW q \in Req, Emit(q) PROVE JobInv'
  BY <1>21 DEF Emit, Holds
<1>22. ASSUME NEW q \in Req, Heartbeat(q) PROVE JobInv'
  BY <1>22 DEF Heartbeat, Touch, SetStatus
<1>23. ASSUME NEW q \in Req, Drain(q) PROVE JobInv'
  BY <1>23 DEF Drain, Touch, SetStatus
<1>24. ASSUME NEW t \in Task, Age(t) PROVE JobInv'
  BY <1>24 DEF Age
<1>25. ASSUME refresh_swarm_task_staleness PROVE JobInv'
  BY <1>25 DEF refresh_swarm_task_staleness
<1>26. ASSUME UNCHANGED vars PROVE JobInv'
  BY <1>26 DEF vars
<1> QED
  BY <1>1, <1>2, <1>3, <1>4, <1>5, <1>6, <1>7, <1>8, <1>9, <1>10, <1>11, <1>12,
     <1>13, <1>14, <1>15, <1>16, <1>17, <1>18, <1>19, <1>20, <1>21, <1>22, <1>23, <1>24, <1>25, <1>26
  DEF Next, Request, Handle, Execute, EndTurn

(* A task is assigned after its dependencies succeeded, and only a run's   *)
(* success makes a task a completed one.                                   *)
LEMMA DepStep == TypeOK /\ JobInv /\ DepInv /\ [Next]_vars => DepInv'
<1> SUFFICES ASSUME TypeOK, JobInv, DepInv, [Next]_vars PROVE DepInv'
  OBVIOUS
<1> USE DEF TypeOK, DepInv, PC, Working, Goto, is_completed_status
<1>1. ASSUME NEW q \in Req, NEW w \in Session, AssignAny(q, w) PROVE DepInv'
  BY <1>1 DEF AssignAny, Accept
<1>2. ASSUME NEW q \in Req, NEW w \in Session, AssignNext(q, w) PROVE DepInv'
  BY <1>2 DEF AssignNext, Accept
<1>3. ASSUME NEW q \in Req, NEW t \in Task, NEW w \in Session, AssignExplicit(q, t, w)
      PROVE DepInv'
  BY <1>3 DEF AssignExplicit, Accept
<1>4. ASSUME NEW q \in Req, NEW t \in Task, TaskRetry(q, t) PROVE DepInv'
  BY <1>4 DEF TaskRetry, Accept
<1>5. ASSUME NEW q \in Req, NEW t \in Task, NEW action \in ControlAction, TaskRestart(q, action, t)
      PROVE DepInv'
  <2>1. Dep[t] \subseteq succeeded
    BY <1>5 DEF TaskRestart
  <2> QED BY <1>5, <2>1 DEF TaskRestart, Accept
<1>6. ASSUME NEW q \in Req, NEW t \in Task, NEW action \in ControlAction, NEW w \in Session, TaskHandOff(q, action, t, w)
      PROVE DepInv'
  BY <1>6 DEF TaskHandOff, Accept
<1>7. ASSUME NEW q \in Req, Refuse(q) PROVE DepInv'
  BY <1>7 DEF Refuse
<1>8. ASSUME NEW q \in Req, Assign(q) PROVE DepInv'
  <2>1. Selected(q) \in Task /\ Dep[Selected(q)] \subseteq succeeded /\ job[q] \in Job
    BY <1>8, SelectedIsUnblocked DEF Assign, JobInv
  <2>2. job'[q].task = Selected(q) /\ \A p \in Req \ {q} : job'[p] = job[p]
    BY <1>8, <2>1 DEF Assign, Job
  <2>3. /\ \A t \in Task : items'[t].blocked_by = items[t].blocked_by
        /\ \A t \in Task \ {Selected(q)} : items'[t] = items[t]
        /\ items'[Selected(q)].status = "queued"
    BY <1>8, <2>1 DEF Assign, Item
  <2> QED BY <1>8, <2>1, <2>2, <2>3 DEF Assign
<1>9. ASSUME NEW q \in Req, Deliver(q) PROVE DepInv'
  BY <1>9 DEF Deliver
<1>10. ASSUME NEW q \in Req, Requeue(q) PROVE DepInv'
  <2>0. job[q].task \in Task /\ Dep[job[q].task] \subseteq succeeded
    BY <1>10 DEF Requeue, JobInv
  <2>1. /\ \A t \in Task : items'[t].blocked_by = items[t].blocked_by
        /\ \A t \in Task \ {job[q].task} : items'[t] = items[t]
        /\ items'[job[q].task].status \in {"queued"}
    BY <1>10, <2>0 DEF Requeue, SetStatus, Item
  <2> QED BY <1>10, <2>0, <2>1 DEF Requeue
<1>11. ASSUME NEW q \in Req, TryLock(q) PROVE DepInv'
  BY <1>11 DEF TryLock
<1>12. ASSUME NEW q \in Req, Start(q) PROVE DepInv'
  <2>0. job[q].task \in Task /\ Dep[job[q].task] \subseteq succeeded
    BY <1>12 DEF Start, JobInv
  <2>1. /\ \A t \in Task : items'[t].blocked_by = items[t].blocked_by
        /\ \A t \in Task \ {job[q].task} : items'[t] = items[t]
        /\ items'[job[q].task].status \in {"running"}
    BY <1>12, <2>0 DEF Start, SetStatus, Item
  <2> QED BY <1>12, <2>0, <2>1, ZenonT(60) DEF Start
<1>13. ASSUME NEW q \in Req, Announce(q) PROVE DepInv'
  BY <1>13 DEF Announce
<1>14. ASSUME NEW q \in Req, Ask(q) PROVE DepInv'
  BY <1>14 DEF Ask
<1>15. ASSUME NEW q \in Req, Count(q) PROVE DepInv'
  BY <1>15 DEF Count, Holds
<1>16. ASSUME NEW q \in Req, TurnSucceeds(q) PROVE DepInv'
  BY <1>16 DEF TurnSucceeds, Holds
<1>17. ASSUME NEW q \in Req, TurnFails(q) PROVE DepInv'
  BY <1>17 DEF TurnFails, Holds
<1>18. ASSUME NEW q \in Req, Report(q) PROVE DepInv'
  BY <1>18 DEF Report, Holds
<1>19. ASSUME NEW q \in Req, Finish(q) PROVE DepInv'
  <2>0. job[q].task \in Task /\ Dep[job[q].task] \subseteq succeeded
    BY <1>19 DEF Finish, JobInv
  <2>1. /\ \A t \in Task : items'[t].blocked_by = items[t].blocked_by
        /\ \A t \in Task \ {job[q].task} : items'[t] = items[t]
        /\ items'[job[q].task].status = IF q \in ok THEN "done" ELSE "failed"
    BY <1>19, <2>0 DEF Finish, SetStatus, Item
  <2> QED BY <1>19, <2>0, <2>1 DEF Finish
<1>20. ASSUME NEW q \in Req, Settle(q) PROVE DepInv'
  BY <1>20 DEF Settle
<1>21. ASSUME NEW q \in Req, Emit(q) PROVE DepInv'
  BY <1>21 DEF Emit, Holds
<1>22. ASSUME NEW q \in Req, Heartbeat(q) PROVE DepInv'
  <2>0. job[q].task \in Task
    BY <1>22 DEF Heartbeat, JobInv
  <2>1. /\ \A t \in Task : items'[t].blocked_by = items[t].blocked_by
        /\ \A t \in Task : items'[t].assigned_to = items[t].assigned_to
        /\ \A t \in Task : items'[t].status \in {items[t].status, "running"}
    BY <1>22, <2>0, TouchEffect DEF Heartbeat
  <2> QED BY <1>22, <2>1 DEF Heartbeat
<1>23. ASSUME NEW q \in Req, Drain(q) PROVE DepInv'
  <2>0. job[q].task \in Task
    BY <1>23 DEF Drain, JobInv
  <2>1. /\ \A t \in Task : items'[t].blocked_by = items[t].blocked_by
        /\ \A t \in Task : items'[t].assigned_to = items[t].assigned_to
        /\ \A t \in Task : items'[t].status \in {items[t].status, "running"}
    BY <1>23, <2>0, TouchEffect DEF Drain
  <2> QED BY <1>23, <2>1 DEF Drain
<1>24. ASSUME NEW t \in Task, Age(t) PROVE DepInv'
  BY <1>24 DEF Age
<1>25. ASSUME refresh_swarm_task_staleness PROVE DepInv'
  <2>1. /\ \A t \in Task : items'[t].blocked_by = items[t].blocked_by
        /\ \A t \in Task : items'[t].assigned_to = items[t].assigned_to
        /\ \A t \in Task : items'[t].status \in {items[t].status, "running", "running_stale"}
    BY <1>25 DEF refresh_swarm_task_staleness, Item
  <2> QED BY <1>25, <2>1 DEF refresh_swarm_task_staleness
<1>26. ASSUME UNCHANGED vars PROVE DepInv'
  BY <1>26 DEF vars
<1> QED
  BY <1>1, <1>2, <1>3, <1>4, <1>5, <1>6, <1>7, <1>8, <1>9, <1>10, <1>11, <1>12,
     <1>13, <1>14, <1>15, <1>16, <1>17, <1>18, <1>19, <1>20, <1>21, <1>22, <1>23, <1>24, <1>25, <1>26
  DEF Next, Request, Handle, Execute, EndTurn

(* Only a run's start makes an item running, its end makes it terminal,    *)
(* and touches and sweeps move it only between running and running_stale.  *)
LEMMA RunStep == TypeOK /\ JobInv /\ DepInv /\ RunningHasRun /\ [Next]_vars => RunningHasRun'
<1> SUFFICES ASSUME TypeOK, JobInv, DepInv, RunningHasRun, [Next]_vars PROVE RunningHasRun'
  OBVIOUS
<1> USE DEF TypeOK, RunningHasRun, Live, PC, Working, Goto, is_active_status
<1>1. ASSUME NEW q \in Req, NEW w \in Session, AssignAny(q, w) PROVE RunningHasRun'
  BY <1>1 DEF AssignAny, Accept, filter_swarm_agent_candidates
<1>2. ASSUME NEW q \in Req, NEW w \in Session, AssignNext(q, w) PROVE RunningHasRun'
  BY <1>2 DEF AssignNext, Accept, filter_swarm_agent_candidates
<1>3. ASSUME NEW q \in Req, NEW t \in Task, NEW w \in Session, AssignExplicit(q, t, w)
      PROVE RunningHasRun'
  BY <1>3 DEF AssignExplicit, Accept
<1>4. ASSUME NEW q \in Req, NEW t \in Task, TaskRetry(q, t) PROVE RunningHasRun'
  BY <1>4 DEF TaskRetry, Accept
<1>5. ASSUME NEW q \in Req, NEW t \in Task, NEW action \in ControlAction, TaskRestart(q, action, t)
      PROVE RunningHasRun'
  BY <1>5 DEF TaskRestart, Accept
<1>6. ASSUME NEW q \in Req, NEW t \in Task, NEW action \in ControlAction, NEW w \in Session, TaskHandOff(q, action, t, w)
      PROVE RunningHasRun'
  BY <1>6 DEF TaskHandOff, Accept
<1>7. ASSUME NEW q \in Req, Refuse(q) PROVE RunningHasRun'
  BY <1>7 DEF Refuse
<1>8. ASSUME NEW q \in Req, Assign(q) PROVE RunningHasRun'
  <2>1. Selected(q) \in Task /\ job[q] \in Job
    BY <1>8, SelectedIsUnblocked DEF Assign, JobInv
  <2>2. \A p \in Req \ {q} : job'[p] = job[p]
    BY <1>8 DEF Assign
  <2>3. /\ \A t \in Task \ {Selected(q)} : items'[t] = items[t]
        /\ items'[Selected(q)].status = "queued"
    BY <1>8, <2>1 DEF Assign, Item
  <2> QED BY <1>8, <2>1, <2>2, <2>3 DEF Assign
<1>9. ASSUME NEW q \in Req, Deliver(q) PROVE RunningHasRun'
  BY <1>9 DEF Deliver
<1>10. ASSUME NEW q \in Req, Requeue(q) PROVE RunningHasRun'
  <2>0. job[q].task \in Task
    BY <1>10 DEF Requeue, JobInv
  <2>1. /\ \A t \in Task \ {job[q].task} : items'[t] = items[t]
        /\ items'[job[q].task].status \in {"queued"}
    BY <1>10, <2>0 DEF Requeue, SetStatus, Item
  <2> QED BY <1>10, <2>0, <2>1 DEF Requeue
<1>11. ASSUME NEW q \in Req, TryLock(q) PROVE RunningHasRun'
  BY <1>11 DEF TryLock
<1>12. ASSUME NEW q \in Req, Start(q) PROVE RunningHasRun'
  <2>0. job[q].task \in Task
    BY <1>12 DEF Start, JobInv
  <2>1. /\ \A t \in Task \ {job[q].task} : items'[t] = items[t]
        /\ items'[job[q].task].status \in {"running"}
    BY <1>12, <2>0 DEF Start, SetStatus, Item
  <2> QED BY <1>12, <2>0, <2>1 DEF Start
<1>13. ASSUME NEW q \in Req, Announce(q) PROVE RunningHasRun'
  BY <1>13 DEF Announce
<1>14. ASSUME NEW q \in Req, Ask(q) PROVE RunningHasRun'
  BY <1>14 DEF Ask
<1>15. ASSUME NEW q \in Req, Count(q) PROVE RunningHasRun'
  BY <1>15 DEF Count, Holds
<1>16. ASSUME NEW q \in Req, TurnSucceeds(q) PROVE RunningHasRun'
  BY <1>16 DEF TurnSucceeds, Holds
<1>17. ASSUME NEW q \in Req, TurnFails(q) PROVE RunningHasRun'
  BY <1>17 DEF TurnFails, Holds
<1>18. ASSUME NEW q \in Req, Report(q) PROVE RunningHasRun'
  BY <1>18 DEF Report, Holds
<1>19. ASSUME NEW q \in Req, Finish(q) PROVE RunningHasRun'
  <2>0. job[q].task \in Task
    BY <1>19 DEF Finish, JobInv
  <2>1. /\ \A t \in Task \ {job[q].task} : items'[t] = items[t]
        /\ items'[job[q].task].status \in {"done", "failed"}
    BY <1>19, <2>0 DEF Finish, SetStatus, Item
  <2> QED BY <1>19, <2>0, <2>1, ZenonT(60) DEF Finish
<1>20. ASSUME NEW q \in Req, Settle(q) PROVE RunningHasRun'
  BY <1>20 DEF Settle
<1>21. ASSUME NEW q \in Req, Emit(q) PROVE RunningHasRun'
  BY <1>21 DEF Emit, Holds
<1>22. ASSUME NEW q \in Req, Heartbeat(q) PROVE RunningHasRun'
  <2>0. job[q].task \in Task
    BY <1>22 DEF Heartbeat, JobInv
  <2>1. \A t \in Task : is_active_status(items'[t].status) => is_active_status(items[t].status)
    BY <1>22, <2>0 DEF Heartbeat, Touch, SetStatus, Item
  <2> QED BY <1>22, <2>1 DEF Heartbeat
<1>23. ASSUME NEW q \in Req, Drain(q) PROVE RunningHasRun'
  <2>0. job[q].task \in Task
    BY <1>23 DEF Drain, JobInv
  <2>1. \A t \in Task : is_active_status(items'[t].status) => is_active_status(items[t].status)
    BY <1>23, <2>0 DEF Drain, Touch, SetStatus, Item
  <2> QED BY <1>23, <2>1 DEF Drain
<1>24. ASSUME NEW t \in Task, Age(t) PROVE RunningHasRun'
  BY <1>24 DEF Age
<1>25. ASSUME refresh_swarm_task_staleness PROVE RunningHasRun'
  <2>1. \A t \in Task : is_active_status(items'[t].status) => is_active_status(items[t].status)
    BY <1>25 DEF refresh_swarm_task_staleness, Item
  <2> QED BY <1>25, <2>1 DEF refresh_swarm_task_staleness
<1>26. ASSUME UNCHANGED vars PROVE RunningHasRun'
  BY <1>26 DEF vars
<1> QED
  BY <1>1, <1>2, <1>3, <1>4, <1>5, <1>6, <1>7, <1>8, <1>9, <1>10, <1>11, <1>12,
     <1>13, <1>14, <1>15, <1>16, <1>17, <1>18, <1>19, <1>20, <1>21, <1>22, <1>23, <1>24, <1>25, <1>26
  DEF Next, Request, Handle, Execute, EndTurn

-----------------------------------------------------------------------------
(* IInv holds initially and every step keeps it. *)
THEOREM Inductive == Spec => []IInv
<1>1. ASSUME Init PROVE IInv
  <2> USE TaskAssumption DEF Init
  <2>1. items \in [Task -> Item]
    BY <1>1 DEF Item, Status, Priority
  <2>2. lockq \in [Session -> Seq(Req)]
    BY <1>1
  <2>3. TypeOK
    BY <1>1, <2>1, <2>2 DEF TypeOK, PC, Working, MemberStatus
  <2>4. JobInv
    BY <1>1 DEF JobInv
  <2>5. DepInv
    BY <1>1 DEF DepInv, is_completed_status
  <2>6. RunningHasRun
    BY <1>1 DEF RunningHasRun, is_active_status
  <2> QED BY <2>3, <2>4, <2>5, <2>6 DEF IInv
<1>2. IInv /\ [Next]_vars => IInv'
  BY TypeStep, JobStep, DepStep, RunStep DEF IInv
<1> QED BY <1>1, <1>2, PTL DEF Spec

(* The plan, the members, the requests and the runs stay well typed. *)
THEOREM TypeCorrect == Spec => []TypeOK
<1>1. IInv => TypeOK
  BY DEF IInv
<1> QED BY <1>1, Inductive, PTL

(* An item that the plan shows as running or running_stale has a live run, *)
(* for any overlap of requests, runs, heartbeats, sweeps and late events.  *)
THEOREM RunningIsRun == Spec => []RunningHasRun
<1>1. IInv => RunningHasRun
  BY DEF IInv
<1> QED BY <1>1, Inductive, PTL

(* No run of a task is spawned before its dependencies have succeeded,     *)
(* whichever request (assign_task, assign_next, task_control) spawns it.   *)
THEOREM DependenciesFirst == Spec => []WorkedAfterDeps
<1>1. IInv => WorkedAfterDeps
  BY DEF IInv, DepInv, WorkedAfterDeps, TypeOK, PC, Working
<1> QED BY <1>1, Inductive, PTL
=============================================================================
