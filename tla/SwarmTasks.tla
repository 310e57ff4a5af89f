----------------------------- MODULE SwarmTasks -----------------------------
(***************************************************************************)
(* Assignment and execution of swarm tasks: src/src/server/comm_control.rs *)
(* and the staleness tracking of swarm.rs.                                 *)
(*                                                                         *)
(* Each request of the coordinator (assign_task, assign_next, task_control)*)
(* is handled on a connection of its own; between the lock sections of one *)
(* handler any other may run.  A handler ends by spawning a run of the     *)
(* task: a background task that sets the item to running, waits for the    *)
(* worker's agent, works, and writes the outcome.  At most one run comes   *)
(* from a request, so the run is named after it and continues its position.*)
(* Progress events of the run go through a channel that another task       *)
(* drains.  The plan's items and their readiness are those of PlanGraph.   *)
(* Retries of one request are the subject of SwarmMutation, the persisted  *)
(* copy of the plan that of SwarmPersistence.                              *)
(***************************************************************************)
EXTENDS PlanGraph, Sequences

CONSTANTS Task,        \* the items of the plan
          Dep,         \* their blocked_by
          Req,         \* requests of the coordinator, and the runs they spawn
          Attended,    \* the sessions with a connected client
          Actions,     \* the kinds of request that occur
          MaxEvents    \* bound on the progress events waiting in a channel

ASSUME TaskAssumption == Task \subseteq Id /\ Dep \in [Task -> SUBSET Id]
ASSUME AttendedAssumption == Attended \subseteq Session
ASSUME EventsAssumption == MaxEvents \in Nat

RequestKind == {"assign", "assign_any", "assign_next"} \cup ControlAction

MemberStatus == {"ready", "running", "completed", "failed"}

VARIABLES
    items,     \* the plan
    fresh,     \* tasks whose last heartbeat is younger than stale_after
    member,    \* SwarmMember.status
    pc,        \* position of each request's handler, then of its run
    job,       \* what it is about: kind, task, target session
    ok,        \* requests whose turn succeeded
    lockq,     \* holder (the head) and waiters of each agent's mutex
    latest,    \* the run whose turn wrote each agent's latest text
    report,    \* the run whose text is each run's completion report
    events,    \* progress events of each run that are not drained yet
    succeeded  \* history: tasks of which a run succeeded

vars == <<items, fresh, member, pc, job, ok, lockq, latest, report, events, succeeded>>

Job == [kind : RequestKind, task : Task \cup {None}, target : Session]

Init ==
    /\ items = [t \in Task |-> [status |-> "queued", priority |-> "medium",
                                blocked_by |-> Dep[t], assigned_to |-> None]]
    /\ fresh = {}
    /\ member = [w \in Session |-> "ready"]
    /\ pc = [q \in Req |-> "idle"]
    /\ job = [q \in Req |-> None]
    /\ ok = {}
    /\ lockq = [w \in Session |-> << >>]
    /\ latest = [w \in Session |-> None]
    /\ report = [q \in Req |-> None]
    /\ events = [q \in Req |-> 0]
    /\ succeeded = {}

Goto(q, label) == pc' = [pc EXCEPT ![q] = label]

Accept(q, kind, t, w, label) ==
    /\ kind \in Actions
    /\ pc[q] = "idle"
    /\ Goto(q, label)
    /\ job' = [job EXCEPT ![q] = [kind |-> kind, task |-> t, target |-> w]]
    /\ UNCHANGED <<items, fresh, member, ok, lockq, latest, report, events, succeeded>>

-----------------------------------------------------------------------------
(* The requests of the coordinator                                         *)

filter_swarm_agent_candidates == {w \in Session : member[w] \in {"ready", "completed"}}

(* assignment_loads *)
Load(w) == Cardinality({t \in Task : /\ items[t].assigned_to = w
                                     /\ ~ is_terminal_status(items[t].status)})

(* resolve_assignment_target_session without a requested target: the least *)
(* loaded candidate, a ready one before a completed one.                   *)
LeastLoaded(w) ==
    \A v \in filter_swarm_agent_candidates :
        \/ Load(w) < Load(v)
        \/ Load(w) = Load(v) /\ (member[w] = "ready" \/ member[v] # "ready")

(* assign_task with a task and a target *)
AssignExplicit(q, t, w) == Accept(q, "assign", t, w, "assign")

(* assign_task without a task: it is chosen under the plan's write lock *)
AssignAny(q, w) ==
    /\ w \in filter_swarm_agent_candidates /\ LeastLoaded(w)
    /\ Accept(q, "assign_any", None, w, "assign")

(* handle_comm_assign_next: the task is read here, and assigned explicitly *)
(* later; the choice among the candidates (affinities) is left open.       *)
AssignNext(q, w) ==
    /\ next_unassigned_runnable_item_id(items) # None
    /\ w \in filter_swarm_agent_candidates
    /\ Accept(q, "assign_next", next_unassigned_runnable_item_id(items), w, "assign")

(* handle_comm_task_control: the checks are made on a snapshot of the item *)
TaskRestart(q, action, t) ==
    /\ action \in {"start", "wake", "resume"}
    /\ task_control_action_allows_status(action, items[t].status)
    /\ items[t].assigned_to # None
    /\ Accept(q, action, t, items[t].assigned_to,
              IF items[t].status = "queued" THEN "try" ELSE "requeue")

TaskRetry(q, t) ==
    /\ task_control_action_allows_status("retry", items[t].status)
    /\ items[t].assigned_to # None
    /\ Accept(q, "retry", t, items[t].assigned_to, "assign")

TaskHandOff(q, action, t, w) ==
    /\ action \in {"reassign", "replace", "salvage"}
    /\ task_control_action_allows_status(action, items[t].status)
    /\ items[t].assigned_to # None
    /\ w # items[t].assigned_to
    /\ items[t].status # "running"
    /\ action = "replace" =>
          items[t].status \in {"queued", "failed", "stopped", "crashed", "running_stale"}
    /\ Accept(q, action, t, w, "assign")

Request(q) ==
    \/ \E w \in Session : AssignAny(q, w) \/ AssignNext(q, w)
    \/ \E t \in Task, w \in Session : AssignExplicit(q, t, w)
    \/ \E t \in Task : TaskRetry(q, t)
    \/ \E t \in Task, action \in ControlAction :
          \/ TaskRestart(q, action, t)
          \/ \E w \in Session : TaskHandOff(q, action, t, w)

-----------------------------------------------------------------------------
(* The handlers                                                            *)

(* The task under the plan's write lock. *)
Selected(q) == IF job[q].task = None THEN next_unassigned_runnable_item_id(items)
                                     ELSE job[q].task

Blocked(q) == job[q].task # None /\ explicit_task_blocked_reason(items, job[q].task) # "none"

(* No runnable task, or the requested one is blocked: an error response. *)
Refuse(q) ==
    /\ pc[q] = "assign"
    /\ Selected(q) = None \/ Blocked(q)
    /\ Goto(q, "over")
    /\ UNCHANGED <<items, fresh, member, job, ok, lockq, latest, report, events, succeeded>>

(* Mutant: an explicitly requested task is not checked for its blockers. *)
AssignBlocked(q) ==
    /\ pc[q] = "assign"
    /\ Selected(q) # None
    /\ items' = [items EXCEPT ![Selected(q)].assigned_to = job[q].target,
                              ![Selected(q)].status = "queued"]
    /\ fresh' = fresh \cup {Selected(q)}
    /\ job' = [job EXCEPT ![q].task = Selected(q)]
    /\ Goto(q, "deliver")
    /\ UNCHANGED <<member, ok, lockq, latest, report, events, succeeded>>

(* The item is assigned, whatever its status, with a new progress record. *)
Assign(q) ==
    /\ pc[q] = "assign"
    /\ Selected(q) # None /\ ~ Blocked(q)
    /\ items' = [items EXCEPT ![Selected(q)].assigned_to = job[q].target,
                              ![Selected(q)].status = "queued"]
    /\ fresh' = fresh \cup {Selected(q)}
    /\ job' = [job EXCEPT ![q].task = Selected(q)]
    /\ Goto(q, "deliver")
    /\ UNCHANGED <<member, ok, lockq, latest, report, events, succeeded>>

(* The rest of handle_comm_assign_task: a session with a client is only    *)
(* told (soft interrupt, notification); for the others a run is spawned.   *)
Deliver(q) ==
    /\ pc[q] = "deliver"
    /\ Goto(q, IF job[q].target \in Attended THEN "over" ELSE "start")
    /\ UNCHANGED <<items, fresh, member, job, ok, lockq, latest, report, events, succeeded>>

(* requeue_existing_assignment, with the assignee of the snapshot *)
Requeue(q) ==
    /\ pc[q] = "requeue"
    /\ items' = [items EXCEPT ![job[q].task].assigned_to = job[q].target,
                              ![job[q].task].status = "queued"]
    /\ fresh' = fresh \cup {job[q].task}
    /\ Goto(q, "try")
    /\ UNCHANGED <<member, job, ok, lockq, latest, report, events, succeeded>>

(* agent_is_idle: otherwise a wake is queued as a soft interrupt, and the  *)
(* other requests fail.                                                    *)
TryLock(q) ==
    /\ pc[q] = "try"
    /\ Goto(q, IF lockq[job[q].target] = << >> THEN "start" ELSE "over")
    /\ UNCHANGED <<items, fresh, member, job, ok, lockq, latest, report, events, succeeded>>

-----------------------------------------------------------------------------
(* spawn_assigned_task_run                                                 *)

SetStatus(t, s) == items' = [items EXCEPT ![t].status = s]

Start(q) ==
    /\ pc[q] = "start"
    /\ SetStatus(job[q].task, "running")
    /\ fresh' = fresh \cup {job[q].task}
    /\ Goto(q, "announce")
    /\ UNCHANGED <<member, job, ok, lockq, latest, report, events, succeeded>>

(* update_member_status; the heartbeat task and the event channel start. *)
Announce(q) ==
    /\ pc[q] = "announce"
    /\ member' = [member EXCEPT ![job[q].target] = "running"]
    /\ Goto(q, "ask_count")
    /\ UNCHANGED <<items, fresh, job, ok, lockq, latest, report, events, succeeded>>

(* The run locks the agent (a fair mutex) three times: for the index of    *)
(* its first message, for its turn and for its report.                     *)
Ask(q) ==
    /\ pc[q] \in {"ask_count", "ask_turn", "ask_report"}
    /\ lockq' = [lockq EXCEPT ![job[q].target] = Append(@, q)]
    /\ Goto(q, CASE pc[q] = "ask_count" -> "count"
                 [] pc[q] = "ask_turn" -> "turn"
                 [] pc[q] = "ask_report" -> "report")
    /\ UNCHANGED <<items, fresh, member, job, ok, latest, report, events, succeeded>>

Holds(q) == lockq[job[q].target] # << >> /\ Head(lockq[job[q].target]) = q

(* start_message_index: the texts of earlier turns are not reported. *)
Count(q) ==
    /\ pc[q] = "count"
    /\ Holds(q)
    /\ lockq' = [lockq EXCEPT ![job[q].target] = Tail(@)]
    /\ Goto(q, "ask_turn")
    /\ UNCHANGED <<items, fresh, member, job, ok, latest, report, events, succeeded>>

(* process_message_streaming_mpsc: the turn reports its progress ... *)
Emit(q) ==
    /\ pc[q] = "turn"
    /\ Holds(q)
    /\ events[q] < MaxEvents
    /\ events' = [events EXCEPT ![q] = @ + 1]
    /\ UNCHANGED <<items, fresh, member, pc, job, ok, lockq, latest, report, succeeded>>

(* Mutant: the run whose turn succeeded keeps the agent locked. *)
TurnSucceedsLocked(q) ==
    /\ pc[q] = "turn"
    /\ Holds(q)
    /\ ok' = ok \cup {q}
    /\ latest' = [latest EXCEPT ![job[q].target] = q]
    /\ Goto(q, "ask_report")
    /\ UNCHANGED <<items, fresh, member, job, lockq, report, events, succeeded>>

(* ... and ends, releasing the agent. *)
TurnSucceeds(q) ==
    /\ pc[q] = "turn"
    /\ Holds(q)
    /\ ok' = ok \cup {q}
    /\ latest' = [latest EXCEPT ![job[q].target] = q]
    /\ lockq' = [lockq EXCEPT ![job[q].target] = Tail(@)]
    /\ Goto(q, "ask_report")
    /\ UNCHANGED <<items, fresh, member, job, report, events, succeeded>>

TurnFails(q) ==
    /\ pc[q] = "turn"
    /\ Holds(q)
    /\ latest' \in {latest, [latest EXCEPT ![job[q].target] = q]}
    /\ lockq' = [lockq EXCEPT ![job[q].target] = Tail(@)]
    /\ Goto(q, "finish")
    /\ UNCHANGED <<items, fresh, member, job, ok, report, events, succeeded>>

(* latest_assistant_text_after: the last text since start_message_index, *)
(* which is the run's own unless another turn has followed it.           *)
Report(q) ==
    /\ pc[q] = "report"
    /\ Holds(q)
    /\ report' = [report EXCEPT ![q] = latest[job[q].target]]
    /\ lockq' = [lockq EXCEPT ![job[q].target] = Tail(@)]
    /\ Goto(q, "finish")
    /\ UNCHANGED <<items, fresh, member, job, ok, latest, events, succeeded>>

(* Mutant: the outcome of a failed run is not written to the plan. *)
FinishOnlySuccess(q) ==
    /\ pc[q] = "finish"
    /\ IF q \in ok THEN SetStatus(job[q].task, "done") ELSE UNCHANGED items
    /\ succeeded' = IF q \in ok THEN succeeded \cup {job[q].task} ELSE succeeded
    /\ fresh' = fresh \cup {job[q].task}
    /\ Goto(q, "settle")
    /\ UNCHANGED <<member, job, ok, lockq, latest, report, events>>

(* The heartbeat task has stopped; the outcome is written to the plan, ... *)
Finish(q) ==
    /\ pc[q] = "finish"
    /\ SetStatus(job[q].task, IF q \in ok THEN "done" ELSE "failed")
    /\ succeeded' = IF q \in ok THEN succeeded \cup {job[q].task} ELSE succeeded
    /\ fresh' = fresh \cup {job[q].task}
    /\ Goto(q, "settle")
    /\ UNCHANGED <<member, job, ok, lockq, latest, report, events>>

(* ... and, after the broadcast, to the member. *)
Settle(q) ==
    /\ pc[q] = "settle"
    /\ member' = [member EXCEPT ![job[q].target] =
                      IF q \in ok THEN "completed" ELSE "failed"]
    /\ Goto(q, "over")
    /\ UNCHANGED <<items, fresh, job, ok, lockq, latest, report, events, succeeded>>

(* touch_swarm_task_progress *)
Touch(t) ==
    /\ fresh' = fresh \cup {t}
    /\ IF items[t].status = "running_stale" THEN SetStatus(t, "running") ELSE UNCHANGED items

(* The heartbeat task of the run lives from its announcement to its report. *)
Working == {"ask_count", "count", "ask_turn", "turn", "ask_report", "report"}

Heartbeat(q) ==
    /\ pc[q] \in Working
    /\ Touch(job[q].task)
    /\ UNCHANGED <<member, pc, job, ok, lockq, latest, report, events, succeeded>>

(* Mutant: an event is taken from an empty channel. *)
DrainEmpty(q) ==
    /\ job[q] # None
    /\ job[q].task # None
    /\ events[q] >= 0
    /\ events' = [events EXCEPT ![q] = @ - 1]
    /\ Touch(job[q].task)
    /\ member' = [member EXCEPT ![job[q].target] = "running"]
    /\ UNCHANGED <<pc, job, ok, lockq, latest, report, succeeded>>

(* task_progress_event_sender: an event is a heartbeat and sets the member *)
(* to running.  The channel is drained to its end, after the run's too.    *)
Drain(q) ==
    /\ events[q] > 0
    /\ events' = [events EXCEPT ![q] = @ - 1]
    /\ Touch(job[q].task)
    /\ member' = [member EXCEPT ![job[q].target] = "running"]
    /\ UNCHANGED <<pc, job, ok, lockq, latest, report, succeeded>>

(* stale_after passes without a heartbeat *)
Age(t) ==
    /\ t \in fresh
    /\ fresh' = fresh \ {t}
    /\ UNCHANGED <<items, member, pc, job, ok, lockq, latest, report, events, succeeded>>

refresh_swarm_task_staleness ==
    /\ items' = [t \in Task |->
          IF items[t].status = "running" /\ t \notin fresh
          THEN [items[t] EXCEPT !.status = "running_stale"]
          ELSE IF items[t].status = "running_stale" /\ t \in fresh
          THEN [items[t] EXCEPT !.status = "running"]
          ELSE items[t]]
    /\ items' # items
    /\ UNCHANGED <<fresh, member, pc, job, ok, lockq, latest, report, events, succeeded>>

Handle(q) ==
    Refuse(q) \/ Assign(q) \/ Deliver(q) \/ Requeue(q) \/ TryLock(q)

Execute(q) ==
    \/ Start(q) \/ Announce(q) \/ Ask(q) \/ Count(q) \/ Report(q) \/ Finish(q) \/ Settle(q)

EndTurn(q) == TurnSucceeds(q) \/ TurnFails(q)

Next ==
    \/ \E q \in Req : Request(q) \/ Handle(q) \/ Execute(q) \/ EndTurn(q) \/ Emit(q)
                      \/ Heartbeat(q) \/ Drain(q)
    \/ \E t \in Task : Age(t)
    \/ refresh_swarm_task_staleness

(* Handlers and runs are tasks of the runtime, and a channel is drained.   *)
(* Nothing makes a turn end: neither its tools nor the provider's stream   *)
(* have a timeout.  (A deadlock on the server's tables would stop handlers *)
(* as well; that one is the subject of SwarmPersistence.)                  *)
Fairness == \A q \in Req : WF_vars(Handle(q)) /\ WF_vars(Execute(q)) /\ WF_vars(Drain(q))

Spec == Init /\ [][Next]_vars /\ Fairness

-----------------------------------------------------------------------------
PC == {"idle", "assign", "deliver", "requeue", "try", "start", "announce", "finish", "settle",
       "over"} \cup Working

(* A run is live from its start to the write of its outcome. *)
Live(q) == pc[q] \in {"announce", "finish"} \cup Working

TypeOK ==
    /\ items \in [Task -> Item]
    /\ fresh \subseteq Task
    /\ member \in [Session -> MemberStatus]
    /\ pc \in [Req -> PC]
    /\ job \in [Req -> Job \cup {None}]
    /\ ok \subseteq Req
    /\ lockq \in [Session -> Seq(Req)]
    /\ latest \in [Session -> Req \cup {None}]
    /\ report \in [Req -> Req \cup {None}]
    /\ events \in [Req -> Nat]
    /\ succeeded \subseteq Task

(* An item shown as running (or stale) is being run: whatever requests,    *)
(* heartbeats, sweeps and late events overlap, the last run of a task      *)
(* leaves an outcome that no later event or sweep turns back into running. *)
RunningHasRun ==
    \A t \in Task : is_active_status(items[t].status) =>
        \E q \in Req : Live(q) /\ job[q].task = t

(* A run starts only when a run of each task it depends on has succeeded,  *)
(* although task_control starts, resumes and hands off tasks without       *)
(* looking at their dependencies again.                                    *)
WorkedAfterDeps ==
    \A q \in Req : pc[q] \in {"start", "announce", "finish", "settle"} \cup Working =>
        Dep[job[q].task] \subseteq succeeded

(* Runs that share a worker wait for its agent without blocking each other *)
(* for ever: if no turn on a worker lasts for ever, every run spawned on   *)
(* that worker writes its outcome, even when a turn on another hangs.      *)
TurnsEnd(w) ==
    \A q \in Req : []<> ~ (pc[q] = "turn" /\ job[q].target = w /\ Holds(q))

RunsEnd ==
    \A w \in Session :
        TurnsEnd(w) => \A q \in Req : (pc[q] = "start" /\ job[q].target = w) ~> pc[q] = "over"

-----------------------------------------------------------------------------
(* What the documentation says                                             *)

(* SWARM_ARCHITECTURE.md: "replace swaps to a new assignee after safe      *)
(* state checks": a task changes hands only when no run of it is live.     *)
HandOffIsSafe ==
    [][\A t \in Task :
          items[t].assigned_to # None /\ items'[t].assigned_to # items[t].assigned_to
            => ~ \E q \in Req : Live(q) /\ job[q].task = t]_vars
=============================================================================
