---------------------------- MODULE AwaitMembers ----------------------------
(***************************************************************************)
(* await_members: src/src/server/comm_await.rs, await_members_state.rs.    *)
(*                                                                         *)
(* A request blocks until the watched members of a swarm reach one of the  *)
(* target statuses, or its deadline passes.  The handler registers the     *)
(* client as a waiter and starts one watcher task per key; the watcher     *)
(* scans the statuses, answers every waiter when they satisfy the mode,    *)
(* and otherwise sleeps until an event of the broadcast channel or the     *)
(* deadline.  The request and its final answer are kept in a file, so that *)
(* a retry after a reload resumes the wait.  All requests of this model    *)
(* have the same key; keys do not interact.  The two tables a scan reads   *)
(* (swarms_by_id, swarm_members) are read in one step.                     *)
(***************************************************************************)
EXTENDS Integers, FiniteSets

CONSTANTS Req,          \* requests, retries included
          Member,       \* the sessions that may be watched
          WatchAll,     \* TRUE: no ids requested, all members of the swarm
          Mode,         \* "all" or "any"
          Target,       \* target_status
          Timeout,      \* timeout_secs, in ticks
          FinalTTL, PendingTTL,
          Capacity,     \* of the broadcast channel
          MaxNow,       \* bound on the clock
          MaxChanges,   \* bound on the status changes
          MaxCrashes,   \* bound on the restarts of the server
          MayClose,     \* whether clients may disconnect
          None

ASSUME ModeAssumption == Mode \in {"all", "any"}
ASSUME NumberAssumption ==
    /\ Timeout \in Nat /\ FinalTTL \in Nat /\ PendingTTL \in Nat /\ Capacity \in Nat
    /\ MaxNow \in Nat /\ MaxChanges \in Nat /\ MaxCrashes \in Nat
ASSUME FlagAssumption == WatchAll \in BOOLEAN /\ MayClose \in BOOLEAN
ASSUME NoneAssumption == None \notin BOOLEAN

(* "unknown": the session is not a member of the swarm; "running" stands   *)
(* for every status that is no target; "left": the session is no member    *)
(* any more but is still listed in swarms_by_id.                           *)
MemberStatus == {"running", "completed", "left", "unknown"}

VARIABLES
    status,    \* member statuses (swarm_members, swarms_by_id)
    unsent,    \* status changes whose event is not sent yet
    hpc, hstate, \* each request's handler: position, record it works with
    wpc, wstate, \* the watcher each handler started: position, its record
    unread,    \* events in each watcher's receiver; Capacity + 1: lagged
    active,    \* the key is in active_keys
    waiters,   \* requests registered for the answer
    disk,      \* the persisted record, or None
    open,      \* requests whose client is still connected
    replies,   \* answers sent: number, and whether the last was completed
    now, changes, crashes

hvars == <<hpc, hstate>>
wvars == <<wpc, wstate, unread>>
rvars == <<active, waiters>>
clock == <<now, changes, crashes>>
vars == <<status, unsent, hvars, wvars, rvars, disk, open, replies, clock>>

-----------------------------------------------------------------------------
(* awaited_member_statuses, mode_satisfied *)
Watched == IF WatchAll THEN {m \in Member : status[m] # "unknown"} ELSE Member

MemberDone(m) ==
    \/ status[m] \in Target
    \/ status[m] \in {"left", "unknown"} /\ Target \cap {"stopped", "completed"} # {}

mode_satisfied ==
    IF Mode = "any" THEN \E m \in Watched : MemberDone(m)
                    ELSE \A m \in Watched : MemberDone(m)

(* The watcher's two reasons to answer "completed". *)
Satisfied == Watched = {} \/ mode_satisfied

(* A final response is its outcome and resolved_at; records without one    *)
(* are pending.                                                            *)
Record == [deadline : Nat, final : BOOLEAN \cup {None}, resolved : Nat]

is_stale(state) ==
    IF state.final # None THEN now - state.resolved > FinalTTL
                          ELSE now - state.deadline > PendingTTL

(* load_state: a stale record is removed. *)
Loaded == IF disk = None \/ (disk # None /\ is_stale(disk)) THEN None ELSE disk

(* save_state: a failed write is only logged.  Between the two renames of  *)
(* write_bytes_inner there is no record: a write that fails there, or a    *)
(* restart, leaves none.                                                   *)
save_state(state) == disk' \in {state, disk, None}

WithFinal(state, outcome) == [state EXCEPT !.final = outcome, !.resolved = now]

Reply(S, outcome) ==
    replies' = [r \in Req |-> IF r \in S
                  THEN [count |-> replies[r].count + 1, completed |-> outcome]
                  ELSE replies[r]]

Init ==
    /\ status \in [Member -> MemberStatus]
    /\ unsent = 0
    /\ hpc = [r \in Req |-> "idle"]
    /\ hstate = [r \in Req |-> None]
    /\ wpc = [r \in Req |-> "none"]
    /\ wstate = [r \in Req |-> None]
    /\ unread = [r \in Req |-> 0]
    /\ active = FALSE
    /\ waiters = {}
    /\ disk = None
    /\ open = Req
    /\ replies = [r \in Req |-> [count |-> 0, completed |-> None]]
    /\ now = 0 /\ changes = 0 /\ crashes = 0

-----------------------------------------------------------------------------
(* handle_comm_await_members                                               *)

HGoto(r, label) == hpc' = [hpc EXCEPT ![r] = label]

HEnd(r, label) == HGoto(r, label) /\ hstate' = [hstate EXCEPT ![r] = None]

(* The record has a final response: it is sent again. *)
HandlerReplay(r) ==
    /\ hpc[r] = "idle"
    /\ Loaded # None
    /\ Loaded.final # None
    /\ Reply({r}, Loaded.final)
    /\ HGoto(r, "done")
    /\ UNCHANGED <<status, unsent, hstate, wvars, rvars, disk, open, clock>>

HandlerLoad(r) ==
    /\ hpc[r] = "idle"
    /\ Loaded = None \/ (Loaded # None /\ Loaded.final = None)
    /\ disk' = Loaded
    /\ hstate' = [hstate EXCEPT ![r] = Loaded]
    /\ HGoto(r, "check")
    /\ UNCHANGED <<status, unsent, wvars, rvars, open, replies, clock>>

(* No member to wait for: answered at once, nothing is persisted. *)
HandlerNobody(r) ==
    /\ hpc[r] = "check"
    /\ Watched = {}
    /\ Reply({r}, TRUE)
    /\ HEnd(r, "done")
    /\ UNCHANGED <<status, unsent, wvars, rvars, disk, open, clock>>

(* Mutant: a retry renews the deadline. *)
EnsureRenewed(r) ==
    /\ hpc[r] = "check"
    /\ Watched # {}
    /\ disk' = [deadline |-> now + Timeout, final |-> None, resolved |-> 0]
    /\ hstate' = [hstate EXCEPT ![r] =
                    [deadline |-> now + Timeout, final |-> None, resolved |-> 0]]
    /\ HGoto(r, "add")
    /\ UNCHANGED <<status, unsent, wvars, rvars, open, replies, clock>>

(* persisted, or ensure_pending_state: the record that exists by now, a    *)
(* final one too, or a new one with this request's deadline, which is      *)
(* saved by a step of its own: no lock is held over the load and the save. *)
HandlerEnsure(r) ==
    LET fresh == [deadline |-> now + Timeout, final |-> None, resolved |-> 0]
        found == IF hstate[r] # None THEN hstate[r] ELSE Loaded
    IN
    /\ hpc[r] = "check"
    /\ Watched # {}
    /\ disk' = IF hstate[r] # None THEN disk ELSE Loaded
    /\ hstate' = [hstate EXCEPT ![r] = IF found # None THEN found ELSE fresh]
    /\ HGoto(r, IF found # None THEN "add" ELSE "save")
    /\ UNCHANGED <<status, unsent, wvars, rvars, open, replies, clock>>

HandlerSave(r) ==
    /\ hpc[r] = "save"
    /\ save_state(hstate[r])
    /\ HGoto(r, "add")
    /\ UNCHANGED <<status, unsent, hstate, wvars, rvars, open, replies, clock>>

add_waiter(r) ==
    /\ hpc[r] = "add"
    /\ waiters' = waiters \cup {r}
    /\ HGoto(r, "mark")
    /\ UNCHANGED <<status, unsent, hstate, wvars, active, disk, open, replies, clock>>

(* The deadline of the (resumed) request has passed. *)
HandlerExpired(r) ==
    /\ hpc[r] = "mark"
    /\ hstate[r].deadline <= now
    /\ save_state(WithFinal(hstate[r], FALSE))
    /\ HGoto(r, "respond")
    /\ UNCHANGED <<status, unsent, hstate, wvars, rvars, open, replies, clock>>

(* respond_to_waiters by the handler: take_waiters and send ... *)
HandlerRespond(r) ==
    /\ hpc[r] = "respond"
    /\ Reply(waiters, FALSE)
    /\ waiters' = {}
    /\ HGoto(r, "clear")
    /\ UNCHANGED <<status, unsent, hstate, wvars, active, disk, open, clock>>

(* ... and clear_active, whether or not a watcher is running. *)
HandlerClear(r) ==
    /\ hpc[r] = "clear"
    /\ active' = FALSE
    /\ HEnd(r, "done")
    /\ UNCHANGED <<status, unsent, wvars, waiters, disk, open, replies, clock>>

(* mark_active_if_new; the first handler spawns the watcher. *)
HandlerMark(r) ==
    /\ hpc[r] = "mark"
    /\ hstate[r].deadline > now
    /\ active' = TRUE
    /\ IF active THEN UNCHANGED <<wpc, wstate>>
       ELSE /\ wpc' = [wpc EXCEPT ![r] = "subscribe"]
            /\ wstate' = [wstate EXCEPT ![r] = hstate[r]]
    /\ HEnd(r, "parked")
    /\ UNCHANGED <<status, unsent, unread, waiters, disk, open, replies, clock>>

-----------------------------------------------------------------------------
(* spawn_or_resume_await_members: the watcher task                         *)

WGoto(r, label) == wpc' = [wpc EXCEPT ![r] = label]

WEnd(r) ==
    /\ WGoto(r, "none")
    /\ wstate' = [wstate EXCEPT ![r] = None]
    /\ unread' = [unread EXCEPT ![r] = 0]

WatcherSubscribe(r) ==
    /\ wpc[r] = "subscribe"
    /\ unread' = [unread EXCEPT ![r] = 0]
    /\ WGoto(r, "scan")
    /\ UNCHANGED <<status, unsent, hvars, wstate, rvars, disk, open, replies, clock>>

(* The statuses satisfy the mode: persist_final_response. *)
WatcherSatisfied(r) ==
    /\ wpc[r] = "scan"
    /\ Satisfied
    /\ save_state(WithFinal(wstate[r], TRUE))
    /\ wstate' = [wstate EXCEPT ![r] = WithFinal(@, TRUE)]
    /\ WGoto(r, "respond")
    /\ UNCHANGED <<status, unsent, hvars, unread, rvars, open, replies, clock>>

WatcherScan(r) ==
    /\ wpc[r] = "scan"
    /\ ~ Satisfied
    /\ WGoto(r, "retain")
    /\ UNCHANGED <<status, unsent, hvars, wstate, unread, rvars, disk, open, replies, clock>>

(* Mutant: the watcher subscribes after the scan, before it sleeps. *)
RetainAndSubscribe(r) ==
    /\ wpc[r] = "retain"
    /\ waiters' = waiters \cap open
    /\ WGoto(r, IF waiters \cap open = {} THEN "clear" ELSE "select")
    /\ unread' = [unread EXCEPT ![r] = 0]
    /\ UNCHANGED <<status, unsent, hvars, wstate, active, disk, open, replies, clock>>

(* retain_open_waiters: with no connected client left the watcher ends. *)
WatcherRetain(r) ==
    /\ wpc[r] = "retain"
    /\ waiters' = waiters \cap open
    /\ WGoto(r, IF waiters \cap open = {} THEN "clear" ELSE "select")
    /\ UNCHANGED <<status, unsent, hvars, wstate, unread, active, disk, open, replies, clock>>

(* Mutant: the deadline only wakes the watcher for another scan. *)
TimeoutRescans(r) ==
    /\ wpc[r] = "select"
    /\ wstate[r].deadline <= now
    /\ WGoto(r, "scan")
    /\ UNCHANGED <<status, unsent, hvars, wstate, unread, rvars, disk, open, replies, clock>>

WatcherTimeout(r) ==
    /\ wpc[r] = "select"
    /\ wstate[r].deadline <= now
    /\ save_state(WithFinal(wstate[r], FALSE))
    /\ wstate' = [wstate EXCEPT ![r] = WithFinal(@, FALSE)]
    /\ WGoto(r, "respond")
    /\ UNCHANGED <<status, unsent, hvars, unread, rvars, open, replies, clock>>

(* Mutant: an event is consumed from an empty receiver. *)
EventFromEmpty(r) ==
    /\ wpc[r] = "select"
    /\ unread[r] <= Capacity
    /\ unread' = [unread EXCEPT ![r] = @ - 1]
    /\ WGoto(r, "scan")
    /\ UNCHANGED <<status, unsent, hvars, wstate, rvars, disk, open, replies, clock>>

WatcherEvent(r) ==
    /\ wpc[r] = "select"
    /\ unread[r] \in 1..Capacity
    /\ unread' = [unread EXCEPT ![r] = @ - 1]
    /\ WGoto(r, "scan")
    /\ UNCHANGED <<status, unsent, hvars, wstate, rvars, disk, open, replies, clock>>

(* recv returns an error when the receiver lagged behind the channel: the  *)
(* watcher ends without answering.                                         *)
WatcherLagged(r) ==
    /\ wpc[r] = "select"
    /\ unread[r] > Capacity
    /\ WGoto(r, "clear")
    /\ UNCHANGED <<status, unsent, hvars, wstate, unread, rvars, disk, open, replies, clock>>

(* Mutant: the waiters are answered but stay registered. *)
RespondKeepingWaiters(r) ==
    /\ wpc[r] = "respond"
    /\ Reply(waiters, wstate[r].final)
    /\ WGoto(r, "clear")
    /\ UNCHANGED <<status, unsent, hvars, wstate, unread, rvars, disk, open, clock>>

WatcherRespond(r) ==
    /\ wpc[r] = "respond"
    /\ Reply(waiters, wstate[r].final)
    /\ waiters' = {}
    /\ WGoto(r, "clear")
    /\ UNCHANGED <<status, unsent, hvars, wstate, unread, active, disk, open, clock>>

(* Mutant: the watcher ends without clear_active. *)
WatcherEndsActive(r) ==
    /\ wpc[r] = "clear"
    /\ WEnd(r)
    /\ UNCHANGED <<status, unsent, hvars, rvars, disk, open, replies, clock>>

WatcherClear(r) ==
    /\ wpc[r] = "clear"
    /\ active' = FALSE
    /\ WEnd(r)
    /\ UNCHANGED <<status, unsent, hvars, waiters, disk, open, replies, clock>>

-----------------------------------------------------------------------------
(* The rest of the server                                                  *)

(* update_member_status, a join or a leave: first the table, and then the  *)
(* event, if there is one.  A session that takes over another is set ready *)
(* and the old one removed without an event, callers that pass no sinks    *)
(* send none, and no event follows the removal from swarms_by_id (the      *)
(* event "left" is sent before it).                                        *)
ChangeStatus(m, s) ==
    /\ changes < MaxChanges
    /\ changes' = changes + 1
    /\ s # status[m]
    /\ s = "left" => status[m] # "unknown"
    /\ status' = [status EXCEPT ![m] = s]
    /\ unsent' \in (IF s = "unknown" THEN {unsent} ELSE {unsent, unsent + 1})
    /\ UNCHANGED <<hvars, wvars, rvars, disk, open, replies, now, crashes>>

(* record_swarm_event, to every subscribed watcher. *)
SendEvent ==
    /\ unsent > 0
    /\ unsent' = unsent - 1
    /\ unread' = [r \in Req |->
                    IF wpc[r] \in {"none", "subscribe"} \/ unread[r] > Capacity
                    THEN unread[r] ELSE unread[r] + 1]
    /\ UNCHANGED <<status, hvars, wpc, wstate, rvars, disk, open, replies, clock>>

Disconnect(r) ==
    /\ MayClose
    /\ r \in open
    /\ hpc[r] # "idle"
    /\ open' = open \ {r}
    /\ UNCHANGED <<status, unsent, hvars, wvars, rvars, disk, replies, clock>>

(* The clock stops at MaxNow, but not before the deadline of a watcher. *)
Tick ==
    /\ now < MaxNow \/ \E r \in Req : wpc[r] # "none" /\ wstate[r].deadline > now
    /\ now' = now + 1
    /\ UNCHANGED <<status, unsent, hvars, wvars, rvars, disk, open, replies, changes, crashes>>

(* A restart: only the record survives, the clients of the requests in     *)
(* progress are disconnected, and the statuses are those of the last       *)
(* persisted swarm state (recover_member_status).                          *)
Restart ==
    /\ crashes < MaxCrashes
    /\ crashes' = crashes + 1
    /\ hpc' = [r \in Req |-> IF hpc[r] = "idle" THEN "idle" ELSE "done"]
    /\ hstate' = [r \in Req |-> None]
    /\ wpc' = [r \in Req |-> "none"]
    /\ wstate' = [r \in Req |-> None]
    /\ unread' = [r \in Req |-> 0]
    /\ active' = FALSE
    /\ waiters' = {}
    /\ unsent' = 0
    /\ status' \in [Member -> MemberStatus]
    /\ open' = {r \in open : hpc[r] = "idle"}
    /\ UNCHANGED <<disk, replies, now, changes>>

Handler(r) ==
    \/ HandlerNobody(r) \/ HandlerEnsure(r) \/ HandlerSave(r) \/ add_waiter(r)
    \/ HandlerExpired(r) \/ HandlerRespond(r) \/ HandlerClear(r) \/ HandlerMark(r)

Watcher(r) ==
    \/ WatcherSubscribe(r) \/ WatcherSatisfied(r) \/ WatcherScan(r) \/ WatcherRetain(r)
    \/ WatcherTimeout(r) \/ WatcherEvent(r) \/ WatcherLagged(r) \/ WatcherRespond(r)
    \/ WatcherClear(r)

Next ==
    \/ \E r \in Req : HandlerReplay(r) \/ HandlerLoad(r) \/ Handler(r) \/ Watcher(r)
                      \/ Disconnect(r)
    \/ \E m \in Member, s \in MemberStatus : ChangeStatus(m, s)
    \/ SendEvent \/ Tick \/ Restart

(* Started tasks are polled until they end, and the event of a status      *)
(* change that has one is sent.                                            *)
Fairness ==
    /\ \A r \in Req : WF_vars(Handler(r)) /\ WF_vars(Watcher(r))
    /\ WF_vars(SendEvent)

Spec == Init /\ [][Next]_vars /\ Fairness

-----------------------------------------------------------------------------
HandlerPC == {"idle", "check", "save", "add", "mark", "respond", "clear", "parked", "done"}
WatcherPC == {"none", "subscribe", "scan", "retain", "select", "respond", "clear"}

TypeOK ==
    /\ status \in [Member -> MemberStatus]
    /\ unsent \in Nat
    /\ hpc \in [Req -> HandlerPC]
    /\ hstate \in [Req -> Record \cup {None}]
    /\ wpc \in [Req -> WatcherPC]
    /\ wstate \in [Req -> Record \cup {None}]
    /\ unread \in [Req -> 0..(Capacity + 1)]
    /\ active \in BOOLEAN
    /\ waiters \subseteq Req
    /\ disk \in Record \cup {None}
    /\ open \subseteq Req
    /\ replies \in [Req -> [count : Nat, completed : BOOLEAN \cup {None}]]
    /\ now \in Nat /\ changes \in Nat /\ crashes \in Nat

(* A handler that finds the key active leaves its client to a watcher that *)
(* exists: whoever clears or ends, an active key has a running watcher.    *)
ActiveHasWatcher == active => \E r \in Req : wpc[r] # "none"

(* No client gets two answers, although several watchers of one key can    *)
(* run at once (a handler whose deadline passed clears the key of a        *)
(* running watcher) and final answers are replayed from disk.              *)
AtMostOneReply == \A r \in Req : replies[r].count <= 1

(* A retry, before or after a reload, resumes the persisted request: once  *)
(* a pending record is on disk, the only handlers that can still move its  *)
(* deadline are first requests that had loaded nothing before it was       *)
(* written (two first requests at once do), and no others join them.       *)
PendingOnDisk == disk # None /\ disk.final = None /\ ~ is_stale(disk)

Saving == {r \in Req : hpc[r] = "save"}

DeadlineFixed ==
    [][PendingOnDisk =>
          /\ Saving' \subseteq Saving
          /\ \/ disk' = None \/ disk'.final # None \/ disk'.deadline = disk.deadline
             \/ \E r \in Saving : r \notin Saving']_vars

(* No wake-up is lost: a watcher that is about to scan, or that has an     *)
(* event coming or unread, ends without help from its deadline once the    *)
(* watched members stay in a satisfying state, wherever it was when the    *)
(* event was sent.                                                         *)
Awake(r) ==
    \/ wpc[r] \in {"subscribe", "scan"}
    \/ wpc[r] # "none" /\ (unsent > 0 \/ unread[r] > 0)

PromptAnswer ==
    \A r \in Req : (Awake(r) /\ []Satisfied) ~> wpc[r] = "none"

(* Every watcher ends, if time passes, so that no key stays active for     *)
(* ever: the deadline ends it whatever the members, the events and the     *)
(* other handlers of the key do.                                           *)
WatcherEnds ==
    WF_vars(Tick) => \A r \in Req : wpc[r] # "none" ~> wpc[r] = "none"
=============================================================================
