--------------------------- MODULE SwarmMutation ---------------------------
(***************************************************************************)
(* Deduplication of swarm mutations (spawn, stop, assign_task, assign_role,*)
(* approve_plan, reject_plan): src/src/server/swarm_mutation_state.rs.     *)
(*                                                                         *)
(* Every such request is handled by the task of its own connection.  The   *)
(* handler calls begin_or_replay, performs the mutation when that returns  *)
(* Some(state), and calls finish_request.  Between two awaits, and on      *)
(* another worker thread at any time, other handlers run; so each action   *)
(* below is one lock section or one file operation.  The record of a key   *)
(* is a JSON file that survives a restart of the server; active_keys and   *)
(* waiters do not.                                                         *)
(***************************************************************************)
EXTENDS Integers, Sequences

CONSTANTS Req,         \* requests; a client's retry is another request
          Key,         \* hashed request keys
          keyOf,       \* the key of each request
          FinalTTL,    \* FINAL_STATE_TTL, in ticks of the clock
          PendingTTL,  \* PENDING_STATE_TTL, in ticks of the clock
          MaxNow,      \* bound on the clock
          MaxCrashes,  \* bound on the restarts of the server
          SaveMayFail, \* whether writing a record can fail (disk full, ...)
          None

ASSUME KeyOfAssumption == keyOf \in [Req -> Key]
ASSUME TTLAssumption == FinalTTL \in Nat /\ PendingTTL \in Nat
ASSUME BoundAssumption == MaxNow \in Nat /\ MaxCrashes \in Nat
ASSUME SaveAssumption == SaveMayFail \in BOOLEAN
ASSUME NoneAssumption == None \notin Req

VARIABLES pc,        \* where the handler of each request is
          active,    \* active_keys
          waiters,   \* waiters: key -> requests registered for the answer
          disk,      \* the persisted record of each key, or None
          held,      \* the record an executing handler got from begin_or_replay
          now,       \* the wall clock
          replies,   \* the answers sent to each request: whose execution each is
          executed,  \* history: the requests that performed their mutation
          crashes    \* restarts so far

vars == <<pc, active, waiters, disk, held, now, replies, executed, crashes>>

(* A handler that entered the critical section of its key. *)
OwnerPC == {"reload", "reevict", "create", "execute", "retire", "install",
            "notify", "clear"}

PC == OwnerPC \cup {"idle", "evict", "add", "mark", "parked", "done", "lost"}

(* PersistedSwarmMutationState: its creation time and the request whose    *)
(* execution produced the final response (None: still pending).            *)
State == [created : 0..MaxNow, final : Req \cup {None}]

Goto(r, label) == pc' = [pc EXCEPT ![r] = label]

is_stale(state) ==
    now - state.created > IF state.final # None THEN FinalTTL ELSE PendingTTL

Fresh(state) == state # None /\ ~ (state # None /\ is_stale(state))

-----------------------------------------------------------------------------
Init ==
    /\ pc = [r \in Req |-> "idle"]
    /\ active = {}
    /\ waiters = [k \in Key |-> {}]
    /\ disk = [k \in Key |-> None]
    /\ held = [r \in Req |-> None]
    /\ now = 0
    /\ replies = [r \in Req |-> <<>>]
    /\ executed = {}
    /\ crashes = 0

(* begin_or_replay, load_state: a final response that is not stale is sent *)
(* at once and the handler returns.                                        *)
Replay(r) ==
    LET state == disk[keyOf[r]] IN
    /\ pc[r] = "idle"
    /\ state # None
    /\ ~ is_stale(state)
    /\ state.final # None
    /\ replies' = [replies EXCEPT ![r] = Append(@, state.final)]
    /\ Goto(r, "done")
    /\ UNCHANGED <<active, waiters, disk, held, now, executed, crashes>>

(* load_state finds no record, a pending one, or a stale one; the file of  *)
(* a stale record is removed by a later file operation (Evict).            *)
Miss(r) ==
    LET state == disk[keyOf[r]] IN
    /\ pc[r] = "idle"
    /\ \/ state = None /\ Goto(r, "add")
       \/ state # None /\ is_stale(state) /\ Goto(r, "evict")
       \/ /\ state # None
          /\ ~ is_stale(state)
          /\ state.final = None
          /\ Goto(r, "add")
    /\ UNCHANGED <<active, waiters, disk, held, now, replies, executed, crashes>>

(* load_json_state's remove_file: it removes whatever the file holds by now. *)
Evict(r) ==
    /\ \/ pc[r] = "evict" /\ Goto(r, "add")
       \/ pc[r] = "reevict" /\ Goto(r, "create")
    /\ disk' = [disk EXCEPT ![keyOf[r]] = None]
    /\ UNCHANGED <<active, waiters, held, now, replies, executed, crashes>>

(* Mutant: only a duplicate of an active key registers. *)
AddWaiterIfDuplicate(r) ==
    /\ pc[r] = "add"
    /\ waiters' = IF keyOf[r] \in active
                  THEN [waiters EXCEPT ![keyOf[r]] = @ \cup {r}] ELSE waiters
    /\ Goto(r, "mark")
    /\ UNCHANGED <<active, disk, held, now, replies, executed, crashes>>

add_waiter(r) ==
    /\ pc[r] = "add"
    /\ waiters' = [waiters EXCEPT ![keyOf[r]] = @ \cup {r}]
    /\ Goto(r, "mark")
    /\ UNCHANGED <<active, disk, held, now, replies, executed, crashes>>

(* Mutant: the result of the insert is ignored. *)
MarkActiveAlways(r) ==
    /\ pc[r] = "mark"
    /\ active' = active \cup {keyOf[r]}
    /\ Goto(r, "reload")
    /\ UNCHANGED <<waiters, disk, held, now, replies, executed, crashes>>

(* The insert returns false when the key is active: begin_or_replay        *)
(* returns None and the handler of r ends, leaving r among the waiters.    *)
mark_active_if_new(r) ==
    /\ pc[r] = "mark"
    /\ active' = active \cup {keyOf[r]}
    /\ Goto(r, IF keyOf[r] \in active THEN "parked" ELSE "reload")
    /\ UNCHANGED <<waiters, disk, held, now, replies, executed, crashes>>

(* ensure_pending_state loads the record again and keeps the one it finds, *)
(* even one with a final response.                                         *)
ReusePending(r) ==
    LET state == disk[keyOf[r]] IN
    /\ pc[r] = "reload"
    /\ state # None
    /\ ~ is_stale(state)
    /\ held' = [held EXCEPT ![r] = state]
    /\ Goto(r, "execute")
    /\ UNCHANGED <<active, waiters, disk, now, replies, executed, crashes>>

NoPending(r) ==
    LET state == disk[keyOf[r]] IN
    /\ pc[r] = "reload"
    /\ \/ state = None /\ Goto(r, "create")
       \/ state # None /\ is_stale(state) /\ Goto(r, "reevict")
    /\ UNCHANGED <<active, waiters, disk, held, now, replies, executed, crashes>>

(* Mutants: the record carries its deadline instead of its creation time;  *)
(* the response is stored before the mutation is performed.                *)
CreateWith(r, state) ==
    /\ pc[r] = "create"
    /\ disk' = [disk EXCEPT ![keyOf[r]] = state]
    /\ held' = [held EXCEPT ![r] = state]
    /\ Goto(r, "execute")
    /\ UNCHANGED <<active, waiters, now, replies, executed, crashes>>

CreateWithDeadline(r) == CreateWith(r, [created |-> now + PendingTTL, final |-> None])

CreateWithResponse(r) == CreateWith(r, [created |-> now, final |-> r])

CreatePending(r) ==
    LET state == [created |-> now, final |-> None] IN
    /\ pc[r] = "create"
    /\ \/ disk' = [disk EXCEPT ![keyOf[r]] = state]
       \/ SaveMayFail /\ UNCHANGED disk
    /\ held' = [held EXCEPT ![r] = state]
    /\ Goto(r, "execute")
    /\ UNCHANGED <<active, waiters, now, replies, executed, crashes>>

(* The handler performs the mutation and computes its response. *)
Execute(r) ==
    /\ pc[r] = "execute"
    /\ executed' = executed \cup {r}
    /\ Goto(r, "retire")
    /\ UNCHANGED <<active, waiters, disk, held, now, replies, crashes>>

(* finish_request, persist_final_response: write_json_fast first renames   *)
(* the existing file to .bak, then the new one into place.  The write      *)
(* before them may fail, and a failure of the first rename is ignored.     *)
RetireRecord(r) ==
    /\ pc[r] = "retire"
    /\ \/ disk' = [disk EXCEPT ![keyOf[r]] = None] /\ Goto(r, "install")
       \/ SaveMayFail /\ UNCHANGED disk /\ (Goto(r, "notify") \/ Goto(r, "install"))
    /\ UNCHANGED <<active, waiters, held, now, replies, executed, crashes>>

(* The final record keeps the creation time of the held one. *)
InstallFinal(r) ==
    /\ pc[r] = "install"
    /\ \/ disk' = [disk EXCEPT ![keyOf[r]] =
                      [created |-> held[r].created, final |-> r]]
       \/ SaveMayFail /\ UNCHANGED disk
    /\ Goto(r, "notify")
    /\ UNCHANGED <<active, waiters, held, now, replies, executed, crashes>>

(* Mutants: the waiters are read, not taken; only the owner is answered. *)
NotifyKeepingWaiters(r) ==
    /\ pc[r] = "notify"
    /\ replies' = [w \in Req |-> IF w \in waiters[keyOf[r]]
                                 THEN Append(replies[w], r)
                                 ELSE replies[w]]
    /\ Goto(r, "clear")
    /\ UNCHANGED <<active, waiters, disk, held, now, executed, crashes>>


(* take_waiters, and one send per waiter taken. *)
NotifyWaiters(r) ==
    /\ pc[r] = "notify"
    /\ replies' = [w \in Req |-> IF w \in waiters[keyOf[r]]
                                 THEN Append(replies[w], r)
                                 ELSE replies[w]]
    /\ waiters' = [waiters EXCEPT ![keyOf[r]] = {}]
    /\ Goto(r, "clear")
    /\ UNCHANGED <<active, disk, held, now, executed, crashes>>


clear_active(r) ==
    /\ pc[r] = "clear"
    /\ active' = active \ {keyOf[r]}
    /\ Goto(r, "done")
    /\ UNCHANGED <<waiters, disk, held, now, replies, executed, crashes>>

(* The server dies and is started again: only the records survive, and the *)
(* connections of the unanswered requests close.                           *)
Restart ==
    /\ crashes < MaxCrashes
    /\ crashes' = crashes + 1
    /\ pc' = [r \in Req |-> IF pc[r] \in {"idle", "done"} THEN pc[r] ELSE "lost"]
    /\ active' = {}
    /\ waiters' = [k \in Key |-> {}]
    /\ held' = [r \in Req |-> None]
    /\ UNCHANGED <<disk, now, replies, executed>>

Tick ==
    /\ now < MaxNow
    /\ now' = now + 1
    /\ UNCHANGED <<pc, active, waiters, disk, held, replies, executed, crashes>>

Arrive(r) == Replay(r) \/ Miss(r)

Handle(r) ==
    \/ Evict(r)
    \/ add_waiter(r)
    \/ mark_active_if_new(r)
    \/ ReusePending(r)
    \/ NoPending(r)
    \/ CreatePending(r)
    \/ Execute(r)
    \/ RetireRecord(r)
    \/ InstallFinal(r)
    \/ NotifyWaiters(r)
    \/ clear_active(r)

Next ==
    \/ \E r \in Req : Arrive(r) \/ Handle(r)
    \/ Restart
    \/ Tick

(* The runtime polls every ready task: a handler that has started does not *)
(* stop between two steps.  Nothing makes a client send a request, the     *)
(* clock reach a deadline or the server restart.                           *)
Spec == Init /\ [][Next]_vars /\ \A r \in Req : WF_vars(Handle(r))

-----------------------------------------------------------------------------
Owns(r, k) == keyOf[r] = k /\ pc[r] \in OwnerPC

TypeOK ==
    /\ pc \in [Req -> PC]
    /\ active \subseteq Key
    /\ waiters \in [Key -> SUBSET Req]
    /\ disk \in [Key -> State \cup {None}]
    /\ held \in [Req -> State \cup {None}]
    /\ now \in 0..MaxNow
    /\ replies \in [Req -> Seq(Req)]
    /\ executed \subseteq Req
    /\ crashes \in 0..MaxCrashes

(* A mutation runs under the exclusive ownership of its key: the keys      *)
(* marked active are those some handler is between mark_active_if_new and  *)
(* clear_active for, and no two handlers are there for the same key, in    *)
(* spite of retries, stale records and restarts.                           *)
OneOwnerPerKey ==
    /\ \A k \in Key : k \in active <=> \E r \in Req : Owns(r, k)
    /\ \A r, q \in Req :
          (pc[r] \in OwnerPC /\ pc[q] \in OwnerPC /\ keyOf[r] = keyOf[q]) => r = q

(* No request is answered twice, although a request may be answered by the *)
(* replay of a record, by another handler's finish_request or by its own.  *)
AtMostOneReply == \A r \in Req : Len(replies[r]) <= 1

(* Every answer a client gets, and every final response kept on disk, is   *)
(* the response of a mutation that was really performed for that same key. *)
RepliesAreResults ==
    /\ \A r \in Req : \A i \in 1..Len(replies[r]) :
          replies[r][i] \in executed /\ keyOf[replies[r][i]] = keyOf[r]
    /\ \A k \in Key : (disk[k] # None /\ disk[k].final # None) =>
          disk[k].final \in executed /\ keyOf[disk[k].final] = k

(* The request whose handler performed the mutation has been answered when *)
(* its handler leaves finish_request, whoever took its waiter entry.       *)
ExecutorAnswered ==
    \A r \in executed : pc[r] \in {"clear", "done"} => Len(replies[r]) = 1


=============================================================================
