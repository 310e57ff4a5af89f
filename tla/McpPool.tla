------------------------------ MODULE McpPool ------------------------------
(***************************************************************************)
(* The pool of MCP servers that all sessions share: src/src/mcp/pool.rs,   *)
(* and the managers of the sessions that use it: src/src/mcp/manager.rs.   *)
(*                                                                         *)
(* A session connects to a server, disconnects it or reloads everything;   *)
(* the pool elects one leader per server, and the others wait on the       *)
(* leader's Notify.  Every action is one lock section of one of them.  A   *)
(* caller is one operation under way: a session can have several at once,  *)
(* since the batch tool runs up to ten sub-calls together, and connect_all *)
(* asks for all servers at once.  Operations are tool calls, which are     *)
(* aborted when the user cancels, except for the connect_all of a session  *)
(* that starts.  ref_counts, which nothing reads, is left out.             *)
(***************************************************************************)
EXTENDS Integers, FiniteSets

CONSTANTS Sessions, Servers,
          Callers,     \* the operations that can be under way at once
          SessionOf,   \* the session of each
          MaxFlights,  \* bound on the connection attempts
          MaxAborts    \* bound on the aborted tool calls

ASSUME BoundAssumption == MaxFlights \in Nat /\ MaxAborts \in Nat
ASSUME CallersAssumption ==
    IsFiniteSet(Callers) /\ Callers # {} /\ SessionOf \in [Callers -> Sessions]

(* An attempt names its Notify and, if it succeeds, the client and the     *)
(* handles made from it; 0 is none.                                        *)
Flight == 0..MaxFlights

VARIABLES
    op, on,        \* what each caller is doing, and on which servers
    pc,            \* of each caller, for each server: where ensure_connected is
    mine,          \* the attempt it leads or waits for
    ok,            \* of each caller: the servers for which it is to return, or returned, Ok
    pool_handles,  \* of each session
    connecting, handles, clients, last_errors,   \* of the pool
    down,          \* the clients that were shut down
    flights, aborts,
    orphans,       \* history: attempts whose leader was aborted
    tries,         \* history: attempts begun within the cooldown of a failure
    torn           \* history: servers whose handle and client were changed by halves

calls == <<pc, mine, ok>>
pool == <<connecting, handles, clients, last_errors, down>>
history == <<orphans, tries, torn>>
bounds == <<flights, aborts>>
vars == <<op, on, calls, pool_handles, pool, bounds, history>>

(* The operations of a manager.  Those that call ensure_connected: connect;*)
(* connect_all; and, in a reload, the connect_all of the pool and then that*)
(* of the manager.  Those that drop clients and errors.                    *)
Calling == {"connect", "connect_all", "reconnect", "reacquire"}
Dropping == {"drop_clients", "drop_errors", "reload_clients", "reload_errors"}

(* The mcp tool looks at the manager, lets go of its lock and takes it     *)
(* again to connect or to disconnect.                                      *)
Asking == {"to_connect", "to_disconnect"}

Leading == {"connecting", "insert_client", "clear_error", "remove"}
Waiting == {"joined", "waiting", "woken"}

Init ==
    /\ op = [m \in Callers |-> "idle"]
    /\ on = [m \in Callers |-> {}]
    /\ pc = [m \in Callers |-> [s \in Servers |-> "out"]]
    /\ mine = [m \in Callers |-> [s \in Servers |-> 0]]
    /\ ok = [m \in Callers |-> {}]
    /\ pool_handles = [x \in Sessions |-> [s \in Servers |-> 0]]
    /\ connecting = [s \in Servers |-> 0]
    /\ handles = [s \in Servers |-> 0]
    /\ clients = [s \in Servers |-> 0]
    /\ last_errors = [s \in Servers |-> "none"]
    /\ down = {} /\ flights = 0 /\ aborts = 0
    /\ orphans = {} /\ tries = [s \in Servers |-> 0] /\ torn = {}

Goto(m, s, label) == pc' = [pc EXCEPT ![m][s] = label]

(* ensure_connected has returned. *)
Return(m, s, good) ==
    /\ Goto(m, s, "out")
    /\ mine' = [mine EXCEPT ![m][s] = 0]
    /\ ok' = [ok EXCEPT ![m] = IF good THEN @ \cup {s} ELSE @ \ {s}]

(* The halves of a change: the handle is there and the client not yet, or  *)
(* the handle is gone and the client not yet.                              *)
Inserting(s) == \E m \in Callers : pc[m][s] = "insert_client"
Removing(m, s) == op[m] \in {"drop_clients", "reload_clients"} /\ s \in on[m]
BeingRemoved(s) == \E m \in Callers : Removing(m, s)

-----------------------------------------------------------------------------
(* ensure_connected of caller m for server s, one lock section at a time. *)

(* recent_failure: a handle in the pool outweighs an error, ... *)
CheckHandles(m, s) ==
    /\ pc[m][s] = "check"
    /\ Goto(m, s, IF handles[s] # 0 THEN "begin" ELSE "errors")
    /\ UNCHANGED <<op, on, mine, ok, pool_handles, pool, bounds, history>>

(* Mutant: an error never suppresses an attempt. *)
NeverSuppressed(m, s) ==
    /\ pc[m][s] = "errors"
    /\ Goto(m, s, "begin")
    /\ UNCHANGED <<op, on, mine, ok, pool_handles, pool, bounds, history>>

(* ... and an error suppresses the attempt until the cooldown is over. *)
Suppressed(m, s) ==
    /\ pc[m][s] = "errors" /\ last_errors[s] = "recent"
    /\ Return(m, s, FALSE)
    /\ UNCHANGED <<op, on, pool_handles, pool, bounds, history>>

NotSuppressed(m, s) ==
    /\ pc[m][s] = "errors" /\ last_errors[s] # "recent"
    /\ Goto(m, s, "begin")
    /\ UNCHANGED <<op, on, mine, ok, pool_handles, pool, bounds, history>>

CheckErrors(m, s) == Suppressed(m, s) \/ NotSuppressed(m, s)

(* Mutant: who finds no handle leads, whether or not an attempt is under way. *)
BeginAlways(m, s) ==
    /\ pc[m][s] = "begin"
    /\ \/ /\ handles[s] # 0
          /\ Return(m, s, TRUE)
          /\ UNCHANGED <<connecting, flights, tries>>
       \/ /\ handles[s] = 0
          /\ flights < MaxFlights /\ flights' = flights + 1
          /\ connecting' = [connecting EXCEPT ![s] = flights']
          /\ Goto(m, s, "connecting")
          /\ mine' = [mine EXCEPT ![m][s] = flights']
          /\ UNCHANGED <<ok, tries>>
    /\ UNCHANGED <<op, on, pool_handles, handles, clients, last_errors, down, aborts,
                   orphans, torn>>

(* begin_connect holds the lock of connecting while it reads the handles:   *)
(* the caller joins an attempt, ...                                        *)
JoinAttempt(m, s) ==
    /\ pc[m][s] = "begin" /\ connecting[s] # 0
    /\ Goto(m, s, "joined")
    /\ mine' = [mine EXCEPT ![m][s] = connecting[s]]
    /\ UNCHANGED <<op, on, ok, pool_handles, pool, bounds, history>>

(* ... needs none, ... *)
AlreadyConnected(m, s) ==
    /\ pc[m][s] = "begin" /\ connecting[s] = 0 /\ handles[s] # 0
    /\ Return(m, s, TRUE)
    /\ UNCHANGED <<op, on, pool_handles, pool, bounds, history>>

(* ... or leads one. *)
LeadAttempt(m, s) ==
    /\ pc[m][s] = "begin" /\ connecting[s] = 0 /\ handles[s] = 0
    /\ flights < MaxFlights /\ flights' = flights + 1
    /\ connecting' = [connecting EXCEPT ![s] = flights']
    /\ Goto(m, s, "connecting")
    /\ mine' = [mine EXCEPT ![m][s] = flights']
    /\ tries' = [tries EXCEPT ![s] = IF last_errors[s] = "recent" THEN @ + 1 ELSE @]
    /\ UNCHANGED <<op, on, ok, pool_handles, handles, clients, last_errors, down, aborts,
                   orphans, torn>>

begin_connect(m, s) == JoinAttempt(m, s) \/ AlreadyConnected(m, s) \/ LeadAttempt(m, s)

(* The leader calls McpClient::connect and then finish_connect, which      *)
(* inserts the handle ...                                                  *)
Connected(m, s) ==
    /\ pc[m][s] = "connecting"
    /\ handles' = [handles EXCEPT ![s] = mine[m][s]]
    /\ Goto(m, s, "insert_client")
    /\ ok' = [ok EXCEPT ![m] = @ \cup {s}]
    /\ torn' = torn \cup {t \in {s} : BeingRemoved(t)}
    /\ UNCHANGED <<op, on, mine, pool_handles, connecting, clients, last_errors, down, bounds,
                   orphans, tries>>

(* ... or the error; ... *)
ConnectFailed(m, s) ==
    /\ pc[m][s] = "connecting"
    /\ last_errors' = [last_errors EXCEPT ![s] = "recent"]
    /\ Goto(m, s, "remove")
    /\ ok' = [ok EXCEPT ![m] = @ \ {s}]
    /\ tries' = [tries EXCEPT ![s] = IF last_errors[s] = "recent" THEN @ ELSE 0]
    /\ UNCHANGED <<op, on, mine, pool_handles, connecting, handles, clients, down, bounds,
                   orphans, torn>>

ConnectEnds(m, s) == Connected(m, s) \/ ConnectFailed(m, s)

(* ... then the client, ... *)
InsertClient(m, s) ==
    /\ pc[m][s] = "insert_client"
    /\ clients' = [clients EXCEPT ![s] = mine[m][s]]
    /\ Goto(m, s, "clear_error")
    /\ torn' = torn \ {t \in {s} : handles[t] = mine[m][t] /\ ~BeingRemoved(t)}
    /\ UNCHANGED <<op, on, mine, ok, pool_handles, connecting, handles, last_errors, down,
                   bounds, orphans, tries>>

ClearError(m, s) ==
    /\ pc[m][s] = "clear_error"
    /\ last_errors' = [last_errors EXCEPT ![s] = "none"]
    /\ Goto(m, s, "remove")
    /\ UNCHANGED <<op, on, mine, ok, pool_handles, connecting, handles, clients, down,
                   bounds, history>>

(* ... removes its entry from connecting, ... *)
RemoveConnecting(m, s) ==
    /\ pc[m][s] = "remove"
    /\ connecting' = [connecting EXCEPT ![s] = IF @ = mine[m][s] THEN 0 ELSE @]
    /\ Goto(m, s, "notify")
    /\ UNCHANGED <<op, on, mine, ok, pool_handles, handles, clients, last_errors, down,
                   bounds, history>>

(* Mutant: a leader that failed wakes nobody. *)
NotifyOnSuccess(m, s) ==
    /\ pc[m][s] = "notify"
    /\ pc' = [w \in Callers |-> [pc[w] EXCEPT ![s] =
                IF w = m THEN "out"
                ELSE IF s \in ok[m] /\ @ = "waiting" /\ mine[w][s] = mine[m][s] THEN "woken" ELSE @]]
    /\ mine' = [mine EXCEPT ![m][s] = 0]
    /\ UNCHANGED <<op, on, ok, pool_handles, pool, bounds, history>>

(* ... and wakes those who listen to its Notify. *)
notify_waiters(m, s) ==
    /\ pc[m][s] = "notify"
    /\ pc' = [w \in Callers |-> [pc[w] EXCEPT ![s] =
                IF w = m THEN "out"
                ELSE IF @ = "waiting" /\ mine[w][s] = mine[m][s] THEN "woken" ELSE @]]
    /\ mine' = [mine EXCEPT ![m][s] = 0]
    /\ UNCHANGED <<op, on, ok, pool_handles, pool, bounds, history>>

(* A waiter holds the Notify; only when it calls notified() it listens. *)
notified(m, s) ==
    /\ pc[m][s] = "joined"
    /\ Goto(m, s, "waiting")
    /\ UNCHANGED <<op, on, mine, ok, pool_handles, pool, bounds, history>>

(* Woken, it succeeds if there is a handle by now. *)
Woken(m, s) ==
    /\ pc[m][s] = "woken"
    /\ Return(m, s, handles[s] # 0)
    /\ UNCHANGED <<op, on, pool_handles, pool, bounds, history>>

-----------------------------------------------------------------------------
(* The operations of caller m on the manager of its session. *)

Siblings(m) == {d \in Callers \ {m} : SessionOf[d] = SessionOf[m]}

(* A session that starts and a reload hold the manager for writing, the    *)
(* others for reading; a disconnect holds pool_handles until its end.      *)
Writing == {"connect_all", "reconnect", "reacquire", "reload_clients", "reload_errors"}
Reading == {"connect", "drop_clients", "drop_errors"}

CanRead(m) == \A d \in Siblings(m) : op[d] \notin Writing
CanWrite(m) == \A d \in Siblings(m) : op[d] \notin Writing \cup Reading
HandlesFree(m) == \A d \in Siblings(m) : op[d] \notin Dropping

Ask(m, name, s) ==
    /\ op' = [op EXCEPT ![m] = name]
    /\ on' = [on EXCEPT ![m] = {s}]
    /\ UNCHANGED <<calls, pool_handles, pool, bounds, history>>

Finish(m) ==
    /\ op' = [op EXCEPT ![m] = "idle"]
    /\ on' = [on EXCEPT ![m] = {}]

StartCalls(m, name, S) ==
    /\ op' = [op EXCEPT ![m] = name]
    /\ on' = [on EXCEPT ![m] = S]
    /\ pc' = [pc EXCEPT ![m] = [s \in Servers |-> IF s \in S THEN "check" ELSE "out"]]

(* The mcp tool refuses to connect a server that is connected. *)
connect_server(m, s) ==
    /\ op[m] = "idle" /\ CanRead(m) /\ HandlesFree(m)
    /\ pool_handles[SessionOf[m]][s] = 0
    /\ Ask(m, "to_connect", s)

connect(m) ==
    /\ op[m] = "to_connect" /\ CanRead(m)
    /\ StartCalls(m, "connect", on[m])
    /\ UNCHANGED <<mine, ok, pool_handles, pool, bounds, history>>

connect_all(m) ==
    /\ op[m] = "idle" /\ CanWrite(m)
    /\ \A s \in Servers : pool_handles[SessionOf[m]][s] = 0
    /\ StartCalls(m, "connect_all", Servers)
    /\ UNCHANGED <<mine, ok, pool_handles, pool, bounds, history>>

(* All calls are back.  connect takes the handle if its call succeeded;    *)
(* connect_all takes all there are; ...                                    *)
TakeHandles(m) ==
    LET taken(s) == op[m] # "connect" \/ s \in on[m] \cap ok[m]
    IN  /\ op[m] \in Calling \ {"reconnect"}
        /\ \A s \in on[m] : pc[m][s] = "out"
        /\ HandlesFree(m)
        /\ pool_handles' = [pool_handles EXCEPT ![SessionOf[m]] =
              [s \in Servers |-> IF taken(s) /\ handles[s] # 0 THEN handles[s] ELSE @[s]]]
        /\ Finish(m)
        /\ ok' = [ok EXCEPT ![m] = {}]
        /\ UNCHANGED <<pc, mine, pool, bounds, history>>

(* ... the first round of a reload starts the second. *)
SecondRound(m) ==
    /\ op[m] = "reconnect"
    /\ \A s \in on[m] : pc[m][s] = "out"
    /\ StartCalls(m, "reacquire", Servers)
    /\ ok' = [ok EXCEPT ![m] = {}]
    /\ UNCHANGED <<mine, pool_handles, pool, bounds, history>>

CallsReturned(m) == TakeHandles(m) \/ SecondRound(m)

(* disconnect_server and disconnect_all: first the handles, ... *)
DropHandles(m, name, S) ==
    /\ op' = [op EXCEPT ![m] = name]
    /\ on' = [on EXCEPT ![m] = S]
    /\ pool_handles' = [pool_handles EXCEPT ![SessionOf[m]] =
                          [s \in Servers |-> IF s \in S THEN 0 ELSE @[s]]]
    /\ handles' = [s \in Servers |-> IF s \in S THEN 0 ELSE handles[s]]
    /\ torn' = torn \cup {s \in S : Inserting(s)}
    /\ UNCHANGED <<calls, connecting, clients, last_errors, down, bounds, orphans, tries>>

disconnect_server(m, s) ==
    /\ op[m] = "idle" /\ CanRead(m) /\ HandlesFree(m)
    /\ pool_handles[SessionOf[m]][s] # 0
    /\ Ask(m, "to_disconnect", s)

(* Another caller may have dropped the handle meanwhile: nothing to do. *)
AlreadyDropped(m) ==
    /\ op[m] = "to_disconnect" /\ CanRead(m) /\ HandlesFree(m)
    /\ \A s \in on[m] : pool_handles[SessionOf[m]][s] = 0
    /\ Finish(m)
    /\ UNCHANGED <<calls, pool_handles, pool, bounds, history>>

DropServer(m) ==
    /\ op[m] = "to_disconnect" /\ CanRead(m) /\ HandlesFree(m)
    /\ \E s \in on[m] : pool_handles[SessionOf[m]][s] # 0
    /\ DropHandles(m, "drop_clients", on[m])

disconnect(m) == AlreadyDropped(m) \/ DropServer(m)

reload(m) ==
    /\ op[m] = "idle" /\ CanWrite(m)
    /\ DropHandles(m, "reload_clients", Servers)

(* Mutant: the clients are shut down and stay in the map. *)
ShutDownClients(m) ==
    /\ op[m] \in {"drop_clients", "reload_clients"}
    /\ down' = down \cup ({clients[s] : s \in on[m]} \ {0})
    /\ op' = [op EXCEPT ![m] = IF @ = "drop_clients" THEN "drop_errors" ELSE "reload_errors"]
    /\ torn' = torn \ {s \in on[m] : handles[s] = 0 /\ ~Inserting(s)}
    /\ UNCHANGED <<on, calls, pool_handles, connecting, handles, clients, last_errors, bounds,
                   orphans, tries>>

(* ... then the clients, which are shut down, ... *)
DropClients(m) ==
    /\ op[m] \in {"drop_clients", "reload_clients"}
    /\ down' = down \cup ({clients[s] : s \in on[m]} \ {0})
    /\ clients' = [s \in Servers |-> IF s \in on[m] THEN 0 ELSE clients[s]]
    /\ op' = [op EXCEPT ![m] = IF @ = "drop_clients" THEN "drop_errors" ELSE "reload_errors"]
    /\ torn' = torn \ {s \in on[m] : handles[s] = 0 /\ ~Inserting(s)}
    /\ UNCHANGED <<on, calls, pool_handles, connecting, handles, last_errors, bounds,
                   orphans, tries>>

(* ... then the errors.  A reload goes on to connect. *)
ForgetErrors(m) ==
    last_errors' = [s \in Servers |-> IF s \in on[m] THEN "none" ELSE last_errors[s]]

Disconnected(m) ==
    /\ op[m] = "drop_errors"
    /\ ForgetErrors(m)
    /\ Finish(m)
    /\ UNCHANGED <<calls, pool_handles, connecting, handles, clients, down, bounds, history>>

FirstRound(m) ==
    /\ op[m] = "reload_errors"
    /\ ForgetErrors(m)
    /\ StartCalls(m, "reconnect", Servers)
    /\ UNCHANGED <<mine, ok, pool_handles, connecting, handles, clients, down, bounds, history>>

DropErrors(m) == Disconnected(m) \/ FirstRound(m)

(* The tool call is aborted where it awaits; there is no await between the *)
(* removal from connecting and notify_waiters.                             *)
Abort(m) ==
    /\ op[m] \notin {"idle", "connect_all"}
    /\ \A s \in Servers : pc[m][s] # "notify"
    /\ aborts < MaxAborts /\ aborts' = aborts + 1
    /\ Finish(m)
    /\ pc' = [pc EXCEPT ![m] = [s \in Servers |-> "out"]]
    /\ mine' = [mine EXCEPT ![m] = [s \in Servers |-> 0]]
    /\ ok' = [ok EXCEPT ![m] = {}]
    /\ orphans' = orphans \cup {mine[m][s] : s \in {t \in Servers : pc[m][t] \in Leading}}
    /\ torn' = torn \cup {s \in Servers : pc[m][s] = "insert_client" \/ Removing(m, s)}
    /\ UNCHANGED <<pool_handles, pool, flights, tries>>

(* Mutant: an expired error gets a mark of its own. *)
CooldownMarked(s) ==
    /\ last_errors[s] = "recent"
    /\ last_errors' = [last_errors EXCEPT ![s] = "expired"]
    /\ UNCHANGED <<op, on, calls, pool_handles, connecting, handles, clients, down,
                   bounds, history>>

(* FAILED_CONNECT_RETRY_COOLDOWN has passed. *)
Cooldown(s) ==
    /\ last_errors[s] = "recent"
    /\ last_errors' = [last_errors EXCEPT ![s] = "old"]
    /\ UNCHANGED <<op, on, calls, pool_handles, connecting, handles, clients, down,
                   bounds, history>>

-----------------------------------------------------------------------------

(* A call of ensure_connected goes on by itself. *)
Call(m, s) ==
    \/ CheckHandles(m, s) \/ CheckErrors(m, s) \/ begin_connect(m, s)
    \/ InsertClient(m, s) \/ ClearError(m, s) \/ RemoveConnecting(m, s) \/ notify_waiters(m, s)
    \/ notified(m, s) \/ Woken(m, s)

Operation(m) ==
    connect(m) \/ CallsReturned(m) \/ disconnect(m) \/ DropClients(m) \/ DropErrors(m)

Start(m) ==
    \/ \E s \in Servers : connect_server(m, s) \/ disconnect_server(m, s)
    \/ connect_all(m) \/ reload(m)

Next ==
    \/ \E m \in Callers, s \in Servers : Call(m, s) \/ ConnectEnds(m, s)
    \/ \E m \in Callers : Operation(m) \/ Start(m) \/ Abort(m)
    \/ \E s \in Servers : Cooldown(s)

(* The runtime polls every task that can go on.  How long McpClient::connect*)
(* takes is up to the server: it has no timeout.                           *)
Fairness ==
    /\ \A m \in Callers, s \in Servers : WF_vars(Call(m, s))
    /\ \A m \in Callers : WF_vars(Operation(m))

Spec == Init /\ [][Next]_vars /\ Fairness

-----------------------------------------------------------------------------

TypeOK ==
    /\ op \in [Callers -> {"idle"} \cup Asking \cup Calling \cup Dropping]
    /\ on \in [Callers -> SUBSET Servers]
    /\ pc \in [Callers -> [Servers -> {"out", "check", "errors", "begin", "notify"}
                                        \cup Leading \cup Waiting]]
    /\ mine \in [Callers -> [Servers -> Flight]]
    /\ ok \in [Callers -> SUBSET Servers]
    /\ pool_handles \in [Sessions -> [Servers -> Flight]]
    /\ connecting \in [Servers -> Flight]
    /\ handles \in [Servers -> Flight]
    /\ clients \in [Servers -> Flight]
    /\ last_errors \in [Servers -> {"none", "recent", "old"}]
    /\ down \subseteq Flight /\ flights \in Flight /\ aborts \in 0..MaxAborts
    /\ orphans \subseteq Flight /\ tries \in [Servers -> Nat] /\ torn \subseteq Servers

(* The refinement mapping: what the position of a call and the map of       *)
(* attempts say about the part that the caller plays.                       *)
Flying == {s \in Servers : connecting[s] # 0}

RoleOf(m, s) ==
    IF pc[m][s] \in Leading THEN "lead"
    ELSE IF pc[m][s] \notin Waiting THEN "out"
    ELSE IF connecting[s] = mine[m][s] THEN "wait" ELSE "served"

Role == [m \in Callers |-> [s \in Servers |-> RoleOf(m, s)]]

SF == INSTANCE SingleFlight WITH
        Keys <- Servers, Callers <- Callers, flying <- Flying, role <- Role

(* The locks, the connecting map and the Notify of each attempt implement  *)
(* single flight: one attempt per server, and a waiter returns only after  *)
(* the attempt that it joined has ended, whatever was elected since.       *)
ImplementsSingleFlight == SF!FSpec

(* Whenever nobody is half way through, the handle that begin_connect      *)
(* takes for a connection belongs to the client that the pool keeps, and   *)
(* that client was not shut down, unless a disconnect and the end of an    *)
(* attempt overlapped, or one of them was aborted, and the server has not  *)
(* been connected or disconnected completely since.                        *)
HandleIsUsable ==
    \A s \in Servers \ torn :
        (~Inserting(s) /\ ~BeingRemoved(s)) => handles[s] = clients[s] /\ handles[s] \notin down

(* recent_failure is read before the election, so an attempt can follow a  *)
(* failure at once; but only the callers that had passed the check make    *)
(* one, and each of them one, the sub-calls of one session included: the   *)
(* server is not hammered.                                                 *)
CooldownHolds == \A s \in Servers : tries[s] < Cardinality(Callers)

(* If the servers answer, a waiter that listens before the leader notifies *)
(* is woken, unless the leader was aborted.                                *)
WaiterIsWoken ==
    (\A m \in Callers, s \in Servers : WF_vars(ConnectEnds(m, s))) =>
        \A m \in Callers, s \in Servers :
            (pc[m][s] = "waiting" /\ connecting[s] = mine[m][s])
                ~> (pc[m][s] # "waiting" \/ mine[m][s] \in orphans)
=============================================================================
