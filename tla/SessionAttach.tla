---------------------------- MODULE SessionAttach ----------------------------
(***************************************************************************)
(* Clients, sessions, agents and soft interrupts of the server:            *)
(* handle_resume_session of src/src/server/client_session.rs, the          *)
(* connection of client_lifecycle.rs from its set-up to                    *)
(* client_disconnect_cleanup.rs, queue_soft_interrupt_for_session of       *)
(* state.rs, mark_closed and restore_session of the agent, and             *)
(* src/src/soft_interrupt_store.rs.                                        *)
(*                                                                         *)
(* A connection starts with an agent and a session of its own.  It can     *)
(* resume another session: it attaches to the live agent of that session   *)
(* or, when there is none, loads the session into its own agent.  Soft     *)
(* interrupts - notes - for a session come from other sessions and from    *)
(* background tasks.  They go to the queue that is registered for the      *)
(* session, to the queue of its agent, or to a file from which the next    *)
(* agent of the session takes them.  The tables sessions, connections and  *)
(* registry have a lock each, and every action is one lock section.        *)
(*                                                                         *)
(* The session a connection starts with is named after it, like the agent  *)
(* it makes.  Whether an incoming client may take over is a choice (it     *)
(* depends on what the client sends).  Swarm membership, shutdown signals  *)
(* and /clear are left out; a turn is the lock of the agent it holds.      *)
(***************************************************************************)
EXTENDS Integers, FiniteSets

CONSTANTS Conns,       \* connections, and the agents and sessions they create
          Stored,      \* sessions that were on disk before
          Notes,       \* soft interrupts
          None,
          MaxResumes,  \* bound on the requests to resume a session
          MaxTurns     \* bound on the turns

ASSUME NamesAssumption == Conns \cap Stored = {} /\ None \notin Conns \cup Stored
ASSUME BoundsAssumption == MaxResumes \in Nat /\ MaxTurns \in Nat

SessionIds == Conns \cup Stored

VARIABLES
    pc,           \* of each connection: what it is doing
    at,           \* its client_session_id
    agent,        \* its agent
    want,         \* the session it resumes
    found,        \* the agent it found in sessions, when it attaches or cleans up
    rival,        \* the connection it may take over from
    connections,  \* client_connections: the session of each live connection
    sessions,     \* the agent of each live session
    registry,     \* soft_interrupt_queues: whose queue gets the notes for a session
    works,        \* the session each agent has loaded
    queue,        \* soft_interrupt_queue of each agent
    busy,         \* the connection whose turn holds the lock of the agent
    file,         \* the file of the notes for a session
    saved,        \* sessions that are on disk
    npc, dest,    \* of each note: how far its sender is, and the session it is for
    held,         \* the queue its sender holds
    loaded,       \* what its sender read from the file
    got,          \* the notes that were given to the model, and in which session
    resumes, turns,
    crossed,      \* history: sessions whose hand-overs overlapped, or met the sender of
                  \* a note that registers a queue; that lost their agent to another
                  \* session; or that a superseded client took along
    excused       \* history: notes sent during a hand-over of their session, overwritten
                  \* in the file by another sender, or left with an agent that was busy

conn == <<pc, at, agent, want, found, rival>>
tables == <<connections, sessions, registry>>
agents == <<works, queue, busy>>
disk == <<file, saved>>
senders == <<npc, dest, held, loaded>>
history == <<crossed, excused>>
vars == <<conn, tables, agents, disk, senders, got, resumes, turns, history>>

Init ==
    /\ pc = [c \in Conns |-> "off"]
    /\ at = [c \in Conns |-> c] /\ agent = [c \in Conns |-> c]
    /\ want = [c \in Conns |-> None] /\ found = [c \in Conns |-> None]
    /\ rival = [c \in Conns |-> None]
    /\ connections = [c \in Conns |-> None]
    /\ sessions = [s \in SessionIds |-> None]
    /\ registry = [s \in SessionIds |-> None]
    /\ works = [a \in Conns |-> a] /\ queue = [a \in Conns |-> {}]
    /\ busy = [a \in Conns |-> None]
    /\ file = [s \in SessionIds |-> {}] /\ saved = Stored
    /\ npc = [n \in Notes |-> "new"] /\ dest = [n \in Notes |-> None]
    /\ held = [n \in Notes |-> None] /\ loaded = [n \in Notes |-> {}]
    /\ got = {} /\ resumes = 0 /\ turns = 0
    /\ crossed = {} /\ excused = {}

Goto(c, p) == pc' = [pc EXCEPT ![c] = p]

Resuming == {"resume", "rival", "others", "leave_session", "leave_agent", "leave_queue",
             "takeover", "attach", "refresh", "claim", "close", "restore", "insert",
             "rename", "move"}
Leaving == {"check", "remove", "wait", "unregister"}

(* The sessions that connection c is handing over. *)
Moving(c) ==
    IF pc[c] \in Resuming THEN {at[c], want[c]}
    ELSE IF pc[c] \in Leaving THEN {at[c]} ELSE {}

(* A hand-over of the sessions S by connection c begins. *)
Begin(c, S) ==
    LET others == {d \in Conns \ {c} : Moving(d) \cap S # {}}
        registering == {n \in Notes : npc[n] = "register" /\ dest[n] \in S}
        superseded == pc'[c] = "resume" /\ connections[c] = None
    IN /\ crossed' = IF ~superseded /\ others = {} /\ registering = {} /\ S \cap crossed = {}
                     THEN crossed
                     ELSE crossed \cup S \cup UNION {Moving(d) : d \in others}
       /\ excused' = excused \cup {n \in Notes : npc[n] \notin {"new", "done"} /\ dest[n] \in S}

(* Mutant: an agent is closed without its queue being saved. *)
SnapshotSkipped(a) == UNCHANGED file

(* mark_closed, mark_crashed: the file takes what is in the queue. *)
persist_soft_interrupt_snapshot(a) == file' = [file EXCEPT ![works[a]] = queue[a]]

Free(a) == busy[a] = None

(* A session can be asked for once it has been created. *)
Known == Stored \cup {c \in Conns : pc[c] # "off"}

Attached(s) == {c \in Conns : connections[c] = s}
-----------------------------------------------------------------------------
(* handle_client: nobody else knows the new session yet. *)
Connect(c) ==
    /\ pc[c] = "off"
    /\ Goto(c, "idle")
    /\ connections' = [connections EXCEPT ![c] = c]
    /\ sessions' = [sessions EXCEPT ![c] = c]
    /\ registry' = [registry EXCEPT ![c] = c]
    /\ UNCHANGED <<at, agent, want, found, rival, agents, disk, senders, got, resumes, turns,
                   history>>

(* start_processing_message: one turn at a time of one connection; the      *)
(* session is saved.                                                       *)
StartTurn(c) ==
    /\ pc[c] = "idle"
    /\ \A a \in Conns : busy[a] # c
    /\ Free(agent[c])
    /\ turns < MaxTurns /\ turns' = turns + 1
    /\ busy' = [busy EXCEPT ![agent[c]] = c]
    /\ saved' = saved \cup {works[agent[c]]}
    /\ UNCHANGED <<conn, tables, works, queue, file, senders, got, resumes, history>>

EndTurn(a) ==
    /\ ~Free(a)
    /\ busy' = [busy EXCEPT ![a] = None]
    /\ UNCHANGED <<conn, tables, works, queue, disk, senders, got, resumes, turns, history>>

inject_soft_interrupts(a) ==
    /\ ~Free(a) /\ queue[a] # {}
    /\ got' = got \cup (queue[a] \X {works[a]})
    /\ queue' = [queue EXCEPT ![a] = {}]
    /\ UNCHANGED <<conn, tables, works, busy, disk, senders, resumes, turns, history>>
-----------------------------------------------------------------------------
(* handle_resume_session. *)
Resume(c, s) ==
    /\ pc[c] = "idle"
    /\ resumes < MaxResumes /\ resumes' = resumes + 1
    /\ want' = [want EXCEPT ![c] = s]
    /\ Goto(c, "resume")
    /\ Begin(c, {at[c], s})
    /\ UNCHANGED <<at, agent, found, rival, tables, agents, disk, senders, got, turns>>

Lookup(c) ==
    /\ pc[c] = "resume"
    /\ found' = [found EXCEPT ![c] = sessions[want[c]]]
    /\ Goto(c, IF found'[c] \in {None, agent[c]} THEN "claim" ELSE "rival")
    /\ UNCHANGED <<at, agent, want, rival, tables, agents, disk, senders, got, resumes, turns,
                   history>>

(* The session is live in another agent: who else is attached to it? *)
FindRival(c) ==
    /\ pc[c] = "rival"
    /\ LET others == Attached(want[c]) \ {c}
       IN \E d \in IF others = {} THEN {None} ELSE others : rival' = [rival EXCEPT ![c] = d]
    /\ Goto(c, "others")
    /\ UNCHANGED <<at, agent, want, found, tables, agents, disk, senders, got, resumes, turns,
                   history>>

(* cleanup_detached_source_session_if_unused *)
OthersLeft(c) ==
    /\ pc[c] = "others"
    /\ Goto(c, IF Attached(at[c]) \ {c} = {} THEN "leave_session" ELSE "takeover")
    /\ UNCHANGED <<at, agent, want, found, rival, tables, agents, disk, senders, got, resumes,
                   turns, history>>

LeaveSession(c) ==
    /\ pc[c] = "leave_session"
    /\ sessions' = [sessions EXCEPT ![at[c]] = IF @ = agent[c] THEN None ELSE @]
    /\ Goto(c, "leave_agent")
    /\ UNCHANGED <<at, agent, want, found, rival, connections, registry, agents, disk, senders,
                   got, resumes, turns, history>>

LeaveAgent(c) ==
    /\ pc[c] = "leave_agent"
    /\ Free(agent[c])
    /\ persist_soft_interrupt_snapshot(agent[c])
    /\ Goto(c, "leave_queue")
    /\ UNCHANGED <<at, agent, want, found, rival, tables, agents, saved, senders, got, resumes,
                   turns, history>>

LeaveQueue(c) ==
    /\ pc[c] = "leave_queue"
    /\ registry' = [registry EXCEPT ![at[c]] = None]
    /\ Goto(c, "takeover")
    /\ UNCHANGED <<at, agent, want, found, rival, connections, sessions, agents, disk, senders,
                   got, resumes, turns, history>>

(* The rival that was found is removed, if it may be; otherwise both stay.  *)
TakeOver(c) ==
    /\ pc[c] = "takeover"
    /\ \/ UNCHANGED connections
       \/ rival[c] # None /\ connections' = [connections EXCEPT ![rival[c]] = None]
    /\ Goto(c, "attach")
    /\ UNCHANGED <<at, agent, want, found, rival, sessions, registry, agents, disk, senders,
                   got, resumes, turns, history>>

MovedConnection(c) == [connections EXCEPT ![c] = IF @ = None THEN None ELSE want[c]]

Attach(c) ==
    /\ pc[c] = "attach"
    /\ connections' = MovedConnection(c)
    /\ at' = [at EXCEPT ![c] = want[c]]
    /\ agent' = [agent EXCEPT ![c] = found[c]]
    /\ Goto(c, "refresh")
    /\ UNCHANGED <<want, found, rival, sessions, registry, agents, disk, senders, got, resumes,
                   turns, history>>

(* The history is sent, and refresh_session_control_handle waits for the    *)
(* lock of the agent.  When the history cannot be written, the error ends  *)
(* handle_client before the clean-up.                                      *)
Refresh(c) ==
    /\ pc[c] = "refresh"
    /\ \/ Free(agent[c]) /\ Goto(c, "idle")
       \/ Goto(c, "gone")
    /\ UNCHANGED <<at, agent, want, found, rival, tables, agents, disk, senders, got, resumes,
                   turns, history>>

(* The session is not live: a connection that claims it is taken over from, *)
(* or the request is rejected.                                             *)
Claim(c) ==
    /\ pc[c] = "claim"
    /\ LET others == Attached(want[c]) \ {c}
       IN \/ others = {} /\ Goto(c, "close") /\ UNCHANGED connections
          \/ /\ \E d \in others : connections' = [connections EXCEPT ![d] = None]
             /\ Goto(c, "close")
          \/ others # {} /\ Goto(c, "refresh") /\ UNCHANGED connections
    /\ UNCHANGED <<at, agent, want, found, rival, sessions, registry, agents, disk, senders,
                   got, resumes, turns, history>>

Close(c) ==
    /\ pc[c] = "close"
    /\ Free(agent[c])
    /\ persist_soft_interrupt_snapshot(agent[c])
    /\ Goto(c, "restore")
    /\ UNCHANGED <<at, agent, want, found, rival, tables, agents, saved, senders, got, resumes,
                   turns, history>>

(* Mutant: the queue is not emptied. *)
RestoreKeepingQueue(c) ==
    LET a == agent[c]
    IN /\ pc[c] = "restore"
       /\ Free(a)
       /\ want[c] \in saved
       /\ works' = [works EXCEPT ![a] = want[c]]
       /\ queue' = [queue EXCEPT ![a] = @ \cup file[want[c]]]
       /\ file' = [file EXCEPT ![want[c]] = {}]
       /\ Goto(c, "insert")
       /\ UNCHANGED <<at, agent, want, found, rival, tables, busy, saved, senders, got, resumes,
                      turns, history>>

(* restore_session empties the queue and takes the notes from the file.     *)
(* Other connections of this agent are not looked for.                     *)
restore_session(c) ==
    LET a == agent[c]
    IN /\ pc[c] = "restore"
       /\ Free(a)
       /\ \/ /\ want[c] \in saved
             /\ works' = [works EXCEPT ![a] = want[c]]
             /\ queue' = [queue EXCEPT ![a] = file[want[c]]]
             /\ file' = [file EXCEPT ![want[c]] = {}]
             /\ crossed' = IF \E d \in Conns \ {c} : agent[d] = a /\ pc[d] \notin {"off", "gone"}
                           THEN crossed \cup {at[c], want[c]} ELSE crossed
             /\ Goto(c, "insert")
          \/ Goto(c, "refresh") /\ UNCHANGED <<works, queue, file, crossed>>
       /\ UNCHANGED <<at, agent, want, found, rival, tables, busy, saved, senders, got, resumes,
                      turns, excused>>

InsertSession(c) ==
    /\ pc[c] = "insert"
    /\ sessions' = [sessions EXCEPT ![at[c]] = None, ![want[c]] = agent[c]]
    /\ Goto(c, "rename")
    /\ UNCHANGED <<at, agent, want, found, rival, connections, registry, agents, disk, senders,
                   got, resumes, turns, history>>

rename_session_interrupt_queue(c) ==
    /\ pc[c] = "rename"
    /\ registry' = IF registry[at[c]] = None THEN registry
                   ELSE [registry EXCEPT ![at[c]] = None, ![want[c]] = registry[at[c]]]
    /\ Goto(c, "move")
    /\ UNCHANGED <<at, agent, want, found, rival, connections, sessions, agents, disk, senders,
                   got, resumes, turns, history>>

MoveConnection(c) ==
    /\ pc[c] = "move"
    /\ connections' = MovedConnection(c)
    /\ at' = [at EXCEPT ![c] = want[c]]
    /\ Goto(c, "refresh")
    /\ UNCHANGED <<agent, want, found, rival, sessions, registry, agents, disk, senders, got,
                   resumes, turns, history>>
-----------------------------------------------------------------------------
(* cleanup_client_connection, when the client has gone or was superseded. *)
Disconnect(c) ==
    /\ pc[c] = "idle"
    /\ connections' = [connections EXCEPT ![c] = None]
    /\ Goto(c, "check")
    /\ Begin(c, {at[c]})
    /\ UNCHANGED <<at, agent, want, found, rival, sessions, registry, agents, disk, senders, got,
                   resumes, turns>>

(* Mutant: the session is removed although another client is attached to it. *)
SuccessorIgnored(c) ==
    /\ pc[c] = "check"
    /\ Goto(c, "remove")
    /\ UNCHANGED <<at, agent, want, found, rival, tables, agents, disk, senders, got, resumes,
                   turns, history>>

session_has_live_successor(c) ==
    /\ pc[c] = "check"
    /\ Goto(c, IF Attached(at[c]) = {} THEN "remove" ELSE "gone")
    /\ UNCHANGED <<at, agent, want, found, rival, tables, agents, disk, senders, got, resumes,
                   turns, history>>

RemoveSession(c) ==
    /\ pc[c] = "remove"
    /\ found' = [found EXCEPT ![c] = sessions[at[c]]]
    /\ sessions' = [sessions EXCEPT ![at[c]] = None]
    /\ Goto(c, IF found'[c] = None THEN "unregister" ELSE "wait")
    /\ UNCHANGED <<at, agent, want, rival, connections, registry, agents, disk, senders, got,
                   resumes, turns, history>>

(* The lock of the agent is waited for; a turn may outlast the timeout.     *)
CloseAgent(c) ==
    /\ pc[c] = "wait"
    /\ \/ /\ Free(found[c])
          /\ persist_soft_interrupt_snapshot(found[c])
          /\ UNCHANGED excused
       \/ /\ ~Free(found[c])
          /\ excused' = excused \cup queue[found[c]]
          /\ UNCHANGED file
    /\ Goto(c, "unregister")
    /\ UNCHANGED <<at, agent, want, found, rival, tables, agents, saved, senders, got, resumes,
                   turns, crossed>>

(* The queue goes, and the turn that this connection started. *)
Unregister(c) ==
    /\ pc[c] = "unregister"
    /\ registry' = [registry EXCEPT ![at[c]] = None]
    /\ busy' = [a \in Conns |-> IF busy[a] = c THEN None ELSE busy[a]]
    /\ Goto(c, "gone")
    /\ UNCHANGED <<at, agent, want, found, rival, connections, sessions, works, queue, disk,
                   senders, got, resumes, turns, history>>
-----------------------------------------------------------------------------
(* queue_soft_interrupt_for_session.  The lock of the registry is held      *)
(* while the note is put into the queue.                                   *)
NGoto(n, p) == npc' = [npc EXCEPT ![n] = p]

SendNote(n, s) ==
    /\ npc[n] = "new"
    /\ dest' = [dest EXCEPT ![n] = s]
    /\ excused' = IF \E c \in Conns : s \in Moving(c) THEN excused \cup {n} ELSE excused
    /\ IF registry[s] # None
       THEN queue' = [queue EXCEPT ![registry[s]] = @ \cup {n}] /\ NGoto(n, "done")
       ELSE NGoto(n, "agents") /\ UNCHANGED queue
    /\ UNCHANGED <<conn, tables, works, busy, disk, held, loaded, got, resumes, turns, crossed>>

(* try_lock fails while a turn holds the agent. *)
FindAgent(n) ==
    /\ npc[n] = "agents"
    /\ LET a == sessions[dest[n]]
       IN IF a # None /\ busy[a] = None
          THEN /\ held' = [held EXCEPT ![n] = a] /\ NGoto(n, "register")
               /\ crossed' = crossed \cup UNION {Moving(c) : c \in {d \in Conns : dest[n] \in Moving(d)}}
          ELSE NGoto(n, "file") /\ UNCHANGED <<held, crossed>>
    /\ UNCHANGED <<conn, tables, agents, disk, dest, loaded, got, resumes, turns, excused>>

register_session_interrupt_queue(n) ==
    /\ npc[n] = "register"
    /\ registry' = [registry EXCEPT ![dest[n]] = held[n]]
    /\ NGoto(n, "enqueue")
    /\ UNCHANGED <<conn, connections, sessions, agents, disk, dest, held, loaded, got, resumes,
                   turns, history>>

enqueue_soft_interrupt(n) ==
    /\ npc[n] = "enqueue"
    /\ queue' = [queue EXCEPT ![held[n]] = @ \cup {n}]
    /\ NGoto(n, "done")
    /\ UNCHANGED <<conn, tables, works, busy, disk, dest, held, loaded, got, resumes, turns,
                   history>>

(* append: the file is read ... *)
LoadFile(n) ==
    /\ npc[n] = "file"
    /\ IF sessions[dest[n]] = None /\ dest[n] \notin saved
       THEN NGoto(n, "refused") /\ UNCHANGED loaded
       ELSE NGoto(n, "append") /\ loaded' = [loaded EXCEPT ![n] = file[dest[n]]]
    /\ UNCHANGED <<conn, tables, agents, disk, dest, held, got, resumes, turns, history>>

(* ... and overwritten, with what was written to it since. *)
OverwriteFile(n) ==
    /\ npc[n] = "append"
    /\ file' = [file EXCEPT ![dest[n]] = loaded[n] \cup {n}]
    /\ excused' = excused \cup (file[dest[n]] \ loaded[n])
    /\ NGoto(n, "done")
    /\ UNCHANGED <<conn, tables, agents, saved, dest, held, loaded, got, resumes, turns, crossed>>
-----------------------------------------------------------------------------
ResumeStep(c) ==
    \/ Lookup(c) \/ FindRival(c) \/ OthersLeft(c) \/ LeaveSession(c) \/ LeaveAgent(c)
    \/ LeaveQueue(c) \/ TakeOver(c) \/ Attach(c) \/ Refresh(c)
    \/ Claim(c) \/ Close(c) \/ restore_session(c) \/ InsertSession(c)
    \/ rename_session_interrupt_queue(c) \/ MoveConnection(c)

CleanupStep(c) ==
    session_has_live_successor(c) \/ RemoveSession(c) \/ CloseAgent(c) \/ Unregister(c)

SendStep(n) ==
    \/ FindAgent(n) \/ register_session_interrupt_queue(n) \/ enqueue_soft_interrupt(n)
    \/ LoadFile(n) \/ OverwriteFile(n)

Next ==
    \/ \E c \in Conns : \/ Connect(c) \/ StartTurn(c) \/ Disconnect(c)
                        \/ ResumeStep(c) \/ CleanupStep(c)
                        \/ \E s \in Known : Resume(c, s)
    \/ \E a \in Conns : EndTurn(a) \/ inject_soft_interrupts(a)
    \/ \E n \in Notes : SendStep(n) \/ \E s \in Known : SendNote(n, s)

Spec == Init /\ [][Next]_vars
-----------------------------------------------------------------------------
(* As long as the hand-overs of a session do not overlap, and no agent that *)
(* clients share is loaded with another session, a client that is attached *)
(* talks to the one agent that has the session loaded, and the server knows*)
(* that agent and its queue (client_session.rs 748-1069,                   *)
(* client_disconnect_cleanup.rs 88-254).                                   *)
AttachedIsLive ==
    \A c \in Conns :
        (pc[c] = "idle" /\ connections[c] # None /\ at[c] \notin crossed) =>
            /\ works[agent[c]] = at[c]
            /\ sessions[at[c]] = agent[c]
            /\ registry[at[c]] = agent[c]

(* A note that was accepted, was not sent during a hand-over of its session *)
(* and did not meet another writer of the file was given to the model, or  *)
(* still waits where it will be found: in the queue of the live agent of   *)
(* its session or in the file the next one takes (state.rs 483-563,        *)
(* interrupts.rs 52-108).                                                  *)
NoteIsKept ==
    \A n \in Notes :
        (npc[n] = "done" /\ n \notin excused /\ dest[n] \notin crossed) =>
            \/ \E s \in SessionIds : <<n, s>> \in got
            \/ n \in file[dest[n]]
            \/ \E a \in Conns : n \in queue[a] /\ works[a] = dest[n]
                                /\ (sessions[dest[n]] = a \/ \E c \in Conns : dest[n] \in Moving(c))

(* A note is given to the model in the session it was sent to, although an   *)
(* agent changes sessions with its queue (turn_execution.rs 409-431,       *)
(* client_session.rs 1013-1061).                                           *)
NoteIsForSession ==
    \A g \in got : (g[1] \notin excused /\ dest[g[1]] \notin crossed) => g[2] = dest[g[1]]
=============================================================================
