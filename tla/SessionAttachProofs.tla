------------------------ MODULE SessionAttachProofs ------------------------
(***************************************************************************)
(* Proofs about SessionAttach, for any connections, stored sessions, notes *)
(* and bounds.                                                             *)
(*                                                                         *)
(* AttachedIsLive rests on Inv, which says of every step of a hand-over what *)
(* the tables hold for the two sessions it is about.  A hand-over changes  *)
(* the tables for these sessions only, so that one which meets no other    *)
(* finds them as it left them; hand-overs that meet are noted in crossed,  *)
(* both with all their sessions.                                           *)
(*                                                                         *)
(* NoteIsKept and NoteIsForSession rest on NoteInv as well: each session has *)
(* at most the agents that own it, which hold its waiting notes in their   *)
(* queues, and without an owner the notes are in its file.                 *)
(***************************************************************************)
EXTENDS SessionAttach, TLAPS

PCs == {"off", "idle", "gone"} \cup Resuming \cup Leaving

NPCs == {"new", "agents", "register", "enqueue", "file", "append", "done", "refused"}

(* From the lookup to the attachment to the agent that was found. *)
Attaching == {"rival", "others", "leave_session", "leave_agent", "leave_queue", "takeover",
              "attach"}

(* Types of the connections, the tables, the agents, the files and the     *)
(* notes.                                                                  *)
TypeConn ==
    /\ pc \in [Conns -> PCs]
    /\ at \in [Conns -> SessionIds] /\ agent \in [Conns -> Conns]
    /\ want \in [Conns -> SessionIds \cup {None}]
    /\ found \in [Conns -> Conns \cup {None}] /\ rival \in [Conns -> Conns \cup {None}]
    /\ \A c \in Conns : pc[c] \in Resuming => want[c] \in SessionIds
    /\ \A c \in Conns : pc[c] \in Attaching \cup {"wait"} => found[c] \in Conns

TypeTables ==
    /\ connections \in [Conns -> SessionIds \cup {None}]
    /\ sessions \in [SessionIds -> Conns \cup {None}]
    /\ registry \in [SessionIds -> Conns \cup {None}]
    /\ works \in [Conns -> SessionIds] /\ queue \in [Conns -> SUBSET Notes]
    /\ busy \in [Conns -> Conns \cup {None}]
    /\ file \in [SessionIds -> SUBSET Notes] /\ saved \subseteq SessionIds

TypeNotes ==
    /\ npc \in [Notes -> NPCs] /\ dest \in [Notes -> SessionIds \cup {None}]
    /\ held \in [Notes -> Conns \cup {None}] /\ loaded \in [Notes -> SUBSET Notes]
    /\ \A n \in Notes : npc[n] # "new" => dest[n] \in SessionIds
    /\ \A n \in Notes : npc[n] \in {"register", "enqueue"} => held[n] \in Conns
    /\ got \subseteq Notes \X SessionIds
    /\ crossed \subseteq SessionIds /\ excused \subseteq Notes

TypeOK == TypeConn /\ TypeTables /\ TypeNotes

-----------------------------------------------------------------------------
(* Types. *)

(* A hand-over is one of sessions. *)
LEMMA MovingType == ASSUME TypeOK, NEW c \in Conns PROVE Moving(c) \subseteq SessionIds
BY DEF TypeOK, TypeConn, Moving

(* Every step keeps the types. *)
LEMMA TypeStep == TypeOK /\ [Next]_vars => TypeOK'
<1> SUFFICES ASSUME TypeOK, [Next]_vars PROVE TypeOK'
  OBVIOUS
<1> USE NamesAssumption DEF TypeOK, TypeConn, TypeTables, TypeNotes, SessionIds, PCs, NPCs,
                            Resuming, Leaving, Attaching, Goto, NGoto, conn, tables, agents,
                            disk, senders, history
<1>1. ASSUME NEW c \in Conns, Connect(c) PROVE TypeOK'
  BY <1>1 DEF Connect
<1>2. ASSUME NEW c \in Conns, StartTurn(c) PROVE TypeOK'
  BY <1>2 DEF StartTurn
<1>3. ASSUME NEW c \in Conns, Disconnect(c) PROVE TypeOK'
  <2>1. crossed' \subseteq SessionIds /\ excused' \subseteq Notes
    BY <1>3, MovingType DEF Disconnect, Begin
  <2>2. TypeConn' /\ TypeTables'
    BY <1>3 DEF Disconnect
  <2> QED BY <1>3, <2>1, <2>2 DEF Disconnect
<1>4. ASSUME NEW c \in Conns, Lookup(c) PROVE TypeOK'
  BY <1>4 DEF Lookup
<1>5. ASSUME NEW c \in Conns, FindRival(c) PROVE TypeOK'
  BY <1>5 DEF FindRival, Attached
<1>6. ASSUME NEW c \in Conns, OthersLeft(c) PROVE TypeOK'
  BY <1>6 DEF OthersLeft
<1>7. ASSUME NEW c \in Conns, LeaveSession(c) PROVE TypeOK'
  BY <1>7 DEF LeaveSession
<1>8. ASSUME NEW c \in Conns, LeaveAgent(c) PROVE TypeOK'
  BY <1>8 DEF LeaveAgent, persist_soft_interrupt_snapshot
<1>9. ASSUME NEW c \in Conns, LeaveQueue(c) PROVE TypeOK'
  BY <1>9 DEF LeaveQueue
<1>10. ASSUME NEW c \in Conns, TakeOver(c) PROVE TypeOK'
  BY <1>10 DEF TakeOver
<1>11. ASSUME NEW c \in Conns, Attach(c) PROVE TypeOK'
  BY <1>11 DEF Attach, MovedConnection
<1>12. ASSUME NEW c \in Conns, Refresh(c) PROVE TypeOK'
  <2>1. TypeConn'
    BY <1>12 DEF Refresh
  <2>2. TypeTables'
    BY <1>12 DEF Refresh
  <2>3. TypeNotes'
    BY <1>12 DEF Refresh
  <2> QED BY <2>1, <2>2, <2>3
<1>13. ASSUME NEW c \in Conns, Claim(c) PROVE TypeOK'
  <2>1. TypeConn'
    BY <1>13 DEF Claim, Attached
  <2>2. TypeTables'
    BY <1>13 DEF Claim, Attached
  <2>3. TypeNotes'
    BY <1>13 DEF Claim, Attached
  <2> QED BY <2>1, <2>2, <2>3
<1>14. ASSUME NEW c \in Conns, Close(c) PROVE TypeOK'
  BY <1>14 DEF Close, persist_soft_interrupt_snapshot
<1>15. ASSUME NEW c \in Conns, restore_session(c) PROVE TypeOK'
  <2>1. /\ pc' \in {[pc EXCEPT ![c] = "insert"], [pc EXCEPT ![c] = "refresh"]}
        /\ pc[c] = "restore" /\ UNCHANGED <<at, agent, want, found, rival>>
    BY <1>15 DEF restore_session
  <2>2. TypeConn'
    <3>1. pc' \in [Conns -> PCs] /\ pc'[c] \in {"insert", "refresh"}
      BY <2>1
    <3>2. \A d \in Conns \ {c} : pc'[d] = pc[d]
      BY <2>1
    <3>3. want[c] \in SessionIds
      BY <2>1
    <3> HIDE DEF TypeTables, TypeNotes, PCs, NPCs, SessionIds
    <3> QED BY <2>1, <3>1, <3>2, <3>3
  <2>3. /\ want[c] \in SessionIds /\ file[want[c]] \subseteq Notes
        /\ agent[c] \in Conns /\ at[c] \in SessionIds
    BY <2>1
  <2>4. /\ works' \in {works, [works EXCEPT ![agent[c]] = want[c]]}
        /\ queue' \in {queue, [queue EXCEPT ![agent[c]] = file[want[c]]]}
    BY <1>15 DEF restore_session
  <2>5. works' \in [Conns -> SessionIds] /\ queue' \in [Conns -> SUBSET Notes]
    <3>1. works \in [Conns -> SessionIds] /\ queue \in [Conns -> SUBSET Notes]
      OBVIOUS
    <3> HIDE DEF TypeOK, SessionIds
    <3> QED BY <2>3, <2>4, <3>1
  <2>6. file' \in [SessionIds -> SUBSET Notes]
    BY <1>15, <2>3 DEF restore_session
  <2>7. crossed' \subseteq SessionIds
    <3>1. crossed' \in {crossed, crossed \cup {at[c], want[c]}} /\ crossed \subseteq SessionIds
      <4> HIDE DEF TypeConn, TypeTables, SessionIds
      <4> QED BY <1>15 DEF restore_session
    <3> HIDE DEF TypeOK, SessionIds
    <3> QED BY <2>3, <3>1
  <2> QED BY <1>15, <2>2, <2>5, <2>6, <2>7 DEF restore_session
<1>16. ASSUME NEW c \in Conns, InsertSession(c) PROVE TypeOK'
  <2>1. at[c] \in SessionIds /\ want[c] \in SessionIds /\ agent[c] \in Conns
    BY <1>16 DEF InsertSession
  <2>2. sessions' \in [SessionIds -> Conns \cup {None}]
    <3>1. sessions \in [SessionIds -> Conns \cup {None}]
      OBVIOUS
    <3> HIDE DEF TypeOK, SessionIds
    <3> QED BY <1>16, <2>1, <3>1 DEF InsertSession
  <2>3. TypeConn'
    <3> HIDE DEF TypeTables, TypeNotes, SessionIds
    <3> QED BY <1>16, <2>1 DEF InsertSession
  <2> QED BY <1>16, <2>2, <2>3 DEF InsertSession
<1>17. ASSUME NEW c \in Conns, rename_session_interrupt_queue(c) PROVE TypeOK'
  BY <1>17 DEF rename_session_interrupt_queue
<1>18. ASSUME NEW c \in Conns, MoveConnection(c) PROVE TypeOK'
  BY <1>18 DEF MoveConnection, MovedConnection
<1>19. ASSUME NEW c \in Conns, session_has_live_successor(c) PROVE TypeOK'
  BY <1>19 DEF session_has_live_successor
<1>20. ASSUME NEW c \in Conns, RemoveSession(c) PROVE TypeOK'
  BY <1>20 DEF RemoveSession
<1>21. ASSUME NEW c \in Conns, CloseAgent(c) PROVE TypeOK'
  <2>1. found[c] \in Conns /\ works[found[c]] \in SessionIds /\ queue[found[c]] \subseteq Notes
    BY <1>21 DEF CloseAgent
  <2>2. file' \in [SessionIds -> SUBSET Notes] /\ excused' \subseteq Notes
    BY <1>21, <2>1 DEF CloseAgent, persist_soft_interrupt_snapshot
  <2>3. TypeConn'
    BY <1>21 DEF CloseAgent
  <2> QED BY <1>21, <2>2, <2>3 DEF CloseAgent
<1>22. ASSUME NEW c \in Conns, Unregister(c) PROVE TypeOK'
  BY <1>22 DEF Unregister
<1>23. ASSUME NEW c \in Conns, NEW s \in Known, Resume(c, s) PROVE TypeOK'
  <2>1. s \in SessionIds
    BY <1>23 DEF Known
  <2>2. crossed' \subseteq SessionIds /\ excused' \subseteq Notes
    BY <1>23, <2>1, MovingType DEF Resume, Begin
  <2>3. TypeConn'
    <3> HIDE DEF TypeTables, TypeNotes, SessionIds
    <3> QED BY <1>23, <2>1 DEF Resume
  <2>4. TypeTables'
    BY <1>23 DEF Resume
  <2> QED BY <1>23, <2>2, <2>3, <2>4 DEF Resume
<1>24. ASSUME NEW a \in Conns, EndTurn(a) PROVE TypeOK'
  BY <1>24 DEF EndTurn
<1>25. ASSUME NEW a \in Conns, inject_soft_interrupts(a) PROVE TypeOK'
  BY <1>25 DEF inject_soft_interrupts
<1>26. ASSUME NEW n \in Notes, FindAgent(n) PROVE TypeOK'
  <2>1. crossed' \subseteq SessionIds
    BY <1>26, MovingType DEF FindAgent
  <2>2. dest[n] \in SessionIds
    BY <1>26 DEF FindAgent
  <2>3. npc' \in [Notes -> NPCs] /\ held' \in [Notes -> Conns \cup {None}]
    <3>1. /\ sessions[dest[n]] \in Conns \cup {None}
          /\ npc \in [Notes -> NPCs] /\ held \in [Notes -> Conns \cup {None}]
      BY <2>2
    <3> HIDE DEF TypeOK, SessionIds
    <3> QED BY <1>26, <3>1 DEF FindAgent
  <2>4. \A m \in Notes : npc'[m] \in {"register", "enqueue"} => held'[m] \in Conns
    BY <1>26, <2>2 DEF FindAgent
  <2>5. TypeConn' /\ TypeTables'
    BY <1>26 DEF FindAgent
  <2> QED BY <1>26, <2>1, <2>2, <2>3, <2>4, <2>5 DEF FindAgent
<1>27. ASSUME NEW n \in Notes, register_session_interrupt_queue(n) PROVE TypeOK'
  BY <1>27 DEF register_session_interrupt_queue
<1>28. ASSUME NEW n \in Notes, enqueue_soft_interrupt(n) PROVE TypeOK'
  BY <1>28 DEF enqueue_soft_interrupt
<1>29. ASSUME NEW n \in Notes, LoadFile(n) PROVE TypeOK'
  BY <1>29 DEF LoadFile
<1>30. ASSUME NEW n \in Notes, OverwriteFile(n) PROVE TypeOK'
  BY <1>30 DEF OverwriteFile
<1>31. ASSUME NEW n \in Notes, NEW s \in Known, SendNote(n, s) PROVE TypeOK'
  <2>1. s \in SessionIds /\ dest' = [dest EXCEPT ![n] = s]
    BY <1>31 DEF Known, SendNote
  <2>2. queue' \in [Conns -> SUBSET Notes]
    <3>1. registry[s] \in Conns \cup {None} /\ queue \in [Conns -> SUBSET Notes]
      BY <2>1
    <3> HIDE DEF TypeOK, SessionIds
    <3> QED BY <1>31, <3>1 DEF SendNote
  <2>3. npc' \in {[npc EXCEPT ![n] = "done"], [npc EXCEPT ![n] = "agents"]}
    BY <1>31 DEF SendNote
  <2>4. /\ npc' \in [Notes -> NPCs]
        /\ \A m \in Notes : npc'[m] \in {"register", "enqueue"} => npc[m] = npc'[m]
    <3>1. npc \in [Notes -> NPCs]
      OBVIOUS
    <3> HIDE DEF TypeOK
    <3> QED BY <2>3, <3>1
  <2>5. /\ dest' \in [Notes -> SessionIds \cup {None}]
        /\ \A m \in Notes : npc'[m] # "new" => dest'[m] \in SessionIds
    BY <2>1, <2>3
  <2>6. excused' \subseteq Notes
    BY <1>31 DEF SendNote
  <2>7. TypeConn' /\ UNCHANGED <<tables, works, busy, disk, held, loaded, got, crossed>>
    BY <1>31 DEF SendNote
  <2> QED BY <2>2, <2>4, <2>5, <2>6, <2>7
<1>32. CASE UNCHANGED vars
  BY <1>32 DEF vars
<1> QED BY <1>1, <1>2, <1>3, <1>4, <1>5, <1>6, <1>7, <1>8, <1>9, <1>10, <1>11, <1>12, <1>13, <1>14, <1>15, <1>16,
           <1>17, <1>18, <1>19, <1>20, <1>21, <1>22, <1>23, <1>24, <1>25, <1>26, <1>27, <1>28, <1>29, <1>30, <1>31, <1>32
        DEF Next, ResumeStep, CleanupStep, SendStep

-----------------------------------------------------------------------------
(* The invariant behind AttachedIsLive. *)

Live(c) == pc[c] \notin {"off", "gone"}

(* No hand-over of the session met another one. *)
Clean(s) == s \notin crossed

(* Nobody knows a connection that has not been made yet, its session or    *)
(* its agent.                                                              *)
OffInv ==
    \A c \in Conns : pc[c] = "off" =>
        /\ at[c] = c /\ agent[c] = c /\ works[c] = c /\ connections[c] = None
        /\ \A d \in Conns \ {c} : at[d] # c /\ want[d] # c /\ agent[d] # c /\ found[d] # c
        /\ \A s \in SessionIds : sessions[s] # c
        /\ \A n \in Notes : dest[n] # c

(* Hand-overs that meet are noted, a hand-over is noted as a whole, and no *)
(* queue is being registered for a session that is handed over.            *)
MoveInv ==
    /\ \A c, d \in Conns : c # d /\ Moving(c) \cap Moving(d) # {} =>
                               Moving(c) \cup Moving(d) \subseteq crossed
    /\ \A c \in Conns : Moving(c) \cap crossed # {} => Moving(c) \subseteq crossed
    /\ \A n \in Notes : npc[n] = "register" /\ Clean(dest[n]) =>
          sessions[dest[n]] = held[n] /\ \A c \in Conns : dest[n] \notin Moving(c)

(* The table of the connections, and the one to take over from. *)
Rivals == {"others", "leave_session", "leave_agent", "leave_queue", "takeover"}

ConnOf(c) ==
    /\ connections[c] \in {None, at[c]}
    /\ pc[c] \in Leaving => connections[c] = None
    /\ pc[c] \in Resuming /\ connections[c] = None => ~Clean(at[c])
    /\ pc[c] \in Rivals /\ rival[c] # None =>
          /\ rival[c] # c
          /\ at[rival[c]] = want[c] \/ (~Clean(at[rival[c]]) /\ ~Clean(want[c]))

ConnInv == \A c \in Conns : ConnOf(c)

(* The agent that a connection talks to or has found, and the one that the *)
(* server knows for a session, has the session loaded; so has the one that *)
(* a connection that leaves is about to close.  The exceptions             *)
(* are an agent that its connection has just loaded with another session,  *)
(* and sessions that are both noted.                                       *)
Loads(c) == IF pc[c] \in {"insert", "rename", "move"} THEN want[c] ELSE at[c]

Fits(a, s) == works[a] = s \/ (~Clean(s) /\ ~Clean(works[a]))

AgentOf(c) ==
    /\ Live(c) => Fits(agent[c], Loads(c))
    /\ pc[c] \in Attaching => found[c] # agent[c] /\ Fits(found[c], want[c])
    /\ pc[c] = "wait" => Fits(found[c], at[c])

Loading(c, s) == pc[c] = "insert" /\ at[c] = s /\ agent[c] = sessions[s] /\ Fits(agent[c], want[c])

WorksInv ==
    /\ \A c \in Conns : AgentOf(c)
    /\ \A s \in SessionIds : sessions[s] # None =>
          Fits(sessions[s], s) \/ \E c \in Conns : Loading(c, s)

(* What the tables say of the sessions that a connection is attached to or *)
(* is handing over, step by step.                                          *)
Settled == {"resume", "rival", "others", "leave_session", "claim", "close", "restore",
            "insert", "refresh"}

LiveIn(s, a) == sessions[s] = a /\ registry[s] = a

SessOf(c) ==
    Clean(at[c]) =>
        /\ (pc[c] = "idle" /\ connections[c] # None) \/ pc[c] \in Settled => LiveIn(at[c], agent[c])
        /\ pc[c] = "rename" => /\ registry[at[c]] = agent[c] /\ sessions[want[c]] = agent[c]
                               /\ at[c] = want[c] \/ sessions[at[c]] = None
        /\ pc[c] = "move" => LiveIn(want[c], agent[c])
        /\ pc[c] \in Attaching => LiveIn(want[c], found[c])
        /\ pc[c] \in {"claim", "close", "restore"} => sessions[want[c]] \in {None, agent[c]}
        /\ pc[c] \in {"leave_agent", "leave_queue", "wait", "unregister"} => sessions[at[c]] = None
        /\ pc[c] \in {"leave_session", "leave_agent", "leave_queue", "remove", "wait", "unregister"} =>
              Attached(at[c]) \subseteq {c}
        /\ pc[c] \in {"insert", "rename", "move"} =>
              \A d \in Conns \ {c} : connections[d] \in {at[c], want[c]} => pc[d] = "gone"

RegInv ==
    \A s \in SessionIds : Clean(s) /\ sessions[s] # None =>
        registry[s] = sessions[s] \/ \E c \in Conns : pc[c] = "rename" /\ want[c] = s

SessInv == (\A c \in Conns : SessOf(c)) /\ RegInv

Inv == OffInv /\ MoveInv /\ ConnInv /\ WorksInv /\ SessInv

-----------------------------------------------------------------------------
(* What the steps of a connection have in common: they leave the others    *)
(* alone, but for their entries in the table of the connections, and       *)
(* change the tables only for the sessions that are handed over.           *)
Same(d) == /\ pc'[d] = pc[d] /\ at'[d] = at[d] /\ agent'[d] = agent[d]
           /\ want'[d] = want[d] /\ found'[d] = found[d] /\ rival'[d] = rival[d]

Acts(c) ==
    /\ pc[c] \notin {"off", "gone"} /\ pc'[c] # "off"
    /\ \A d \in Conns \ {c} : Same(d) /\ connections'[d] \in {connections[d], None}
    /\ connections'[c] \in {connections[c], None} \cup Moving(c)
    /\ at'[c] \in {at[c]} \cup Moving(c) /\ agent'[c] \in {agent[c], found[c]}
    /\ want'[c] = want[c] \/ want'[c] \in Known
    /\ found'[c] = found[c] \/ \E s \in SessionIds : found'[c] = sessions[s]
    /\ \A s \in SessionIds : sessions'[s] \in {sessions[s], None, agent[c]}
    /\ \A s \in SessionIds \ Moving(c) : sessions'[s] = sessions[s] /\ registry'[s] = registry[s]
    /\ \A a \in Conns : works'[a] = works[a] \/ (a = agent[c] /\ pc[c] = "restore")
    /\ crossed \subseteq crossed'
    /\ UNCHANGED <<npc, dest, held>>

ConnStep(c) == \/ StartTurn(c) \/ Disconnect(c) \/ ResumeStep(c) \/ CleanupStep(c)
               \/ \E s \in Known : Resume(c, s)

(* Every step of a connection acts in this way. *)
LEMMA ActsStep == ASSUME TypeOK, NEW c \in Conns, ConnStep(c) PROVE Acts(c)
<1> USE DEF TypeOK, TypeConn, TypeTables, TypeNotes, Resuming, Leaving, Goto, conn, tables,
            agents, disk, senders, history, Acts, Same, Moving
<1>1. CASE StartTurn(c)
  BY <1>1 DEF StartTurn
<1>2. CASE Disconnect(c)
  BY <1>2 DEF Disconnect, Begin
<1>3. CASE Lookup(c)
  BY <1>3 DEF Lookup
<1>4. CASE FindRival(c)
  BY <1>4 DEF FindRival, Attached
<1>5. CASE OthersLeft(c)
  BY <1>5 DEF OthersLeft
<1>6. CASE LeaveSession(c)
  BY <1>6 DEF LeaveSession
<1>7. CASE LeaveAgent(c)
  BY <1>7 DEF LeaveAgent, persist_soft_interrupt_snapshot
<1>8. CASE LeaveQueue(c)
  BY <1>8 DEF LeaveQueue
<1>9. CASE TakeOver(c)
  BY <1>9 DEF TakeOver
<1>10. CASE Attach(c)
  BY <1>10 DEF Attach, MovedConnection
<1>11. CASE Refresh(c)
  BY <1>11 DEF Refresh
<1>12. CASE Claim(c)
  BY <1>12 DEF Claim, Attached
<1>13. CASE Close(c)
  BY <1>13 DEF Close, persist_soft_interrupt_snapshot
<1>14. CASE restore_session(c)
  BY <1>14 DEF restore_session
<1>15. CASE InsertSession(c)
  BY <1>15 DEF InsertSession
<1>16. CASE rename_session_interrupt_queue(c)
  BY <1>16 DEF rename_session_interrupt_queue
<1>17. CASE MoveConnection(c)
  BY <1>17 DEF MoveConnection, MovedConnection
<1>18. CASE session_has_live_successor(c)
  BY <1>18 DEF session_has_live_successor
<1>19. CASE RemoveSession(c)
  BY <1>19 DEF RemoveSession
<1>20. CASE CloseAgent(c)
  BY <1>20 DEF CloseAgent, persist_soft_interrupt_snapshot
<1>21. CASE Unregister(c)
  BY <1>21 DEF Unregister
<1>22. ASSUME NEW s \in Known, Resume(c, s) PROVE Acts(c)
  BY <1>22 DEF Resume, Begin
<1> QED BY <1>1, <1>2, <1>3, <1>4, <1>5, <1>6, <1>7, <1>8, <1>9, <1>10, <1>11, <1>12, <1>13,
           <1>14, <1>15, <1>16, <1>17, <1>18, <1>19, <1>20, <1>21, <1>22
        DEF ConnStep, ResumeStep, CleanupStep

(* How a step of a connection bears on the hand-overs: it goes on with its *)
(* own, notes it, or begins one.                                           *)
Crosses(c) ==
    \/ crossed' = crossed /\ Moving(c)' \subseteq Moving(c)
    \/ crossed' = crossed \cup Moving(c) /\ Moving(c)' = Moving(c)
    \/ Moving(c) = {} /\ Begin(c, Moving(c)')

(* Nobody gets to know a connection that is not there. *)
LEMMA OffActs == ASSUME TypeOK, OffInv, NEW c \in Conns, Acts(c) PROVE OffInv'
<1> SUFFICES ASSUME NEW e \in Conns, pc'[e] = "off"
             PROVE  /\ at'[e] = e /\ agent'[e] = e /\ works'[e] = e /\ connections'[e] = None
                    /\ \A d \in Conns \ {e} : /\ at'[d] # e /\ want'[d] # e
                                              /\ agent'[d] # e /\ found'[d] # e
                    /\ \A s \in SessionIds : sessions'[s] # e
                    /\ \A n \in Notes : dest'[n] # e
  BY DEF OffInv
<1>1. e # c /\ pc[e] = "off" /\ Same(e) /\ connections'[e] \in {connections[e], None}
  BY DEF Acts, Same
<1>2. /\ at[e] = e /\ agent[e] = e /\ works[e] = e /\ connections[e] = None
      /\ \A d \in Conns \ {e} : at[d] # e /\ want[d] # e /\ agent[d] # e /\ found[d] # e
      /\ \A s \in SessionIds : sessions[s] # e
      /\ \A n \in Notes : dest[n] # e
  BY <1>1 DEF OffInv
<1>3. works'[e] = e
  BY <1>1, <1>2 DEF Acts
<1>4. at'[c] # e /\ want'[c] # e /\ agent'[c] # e /\ found'[c] # e
  <2>1. e \notin Known
    BY <1>1, NamesAssumption DEF Known
  <2>2. at'[c] # e
    BY <1>1, <1>2 DEF Acts, Moving
  <2> QED BY <1>1, <1>2, <2>1, <2>2 DEF Acts
<1>5. \A s \in SessionIds : sessions'[s] # e
  BY <1>1, <1>2, NamesAssumption DEF Acts
<1>6. \A n \in Notes : dest'[n] # e
  BY <1>2 DEF Acts
<1> QED BY <1>1, <1>2, <1>3, <1>4, <1>5, <1>6 DEF Same, Acts

(* The sessions that the others hand over stay the same. *)
LEMMA MovingActs ==
    ASSUME NEW c \in Conns, Acts(c)
    PROVE  \A d \in Conns \ {c} : Moving(d)' = Moving(d)
BY DEF Acts, Same, Moving

(* Hand-overs that meet are noted. *)
LEMMA MoveActs == ASSUME TypeOK, MoveInv, NEW c \in Conns, Acts(c), Crosses(c) PROVE MoveInv'
<1> DEFINE S == Moving(c)'
<1>1. \A d \in Conns \ {c} : Moving(d)' = Moving(d)
  BY MovingActs
<1>n. ASSUME NEW n \in Notes, npc[n] = "register", Clean(dest[n])'
      PROVE  /\ sessions'[dest[n]] = held[n] /\ dest[n] \in SessionIds
             /\ \A d \in Conns : dest[n] \notin Moving(d)
  BY <1>n DEF MoveInv, Clean, Acts, TypeOK, TypeNotes
<1>2. ASSUME /\ \A d \in Conns \ {c} : S \cap Moving(d) # {} => S \cup Moving(d) \subseteq crossed'
             /\ \A d \in Conns : Moving(d)' \cap crossed' # {} => Moving(d)' \subseteq crossed'
             /\ \A n \in Notes : npc[n] = "register" /\ Clean(dest[n])' => dest[n] \notin S
      PROVE  MoveInv'
  <2>1. ASSUME NEW e \in Conns, NEW d \in Conns, e # d, Moving(e)' \cap Moving(d)' # {}
        PROVE  Moving(e)' \cup Moving(d)' \subseteq crossed'
    <3>1. CASE e = c
      BY <1>1, <1>2, <2>1, <3>1
    <3>2. CASE d = c
      BY <1>1, <1>2, <2>1, <3>2
    <3>3. CASE e # c /\ d # c
      BY <1>1, <2>1, <3>3 DEF MoveInv, Acts
    <3> QED BY <3>1, <3>2, <3>3
  <2>2. ASSUME NEW n \in Notes, npc'[n] = "register", Clean(dest[n])'
        PROVE  sessions'[dest'[n]] = held'[n] /\ \A d \in Conns : dest'[n] \notin Moving(d)'
    <3>1. npc[n] = "register" /\ dest'[n] = dest[n] /\ held'[n] = held[n]
      BY <2>2 DEF Acts
    <3>2. Clean(dest[n])' = (dest[n] \notin crossed')
      BY <3>1 DEF Clean
    <3> QED BY <1>1, <1>2, <1>n, <2>2, <3>1, <3>2
  <2> QED BY <1>2, <2>1, <2>2 DEF MoveInv
<1>3. CASE crossed' = crossed /\ Moving(c)' \subseteq Moving(c)
  BY <1>1, <1>2, <1>3, <1>n DEF MoveInv
<1>4. CASE crossed' = crossed \cup Moving(c) /\ Moving(c)' = Moving(c)
  BY <1>1, <1>2, <1>4, <1>n DEF MoveInv
<1>5. CASE Moving(c) = {} /\ Begin(c, Moving(c)')
  <2> DEFINE others == {d \in Conns \ {c} : Moving(d) \cap S # {}}
             all == crossed \cup S \cup UNION {Moving(d) : d \in others}
  <2>1. \/ /\ crossed' = crossed /\ others = {} /\ S \cap crossed = {}
           /\ \A n \in Notes : npc[n] = "register" => dest[n] \notin S
        \/ crossed' = all
    BY <1>5 DEF Begin
  <2> HIDE DEF S
  <2>2. CASE /\ crossed' = crossed /\ others = {} /\ S \cap crossed = {}
             /\ \A n \in Notes : npc[n] = "register" => dest[n] \notin S
    BY <1>1, <1>2, <2>2 DEF MoveInv, S
  <2>3. CASE crossed' = all
    <3>1. \A d \in Conns \ {c} : S \cap Moving(d) # {} => S \cup Moving(d) \subseteq crossed'
      BY <2>3
    <3>2. ASSUME NEW d \in Conns \ {c}, Moving(d) \cap crossed' # {} PROVE Moving(d) \subseteq crossed'
      BY <2>3, <3>2 DEF MoveInv
    <3>3. S \subseteq crossed'
      BY <2>3
    <3>4. \A n \in Notes : npc[n] = "register" /\ Clean(dest[n])' => dest[n] \notin S
      BY <3>3 DEF Clean, Acts
    <3>5. \A d \in Conns : Moving(d)' \cap crossed' # {} => Moving(d)' \subseteq crossed'
      BY <1>1, <3>2, <3>3 DEF S
    <3> QED BY <1>2, <3>1, <3>4, <3>5
  <2> QED BY <2>1, <2>2, <2>3
<1> QED BY <1>3, <1>4, <1>5 DEF Crosses

(* The table of the connections, when the step keeps it right for its own  *)
(* connection and takes over only from one whose session it hands over.    *)
LEMMA ConnActs ==
    ASSUME TypeOK, MoveInv, ConnInv, NEW c \in Conns, Acts(c), ConnOf(c)',
           \A d \in Conns \ {c} : pc[d] \in Resuming /\ connections'[d] # connections[d] =>
                                      ~Clean(at[d])
    PROVE  ConnInv'
<1> SUFFICES ASSUME NEW d \in Conns \ {c} PROVE ConnOf(d)'
  BY DEF ConnInv
<1>1. Same(d) /\ connections'[d] \in {connections[d], None} /\ crossed \subseteq crossed'
  BY DEF Acts
<1>2. ConnOf(d)
  BY DEF ConnInv
<1>3. connections'[d] \in {None, at'[d]} /\ (pc'[d] \in Leaving => connections'[d] = None)
  BY <1>1, <1>2 DEF ConnOf, Same
<1>4. pc'[d] \in Resuming /\ connections'[d] = None => ~Clean(at[d])'
  BY <1>1, <1>2 DEF ConnOf, Same, Clean
<1>5. ASSUME pc'[d] \in Rivals, rival'[d] # None
      PROVE  /\ rival'[d] # d
             /\ at'[rival'[d]] = want'[d]
                \/ (at'[rival'[d]] \in crossed' /\ want'[d] \in crossed')
  <2> DEFINE e == rival[d]
  <2>1. /\ rival'[d] = e /\ e # d /\ e \in Conns /\ want'[d] = want[d] /\ want[d] \in Moving(d)
        /\ at[e] = want[d] \/ (at[e] \in crossed /\ want[d] \in crossed)
    BY <1>1, <1>2, <1>5 DEF ConnOf, Same, Rivals, Moving, Resuming, Clean, TypeOK, TypeConn
  <2> HIDE DEF e
  <2>2. CASE e # c
    BY <1>1, <2>1, <2>2 DEF Acts, Same
  <2>3. CASE e = c /\ at'[c] = at[c]
    BY <1>1, <2>1, <2>3
  <2>4. CASE e = c /\ at'[c] \in Moving(c)
    <3>1. at[c] \in Moving(c)
      BY <2>4 DEF Moving
    <3>2. Moving(c) \subseteq crossed /\ want[d] \in crossed
      BY <2>1, <2>4, <3>1 DEF MoveInv
    <3> QED BY <1>1, <2>1, <2>4, <3>2
  <2> QED BY <2>2, <2>3, <2>4 DEF Acts
<1> QED BY <1>3, <1>4, <1>5 DEF ConnOf, Clean

(* Every step of a connection bears on the hand-overs in this way. *)
LEMMA CrossesStep == ASSUME TypeOK, NEW c \in Conns, ConnStep(c) PROVE Crosses(c)
<1> USE DEF TypeOK, TypeConn, Resuming, Leaving, Goto, conn, history, Crosses, Moving
<1>1. CASE StartTurn(c)
  BY <1>1 DEF StartTurn
<1>2. CASE Disconnect(c)
  <2>1. Moving(c) = {} /\ Moving(c)' = {at[c]} /\ Begin(c, {at[c]})
    BY <1>2 DEF Disconnect
  <2> HIDE DEF Moving
  <2> QED BY <2>1
<1>3. CASE Lookup(c)
  BY <1>3 DEF Lookup
<1>4. CASE FindRival(c)
  BY <1>4 DEF FindRival
<1>5. CASE OthersLeft(c)
  BY <1>5 DEF OthersLeft
<1>6. CASE LeaveSession(c)
  BY <1>6 DEF LeaveSession
<1>7. CASE LeaveAgent(c)
  BY <1>7 DEF LeaveAgent
<1>8. CASE LeaveQueue(c)
  BY <1>8 DEF LeaveQueue
<1>9. CASE TakeOver(c)
  BY <1>9 DEF TakeOver
<1>10. CASE Attach(c)
  BY <1>10 DEF Attach
<1>11. CASE Refresh(c)
  BY <1>11 DEF Refresh
<1>12. CASE Claim(c)
  BY <1>12 DEF Claim
<1>13. CASE Close(c)
  BY <1>13 DEF Close
<1>14. CASE restore_session(c)
  BY <1>14 DEF restore_session
<1>15. CASE InsertSession(c)
  BY <1>15 DEF InsertSession
<1>16. CASE rename_session_interrupt_queue(c)
  BY <1>16 DEF rename_session_interrupt_queue
<1>17. CASE MoveConnection(c)
  BY <1>17 DEF MoveConnection
<1>18. CASE session_has_live_successor(c)
  BY <1>18 DEF session_has_live_successor
<1>19. CASE RemoveSession(c)
  BY <1>19 DEF RemoveSession
<1>20. CASE CloseAgent(c)
  BY <1>20 DEF CloseAgent
<1>21. CASE Unregister(c)
  BY <1>21 DEF Unregister
<1>22. ASSUME NEW s \in Known, Resume(c, s) PROVE Crosses(c)
  <2>1. Moving(c) = {} /\ Moving(c)' = {at[c], s} /\ Begin(c, {at[c], s})
    BY <1>22 DEF Resume
  <2> HIDE DEF Moving
  <2> QED BY <2>1
<1> QED BY <1>1, <1>2, <1>3, <1>4, <1>5, <1>6, <1>7, <1>8, <1>9, <1>10, <1>11, <1>12, <1>13,
           <1>14, <1>15, <1>16, <1>17, <1>18, <1>19, <1>20, <1>21, <1>22
        DEF ConnStep, ResumeStep, CleanupStep

(* A connection keeps its own entry in the table right, and takes over only *)
(* from one whose session it hands over.                                   *)
LEMMA ConnOwn ==
    ASSUME TypeOK, MoveInv, ConnInv, NEW c \in Conns, ConnStep(c)
    PROVE  /\ ConnOf(c)'
           /\ \A d \in Conns \ {c} : pc[d] \in Resuming /\ connections'[d] # connections[d] =>
                                         ~Clean(at[d])
<1> DEFINE Noted == \A d \in Conns \ {c} : pc[d] \in Resuming /\ connections'[d] # connections[d] =>
                                         ~Clean(at[d])
<1>0. /\ ConnOf(c) /\ \A d \in Conns : connections[d] \in {None, at[d]}
      /\ pc[c] \in Resuming /\ ~Clean(at[c]) => ~Clean(at[c]) /\ ~Clean(want[c])
  BY DEF ConnInv, ConnOf, MoveInv, Moving, Clean
<1>m. ASSUME pc[c] \in Resuming, NEW d \in Conns \ {c}, pc[d] \in Resuming,
             at[d] = want[c] \/ ~Clean(at[d])
      PROVE  ~Clean(at[d])
  BY <1>m DEF MoveInv, Moving, Clean
<1> USE <1>0 DEF TypeOK, TypeConn, TypeTables, Resuming, Leaving, Rivals, Goto, conn, tables,
                 history, ConnOf, Clean
<1>1. CASE StartTurn(c)
  BY <1>1 DEF StartTurn
<1>2. CASE Disconnect(c)
  BY <1>2 DEF Disconnect
<1>3. CASE Lookup(c)
  BY <1>3 DEF Lookup
<1>4. CASE FindRival(c)
  BY <1>4, NamesAssumption DEF FindRival, Attached, SessionIds
<1>5. CASE OthersLeft(c)
  BY <1>5 DEF OthersLeft
<1>6. CASE LeaveSession(c)
  BY <1>6 DEF LeaveSession
<1>7. CASE LeaveAgent(c)
  BY <1>7 DEF LeaveAgent
<1>8. CASE LeaveQueue(c)
  BY <1>8 DEF LeaveQueue
<1>9. CASE TakeOver(c)
  <2>1. ConnOf(c)'
    BY <1>9 DEF TakeOver
  <2>2. ASSUME NEW d \in Conns \ {c}, pc[d] \in Resuming, connections'[d] # connections[d]
        PROVE  d = rival[c]
    BY <1>9, <2>2 DEF TakeOver
  <2> QED BY <1>9, <1>m, <2>1, <2>2 DEF TakeOver
<1>10. CASE Attach(c)
  BY <1>10, NamesAssumption DEF Attach, MovedConnection, SessionIds
<1>11. CASE Refresh(c)
  BY <1>11 DEF Refresh
<1>12. CASE Claim(c)
  <2>1. ConnOf(c)'
    BY <1>12 DEF Claim, Attached
  <2>2. ASSUME NEW d \in Conns \ {c}, connections'[d] # connections[d]
        PROVE  at[d] = want[c]
    BY <1>12, <2>2, NamesAssumption DEF Claim, Attached, SessionIds
  <2> QED BY <1>12, <1>m, <2>1, <2>2 DEF Claim
<1>13. CASE Close(c)
  BY <1>13 DEF Close
<1>14. CASE restore_session(c)
  BY <1>14 DEF restore_session
<1>15. CASE InsertSession(c)
  BY <1>15 DEF InsertSession
<1>16. CASE rename_session_interrupt_queue(c)
  BY <1>16 DEF rename_session_interrupt_queue
<1>17. CASE MoveConnection(c)
  BY <1>17, NamesAssumption DEF MoveConnection, MovedConnection, SessionIds
<1>18. CASE session_has_live_successor(c)
  BY <1>18 DEF session_has_live_successor
<1>19. CASE RemoveSession(c)
  BY <1>19 DEF RemoveSession
<1>20. CASE CloseAgent(c)
  BY <1>20 DEF CloseAgent
<1>21. CASE Unregister(c)
  BY <1>21 DEF Unregister
<1>22. ASSUME NEW s \in Known, Resume(c, s) PROVE ConnOf(c)' /\ Noted
  BY <1>22 DEF Resume, Begin
<1> QED BY <1>1, <1>2, <1>3, <1>4, <1>5, <1>6, <1>7, <1>8, <1>9, <1>10, <1>11, <1>12, <1>13,
           <1>14, <1>15, <1>16, <1>17, <1>18, <1>19, <1>20, <1>21, <1>22
        DEF ConnStep, ResumeStep, CleanupStep

(* The agents, when the step loads no session and no entry of the table of *)
(* the sessions gets a new agent.                                          *)
LEMMA WorksActs ==
    ASSUME TypeOK, WorksInv, NEW c \in Conns, Acts(c), AgentOf(c)', pc[c] # "insert",
           \A a \in Conns : works'[a] = works[a],
           \A s \in SessionIds : sessions'[s] \in {sessions[s], None}
    PROVE  WorksInv'
<1>0. crossed \subseteq crossed' /\ \A d \in Conns \ {c} : Same(d)
  BY DEF Acts
<1>1. ASSUME NEW d \in Conns \ {c} PROVE AgentOf(d)'
  BY <1>0, <1>1 DEF WorksInv, AgentOf, Live, Loads, Fits, Clean, Same, TypeOK, TypeConn
<1>2. ASSUME NEW s \in SessionIds, sessions'[s] # None
      PROVE  Fits(sessions[s], s)' \/ \E e \in Conns : Loading(e, s)'
  <2>1. sessions'[s] = sessions[s] /\ sessions[s] \in Conns
    BY <1>2 DEF TypeOK, TypeTables
  <2>2. CASE Fits(sessions[s], s)
    BY <1>0, <2>1, <2>2 DEF Fits, Clean
  <2>3. ASSUME NEW e \in Conns, Loading(e, s) PROVE Loading(e, s)'
    BY <1>0, <2>1, <2>3 DEF Loading, Fits, Clean, Same, TypeOK, TypeConn
  <2> QED BY <1>2, <2>1, <2>2, <2>3 DEF WorksInv
<1> QED BY <1>1, <1>2 DEF WorksInv

(* restore_session loads the agent with the session that is resumed.  Who  *)
(* shares the agent, has found it or is known to have it is noted along    *)
(* with the hand-over, or is the connection itself.                        *)
LEMMA WorksRestore ==
    ASSUME TypeOK, MoveInv, WorksInv, NEW c \in Conns, Acts(c), restore_session(c),
           works' # works
    PROVE  WorksInv'
<1> DEFINE a == agent[c]
           W == works[a]
<1>0. /\ crossed \subseteq crossed' /\ \A d \in Conns \ {c} : Same(d)
  BY DEF Acts
<1>1. /\ pc[c] = "restore" /\ pc'[c] = "insert" /\ a \in Conns
      /\ at'[c] = at[c] /\ agent'[c] = a /\ want'[c] = want[c] /\ sessions' = sessions
      /\ works'[a] = want[c] /\ \A b \in Conns \ {a} : works'[b] = works[b]
      /\ \A d \in Conns \ {c} : agent[d] = a /\ Live(d) => {at[c], want[c]} \subseteq crossed'
  <2>1. /\ pc[c] = "restore" /\ pc' = [pc EXCEPT ![c] = "insert"]
        /\ works' = [works EXCEPT ![agent[c]] = want[c]]
        /\ UNCHANGED <<at, agent, want, tables>>
        /\ crossed' = IF \E d \in Conns \ {c} : agent[d] = agent[c] /\ pc[d] \notin {"off", "gone"}
                      THEN crossed \cup {at[c], want[c]} ELSE crossed
    BY DEF restore_session, Goto
  <2>2. \A d \in Conns \ {c} : agent[d] = a /\ Live(d) => {at[c], want[c]} \subseteq crossed'
    BY <2>1 DEF Live
  <2> QED BY <2>1, <2>2 DEF TypeOK, TypeConn, TypeTables, tables
<1>2. /\ Moving(c) = {at[c], want[c]}
      /\ W = at[c] \/ (W \in crossed /\ {at[c], want[c]} \subseteq crossed)
      /\ at[c] \in crossed => want[c] \in crossed
  <2>1. Moving(c) = {at[c], want[c]}
    BY <1>1 DEF Moving, Resuming
  <2>2. at[c] \in crossed => want[c] \in crossed
    BY <2>1 DEF MoveInv
  <2>3. Fits(a, at[c])
    BY <1>1 DEF WorksInv, AgentOf, Live, Loads
  <2> QED BY <2>1, <2>2, <2>3 DEF Fits, Clean
<1> HIDE DEF a
<1>3. AgentOf(c)'
  BY <1>1 DEF AgentOf, Live, Loads, Fits, Attaching
<1>4. ASSUME NEW d \in Conns \ {c} PROVE AgentOf(d)'
  <2>0. /\ Same(d) /\ AgentOf(d) /\ agent[d] \in Conns
        /\ pc[d] \in Attaching => found[d] \in Conns /\ want[d] \in Moving(d)
        /\ pc[d] = "wait" => found[d] \in Conns /\ at[d] \in Moving(d)
    BY <1>0, <1>4 DEF WorksInv, TypeOK, TypeConn, Attaching, Moving, Resuming, Leaving
  <2>1. ASSUME Live(d) PROVE Fits(agent[d], Loads(d))'
    <3>1. Fits(agent[d], Loads(d)) /\ Loads(d)' = Loads(d) /\ agent'[d] = agent[d]
      BY <2>0, <2>1 DEF AgentOf, Loads, Same
    <3>2. CASE agent[d] # a
      BY <1>0, <1>1, <2>0, <3>1, <3>2 DEF Fits, Clean
    <3>3. CASE agent[d] = a
      <4>1. Loads(d) \in crossed' /\ want[c] \in crossed'
        BY <1>0, <1>1, <1>2, <2>1, <3>1, <3>3 DEF Fits, Clean
      <4> QED BY <1>1, <3>1, <3>3, <4>1 DEF Fits, Clean
    <3> QED BY <3>2, <3>3
  <2>2. ASSUME NEW s \in Moving(d), found[d] \in Conns, Fits(found[d], s)
        PROVE  works'[found[d]] = s \/ (s \in crossed' /\ works'[found[d]] \in crossed')
    <3>1. CASE found[d] # a
      BY <1>0, <1>1, <2>2, <3>1 DEF Fits, Clean
    <3>2. CASE found[d] = a
      <4>1. s = at[c] => {s, want[c]} \subseteq crossed
        BY <1>2, <1>4 DEF MoveInv
      <4> QED BY <1>0, <1>1, <1>2, <2>2, <3>2, <4>1 DEF Fits, Clean
    <3> QED BY <3>1, <3>2
  <2>3. pc[d] \in Attaching => Fits(found[d], want[d])'
    BY <2>0, <2>2 DEF AgentOf, Same, Fits, Clean
  <2>4. pc[d] = "wait" => Fits(found[d], at[d])'
    BY <2>0, <2>2 DEF AgentOf, Same, Fits, Clean
  <2> QED BY <2>0, <2>1, <2>3, <2>4 DEF AgentOf, Same, Live
<1>5. ASSUME NEW s \in SessionIds, sessions'[s] # None
      PROVE  Fits(sessions[s], s)' \/ \E e \in Conns : Loading(e, s)'
  <2>1. sessions'[s] = sessions[s] /\ sessions[s] \in Conns
    BY <1>1, <1>5 DEF TypeOK, TypeTables
  <2>2. ASSUME NEW e \in Conns, Loading(e, s) PROVE Loading(e, s)'
    <3>1. e # c /\ Same(e) /\ AgentOf(e)'
      BY <1>0, <1>1, <1>4, <2>2 DEF Loading
    <3> QED BY <2>1, <2>2, <3>1 DEF Loading, AgentOf, Same, Live, Loads
  <2>3. CASE Fits(sessions[s], s) /\ sessions[s] # a
    BY <1>0, <1>1, <2>1, <2>3 DEF Fits, Clean
  <2>4. CASE Fits(sessions[s], s) /\ sessions[s] = a /\ s = at[c]
    <3>1. Loading(c, s)'
      BY <1>1, <2>1, <2>4 DEF Loading, Fits
    <3> QED BY <3>1
  <2>5. CASE Fits(sessions[s], s) /\ sessions[s] = a /\ s # at[c]
    <3>1. s \in crossed' /\ want[c] \in crossed'
      BY <1>0, <1>2, <2>5 DEF Fits, Clean
    <3> QED BY <1>1, <2>1, <2>5, <3>1 DEF Fits, Clean
  <2> QED BY <1>5, <2>1, <2>2, <2>3, <2>4, <2>5 DEF WorksInv
<1> QED BY <1>3, <1>4, <1>5 DEF WorksInv

(* InsertSession: what the session that is resumed gets is an agent that   *)
(* has it loaded.                                                          *)
LEMMA WorksInsert ==
    ASSUME TypeOK, WorksInv, NEW c \in Conns, Acts(c), InsertSession(c)
    PROVE  WorksInv'
<1>0. /\ crossed \subseteq crossed' /\ \A d \in Conns \ {c} : Same(d)
  BY DEF Acts
<1>1. /\ pc[c] = "insert" /\ pc'[c] = "rename" /\ works' = works
      /\ at'[c] = at[c] /\ agent'[c] = agent[c] /\ want'[c] = want[c] /\ Fits(agent[c], want[c])
      /\ \A s \in SessionIds : \/ s = want[c] /\ sessions'[s] = agent[c]
                               \/ s = at[c] /\ sessions'[s] = None
                               \/ s # at[c] /\ sessions'[s] = sessions[s]
  BY DEF InsertSession, Goto, TypeOK, TypeConn, TypeTables, agents, WorksInv, AgentOf, Live, Loads
<1>2. AgentOf(c)'
  BY <1>0, <1>1 DEF AgentOf, Live, Loads, Fits, Clean, Attaching
<1>3. ASSUME NEW d \in Conns \ {c} PROVE AgentOf(d)'
  BY <1>0, <1>1, <1>3 DEF WorksInv, AgentOf, Live, Loads, Fits, Clean, Same
<1>4. ASSUME NEW s \in SessionIds, sessions'[s] # None
      PROVE  Fits(sessions[s], s)' \/ \E e \in Conns : Loading(e, s)'
  <2>1. CASE s = want[c] /\ sessions'[s] = agent[c]
    BY <1>0, <1>1, <2>1 DEF Fits, Clean
  <2>2. CASE s # at[c] /\ sessions'[s] = sessions[s]
    <3>1. CASE Fits(sessions[s], s)
      BY <1>0, <1>1, <2>2, <3>1 DEF Fits, Clean
    <3>2. ASSUME NEW e \in Conns, Loading(e, s) PROVE Loading(e, s)'
      BY <1>0, <1>1, <2>2, <3>2 DEF Loading, Fits, Clean, Same
    <3> QED BY <1>4, <2>2, <3>1, <3>2 DEF WorksInv
  <2> QED BY <1>1, <1>4, <2>1, <2>2
<1> QED BY <1>2, <1>3, <1>4 DEF WorksInv

(* Lookup and RemoveSession: the agent that is found has the session       *)
(* loaded, or another connection hands the session over too.               *)
LEMMA AgentFound ==
    ASSUME TypeOK, MoveInv, WorksInv, NEW c \in Conns, pc[c] # "insert", NEW s \in Moving(c),
           sessions[s] # None
    PROVE  Fits(sessions[s], s)
<1>1. s \in SessionIds
  BY MovingType
<1>2. ASSUME NEW e \in Conns, Loading(e, s) PROVE Fits(sessions[s], s)
  <2>1. e # c /\ Moving(e) = {at[e], want[e]} /\ at[e] = s
    BY <1>2 DEF Loading, Moving, Resuming
  <2>2. want[e] \in crossed /\ s \in crossed
    BY <1>1, <2>1 DEF MoveInv
  <2> QED BY <1>2, <2>2 DEF Loading, Fits, Clean
<1> QED BY <1>1, <1>2 DEF WorksInv

(* The agents, at every step of a connection. *)
LEMMA WorksStep ==
    ASSUME TypeOK, MoveInv, WorksInv, NEW c \in Conns, Acts(c), ConnStep(c)
    PROVE  WorksInv'
<1>a. ASSUME pc[c] # "insert", works' = works, AgentOf(c)',
             \A s \in SessionIds : sessions'[s] \in {sessions[s], None}
      PROVE  WorksInv'
  BY <1>a, WorksActs
<1>b. AgentOf(c) /\ crossed \subseteq crossed' /\ agent[c] \in Conns
  BY DEF WorksInv, Acts, TypeOK, TypeConn
<1> USE <1>a, <1>b DEF TypeOK, TypeConn, TypeTables, Resuming, Leaving, Attaching, Goto, conn,
                       tables, agents, disk, history, AgentOf, Live, Loads, Fits, Clean
<1>1. CASE StartTurn(c)
  BY <1>1 DEF StartTurn
<1>2. CASE Disconnect(c)
  BY <1>2 DEF Disconnect
<1>3. CASE Lookup(c)
  <2>1. sessions[want[c]] # None => Fits(sessions[want[c]], want[c])
    <3>1. pc[c] = "resume" /\ want[c] \in Moving(c)
      BY <1>3 DEF Lookup, Moving
    <3> HIDE DEF Fits
    <3> QED BY <3>1, AgentFound
  <2> QED BY <1>3, <2>1 DEF Lookup
<1>4. CASE FindRival(c)
  BY <1>4 DEF FindRival
<1>5. CASE OthersLeft(c)
  BY <1>5 DEF OthersLeft
<1>6. CASE LeaveSession(c)
  BY <1>6 DEF LeaveSession
<1>7. CASE LeaveAgent(c)
  BY <1>7 DEF LeaveAgent
<1>8. CASE LeaveQueue(c)
  BY <1>8 DEF LeaveQueue
<1>9. CASE TakeOver(c)
  BY <1>9 DEF TakeOver
<1>10. CASE Attach(c)
  BY <1>10 DEF Attach
<1>11. CASE Refresh(c)
  BY <1>11 DEF Refresh
<1>12. CASE Claim(c)
  BY <1>12 DEF Claim
<1>13. CASE Close(c)
  BY <1>13 DEF Close
<1>14. CASE restore_session(c)
  <2>1. CASE works' # works
    BY <1>14, <2>1, WorksRestore
  <2>2. CASE works' = works
    <3>1. CASE pc'[c] = "refresh"
      BY <1>14, <2>2, <3>1 DEF restore_session
    <3>2. CASE pc'[c] # "refresh"
      <4>1. works[agent[c]] = want[c] /\ pc'[c] = "insert"
        BY <1>14, <2>2, <3>2 DEF restore_session
      <4> QED BY <1>14, <2>2, <4>1 DEF restore_session
    <3> QED BY <3>1, <3>2
  <2> QED BY <2>1, <2>2
<1>15. CASE InsertSession(c)
  BY <1>15, WorksInsert
<1>16. CASE rename_session_interrupt_queue(c)
  BY <1>16 DEF rename_session_interrupt_queue
<1>17. CASE MoveConnection(c)
  BY <1>17 DEF MoveConnection
<1>18. CASE session_has_live_successor(c)
  BY <1>18 DEF session_has_live_successor
<1>19. CASE RemoveSession(c)
  <2>1. sessions[at[c]] # None => Fits(sessions[at[c]], at[c])
    <3>1. pc[c] = "remove" /\ at[c] \in Moving(c)
      BY <1>19 DEF RemoveSession, Moving
    <3> HIDE DEF Fits
    <3> QED BY <3>1, AgentFound
  <2> QED BY <1>19, <2>1 DEF RemoveSession
<1>20. CASE CloseAgent(c)
  BY <1>20 DEF CloseAgent
<1>21. CASE Unregister(c)
  BY <1>21 DEF Unregister
<1>22. ASSUME NEW s \in Known, Resume(c, s) PROVE WorksInv'
  BY <1>22 DEF Resume
<1> QED BY <1>1, <1>2, <1>3, <1>4, <1>5, <1>6, <1>7, <1>8, <1>9, <1>10, <1>11, <1>12, <1>13,
           <1>14, <1>15, <1>16, <1>17, <1>18, <1>19, <1>20, <1>21, <1>22
        DEF ConnStep, ResumeStep, CleanupStep

(* A hand-over that is not noted is noted in no part, and no other one     *)
(* meets it.                                                               *)
LEMMA CleanMove ==
    ASSUME MoveInv, NEW c \in Conns, NEW s \in Moving(c), Clean(s)
    PROVE  /\ \A r \in Moving(c) : Clean(r)
           /\ \A d \in Conns \ {c} : Moving(d) \cap Moving(c) = {}
BY DEF MoveInv, Clean

(* A step of c leaves alone what the tables say of the sessions that       *)
(* another connection hands over, and of the one that another connection   *)
(* is attached to, unless it changes the entry of that session.            *)
LEMMA SessFrame ==
    ASSUME TypeOK, MoveInv, ConnInv, SessInv, NEW c \in Conns, Acts(c), NEW d \in Conns \ {c},
           pc[d] = "idle" /\ connections[d] = at[d] /\ Clean(at[d]) =>
               sessions'[at[d]] = sessions[at[d]] /\ registry'[at[d]] = registry[at[d]]
    PROVE  SessOf(d)'
<1>0. /\ Same(d) /\ connections'[d] \in {connections[d], None} /\ crossed \subseteq crossed'
      /\ SessOf(d) /\ ConnOf(d) /\ at[d] \in SessionIds
  BY DEF Acts, SessInv, ConnInv, TypeOK, TypeConn
<1>1. SUFFICES ASSUME Clean(at[d])' PROVE SessOf(d)'
  BY DEF SessOf
<1>2. Clean(at[d])
  BY <1>0, <1>1 DEF Clean, Same
<1>3. CASE pc[d] = "idle"
  BY <1>0, <1>2, <1>3 DEF SessOf, ConnOf, Same, LiveIn, Settled, Attaching
<1>4. CASE pc[d] \in Resuming \cup Leaving
  <2>1. at[d] \in Moving(d) /\ (pc[d] \in Resuming => want[d] \in Moving(d) /\ want[d] \in SessionIds)
    BY <1>4 DEF Moving, Resuming, Leaving, TypeOK, TypeConn
  <2>2. Moving(d) \cap Moving(c) = {}
    BY <1>2, <2>1, CleanMove DEF Acts
  <2>3. /\ sessions'[at[d]] = sessions[at[d]] /\ registry'[at[d]] = registry[at[d]]
        /\ pc[d] \in Resuming => /\ sessions'[want[d]] = sessions[want[d]]
                                 /\ registry'[want[d]] = registry[want[d]]
    BY <1>0, <2>1, <2>2 DEF Acts
  <2>4. ASSUME NEW e \in Conns, connections'[e] \in Moving(d) PROVE connections[e] = connections'[e]
    <3>1. None \notin Moving(d)
      BY <1>0, <2>1, NamesAssumption DEF Moving, SessionIds
    <3> QED BY <2>2, <2>4, <3>1 DEF Acts
  <2>5. ASSUME Attached(at[d]) \subseteq {d} PROVE Attached(at[d])' \subseteq {d}
    BY <1>0, <2>1, <2>4, <2>5 DEF Attached, Same
  <2>6. ASSUME pc[d] \in {"insert", "rename", "move"},
               \A e \in Conns \ {d} : connections[e] \in {at[d], want[d]} => pc[e] = "gone"
        PROVE  \A e \in Conns \ {d} : connections'[e] \in {at[d], want[d]} => pc'[e] = "gone"
    <3>1. {at[d], want[d]} \subseteq Moving(d)
      BY <2>1, <2>6 DEF Resuming
    <3>2. \A e \in Conns \ {d} : connections'[e] \in {at[d], want[d]} => pc[e] = "gone"
      BY <2>4, <2>6, <3>1
    <3> QED BY <3>2 DEF Acts, Same
  <2>7. /\ pc'[d] = pc[d] /\ at'[d] = at[d] /\ want'[d] = want[d]
        /\ agent'[d] = agent[d] /\ found'[d] = found[d]
    BY <1>0 DEF Same
  <2>8. /\ (pc'[d] = "idle" /\ connections'[d] # None) \/ pc'[d] \in Settled =>
              LiveIn(at[d], agent[d])'
        /\ pc'[d] = "rename" => /\ registry'[at'[d]] = agent'[d] /\ sessions'[want'[d]] = agent'[d]
                                /\ at'[d] = want'[d] \/ sessions'[at'[d]] = None
        /\ pc'[d] = "move" => LiveIn(want[d], agent[d])'
        /\ pc'[d] \in Attaching => LiveIn(want[d], found[d])'
        /\ pc'[d] \in {"claim", "close", "restore"} => sessions'[want'[d]] \in {None, agent'[d]}
        /\ pc'[d] \in {"leave_agent", "leave_queue", "wait", "unregister"} => sessions'[at'[d]] = None
    BY <1>0, <1>2, <1>4, <2>3, <2>7
       DEF SessOf, LiveIn, Settled, Attaching, Resuming, Leaving
  <2>9. /\ pc'[d] \in {"leave_session", "leave_agent", "leave_queue", "remove", "wait", "unregister"} =>
              Attached(at[d])' \subseteq {d}
        /\ pc'[d] \in {"insert", "rename", "move"} =>
              \A e \in Conns \ {d} : connections'[e] \in {at'[d], want'[d]} => pc'[e] = "gone"
    BY <1>0, <1>2, <2>5, <2>6, <2>7 DEF SessOf
  <2> QED BY <2>8, <2>9 DEF SessOf
<1>5. CASE pc[d] \notin {"idle"} \cup Resuming \cup Leaving
  BY <1>0, <1>5 DEF SessOf, Same, Settled, Attaching, Resuming, Leaving
<1> QED BY <1>3, <1>4, <1>5

(* No step of c changes the entries of a session that another connection   *)
(* is attached to: it has looked for others before it removes a session,   *)
(* and has found none when it loads one.                                   *)
LEMMA SessApart ==
    ASSUME TypeOK, MoveInv, SessInv, NEW c \in Conns, Acts(c), ConnStep(c),
           NEW d \in Conns \ {c}, pc[d] = "idle", connections[d] = at[d], Clean(at[d])
    PROVE  sessions'[at[d]] = sessions[at[d]] /\ registry'[at[d]] = registry[at[d]]
<1> DEFINE Kept == sessions'[at[d]] = sessions[at[d]] /\ registry'[at[d]] = registry[at[d]]
<1>0. at[d] \in SessionIds /\ SessOf(c)
  BY DEF TypeOK, TypeConn, SessInv
<1>a. CASE at[d] \notin Moving(c)
  BY <1>0, <1>a DEF Acts
<1>b. SUFFICES ASSUME at[d] \in Moving(c) PROVE Kept
  BY <1>a
<1>c. Clean(at[c])
  BY <1>b, CleanMove DEF Moving
<1>d. CASE pc[c] \in {"leave_session", "leave_queue", "remove", "unregister"}
  <2>1. at[d] # at[c]
    BY <1>0, <1>c, <1>d DEF SessOf, Attached
  <2> QED BY <1>0, <1>d, <2>1
          DEF ConnStep, ResumeStep, CleanupStep, StartTurn, Disconnect, Resume, Lookup, FindRival,
              OthersLeft, LeaveSession, LeaveAgent, LeaveQueue, TakeOver, Attach, Refresh, Claim,
              Close, restore_session, InsertSession, rename_session_interrupt_queue,
              MoveConnection, session_has_live_successor, RemoveSession, CloseAgent, Unregister,
              TypeOK, TypeTables, tables
<1>e. CASE pc[c] \in {"insert", "rename"}
  BY <1>0, <1>b, <1>c, <1>e DEF SessOf, Moving, Resuming
<1>f. CASE pc[c] \notin {"leave_session", "leave_queue", "remove", "unregister", "insert", "rename"}
  BY <1>f
     DEF ConnStep, ResumeStep, CleanupStep, StartTurn, Disconnect, Resume, Lookup, FindRival,
         OthersLeft, LeaveSession, LeaveAgent, LeaveQueue, TakeOver, Attach, Refresh, Claim,
         Close, restore_session, InsertSession, rename_session_interrupt_queue,
         MoveConnection, session_has_live_successor, RemoveSession, CloseAgent, Unregister,
         tables
<1> QED BY <1>d, <1>e, <1>f

(* restore_session: nobody else is attached to the two sessions, unless    *)
(* the hand-over is noted.                                                 *)
LEMMA RestoreAlone ==
    ASSUME TypeOK, OffInv, MoveInv, ConnInv, SessInv, NEW c \in Conns, pc[c] = "restore",
           Clean(at[c]), NEW d \in Conns \ {c}, pc[d] # "gone",
           connections[d] \in {at[c], want[c]}
    PROVE  agent[d] = agent[c] /\ Live(d)
<1>1. /\ at[c] \in Moving(c) /\ want[c] \in Moving(c) /\ at[c] \in SessionIds /\ want[c] \in SessionIds
      /\ None \notin SessionIds /\ agent[d] \in Conns /\ None \notin Conns
  BY NamesAssumption DEF Moving, Resuming, TypeOK, TypeConn, SessionIds
<1>2. connections[d] = at[d] /\ connections[d] # None
  BY <1>1 DEF ConnInv, ConnOf
<1>3. pc[d] # "off"
  BY <1>2 DEF OffInv
<1>4. pc[d] \notin Resuming \cup Leaving
  <2>1. pc[d] \in Resuming \cup Leaving => at[d] \in Moving(d)
    BY DEF Moving
  <2> QED BY <1>1, <1>2, <2>1, CleanMove
<1>5. pc[d] = "idle"
  BY <1>3, <1>4 DEF TypeOK, TypeConn, PCs
<1>6. Clean(at[d])
  BY <1>1, <1>2, CleanMove
<1>7. sessions[at[d]] = agent[d]
  BY <1>2, <1>5, <1>6 DEF SessInv, SessOf, LiveIn
<1>8. sessions[at[c]] = agent[c] /\ sessions[want[c]] \in {None, agent[c]}
  BY DEF SessInv, SessOf, LiveIn, Settled
<1> QED BY <1>1, <1>2, <1>5, <1>7, <1>8 DEF Live

(* What the tables say of the sessions that c itself hands over, step by   *)
(* step.                                                                   *)
LEMMA SessOwn ==
    ASSUME TypeOK, OffInv, MoveInv, ConnInv, WorksInv, SessInv, NEW c \in Conns, Acts(c), ConnStep(c)
    PROVE  SessOf(c)'
<1>0. /\ SessOf(c) /\ AgentOf(c) /\ crossed \subseteq crossed'
      /\ at[c] \in SessionIds /\ agent[c] \in Conns /\ None \notin Conns
  BY NamesAssumption DEF SessInv, WorksInv, Acts, TypeOK, TypeConn
<1>r. pc[c] \in Resuming => want[c] \in SessionIds /\ (Clean(at[c]) <=> Clean(want[c]))
  <2>1. pc[c] \in Resuming => Moving(c) = {at[c], want[c]} /\ want[c] \in SessionIds
    BY DEF Moving, TypeOK, TypeConn
  <2> QED BY <2>1, CleanMove
<1> USE <1>0, <1>r DEF TypeOK, TypeConn, TypeTables, Resuming, Leaving, Attaching, Settled, LiveIn, Goto,
                 conn, tables, history, SessOf, Clean
<1>1. CASE StartTurn(c)
  BY <1>1 DEF StartTurn
<1>2. CASE Disconnect(c)
  BY <1>2 DEF Disconnect
<1>3. CASE Lookup(c)
  <2>1. ASSUME sessions[want[c]] # None, Clean(at[c]) PROVE registry[want[c]] = sessions[want[c]]
    <3>1. want[c] \in Moving(c) /\ want[c] \in SessionIds /\ Clean(want[c])
      BY <1>3, <2>1 DEF Lookup, Moving
    <3>2. ASSUME NEW e \in Conns, pc[e] = "rename", want[e] = want[c] PROVE FALSE
      <4>1. e # c /\ want[e] \in Moving(e)
        BY <1>3, <3>2 DEF Lookup, Moving
      <4> QED BY <3>1, <3>2, <4>1, CleanMove
    <3> QED BY <2>1, <3>1, <3>2 DEF SessInv, RegInv
  <2> QED BY <1>3, <2>1 DEF Lookup
<1>4. CASE FindRival(c)
  BY <1>4 DEF FindRival
<1>5. CASE OthersLeft(c)
  BY <1>5 DEF OthersLeft, Attached
<1>6. CASE LeaveSession(c)
  BY <1>6 DEF LeaveSession, AgentOf, Attached
<1>7. CASE LeaveAgent(c)
  BY <1>7 DEF LeaveAgent, Attached
<1>8. CASE LeaveQueue(c)
  BY <1>8 DEF LeaveQueue
<1>9. CASE TakeOver(c)
  BY <1>9 DEF TakeOver
<1>10. CASE Attach(c)
  BY <1>10 DEF Attach
<1>11. CASE Refresh(c)
  BY <1>11 DEF Refresh
<1>12. CASE Claim(c)
  BY <1>12 DEF Claim
<1>13. CASE Close(c)
  BY <1>13 DEF Close
<1>14. CASE restore_session(c)
  <2>1. CASE pc' = [pc EXCEPT ![c] = "refresh"]
    BY <1>14, <2>1 DEF restore_session
  <2>2. CASE pc' = [pc EXCEPT ![c] = "insert"]
    <3>1. ASSUME Clean(at[c])', NEW d \in Conns \ {c}, connections'[d] \in {at'[c], want'[c]}
          PROVE  pc'[d] = "gone"
      <4>1. /\ pc[c] = "restore" /\ UNCHANGED <<at, agent, want, connections>>
            /\ (\E e \in Conns \ {c} : agent[e] = agent[c] /\ Live(e)) => at[c] \in crossed'
        BY <1>14, <2>2 DEF restore_session, Live
      <4>2. SUFFICES ASSUME pc[d] # "gone" PROVE FALSE
        BY <2>2
      <4>3. agent[d] = agent[c] /\ Live(d)
        BY <3>1, <4>1, <4>2, RestoreAlone
      <4> QED BY <3>1, <4>1, <4>3
    <3> QED BY <1>14, <2>2, <3>1 DEF restore_session
  <2> QED BY <1>14, <2>1, <2>2 DEF restore_session
<1>15. CASE InsertSession(c)
  BY <1>15 DEF InsertSession
<1>16. CASE rename_session_interrupt_queue(c)
  BY <1>16 DEF rename_session_interrupt_queue
<1>17. CASE MoveConnection(c)
  BY <1>17 DEF MoveConnection
<1>18. CASE session_has_live_successor(c)
  BY <1>18 DEF session_has_live_successor, Attached
<1>19. CASE RemoveSession(c)
  BY <1>19 DEF RemoveSession, Attached
<1>20. CASE CloseAgent(c)
  BY <1>20 DEF CloseAgent, Attached
<1>21. CASE Unregister(c)
  BY <1>21 DEF Unregister
<1>22. ASSUME NEW s \in Known, Resume(c, s) PROVE SessOf(c)'
  BY <1>22 DEF Resume, Begin
<1> QED BY <1>1, <1>2, <1>3, <1>4, <1>5, <1>6, <1>7, <1>8, <1>9, <1>10, <1>11, <1>12, <1>13,
           <1>14, <1>15, <1>16, <1>17, <1>18, <1>19, <1>20, <1>21, <1>22
        DEF ConnStep, ResumeStep, CleanupStep

(* The queue that is registered for a session is the one of its agent, at  *)
(* every step of a connection.                                             *)
LEMMA RegStep ==
    ASSUME TypeOK, MoveInv, SessInv, NEW c \in Conns, Acts(c), ConnStep(c)
    PROVE  RegInv'
<1>0. /\ SessOf(c) /\ RegInv /\ crossed \subseteq crossed' /\ \A d \in Conns \ {c} : Same(d)
      /\ at[c] \in SessionIds /\ agent[c] \in Conns /\ None \notin Conns
  BY NamesAssumption DEF SessInv, Acts, TypeOK, TypeConn
<1>a. ASSUME pc[c] # "rename",
             \A s \in SessionIds : \/ sessions'[s] = None \/ s \in crossed
                                   \/ sessions'[s] = sessions[s] /\ registry'[s] = registry[s]
                                   \/ pc'[c] = "rename" /\ want'[c] = s
      PROVE  RegInv'
  <2> SUFFICES ASSUME NEW s \in SessionIds, Clean(s)', sessions'[s] # None
               PROVE  registry'[s] = sessions'[s] \/ \E e \in Conns : pc'[e] = "rename" /\ want'[e] = s
    BY DEF RegInv
  <2>1. Clean(s)
    BY <1>0 DEF Clean
  <2>2. CASE sessions'[s] = sessions[s] /\ registry'[s] = registry[s]
    <3>1. ASSUME NEW e \in Conns, pc[e] = "rename", want[e] = s
          PROVE  pc'[e] = "rename" /\ want'[e] = s
      BY <1>0, <1>a, <3>1 DEF Same
    <3> QED BY <1>0, <2>1, <2>2, <3>1 DEF RegInv
  <2> QED BY <1>a, <2>1, <2>2 DEF Clean
<1>b. CASE pc[c] \notin {"leave_session", "leave_queue", "insert", "rename", "remove", "unregister"}
  <2>1. sessions' = sessions /\ registry' = registry
    BY <1>b
       DEF ConnStep, ResumeStep, CleanupStep, StartTurn, Disconnect, Resume, Lookup, FindRival,
           OthersLeft, LeaveSession, LeaveAgent, LeaveQueue, TakeOver, Attach, Refresh, Claim,
           Close, restore_session, InsertSession, rename_session_interrupt_queue,
           MoveConnection, session_has_live_successor, RemoveSession, CloseAgent, Unregister,
           tables
  <2> QED BY <1>a, <1>b, <2>1
<1>1. CASE LeaveSession(c)
  BY <1>0, <1>1, <1>a DEF LeaveSession, TypeOK, TypeTables
<1>2. CASE LeaveQueue(c)
  <2>1. pc[c] = "leave_queue" /\ sessions' = sessions /\ registry' = [registry EXCEPT ![at[c]] = None]
    BY <1>2 DEF LeaveQueue
  <2>2. at[c] \in crossed \/ sessions[at[c]] = None
    BY <1>0, <2>1 DEF SessOf, Clean
  <2> QED BY <1>a, <2>1, <2>2 DEF TypeOK, TypeTables
<1>3. CASE InsertSession(c)
  BY <1>3, <1>a DEF InsertSession, Goto, TypeOK, TypeConn, TypeTables
<1>4. CASE RemoveSession(c)
  BY <1>4, <1>a DEF RemoveSession, TypeOK, TypeTables
<1>5. CASE Unregister(c)
  <2>1. pc[c] = "unregister" /\ sessions' = sessions /\ registry' = [registry EXCEPT ![at[c]] = None]
    BY <1>5 DEF Unregister
  <2>2. at[c] \in crossed \/ sessions[at[c]] = None
    BY <1>0, <2>1 DEF SessOf, Clean
  <2> QED BY <1>a, <2>1, <2>2 DEF TypeOK, TypeTables
<1>6. CASE rename_session_interrupt_queue(c)
  <2>1. /\ pc[c] = "rename" /\ sessions' = sessions /\ crossed' = crossed
        /\ registry' = IF registry[at[c]] = None THEN registry
                       ELSE [registry EXCEPT ![at[c]] = None, ![want[c]] = registry[at[c]]]
    BY <1>6 DEF rename_session_interrupt_queue, history
  <2>2. /\ Moving(c) = {at[c], want[c]} /\ want[c] \in SessionIds
        /\ registry \in [SessionIds -> Conns \cup {None}]
    BY <2>1 DEF Moving, Resuming, TypeOK, TypeConn, TypeTables
  <2> SUFFICES ASSUME NEW s \in SessionIds, Clean(s), sessions[s] # None
               PROVE  registry'[s] = sessions[s] \/ \E e \in Conns : pc'[e] = "rename" /\ want'[e] = s
    BY <2>1 DEF RegInv, Clean
  <2>3. CASE s \in Moving(c)
    <3>1. Clean(at[c])
      BY <2>2, <2>3, CleanMove
    <3>2. /\ registry[at[c]] = agent[c] /\ sessions[want[c]] = agent[c]
          /\ at[c] = want[c] \/ sessions[at[c]] = None
      BY <1>0, <2>1, <3>1 DEF SessOf
    <3>3. registry'[want[c]] = agent[c]
      BY <1>0, <2>1, <2>2, <3>2
    <3> QED BY <2>2, <2>3, <3>2, <3>3
  <2>4. CASE s \notin Moving(c)
    <3>1. registry'[s] = registry[s] /\ s # want[c]
      BY <2>1, <2>2, <2>4
    <3>2. ASSUME NEW e \in Conns, pc[e] = "rename", want[e] = s
          PROVE  pc'[e] = "rename" /\ want'[e] = s
      BY <1>0, <3>1, <3>2 DEF Same
    <3> QED BY <1>0, <3>1, <3>2 DEF RegInv
  <2> QED BY <2>3, <2>4
<1>7. \/ pc[c] \notin {"leave_session", "leave_queue", "insert", "rename", "remove", "unregister"}
      \/ LeaveSession(c) \/ LeaveQueue(c) \/ InsertSession(c) \/ RemoveSession(c) \/ Unregister(c)
      \/ rename_session_interrupt_queue(c)
  BY DEF ConnStep, ResumeStep, CleanupStep, StartTurn, Disconnect, Resume, Lookup, FindRival,
         OthersLeft, LeaveAgent, TakeOver, Attach, Refresh, Claim, Close, restore_session,
         MoveConnection, session_has_live_successor, CloseAgent
<1> QED BY <1>1, <1>2, <1>3, <1>4, <1>5, <1>6, <1>7, <1>b

(* Every step of a connection keeps the invariant. *)
LEMMA ConnKeeps == ASSUME TypeOK, Inv, NEW c \in Conns, ConnStep(c) PROVE Inv'
<1>1. /\ OffInv /\ MoveInv /\ ConnInv /\ WorksInv /\ SessInv /\ Acts(c) /\ Crosses(c)
  BY ActsStep, CrossesStep DEF Inv
<1>2. OffInv'
  BY <1>1, OffActs
<1>3. MoveInv'
  BY <1>1, MoveActs
<1>4. ConnInv'
  BY <1>1, ConnOwn, ConnActs
<1>5. WorksInv'
  BY <1>1, WorksStep
<1>6. SessOf(c)'
  BY <1>1, SessOwn
<1>7. ASSUME NEW d \in Conns \ {c} PROVE SessOf(d)'
  BY <1>1, <1>7, SessApart, SessFrame
<1>8. RegInv'
  BY <1>1, RegStep
<1> QED BY <1>2, <1>3, <1>4, <1>5, <1>6, <1>7, <1>8 DEF Inv, SessInv
-----------------------------------------------------------------------------
(* The other steps. *)

(* A new connection. *)
LEMMA ConnectKeeps == ASSUME TypeOK, Inv, NEW c \in Conns, Connect(c) PROVE Inv'
<1>1. /\ pc[c] = "off" /\ pc' = [pc EXCEPT ![c] = "idle"]
      /\ connections' = [connections EXCEPT ![c] = c] /\ sessions' = [sessions EXCEPT ![c] = c]
      /\ registry' = [registry EXCEPT ![c] = c]
      /\ at' = at /\ agent' = agent /\ want' = want /\ found' = found /\ rival' = rival
      /\ works' = works /\ npc' = npc /\ dest' = dest /\ held' = held /\ crossed' = crossed
  BY DEF Connect, Goto, agents, senders, history
<1>2. /\ at[c] = c /\ agent[c] = c /\ works[c] = c /\ connections[c] = None
      /\ \A d \in Conns \ {c} : at[d] # c /\ want[d] # c /\ agent[d] # c /\ found[d] # c
      /\ \A s \in SessionIds : sessions[s] # c
      /\ \A n \in Notes : dest[n] # c
      /\ c \in SessionIds /\ None \notin Conns
  BY <1>1, NamesAssumption DEF Inv, OffInv, SessionIds
<1>3. /\ \A d \in Conns : Moving(d)' = Moving(d)
  BY <1>1 DEF Moving, Resuming, Leaving, TypeOK, TypeConn
<1>t. /\ pc \in [Conns -> PCs] /\ connections \in [Conns -> SessionIds \cup {None}]
      /\ sessions \in [SessionIds -> Conns \cup {None}]
      /\ registry \in [SessionIds -> Conns \cup {None}] /\ at \in [Conns -> SessionIds]
      /\ \A n \in Notes : npc[n] = "register" => dest[n] \in SessionIds
  BY DEF TypeOK, TypeConn, TypeTables, TypeNotes
<1>4. OffInv'
  BY <1>1, <1>2, <1>t DEF Inv, OffInv
<1>5. MoveInv'
  <2>1. \A n \in Notes : npc[n] = "register" => sessions'[dest[n]] = sessions[dest[n]]
    BY <1>1, <1>2, <1>t
  <2> QED BY <1>1, <1>3, <2>1 DEF Inv, MoveInv, Clean
<1>6. ConnInv'
  BY <1>1, <1>2, <1>t DEF Inv, ConnInv, ConnOf, Resuming, Leaving, Rivals, Clean
<1>7. WorksInv'
  <2>1. ASSUME NEW d \in Conns PROVE AgentOf(d)'
    BY <1>1, <1>2, <1>t, <2>1 DEF Inv, WorksInv, AgentOf, Live, Loads, Fits, Clean, Attaching
  <2>2. ASSUME NEW s \in SessionIds, sessions'[s] # None
        PROVE  Fits(sessions[s], s)' \/ \E e \in Conns : Loading(e, s)'
    <3>1. CASE s = c
      BY <1>1, <1>2, <1>t, <3>1 DEF Fits
    <3>2. CASE s # c
      <4>1. sessions'[s] = sessions[s]
        BY <1>1, <1>t, <3>2
      <4>2. \A e \in Conns : Loading(e, s) => Loading(e, s)'
        BY <1>1, <1>t, <4>1 DEF Loading, Fits, Clean
      <4>3. Fits(sessions[s], s) => Fits(sessions[s], s)'
        BY <1>1, <4>1 DEF Fits, Clean
      <4> QED BY <2>2, <4>1, <4>2, <4>3 DEF Inv, WorksInv
    <3> QED BY <3>1, <3>2
  <2> QED BY <2>1, <2>2 DEF WorksInv
<1>8. SessOf(c)'
  BY <1>1, <1>2, <1>t DEF SessOf, LiveIn, Settled, Attaching
<1>9. ASSUME NEW d \in Conns \ {c} PROVE SessOf(d)'
  <2>1. /\ pc'[d] = pc[d] /\ connections'[d] = connections[d] /\ SessOf(d) /\ at[d] \in SessionIds
        /\ sessions'[at[d]] = sessions[at[d]] /\ registry'[at[d]] = registry[at[d]]
        /\ pc[d] \in Resuming => /\ sessions'[want[d]] = sessions[want[d]]
                                 /\ registry'[want[d]] = registry[want[d]]
    BY <1>1, <1>2, <1>9, <1>t DEF Inv, SessInv, TypeOK, TypeConn
  <2>2. Attached(at[d]) \subseteq {d} => Attached(at[d])' \subseteq {d}
    BY <1>1, <1>2, <1>9, <1>t DEF Attached
  <2>3. ASSUME \A e \in Conns \ {d} : connections[e] \in {at[d], want[d]} => pc[e] = "gone"
        PROVE  \A e \in Conns \ {d} : connections'[e] \in {at[d], want[d]} => pc'[e] = "gone"
    BY <1>1, <1>2, <1>9, <1>t, <2>3
  <2> QED BY <1>1, <2>1, <2>2, <2>3
          DEF SessOf, LiveIn, Settled, Attaching, Resuming, Clean
<1>10. RegInv'
  <2> SUFFICES ASSUME NEW s \in SessionIds, Clean(s)', sessions'[s] # None
               PROVE  registry'[s] = sessions'[s] \/ \E e \in Conns : pc'[e] = "rename" /\ want'[e] = s
    BY DEF RegInv
  <2>1. CASE s = c
    BY <1>1, <1>2, <1>t, <2>1
  <2>2. CASE s # c
    BY <1>1, <1>2, <1>t, <2>2 DEF Inv, SessInv, RegInv, Clean
  <2> QED BY <2>1, <2>2
<1> QED BY <1>4, <1>5, <1>6, <1>7, <1>8, <1>9, <1>10 DEF Inv, SessInv

(* A step that leaves the connections and the tables alone, and registers  *)
(* no queue.                                                               *)
Still ==
    /\ UNCHANGED <<conn, tables, works>> /\ crossed \subseteq crossed'
    /\ \A n \in Notes : dest'[n] = dest[n] \/ dest'[n] \in Known

(* What it keeps, whatever it notes. *)
LEMMA StillKeeps ==
    ASSUME TypeOK, Inv, Still PROVE OffInv' /\ ConnInv' /\ WorksInv' /\ SessInv'
<1>0. /\ pc' = pc /\ at' = at /\ agent' = agent /\ want' = want /\ found' = found /\ rival' = rival
      /\ connections' = connections /\ sessions' = sessions /\ registry' = registry
      /\ works' = works /\ crossed \subseteq crossed'
      /\ \A n \in Notes : dest'[n] = dest[n] \/ dest'[n] \in Known
  BY DEF Still, conn, tables
<1>1. OffInv'
  <2>1. \A c \in Conns : pc[c] = "off" => c \notin Known
    BY NamesAssumption DEF Known
  <2> QED BY <1>0, <2>1 DEF Inv, OffInv
<1>2. ConnInv'
  BY <1>0 DEF Inv, ConnInv, ConnOf, Clean
<1>3. WorksInv'
  <2>1. \A c \in Conns : AgentOf(c)'
    BY <1>0 DEF Inv, WorksInv, AgentOf, Live, Loads, Fits, Clean
  <2>2. \A s \in SessionIds : sessions'[s] # None =>
            Fits(sessions[s], s)' \/ \E c \in Conns : Loading(c, s)'
    BY <1>0 DEF Inv, WorksInv, Loading, Fits, Clean
  <2> QED BY <2>1, <2>2 DEF WorksInv
<1>4. ASSUME NEW c \in Conns PROVE SessOf(c)'
  <2>1. SessOf(c) /\ Attached(at[c])' = Attached(at[c])
    BY <1>0, <1>4 DEF Inv, SessInv, Attached
  <2> QED BY <1>0, <2>1 DEF SessOf, LiveIn, Clean
<1>5. RegInv'
  BY <1>0 DEF Inv, SessInv, RegInv, Clean
<1> QED BY <1>1, <1>2, <1>3, <1>4, <1>5 DEF SessInv

(* Turns, and the steps of a sender that do not find an agent. *)
LEMMA QuietKeeps ==
    ASSUME TypeOK, Inv, Still, crossed' = crossed,
           \A n \in Notes : npc'[n] = "register" =>
               npc[n] = "register" /\ dest'[n] = dest[n] /\ held'[n] = held[n]
    PROVE  Inv'
<1>1. \A c \in Conns : Moving(c)' = Moving(c)
  BY DEF Still, conn, Moving
<1>2. MoveInv'
  BY <1>1 DEF Still, tables, Inv, MoveInv, Clean
<1> QED BY <1>2, StillKeeps DEF Inv

(* FindAgent: the hand-overs of the session are noted. *)
LEMMA FindKeeps == ASSUME TypeOK, Inv, NEW n \in Notes, FindAgent(n) PROVE Inv'
<1>0. UNCHANGED <<conn, tables, works>> /\ dest' = dest /\ npc[n] = "agents" /\ crossed \subseteq crossed'
  BY DEF FindAgent, agents
<1>1. Still
  BY <1>0 DEF Still
<1>2. \A c \in Conns : Moving(c)' = Moving(c)
  BY <1>0 DEF conn, Moving
<1>t. npc \in [Notes -> NPCs] /\ held \in [Notes -> Conns \cup {None}] /\ dest[n] \in SessionIds
  BY <1>0 DEF TypeOK, TypeNotes
<1>3. CASE npc' = [npc EXCEPT ![n] = "file"] /\ held' = held /\ crossed' = crossed
  BY <1>0, <1>1, <1>3, <1>t, QuietKeeps
<1>4. CASE /\ npc' = [npc EXCEPT ![n] = "register"] /\ held' = [held EXCEPT ![n] = sessions[dest[n]]]
           /\ crossed' = crossed \cup UNION {Moving(c) : c \in {d \in Conns : dest[n] \in Moving(d)}}
  <2>1. ASSUME NEW c \in Conns, NEW d \in Conns, c # d, Moving(c) \cap Moving(d) # {}
        PROVE  Moving(c) \cup Moving(d) \subseteq crossed'
    BY <1>0, <2>1 DEF Inv, MoveInv
  <2>2. ASSUME NEW c \in Conns, Moving(c) \cap crossed' # {} PROVE Moving(c) \subseteq crossed'
    BY <1>4, <2>2 DEF Inv, MoveInv
  <2>3. ASSUME NEW m \in Notes, npc'[m] = "register", Clean(dest[m])'
        PROVE  sessions[dest[m]] = held'[m] /\ \A c \in Conns : dest[m] \notin Moving(c)
    <3>1. CASE m = n
      BY <1>0, <1>4, <1>t, <2>3, <3>1 DEF Clean
    <3>2. CASE m # n
      BY <1>0, <1>4, <1>t, <2>3, <3>2 DEF Clean, Inv, MoveInv
    <3> QED BY <3>1, <3>2
  <2>4. MoveInv'
    BY <1>0, <1>2, <2>1, <2>2, <2>3 DEF MoveInv, tables
  <2> QED BY <1>1, <2>4, StillKeeps DEF Inv
<1> QED BY <1>3, <1>4 DEF FindAgent, NGoto

(* register_session_interrupt_queue: the queue is the one of the agent of  *)
(* the session, unless the session is noted.                               *)
LEMMA RegisterKeeps ==
    ASSUME TypeOK, Inv, NEW n \in Notes, register_session_interrupt_queue(n) PROVE Inv'
<1>0. /\ pc' = pc /\ at' = at /\ agent' = agent /\ want' = want /\ found' = found /\ rival' = rival
      /\ connections' = connections /\ sessions' = sessions /\ works' = works
      /\ dest' = dest /\ held' = held /\ crossed' = crossed
      /\ npc[n] = "register" /\ npc' = [npc EXCEPT ![n] = "enqueue"]
      /\ registry' = [registry EXCEPT ![dest[n]] = held[n]]
  BY DEF register_session_interrupt_queue, NGoto, conn, agents, history
<1>t. /\ npc \in [Notes -> NPCs] /\ registry \in [SessionIds -> Conns \cup {None}]
      /\ dest[n] \in SessionIds
  BY <1>0 DEF TypeOK, TypeTables, TypeNotes
<1>1. \A c \in Conns : Moving(c)' = Moving(c)
  BY <1>0 DEF Moving
<1>2. Clean(dest[n]) => sessions[dest[n]] = held[n] /\ \A c \in Conns : dest[n] \notin Moving(c)
  BY <1>0 DEF Inv, MoveInv
<1>3. \A s \in SessionIds : registry'[s] = registry[s] \/ (s = dest[n] /\ registry'[s] = held[n])
  BY <1>0, <1>t
<1>4. OffInv'
  BY <1>0 DEF Inv, OffInv
<1>5. MoveInv'
  BY <1>0, <1>1, <1>t DEF Inv, MoveInv, Clean
<1>6. ConnInv'
  BY <1>0 DEF Inv, ConnInv, ConnOf, Clean
<1>7. WorksInv'
  <2>1. \A c \in Conns : AgentOf(c)'
    BY <1>0 DEF Inv, WorksInv, AgentOf, Live, Loads, Fits, Clean
  <2>2. \A s \in SessionIds : sessions'[s] # None =>
            Fits(sessions[s], s)' \/ \E c \in Conns : Loading(c, s)'
    BY <1>0 DEF Inv, WorksInv, Loading, Fits, Clean
  <2> QED BY <2>1, <2>2 DEF WorksInv
<1>8. ASSUME NEW c \in Conns, Clean(at[c])' PROVE SessOf(c)'
  <2>1. SessOf(c) /\ Attached(at[c])' = Attached(at[c]) /\ Clean(at[c]) /\ at[c] \in SessionIds
    BY <1>0, <1>8 DEF Inv, SessInv, Attached, Clean, TypeOK, TypeConn
  <2>2. sessions[at[c]] = agent[c] => (registry[at[c]] = agent[c] => registry'[at[c]] = agent[c])
    BY <1>2, <1>3, <2>1
  <2>3. CASE pc[c] \in Resuming
    <3>1. at[c] \in Moving(c) /\ want[c] \in Moving(c) /\ want[c] \in SessionIds
      BY <2>3 DEF Moving, TypeOK, TypeConn
    <3>2. Clean(want[c])
      BY <2>1, <3>1, CleanMove DEF Inv
    <3>3. registry'[at[c]] = registry[at[c]] /\ registry'[want[c]] = registry[want[c]]
      BY <1>2, <1>3, <2>1, <3>1, <3>2
    <3> QED BY <1>0, <2>1, <3>3 DEF SessOf, LiveIn, Clean
  <2>4. CASE pc[c] \notin Resuming
    BY <1>0, <2>1, <2>2, <2>4 DEF SessOf, LiveIn, Clean, Resuming, Attaching, Settled
  <2> QED BY <2>3, <2>4
<1>9. RegInv'
  BY <1>0, <1>2, <1>3 DEF Inv, SessInv, RegInv, Clean
<1>10. \A c \in Conns : SessOf(c)'
  BY <1>8 DEF SessOf
<1> QED BY <1>4, <1>5, <1>6, <1>7, <1>9, <1>10 DEF Inv, SessInv

(* Every step keeps the invariant. *)
LEMMA InvStep == TypeOK /\ Inv /\ [Next]_vars => Inv'
<1> SUFFICES ASSUME TypeOK, Inv, [Next]_vars PROVE Inv'
  OBVIOUS
<1>1. ASSUME NEW c \in Conns, Connect(c) PROVE Inv'
  BY <1>1, ConnectKeeps
<1>2. ASSUME NEW c \in Conns, ConnStep(c) PROVE Inv'
  BY <1>2, ConnKeeps
<1>3. ASSUME NEW a \in Conns, EndTurn(a) \/ inject_soft_interrupts(a) PROVE Inv'
  <2>1. Still /\ UNCHANGED <<crossed, npc, dest, held>>
    BY <1>3 DEF EndTurn, inject_soft_interrupts, Still, senders, history
  <2> QED BY <2>1, QuietKeeps
<1>4. ASSUME NEW n \in Notes, FindAgent(n) PROVE Inv'
  BY <1>4, FindKeeps
<1>5. ASSUME NEW n \in Notes, register_session_interrupt_queue(n) PROVE Inv'
  BY <1>5, RegisterKeeps
<1>6. ASSUME NEW n \in Notes, enqueue_soft_interrupt(n) \/ LoadFile(n) \/ OverwriteFile(n) PROVE Inv'
  <2>1. /\ Still /\ UNCHANGED <<crossed, dest, held>>
        /\ npc' \in {[npc EXCEPT ![n] = "done"], [npc EXCEPT ![n] = "refused"], [npc EXCEPT ![n] = "append"]}
    BY <1>6 DEF enqueue_soft_interrupt, LoadFile, OverwriteFile, NGoto, Still, agents, history
  <2>2. \A m \in Notes : npc'[m] = "register" => npc[m] = "register"
    BY <2>1 DEF TypeOK, TypeNotes
  <2> QED BY <2>1, <2>2, QuietKeeps
<1>7. ASSUME NEW n \in Notes, NEW s \in Known, SendNote(n, s) PROVE Inv'
  <2>1. /\ UNCHANGED <<conn, tables, works, crossed, held>> /\ dest' = [dest EXCEPT ![n] = s]
        /\ npc' \in {[npc EXCEPT ![n] = "done"], [npc EXCEPT ![n] = "agents"]}
    BY <1>7 DEF SendNote, NGoto
  <2>2. Still
    BY <2>1 DEF Still, TypeOK, TypeNotes
  <2>3. \A m \in Notes : npc'[m] = "register" => npc[m] = "register" /\ dest'[m] = dest[m]
    BY <2>1 DEF TypeOK, TypeNotes
  <2> QED BY <2>1, <2>2, <2>3, QuietKeeps
<1>8. CASE UNCHANGED vars
  <2>1. Still /\ UNCHANGED <<crossed, npc, dest, held>>
    BY <1>8 DEF vars, Still, agents, senders, history
  <2> QED BY <2>1, QuietKeeps
<1> QED BY <1>1, <1>2, <1>3, <1>4, <1>5, <1>6, <1>7, <1>8 DEF Next, SendStep, ConnStep

(* The types and the invariant hold at the start. *)
LEMMA InitHolds == Init => TypeOK /\ Inv
<1> SUFFICES ASSUME Init PROVE TypeOK /\ Inv
  OBVIOUS
<1> USE NamesAssumption DEF Init, SessionIds
<1>1. TypeOK
  BY DEF TypeOK, TypeConn, TypeTables, TypeNotes, PCs, NPCs, Resuming, Attaching
<1>2. \A c \in Conns : Moving(c) = {}
  BY DEF Moving, Resuming, Leaving
<1>3. OffInv
  BY DEF OffInv
<1>4. MoveInv
  BY <1>2 DEF MoveInv
<1>5. ConnInv
  BY DEF ConnInv, ConnOf, Leaving, Resuming, Rivals
<1>6. WorksInv
  BY DEF WorksInv, AgentOf, Live, Attaching
<1>7. SessInv
  BY DEF SessInv, SessOf, RegInv, Settled, Attaching
<1> QED BY <1>1, <1>3, <1>4, <1>5, <1>6, <1>7 DEF Inv

(* Every variable keeps its type: a connection that resumes a session      *)
(* knows which, one that attaches has found an agent, and a sender that    *)
(* registers a queue holds it.                                             *)
THEOREM TypeCorrect == Spec => []TypeOK
<1>1. Init => TypeOK
  BY InitHolds
<1> QED BY <1>1, TypeStep, PTL DEF Spec

(* The invariant, at every time. *)
LEMMA InvAlways == Spec => []Inv
<1>1. Init => Inv
  BY InitHolds
<1> QED BY <1>1, TypeCorrect, InvStep, PTL DEF Spec

(* A client that is attached talks to the one agent that has its session   *)
(* loaded, and the server knows that agent and its queue, as long as the   *)
(* hand-overs of the session do not overlap: for any number of             *)
(* connections, sessions, notes and requests (client_session.rs 748-1069,  *)
(* client_disconnect_cleanup.rs 88-254).                                   *)
THEOREM AttachedStaysLive == Spec => []AttachedIsLive
<1>1. Inv => AttachedIsLive
  BY DEF Inv, WorksInv, SessInv, SessOf, AgentOf, Live, Loads, Fits, Clean, LiveIn, AttachedIsLive
<1> QED BY <1>1, InvAlways, PTL

-----------------------------------------------------------------------------
(* The invariant behind NoteIsKept and NoteIsForSession. *)

AtRest(s) == \A c \in Conns : s \notin Moving(c)

(* The notes that the two properties speak of. *)
Tracked(n) == n \notin excused /\ Clean(dest[n])

(* A queue is registered only for a live session, and it is the one of its *)
(* agent.  A hand-over starts with that and ends with it.                  *)
Matched(s) == registry[s] \in {None, sessions[s]}

MatchOf(c) ==
    Clean(at[c]) =>
        /\ pc[c] \in {"resume", "claim", "close", "restore", "refresh"} => Matched(want[c])
        /\ pc[c] \in {"takeover", "attach", "check"} => Matched(at[c])
        /\ pc[c] = "move" => at[c] = want[c] \/ registry[at[c]] = None

MatchInv ==
    /\ \A s \in SessionIds : Clean(s) /\ AtRest(s) => Matched(s)
    /\ \A c \in Conns : MatchOf(c)

(* A sender that goes on to the file writes for a session that is not live *)
(* and not handed over; one that registers a queue has met a hand-over.    *)
SendInv ==
    \A n \in Notes :
        npc[n] \in {"agents", "register", "enqueue", "file", "append"} /\ Tracked(n) =>
            npc[n] \notin {"register", "enqueue"} /\ sessions[dest[n]] = None /\ AtRest(dest[n])

(* A note is only in queues of agents that have its session loaded, in the *)
(* file of its session, and given to the model in its session.             *)
PlaceInv ==
    /\ \A a \in Conns : \A n \in queue[a] : npc[n] # "new" /\ (Tracked(n) => works[a] = dest[n])
    /\ \A s \in SessionIds : \A n \in file[s] : npc[n] # "new" /\ (Tracked(n) => s = dest[n])
    /\ \A m \in Notes : npc[m] = "append" =>
          \A n \in loaded[m] : npc[n] # "new" /\ (Tracked(n) => dest[m] = dest[n])
    /\ \A g \in got : npc[g[1]] # "new" /\ (Tracked(g[1]) => g[2] = dest[g[1]])

(* The agent that will give the notes for session s to the model or write  *)
(* them to the file.                                                       *)
Owns(c, s, a) ==
    \/ at[c] = s /\ pc[c] = "leave_agent" /\ agent[c] = a
    \/ at[c] = s /\ pc[c] = "wait" /\ found[c] = a
    \/ want[c] = s /\ pc[c] = "insert" /\ agent[c] = a

Owner(s, a) == works[a] = s /\ (sessions[s] = a \/ \E c \in Conns : Owns(c, s, a))

(* A note that was accepted waits in the queue of that agent, or in the    *)
(* file when there is none.                                                *)
Given(n) == \E s \in SessionIds : <<n, s>> \in got

WaitsInv ==
    \A n \in Notes : npc[n] = "done" /\ Tracked(n) /\ ~Given(n) =>
        /\ \A a \in Conns : Owner(dest[n], a) => n \in queue[a]
        /\ (\A a \in Conns : ~Owner(dest[n], a)) => n \in file[dest[n]]

(* An agent that is about to be loaded with another session has saved its  *)
(* queue.                                                                  *)
SavedInv ==
    \A c \in Conns : pc[c] = "restore" /\ Clean(at[c]) =>
        \A n \in queue[agent[c]] : n \notin excused /\ dest[n] = at[c] => n \in file[at[c]]

NoteInv == MatchInv /\ SendInv /\ PlaceInv /\ WaitsInv /\ SavedInv

(* The history of the notes only grows, and only a sender changes how far  *)
(* it is.                                                                  *)
LEMMA HistoryStep ==
    ASSUME TypeOK, NEW c \in Conns, ConnStep(c)
    PROVE  excused \subseteq excused' /\ UNCHANGED <<senders, got>>
BY DEF ConnStep, ResumeStep, CleanupStep, StartTurn, Disconnect, Resume, Begin, Lookup, FindRival,
       OthersLeft, LeaveSession, LeaveAgent, LeaveQueue, TakeOver, Attach, Refresh, Claim,
       Close, restore_session, InsertSession, rename_session_interrupt_queue,
       MoveConnection, session_has_live_successor, RemoveSession, CloseAgent, Unregister, history

(* A hand-over that begins and is not noted finds its sessions at rest. *)
LEMMA BeginRests ==
    ASSUME NEW c \in Conns, NEW S, NEW s \in S, Moving(c) = {}, Begin(c, S), s \notin crossed'
    PROVE  AtRest(s) /\ Clean(s)
BY DEF Begin, AtRest, Clean

(* What c hands over matches at every step, and what it has handed over    *)
(* matches when it is done with it.                                        *)
LEMMA MatchOwn ==
    ASSUME TypeOK, MoveInv, SessInv, MatchInv, NEW c \in Conns, Acts(c), ConnStep(c)
    PROVE  /\ MatchOf(c)'
           /\ \A s \in Moving(c) \ Moving(c)' : s \notin crossed' => Matched(s)'
<1> DEFINE Ends == \A s \in Moving(c) \ Moving(c)' : s \notin crossed' => Matched(s)'
<1>0. /\ SessOf(c) /\ MatchOf(c) /\ crossed \subseteq crossed'
      /\ at[c] \in SessionIds /\ agent[c] \in Conns /\ None \notin Conns
  BY NamesAssumption DEF SessInv, MatchInv, Acts, TypeOK, TypeConn
<1>r. pc[c] \in Resuming => want[c] \in SessionIds /\ (Clean(at[c]) <=> Clean(want[c]))
  <2>1. pc[c] \in Resuming => Moving(c) = {at[c], want[c]} /\ want[c] \in SessionIds
    BY DEF Moving, TypeOK, TypeConn
  <2> QED BY <2>1, CleanMove
<1> USE <1>0, <1>r DEF TypeOK, TypeConn, TypeTables, Resuming, Leaving, Attaching, Settled, LiveIn, Goto,
                 conn, tables, history, SessOf, Clean, Moving, MatchOf, Matched
<1>1. CASE StartTurn(c)
  BY <1>1 DEF StartTurn
<1>2. CASE Disconnect(c)
  <2> HIDE DEF Moving, Clean, MatchOf, Matched, SessOf
  <2>1. /\ Moving(c) = {} /\ Begin(c, {at[c]}) /\ at'[c] = at[c] /\ pc'[c] = "check"
        /\ sessions' = sessions /\ registry' = registry
    BY <1>2 DEF Disconnect, Moving
  <2>2. at[c] \notin crossed' => Matched(at[c])
    BY <2>1, BeginRests DEF MatchInv
  <2> QED BY <2>1, <2>2 DEF MatchOf, Matched, Clean
<1>3. CASE Lookup(c)
  BY <1>3 DEF Lookup
<1>4. CASE FindRival(c)
  BY <1>4 DEF FindRival
<1>5. CASE OthersLeft(c)
  BY <1>5 DEF OthersLeft
<1>6. CASE LeaveSession(c)
  BY <1>6 DEF LeaveSession
<1>7. CASE LeaveAgent(c)
  BY <1>7 DEF LeaveAgent
<1>8. CASE LeaveQueue(c)
  BY <1>8 DEF LeaveQueue
<1>9. CASE TakeOver(c)
  BY <1>9 DEF TakeOver
<1>10. CASE Attach(c)
  <2>1. MatchOf(c)'
    BY <1>10 DEF Attach
  <2>2. Ends
    BY <1>10 DEF Attach
  <2> QED BY <2>1, <2>2
<1>11. CASE Refresh(c)
  <2>1. MatchOf(c)'
    BY <1>11 DEF Refresh
  <2>2. Ends
    BY <1>11 DEF Refresh
  <2> QED BY <2>1, <2>2
<1>12. CASE Claim(c)
  <2>1. MatchOf(c)'
    BY <1>12 DEF Claim
  <2>2. Ends
    BY <1>12 DEF Claim
  <2> QED BY <2>1, <2>2
<1>13. CASE Close(c)
  BY <1>13 DEF Close
<1>14. CASE restore_session(c)
  <2>1. MatchOf(c)'
    BY <1>14 DEF restore_session
  <2>2. Ends
    BY <1>14 DEF restore_session
  <2> QED BY <2>1, <2>2
<1>15. CASE InsertSession(c)
  BY <1>15 DEF InsertSession
<1>16. CASE rename_session_interrupt_queue(c)
  <2>1. MatchOf(c)'
    BY <1>16 DEF rename_session_interrupt_queue
  <2>2. Ends
    BY <1>16 DEF rename_session_interrupt_queue
  <2> QED BY <2>1, <2>2
<1>17. CASE MoveConnection(c)
  <2>1. MatchOf(c)'
    BY <1>17 DEF MoveConnection
  <2>2. Ends
    BY <1>17 DEF MoveConnection
  <2> QED BY <2>1, <2>2
<1>18. CASE session_has_live_successor(c)
  BY <1>18 DEF session_has_live_successor
<1>19. CASE RemoveSession(c)
  BY <1>19 DEF RemoveSession
<1>20. CASE CloseAgent(c)
  BY <1>20 DEF CloseAgent
<1>21. CASE Unregister(c)
  BY <1>21 DEF Unregister
<1>22. ASSUME NEW s \in Known, Resume(c, s) PROVE MatchOf(c)' /\ Ends
  <2> HIDE DEF Moving, Clean, MatchOf, Matched, SessOf
  <2>1. /\ Moving(c) = {} /\ Begin(c, {at[c], s}) /\ at'[c] = at[c] /\ pc'[c] = "resume"
        /\ sessions' = sessions /\ registry' = registry /\ want'[c] = s /\ s \in SessionIds
    BY <1>22 DEF Resume, Moving, Known, SessionIds
  <2>2. at[c] \notin crossed' => s \notin crossed'
    BY <2>1 DEF Begin
  <2>3. s \notin crossed' => Matched(s)
    BY <2>1, BeginRests DEF MatchInv
  <2> QED BY <2>1, <2>2, <2>3 DEF MatchOf, Matched, Clean
<1> QED BY <1>1, <1>2, <1>3, <1>4, <1>5, <1>6, <1>7, <1>8, <1>9, <1>10, <1>11, <1>12, <1>13,
           <1>14, <1>15, <1>16, <1>17, <1>18, <1>19, <1>20, <1>21, <1>22
        DEF ConnStep, ResumeStep, CleanupStep

(* The queues that are registered, at every step of a connection. *)
LEMMA MatchStep ==
    ASSUME TypeOK, MoveInv, SessInv, MatchInv, NEW c \in Conns, Acts(c), ConnStep(c)
    PROVE  MatchInv'
<1>0. /\ MatchOf(c)' /\ \A s \in Moving(c) \ Moving(c)' : s \notin crossed' => Matched(s)'
      /\ \A d \in Conns \ {c} : Moving(d)' = Moving(d)
      /\ crossed \subseteq crossed'
      /\ \A s \in SessionIds \ Moving(c) : sessions'[s] = sessions[s] /\ registry'[s] = registry[s]
  BY MatchOwn, MovingActs DEF Acts
<1>1. ASSUME NEW s \in SessionIds, Clean(s)', AtRest(s)' PROVE Matched(s)'
  <2>1. s \notin crossed' /\ Clean(s) /\ s \notin Moving(c)'
    BY <1>0, <1>1 DEF Clean, AtRest
  <2>2. CASE s \in Moving(c)
    BY <1>0, <2>1, <2>2
  <2>3. CASE s \notin Moving(c)
    <3>1. AtRest(s)
      BY <1>0, <1>1, <2>3 DEF AtRest
    <3> QED BY <1>0, <2>1, <2>3, <3>1 DEF MatchInv, Matched
  <2> QED BY <2>2, <2>3
<1>2. ASSUME NEW d \in Conns \ {c}, Clean(at[d])' PROVE MatchOf(d)'
  <2>1. Same(d) /\ Clean(at[d]) /\ MatchOf(d) /\ at[d] \in SessionIds
    BY <1>0, <1>2 DEF Acts, Same, Clean, MatchInv, TypeOK, TypeConn
  <2>2. CASE pc[d] \in Resuming \cup Leaving
    <3>1. at[d] \in Moving(d) /\ (pc[d] \in Resuming => want[d] \in Moving(d) /\ want[d] \in SessionIds)
      BY <2>2 DEF Moving, Resuming, Leaving, TypeOK, TypeConn
    <3>2. Moving(d) \cap Moving(c) = {}
      BY <1>2, <2>1, <3>1, CleanMove
    <3>3. /\ sessions'[at[d]] = sessions[at[d]] /\ registry'[at[d]] = registry[at[d]]
          /\ pc[d] \in Resuming => /\ sessions'[want[d]] = sessions[want[d]]
                                   /\ registry'[want[d]] = registry[want[d]]
      BY <1>0, <2>1, <3>1, <3>2
    <3> QED BY <2>1, <3>3 DEF MatchOf, Matched, Same, Resuming
  <2>3. CASE pc[d] \notin Resuming \cup Leaving
    BY <2>1, <2>3 DEF MatchOf, Same, Resuming, Leaving
  <2> QED BY <2>2, <2>3
<1>3. \A d \in Conns : MatchOf(d)'
  BY <1>0, <1>2 DEF MatchOf
<1> QED BY <1>1, <1>3 DEF MatchInv

(* The senders, at every step of a connection: one that a hand-over meets  *)
(* is noted.                                                               *)
LEMMA SendActs ==
    ASSUME TypeOK, SendInv, NEW c \in Conns, Acts(c), Crosses(c), excused \subseteq excused'
    PROVE  SendInv'
<1> SUFFICES ASSUME NEW n \in Notes, Tracked(n)',
                    npc'[n] \in {"agents", "register", "enqueue", "file", "append"}
             PROVE  /\ npc'[n] \notin {"register", "enqueue"} /\ sessions'[dest'[n]] = None
                    /\ AtRest(dest[n])'
  BY DEF SendInv
<1>1. /\ npc'[n] = npc[n] /\ dest'[n] = dest[n] /\ crossed \subseteq crossed'
      /\ dest[n] \in SessionIds /\ \A d \in Conns \ {c} : Moving(d)' = Moving(d)
  BY MovingActs DEF Acts, TypeOK, TypeNotes
<1>2. Tracked(n) /\ n \notin excused' /\ dest[n] \notin crossed'
  BY <1>1 DEF Tracked, Clean
<1>3. npc[n] \notin {"register", "enqueue"} /\ sessions[dest[n]] = None /\ AtRest(dest[n])
  BY <1>1, <1>2 DEF SendInv
<1>4. sessions'[dest[n]] = None
  BY <1>1, <1>3 DEF Acts, AtRest
<1>5. dest[n] \notin Moving(c)'
  <2>1. CASE Begin(c, Moving(c)')
    BY <1>1, <1>2, <2>1 DEF Begin
  <2> QED BY <1>3, <2>1 DEF Crosses, AtRest
<1>6. AtRest(dest[n])'
  BY <1>1, <1>3, <1>5 DEF AtRest
<1> QED BY <1>1, <1>3, <1>4, <1>6

(* What a step of a connection does to the queues and the files: nothing,  *)
(* it saves the queue of an agent that it closes, or it loads one.         *)
Persists(c, x) ==
    /\ UNCHANGED <<works, queue>> /\ persist_soft_interrupt_snapshot(x)
    /\ \/ LeaveAgent(c) /\ x = agent[c]
       \/ Close(c) /\ x = agent[c]
       \/ CloseAgent(c) /\ x = found[c]

Restores(c) ==
    /\ pc[c] = "restore" /\ pc'[c] = "insert"
    /\ works' = [works EXCEPT ![agent[c]] = want[c]]
    /\ queue' = [queue EXCEPT ![agent[c]] = file[want[c]]]
    /\ file' = [file EXCEPT ![want[c]] = {}]
    /\ UNCHANGED <<sessions, at, agent, want>>
    /\ (\E d \in Conns \ {c} : agent[d] = agent[c] /\ Live(d)) => {at[c], want[c]} \subseteq crossed'

(* Every step of a connection does one of the three. *)
LEMMA DataStep ==
    ASSUME TypeOK, NEW c \in Conns, ConnStep(c)
    PROVE  \/ UNCHANGED <<works, queue, file>> /\ ~(pc[c] = "restore" /\ pc'[c] = "insert")
           \/ \E x \in Conns : Persists(c, x)
           \/ Restores(c) /\ restore_session(c)
<1>1. CASE LeaveAgent(c) \/ Close(c)
  <2>1. agent[c] \in Conns /\ Persists(c, agent[c])
    BY <1>1 DEF LeaveAgent, Close, Persists, agents, TypeOK, TypeConn
  <2> QED BY <2>1
<1>2. CASE CloseAgent(c)
  <2>1. found[c] \in Conns
    BY <1>2 DEF CloseAgent, TypeOK, TypeConn
  <2>2. pc[c] = "wait" /\ (Persists(c, found[c]) \/ UNCHANGED <<works, queue, file>>)
    BY <1>2 DEF CloseAgent, Persists, agents
  <2> QED BY <2>1, <2>2
<1>3. CASE restore_session(c)
  <2>1. CASE pc' = [pc EXCEPT ![c] = "refresh"]
    <3>1. pc'[c] # "insert"
      BY <2>1 DEF TypeOK, TypeConn
    <3> QED BY <1>3, <3>1 DEF restore_session, Goto, TypeOK, TypeConn
  <2>2. CASE pc' # [pc EXCEPT ![c] = "refresh"]
    <3>1. /\ pc[c] = "restore" /\ pc' = [pc EXCEPT ![c] = "insert"]
          /\ works' = [works EXCEPT ![agent[c]] = want[c]]
          /\ queue' = [queue EXCEPT ![agent[c]] = file[want[c]]]
          /\ file' = [file EXCEPT ![want[c]] = {}]
          /\ UNCHANGED tables
          /\ crossed' = IF \E d \in Conns \ {c} : agent[d] = agent[c] /\ pc[d] \notin {"off", "gone"}
                        THEN crossed \cup {at[c], want[c]} ELSE crossed
      BY <1>3, <2>2 DEF restore_session, Goto
    <3>2. UNCHANGED <<at, agent, want>>
      BY <1>3 DEF restore_session
    <3>3. (\E d \in Conns \ {c} : agent[d] = agent[c] /\ Live(d)) => {at[c], want[c]} \subseteq crossed'
      BY <3>1 DEF Live
    <3> QED BY <1>3, <3>1, <3>2, <3>3 DEF Restores, tables, TypeOK, TypeConn
  <2> QED BY <2>1, <2>2
<1>4. CASE ~(LeaveAgent(c) \/ Close(c) \/ CloseAgent(c) \/ restore_session(c))
  BY <1>4
     DEF ConnStep, ResumeStep, CleanupStep, StartTurn, Disconnect, Resume, Lookup, FindRival,
         OthersLeft, LeaveSession, LeaveQueue, TakeOver, Attach, Refresh, Claim,
         InsertSession, rename_session_interrupt_queue, MoveConnection,
         session_has_live_successor, RemoveSession, Unregister, agents, disk
<1> QED BY <1>1, <1>2, <1>3, <1>4

(* Where the notes are, at every step of a connection. *)
LEMMA PlaceStep ==
    ASSUME TypeOK, PlaceInv, NEW c \in Conns, ConnStep(c), crossed \subseteq crossed'
    PROVE  PlaceInv'
<1>0. /\ excused \subseteq excused' /\ npc' = npc /\ dest' = dest /\ loaded' = loaded /\ got' = got
      /\ \A n \in Notes : Tracked(n)' => Tracked(n)
  <2>1. excused \subseteq excused' /\ npc' = npc /\ dest' = dest /\ loaded' = loaded /\ got' = got
    BY HistoryStep DEF senders
  <2> QED BY <2>1 DEF Tracked, Clean
<1>t. /\ \A a \in Conns : queue[a] \subseteq Notes
      /\ \A s \in SessionIds : file[s] \subseteq Notes
      /\ \A m \in Notes : loaded[m] \subseteq Notes
      /\ \A g \in got : g[1] \in Notes
  BY DEF TypeOK, TypeTables, TypeNotes
<1>1. \A m \in Notes : npc'[m] = "append" =>
          \A n \in loaded'[m] : npc'[n] # "new" /\ (Tracked(n)' => dest'[m] = dest'[n])
  BY <1>0, <1>t DEF PlaceInv
<1>2. \A g \in got' : npc'[g[1]] # "new" /\ (Tracked(g[1])' => g[2] = dest'[g[1]])
  <2>1. \A g \in got : Tracked(g[1])' => Tracked(g[1])
    BY <1>0, <1>t DEF Tracked, Clean
  <2> QED BY <1>0, <2>1 DEF PlaceInv
<1>3. ASSUME \A a \in Conns : \A n \in queue'[a] : n \in Notes /\ npc[n] # "new" /\ (Tracked(n) => works'[a] = dest[n]),
             \A s \in SessionIds : \A n \in file'[s] : n \in Notes /\ npc[n] # "new" /\ (Tracked(n) => s = dest[n])
      PROVE  PlaceInv'
  <2>1. \A a \in Conns : \A n \in queue'[a] : npc'[n] # "new" /\ (Tracked(n)' => works'[a] = dest'[n])
    BY <1>0, <1>3
  <2>2. \A s \in SessionIds : \A n \in file'[s] : npc'[n] # "new" /\ (Tracked(n)' => s = dest'[n])
    BY <1>0, <1>3
  <2> QED BY <1>1, <1>2, <2>1, <2>2 DEF PlaceInv
<1>4. CASE UNCHANGED <<works, queue, file>>
  BY <1>3, <1>4, <1>t DEF PlaceInv
<1>5. ASSUME NEW x \in Conns, Persists(c, x) PROVE PlaceInv'
  <2>1. /\ works' = works /\ queue' = queue /\ works[x] \in SessionIds
        /\ \A s \in SessionIds : file'[s] = IF s = works[x] THEN queue[x] ELSE file[s]
    BY <1>5 DEF Persists, persist_soft_interrupt_snapshot, TypeOK, TypeTables
  <2> QED BY <1>3, <1>t, <2>1 DEF PlaceInv
<1>6. CASE Restores(c)
  <2>1. /\ want[c] \in SessionIds
        /\ \A a \in Conns : works'[a] = (IF a = agent[c] THEN want[c] ELSE works[a])
        /\ \A a \in Conns : queue'[a] = IF a = agent[c] THEN file[want[c]] ELSE queue[a]
        /\ \A s \in SessionIds : file'[s] = IF s = want[c] THEN {} ELSE file[s]
    BY <1>6 DEF Restores, TypeOK, TypeConn, TypeTables, Resuming
  <2> QED BY <1>3, <1>t, <2>1 DEF PlaceInv
<1> QED BY <1>4, <1>5, <1>6, DataStep

(* Who saves the queue of an agent owns the session that the agent has     *)
(* loaded, and hands it over.                                              *)
LEMMA PersistOwner ==
    ASSUME TypeOK, WorksInv, SessInv, NEW c \in Conns, NEW x \in Conns, Persists(c, x),
           Clean(works[x])
    PROVE  works[x] = at[c] /\ at[c] \in Moving(c) /\ Owner(works[x], x)
<1>1. AgentOf(c) /\ SessOf(c)
  BY DEF WorksInv, SessInv
<1>2. CASE pc[c] = "leave_agent" /\ x = agent[c]
  BY <1>1, <1>2 DEF AgentOf, Live, Loads, Fits, Clean, Owner, Owns, Moving, Resuming
<1>3. CASE pc[c] = "close" /\ x = agent[c]
  <2>1. works[x] = at[c]
    BY <1>1, <1>3 DEF AgentOf, Live, Loads, Fits, Clean
  <2>2. sessions[at[c]] = x
    BY <1>1, <1>3, <2>1 DEF SessOf, LiveIn, Settled
  <2> QED BY <1>3, <2>1, <2>2 DEF Owner, Moving, Resuming
<1>4. CASE pc[c] = "wait" /\ x = found[c]
  BY <1>1, <1>4 DEF AgentOf, Fits, Clean, Owner, Owns, Moving, Resuming, Leaving
<1> QED BY <1>2, <1>3, <1>4 DEF Persists, LeaveAgent, Close, CloseAgent

(* An owner of a session stays one, or another one follows, until the one  *)
(* that closes it has saved its queue; nobody becomes one but by           *)
(* restore_session.                                                        *)
LEMMA OwnerStep ==
    ASSUME TypeOK, MoveInv, WorksInv, SessInv, NEW c \in Conns, Acts(c), ConnStep(c),
           \A b \in Conns : works'[b] = works[b], ~(pc[c] = "restore" /\ pc'[c] = "insert"),
           NEW s \in SessionIds, Clean(s), NEW a \in Conns
    PROVE  /\ Owner(s, a)' => Owner(s, a)
           /\ Owner(s, a) => \/ \E b \in Conns : Owner(s, b)'
                             \/ LeaveAgent(c) /\ a = agent[c]
                             \/ CloseAgent(c) /\ a = found[c]
<1>0. /\ \A d \in Conns \ {c} : Owns(d, s, a)' <=> Owns(d, s, a)
      /\ works'[a] = works[a] /\ SessOf(c) /\ AgentOf(c) /\ at[c] \in SessionIds
      /\ agent[c] \in Conns /\ None \notin Conns
  BY NamesAssumption DEF Acts, Same, Owns, SessInv, WorksInv, TypeOK, TypeConn
<1>a. ASSUME sessions'[s] = sessions[s], Owns(c, s, a)' <=> Owns(c, s, a)
      PROVE  Owner(s, a)' <=> Owner(s, a)
  BY <1>0, <1>a DEF Owner
<1>1. CASE LeaveSession(c)
  <2>1. /\ pc[c] = "leave_session" /\ pc'[c] = "leave_agent" /\ at'[c] = at[c] /\ agent'[c] = agent[c]
        /\ sessions'[s] = IF s = at[c] /\ sessions[s] = agent[c] THEN None ELSE sessions[s]
    BY <1>1 DEF LeaveSession, Goto, TypeOK, TypeConn, TypeTables
  <2>2. at[c] = s => sessions[s] = agent[c]
    BY <1>0, <2>1 DEF SessOf, LiveIn, Settled
  <2>3. Owns(c, s, a)' <=> at[c] = s /\ agent[c] = a
    BY <2>1 DEF Owns
  <2>4. ~Owns(c, s, a)
    BY <2>1 DEF Owns
  <2> QED BY <1>0, <2>1, <2>2, <2>3, <2>4 DEF Owner
<1>2. CASE LeaveAgent(c)
  <2>1. pc[c] = "leave_agent" /\ pc'[c] = "leave_queue" /\ sessions' = sessions
    BY <1>2 DEF LeaveAgent, Goto, tables, TypeOK, TypeConn
  <2>2. ~Owns(c, s, a)' /\ (Owns(c, s, a) => a = agent[c])
    BY <2>1 DEF Owns
  <2> QED BY <1>0, <1>2, <2>1, <2>2 DEF Owner
<1>3. CASE CloseAgent(c)
  <2>1. pc[c] = "wait" /\ pc'[c] = "unregister" /\ sessions' = sessions
    BY <1>3 DEF CloseAgent, Goto, tables, TypeOK, TypeConn
  <2>2. ~Owns(c, s, a)' /\ (Owns(c, s, a) => a = found[c])
    BY <2>1 DEF Owns
  <2> QED BY <1>0, <1>3, <2>1, <2>2 DEF Owner
<1>4. CASE RemoveSession(c)
  <2>1. /\ pc[c] = "remove" /\ at'[c] = at[c] /\ found'[c] = sessions[at[c]]
        /\ pc'[c] = (IF sessions[at[c]] = None THEN "unregister" ELSE "wait")
        /\ sessions'[s] = IF s = at[c] THEN None ELSE sessions[s]
    BY <1>4 DEF RemoveSession, Goto, TypeOK, TypeConn, TypeTables
  <2>2. Owns(c, s, a)' <=> at[c] = s /\ sessions[s] = a
    BY <1>0, <2>1 DEF Owns
  <2>3. ~Owns(c, s, a)
    BY <2>1 DEF Owns
  <2> QED BY <1>0, <2>1, <2>2, <2>3 DEF Owner
<1>5. CASE InsertSession(c)
  <2>1. /\ pc[c] = "insert" /\ pc'[c] = "rename" /\ want[c] \in SessionIds /\ agent'[c] = agent[c]
        /\ sessions'[s] = IF s = want[c] THEN agent[c] ELSE IF s = at[c] THEN None ELSE sessions[s]
        /\ Moving(c) = {at[c], want[c]}
    BY <1>5 DEF InsertSession, Goto, TypeOK, TypeConn, TypeTables, Resuming, Moving
  <2>2. ~Owns(c, s, a)' /\ (Owns(c, s, a) <=> want[c] = s /\ agent[c] = a)
    BY <2>1 DEF Owns
  <2>3. s \in {at[c], want[c]} => works[agent[c]] = want[c] /\ sessions[at[c]] = agent[c]
    <3>1. s \in {at[c], want[c]} => Clean(at[c]) /\ Clean(want[c])
      BY <2>1, CleanMove
    <3> QED BY <1>0, <2>1, <3>1 DEF AgentOf, Live, Loads, Fits, Clean, SessOf, LiveIn, Settled
  <2>4. CASE s = want[c]
    <3>1. Owner(s, agent[c])'
      BY <1>0, <2>1, <2>3, <2>4 DEF Owner
    <3> QED BY <1>0, <2>1, <2>2, <2>3, <2>4, <3>1 DEF Owner
  <2>5. CASE s # want[c]
    BY <1>0, <2>1, <2>2, <2>3, <2>5 DEF Owner
  <2> QED BY <2>4, <2>5
<1>6. CASE ~(LeaveSession(c) \/ LeaveAgent(c) \/ CloseAgent(c) \/ RemoveSession(c) \/ InsertSession(c))
  <2>1. /\ pc[c] \notin {"leave_agent", "wait", "insert"}
        /\ pc'[c] \notin {"leave_agent", "wait", "insert"} /\ sessions' = sessions
    BY <1>6
       DEF ConnStep, ResumeStep, CleanupStep, StartTurn, Disconnect, Resume, Lookup, FindRival,
           OthersLeft, LeaveQueue, TakeOver, Attach, Refresh, Claim, Close, restore_session,
           rename_session_interrupt_queue, MoveConnection, session_has_live_successor,
           Unregister, Goto, conn, tables, TypeOK, TypeConn
  <2> QED BY <1>a, <2>1 DEF Owns
<1> QED BY <1>1, <1>2, <1>3, <1>4, <1>5, <1>6

(* restore_session takes the notes of the session from the file; those of  *)
(* the session that the agent leaves have been saved.                      *)
LEMMA WaitsRestore ==
    ASSUME TypeOK, MoveInv, WorksInv, SessInv, WaitsInv, SavedInv, NEW c \in Conns, Acts(c),
           Restores(c), NEW n \in Notes, npc[n] = "done", Tracked(n), ~Given(n),
           NEW s \in SessionIds, s = dest[n]
    PROVE  /\ \A b \in Conns : Owner(s, b)' => n \in queue'[b]
           /\ (\A b \in Conns : ~Owner(s, b)') => n \in file'[s]
<1>a. PICK a \in Conns : a = agent[c]
  BY DEF TypeOK, TypeConn
<1>0. /\ pc[c] = "restore" /\ pc'[c] = "insert" /\ want[c] \in SessionIds /\ a \in Conns
      /\ Moving(c) = {at[c], want[c]} /\ at[c] \in SessionIds /\ None \notin Conns
      /\ sessions' = sessions /\ s \in SessionIds /\ Clean(s) /\ n \notin excused
      /\ works'[a] = want[c] /\ queue'[a] = file[want[c]]
      /\ \A b \in Conns \ {a} : works'[b] = works[b] /\ queue'[b] = queue[b]
      /\ \A r \in SessionIds \ {want[c]} : file'[r] = file[r]
  BY <1>a, NamesAssumption DEF Restores, TypeOK, TypeConn, TypeTables, Moving, Resuming, Tracked
<1>1. /\ \A b \in Conns : Owner(s, b) => n \in queue[b]
      /\ (\A b \in Conns : ~Owner(s, b)) => n \in file[s]
  BY DEF WaitsInv
<1>2. /\ \A d \in Conns \ {c} : \A b \in Conns : Owns(d, s, b)' <=> Owns(d, s, b)
      /\ \A b \in Conns : ~Owns(c, s, b)
  BY <1>0 DEF Acts, Same, Owns
<1>3. ASSUME Clean(at[c])
      PROVE  /\ works[a] = at[c] /\ sessions[at[c]] = a /\ sessions[want[c]] \in {None, a}
             /\ n \in queue[a] /\ s = at[c] => n \in file[at[c]]
  <2>1. AgentOf(c) /\ SessOf(c)
    BY DEF WorksInv, SessInv
  <2>2. n \in queue[a] /\ s = at[c] => n \in file[at[c]]
    BY <1>0, <1>3, <1>a DEF SavedInv
  <2> QED BY <1>0, <1>3, <1>a, <2>1, <2>2 DEF AgentOf, Live, Loads, Fits, Clean, SessOf, LiveIn, Settled
<1>p. agent'[c] = a /\ want'[c] = want[c]
  BY <1>a DEF Restores
<1>4. ASSUME NEW b \in Conns, b # a PROVE Owner(s, b)' <=> Owner(s, b)
  <2>1. ~Owns(c, s, b)'
    BY <1>0, <1>p, <1>4 DEF Owns
  <2> QED BY <1>0, <1>2, <1>4, <2>1 DEF Owner
<1>5. CASE s = want[c]
  <2>1. Clean(at[c])
    BY <1>0, <1>5, CleanMove
  <2>2. n \in file[s]
    <3>1. CASE at[c] = s
      <4>1. Owner(s, a)
        BY <1>3, <2>1, <3>1 DEF Owner
      <4> QED BY <1>0, <1>1, <1>3, <2>1, <3>1, <4>1
    <3>2. CASE at[c] # s
      <4>1. ASSUME NEW d \in Conns \ {c}, NEW b \in Conns, Owns(d, s, b) PROVE FALSE
        <5>1. s \in Moving(d)
          BY <4>1 DEF Owns, Moving, Resuming, Leaving
        <5> QED BY <1>0, <1>5, <5>1, CleanMove
      <4>2. \A b \in Conns : ~Owner(s, b)
        BY <1>0, <1>2, <1>3, <1>5, <2>1, <3>2, <4>1 DEF Owner
      <4> QED BY <1>1, <4>2
    <3> QED BY <3>1, <3>2
  <2>3. Owns(c, s, a)'
    BY <1>0, <1>5, <1>p DEF Owns
  <2>4. Owner(s, a)'
    BY <1>0, <1>5, <2>3 DEF Owner
  <2>5. \A b \in Conns : Owner(s, b)' => n \in queue'[b]
    BY <1>0, <1>1, <1>4, <1>5, <2>2
  <2> QED BY <1>0, <2>4, <2>5
<1>6. CASE s # want[c]
  <2>1. ~Owner(s, a)'
    BY <1>0, <1>6 DEF Owner
  <2>2. \A b \in Conns : Owner(s, b)' => n \in queue'[b]
    BY <1>0, <1>1, <1>4, <2>1
  <2>3. ASSUME \A b \in Conns : ~Owner(s, b)' PROVE n \in file'[s]
    <3>1. CASE \A b \in Conns : ~Owner(s, b)
      BY <1>0, <1>1, <1>6, <3>1
    <3>2. CASE Owner(s, a)
      <4>1. works[a] = s /\ n \in queue[a]
        BY <1>0, <1>1, <3>2 DEF Owner
      <4>2. Fits(a, at[c])
        BY <1>0, <1>a DEF WorksInv, AgentOf, Live, Loads
      <4>3. s = at[c]
        BY <1>0, <4>1, <4>2 DEF Fits
      <4> QED BY <1>0, <1>3, <1>6, <4>1, <4>3
    <3> QED BY <1>4, <2>3, <3>1, <3>2
  <2> QED BY <2>2, <2>3
<1> QED BY <1>5, <1>6

(* The notes that were accepted, at every step of a connection. *)
LEMMA WaitsStep ==
    ASSUME TypeOK, MoveInv, WorksInv, SessInv, WaitsInv, SavedInv, NEW c \in Conns, Acts(c),
           ConnStep(c)
    PROVE  WaitsInv'
<1> SUFFICES ASSUME NEW n \in Notes, npc'[n] = "done", Tracked(n)', ~Given(n)'
             PROVE  /\ \A b \in Conns : Owner(dest[n], b)' => n \in queue'[b]
                    /\ (\A b \in Conns : ~Owner(dest[n], b)') => n \in file'[dest'[n]]
  BY DEF WaitsInv
<1>s. PICK s : s = dest[n]
  OBVIOUS
<1>0. /\ npc[n] = "done" /\ Tracked(n) /\ ~Given(n) /\ n \notin excused'
      /\ dest'[n] = s /\ s \in SessionIds /\ Clean(s)
  <2>1. npc' = npc /\ dest' = dest /\ got' = got /\ excused \subseteq excused'
    BY HistoryStep DEF senders
  <2> QED BY <1>s, <2>1 DEF Tracked, Clean, Given, Acts, TypeOK, TypeNotes
<1>1. /\ \A b \in Conns : Owner(s, b) => n \in queue[b]
      /\ (\A b \in Conns : ~Owner(s, b)) => n \in file[s]
  BY <1>0, <1>s DEF WaitsInv
<1>2. CASE Restores(c)
  <2>1. /\ \A b \in Conns : Owner(s, b)' => n \in queue'[b]
        /\ (\A b \in Conns : ~Owner(s, b)') => n \in file'[s]
    BY <1>0, <1>2, <1>s, WaitsRestore
  <2> QED BY <1>0, <2>1
<1>3. ASSUME works' = works, queue' = queue, ~(pc[c] = "restore" /\ pc'[c] = "insert"),
             (\A b \in Conns : ~Owner(s, b)) => file'[s] = file[s]
      PROVE  /\ \A b \in Conns : Owner(s, b)' => n \in queue'[b]
             /\ (\A b \in Conns : ~Owner(s, b)') => n \in file'[s]
  <2>1. \A b \in Conns :
            /\ Owner(s, b)' => Owner(s, b)
            /\ Owner(s, b) => \/ \E e \in Conns : Owner(s, e)'
                              \/ LeaveAgent(c) /\ b = agent[c]
                              \/ CloseAgent(c) /\ b = found[c]
    BY <1>0, <1>3, OwnerStep
  <2>2. \A b \in Conns : Owner(s, b)' => n \in queue'[b]
    BY <1>1, <1>3, <2>1
  <2>3. ASSUME NEW b \in Conns, Owner(s, b), \A e \in Conns : ~Owner(s, e)' PROVE n \in file'[s]
    <3>1. works[b] = s /\ n \in queue[b]
      BY <1>1, <2>3 DEF Owner
    <3>2. CASE LeaveAgent(c) /\ b = agent[c]
      BY <1>0, <3>1, <3>2 DEF LeaveAgent, persist_soft_interrupt_snapshot, TypeOK, TypeTables
    <3>3. CASE CloseAgent(c) /\ b = found[c]
      BY <1>0, <3>1, <3>3 DEF CloseAgent, persist_soft_interrupt_snapshot, TypeOK, TypeTables
    <3> QED BY <2>1, <2>3, <3>2, <3>3
  <2> QED BY <1>1, <1>3, <2>2, <2>3
<1>4. CASE UNCHANGED <<works, queue, file>> /\ ~(pc[c] = "restore" /\ pc'[c] = "insert")
  BY <1>0, <1>3, <1>4
<1>5. ASSUME NEW x \in Conns, Persists(c, x)
      PROVE  /\ \A b \in Conns : Owner(s, b)' => n \in queue'[b]
             /\ (\A b \in Conns : ~Owner(s, b)') => n \in file'[s]
  <2>1. works' = works /\ queue' = queue /\ pc[c] # "restore"
    BY <1>5 DEF Persists, LeaveAgent, Close, CloseAgent
  <2>2. ASSUME \A b \in Conns : ~Owner(s, b) PROVE file'[s] = file[s]
    <3>1. s # works[x]
      BY <1>0, <1>5, <2>2, PersistOwner
    <3> QED BY <1>0, <1>5, <3>1 DEF Persists, persist_soft_interrupt_snapshot, TypeOK, TypeTables
  <2> QED BY <1>3, <2>1, <2>2
<1> QED BY <1>0, <1>2, <1>4, <1>5, DataStep

(* The queues that were saved, at every step of a connection. *)
LEMMA SavedStep ==
    ASSUME TypeOK, MoveInv, WorksInv, SessInv, SavedInv, NEW c \in Conns, Acts(c), ConnStep(c)
    PROVE  SavedInv'
<1> SUFFICES ASSUME NEW e \in Conns, pc'[e] = "restore", Clean(at[e])',
                    NEW n \in queue'[agent'[e]], n \notin excused', dest'[n] = at'[e]
             PROVE  n \in file'[at'[e]]
  BY DEF SavedInv
<1>h. excused \subseteq excused' /\ dest' = dest
  BY HistoryStep DEF senders
<1>1. CASE e = c
  <2>1. Close(c)
    BY <1>1
       DEF ConnStep, ResumeStep, CleanupStep, StartTurn, Disconnect, Resume, Lookup, FindRival,
           OthersLeft, LeaveSession, LeaveAgent, LeaveQueue, TakeOver, Attach, Refresh, Claim,
           restore_session, InsertSession, rename_session_interrupt_queue, MoveConnection,
           session_has_live_successor, RemoveSession, CloseAgent, Unregister, Goto, conn,
           TypeOK, TypeConn
  <2>2. /\ pc[c] = "close" /\ at'[c] = at[c] /\ agent'[c] = agent[c] /\ queue' = queue
        /\ crossed' = crossed /\ file' = [file EXCEPT ![works[agent[c]]] = queue[agent[c]]]
    BY <2>1 DEF Close, persist_soft_interrupt_snapshot, agents, history
  <2>3. works[agent[c]] = at[c]
    BY <1>1, <2>2 DEF WorksInv, AgentOf, Live, Loads, Fits, Clean
  <2> QED BY <1>1, <2>2, <2>3 DEF TypeOK, TypeTables, TypeConn
<1>2. CASE e # c
  <2>0. /\ pc[e] = "restore" /\ at'[e] = at[e] /\ agent'[e] = agent[e] /\ Clean(at[e])
        /\ at[e] \notin crossed'
        /\ at[e] \in Moving(e) /\ at[e] \in SessionIds /\ agent[e] \in Conns
        /\ n \notin excused /\ dest[n] = at[e]
    BY <1>2, <1>h DEF Acts, Same, Clean, Moving, Resuming, TypeOK, TypeConn
  <2>1. Moving(c) \cap Moving(e) = {}
    BY <1>2, <2>0, CleanMove
  <2>2. works[agent[e]] = at[e]
    BY <2>0 DEF WorksInv, AgentOf, Live, Loads, Fits
  <2>3. n \in queue[agent[e]] => n \in file[at[e]]
    BY <2>0 DEF SavedInv
  <2>4. CASE UNCHANGED <<works, queue, file>>
    BY <2>0, <2>3, <2>4
  <2>5. ASSUME NEW x \in Conns, Persists(c, x) PROVE n \in file'[at[e]]
    <3>1. queue' = queue /\ file' = [file EXCEPT ![works[x]] = queue[x]]
      BY <2>5 DEF Persists, persist_soft_interrupt_snapshot
    <3>2. works[x] # at[e]
      BY <2>0, <2>1, <2>5, PersistOwner
    <3> QED BY <2>0, <2>3, <3>1, <3>2 DEF TypeOK, TypeTables
  <2>6. CASE Restores(c)
    <3>1. /\ pc[c] = "restore" /\ Moving(c) = {at[c], want[c]} /\ agent[c] \in Conns
          /\ queue' = [queue EXCEPT ![agent[c]] = file[want[c]]]
          /\ file' = [file EXCEPT ![want[c]] = {}]
      BY <2>6 DEF Restores, Moving, Resuming, TypeOK, TypeConn
    <3>2. agent[e] # agent[c]
      <4>1. Fits(agent[c], at[c])
        BY <3>1 DEF WorksInv, AgentOf, Live, Loads
      <4> QED BY <2>0, <2>1, <2>2, <3>1, <4>1 DEF Fits
    <3>3. n \in queue[agent[e]]
      BY <2>0, <3>1, <3>2 DEF TypeOK, TypeTables
    <3>4. at[e] # want[c]
      BY <2>0, <2>1, <3>1
    <3> QED BY <2>0, <2>3, <3>1, <3>3, <3>4 DEF TypeOK, TypeTables
  <2> QED BY <2>0, <2>4, <2>5, <2>6, DataStep
<1> QED BY <1>1, <1>2

(* Every step of a connection keeps the invariant of the notes. *)
LEMMA ConnNotes == ASSUME TypeOK, Inv, NoteInv, NEW c \in Conns, ConnStep(c) PROVE NoteInv'
<1>1. /\ MoveInv /\ WorksInv /\ SessInv /\ MatchInv /\ SendInv /\ PlaceInv /\ WaitsInv /\ SavedInv
      /\ Acts(c) /\ Crosses(c) /\ excused \subseteq excused'
  BY ActsStep, CrossesStep, HistoryStep DEF Inv, NoteInv
<1>2. crossed \subseteq crossed'
  BY <1>1 DEF Acts
<1>3. MatchInv'
  BY <1>1, MatchStep
<1>4. SendInv'
  BY <1>1, SendActs
<1>5. PlaceInv'
  BY <1>1, <1>2, PlaceStep
<1>6. WaitsInv'
  BY <1>1, WaitsStep
<1>7. SavedInv'
  BY <1>1, SavedStep
<1> QED BY <1>3, <1>4, <1>5, <1>6, <1>7 DEF NoteInv

(* A new connection: there is no note for its session yet. *)
LEMMA ConnectNotes == ASSUME TypeOK, Inv, NoteInv, NEW c \in Conns, Connect(c) PROVE NoteInv'
<1>1. /\ pc[c] = "off" /\ pc' = [pc EXCEPT ![c] = "idle"]
      /\ sessions' = [sessions EXCEPT ![c] = c] /\ registry' = [registry EXCEPT ![c] = c]
      /\ at' = at /\ agent' = agent /\ want' = want /\ found' = found
      /\ works' = works /\ queue' = queue /\ file' = file /\ loaded' = loaded /\ got' = got
      /\ npc' = npc /\ dest' = dest /\ held' = held /\ crossed' = crossed /\ excused' = excused
  BY DEF Connect, Goto, agents, disk, senders, history
<1>2. /\ \A d \in Conns \ {c} : at[d] # c /\ want[d] # c
      /\ \A n \in Notes : dest[n] # c
      /\ c \in SessionIds /\ None \notin Conns
  BY <1>1, NamesAssumption DEF Inv, OffInv, SessionIds
<1>3. \A d \in Conns : Moving(d)' = Moving(d)
  BY <1>1 DEF Moving, Resuming, Leaving, TypeOK, TypeConn
<1>t. /\ pc \in [Conns -> PCs] /\ at \in [Conns -> SessionIds]
      /\ sessions \in [SessionIds -> Conns \cup {None}]
      /\ registry \in [SessionIds -> Conns \cup {None}]
      /\ \A n \in Notes : npc[n] # "new" => dest[n] \in SessionIds
      /\ \A d \in Conns : pc[d] \in Resuming => want[d] \in SessionIds
  BY DEF TypeOK, TypeConn, TypeTables, TypeNotes
<1>r. \A s \in SessionIds : AtRest(s)' <=> AtRest(s)
  BY <1>3 DEF AtRest
<1>s. /\ sessions'[c] = c /\ registry'[c] = c
      /\ \A s \in SessionIds \ {c} : sessions'[s] = sessions[s] /\ registry'[s] = registry[s]
  BY <1>1, <1>2, <1>t
<1>4. MatchInv'
  <2>1. ASSUME NEW s \in SessionIds, Clean(s)', AtRest(s)' PROVE Matched(s)'
    BY <1>1, <1>r, <1>s, <2>1 DEF NoteInv, MatchInv, Matched, Clean
  <2>2. ASSUME NEW d \in Conns PROVE MatchOf(d)'
    <3>1. CASE d = c
      BY <1>1, <1>t, <3>1 DEF MatchOf
    <3>2. CASE d # c
      BY <1>1, <1>2, <1>s, <1>t, <2>2, <3>2 DEF NoteInv, MatchInv, MatchOf, Matched, Clean, Resuming
    <3> QED BY <3>1, <3>2
  <2> QED BY <2>1, <2>2 DEF MatchInv
<1>5. SendInv'
  <2> SUFFICES ASSUME NEW n \in Notes, Tracked(n)',
                      npc'[n] \in {"agents", "register", "enqueue", "file", "append"}
               PROVE  /\ npc'[n] \notin {"register", "enqueue"} /\ sessions'[dest'[n]] = None
                      /\ AtRest(dest[n])'
    BY DEF SendInv
  <2>1. /\ npc[n] \notin {"register", "enqueue"} /\ sessions[dest[n]] = None /\ AtRest(dest[n])
        /\ dest[n] \in SessionIds
    BY <1>1, <1>t DEF NoteInv, SendInv, Tracked, Clean
  <2>2. AtRest(dest[n])'
    BY <1>1, <1>3, <2>1 DEF AtRest
  <2> QED BY <1>1, <1>2, <1>s, <2>1, <2>2
<1>6. PlaceInv'
  BY <1>1 DEF NoteInv, PlaceInv, Tracked, Clean
<1>7. WaitsInv'
  <2> SUFFICES ASSUME NEW n \in Notes, npc'[n] = "done", Tracked(n)', ~Given(n)'
               PROVE  /\ \A a \in Conns : Owner(dest[n], a)' => n \in queue'[a]
                      /\ (\A a \in Conns : ~Owner(dest[n], a)') => n \in file'[dest'[n]]
    BY DEF WaitsInv
  <2>1. ASSUME NEW a \in Conns PROVE Owner(dest[n], a)' <=> Owner(dest[n], a)
    <3>1. sessions'[dest[n]] = sessions[dest[n]] /\ dest'[n] = dest[n] /\ works' = works
      BY <1>1, <1>2, <1>s, <1>t
    <3>2. \A d \in Conns : Owns(d, dest[n], a)' <=> Owns(d, dest[n], a)
      BY <1>1, <1>t DEF Owns
    <3> QED BY <3>1, <3>2 DEF Owner
  <2>2. npc[n] = "done" /\ Tracked(n) /\ ~Given(n)
    BY <1>1 DEF Tracked, Clean, Given
  <2> QED BY <1>1, <2>1, <2>2 DEF NoteInv, WaitsInv
<1>8. SavedInv'
  BY <1>1, <1>t DEF NoteInv, SavedInv, Clean
<1> QED BY <1>4, <1>5, <1>6, <1>7, <1>8 DEF NoteInv

(* What a step of a sender or of a turn leaves alone. *)
Calm == /\ UNCHANGED <<conn, connections, sessions, works>>
        /\ crossed \subseteq crossed' /\ excused \subseteq excused'

(* Hand-overs and owners stay the same. *)
LEMMA CalmKeeps ==
    ASSUME Calm
    PROVE  /\ \A c \in Conns : Moving(c)' = Moving(c)
           /\ \A s \in SessionIds : AtRest(s)' <=> AtRest(s)
           /\ \A s \in SessionIds : \A a \in Conns : Owner(s, a)' <=> Owner(s, a)
<1>1. \A c \in Conns : Moving(c)' = Moving(c)
  BY DEF Calm, conn, Moving
<1>2. \A s \in SessionIds : AtRest(s)' <=> AtRest(s)
  BY <1>1 DEF AtRest
<1>3. \A s \in SessionIds : \A a \in Conns : Owner(s, a)' <=> Owner(s, a)
  <2>1. \A c \in Conns : \A s \in SessionIds : \A a \in Conns : Owns(c, s, a)' <=> Owns(c, s, a)
    BY DEF Calm, conn, Owns
  <2> QED BY <2>1 DEF Calm, Owner
<1> QED BY <1>1, <1>2, <1>3

(* The registered queues, when they stay as they are. *)
LEMMA CalmMatch ==
    ASSUME MatchInv, Calm, registry' = registry PROVE MatchInv'
<1>1. \A s \in SessionIds : Clean(s)' /\ AtRest(s)' => Matched(s)'
  BY CalmKeeps DEF Calm, MatchInv, Matched, Clean
<1>2. \A c \in Conns : MatchOf(c)'
  BY DEF Calm, conn, MatchInv, MatchOf, Matched, Clean
<1> QED BY <1>1, <1>2 DEF MatchInv

(* The senders, when none of them begins or finds an agent. *)
LEMMA CalmSend ==
    ASSUME TypeOK, SendInv, Calm,
           \A n \in Notes :
               npc'[n] \in {"agents", "register", "enqueue", "file", "append"} /\ Tracked(n)' =>
                   /\ npc[n] \in {"agents", "register", "enqueue", "file", "append"}
                   /\ dest'[n] = dest[n]
                   /\ npc'[n] \in {"register", "enqueue"} => npc[n] \in {"register", "enqueue"}
    PROVE  SendInv'
<1> SUFFICES ASSUME NEW n \in Notes, Tracked(n)',
                    npc'[n] \in {"agents", "register", "enqueue", "file", "append"}
             PROVE  /\ npc'[n] \notin {"register", "enqueue"} /\ sessions'[dest'[n]] = None
                    /\ AtRest(dest[n])'
  BY DEF SendInv
<1>1. /\ npc[n] \in {"agents", "register", "enqueue", "file", "append"} /\ dest'[n] = dest[n]
      /\ npc'[n] \in {"register", "enqueue"} => npc[n] \in {"register", "enqueue"}
  OBVIOUS
<1>2. Tracked(n)
  BY <1>1 DEF Calm, Tracked, Clean
<1>3. npc[n] \notin {"register", "enqueue"} /\ sessions[dest[n]] = None /\ AtRest(dest[n])
  BY <1>1, <1>2 DEF SendInv
<1>4. AtRest(dest[n])'
  BY <1>1, <1>3, CalmKeeps DEF AtRest
<1> QED BY <1>1, <1>3, <1>4 DEF Calm

(* Steps that touch no queue and no file, but perhaps read one. *)
LEMMA QuietNotes ==
    ASSUME TypeOK, NoteInv, Calm, UNCHANGED <<queue, file, got, dest>>,
           \A n \in Notes :
               /\ npc'[n] = "done" => npc[n] = "done"
               /\ npc[n] # "new" => npc'[n] # "new"
               /\ npc'[n] = "append" =>
                      \/ npc[n] = "append" /\ loaded'[n] = loaded[n]
                      \/ npc[n] # "new" /\ loaded'[n] = file[dest[n]]
    PROVE  PlaceInv' /\ WaitsInv' /\ SavedInv'
<1>t. /\ \A a \in Conns : queue[a] \subseteq Notes
      /\ \A s \in SessionIds : file[s] \subseteq Notes
      /\ \A m \in Notes : loaded[m] \subseteq Notes
      /\ \A g \in got : g[1] \in Notes
      /\ \A m \in Notes : npc[m] # "new" => dest[m] \in SessionIds
  BY DEF TypeOK, TypeTables, TypeNotes
<1>1. \A n \in Notes : Tracked(n)' => Tracked(n)
  BY DEF Calm, Tracked, Clean
<1>2. PlaceInv'
  <2>1. \A a \in Conns : \A n \in queue'[a] : npc'[n] # "new" /\ (Tracked(n)' => works'[a] = dest'[n])
    BY <1>1, <1>t DEF NoteInv, PlaceInv, Calm
  <2>2. \A s \in SessionIds : \A n \in file'[s] : npc'[n] # "new" /\ (Tracked(n)' => s = dest'[n])
    BY <1>1, <1>t DEF NoteInv, PlaceInv
  <2>3. \A m \in Notes : npc'[m] = "append" =>
            \A n \in loaded'[m] : npc'[n] # "new" /\ (Tracked(n)' => dest'[m] = dest'[n])
    BY <1>1, <1>t DEF NoteInv, PlaceInv
  <2>4. \A g \in got' : npc'[g[1]] # "new" /\ (Tracked(g[1])' => g[2] = dest'[g[1]])
    <3>1. \A g \in got : Tracked(g[1])' => Tracked(g[1])
      BY DEF Calm, Tracked, Clean
    <3> QED BY <1>t, <3>1 DEF NoteInv, PlaceInv
  <2> QED BY <2>1, <2>2, <2>3, <2>4 DEF PlaceInv
<1>3. WaitsInv'
  <2> SUFFICES ASSUME NEW n \in Notes, npc'[n] = "done", Tracked(n)', ~Given(n)'
               PROVE  /\ \A a \in Conns : Owner(dest[n], a)' => n \in queue'[a]
                      /\ (\A a \in Conns : ~Owner(dest[n], a)') => n \in file'[dest'[n]]
    BY DEF WaitsInv
  <2>1. npc[n] = "done" /\ Tracked(n) /\ ~Given(n) /\ dest[n] \in SessionIds
    BY <1>1, <1>t DEF Given
  <2>2. \A a \in Conns : Owner(dest[n], a)' <=> Owner(dest[n], a)
    BY <2>1, CalmKeeps DEF Owner, Owns
  <2> QED BY <2>1, <2>2 DEF NoteInv, WaitsInv
<1>4. SavedInv'
  BY DEF NoteInv, SavedInv, Calm, conn, Clean
<1> QED BY <1>2, <1>3, <1>4

(* A sender finds an agent only while the session is handed over. *)
LEMMA FindNotes == ASSUME TypeOK, NoteInv, NEW n \in Notes, FindAgent(n) PROVE NoteInv'
<1>1. /\ UNCHANGED <<conn, tables, works, queue, file, got, dest, loaded>> /\ npc[n] = "agents"
      /\ crossed \subseteq crossed' /\ excused' = excused
      /\ npc' \in {[npc EXCEPT ![n] = "file"], [npc EXCEPT ![n] = "register"]}
      /\ npc' # [npc EXCEPT ![n] = "file"] => sessions[dest[n]] # None
  BY DEF FindAgent, NGoto, agents, disk
<1>2. Calm /\ registry' = registry
  BY <1>1 DEF Calm, tables
<1>t. npc \in [Notes -> NPCs]
  BY DEF TypeOK, TypeNotes
<1>3. MatchInv'
  BY <1>2, CalmMatch DEF NoteInv
<1>4. SendInv'
  <2>1. Tracked(n)' => npc' = [npc EXCEPT ![n] = "file"]
    <3>1. Tracked(n)' => Tracked(n)
      BY <1>1 DEF Tracked, Clean
    <3> QED BY <1>1, <3>1 DEF NoteInv, SendInv
  <2>2. \A m \in Notes :
            npc'[m] \in {"agents", "register", "enqueue", "file", "append"} /\ Tracked(m)' =>
                /\ npc[m] \in {"agents", "register", "enqueue", "file", "append"}
                /\ dest'[m] = dest[m]
                /\ npc'[m] \in {"register", "enqueue"} => npc[m] \in {"register", "enqueue"}
    BY <1>1, <1>t, <2>1
  <2> QED BY <1>2, <2>2, CalmSend DEF NoteInv
<1>5. PlaceInv' /\ WaitsInv' /\ SavedInv'
  <2>1. \A m \in Notes :
            /\ npc'[m] = "done" => npc[m] = "done"
            /\ npc[m] # "new" => npc'[m] # "new"
            /\ npc'[m] = "append" => npc[m] = "append" /\ loaded'[m] = loaded[m]
    BY <1>1, <1>t
  <2> QED BY <1>1, <1>2, <2>1, QuietNotes
<1> QED BY <1>3, <1>4, <1>5 DEF NoteInv

(* The queue that a sender registers is the one of the agent, unless the   *)
(* session is noted.                                                       *)
LEMMA RegisterNotes ==
    ASSUME TypeOK, Inv, NoteInv, NEW n \in Notes, register_session_interrupt_queue(n) PROVE NoteInv'
<1>1. /\ UNCHANGED <<conn, connections, sessions, works, queue, file, got, dest, loaded, crossed, excused>>
      /\ npc[n] = "register" /\ npc' = [npc EXCEPT ![n] = "enqueue"]
      /\ registry' = [registry EXCEPT ![dest[n]] = held[n]]
  BY DEF register_session_interrupt_queue, NGoto, agents, disk, history
<1>2. Calm
  BY <1>1 DEF Calm
<1>t. /\ npc \in [Notes -> NPCs] /\ dest[n] \in SessionIds
      /\ registry \in [SessionIds -> Conns \cup {None}]
  BY <1>1 DEF TypeOK, TypeNotes, TypeTables
<1>3. MatchInv'
  <2>1. Clean(dest[n]) => sessions[dest[n]] = held[n]
    BY <1>1 DEF Inv, MoveInv
  <2>2. \A s \in SessionIds : Clean(s) /\ Matched(s) => Matched(s)'
    BY <1>1, <1>t, <2>1 DEF Matched
  <2>3. \A s \in SessionIds : Clean(s)' /\ AtRest(s)' => Matched(s)'
    BY <1>1, <1>2, <2>2, CalmKeeps DEF NoteInv, MatchInv, Clean
  <2>4. ASSUME NEW c \in Conns, Clean(at[c])' PROVE MatchOf(c)'
    <3>1. /\ MatchOf(c) /\ Clean(at[c]) /\ at[c] \in SessionIds
          /\ pc'[c] = pc[c] /\ at'[c] = at[c] /\ want'[c] = want[c]
      BY <1>1, <2>4 DEF NoteInv, MatchInv, Clean, conn, TypeOK, TypeConn
    <3>2. pc[c] \in Resuming => /\ Clean(want[c]) /\ want[c] \in SessionIds
                                /\ at[c] \in Moving(c) /\ want[c] \in Moving(c)
      <4>1. pc[c] \in Resuming => /\ want[c] \in SessionIds
                                  /\ at[c] \in Moving(c) /\ want[c] \in Moving(c)
        BY DEF Moving, TypeOK, TypeConn
      <4> QED BY <3>1, <4>1, CleanMove DEF Inv
    <3>3. at[c] # dest[n] \/ pc[c] \notin Resuming
      BY <1>1, <3>1, <3>2 DEF Inv, MoveInv
    <3>4. /\ Matched(at[c]) => Matched(at[c])'
          /\ pc[c] \in Resuming => (Matched(want[c]) => Matched(want[c])')
          /\ pc[c] \in Resuming => registry'[at[c]] = registry[at[c]]
      BY <1>1, <1>t, <2>2, <3>1, <3>2, <3>3 DEF Matched
    <3> QED BY <3>1, <3>4 DEF MatchOf, Resuming
  <2>5. \A c \in Conns : MatchOf(c)'
    BY <2>4 DEF MatchOf
  <2> QED BY <2>3, <2>5 DEF MatchInv
<1>4. SendInv'
  <2>1. \A m \in Notes :
            npc'[m] \in {"agents", "register", "enqueue", "file", "append"} =>
                /\ npc[m] \in {"agents", "register", "enqueue", "file", "append"}
                /\ dest'[m] = dest[m]
                /\ npc'[m] \in {"register", "enqueue"} => npc[m] \in {"register", "enqueue"}
    BY <1>1, <1>t
  <2> QED BY <1>2, <2>1, CalmSend DEF NoteInv
<1>5. PlaceInv' /\ WaitsInv' /\ SavedInv'
  <2>1. \A m \in Notes :
            /\ npc'[m] = "done" => npc[m] = "done"
            /\ npc[m] # "new" => npc'[m] # "new"
            /\ npc'[m] = "append" => npc[m] = "append" /\ loaded'[m] = loaded[m]
    BY <1>1, <1>t
  <2> QED BY <1>1, <1>2, <2>1, QuietNotes
<1> QED BY <1>3, <1>4, <1>5 DEF NoteInv

(* LoadFile, EndTurn and steps that change nothing here. *)
LEMMA LoadNotes ==
    ASSUME TypeOK, NoteInv,
           \/ \E n \in Notes : LoadFile(n)
           \/ \E a \in Conns : EndTurn(a)
           \/ UNCHANGED vars
    PROVE  NoteInv'
<1>1. /\ UNCHANGED <<conn, tables, works, queue, file, got, dest, crossed, excused>>
      /\ \/ npc' = npc /\ loaded' = loaded
         \/ \E n \in Notes : \/ /\ npc[n] = "file" /\ npc' = [npc EXCEPT ![n] = "refused"]
                                /\ loaded' = loaded
                             \/ /\ npc[n] = "file" /\ npc' = [npc EXCEPT ![n] = "append"]
                                /\ loaded' = [loaded EXCEPT ![n] = file[dest[n]]]
  BY DEF LoadFile, EndTurn, NGoto, vars, agents, disk, senders, history
<1>2. Calm /\ registry' = registry
  BY <1>1 DEF Calm, tables
<1>t. npc \in [Notes -> NPCs] /\ loaded \in [Notes -> SUBSET Notes]
  BY DEF TypeOK, TypeNotes
<1>3. MatchInv'
  BY <1>2, CalmMatch DEF NoteInv
<1>4. SendInv'
  <2>1. \A m \in Notes :
            npc'[m] \in {"agents", "register", "enqueue", "file", "append"} =>
                /\ npc[m] \in {"agents", "register", "enqueue", "file", "append"}
                /\ dest'[m] = dest[m]
                /\ npc'[m] \in {"register", "enqueue"} => npc[m] \in {"register", "enqueue"}
    BY <1>1, <1>t
  <2> QED BY <1>2, <2>1, CalmSend DEF NoteInv
<1>5. PlaceInv' /\ WaitsInv' /\ SavedInv'
  <2>1. \A m \in Notes :
            /\ npc'[m] = "done" => npc[m] = "done"
            /\ npc[m] # "new" => npc'[m] # "new"
            /\ npc'[m] = "append" =>
                   \/ npc[m] = "append" /\ loaded'[m] = loaded[m]
                   \/ npc[m] # "new" /\ loaded'[m] = file[dest[m]]
    BY <1>1, <1>t
  <2> QED BY <1>1, <1>2, <2>1, QuietNotes
<1> QED BY <1>3, <1>4, <1>5 DEF NoteInv

(* A queue that is registered for a session at rest is the one of the      *)
(* agent that has the session loaded, and nobody else owns the session.    *)
LEMMA RestOwner ==
    ASSUME TypeOK, Inv, NEW s \in SessionIds, Clean(s), AtRest(s)
    PROVE  /\ \A a \in Conns : Owner(s, a) => sessions[s] = a
           /\ sessions[s] # None => Owner(s, sessions[s]) /\ registry[s] = sessions[s]
<1>1. ASSUME NEW a \in Conns, NEW c \in Conns, Owns(c, s, a) PROVE FALSE
  BY <1>1 DEF AtRest, Owns, Moving, Resuming, Leaving
<1>2. ASSUME NEW c \in Conns, Loading(c, s) PROVE FALSE
  BY <1>2 DEF AtRest, Loading, Moving, Resuming
<1>3. sessions[s] # None => works[sessions[s]] = s
  BY <1>2 DEF Inv, WorksInv, Fits
<1>4. ASSUME NEW c \in Conns, pc[c] = "rename", want[c] = s PROVE FALSE
  BY <1>4 DEF AtRest, Moving, Resuming
<1>5. sessions[s] # None => registry[s] = sessions[s]
  BY <1>4 DEF Inv, SessInv, RegInv
<1> QED BY <1>1, <1>3, <1>5 DEF Owner

(* queue_soft_interrupt_for_session: the queue that is registered is the   *)
(* right one.                                                              *)
LEMMA SendNotes ==
    ASSUME TypeOK, Inv, NoteInv, NEW n \in Notes, NEW s \in Known, SendNote(n, s) PROVE NoteInv'
<1>1. /\ UNCHANGED <<conn, tables, works, file, got, held, loaded, crossed>>
      /\ npc[n] = "new" /\ dest' = [dest EXCEPT ![n] = s]
      /\ excused' = IF \E c \in Conns : s \in Moving(c) THEN excused \cup {n} ELSE excused
      /\ \/ /\ registry[s] # None /\ npc' = [npc EXCEPT ![n] = "done"]
            /\ queue' = [queue EXCEPT ![registry[s]] = @ \cup {n}]
         \/ registry[s] = None /\ npc' = [npc EXCEPT ![n] = "agents"] /\ queue' = queue
  BY DEF SendNote, NGoto, disk
<1>s. s \in SessionIds
  BY DEF Known, SessionIds
<1>t. /\ npc \in [Notes -> NPCs] /\ dest \in [Notes -> SessionIds \cup {None}]
      /\ queue \in [Conns -> SUBSET Notes] /\ registry[s] \in Conns \cup {None}
      /\ \A a \in Conns : queue[a] \subseteq Notes
      /\ \A r \in SessionIds : file[r] \subseteq Notes
      /\ \A m \in Notes : loaded[m] \subseteq Notes
      /\ \A g \in got : g[1] \in Notes
      /\ \A m \in Notes : npc[m] # "new" => dest[m] \in SessionIds
  BY <1>s DEF TypeOK, TypeNotes, TypeTables
<1>2. Calm /\ registry' = registry
  BY <1>1 DEF Calm, tables
<1>3. /\ npc'[n] \in {"done", "agents"} /\ dest'[n] = s
      /\ \A m \in Notes \ {n} : npc'[m] = npc[m] /\ dest'[m] = dest[m] /\ (Tracked(m)' => Tracked(m))
      /\ Tracked(n)' => Clean(s) /\ AtRest(s)
      /\ \A a \in Conns : queue'[a] = queue[a] \/ (a = registry[s] /\ npc'[n] = "done" /\ queue'[a] = queue[a] \cup {n})
  <2>1. npc'[n] \in {"done", "agents"} /\ dest'[n] = s
    BY <1>1, <1>t
  <2>2. ASSUME NEW m \in Notes \ {n}
        PROVE  npc'[m] = npc[m] /\ dest'[m] = dest[m] /\ (Tracked(m)' => Tracked(m))
    BY <1>1, <1>t, <2>2 DEF Tracked, Clean
  <2>3. Tracked(n)' => Clean(s) /\ AtRest(s)
    BY <1>1, <2>1 DEF Tracked, Clean, AtRest
  <2>4. \A a \in Conns : queue'[a] = queue[a] \/ (a = registry[s] /\ npc'[n] = "done" /\ queue'[a] = queue[a] \cup {n})
    BY <1>1, <1>t
  <2> QED BY <2>1, <2>2, <2>3, <2>4
<1>4. MatchInv'
  BY <1>2, CalmMatch DEF NoteInv
<1>o. Tracked(n)' => /\ \A a \in Conns : Owner(s, a) => sessions[s] = a
                     /\ sessions[s] # None => Owner(s, sessions[s]) /\ registry[s] = sessions[s]
                     /\ registry[s] \in {None, sessions[s]} /\ AtRest(s)
  BY <1>3, <1>s, RestOwner DEF NoteInv, MatchInv, Matched
<1>5. SendInv'
  <2> SUFFICES ASSUME NEW m \in Notes, Tracked(m)',
                      npc'[m] \in {"agents", "register", "enqueue", "file", "append"}
               PROVE  /\ npc'[m] \notin {"register", "enqueue"} /\ sessions'[dest'[m]] = None
                      /\ AtRest(dest[m])'
    BY DEF SendInv
  <2>1. CASE m = n
    <3>1. npc'[m] = "agents" /\ registry[s] = None /\ dest'[m] = s
      BY <1>1, <1>3, <1>t, <2>1
    <3>2. sessions[s] = None /\ AtRest(s)
      BY <1>o, <2>1, <3>1
    <3>3. AtRest(dest[m])'
      BY <1>2, <3>1, <3>2, CalmKeeps DEF AtRest
    <3> QED BY <1>2, <3>1, <3>2, <3>3 DEF Calm
  <2>2. CASE m # n
    <3>1. npc'[m] = npc[m] /\ dest'[m] = dest[m] /\ Tracked(m)
      BY <1>3, <2>2
    <3>2. npc[m] \notin {"register", "enqueue"} /\ sessions[dest[m]] = None /\ AtRest(dest[m])
      BY <3>1 DEF NoteInv, SendInv
    <3>3. AtRest(dest[m])'
      BY <1>2, <3>1, <3>2, CalmKeeps DEF AtRest
    <3> QED BY <1>2, <3>1, <3>2, <3>3 DEF Calm
  <2> QED BY <2>1, <2>2
<1>6. PlaceInv'
  <2>0. /\ \A a \in Conns : n \notin queue[a]
        /\ \A r \in SessionIds : n \notin file[r]
        /\ \A m \in Notes : npc[m] = "append" => n \notin loaded[m]
        /\ \A g \in got : g[1] # n
    BY <1>1 DEF NoteInv, PlaceInv
  <2>1. ASSUME NEW a \in Conns, NEW m \in queue'[a]
        PROVE  npc'[m] # "new" /\ (Tracked(m)' => works'[a] = dest'[m])
    <3>1. CASE m = n
      <4>1. a = registry[s] /\ npc'[n] = "done"
        BY <1>3, <2>0, <2>1, <3>1
      <4>2. Tracked(n)' => works[a] = s
        BY <1>o, <2>1, <4>1, NamesAssumption DEF Owner
      <4> QED BY <1>1, <1>3, <3>1, <4>1, <4>2
    <3>2. CASE m # n
      <4>1. m \in queue[a] /\ m \in Notes
        BY <1>3, <1>t, <2>1, <3>2
      <4> QED BY <1>1, <1>3, <3>2, <4>1 DEF NoteInv, PlaceInv
    <3> QED BY <3>1, <3>2
  <2>2. \A r \in SessionIds : \A m \in file'[r] : npc'[m] # "new" /\ (Tracked(m)' => r = dest'[m])
    BY <1>1, <1>3, <1>t, <2>0 DEF NoteInv, PlaceInv
  <2>3. ASSUME NEW k \in Notes, npc'[k] = "append", NEW m \in loaded'[k]
        PROVE  npc'[m] # "new" /\ (Tracked(m)' => dest'[k] = dest'[m])
    <3>1. k # n /\ npc[k] = "append" /\ dest'[k] = dest[k] /\ m \in loaded[k]
      BY <1>1, <1>3, <2>3
    <3>2. m # n /\ m \in Notes
      BY <1>t, <2>0, <3>1
    <3> QED BY <1>3, <3>1, <3>2 DEF NoteInv, PlaceInv
  <2>4. \A g \in got' : npc'[g[1]] # "new" /\ (Tracked(g[1])' => g[2] = dest'[g[1]])
    <3>1. ASSUME NEW g \in got PROVE npc'[g[1]] # "new" /\ (Tracked(g[1])' => g[2] = dest'[g[1]])
      <4>1. g[1] \in Notes \ {n} /\ npc[g[1]] # "new" /\ (Tracked(g[1]) => g[2] = dest[g[1]])
        BY <1>t, <2>0, <3>1 DEF NoteInv, PlaceInv
      <4>2. PICK m \in Notes \ {n} : m = g[1]
        BY <4>1
      <4> QED BY <1>3, <4>1, <4>2 DEF Tracked, Clean
    <3> QED BY <1>1, <3>1
  <2> QED BY <2>1, <2>2, <2>3, <2>4 DEF PlaceInv
<1>7. WaitsInv'
  <2> SUFFICES ASSUME NEW m \in Notes, npc'[m] = "done", Tracked(m)', ~Given(m)'
               PROVE  /\ \A a \in Conns : Owner(dest[m], a)' => m \in queue'[a]
                      /\ (\A a \in Conns : ~Owner(dest[m], a)') => m \in file'[dest'[m]]
    BY DEF WaitsInv
  <2>1. CASE m = n
    <3>1. registry[s] # None /\ queue' = [queue EXCEPT ![registry[s]] = @ \cup {n}] /\ dest'[m] = s
      BY <1>1, <1>3, <1>t, <2>1
    <3>2. /\ registry[s] = sessions[s] /\ registry[s] \in Conns /\ n \in queue'[registry[s]]
          /\ Owner(s, registry[s]) /\ \A a \in Conns : Owner(s, a) => a = registry[s]
      BY <1>o, <1>t, <2>1, <3>1
    <3>3. \A a \in Conns : Owner(s, a)' <=> Owner(s, a)
      BY <1>2, <1>s, CalmKeeps
    <3>4. \A a \in Conns : Owner(dest[m], a)' <=> Owner(s, a)'
      BY <3>1 DEF Owner, Owns
    <3> QED BY <2>1, <3>1, <3>2, <3>3, <3>4
  <2>2. CASE m # n
    <3>1. npc[m] = "done" /\ dest'[m] = dest[m] /\ Tracked(m) /\ ~Given(m) /\ dest[m] \in SessionIds
      BY <1>1, <1>3, <1>t, <2>2 DEF Given
    <3>2. \A a \in Conns : Owner(dest[m], a)' <=> Owner(dest[m], a)
      BY <1>2, <3>1, CalmKeeps DEF Owner, Owns
    <3>3. \A a \in Conns : queue[a] \subseteq queue'[a]
      BY <1>3
    <3> QED BY <1>1, <3>1, <3>2, <3>3 DEF NoteInv, WaitsInv
  <2> QED BY <2>1, <2>2
<1>8. SavedInv'
  <2> SUFFICES ASSUME NEW e \in Conns, pc[e] = "restore", Clean(at[e]),
                      NEW m \in queue'[agent[e]], m \notin excused', dest'[m] = at[e]
               PROVE  m \in file[at[e]]
    BY <1>1 DEF SavedInv, conn, Clean
  <2>1. at[e] \in Moving(e) /\ agent[e] \in Conns
    BY DEF Moving, Resuming, TypeOK, TypeConn
  <2>2. m # n
    BY <1>1, <1>3, <2>1
  <2>3. m \in queue[agent[e]] /\ m \in Notes
    BY <1>3, <1>t, <2>1, <2>2
  <2>4. dest[m] = at[e] /\ m \notin excused
    BY <1>2, <1>3, <2>2, <2>3 DEF Calm
  <2> QED BY <2>3, <2>4 DEF NoteInv, SavedInv
<1> QED BY <1>4, <1>5, <1>6, <1>7, <1>8 DEF NoteInv

(* enqueue_soft_interrupt: only for a note that a hand-over has met. *)
LEMMA EnqueueNotes ==
    ASSUME TypeOK, NoteInv, NEW n \in Notes, enqueue_soft_interrupt(n) PROVE NoteInv'
<1>1. /\ UNCHANGED <<conn, tables, works, file, got, dest, loaded, crossed, excused>>
      /\ npc[n] = "enqueue" /\ npc' = [npc EXCEPT ![n] = "done"]
      /\ queue' = [queue EXCEPT ![held[n]] = @ \cup {n}]
  BY DEF enqueue_soft_interrupt, NGoto, disk, history
<1>2. Calm /\ registry' = registry
  BY <1>1 DEF Calm, tables
<1>t. /\ npc \in [Notes -> NPCs] /\ dest \in [Notes -> SessionIds \cup {None}]
      /\ queue \in [Conns -> SUBSET Notes] /\ file \in [SessionIds -> SUBSET Notes]
      /\ \A m \in Notes : loaded[m] \subseteq Notes
      /\ \A g \in got : g[1] \in Notes
      /\ \A m \in Notes : npc[m] # "new" => dest[m] \in SessionIds
  BY DEF TypeOK, TypeNotes, TypeTables
<1>3. /\ ~Tracked(n) /\ \A m \in Notes : Tracked(m)' <=> Tracked(m)
      /\ \A m \in Notes : npc[m] # "new" => npc'[m] # "new"
      /\ \A a \in Conns : queue[a] \subseteq queue'[a] /\ queue'[a] \subseteq queue[a] \cup {n}
      /\ \A m \in Notes : npc'[m] = "append" => npc[m] = "append"
  <2>1. ~Tracked(n)
    BY <1>1 DEF NoteInv, SendInv
  <2>2. \A m \in Notes : Tracked(m)' <=> Tracked(m)
    BY <1>1 DEF Tracked, Clean
  <2> QED BY <1>1, <1>t, <2>1, <2>2
<1>4. MatchInv'
  BY <1>2, CalmMatch DEF NoteInv
<1>5. SendInv'
  <2>1. \A m \in Notes :
            npc'[m] \in {"agents", "register", "enqueue", "file", "append"} =>
                /\ npc[m] \in {"agents", "register", "enqueue", "file", "append"}
                /\ dest'[m] = dest[m]
                /\ npc'[m] \in {"register", "enqueue"} => npc[m] \in {"register", "enqueue"}
    BY <1>1, <1>t
  <2> QED BY <1>2, <2>1, CalmSend DEF NoteInv
<1>6. PlaceInv'
  <2>1. ASSUME NEW a \in Conns, NEW m \in queue'[a]
        PROVE  npc'[m] # "new" /\ (Tracked(m)' => works'[a] = dest'[m])
    <3>1. m \in Notes /\ (m = n \/ m \in queue[a])
      BY <1>3, <1>t, <2>1
    <3> QED BY <1>1, <1>3, <3>1 DEF NoteInv, PlaceInv
  <2>2. \A r \in SessionIds : \A m \in file'[r] : npc'[m] # "new" /\ (Tracked(m)' => r = dest'[m])
    BY <1>1, <1>3, <1>t DEF NoteInv, PlaceInv
  <2>3. \A k \in Notes : npc'[k] = "append" =>
            \A m \in loaded'[k] : npc'[m] # "new" /\ (Tracked(m)' => dest'[k] = dest'[m])
    BY <1>1, <1>3, <1>t DEF NoteInv, PlaceInv
  <2>4. \A g \in got' : npc'[g[1]] # "new" /\ (Tracked(g[1])' => g[2] = dest'[g[1]])
    <3>1. \A g \in got : Tracked(g[1])' <=> Tracked(g[1])
      BY <1>1 DEF Tracked, Clean
    <3> QED BY <1>1, <1>3, <1>t, <3>1 DEF NoteInv, PlaceInv
  <2> QED BY <2>1, <2>2, <2>3, <2>4 DEF PlaceInv
<1>7. WaitsInv'
  <2> SUFFICES ASSUME NEW m \in Notes, npc'[m] = "done", Tracked(m)', ~Given(m)'
               PROVE  /\ \A a \in Conns : Owner(dest[m], a)' => m \in queue'[a]
                      /\ (\A a \in Conns : ~Owner(dest[m], a)') => m \in file'[dest'[m]]
    BY DEF WaitsInv
  <2>1. m # n /\ npc[m] = "done" /\ Tracked(m) /\ ~Given(m) /\ dest[m] \in SessionIds
    BY <1>1, <1>3, <1>t DEF Given
  <2>2. \A a \in Conns : Owner(dest[m], a)' <=> Owner(dest[m], a)
    BY <1>1, <1>2, <2>1, CalmKeeps DEF Owner, Owns
  <2> QED BY <1>1, <1>3, <2>1, <2>2 DEF NoteInv, WaitsInv
<1>8. SavedInv'
  <2> SUFFICES ASSUME NEW e \in Conns, pc[e] = "restore", Clean(at[e]),
                      NEW m \in queue'[agent[e]], m \notin excused, dest[m] = at[e]
               PROVE  m \in file[at[e]]
    BY <1>1 DEF SavedInv, conn, Clean
  <2>1. agent[e] \in Conns
    BY DEF TypeOK, TypeConn
  <2>2. m # n
    BY <1>3 DEF Tracked
  <2> QED BY <1>3, <2>1, <2>2 DEF NoteInv, SavedInv
<1> QED BY <1>4, <1>5, <1>6, <1>7, <1>8 DEF NoteInv

(* append: what was written to the file since it was read is noted. *)
LEMMA OverwriteNotes ==
    ASSUME TypeOK, Inv, NoteInv, NEW n \in Notes, OverwriteFile(n) PROVE NoteInv'
<1>1. /\ UNCHANGED <<conn, tables, works, queue, got, dest, loaded, crossed>>
      /\ npc[n] = "append" /\ npc' = [npc EXCEPT ![n] = "done"]
      /\ file' = [file EXCEPT ![dest[n]] = loaded[n] \cup {n}]
      /\ excused' = excused \cup (file[dest[n]] \ loaded[n])
  BY DEF OverwriteFile, NGoto, agents
<1>2. Calm /\ registry' = registry
  BY <1>1 DEF Calm, tables
<1>t. /\ npc \in [Notes -> NPCs] /\ dest \in [Notes -> SessionIds \cup {None}]
      /\ queue \in [Conns -> SUBSET Notes] /\ file \in [SessionIds -> SUBSET Notes]
      /\ \A m \in Notes : loaded[m] \subseteq Notes
      /\ \A g \in got : g[1] \in Notes
      /\ \A m \in Notes : npc[m] # "new" => dest[m] \in SessionIds
  BY DEF TypeOK, TypeNotes, TypeTables
<1>3. /\ \A m \in Notes : Tracked(m)' => Tracked(m)
      /\ \A m \in Notes : npc[m] # "new" => npc'[m] # "new"
      /\ \A m \in Notes : npc'[m] = "append" => npc[m] = "append"
      /\ dest[n] \in SessionIds /\ file'[dest[n]] = loaded[n] \cup {n}
      /\ \A r \in SessionIds \ {dest[n]} : file'[r] = file[r]
      /\ \A r \in SessionIds : \A m \in file[r] : m \in file'[r] \/ m \in excused'
  <2>1. \A m \in Notes : Tracked(m)' => Tracked(m)
    BY <1>1 DEF Tracked, Clean
  <2>2. /\ dest[n] \in SessionIds /\ file'[dest[n]] = loaded[n] \cup {n}
        /\ \A r \in SessionIds \ {dest[n]} : file'[r] = file[r]
    BY <1>1, <1>t
  <2>3. \A r \in SessionIds : \A m \in file[r] : m \in file'[r] \/ m \in excused'
    BY <1>1, <2>2
  <2> QED BY <1>1, <1>t, <2>1, <2>2, <2>3
<1>4. MatchInv'
  BY <1>2, CalmMatch DEF NoteInv
<1>5. SendInv'
  <2>1. \A m \in Notes :
            npc'[m] \in {"agents", "register", "enqueue", "file", "append"} =>
                /\ npc[m] \in {"agents", "register", "enqueue", "file", "append"}
                /\ dest'[m] = dest[m]
                /\ npc'[m] \in {"register", "enqueue"} => npc[m] \in {"register", "enqueue"}
    BY <1>1, <1>t
  <2> QED BY <1>2, <2>1, CalmSend DEF NoteInv
<1>6. PlaceInv'
  <2>1. \A a \in Conns : \A m \in queue'[a] : npc'[m] # "new" /\ (Tracked(m)' => works'[a] = dest'[m])
    BY <1>1, <1>3, <1>t DEF NoteInv, PlaceInv
  <2>2. ASSUME NEW r \in SessionIds, NEW m \in file'[r]
        PROVE  npc'[m] # "new" /\ (Tracked(m)' => r = dest'[m])
    <3>1. CASE r = dest[n] /\ m = n
      BY <1>1, <1>3, <3>1
    <3>2. CASE r = dest[n] /\ m \in loaded[n]
      BY <1>1, <1>3, <1>t, <3>2 DEF NoteInv, PlaceInv
    <3>3. CASE r # dest[n]
      BY <1>1, <1>3, <1>t, <2>2, <3>3 DEF NoteInv, PlaceInv
    <3> QED BY <1>3, <2>2, <3>1, <3>2, <3>3
  <2>3. \A k \in Notes : npc'[k] = "append" =>
            \A m \in loaded'[k] : npc'[m] # "new" /\ (Tracked(m)' => dest'[k] = dest'[m])
    BY <1>1, <1>3, <1>t DEF NoteInv, PlaceInv
  <2>4. \A g \in got' : npc'[g[1]] # "new" /\ (Tracked(g[1])' => g[2] = dest'[g[1]])
    <3>1. \A g \in got : Tracked(g[1])' => Tracked(g[1])
      BY <1>1 DEF Tracked, Clean
    <3> QED BY <1>1, <1>3, <1>t, <3>1 DEF NoteInv, PlaceInv
  <2> QED BY <2>1, <2>2, <2>3, <2>4 DEF PlaceInv
<1>7. WaitsInv'
  <2> SUFFICES ASSUME NEW m \in Notes, npc'[m] = "done", Tracked(m)', ~Given(m)'
               PROVE  /\ \A a \in Conns : Owner(dest[m], a)' => m \in queue'[a]
                      /\ (\A a \in Conns : ~Owner(dest[m], a)') => m \in file'[dest'[m]]
    BY DEF WaitsInv
  <2>0. Tracked(m) /\ ~Given(m) /\ dest[m] \in SessionIds /\ m \notin excused'
    BY <1>1, <1>3, <1>t DEF Given, Tracked
  <2>1. \A a \in Conns : Owner(dest[m], a)' <=> Owner(dest[m], a)
    BY <1>1, <1>2, <2>0, CalmKeeps DEF Owner, Owns
  <2>2. CASE m = n
    <3>1. sessions[dest[n]] = None /\ AtRest(dest[n])
      BY <1>1, <2>0, <2>2 DEF NoteInv, SendInv
    <3>2. \A a \in Conns : ~Owner(dest[n], a)
      BY <1>3, <2>0, <2>2, <3>1, RestOwner, NamesAssumption DEF Tracked
    <3> QED BY <1>1, <1>3, <2>1, <2>2, <3>2
  <2>3. CASE m # n
    <3>1. npc[m] = "done"
      BY <1>1, <1>t, <2>3
    <3>2. /\ \A a \in Conns : Owner(dest[m], a) => m \in queue[a]
          /\ (\A a \in Conns : ~Owner(dest[m], a)) => m \in file[dest[m]]
      BY <2>0, <3>1 DEF NoteInv, WaitsInv
    <3> QED BY <1>1, <1>3, <2>0, <2>1, <3>2
  <2> QED BY <2>2, <2>3
<1>8. SavedInv'
  <2> SUFFICES ASSUME NEW e \in Conns, pc[e] = "restore", Clean(at[e]),
                      NEW m \in queue[agent[e]], m \notin excused', dest[m] = at[e]
               PROVE  m \in file'[at[e]]
    BY <1>1 DEF SavedInv, conn, Clean
  <2>1. at[e] \in SessionIds /\ m \notin excused
    BY <1>1 DEF TypeOK, TypeConn
  <2>2. m \in file[at[e]]
    BY <2>1 DEF NoteInv, SavedInv
  <2> QED BY <1>3, <2>1, <2>2
<1> QED BY <1>4, <1>5, <1>6, <1>7, <1>8 DEF NoteInv

(* inject_soft_interrupts gives the model what is in the queue. *)
LEMMA InjectNotes ==
    ASSUME TypeOK, NoteInv, NEW b \in Conns, inject_soft_interrupts(b) PROVE NoteInv'
<1>1. /\ UNCHANGED <<conn, tables, works, file, npc, dest, loaded, crossed, excused>>
      /\ got' = got \cup (queue[b] \X {works[b]})
      /\ queue' = [queue EXCEPT ![b] = {}]
  BY DEF inject_soft_interrupts, disk, senders, history
<1>2. Calm /\ registry' = registry
  BY <1>1 DEF Calm, tables
<1>t. /\ npc \in [Notes -> NPCs] /\ dest \in [Notes -> SessionIds \cup {None}]
      /\ queue \in [Conns -> SUBSET Notes] /\ file \in [SessionIds -> SUBSET Notes]
      /\ \A m \in Notes : loaded[m] \subseteq Notes
      /\ \A g \in got : g[1] \in Notes
      /\ \A m \in Notes : npc[m] # "new" => dest[m] \in SessionIds
      /\ works[b] \in SessionIds
  BY DEF TypeOK, TypeNotes, TypeTables
<1>3. /\ \A m \in Notes : Tracked(m)' <=> Tracked(m)
      /\ \A a \in Conns : queue'[a] = IF a = b THEN {} ELSE queue[a]
  BY <1>1, <1>t DEF Tracked, Clean
<1>4. MatchInv'
  BY <1>2, CalmMatch DEF NoteInv
<1>5. SendInv'
  <2>1. \A m \in Notes :
            npc'[m] \in {"agents", "register", "enqueue", "file", "append"} =>
                /\ npc[m] \in {"agents", "register", "enqueue", "file", "append"}
                /\ dest'[m] = dest[m]
                /\ npc'[m] \in {"register", "enqueue"} => npc[m] \in {"register", "enqueue"}
    BY <1>1, <1>t
  <2> QED BY <1>2, <2>1, CalmSend DEF NoteInv
<1>6. PlaceInv'
  <2>1. \A a \in Conns : \A m \in queue'[a] : npc'[m] # "new" /\ (Tracked(m)' => works'[a] = dest'[m])
    BY <1>1, <1>3, <1>t DEF NoteInv, PlaceInv
  <2>2. \A r \in SessionIds : \A m \in file'[r] : npc'[m] # "new" /\ (Tracked(m)' => r = dest'[m])
    BY <1>1, <1>3, <1>t DEF NoteInv, PlaceInv
  <2>3. \A k \in Notes : npc'[k] = "append" =>
            \A m \in loaded'[k] : npc'[m] # "new" /\ (Tracked(m)' => dest'[k] = dest'[m])
    BY <1>1, <1>3, <1>t DEF NoteInv, PlaceInv
  <2>4. ASSUME NEW g \in got' PROVE npc'[g[1]] # "new" /\ (Tracked(g[1])' => g[2] = dest'[g[1]])
    <3>0. Tracked(g[1])' <=> Tracked(g[1])
      BY <1>1 DEF Tracked, Clean
    <3>1. CASE g \in got
      BY <1>1, <3>0, <3>1 DEF NoteInv, PlaceInv
    <3>2. CASE g \in queue[b] \X {works[b]}
      <4>1. g[1] \in queue[b] /\ g[2] = works[b]
        BY <3>2
      <4> QED BY <1>1, <3>0, <4>1 DEF NoteInv, PlaceInv
    <3> QED BY <1>1, <2>4, <3>1, <3>2
  <2> QED BY <2>1, <2>2, <2>3, <2>4 DEF PlaceInv
<1>7. WaitsInv'
  <2> SUFFICES ASSUME NEW m \in Notes, npc'[m] = "done", Tracked(m)', ~Given(m)'
               PROVE  /\ \A a \in Conns : Owner(dest[m], a)' => m \in queue'[a]
                      /\ (\A a \in Conns : ~Owner(dest[m], a)') => m \in file'[dest'[m]]
    BY DEF WaitsInv
  <2>0. npc[m] = "done" /\ Tracked(m) /\ ~Given(m) /\ dest[m] \in SessionIds
    BY <1>1, <1>3, <1>t DEF Given
  <2>1. m \notin queue[b]
    <3>1. m \in queue[b] => <<m, works[b]>> \in got'
      BY <1>1
    <3> QED BY <1>t, <3>1 DEF Given
  <2>2. \A a \in Conns : Owner(dest[m], a)' <=> Owner(dest[m], a)
    BY <1>1, <1>2, <2>0, CalmKeeps DEF Owner, Owns
  <2>3. /\ \A a \in Conns : Owner(dest[m], a) => m \in queue[a]
        /\ (\A a \in Conns : ~Owner(dest[m], a)) => m \in file[dest[m]]
    BY <2>0 DEF NoteInv, WaitsInv
  <2> QED BY <1>1, <1>3, <2>1, <2>2, <2>3
<1>8. SavedInv'
  <2> SUFFICES ASSUME NEW e \in Conns, pc[e] = "restore", Clean(at[e]),
                      NEW m \in queue'[agent[e]], m \notin excused, dest[m] = at[e]
               PROVE  m \in file[at[e]]
    BY <1>1 DEF SavedInv, conn, Clean
  <2>1. agent[e] \in Conns /\ m \in queue[agent[e]]
    BY <1>3 DEF TypeOK, TypeConn
  <2> QED BY <2>1 DEF NoteInv, SavedInv
<1> QED BY <1>4, <1>5, <1>6, <1>7, <1>8 DEF NoteInv

(* Every step keeps the invariant of the notes. *)
LEMMA NoteStep == TypeOK /\ Inv /\ NoteInv /\ [Next]_vars => NoteInv'
<1> SUFFICES ASSUME TypeOK, Inv, NoteInv, [Next]_vars PROVE NoteInv'
  OBVIOUS
<1>1. ASSUME NEW c \in Conns, Connect(c) PROVE NoteInv'
  BY <1>1, ConnectNotes
<1>2. ASSUME NEW c \in Conns, ConnStep(c) PROVE NoteInv'
  BY <1>2, ConnNotes
<1>3. ASSUME NEW a \in Conns, EndTurn(a) PROVE NoteInv'
  BY <1>3, LoadNotes
<1>4. ASSUME NEW a \in Conns, inject_soft_interrupts(a) PROVE NoteInv'
  BY <1>4, InjectNotes
<1>5. ASSUME NEW n \in Notes, SendStep(n) PROVE NoteInv'
  BY <1>5, FindNotes, RegisterNotes, EnqueueNotes, LoadNotes, OverwriteNotes DEF SendStep
<1>6. ASSUME NEW n \in Notes, NEW s \in Known, SendNote(n, s) PROVE NoteInv'
  BY <1>6, SendNotes
<1>7. CASE UNCHANGED vars
  BY <1>7, LoadNotes
<1> QED BY <1>1, <1>2, <1>3, <1>4, <1>5, <1>6, <1>7 DEF Next, ConnStep

(* The invariant of the notes, at every time. *)
LEMMA NoteAlways == Spec => []NoteInv
<1>1. Init => NoteInv
  <2> SUFFICES ASSUME Init PROVE NoteInv
    OBVIOUS
  <2>1. MatchInv
    BY DEF Init, MatchInv, Matched, MatchOf
  <2>2. SendInv /\ PlaceInv /\ WaitsInv /\ SavedInv
    BY DEF Init, SendInv, PlaceInv, WaitsInv, SavedInv
  <2> QED BY <2>1, <2>2 DEF NoteInv
<1> QED BY <1>1, TypeCorrect, InvAlways, NoteStep, PTL DEF Spec

(* A note that was accepted, was not sent during a hand-over and met no    *)
(* other writer of the file is given to the model or waits where it will   *)
(* be found, for any number of connections, sessions, notes, turns and     *)
(* requests (state.rs 483-563, interrupts.rs 52-108).                      *)
THEOREM NotesAreKept == Spec => []NoteIsKept
<1>1. TypeOK /\ NoteInv => NoteIsKept
  <2> SUFFICES ASSUME TypeOK, NoteInv, NEW n \in Notes, npc[n] = "done", Tracked(n)
               PROVE  \/ Given(n) \/ n \in file[dest[n]]
                      \/ \E a \in Conns : /\ n \in queue[a] /\ works[a] = dest[n]
                                          /\ \/ sessions[dest[n]] = a
                                             \/ \E c \in Conns : dest[n] \in Moving(c)
    BY DEF NoteIsKept, Tracked, Given, Clean
  <2>1. CASE ~Given(n) /\ \E a \in Conns : Owner(dest[n], a)
    <3>1. PICK a \in Conns : Owner(dest[n], a) /\ n \in queue[a]
      BY <2>1 DEF NoteInv, WaitsInv
    <3>2. \A c \in Conns : Owns(c, dest[n], a) => dest[n] \in Moving(c)
      BY DEF Owns, Moving, Resuming, Leaving
    <3> QED BY <3>1, <3>2 DEF Owner
  <2> QED BY <2>1 DEF NoteInv, WaitsInv
<1> QED BY <1>1, TypeCorrect, NoteAlways, PTL

(* A note is given to the model in the session it was sent to, although an *)
(* agent changes sessions with its queue (turn_execution.rs 409-431,       *)
(* client_session.rs 1013-1061).                                           *)
THEOREM NotesReachTheirSession == Spec => []NoteIsForSession
<1>1. NoteInv => NoteIsForSession
  BY DEF NoteInv, PlaceInv, Tracked, Clean, NoteIsForSession
<1> QED BY <1>1, NoteAlways, PTL

=============================================================================
