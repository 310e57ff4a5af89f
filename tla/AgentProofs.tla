---------------------------- MODULE AgentProofs ----------------------------
(***************************************************************************)
(* Proofs about an agent at work: the MCP pool its tools use (McpPool) and *)
(* the turns that extend its conversation (AgentTurn), for any constants.  *)
(*                                                                         *)
(* Of the pool: the type invariant, single flight (the pool refines        *)
(* SingleFlight), that its handles belong to live clients, and that the    *)
(* cooldown of a failed server limits the attempts.  Of the turns: that    *)
(* what a request carries is saved, and that it pairs every call of the    *)
(* model with one result at its place.                                     *)
(***************************************************************************)
EXTENDS McpPool, AgentTurn, FiniteSetTheorems, SequenceTheorems, TLAPS

(* Who is inside ensure_connected: a leader's attempt is the one in        *)
(* connecting and nobody else leads; a waiter that was woken, like a leader*)
(* that is about to notify, has an attempt that is over.                   *)
FlightInv ==
    /\ \A m \in Callers, s \in Servers :
         /\ pc[m][s] # "out" => op[m] \in Calling /\ s \in on[m]
         /\ pc[m][s] \in Leading => connecting[s] = mine[m][s]
         /\ pc[m][s] \in Leading \cup Waiting \cup {"notify"} => mine[m][s] # 0
         /\ pc[m][s] \in {"notify", "woken"} => connecting[s] # mine[m][s]
         /\ mine[m][s] <= flights
    /\ \A m, d \in Callers : \A s \in Servers :
         pc[m][s] \in Leading /\ pc[d][s] \in Leading => m = d
    /\ \A s \in Servers : connecting[s] <= flights

(* No client belongs to two servers, none in the pool is shut down, and an *)
(* attempt that has not inserted its client is new to the pool.            *)
ClientInv ==
    /\ 0 \notin down /\ \A f \in down : f <= flights
    /\ \A s \in Servers : clients[s] \notin down /\ clients[s] <= flights
    /\ \A s, t \in Servers : clients[s] = clients[t] /\ clients[s] # 0 => s = t
    /\ \A s, t \in Servers : connecting[s] = connecting[t] /\ connecting[s] # 0 => s = t
    /\ \A m \in Callers, s \in Servers :
         pc[m][s] \in {"connecting", "insert_client"} =>
            /\ mine[m][s] \notin down
            /\ \A t \in Servers : clients[t] # mine[m][s]

(* What the halves of a change leave behind, unless two changes overlapped. *)
HalvesAt(s) ==
    s \notin torn =>
        /\ \A m \in Callers : pc[m][s] = "insert_client" => handles[s] = mine[m][s]
        /\ \A m \in Callers : Removing(m, s) => handles[s] = 0 /\ ~Inserting(s)
        /\ (~Inserting(s) /\ ~BeingRemoved(s)) => handles[s] = clients[s]

HalvesInv == \A s \in Servers : HalvesAt(s)

-----------------------------------------------------------------------------
(* Every lock section keeps the state well typed. *)
LEMMA TypeStep == TypeOK /\ [Next]_vars => TypeOK'
<1> SUFFICES ASSUME TypeOK, [Next]_vars PROVE TypeOK'
  OBVIOUS
<1> USE BoundAssumption, CallersAssumption DEF calls, pool, bounds, history, TypeOK,
      Flight, Asking, Calling, Dropping, Leading, Waiting
<1>1. ASSUME NEW m \in Callers, NEW s \in Servers, CheckHandles(m, s) PROVE TypeOK'
  BY <1>1 DEF CheckHandles, Goto
<1>2. ASSUME NEW m \in Callers, NEW s \in Servers, Suppressed(m, s) PROVE TypeOK'
  BY <1>2 DEF Suppressed, Goto, Return
<1>3. ASSUME NEW m \in Callers, NEW s \in Servers, NotSuppressed(m, s) PROVE TypeOK'
  BY <1>3 DEF NotSuppressed, Goto
<1>4. ASSUME NEW m \in Callers, NEW s \in Servers, JoinAttempt(m, s) PROVE TypeOK'
  BY <1>4 DEF JoinAttempt, Goto
<1>5. ASSUME NEW m \in Callers, NEW s \in Servers, AlreadyConnected(m, s) PROVE TypeOK'
  BY <1>5 DEF AlreadyConnected, Goto, Return
<1>6. ASSUME NEW m \in Callers, NEW s \in Servers, LeadAttempt(m, s) PROVE TypeOK'
  BY <1>6 DEF LeadAttempt, Goto
<1>7. ASSUME NEW m \in Callers, NEW s \in Servers, Connected(m, s) PROVE TypeOK'
  BY <1>7 DEF Connected, Goto
<1>8. ASSUME NEW m \in Callers, NEW s \in Servers, ConnectFailed(m, s) PROVE TypeOK'
  BY <1>8 DEF ConnectFailed, Goto
<1>9. ASSUME NEW m \in Callers, NEW s \in Servers, InsertClient(m, s) PROVE TypeOK'
  BY <1>9 DEF InsertClient, Goto
<1>10. ASSUME NEW m \in Callers, NEW s \in Servers, ClearError(m, s) PROVE TypeOK'
  BY <1>10 DEF ClearError, Goto
<1>11. ASSUME NEW m \in Callers, NEW s \in Servers, RemoveConnecting(m, s) PROVE TypeOK'
  BY <1>11 DEF RemoveConnecting, Goto
<1>12. ASSUME NEW m \in Callers, NEW s \in Servers, notify_waiters(m, s) PROVE TypeOK'
  BY <1>12 DEF notify_waiters
<1>13. ASSUME NEW m \in Callers, NEW s \in Servers, notified(m, s) PROVE TypeOK'
  BY <1>13 DEF notified, Goto
<1>14. ASSUME NEW m \in Callers, NEW s \in Servers, Woken(m, s) PROVE TypeOK'
  BY <1>14 DEF Woken, Goto, Return
<1>15. ASSUME NEW m \in Callers, connect(m) PROVE TypeOK'
  BY <1>15 DEF connect, StartCalls
<1>16. ASSUME NEW m \in Callers, connect_all(m) PROVE TypeOK'
  BY <1>16 DEF connect_all, StartCalls
<1>17. ASSUME NEW m \in Callers, TakeHandles(m) PROVE TypeOK'
  BY <1>17 DEF TakeHandles, Finish
<1>18. ASSUME NEW m \in Callers, SecondRound(m) PROVE TypeOK'
  BY <1>18 DEF SecondRound, StartCalls
<1>19. ASSUME NEW m \in Callers, DropServer(m) PROVE TypeOK'
  BY <1>19 DEF DropServer, DropHandles
<1>20. ASSUME NEW m \in Callers, reload(m) PROVE TypeOK'
  BY <1>20 DEF reload, DropHandles
<1>21. ASSUME NEW m \in Callers, DropClients(m) PROVE TypeOK'
  <2>1. down' \subseteq Flight
    BY <1>21 DEF DropClients
  <2> QED BY <1>21, <2>1 DEF DropClients
<1>22. ASSUME NEW m \in Callers, Disconnected(m) PROVE TypeOK'
  BY <1>22 DEF Disconnected, Finish, ForgetErrors
<1>23. ASSUME NEW m \in Callers, FirstRound(m) PROVE TypeOK'
  BY <1>23 DEF FirstRound, ForgetErrors, StartCalls
<1>24. ASSUME NEW m \in Callers, Abort(m) PROVE TypeOK'
  <2>1. \A x \in orphans' : x \in orphans \/ \E s \in Servers : x = mine[m][s]
    BY <1>24 DEF Abort, Finish
  <2>2. orphans' \subseteq Flight
    <3>1. orphans \subseteq Flight /\ \A s \in Servers : mine[m][s] \in Flight
      OBVIOUS
    <3> HIDE DEF TypeOK, Flight
    <3> QED BY <2>1, <3>1
  <2> QED BY <1>24, <2>2 DEF Abort, Finish
<1>25. ASSUME NEW s \in Servers, Cooldown(s) PROVE TypeOK'
  BY <1>25 DEF Cooldown
<1>26. ASSUME UNCHANGED vars PROVE TypeOK'
  BY <1>26 DEF vars
<1>27. ASSUME NEW m \in Callers, NEW s \in Servers, connect_server(m, s) PROVE TypeOK'
  BY <1>27 DEF connect_server, Ask
<1>28. ASSUME NEW m \in Callers, NEW s \in Servers, disconnect_server(m, s) PROVE TypeOK'
  BY <1>28 DEF disconnect_server, Ask
<1>29. ASSUME NEW m \in Callers, AlreadyDropped(m) PROVE TypeOK'
  BY <1>29 DEF AlreadyDropped, Finish
<1> HIDE DEF calls, pool, bounds, history, TypeOK, Flight, Asking, Calling, Dropping, Leading,
      Waiting
<1> QED
  BY <1>1, <1>2, <1>3, <1>4, <1>5, <1>6, <1>7, <1>8, <1>9, <1>10, <1>11, <1>12,
     <1>13, <1>14, <1>15, <1>16, <1>17, <1>18, <1>19, <1>20, <1>21, <1>22, <1>23,
     <1>24, <1>25, <1>26, <1>27, <1>28, <1>29 DEF Next, Call, Operation, Start, CheckErrors,
     begin_connect, ConnectEnds, CallsReturned, disconnect, DropErrors

(* The type invariant of the pool and of its managers: every attempt,       *)
(* handle and client in the maps of the pool is one that was made, and the *)
(* errors are recent, old or absent.                                       *)
THEOREM TypeCorrect == Spec => []TypeOK
<1>1. Init => TypeOK
  BY BoundAssumption DEF Init, TypeOK, Flight
<1> QED
  BY <1>1, TypeStep, PTL DEF Spec

(* Every lock section keeps one leader per server. *)
LEMMA FlightStep == TypeOK /\ FlightInv /\ [Next]_vars => FlightInv'
<1> SUFFICES ASSUME TypeOK, FlightInv, [Next]_vars PROVE FlightInv'
  OBVIOUS
<1> USE BoundAssumption DEF calls, pool, bounds, history, TypeOK, FlightInv, Flight,
      Leading, Waiting, Calling
<1>1. ASSUME NEW m \in Callers, NEW s \in Servers, CheckHandles(m, s) PROVE FlightInv'
  BY <1>1 DEF CheckHandles, Goto
<1>2. ASSUME NEW m \in Callers, NEW s \in Servers, Suppressed(m, s) PROVE FlightInv'
  BY <1>2 DEF Suppressed, Goto, Return
<1>3. ASSUME NEW m \in Callers, NEW s \in Servers, NotSuppressed(m, s) PROVE FlightInv'
  BY <1>3 DEF NotSuppressed, Goto
<1>4. ASSUME NEW m \in Callers, NEW s \in Servers, JoinAttempt(m, s) PROVE FlightInv'
  BY <1>4 DEF JoinAttempt, Goto
<1>5. ASSUME NEW m \in Callers, NEW s \in Servers, AlreadyConnected(m, s) PROVE FlightInv'
  BY <1>5 DEF AlreadyConnected, Goto, Return
<1>6. ASSUME NEW m \in Callers, NEW s \in Servers, LeadAttempt(m, s) PROVE FlightInv'
  BY <1>6 DEF LeadAttempt, Goto
<1>7. ASSUME NEW m \in Callers, NEW s \in Servers, Connected(m, s) PROVE FlightInv'
  BY <1>7 DEF Connected, Goto
<1>8. ASSUME NEW m \in Callers, NEW s \in Servers, ConnectFailed(m, s) PROVE FlightInv'
  BY <1>8 DEF ConnectFailed, Goto
<1>9. ASSUME NEW m \in Callers, NEW s \in Servers, InsertClient(m, s) PROVE FlightInv'
  BY <1>9 DEF InsertClient, Goto
<1>10. ASSUME NEW m \in Callers, NEW s \in Servers, ClearError(m, s) PROVE FlightInv'
  BY <1>10 DEF ClearError, Goto
<1>11. ASSUME NEW m \in Callers, NEW s \in Servers, RemoveConnecting(m, s) PROVE FlightInv'
  BY <1>11 DEF RemoveConnecting, Goto
<1>12. ASSUME NEW m \in Callers, NEW s \in Servers, notify_waiters(m, s) PROVE FlightInv'
  BY <1>12 DEF notify_waiters
<1>13. ASSUME NEW m \in Callers, NEW s \in Servers, notified(m, s) PROVE FlightInv'
  BY <1>13 DEF notified, Goto
<1>14. ASSUME NEW m \in Callers, NEW s \in Servers, Woken(m, s) PROVE FlightInv'
  BY <1>14 DEF Woken, Goto, Return
<1>15. ASSUME NEW m \in Callers, connect(m) PROVE FlightInv'
  BY <1>15 DEF connect, StartCalls
<1>16. ASSUME NEW m \in Callers, connect_all(m) PROVE FlightInv'
  BY <1>16 DEF connect_all, StartCalls
<1>17. ASSUME NEW m \in Callers, TakeHandles(m) PROVE FlightInv'
  BY <1>17 DEF TakeHandles, Finish
<1>18. ASSUME NEW m \in Callers, SecondRound(m) PROVE FlightInv'
  BY <1>18 DEF SecondRound, StartCalls
<1>19. ASSUME NEW m \in Callers, DropServer(m) PROVE FlightInv'
  BY <1>19 DEF DropServer, DropHandles
<1>20. ASSUME NEW m \in Callers, reload(m) PROVE FlightInv'
  BY <1>20 DEF reload, DropHandles
<1>21. ASSUME NEW m \in Callers, DropClients(m) PROVE FlightInv'
  BY <1>21 DEF DropClients
<1>22. ASSUME NEW m \in Callers, Disconnected(m) PROVE FlightInv'
  BY <1>22 DEF Disconnected, Finish, ForgetErrors
<1>23. ASSUME NEW m \in Callers, FirstRound(m) PROVE FlightInv'
  BY <1>23 DEF FirstRound, ForgetErrors, StartCalls
<1>24. ASSUME NEW m \in Callers, Abort(m) PROVE FlightInv'
  BY <1>24 DEF Abort, Finish
<1>25. ASSUME NEW s \in Servers, Cooldown(s) PROVE FlightInv'
  BY <1>25 DEF Cooldown
<1>26. ASSUME UNCHANGED vars PROVE FlightInv'
  BY <1>26 DEF vars
<1>27. ASSUME NEW m \in Callers, NEW s \in Servers, connect_server(m, s) PROVE FlightInv'
  BY <1>27 DEF connect_server, Ask
<1>28. ASSUME NEW m \in Callers, NEW s \in Servers, disconnect_server(m, s) PROVE FlightInv'
  BY <1>28 DEF disconnect_server, Ask
<1>29. ASSUME NEW m \in Callers, AlreadyDropped(m) PROVE FlightInv'
  BY <1>29 DEF AlreadyDropped, Finish
<1> HIDE DEF calls, pool, bounds, history, TypeOK, FlightInv, Flight, Leading, Waiting,
      Calling
<1> QED
  BY <1>1, <1>2, <1>3, <1>4, <1>5, <1>6, <1>7, <1>8, <1>9, <1>10, <1>11, <1>12,
     <1>13, <1>14, <1>15, <1>16, <1>17, <1>18, <1>19, <1>20, <1>21, <1>22, <1>23,
     <1>24, <1>25, <1>26, <1>27, <1>28, <1>29 DEF Next, Call, Operation, Start, CheckErrors,
     begin_connect, ConnectEnds, CallsReturned, disconnect, DropErrors

(* Every lock section keeps the clients apart. *)
LEMMA ClientStep == TypeOK /\ FlightInv /\ ClientInv /\ [Next]_vars => ClientInv'
<1> SUFFICES ASSUME TypeOK, FlightInv, ClientInv, [Next]_vars PROVE ClientInv'
  OBVIOUS
<1> USE BoundAssumption DEF calls, pool, bounds, history, TypeOK, FlightInv, ClientInv,
      Flight, Leading
<1>1. ASSUME NEW m \in Callers, NEW s \in Servers, CheckHandles(m, s) PROVE ClientInv'
  BY <1>1 DEF CheckHandles, Goto
<1>2. ASSUME NEW m \in Callers, NEW s \in Servers, Suppressed(m, s) PROVE ClientInv'
  BY <1>2 DEF Suppressed, Goto, Return
<1>3. ASSUME NEW m \in Callers, NEW s \in Servers, NotSuppressed(m, s) PROVE ClientInv'
  BY <1>3 DEF NotSuppressed, Goto
<1>4. ASSUME NEW m \in Callers, NEW s \in Servers, JoinAttempt(m, s) PROVE ClientInv'
  BY <1>4 DEF JoinAttempt, Goto
<1>5. ASSUME NEW m \in Callers, NEW s \in Servers, AlreadyConnected(m, s) PROVE ClientInv'
  BY <1>5 DEF AlreadyConnected, Goto, Return
<1>6. ASSUME NEW m \in Callers, NEW s \in Servers, LeadAttempt(m, s) PROVE ClientInv'
  BY <1>6 DEF LeadAttempt, Goto
<1>7. ASSUME NEW m \in Callers, NEW s \in Servers, Connected(m, s) PROVE ClientInv'
  BY <1>7 DEF Connected, Goto
<1>8. ASSUME NEW m \in Callers, NEW s \in Servers, ConnectFailed(m, s) PROVE ClientInv'
  BY <1>8 DEF ConnectFailed, Goto
<1>9. ASSUME NEW m \in Callers, NEW s \in Servers, InsertClient(m, s) PROVE ClientInv'
  BY <1>9 DEF InsertClient, Goto
<1>10. ASSUME NEW m \in Callers, NEW s \in Servers, ClearError(m, s) PROVE ClientInv'
  BY <1>10 DEF ClearError, Goto
<1>11. ASSUME NEW m \in Callers, NEW s \in Servers, RemoveConnecting(m, s) PROVE ClientInv'
  BY <1>11 DEF RemoveConnecting, Goto
<1>12. ASSUME NEW m \in Callers, NEW s \in Servers, notify_waiters(m, s) PROVE ClientInv'
  BY <1>12 DEF notify_waiters
<1>13. ASSUME NEW m \in Callers, NEW s \in Servers, notified(m, s) PROVE ClientInv'
  BY <1>13 DEF notified, Goto
<1>14. ASSUME NEW m \in Callers, NEW s \in Servers, Woken(m, s) PROVE ClientInv'
  BY <1>14 DEF Woken, Goto, Return
<1>15. ASSUME NEW m \in Callers, connect(m) PROVE ClientInv'
  BY <1>15 DEF connect, StartCalls
<1>16. ASSUME NEW m \in Callers, connect_all(m) PROVE ClientInv'
  BY <1>16 DEF connect_all, StartCalls
<1>17. ASSUME NEW m \in Callers, TakeHandles(m) PROVE ClientInv'
  BY <1>17 DEF TakeHandles, Finish
<1>18. ASSUME NEW m \in Callers, SecondRound(m) PROVE ClientInv'
  BY <1>18 DEF SecondRound, StartCalls
<1>19. ASSUME NEW m \in Callers, DropServer(m) PROVE ClientInv'
  BY <1>19 DEF DropServer, DropHandles
<1>20. ASSUME NEW m \in Callers, reload(m) PROVE ClientInv'
  BY <1>20 DEF reload, DropHandles
<1>21. ASSUME NEW m \in Callers, DropClients(m) PROVE ClientInv'
  BY <1>21 DEF DropClients
<1>22. ASSUME NEW m \in Callers, Disconnected(m) PROVE ClientInv'
  BY <1>22 DEF Disconnected, Finish, ForgetErrors
<1>23. ASSUME NEW m \in Callers, FirstRound(m) PROVE ClientInv'
  BY <1>23 DEF FirstRound, ForgetErrors, StartCalls
<1>24. ASSUME NEW m \in Callers, Abort(m) PROVE ClientInv'
  BY <1>24 DEF Abort, Finish
<1>25. ASSUME NEW s \in Servers, Cooldown(s) PROVE ClientInv'
  BY <1>25 DEF Cooldown
<1>26. ASSUME UNCHANGED vars PROVE ClientInv'
  BY <1>26 DEF vars
<1>27. ASSUME NEW m \in Callers, NEW s \in Servers, connect_server(m, s) PROVE ClientInv'
  BY <1>27 DEF connect_server, Ask
<1>28. ASSUME NEW m \in Callers, NEW s \in Servers, disconnect_server(m, s) PROVE ClientInv'
  BY <1>28 DEF disconnect_server, Ask
<1>29. ASSUME NEW m \in Callers, AlreadyDropped(m) PROVE ClientInv'
  BY <1>29 DEF AlreadyDropped, Finish
<1> HIDE DEF calls, pool, bounds, history, TypeOK, FlightInv, ClientInv, Flight, Leading
<1> QED
  BY <1>1, <1>2, <1>3, <1>4, <1>5, <1>6, <1>7, <1>8, <1>9, <1>10, <1>11, <1>12,
     <1>13, <1>14, <1>15, <1>16, <1>17, <1>18, <1>19, <1>20, <1>21, <1>22, <1>23,
     <1>24, <1>25, <1>26, <1>27, <1>28, <1>29 DEF Next, Call, Operation, Start, CheckErrors,
     begin_connect, ConnectEnds, CallsReturned, disconnect, DropErrors

(* Every lock section leaves whole changes behind or marks the server. *)
LEMMA HalvesStep == TypeOK /\ FlightInv /\ HalvesInv /\ [Next]_vars => HalvesInv'
<1> SUFFICES ASSUME TypeOK, FlightInv, HalvesInv, [Next]_vars PROVE HalvesInv'
  OBVIOUS
<1> SUFFICES ASSUME NEW t \in Servers PROVE HalvesAt(t)'
  BY DEF HalvesInv
<1>0. HalvesAt(t)
  BY DEF HalvesInv
<1> USE BoundAssumption DEF calls, pool, bounds, history, TypeOK, FlightInv, Flight,
      Leading, Inserting, Removing, BeingRemoved, Calling, HalvesAt
<1>1. ASSUME NEW m \in Callers, NEW s \in Servers, CheckHandles(m, s) PROVE HalvesAt(t)'
  BY <1>1, <1>0 DEF CheckHandles, Goto
<1>2. ASSUME NEW m \in Callers, NEW s \in Servers, Suppressed(m, s) PROVE HalvesAt(t)'
  BY <1>2, <1>0 DEF Suppressed, Goto, Return
<1>3. ASSUME NEW m \in Callers, NEW s \in Servers, NotSuppressed(m, s) PROVE HalvesAt(t)'
  BY <1>3, <1>0 DEF NotSuppressed, Goto
<1>4. ASSUME NEW m \in Callers, NEW s \in Servers, JoinAttempt(m, s) PROVE HalvesAt(t)'
  BY <1>4, <1>0 DEF JoinAttempt, Goto
<1>5. ASSUME NEW m \in Callers, NEW s \in Servers, AlreadyConnected(m, s) PROVE HalvesAt(t)'
  BY <1>5, <1>0 DEF AlreadyConnected, Goto, Return
<1>6. ASSUME NEW m \in Callers, NEW s \in Servers, LeadAttempt(m, s) PROVE HalvesAt(t)'
  BY <1>6, <1>0 DEF LeadAttempt, Goto
<1>7. ASSUME NEW m \in Callers, NEW s \in Servers, Connected(m, s) PROVE HalvesAt(t)'
  BY <1>7, <1>0 DEF Connected, Goto
<1>8. ASSUME NEW m \in Callers, NEW s \in Servers, ConnectFailed(m, s) PROVE HalvesAt(t)'
  BY <1>8, <1>0 DEF ConnectFailed, Goto
<1>9. ASSUME NEW m \in Callers, NEW s \in Servers, InsertClient(m, s) PROVE HalvesAt(t)'
  BY <1>9, <1>0 DEF InsertClient, Goto
<1>10. ASSUME NEW m \in Callers, NEW s \in Servers, ClearError(m, s) PROVE HalvesAt(t)'
  BY <1>10, <1>0 DEF ClearError, Goto
<1>11. ASSUME NEW m \in Callers, NEW s \in Servers, RemoveConnecting(m, s) PROVE HalvesAt(t)'
  BY <1>11, <1>0 DEF RemoveConnecting, Goto
<1>12. ASSUME NEW m \in Callers, NEW s \in Servers, notify_waiters(m, s) PROVE HalvesAt(t)'
  <2>1. \A d \in Callers : pc'[d][t] = "insert_client" <=> pc[d][t] = "insert_client"
    BY <1>12 DEF notify_waiters
  <2>2. \A d \in Callers : pc[d][t] = "insert_client" => mine'[d][t] = mine[d][t]
    BY <1>12 DEF notify_waiters
  <2>3. UNCHANGED <<op, on, handles, clients, torn>>
    BY <1>12 DEF notify_waiters
  <2> HIDE DEF TypeOK, FlightInv
  <2> QED BY <1>0, <2>1, <2>2, <2>3
<1>13. ASSUME NEW m \in Callers, NEW s \in Servers, notified(m, s) PROVE HalvesAt(t)'
  BY <1>13, <1>0 DEF notified, Goto
<1>14. ASSUME NEW m \in Callers, NEW s \in Servers, Woken(m, s) PROVE HalvesAt(t)'
  BY <1>14, <1>0 DEF Woken, Goto, Return
<1>15. ASSUME NEW m \in Callers, connect(m) PROVE HalvesAt(t)'
  <2>1. pc[m][t] = "out" /\ ~Removing(m, t)
    BY <1>15 DEF connect
  <2>2. pc'[m][t] # "insert_client" /\ ~Removing(m, t)'
    BY <1>15 DEF connect, StartCalls
  <2>3. \A d \in Callers \ {m} : pc'[d] = pc[d] /\ op'[d] = op[d] /\ on'[d] = on[d]
    BY <1>15 DEF connect, StartCalls
  <2>4. /\ Inserting(t)' <=> Inserting(t)
        /\ BeingRemoved(t)' <=> BeingRemoved(t)
    BY <2>1, <2>2, <2>3
  <2>5. UNCHANGED <<handles, clients, torn, mine>>
    BY <1>15 DEF connect
  <2> HIDE DEF TypeOK, FlightInv
  <2> QED BY <1>0, <2>1, <2>2, <2>3, <2>4, <2>5
<1>16. ASSUME NEW m \in Callers, connect_all(m) PROVE HalvesAt(t)'
  <2>1. pc[m][t] = "out" /\ ~Removing(m, t)
    BY <1>16 DEF connect_all
  <2>2. pc'[m][t] # "insert_client" /\ ~Removing(m, t)'
    BY <1>16 DEF connect_all, StartCalls
  <2>3. \A d \in Callers \ {m} : pc'[d] = pc[d] /\ op'[d] = op[d] /\ on'[d] = on[d]
    BY <1>16 DEF connect_all, StartCalls
  <2>4. /\ Inserting(t)' <=> Inserting(t)
        /\ BeingRemoved(t)' <=> BeingRemoved(t)
    BY <2>1, <2>2, <2>3
  <2>5. UNCHANGED <<handles, clients, torn, mine>>
    BY <1>16 DEF connect_all
  <2> HIDE DEF TypeOK, FlightInv
  <2> QED BY <1>0, <2>1, <2>2, <2>3, <2>4, <2>5
<1>17. ASSUME NEW m \in Callers, TakeHandles(m) PROVE HalvesAt(t)'
  BY <1>17, <1>0 DEF TakeHandles, Finish
<1>18. ASSUME NEW m \in Callers, SecondRound(m) PROVE HalvesAt(t)'
  <2>1. pc[m][t] # "insert_client" /\ ~Removing(m, t)
    BY <1>18 DEF SecondRound
  <2>2. pc'[m][t] # "insert_client" /\ ~Removing(m, t)'
    BY <1>18 DEF SecondRound, StartCalls
  <2>3. \A d \in Callers \ {m} : pc'[d] = pc[d] /\ op'[d] = op[d] /\ on'[d] = on[d]
    BY <1>18 DEF SecondRound, StartCalls
  <2>4. /\ Inserting(t)' <=> Inserting(t)
        /\ BeingRemoved(t)' <=> BeingRemoved(t)
    BY <2>1, <2>2, <2>3
  <2>5. UNCHANGED <<handles, clients, torn, mine>>
    BY <1>18 DEF SecondRound
  <2> HIDE DEF TypeOK, FlightInv
  <2> QED BY <1>0, <2>1, <2>2, <2>3, <2>4, <2>5
<1>19. ASSUME NEW m \in Callers, DropServer(m) PROVE HalvesAt(t)'
  BY <1>19, <1>0 DEF DropServer, DropHandles
<1>20. ASSUME NEW m \in Callers, reload(m) PROVE HalvesAt(t)'
  BY <1>20, <1>0 DEF reload, DropHandles
<1>21. ASSUME NEW m \in Callers, DropClients(m) PROVE HalvesAt(t)'
  BY <1>21, <1>0 DEF DropClients
<1>22. ASSUME NEW m \in Callers, Disconnected(m) PROVE HalvesAt(t)'
  BY <1>22, <1>0 DEF Disconnected, Finish, ForgetErrors
<1>23. ASSUME NEW m \in Callers, FirstRound(m) PROVE HalvesAt(t)'
  <2>1. pc[m][t] = "out" /\ ~Removing(m, t)
    BY <1>23 DEF FirstRound
  <2>2. pc'[m][t] # "insert_client" /\ ~Removing(m, t)'
    BY <1>23 DEF FirstRound, StartCalls
  <2>3. \A d \in Callers \ {m} : pc'[d] = pc[d] /\ op'[d] = op[d] /\ on'[d] = on[d]
    BY <1>23 DEF FirstRound, StartCalls
  <2>4. /\ Inserting(t)' <=> Inserting(t)
        /\ BeingRemoved(t)' <=> BeingRemoved(t)
    BY <2>1, <2>2, <2>3
  <2>5. UNCHANGED <<handles, clients, torn, mine>>
    BY <1>23 DEF FirstRound
  <2> HIDE DEF TypeOK, FlightInv
  <2> QED BY <1>0, <2>1, <2>2, <2>3, <2>4, <2>5
<1>24. ASSUME NEW m \in Callers, Abort(m) PROVE HalvesAt(t)'
  BY <1>24, <1>0 DEF Abort, Finish
<1>25. ASSUME NEW s \in Servers, Cooldown(s) PROVE HalvesAt(t)'
  BY <1>25, <1>0 DEF Cooldown
<1>26. ASSUME UNCHANGED vars PROVE HalvesAt(t)'
  BY <1>26, <1>0 DEF vars
<1>27. ASSUME NEW m \in Callers, NEW s \in Servers, connect_server(m, s) PROVE HalvesAt(t)'
  BY <1>27, <1>0 DEF connect_server, Ask
<1>28. ASSUME NEW m \in Callers, NEW s \in Servers, disconnect_server(m, s) PROVE HalvesAt(t)'
  BY <1>28, <1>0 DEF disconnect_server, Ask
<1>29. ASSUME NEW m \in Callers, AlreadyDropped(m) PROVE HalvesAt(t)'
  BY <1>29, <1>0 DEF AlreadyDropped, Finish
<1> HIDE DEF calls, pool, bounds, history, TypeOK, FlightInv, Flight, Leading,
      Inserting, Removing, BeingRemoved, Calling, HalvesAt
<1> QED
  BY <1>1, <1>2, <1>3, <1>4, <1>5, <1>6, <1>7, <1>8, <1>9, <1>10, <1>11, <1>12,
     <1>13, <1>14, <1>15, <1>16, <1>17, <1>18, <1>19, <1>20, <1>21, <1>22, <1>23,
     <1>24, <1>25, <1>26, <1>27, <1>28, <1>29 DEF Next, Call, Operation, Start, CheckErrors,
     begin_connect, ConnectEnds, CallsReturned, disconnect, DropErrors

(* The parts of the inductive invariant hold together. *)
LEMMA Invariance == Spec => [](TypeOK /\ FlightInv /\ ClientInv /\ HalvesInv)
<1>1. Init => TypeOK /\ FlightInv /\ ClientInv /\ HalvesInv
  BY BoundAssumption DEF Init, TypeOK, FlightInv, ClientInv, HalvesInv, HalvesAt, Flight, Leading,
     Waiting, Removing
<1> QED
  BY <1>1, TypeStep, FlightStep, ClientStep, HalvesStep, PTL DEF Spec

(* The handle that begin_connect and acquire_handles give out belongs to    *)
(* the client the pool keeps, which was not shut down, unless the two      *)
(* halves of a connect and of a disconnect overlapped.                     *)
THEOREM UsableHandles == Spec => []HandleIsUsable
<1>1. ClientInv /\ HalvesInv => HandleIsUsable
  BY DEF ClientInv, HalvesInv, HalvesAt, HandleIsUsable
<1> QED
  BY <1>1, Invariance, PTL

-----------------------------------------------------------------------------
(* The callers that have passed the check of recent_failure and have not  *)
(* been through the election.                                              *)
AtBegin(s) == {m \in Callers : pc[m][s] = "begin"}

(* The attempt in connecting has reached the server and cannot fail any    *)
(* more: its leader will clear the error, or was aborted and then nobody   *)
(* leads again.                                                            *)
Succeeding(s) ==
    connecting[s] # 0 /\ \A m \in Callers : pc[m][s] \notin {"connecting", "remove"}

(* A handle lets the next callers past a recent error only while an        *)
(* attempt succeeds.                                                       *)
PassInv ==
    \A s \in Servers :
        /\ \A m \in Callers : pc[m][s] = "connecting" => handles[s] = 0
        /\ handles[s] # 0 /\ last_errors[s] = "recent" => Succeeding(s)

(* The attempts made within the cooldown and those that may still be made. *)
QuietAt(s) ==
    /\ tries[s] < Cardinality(Callers)
    /\ (last_errors[s] = "recent" /\ ~Succeeding(s)) =>
           tries[s] + Cardinality(AtBegin(s)) < Cardinality(Callers)

QuietInv == \A s \in Servers : QuietAt(s)

(* A step begins no attempt for s within the cooldown and lets no caller   *)
(* past the check.                                                         *)
Calm(s) ==
    /\ tries'[s] = tries[s]
    /\ (last_errors'[s] = "recent" /\ ~Succeeding(s)') =>
           last_errors[s] = "recent" /\ ~Succeeding(s) /\ AtBegin(s)' \subseteq AtBegin(s)

(* Every lock section keeps handles and recent errors apart. *)
LEMMA PassStep == TypeOK /\ FlightInv /\ PassInv /\ [Next]_vars => PassInv'
<1> SUFFICES ASSUME TypeOK, FlightInv, PassInv, [Next]_vars PROVE PassInv'
  OBVIOUS
<1> USE BoundAssumption DEF calls, pool, bounds, history, TypeOK, FlightInv, PassInv,
      Flight, Leading, Waiting, Calling, Succeeding
<1>1. ASSUME NEW m \in Callers, NEW s \in Servers, CheckHandles(m, s) PROVE PassInv'
  BY <1>1 DEF CheckHandles, Goto
<1>2. ASSUME NEW m \in Callers, NEW s \in Servers, Suppressed(m, s) PROVE PassInv'
  BY <1>2 DEF Suppressed, Goto, Return
<1>3. ASSUME NEW m \in Callers, NEW s \in Servers, NotSuppressed(m, s) PROVE PassInv'
  BY <1>3 DEF NotSuppressed, Goto
<1>4. ASSUME NEW m \in Callers, NEW s \in Servers, JoinAttempt(m, s) PROVE PassInv'
  BY <1>4 DEF JoinAttempt, Goto
<1>5. ASSUME NEW m \in Callers, NEW s \in Servers, AlreadyConnected(m, s) PROVE PassInv'
  BY <1>5 DEF AlreadyConnected, Goto, Return
<1>6. ASSUME NEW m \in Callers, NEW s \in Servers, LeadAttempt(m, s) PROVE PassInv'
  BY <1>6 DEF LeadAttempt, Goto
<1>7. ASSUME NEW m \in Callers, NEW s \in Servers, Connected(m, s) PROVE PassInv'
  BY <1>7 DEF Connected, Goto
<1>8. ASSUME NEW m \in Callers, NEW s \in Servers, ConnectFailed(m, s) PROVE PassInv'
  BY <1>8 DEF ConnectFailed, Goto
<1>9. ASSUME NEW m \in Callers, NEW s \in Servers, InsertClient(m, s) PROVE PassInv'
  BY <1>9 DEF InsertClient, Goto
<1>10. ASSUME NEW m \in Callers, NEW s \in Servers, ClearError(m, s) PROVE PassInv'
  BY <1>10 DEF ClearError, Goto
<1>11. ASSUME NEW m \in Callers, NEW s \in Servers, RemoveConnecting(m, s) PROVE PassInv'
  BY <1>11 DEF RemoveConnecting, Goto
<1>12. ASSUME NEW m \in Callers, NEW s \in Servers, notify_waiters(m, s) PROVE PassInv'
  BY <1>12 DEF notify_waiters
<1>13. ASSUME NEW m \in Callers, NEW s \in Servers, notified(m, s) PROVE PassInv'
  BY <1>13 DEF notified, Goto
<1>14. ASSUME NEW m \in Callers, NEW s \in Servers, Woken(m, s) PROVE PassInv'
  BY <1>14 DEF Woken, Goto, Return
<1>15. ASSUME NEW m \in Callers, connect(m) PROVE PassInv'
  BY <1>15 DEF connect, StartCalls
<1>16. ASSUME NEW m \in Callers, connect_all(m) PROVE PassInv'
  BY <1>16 DEF connect_all, StartCalls
<1>17. ASSUME NEW m \in Callers, TakeHandles(m) PROVE PassInv'
  BY <1>17 DEF TakeHandles, Finish
<1>18. ASSUME NEW m \in Callers, SecondRound(m) PROVE PassInv'
  BY <1>18 DEF SecondRound, StartCalls
<1>19. ASSUME NEW m \in Callers, DropServer(m) PROVE PassInv'
  BY <1>19 DEF DropServer, DropHandles
<1>20. ASSUME NEW m \in Callers, reload(m) PROVE PassInv'
  BY <1>20 DEF reload, DropHandles
<1>21. ASSUME NEW m \in Callers, DropClients(m) PROVE PassInv'
  BY <1>21 DEF DropClients
<1>22. ASSUME NEW m \in Callers, Disconnected(m) PROVE PassInv'
  BY <1>22 DEF Disconnected, Finish, ForgetErrors
<1>23. ASSUME NEW m \in Callers, FirstRound(m) PROVE PassInv'
  BY <1>23 DEF FirstRound, ForgetErrors, StartCalls
<1>24. ASSUME NEW m \in Callers, Abort(m) PROVE PassInv'
  BY <1>24 DEF Abort, Finish
<1>25. ASSUME NEW s \in Servers, Cooldown(s) PROVE PassInv'
  BY <1>25 DEF Cooldown
<1>26. ASSUME UNCHANGED vars PROVE PassInv'
  BY <1>26 DEF vars
<1>27. ASSUME NEW m \in Callers, NEW s \in Servers, connect_server(m, s) PROVE PassInv'
  BY <1>27 DEF connect_server, Ask
<1>28. ASSUME NEW m \in Callers, NEW s \in Servers, disconnect_server(m, s) PROVE PassInv'
  BY <1>28 DEF disconnect_server, Ask
<1>29. ASSUME NEW m \in Callers, AlreadyDropped(m) PROVE PassInv'
  BY <1>29 DEF AlreadyDropped, Finish
<1> HIDE DEF calls, pool, bounds, history, TypeOK, FlightInv, PassInv, Flight, Leading,
      Waiting, Calling, Succeeding
<1> QED
  BY <1>1, <1>2, <1>3, <1>4, <1>5, <1>6, <1>7, <1>8, <1>9, <1>10, <1>11, <1>12,
     <1>13, <1>14, <1>15, <1>16, <1>17, <1>18, <1>19, <1>20, <1>21, <1>22, <1>23,
     <1>24, <1>25, <1>26, <1>27, <1>28, <1>29 DEF Next, Call, Operation, Start, CheckErrors,
     begin_connect, ConnectEnds, CallsReturned, disconnect, DropErrors

(* The callers past the check are finitely many. *)
LEMMA AtBeginFinite ==
    ASSUME NEW s \in Servers
    PROVE  /\ IsFiniteSet(Callers) /\ Cardinality(Callers) \in Nat \ {0}
           /\ IsFiniteSet(AtBegin(s)) /\ Cardinality(AtBegin(s)) \in Nat
           /\ Cardinality(AtBegin(s)) <= Cardinality(Callers)
           /\ IsFiniteSet(AtBegin(s)') /\ Cardinality(AtBegin(s)') \in Nat
<1>1. IsFiniteSet(Callers) /\ Callers # {}
  BY CallersAssumption
<1>2. AtBegin(s) \in SUBSET Callers /\ AtBegin(s)' \in SUBSET Callers
  BY DEF AtBegin
<1>3. /\ IsFiniteSet(AtBegin(s)) /\ Cardinality(AtBegin(s)) <= Cardinality(Callers)
      /\ IsFiniteSet(AtBegin(s)')
  BY <1>1, <1>2, FS_Subset
<1>4. Cardinality(Callers) \in Nat /\ Cardinality(Callers) # 0
  BY <1>1, FS_CardinalityType, FS_EmptySet
<1>5. Cardinality(AtBegin(s)) \in Nat /\ Cardinality(AtBegin(s)') \in Nat
  BY <1>3, FS_CardinalityType
<1> QED BY <1>1, <1>3, <1>4, <1>5

(* A calm step keeps the bound. *)
LEMMA CalmKeeps ==
    ASSUME TypeOK, TypeOK', NEW s \in Servers, QuietAt(s), Calm(s)
    PROVE  QuietAt(s)'
<1>1. tries[s] \in Nat /\ tries'[s] = tries[s]
  BY DEF TypeOK, Calm
<1>2. tries'[s] < Cardinality(Callers)
  BY <1>1 DEF QuietAt
<1>3. ASSUME last_errors'[s] = "recent", ~Succeeding(s)'
      PROVE  tries'[s] + Cardinality(AtBegin(s)') < Cardinality(Callers)
  <2>1. AtBegin(s)' \in SUBSET AtBegin(s) /\ last_errors[s] = "recent" /\ ~Succeeding(s)
    BY <1>3 DEF Calm
  <2>2. Cardinality(AtBegin(s)') <= Cardinality(AtBegin(s))
    BY <2>1, AtBeginFinite, FS_Subset
  <2>3. tries[s] + Cardinality(AtBegin(s)) < Cardinality(Callers)
    BY <2>1 DEF QuietAt
  <2> QED BY <1>1, <2>2, <2>3, AtBeginFinite
<1> QED BY <1>2, <1>3 DEF QuietAt

(* All but the election of a leader and the failure of an attempt is calm. *)
LEMMA QuietStep ==
    TypeOK /\ FlightInv /\ PassInv /\ QuietInv /\ [Next]_vars => QuietInv'
<1> SUFFICES ASSUME TypeOK, FlightInv, PassInv, QuietInv, [Next]_vars,
                    NEW t \in Servers
             PROVE  QuietAt(t)'
  BY DEF QuietInv
<1>0. TypeOK' /\ QuietAt(t) /\ (Calm(t) => QuietAt(t)')
  BY TypeStep, CalmKeeps DEF QuietInv
<1> USE DEF calls, pool, bounds, history, TypeOK, FlightInv, PassInv,
      Leading, Waiting, Calling, Succeeding, AtBegin
<1>1. ASSUME NEW m \in Callers, NEW s \in Servers, CheckHandles(m, s) PROVE QuietAt(t)'
  <2>1. Calm(t)
    BY <1>1 DEF Calm, CheckHandles, Goto
  <2> QED BY <2>1, <1>0
<1>2. ASSUME NEW m \in Callers, NEW s \in Servers, Suppressed(m, s) PROVE QuietAt(t)'
  <2>1. Calm(t)
    BY <1>2 DEF Calm, Suppressed, Goto, Return
  <2> QED BY <2>1, <1>0
<1>3. ASSUME NEW m \in Callers, NEW s \in Servers, NotSuppressed(m, s) PROVE QuietAt(t)'
  <2>1. Calm(t)
    BY <1>3 DEF Calm, NotSuppressed, Goto
  <2> QED BY <2>1, <1>0
<1>4. ASSUME NEW m \in Callers, NEW s \in Servers, JoinAttempt(m, s) PROVE QuietAt(t)'
  <2>1. Calm(t)
    BY <1>4 DEF Calm, JoinAttempt, Goto
  <2> QED BY <2>1, <1>0
<1>5. ASSUME NEW m \in Callers, NEW s \in Servers, AlreadyConnected(m, s) PROVE QuietAt(t)'
  <2>1. Calm(t)
    BY <1>5 DEF Calm, AlreadyConnected, Goto, Return
  <2> QED BY <2>1, <1>0
<1>6. ASSUME NEW m \in Callers, NEW s \in Servers, LeadAttempt(m, s) PROVE QuietAt(t)'
  <2>1. CASE s # t \/ last_errors[s] # "recent"
    <3>1. Calm(t)
      BY <1>6, <2>1 DEF LeadAttempt, Goto, Calm
    <3> QED BY <3>1, <1>0
  <2>2. CASE s = t /\ last_errors[s] = "recent"
    <3>1. AtBegin(t)' = AtBegin(t) \ {m} /\ m \in AtBegin(t)
      BY <1>6, <2>2 DEF LeadAttempt, Goto
    <3>2. tries'[t] = tries[t] + 1 /\ tries[t] \in Nat /\ ~Succeeding(t)
      BY <1>6, <2>2 DEF LeadAttempt
    <3> HIDE DEF TypeOK, FlightInv, PassInv, Succeeding, AtBegin
    <3>3. Cardinality(AtBegin(t)') = Cardinality(AtBegin(t)) - 1
      BY <3>1, AtBeginFinite, FS_RemoveElement, ZenonT(60)
    <3>4. tries[t] + Cardinality(AtBegin(t)) < Cardinality(Callers)
      BY <1>0, <2>2, <3>2 DEF QuietAt
    <3> QED BY <3>2, <3>3, <3>4, AtBeginFinite DEF QuietAt
  <2> QED BY <2>1, <2>2
<1>7. ASSUME NEW m \in Callers, NEW s \in Servers, Connected(m, s) PROVE QuietAt(t)'
  <2>1. Calm(t)
    BY <1>7 DEF Calm, Connected, Goto
  <2> QED BY <2>1, <1>0
<1>8. ASSUME NEW m \in Callers, NEW s \in Servers, ConnectFailed(m, s) PROVE QuietAt(t)'
  <2>1. CASE s # t \/ last_errors[s] = "recent"
    <3>1. Calm(t)
      BY <1>8, <2>1 DEF ConnectFailed, Goto, Calm
    <3> QED BY <3>1, <1>0
  <2>2. CASE s = t /\ last_errors[s] # "recent"
    <3>1. tries'[t] = 0 /\ AtBegin(t)' \in SUBSET (Callers \ {m})
      BY <1>8, <2>2 DEF ConnectFailed, Goto
    <3> HIDE DEF TypeOK, FlightInv, PassInv, Succeeding, AtBegin
    <3>2. /\ IsFiniteSet(Callers \ {m})
          /\ Cardinality(Callers \ {m}) = Cardinality(Callers) - 1
      BY AtBeginFinite, FS_RemoveElement
    <3>3. Cardinality(AtBegin(t)') <= Cardinality(Callers \ {m})
      BY <3>1, <3>2, FS_Subset
    <3> QED BY <3>1, <3>2, <3>3, AtBeginFinite DEF QuietAt
  <2> QED BY <2>1, <2>2
<1>9. ASSUME NEW m \in Callers, NEW s \in Servers, InsertClient(m, s) PROVE QuietAt(t)'
  <2>1. Calm(t)
    BY <1>9 DEF Calm, InsertClient, Goto
  <2> QED BY <2>1, <1>0
<1>10. ASSUME NEW m \in Callers, NEW s \in Servers, ClearError(m, s) PROVE QuietAt(t)'
  <2>1. Calm(t)
    BY <1>10 DEF Calm, ClearError, Goto
  <2> QED BY <2>1, <1>0
<1>11. ASSUME NEW m \in Callers, NEW s \in Servers, RemoveConnecting(m, s) PROVE QuietAt(t)'
  <2>1. Calm(t)
    BY <1>11 DEF Calm, RemoveConnecting, Goto
  <2> QED BY <2>1, <1>0
<1>12. ASSUME NEW m \in Callers, NEW s \in Servers, notify_waiters(m, s) PROVE QuietAt(t)'
  <2>1. Calm(t)
    BY <1>12 DEF Calm, notify_waiters
  <2> QED BY <2>1, <1>0
<1>13. ASSUME NEW m \in Callers, NEW s \in Servers, notified(m, s) PROVE QuietAt(t)'
  <2>1. Calm(t)
    BY <1>13 DEF Calm, notified, Goto
  <2> QED BY <2>1, <1>0
<1>14. ASSUME NEW m \in Callers, NEW s \in Servers, Woken(m, s) PROVE QuietAt(t)'
  <2>1. Calm(t)
    BY <1>14 DEF Calm, Woken, Goto, Return
  <2> QED BY <2>1, <1>0
<1>15. ASSUME NEW m \in Callers, connect(m) PROVE QuietAt(t)'
  <2>1. Calm(t)
    BY <1>15 DEF Calm, connect, StartCalls
  <2> QED BY <2>1, <1>0
<1>16. ASSUME NEW m \in Callers, connect_all(m) PROVE QuietAt(t)'
  <2>1. Calm(t)
    BY <1>16 DEF Calm, connect_all, StartCalls
  <2> QED BY <2>1, <1>0
<1>17. ASSUME NEW m \in Callers, TakeHandles(m) PROVE QuietAt(t)'
  <2>1. Calm(t)
    BY <1>17 DEF Calm, TakeHandles, Finish
  <2> QED BY <2>1, <1>0
<1>18. ASSUME NEW m \in Callers, SecondRound(m) PROVE QuietAt(t)'
  <2>1. Calm(t)
    BY <1>18 DEF Calm, SecondRound, StartCalls
  <2> QED BY <2>1, <1>0
<1>19. ASSUME NEW m \in Callers, DropServer(m) PROVE QuietAt(t)'
  <2>1. Calm(t)
    BY <1>19 DEF Calm, DropServer, DropHandles
  <2> QED BY <2>1, <1>0
<1>20. ASSUME NEW m \in Callers, reload(m) PROVE QuietAt(t)'
  <2>1. Calm(t)
    BY <1>20 DEF Calm, reload, DropHandles
  <2> QED BY <2>1, <1>0
<1>21. ASSUME NEW m \in Callers, DropClients(m) PROVE QuietAt(t)'
  <2>1. Calm(t)
    BY <1>21 DEF Calm, DropClients
  <2> QED BY <2>1, <1>0
<1>22. ASSUME NEW m \in Callers, Disconnected(m) PROVE QuietAt(t)'
  <2>1. Calm(t)
    BY <1>22 DEF Calm, Disconnected, Finish, ForgetErrors
  <2> QED BY <2>1, <1>0
<1>23. ASSUME NEW m \in Callers, FirstRound(m) PROVE QuietAt(t)'
  <2>1. Calm(t)
    BY <1>23 DEF Calm, FirstRound, ForgetErrors, StartCalls
  <2> QED BY <2>1, <1>0
<1>24. ASSUME NEW m \in Callers, Abort(m) PROVE QuietAt(t)'
  <2>1. Calm(t)
    BY <1>24 DEF Calm, Abort, Finish
  <2> QED BY <2>1, <1>0
<1>25. ASSUME NEW s \in Servers, Cooldown(s) PROVE QuietAt(t)'
  <2>1. Calm(t)
    BY <1>25 DEF Calm, Cooldown
  <2> QED BY <2>1, <1>0
<1>26. ASSUME UNCHANGED vars PROVE QuietAt(t)'
  <2>1. Calm(t)
    BY <1>26 DEF Calm, vars
  <2> QED BY <2>1, <1>0
<1>27. ASSUME NEW m \in Callers, NEW s \in Servers, connect_server(m, s) PROVE QuietAt(t)'
  <2>1. Calm(t)
    BY <1>27 DEF Calm, connect_server, Ask
  <2> QED BY <2>1, <1>0
<1>28. ASSUME NEW m \in Callers, NEW s \in Servers, disconnect_server(m, s) PROVE QuietAt(t)'
  <2>1. Calm(t)
    BY <1>28 DEF Calm, disconnect_server, Ask
  <2> QED BY <2>1, <1>0
<1>29. ASSUME NEW m \in Callers, AlreadyDropped(m) PROVE QuietAt(t)'
  <2>1. Calm(t)
    BY <1>29 DEF Calm, AlreadyDropped, Finish
  <2> QED BY <2>1, <1>0
<1> HIDE DEF calls, pool, bounds, history, TypeOK, FlightInv, PassInv, Leading, Waiting,
      Calling, Succeeding, AtBegin
<1> QED
  BY <1>1, <1>2, <1>3, <1>4, <1>5, <1>6, <1>7, <1>8, <1>9, <1>10, <1>11, <1>12,
     <1>13, <1>14, <1>15, <1>16, <1>17, <1>18, <1>19, <1>20, <1>21, <1>22, <1>23,
     <1>24, <1>25, <1>26, <1>27, <1>28, <1>29 DEF Next, Call, Operation, Start, CheckErrors,
     begin_connect, ConnectEnds, CallsReturned, disconnect, DropErrors

(* The cooldown of a failed server: however the checks, elections, aborts, *)
(* disconnects and reloads of the sessions interleave, and however many    *)
(* sub-calls a batch has, fewer attempts begin within it than there are    *)
(* callers at once.                                                        *)
THEOREM CooldownIsKept == Spec => []CooldownHolds
<1>1. Init => PassInv /\ QuietInv
  <2> SUFFICES ASSUME Init PROVE PassInv /\ QuietInv
    OBVIOUS
  <2>1. \A s \in Servers : tries[s] = 0 /\ last_errors[s] = "none"
    BY DEF Init
  <2>2. PassInv
    BY DEF Init, PassInv
  <2> QED BY <2>1, <2>2, AtBeginFinite DEF QuietInv, QuietAt
<1>2. QuietInv => CooldownHolds
  BY DEF QuietInv, QuietAt, CooldownHolds
<1> QED
  BY <1>1, <1>2, PassStep, QuietStep, Invariance, PTL DEF Spec

-----------------------------------------------------------------------------
(* A step that changes neither the attempts nor the roles is a stutter. *)
LEMMA Stutters ==
    ASSUME \A s \in Servers : connecting'[s] # 0 <=> connecting[s] # 0,
           \A m \in Callers, s \in Servers : RoleOf(m, s)' = RoleOf(m, s)
    PROVE  Flying' = Flying /\ Role' = Role
BY DEF Flying, Role

(* An attempt of caller m for server s lands. *)
LEMMA RolesLand ==
    ASSUME NEW m \in Callers, NEW s \in Servers,
           \A a \in Callers, b \in Servers :
               RoleOf(a, b)' = IF b # s THEN RoleOf(a, b) ELSE IF a = m THEN "out"
                               ELSE IF RoleOf(a, b) = "wait" THEN "served" ELSE RoleOf(a, b)
    PROVE  Role' = [d \in Callers |-> [Role[d] EXCEPT ![s] =
                      IF d = m THEN "out" ELSE IF @ = "wait" THEN "served" ELSE @]]
BY DEF Role

(* Caller m gives up all its calls. *)
LEMMA RolesQuit ==
    ASSUME NEW m \in Callers,
           \A a \in Callers, b \in Servers :
               RoleOf(a, b)' = IF a = m THEN "out" ELSE RoleOf(a, b)
    PROVE  Role' = [Role EXCEPT ![m] = [b \in Servers |-> "out"]]
BY DEF Role

(* Every lock section is a step of single flight or none at all. *)
LEMMA RefineStep == TypeOK /\ FlightInv /\ [Next]_vars => [SF!FNext]_<<Flying, Role>>
<1> SUFFICES ASSUME TypeOK, FlightInv, [Next]_vars PROVE [SF!FNext]_<<Flying, Role>>
  OBVIOUS
<1> USE BoundAssumption DEF calls, pool, bounds, history, TypeOK, FlightInv, Flight,
      Leading, Waiting, Calling, RoleOf
<1>1. ASSUME NEW m \in Callers, NEW s \in Servers, CheckHandles(m, s)
      PROVE  [SF!FNext]_<<Flying, Role>>
  <2>1. \A a \in Callers, b \in Servers : RoleOf(a, b)' = RoleOf(a, b)
    BY <1>1 DEF CheckHandles, Goto
  <2>2. \A b \in Servers : connecting'[b] # 0 <=> connecting[b] # 0
    BY <1>1 DEF CheckHandles, Goto
  <2> QED BY <2>1, <2>2, Stutters
<1>2. ASSUME NEW m \in Callers, NEW s \in Servers, Suppressed(m, s)
      PROVE  [SF!FNext]_<<Flying, Role>>
  <2>1. \A a \in Callers, b \in Servers : RoleOf(a, b)' = RoleOf(a, b)
    BY <1>2 DEF Suppressed, Goto, Return
  <2>2. \A b \in Servers : connecting'[b] # 0 <=> connecting[b] # 0
    BY <1>2 DEF Suppressed, Goto, Return
  <2> QED BY <2>1, <2>2, Stutters
<1>3. ASSUME NEW m \in Callers, NEW s \in Servers, NotSuppressed(m, s)
      PROVE  [SF!FNext]_<<Flying, Role>>
  <2>1. \A a \in Callers, b \in Servers : RoleOf(a, b)' = RoleOf(a, b)
    BY <1>3 DEF NotSuppressed, Goto
  <2>2. \A b \in Servers : connecting'[b] # 0 <=> connecting[b] # 0
    BY <1>3 DEF NotSuppressed, Goto
  <2> QED BY <2>1, <2>2, Stutters
<1>4. ASSUME NEW m \in Callers, NEW s \in Servers, JoinAttempt(m, s)
      PROVE  [SF!FNext]_<<Flying, Role>>
  <2>1. \A a \in Callers, b \in Servers : RoleOf(a, b)' = IF a = m /\ b = s THEN "wait" ELSE RoleOf(a, b)
    BY <1>4 DEF JoinAttempt, Goto
  <2>2. Flying' = Flying
    BY <1>4 DEF JoinAttempt, Goto, Flying
  <2>3. Role[m][s] = "out" /\ s \in Flying
    BY <1>4 DEF JoinAttempt, Goto, Role, Flying
  <2> HIDE DEF TypeOK, FlightInv, RoleOf
  <2>4. Role' = [Role EXCEPT ![m][s] = "wait"]
    BY <2>1 DEF Role
  <2>5. SF!Join(m, s)
    BY <2>2, <2>3, <2>4 DEF SF!Join
  <2> QED BY <2>5 DEF SF!FNext
<1>5. ASSUME NEW m \in Callers, NEW s \in Servers, AlreadyConnected(m, s)
      PROVE  [SF!FNext]_<<Flying, Role>>
  <2>1. \A a \in Callers, b \in Servers : RoleOf(a, b)' = RoleOf(a, b)
    BY <1>5 DEF AlreadyConnected, Goto, Return
  <2>2. \A b \in Servers : connecting'[b] # 0 <=> connecting[b] # 0
    BY <1>5 DEF AlreadyConnected, Goto, Return
  <2> QED BY <2>1, <2>2, Stutters
<1>6. ASSUME NEW m \in Callers, NEW s \in Servers, LeadAttempt(m, s)
      PROVE  [SF!FNext]_<<Flying, Role>>
  <2>1. \A a \in Callers, b \in Servers : RoleOf(a, b)' = IF a = m /\ b = s THEN "lead" ELSE RoleOf(a, b)
    BY <1>6 DEF LeadAttempt, Goto
  <2>2. Flying' = Flying \cup {s}
    BY <1>6 DEF LeadAttempt, Goto, Flying
  <2>3. Role[m][s] = "out" /\ s \notin Flying
    BY <1>6 DEF LeadAttempt, Goto, Role, Flying
  <2> HIDE DEF TypeOK, FlightInv, RoleOf
  <2>4. Role' = [Role EXCEPT ![m][s] = "lead"]
    BY <2>1 DEF Role
  <2>5. SF!Lead(m, s)
    BY <2>2, <2>3, <2>4 DEF SF!Lead
  <2> QED BY <2>5 DEF SF!FNext
<1>7. ASSUME NEW m \in Callers, NEW s \in Servers, Connected(m, s)
      PROVE  [SF!FNext]_<<Flying, Role>>
  <2>1. \A a \in Callers, b \in Servers : RoleOf(a, b)' = RoleOf(a, b)
    BY <1>7 DEF Connected, Goto
  <2>2. \A b \in Servers : connecting'[b] # 0 <=> connecting[b] # 0
    BY <1>7 DEF Connected, Goto
  <2> QED BY <2>1, <2>2, Stutters
<1>8. ASSUME NEW m \in Callers, NEW s \in Servers, ConnectFailed(m, s)
      PROVE  [SF!FNext]_<<Flying, Role>>
  <2>1. \A a \in Callers, b \in Servers : RoleOf(a, b)' = RoleOf(a, b)
    BY <1>8 DEF ConnectFailed, Goto
  <2>2. \A b \in Servers : connecting'[b] # 0 <=> connecting[b] # 0
    BY <1>8 DEF ConnectFailed, Goto
  <2> QED BY <2>1, <2>2, Stutters
<1>9. ASSUME NEW m \in Callers, NEW s \in Servers, InsertClient(m, s)
      PROVE  [SF!FNext]_<<Flying, Role>>
  <2>1. \A a \in Callers, b \in Servers : RoleOf(a, b)' = RoleOf(a, b)
    BY <1>9 DEF InsertClient, Goto
  <2>2. \A b \in Servers : connecting'[b] # 0 <=> connecting[b] # 0
    BY <1>9 DEF InsertClient, Goto
  <2> QED BY <2>1, <2>2, Stutters
<1>10. ASSUME NEW m \in Callers, NEW s \in Servers, ClearError(m, s)
      PROVE  [SF!FNext]_<<Flying, Role>>
  <2>1. \A a \in Callers, b \in Servers : RoleOf(a, b)' = RoleOf(a, b)
    BY <1>10 DEF ClearError, Goto
  <2>2. \A b \in Servers : connecting'[b] # 0 <=> connecting[b] # 0
    BY <1>10 DEF ClearError, Goto
  <2> QED BY <2>1, <2>2, Stutters
<1>11. ASSUME NEW m \in Callers, NEW s \in Servers, RemoveConnecting(m, s)
      PROVE  [SF!FNext]_<<Flying, Role>>
  <2>1. \A a \in Callers, b \in Servers : RoleOf(a, b)' = IF b # s THEN RoleOf(a, b) ELSE IF a = m THEN "out"
                     ELSE IF RoleOf(a, b) = "wait" THEN "served" ELSE RoleOf(a, b)
    BY <1>11 DEF RemoveConnecting, Goto
  <2>2. Flying' = Flying \ {s}
    BY <1>11 DEF RemoveConnecting, Goto, Flying
  <2>3. Role[m][s] = "lead"
    BY <1>11 DEF RemoveConnecting, Goto, Role, Flying
  <2> HIDE DEF TypeOK, FlightInv, RoleOf
  <2>4. Role' = [d \in Callers |-> [Role[d] EXCEPT ![s] =
                      IF d = m THEN "out" ELSE IF @ = "wait" THEN "served" ELSE @]]
    BY <2>1, RolesLand
  <2>5. SF!Land(m, s)
    BY <2>2, <2>3, <2>4 DEF SF!Land
  <2> QED BY <2>5 DEF SF!FNext
<1>12. ASSUME NEW m \in Callers, NEW s \in Servers, notify_waiters(m, s)
      PROVE  [SF!FNext]_<<Flying, Role>>
  <2>1. \A a \in Callers, b \in Servers : RoleOf(a, b)' = RoleOf(a, b)
    BY <1>12 DEF notify_waiters
  <2>2. \A b \in Servers : connecting'[b] # 0 <=> connecting[b] # 0
    BY <1>12 DEF notify_waiters
  <2> QED BY <2>1, <2>2, Stutters
<1>13. ASSUME NEW m \in Callers, NEW s \in Servers, notified(m, s)
      PROVE  [SF!FNext]_<<Flying, Role>>
  <2>1. \A a \in Callers, b \in Servers : RoleOf(a, b)' = RoleOf(a, b)
    BY <1>13 DEF notified, Goto
  <2>2. \A b \in Servers : connecting'[b] # 0 <=> connecting[b] # 0
    BY <1>13 DEF notified, Goto
  <2> QED BY <2>1, <2>2, Stutters
<1>14. ASSUME NEW m \in Callers, NEW s \in Servers, Woken(m, s)
      PROVE  [SF!FNext]_<<Flying, Role>>
  <2>1. \A a \in Callers, b \in Servers : RoleOf(a, b)' = IF a = m /\ b = s THEN "out" ELSE RoleOf(a, b)
    BY <1>14 DEF Woken, Goto, Return
  <2>2. Flying' = Flying
    BY <1>14 DEF Woken, Goto, Return, Flying
  <2>3. Role[m][s] = "served"
    BY <1>14 DEF Woken, Goto, Return, Role, Flying
  <2> HIDE DEF TypeOK, FlightInv, RoleOf
  <2>4. Role' = [Role EXCEPT ![m][s] = "out"]
    BY <2>1 DEF Role
  <2>5. SF!Leave(m, s)
    BY <2>2, <2>3, <2>4 DEF SF!Leave
  <2> QED BY <2>5 DEF SF!FNext
<1>15. ASSUME NEW m \in Callers, connect(m)
      PROVE  [SF!FNext]_<<Flying, Role>>
  <2>1. \A a \in Callers, b \in Servers : RoleOf(a, b)' = RoleOf(a, b)
    BY <1>15, ZenonT(60) DEF connect, StartCalls
  <2>2. \A b \in Servers : connecting'[b] # 0 <=> connecting[b] # 0
    BY <1>15 DEF connect, StartCalls
  <2> QED BY <2>1, <2>2, Stutters
<1>16. ASSUME NEW m \in Callers, connect_all(m)
      PROVE  [SF!FNext]_<<Flying, Role>>
  <2>1. \A a \in Callers, b \in Servers : RoleOf(a, b)' = RoleOf(a, b)
    BY <1>16, ZenonT(60) DEF connect_all, StartCalls
  <2>2. \A b \in Servers : connecting'[b] # 0 <=> connecting[b] # 0
    BY <1>16 DEF connect_all, StartCalls
  <2> QED BY <2>1, <2>2, Stutters
<1>17. ASSUME NEW m \in Callers, TakeHandles(m)
      PROVE  [SF!FNext]_<<Flying, Role>>
  <2>1. \A a \in Callers, b \in Servers : RoleOf(a, b)' = RoleOf(a, b)
    BY <1>17 DEF TakeHandles, Finish
  <2>2. \A b \in Servers : connecting'[b] # 0 <=> connecting[b] # 0
    BY <1>17 DEF TakeHandles, Finish
  <2> QED BY <2>1, <2>2, Stutters
<1>18. ASSUME NEW m \in Callers, SecondRound(m)
      PROVE  [SF!FNext]_<<Flying, Role>>
  <2>1. \A a \in Callers, b \in Servers : RoleOf(a, b)' = RoleOf(a, b)
    BY <1>18, ZenonT(60) DEF SecondRound, StartCalls
  <2>2. \A b \in Servers : connecting'[b] # 0 <=> connecting[b] # 0
    BY <1>18 DEF SecondRound, StartCalls
  <2> QED BY <2>1, <2>2, Stutters
<1>19. ASSUME NEW m \in Callers, DropServer(m)
      PROVE  [SF!FNext]_<<Flying, Role>>
  <2>1. \A a \in Callers, b \in Servers : RoleOf(a, b)' = RoleOf(a, b)
    BY <1>19 DEF DropServer, DropHandles
  <2>2. \A b \in Servers : connecting'[b] # 0 <=> connecting[b] # 0
    BY <1>19 DEF DropServer, DropHandles
  <2> QED BY <2>1, <2>2, Stutters
<1>20. ASSUME NEW m \in Callers, reload(m)
      PROVE  [SF!FNext]_<<Flying, Role>>
  <2>1. \A a \in Callers, b \in Servers : RoleOf(a, b)' = RoleOf(a, b)
    BY <1>20 DEF reload, DropHandles
  <2>2. \A b \in Servers : connecting'[b] # 0 <=> connecting[b] # 0
    BY <1>20 DEF reload, DropHandles
  <2> QED BY <2>1, <2>2, Stutters
<1>21. ASSUME NEW m \in Callers, DropClients(m)
      PROVE  [SF!FNext]_<<Flying, Role>>
  <2>1. \A a \in Callers, b \in Servers : RoleOf(a, b)' = RoleOf(a, b)
    BY <1>21 DEF DropClients
  <2>2. \A b \in Servers : connecting'[b] # 0 <=> connecting[b] # 0
    BY <1>21 DEF DropClients
  <2> QED BY <2>1, <2>2, Stutters
<1>22. ASSUME NEW m \in Callers, Disconnected(m)
      PROVE  [SF!FNext]_<<Flying, Role>>
  <2>1. \A a \in Callers, b \in Servers : RoleOf(a, b)' = RoleOf(a, b)
    BY <1>22 DEF Disconnected, Finish, ForgetErrors
  <2>2. \A b \in Servers : connecting'[b] # 0 <=> connecting[b] # 0
    BY <1>22 DEF Disconnected, Finish, ForgetErrors
  <2> QED BY <2>1, <2>2, Stutters
<1>23. ASSUME NEW m \in Callers, FirstRound(m)
      PROVE  [SF!FNext]_<<Flying, Role>>
  <2>1. \A a \in Callers, b \in Servers : RoleOf(a, b)' = RoleOf(a, b)
    BY <1>23, ZenonT(60) DEF FirstRound, ForgetErrors, StartCalls
  <2>2. \A b \in Servers : connecting'[b] # 0 <=> connecting[b] # 0
    BY <1>23 DEF FirstRound, ForgetErrors, StartCalls
  <2> QED BY <2>1, <2>2, Stutters
<1>24. ASSUME NEW m \in Callers, Abort(m)
      PROVE  [SF!FNext]_<<Flying, Role>>
  <2>1. \A a \in Callers, b \in Servers : RoleOf(a, b)' = IF a = m THEN "out" ELSE RoleOf(a, b)
    BY <1>24 DEF Abort, Finish
  <2>2. Flying' = Flying
    BY <1>24 DEF Abort, Finish, Flying
  <2>3. TRUE
    BY <1>24 DEF Abort, Finish, Role, Flying
  <2> HIDE DEF TypeOK, FlightInv, RoleOf
  <2>4. Role' = [Role EXCEPT ![m] = [b \in Servers |-> "out"]]
    BY <2>1, RolesQuit
  <2>5. SF!Quit(m)
    BY <2>2, <2>3, <2>4 DEF SF!Quit
  <2> QED BY <2>5 DEF SF!FNext
<1>25. ASSUME NEW s \in Servers, Cooldown(s)
      PROVE  [SF!FNext]_<<Flying, Role>>
  <2>1. \A a \in Callers, b \in Servers : RoleOf(a, b)' = RoleOf(a, b)
    BY <1>25 DEF Cooldown
  <2>2. \A b \in Servers : connecting'[b] # 0 <=> connecting[b] # 0
    BY <1>25 DEF Cooldown
  <2> QED BY <2>1, <2>2, Stutters
<1>26. ASSUME UNCHANGED vars PROVE [SF!FNext]_<<Flying, Role>>
  <2>1. \A a \in Callers, b \in Servers : RoleOf(a, b)' = RoleOf(a, b)
    BY <1>26 DEF vars
  <2>2. \A b \in Servers : connecting'[b] # 0 <=> connecting[b] # 0
    BY <1>26 DEF vars
  <2> QED BY <2>1, <2>2, Stutters
<1>27. ASSUME NEW m \in Callers, NEW s \in Servers, connect_server(m, s)
      PROVE  [SF!FNext]_<<Flying, Role>>
  <2>1. \A a \in Callers, b \in Servers : RoleOf(a, b)' = RoleOf(a, b)
    BY <1>27 DEF connect_server, Ask
  <2>2. \A b \in Servers : connecting'[b] # 0 <=> connecting[b] # 0
    BY <1>27 DEF connect_server, Ask
  <2> QED BY <2>1, <2>2, Stutters
<1>28. ASSUME NEW m \in Callers, NEW s \in Servers, disconnect_server(m, s)
      PROVE  [SF!FNext]_<<Flying, Role>>
  <2>1. \A a \in Callers, b \in Servers : RoleOf(a, b)' = RoleOf(a, b)
    BY <1>28 DEF disconnect_server, Ask
  <2>2. \A b \in Servers : connecting'[b] # 0 <=> connecting[b] # 0
    BY <1>28 DEF disconnect_server, Ask
  <2> QED BY <2>1, <2>2, Stutters
<1>29. ASSUME NEW m \in Callers, AlreadyDropped(m)
      PROVE  [SF!FNext]_<<Flying, Role>>
  <2>1. \A a \in Callers, b \in Servers : RoleOf(a, b)' = RoleOf(a, b)
    BY <1>29 DEF AlreadyDropped, Finish
  <2>2. \A b \in Servers : connecting'[b] # 0 <=> connecting[b] # 0
    BY <1>29 DEF AlreadyDropped, Finish
  <2> QED BY <2>1, <2>2, Stutters
<1> HIDE DEF calls, pool, bounds, history, TypeOK, FlightInv, Flight, Leading, Waiting,
      Calling, RoleOf
<1> QED
  BY <1>1, <1>2, <1>3, <1>4, <1>5, <1>6, <1>7, <1>8, <1>9, <1>10, <1>11, <1>12,
     <1>13, <1>14, <1>15, <1>16, <1>17, <1>18, <1>19, <1>20, <1>21, <1>22, <1>23,
     <1>24, <1>25, <1>26, <1>27, <1>28, <1>29 DEF Next, Call, Operation, Start, CheckErrors,
     begin_connect, ConnectEnds, CallsReturned, disconnect, DropErrors

(* The pool implements single flight: its locks, its map of attempts and   *)
(* the Notify of each attempt give one attempt per server at a time, led   *)
(* by one caller, and a waiter returns  only after the attempt it joined.  *)
THEOREM Refines == Spec => ImplementsSingleFlight
<1>1. Init => SF!FInit
  BY DEF Init, SF!FInit, Leading, Waiting, Flying, Role, RoleOf
<1>2. TypeOK /\ FlightInv /\ [Next]_vars => [SF!FNext]_<<Flying, Role>>
  BY RefineStep
<1> QED
  BY <1>1, <1>2, Invariance, PTL DEF Spec, ImplementsSingleFlight, SF!FSpec

-----------------------------------------------------------------------------
(* The locals of a turn: something waits for a save only while tools run or  *)
(* the conversation is repaired.                                             *)
Sound(t) == t \in Turn /\ (t.pc \notin {"call", "tools", "exec"} => ~t.dirty)

(* From the first message to the end of the turn, whatever is not marked for *)
(* a save is in the files, or the last save has failed.                      *)
SavedInv ==
    /\ Sound(turn) /\ lapse \in BOOLEAN
    /\ ~lapse /\ ~At("idle") /\ ~turn.dirty => disk = messages

(* The calls that were made are counted. *)
SentOK == sent \in [messages : Nat, calls : 0..MaxCalls, interrupts : Nat]

(* The bounds are numbers. *)
LEMMA Bounds == MaxUses \in Nat /\ MaxContinuations \in Nat /\ MaxCalls \in Nat /\ MaxEvents \in Nat
BY BoundsAssumption

(* The turn that is over, and the one that starts. *)
LEMMA IdleTurn ==
    /\ Idle \in Turn /\ Idle.pc = "idle" /\ ~Idle.dirty
    /\ [Idle EXCEPT !.pc = "call"] \in Turn /\ [Idle EXCEPT !.pc = "call"].pc = "call"
    /\ ~[Idle EXCEPT !.pc = "call"].dirty
<1>1. Idle \in Turn /\ Idle.pc = "idle" /\ ~Idle.dirty
  BY Bounds DEF Idle, Turn
<1> QED BY <1>1 DEF Turn

(* The turn that goes round again. *)
LEMMA AgainTurn == 
    ASSUME turn \in Turn
    PROVE  Again \in Turn /\ Again.pc = "call" /\ ~Again.dirty /\ Again.attempts = turn.attempts
BY IdleTurn DEF Turn, Again

(* The calls of the next response, and the turn that is to run them. *)
Fresh(n) == sent.calls + 1..sent.calls + n

Response(keep, cut) == [turn EXCEPT !.pc = "added", !.todo = keep, !.cut = cut]

(* What a response does. *)
LEMMA Responds ==
    ASSUME Respond
    PROVE  /\ At("streaming") /\ UNCHANGED <<tracking, around, queue>>
           /\ \E n \in 0..MaxUses, cut \in BOOLEAN : \E keep \in SUBSET Fresh(n) :
                /\ sent.calls + n <= MaxCalls
                /\ sent' = [sent EXCEPT !.calls = @ + n]
                /\ \/ n = 0 /\ UNCHANGED saving /\ turn' = Response(keep, cut)
                   \/ SaveOrEnd(Append(messages, Assistant(Fresh(n))), Response(keep, cut))
<1>1. At("streaming") /\ UNCHANGED <<tracking, around, queue>>
  BY DEF Respond
<1>2. PICK n \in 0..MaxUses, cut \in BOOLEAN, text \in BOOLEAN :
          \E keep \in IF cut THEN SUBSET Fresh(n) ELSE {Fresh(n)} :
                /\ sent.calls + n <= MaxCalls
                /\ sent' = [sent EXCEPT !.calls = @ + n]
                /\ IF n = 0 /\ ~text
                   THEN UNCHANGED saving /\ turn' = Response(keep, cut)
                   ELSE SaveOrEnd(Append(messages, Assistant(Fresh(n))), Response(keep, cut))
  BY Zenon DEF Respond, Fresh, Response
<1>3. PICK keep \in IF cut THEN SUBSET Fresh(n) ELSE {Fresh(n)} :
                /\ sent.calls + n <= MaxCalls
                /\ sent' = [sent EXCEPT !.calls = @ + n]
                /\ IF n = 0 /\ ~text
                   THEN UNCHANGED saving /\ turn' = Response(keep, cut)
                   ELSE SaveOrEnd(Append(messages, Assistant(Fresh(n))), Response(keep, cut))
  BY <1>2
<1>4. keep \in SUBSET Fresh(n)
  OBVIOUS
<1> QED BY <1>1, <1>3, <1>4

(* Every step counts. *)
LEMMA SentStep == SentOK /\ [TurnNext]_turn_vars => SentOK'
<1> SUFFICES ASSUME SentOK, [TurnNext]_turn_vars PROVE SentOK'
  OBVIOUS
<1> USE Bounds DEF SentOK
<1>1. CASE UNCHANGED sent
  BY <1>1
<1>2. CASE StartTurn
  BY <1>2 DEF StartTurn
<1>3. CASE Respond
  <2>1. PICK n \in 0..MaxUses : sent.calls + n <= MaxCalls /\ sent' = [sent EXCEPT !.calls = @ + n]
    BY <1>3, Responds
  <2> QED BY <2>1
<1>4. CASE Enqueue
  BY <1>4 DEF Enqueue
<1>5. CASE SubagentStarts
  BY <1>5 DEF SubagentStarts
<1> QED BY <1>1, <1>2, <1>3, <1>4, <1>5
        DEF TurnNext, LoopStep, RequestStep, ToolStep, Outside, turn_vars, RepairMessage, CallProvider,
            StreamOpens, ProviderFails, TooLong, PolledAgain, ContextLimit, NativeToolCall,
            NativeToolEnds, filter_truncated_tool_calls, NoToolCalls, SkipForShutdown,
            StartTools, SkipForUrgent, AnswerAtOnce, RefuseTool, StartTool, ToolStopped, ToolsDone,
            NextRound, ToolEnds, ToolMoved, clear_soft_interrupts, Stop, Cancel, SubagentEnds,
            rewind_to_message, undo_rewind, clear, CrashAndRestore

(* A save leaves nothing behind. *)
LEMMA Saves ==
    ASSUME NEW ms, NEW next, Sound(next), SaveOrEnd(ms, next) \/ SaveBestEffort(ms, next)
    PROVE  SavedInv'
BY IdleTurn DEF SaveOrEnd, SaveBestEffort, Saved, Sound, SavedInv, At

(* So does a step that has nothing to save. *)
LEMMA Moves ==
    ASSUME SavedInv, ~At("idle"), ~turn.dirty, UNCHANGED saving, Sound(turn')
    PROVE  SavedInv'
BY DEF saving, SavedInv, At

(* So does an injection point. *)
LEMMA Injects ==
    ASSUME SavedInv, ~At("idle"), ~turn.dirty, NEW next, NEW otherwise, Sound(next),
           Sound(otherwise), inject_soft_interrupts(next, otherwise)
    PROVE  SavedInv'
BY Saves, Moves DEF inject_soft_interrupts, saving

(* Every step of the loop saves what it must. *)
LEMMA SavedStep == SentOK /\ SavedInv /\ [TurnNext]_turn_vars => SavedInv'
<1> SUFFICES ASSUME SentOK, SavedInv, [TurnNext]_turn_vars PROVE SavedInv'
  OBVIOUS
<1> USE Bounds, IdleTurn, AgainTurn DEF Sound, SavedInv, Turn, saving, tracking, around, At,
            Reach, Saved,
            SaveOrEnd, SaveBestEffort, Add
<1>1. CASE StartTurn
  BY <1>1 DEF StartTurn
<1>2. CASE CallProvider
  <2>1. Sound([turn EXCEPT !.pc = "request", !.dirty = FALSE]) /\ ~At("idle")
    BY <1>2 DEF CallProvider
  <2>2. CASE turn.dirty
    BY <1>2, <2>1, <2>2, Saves DEF CallProvider
  <2>3. CASE ~turn.dirty
    BY <1>2, <2>1, <2>3, Moves DEF CallProvider
  <2> QED BY <2>2, <2>3
<1>3. CASE ProviderFails
  BY <1>3 DEF ProviderFails
<1>4. CASE ContextLimit
  BY <1>4 DEF ContextLimit, Event
<1>5. CASE Respond
  <2> HIDE DEF SaveOrEnd, saving
  <2>0. PICK n \in 0..MaxUses, cut \in BOOLEAN : \E keep \in SUBSET Fresh(n) :
             /\ sent.calls + n <= MaxCalls
             /\ \/ UNCHANGED saving /\ turn' = Response(keep, cut)
                \/ SaveOrEnd(Append(messages, Assistant(Fresh(n))), Response(keep, cut))
    BY <1>5, Responds
  <2>1. PICK keep \in SUBSET Fresh(n) :
             /\ sent.calls + n <= MaxCalls
             /\ \/ UNCHANGED saving /\ turn' = Response(keep, cut)
                \/ SaveOrEnd(Append(messages, Assistant(Fresh(n))), Response(keep, cut))
    BY <2>0
  <2>2. keep \subseteq CallIds
    BY <2>1 DEF SentOK, CallIds, Fresh
  <2>3. ~turn.dirty /\ ~At("idle")
    BY <1>5 DEF Respond
  <2>4. Sound(Response(keep, cut))
    BY <2>2, <2>3 DEF Response
  <2> HIDE DEF Sound, SavedInv, SaveOrEnd, saving, At
  <2> QED BY <2>1, <2>3, <2>4, Saves, Moves
<1>6. CASE filter_truncated_tool_calls
  BY <1>6 DEF filter_truncated_tool_calls
<1>7. CASE NoToolCalls
  <2>1. ~turn.dirty /\ ~At("idle") /\ Sound(Again) /\ Sound(Idle)
    BY <1>7 DEF NoToolCalls
  <2>2. CASE turn.cut /\ turn.attempts < MaxContinuations
    <3>1. Sound([Again EXCEPT !.attempts = @ + 1])
      BY <2>2
    <3>2. SaveOrEnd(Append(messages, Text), [Again EXCEPT !.attempts = @ + 1])
      BY <1>7, <2>2 DEF NoToolCalls
    <3> QED BY <3>1, <3>2, Saves
  <2>3. CASE ~(turn.cut /\ turn.attempts < MaxContinuations)
    BY <1>7, <2>1, <2>3, Injects DEF NoToolCalls
  <2> QED BY <2>2, <2>3
<1>8. CASE SkipForShutdown
  BY <1>8 DEF SkipForShutdown
<1>9. CASE StartTools
  <2>1. ~turn.dirty /\ ~At("idle") /\ Sound(Again) /\ Sound(Idle)
    BY <1>9 DEF StartTools
  <2>2. PICK keep \in SUBSET turn.todo :
          \/ inject_soft_interrupts(Again, Idle)
          \/ turn' = [turn EXCEPT !.pc = "tools", !.todo = keep, !.cut = FALSE] /\ UNCHANGED saving
    <3> HIDE DEF Sound, SavedInv, Turn, saving, Saved, SaveOrEnd, SaveBestEffort
    <3> QED BY <1>9 DEF StartTools
  <2>3. Sound([turn EXCEPT !.pc = "tools", !.todo = keep, !.cut = FALSE])
    BY <2>2
  <2> HIDE DEF Sound, SavedInv, saving, At
  <2> QED BY <2>1, <2>2, <2>3, Injects, Moves
<1>10. CASE SkipForUrgent
  BY <1>10 DEF SkipForUrgent
<1>11. CASE AnswerAtOnce
  BY <1>11 DEF AnswerAtOnce, AfterTool
<1>12. CASE RefuseTool
  BY <1>12 DEF RefuseTool
<1>13. CASE StartTool
  BY <1>13 DEF StartTool
<1>14. CASE ToolStopped
  BY <1>14 DEF ToolStopped
<1>15. CASE ToolsDone
  <2>1. turn.pc = "tools" /\ Sound([turn EXCEPT !.pc = "done", !.dirty = FALSE])
    BY <1>15 DEF ToolsDone
  <2>2. CASE turn.dirty
    BY <1>15, <2>1, <2>2, Saves DEF ToolsDone
  <2>3. CASE ~turn.dirty
    BY <1>15, <2>1, <2>3, Moves DEF ToolsDone
  <2> QED BY <2>2, <2>3
<1>16. CASE NextRound
  BY <1>16 DEF NextRound, inject_soft_interrupts
<1>17. CASE ToolEnds
  BY <1>17 DEF ToolEnds, AfterTool
<1>18. CASE ToolMoved
  <2>1. Sound(AfterTool(FALSE))
    BY <1>18 DEF ToolMoved, AfterTool
  <2> QED BY <1>18, <2>1, Saves DEF ToolMoved
<1>19. CASE Enqueue
  BY <1>19 DEF Enqueue
<1>20. CASE clear_soft_interrupts
  BY <1>20 DEF clear_soft_interrupts
<1>21. CASE Stop
  BY <1>21 DEF Stop
<1>22. CASE Cancel
  BY <1>22 DEF Cancel
<1>23. CASE SubagentStarts
  BY <1>23 DEF SubagentStarts
<1>24. CASE SubagentEnds
  BY <1>24 DEF SubagentEnds
<1>25. CASE rewind_to_message
  BY <1>25 DEF rewind_to_message, SaveEvent
<1>26. CASE undo_rewind
  BY <1>26 DEF undo_rewind
<1>27. CASE clear
  BY <1>27 DEF clear
<1>28. CASE CrashAndRestore
  BY <1>28 DEF CrashAndRestore
<1>29. CASE RepairMessage
  BY <1>29 DEF RepairMessage
<1>30. CASE StreamOpens \/ NativeToolCall \/ NativeToolEnds
  BY <1>30 DEF StreamOpens, NativeToolCall, NativeToolEnds, Requesting
<1>31. CASE TooLong
  BY <1>31 DEF TooLong, Event
<1>32. CASE PolledAgain
  BY <1>32 DEF PolledAgain
<1>33. CASE UNCHANGED turn_vars
  BY <1>33 DEF turn_vars
<1> QED BY <1>1, <1>2, <1>3, <1>4, <1>5, <1>6, <1>7, <1>8, <1>9, <1>10, <1>11, <1>12, <1>13, <1>14,
           <1>15, <1>16, <1>17, <1>18, <1>19, <1>20, <1>21, <1>22, <1>23, <1>24, <1>25, <1>26,
           <1>27, <1>28, <1>29, <1>30, <1>31, <1>32, <1>33
        DEF TurnNext, LoopStep, RequestStep, ToolStep, Outside

(* The counts and the marks hold in every state. *)
LEMMA TurnAlways == TurnSpec => [](SentOK /\ SavedInv)
<1>1. TurnInit => SentOK
  BY Bounds DEF TurnInit, SentOK
<1>2. TurnInit => SavedInv
  BY Bounds, IdleTurn DEF TurnInit, SavedInv, Sound, At
<1> QED BY <1>1, <1>2, SentStep, SavedStep, PTL DEF TurnSpec

(* When a request is sent, the files hold the conversation it carries, unless *)
(* the last save failed.                                                      *)
THEOREM SentIsKept == TurnSpec => []SentIsSaved
<1>1. SavedInv => SentIsSaved
  BY DEF SavedInv, Sound, SentIsSaved, At
<1> QED BY <1>1, TurnAlways, PTL

-----------------------------------------------------------------------------
(* A conversation that is in order but for the results it misses, when n     *)
(* calls were made and M are those of /subagent: a message makes calls or    *)
(* answers one; no two messages make the same call; the result of a call of  *)
(* the model is behind the message that made it, with only results for that  *)
(* message in between, and there is one; and a message makes calls of        *)
(* /subagent or of the model.                                                *)
Alone(ms, n, M) ==
    \A i \in 1..Len(ms) :
        /\ ms[i].uses # {} => ms[i].result = 0
        /\ ms[i].uses \subseteq 1..n /\ ms[i].result <= n
        /\ ms[i].uses \subseteq M \/ ms[i].uses \cap M = {}

Distinct(ms) ==
    \A i, j \in 1..Len(ms) : \A c \in ms[i].uses : c \in ms[j].uses => i = j

Behind(ms, M) ==
    \A i, j \in 1..Len(ms) :
        ms[j].result \in ms[i].uses /\ ms[j].result \notin M =>
            j > i /\ \A h \in i + 1..j : ms[h].result \in ms[i].uses

Once(ms, M) ==
    \A i, j \in 1..Len(ms) :
        ms[i].result = ms[j].result /\ ms[i].result \notin M /\ ms[i].result # 0 => i = j

Paired(ms, n, M) ==
    /\ ms \in Seq(Message)
    /\ Alone(ms, n, M) /\ Distinct(ms) /\ Behind(ms, M) /\ Once(ms, M)

(* The calls S, if any, were made by one message, have no result, and every  *)
(* message behind it answers another of its calls.                           *)
Opened(ms, S, M) ==
    S # {} => \E b \in 1..Len(ms) :
        /\ S \subseteq ms[b].uses /\ ms[b].uses \cap M = {}
        /\ \A j \in 1..Len(ms) : ms[j].result \notin S
        /\ \A h \in b + 1..Len(ms) : ms[h].result \in ms[b].uses

(* What the repair has seen: the first sc messages, rs are the results in    *)
(* them, and none of them misses one.                                        *)
Tracked(ms, sc, rs) ==
    /\ sc \in 0..Len(ms)
    /\ rs = {ms[j].result : j \in 1..sc} \ {0}
    /\ \A i \in 1..sc : ms[i].uses \subseteq rs

PairedInv ==
    /\ manual \subseteq 1..sent.calls /\ subagents \subseteq manual
    /\ Paired(messages, sent.calls, manual)
    /\ Paired(disk, sent.calls, manual)
    /\ undo # None => Paired(undo, sent.calls, manual)

TrackInv == Tracked(messages, scan, results) /\ (At("request") => scan = Len(messages))

OpenInv ==
    /\ turn.pc \in {"added", "decide", "tools", "exec"} => Opened(messages, turn.todo, manual)
    /\ At("exec") => turn.todo # {}

(* b has the messages of ms at their places, though some may have lost their *)
(* calls.                                                                    *)
Continues(b, ms) ==
    \A p \in 1..Len(ms) : b[p].result = ms[p].result /\ b[p].uses \subseteq ms[p].uses

(* A sequence of results, each of another call of S. *)
Block(bs, S) ==
    /\ bs \in Seq(Message)
    /\ \A p \in 1..Len(bs) :
         /\ bs[p].uses = {} /\ bs[p].result \in S
         /\ \A q \in 1..Len(bs) : bs[p].result = bs[q].result => p = q

-----------------------------------------------------------------------------
(* The calls are numbers. *)
LEMMA CallsAreNumbers == MaxCalls \in Nat /\ CallIds \subseteq Nat \ {0} /\ IsFiniteSet(CallIds)
<1>1. MaxCalls \in Nat
  BY BoundsAssumption
<1> QED BY <1>1, FS_Interval DEF CallIds

(* Every place of the order of a set of calls is taken. *)
LEMMA RankOnto ==
    ASSUME NEW S \in SUBSET CallIds, NEW p \in 1..Cardinality(S)
    PROVE  \E c \in S : Cardinality({d \in S : d <= c}) = p
<1>1. IsFiniteSet(S) /\ Cardinality(S) \in Nat
  BY CallsAreNumbers, FS_Subset, FS_CardinalityType
<1> DEFINE Below(c) == {d \in S : d <= c}
           rank == [c \in S |-> Cardinality(Below(c))]
<1>2. \A c \in S : IsFiniteSet(Below(c)) /\ Cardinality(Below(c)) \in 1..Cardinality(S)
  <2> TAKE c \in S
  <2>1. Below(c) \in SUBSET S
    OBVIOUS
  <2>2. IsFiniteSet(Below(c)) /\ Cardinality(Below(c)) <= Cardinality(S)
    BY <1>1, <2>1, FS_Subset
  <2>3. Below(c) # {}
    BY CallsAreNumbers
  <2>4. Cardinality(Below(c)) \in Nat /\ Cardinality(Below(c)) # 0
    BY <2>2, <2>3, FS_EmptySet, FS_CardinalityType
  <2> QED BY <1>1, <2>2, <2>4
<1>3. \A c, d \in S : c < d => Cardinality(Below(c)) # Cardinality(Below(d))
  <2> TAKE c, d \in S
  <2> SUFFICES ASSUME c < d, Cardinality(Below(c)) = Cardinality(Below(d)) PROVE FALSE
    OBVIOUS
  <2>1. c \in Nat /\ d \in Nat /\ \A e \in S : e \in Nat
    BY CallsAreNumbers
  <2>2. \A e \in S : e <= c => e <= d
    BY <2>1
  <2>3. Below(c) \in SUBSET Below(d)
    BY <2>2, Zenon
  <2>4. d \in Below(d) /\ d \notin Below(c)
    BY <2>1
  <2>5. Below(d) = Below(c)
    BY <1>2, <2>3, FS_Subset
  <2> QED BY <2>4, <2>5
<1>4. rank \in Injection(S, 1..Cardinality(S))
  <2>1. rank \in [S -> 1..Cardinality(S)]
    BY <1>2
  <2>2. ASSUME NEW c \in S, NEW d \in S, rank[c] = rank[d] PROVE c = d
    <3>1. ~(c < d) /\ ~(d < c)
      BY <1>3, <2>2
    <3> QED BY <3>1, CallsAreNumbers
  <2> QED BY <2>1, <2>2 DEF Injection, IsInjective
<1>5. IsFiniteSet(1..Cardinality(S)) /\ Cardinality(1..Cardinality(S)) = Cardinality(S)
  BY <1>1, FS_Interval
<1>6. rank \in Surjection(S, 1..Cardinality(S))
  BY <1>4, <1>5, FS_Injection
<1>7. PICK c \in S : rank[c] = p
  BY <1>6 DEF Surjection
<1> QED BY <1>7

(* The messages the loop adds. *)
LEMMA Messages ==
    /\ Text \in Message /\ Text.uses = {} /\ Text.result = 0
    /\ \A S \in SUBSET CallIds :
         Assistant(S) \in Message /\ Assistant(S).uses = S /\ Assistant(S).result = 0
    /\ \A c \in CallIds : Result(c) \in Message /\ Result(c).uses = {} /\ Result(c).result = c
BY DEF Text, Assistant, Result, Message

(* What a message holds. *)
LEMMA MessageHolds ==
    ASSUME NEW m \in Message
    PROVE  m.uses \in SUBSET CallIds /\ m.result \in Nat /\ (m.result # 0 => m.result \in CallIds)
<1>1. m.uses \in SUBSET CallIds /\ m.result \in CallIds \cup {0}
  BY DEF Message
<1>2. \A c \in CallIds : c \in Nat
  BY CallsAreNumbers
<1>3. CASE m.result = 0
  BY <1>1, <1>3
<1>4. CASE m.result \in CallIds
  BY <1>1, <1>2, <1>4, Zenon
<1> QED BY <1>1, <1>3, <1>4

(* Results puts the results of the calls in a row, one for each. *)
LEMMA ResultsBlock ==
    ASSUME NEW S \in SUBSET CallIds
    PROVE  Block(Results(S), S)
<1>1. Cardinality(S) \in Nat
  BY CallsAreNumbers, FS_Subset, FS_CardinalityType
<1>2. \A p \in 1..Cardinality(S) :
        Nth(S, p) \in S /\ Cardinality({d \in S : d <= Nth(S, p)}) = p
  BY RankOnto DEF Nth
<1>3. \A p \in 1..Cardinality(S) : Results(S)[p] = Result(Nth(S, p))
  BY DEF Results
<1>4. \A p \in 1..Cardinality(S) :
        Results(S)[p] \in Message /\ Results(S)[p].uses = {} /\ Results(S)[p].result = Nth(S, p)
  <2> TAKE p \in 1..Cardinality(S)
  <2>1. Nth(S, p) \in CallIds
    BY <1>2
  <2> QED BY <2>1, <1>3, Messages, Zenon
<1>5. Results(S) \in Seq(Message) /\ Len(Results(S)) = Cardinality(S)
  BY <1>1, <1>4, IsASeq, LenProperties DEF Results
<1>6. \A p, q \in 1..Cardinality(S) : Nth(S, p) = Nth(S, q) => p = q
  BY <1>2, Zenon
<1>7. \A p \in 1..Cardinality(S) :
        /\ Results(S)[p].uses = {} /\ Results(S)[p].result \in S
        /\ \A q \in 1..Cardinality(S) : Results(S)[p].result = Results(S)[q].result => p = q
  <2> TAKE p \in 1..Cardinality(S)
  <2>1. Results(S)[p].uses = {} /\ Results(S)[p].result \in S
    BY <1>2, <1>4
  <2>2. ASSUME NEW q \in 1..Cardinality(S), Results(S)[p].result = Results(S)[q].result PROVE p = q
    <3>1. Nth(S, p) = Nth(S, q)
      BY <1>4, <2>2
    <3> QED BY <1>6, <3>1
  <2> QED BY <2>1, <2>2
<1> QED BY <1>5, <1>7 DEF Block

(* A single result. *)
LEMMA OneBlock ==
    ASSUME NEW c \in CallIds
    PROVE  Block(<<Result(c)>>, {c})
<1>1. Result(c) \in Message /\ Result(c).uses = {} /\ Result(c).result = c
  BY Messages
<1> QED BY <1>1 DEF Block
-----------------------------------------------------------------------------
(* b is ms with bs put in behind message k. *)
Placed(ms, k, bs, b) ==
    /\ b \in Seq(Message) /\ Len(b) = Len(ms) + Len(bs)
    /\ \A p \in 1..k : b[p] = ms[p]
    /\ \A p \in k + 1..k + Len(bs) : b[p] = bs[p - k]
    /\ \A p \in k + Len(bs) + 1..Len(b) : b[p] = ms[p - Len(bs)]

(* What the repair puts where. *)
LEMMA PlacedInside ==
    ASSUME NEW ms \in Seq(Message), NEW bs \in Seq(Message), NEW k \in 1..Len(ms)
    PROVE  Placed(ms, k, bs, SubSeq(ms, 1, k) \o bs \o SubSeq(ms, k + 1, Len(ms)))
<1> DEFINE front == SubSeq(ms, 1, k)
           back == SubSeq(ms, k + 1, Len(ms))
<1>0. Len(ms) \in Nat /\ Len(bs) \in Nat
  BY LenProperties
<1>1. front \in Seq(Message) /\ Len(front) = k /\ \A p \in 1..k : front[p] = ms[p]
  BY <1>0, SubSeqProperties
<1>2. back \in Seq(Message) /\ Len(back) = Len(ms) - k
      /\ \A p \in 1..Len(ms) - k : back[p] = ms[k + p]
  <2>1. CASE k = Len(ms)
    BY <1>0, <2>1, SubSeqEmpty
  <2>2. CASE k < Len(ms)
    BY <1>0, <2>2, SubSeqProperties
  <2> QED BY <1>0, <2>1, <2>2
<1> HIDE DEF front, back
<1>3. front \o bs \in Seq(Message) /\ Len(front \o bs) = k + Len(bs)
      /\ \A p \in 1..k + Len(bs) : (front \o bs)[p] = IF p <= k THEN front[p] ELSE bs[p - k]
  BY <1>0, <1>1, ConcatProperties
<1>4. (front \o bs) \o back \in Seq(Message)
      /\ Len((front \o bs) \o back) = k + Len(bs) + (Len(ms) - k)
      /\ \A p \in 1..k + Len(bs) + (Len(ms) - k) :
           ((front \o bs) \o back)[p] = IF p <= k + Len(bs) THEN (front \o bs)[p]
                                                           ELSE back[p - (k + Len(bs))]
  <2> DEFINE ab == front \o bs
  <2>1. ab \in Seq(Message) /\ Len(ab) = k + Len(bs)
    BY <1>3
  <2> HIDE DEF ab
  <2>2. ab \o back \in Seq(Message)
        /\ Len(ab \o back) = Len(ab) + Len(back)
        /\ \A p \in 1..Len(ab) + Len(back) :
             (ab \o back)[p] = IF p <= Len(ab) THEN ab[p] ELSE back[p - Len(ab)]
    BY <2>1, <1>2, ConcatProperties
  <2> QED BY <2>1, <2>2, <1>2 DEF ab
<1> DEFINE b == (front \o bs) \o back
<1> HIDE DEF b
<1>5. b \in Seq(Message) /\ Len(b) = Len(ms) + Len(bs)
  BY <1>0, <1>4 DEF b
<1>6. \A p \in 1..k : b[p] = ms[p]
  BY <1>0, <1>1, <1>3, <1>4 DEF b
<1>7. \A p \in k + 1..k + Len(bs) : b[p] = bs[p - k]
  BY <1>0, <1>3, <1>4 DEF b
<1>8. \A p \in k + Len(bs) + 1..Len(b) : b[p] = ms[p - Len(bs)]
  <2> TAKE p \in k + Len(bs) + 1..Len(b)
  <2>1. b[p] = back[p - (k + Len(bs))]
    BY <1>0, <1>4, <1>5 DEF b
  <2>2. p - (k + Len(bs)) \in 1..Len(ms) - k /\ k + (p - (k + Len(bs))) = p - Len(bs)
    BY <1>0, <1>5
  <2> QED BY <1>2, <2>1, <2>2
<1> QED BY <1>5, <1>6, <1>7, <1>8 DEF Placed, b, front, back

(* An addition to the end. *)
LEMMA PlacedAtEnd ==
    ASSUME NEW ms \in Seq(Message), NEW bs \in Seq(Message)
    PROVE  Placed(ms, Len(ms), bs, ms \o bs)
<1>1. Len(ms) \in Nat /\ Len(bs) \in Nat
  BY LenProperties
<1> QED BY <1>1, ConcatProperties DEF Placed

(* Results for calls of message i that have none, put in behind it and       *)
(* other results for it, leave the conversation in order.                    *)
LEMMA InsertPaired ==
    ASSUME NEW n \in Nat, NEW M, NEW ms, Paired(ms, n, M),
           NEW i \in 1..Len(ms), NEW k \in i..Len(ms), NEW S \in SUBSET ms[i].uses,
           \A j \in 1..Len(ms) : ms[j].result \notin S,
           \A h \in i + 1..k : ms[h].result \in ms[i].uses,
           NEW bs, Block(bs, S), NEW b, Placed(ms, k, bs, b)
    PROVE  Paired(b, n, M)
<1> DEFINE w == Len(bs)
<1>0. ms \in Seq(Message) /\ bs \in Seq(Message) /\ b \in Seq(Message)
  BY DEF Paired, Block, Placed
<1>1. /\ Len(ms) \in Nat /\ w \in Nat /\ Len(b) = Len(ms) + w /\ Len(b) \in Nat
      /\ i \in Nat /\ k \in Nat /\ i <= k /\ k <= Len(ms)
  BY <1>0, LenProperties DEF Placed
<1> HIDE DEF w
<1> DEFINE Old(p) == p \in 1..Len(b) /\ (p <= k \/ p > k + w)
           From(p) == IF p <= k THEN p ELSE p - w
<1>2. \A p \in 1..Len(b) : Old(p) => From(p) \in 1..Len(ms) /\ b[p] = ms[From(p)]
  <2> TAKE p \in 1..Len(b)
  <2>1. CASE p <= k
    <3>1. p \in 1..k /\ From(p) = p /\ p \in 1..Len(ms)
      BY <1>1, <2>1
    <3> QED BY <3>1 DEF Placed
  <2>2. CASE p > k + w
    <3>1. p \in k + w + 1..Len(b) /\ From(p) = p - w /\ p - w \in 1..Len(ms)
      BY <1>1, <2>2
    <3> QED BY <3>1 DEF Placed, w
  <2> QED BY <2>1, <2>2
<1>3. \A p \in 1..Len(b) : ~Old(p) =>
        /\ p \in k + 1..k + w
        /\ b[p].uses = {} /\ b[p].result \in S
        /\ \A q \in 1..Len(b) : ~Old(q) /\ b[p].result = b[q].result => p = q
  <2> TAKE p \in 1..Len(b)
  <2> HAVE ~Old(p)
  <2>1. p \in k + 1..k + w /\ b[p] = bs[p - k] /\ p - k \in 1..w
    BY <1>1 DEF Placed, w
  <2>2. ASSUME NEW q \in 1..Len(b), ~Old(q), b[p].result = b[q].result PROVE p = q
    <3>1. q \in k + 1..k + w /\ b[q] = bs[q - k] /\ q - k \in 1..w
      BY <1>1, <2>2 DEF Placed, w
    <3>2. p - k = q - k
      BY <2>1, <2>2, <3>1 DEF Block, w
    <3> QED BY <1>1, <2>1, <3>1, <3>2
  <2> QED BY <2>1, <2>2 DEF Block, w
<1>4. \A p, q \in 1..Len(b) : Old(p) /\ Old(q) =>
        /\ From(p) = From(q) => p = q
        /\ From(p) < From(q) <=> p < q
  BY <1>1
<1> HIDE DEF Old, From
<1>5. Alone(b, n, M)
  <2> SUFFICES ASSUME NEW p \in 1..Len(b)
               PROVE  /\ b[p].uses # {} => b[p].result = 0
                      /\ b[p].uses \subseteq 1..n /\ b[p].result <= n
                      /\ b[p].uses \subseteq M \/ b[p].uses \cap M = {}
    BY DEF Alone
  <2>1. CASE Old(p)
    BY <1>2, <2>1 DEF Paired, Alone
  <2>2. CASE ~Old(p)
    <3>1. b[p].uses = {} /\ b[p].result \in S
      BY <1>3, <2>2
    <3>2. b[p].result \in 1..n
      BY <3>1 DEF Paired, Alone
    <3> QED BY <3>1, <3>2
  <2> QED BY <2>1, <2>2
<1>6. Distinct(b)
  <2> SUFFICES ASSUME NEW p \in 1..Len(b), NEW q \in 1..Len(b), NEW c \in b[p].uses, c \in b[q].uses
               PROVE  p = q
    BY DEF Distinct
  <2>1. Old(p) /\ Old(q)
    BY <1>3
  <2>2. From(p) = From(q)
    BY <1>2, <2>1 DEF Paired, Distinct
  <2> QED BY <1>4, <2>1, <2>2
<1>7. Behind(b, M)
  <2> SUFFICES ASSUME NEW x \in 1..Len(b), NEW j \in 1..Len(b),
                      b[j].result \in b[x].uses, b[j].result \notin M
               PROVE  j > x /\ \A h \in x + 1..j : b[h].result \in b[x].uses
    BY DEF Behind
  <2>1. Old(x) /\ From(x) \in 1..Len(ms) /\ b[x] = ms[From(x)]
    BY <1>2, <1>3
  <2>2. CASE ~Old(j)
    <3>1. j \in k + 1..k + w /\ b[j].result \in S
      BY <1>3, <2>2
    <3>2. From(x) = i
      BY <2>1, <3>1 DEF Paired, Distinct
    <3>3. x = i
      BY <1>1, <2>1, <3>2, <3>1 DEF From, Old
    <3>4. ASSUME NEW h \in x + 1..j PROVE b[h].result \in b[x].uses
      <4>0. h \in 1..Len(b)
        BY <3>3, <1>1
      <4>1. CASE h <= k
        <5>1. Old(h) /\ From(h) = h
          BY <4>0, <4>1, <1>1 DEF Old, From
        <5>2. h \in i + 1..k
          BY <4>0, <4>1, <1>1, <3>3
        <5> QED BY <5>1, <5>2, <4>0, <1>2, <2>1, <3>2
      <4>2. CASE h > k
        <5>1. ~Old(h)
          BY <4>0, <4>2, <3>1, <1>1 DEF Old
        <5> QED BY <5>1, <4>0, <1>3, <2>1, <3>2
      <4> QED BY <4>0, <4>1, <4>2, <1>1
    <3> QED BY <3>1, <3>3, <3>4, <1>1
  <2>3. CASE Old(j)
    <3>1. From(j) \in 1..Len(ms) /\ b[j] = ms[From(j)]
      BY <1>2, <2>3
    <3>2. From(j) > From(x) /\ \A h \in From(x) + 1..From(j) : ms[h].result \in ms[From(x)].uses
      BY <2>1, <3>1 DEF Paired, Behind
    <3>3. j > x
      BY <1>4, <2>1, <2>3, <3>1, <3>2
    <3>4. ASSUME NEW h \in x + 1..j PROVE b[h].result \in b[x].uses
      <4>0. h \in 1..Len(b) /\ x < h /\ (h < j \/ h = j)
        BY <1>1
      <4>1. CASE Old(h)
        <5>1. From(h) \in 1..Len(ms) /\ b[h] = ms[From(h)]
          BY <4>0, <4>1, <1>2
        <5>2. From(x) < From(h)
          BY <4>0, <4>1, <2>1, <1>4
        <5>3. From(h) < From(j) \/ From(h) = From(j)
          BY <4>0, <4>1, <2>3, <1>4
        <5>4. From(h) \in From(x) + 1..From(j)
          BY <5>1, <5>2, <5>3, <3>1, <2>1, <1>1
        <5> QED BY <5>1, <5>4, <3>2, <2>1
      <4>2. CASE ~Old(h)
        <5>1. h \in k + 1..k + w /\ b[h].result \in S
          BY <4>0, <4>2, <1>3
        <5>2. From(x) = x /\ x <= k /\ From(j) = j - w /\ From(j) > k
          BY <5>1, <4>0, <2>1, <2>3, <3>3, <1>1 DEF Old, From
        <5>3. ms[i].result = 0
          BY <5>1 DEF Paired, Alone
        <5>4. x = i
          <6>1. CASE k = i
            <7>1. CASE x < i
              <8>1. i \in From(x) + 1..From(j)
                BY <1>1, <5>2, <6>1, <7>1
              <8>2. ms[i].result \in ms[From(x)].uses
                BY <8>1, <3>2
              <8> QED BY <8>2, <5>3, <2>1 DEF Paired, Alone
            <7> QED BY <7>1, <5>2, <6>1, <1>1
          <6>2. CASE k > i
            <7>1. k \in 1..Len(ms) /\ ms[k].result \in ms[i].uses
              <8>1. k \in 1..Len(ms) /\ k \in i + 1..k
                BY <6>2, <1>1
              <8> QED BY <8>1
            <7>2. CASE x < k
              <8>1. k \in From(x) + 1..From(j)
                BY <1>1, <5>2, <7>2
              <8>2. ms[k].result \in ms[From(x)].uses
                BY <8>1, <3>2
              <8> QED BY <7>1, <8>2, <2>1, <5>2 DEF Paired, Distinct
            <7>3. CASE x = k
              <8>1. ms[k].uses # {}
                BY <7>3, <5>2, <2>1, <3>1
              <8>2. ms[k].result = 0
                BY <8>1, <7>1 DEF Paired, Alone
              <8> QED BY <8>2, <7>1 DEF Paired, Alone
            <7> QED BY <7>2, <7>3, <5>2, <1>1
          <6> QED BY <6>1, <6>2, <1>1
        <5> QED BY <5>1, <5>2, <5>4, <2>1
      <4> QED BY <4>1, <4>2
    <3> QED BY <3>3, <3>4
  <2> QED BY <2>2, <2>3
<1>8. Once(b, M)
  <2> SUFFICES ASSUME NEW p \in 1..Len(b), NEW q \in 1..Len(b), b[p].result = b[q].result,
                      b[p].result \notin M, b[p].result # 0
               PROVE  p = q
    BY DEF Once
  <2>1. CASE Old(p) /\ Old(q)
    <3>1. /\ From(p) \in 1..Len(ms) /\ b[p] = ms[From(p)]
          /\ From(q) \in 1..Len(ms) /\ b[q] = ms[From(q)]
      BY <1>2, <2>1
    <3>2. From(p) = From(q)
      BY <3>1 DEF Paired, Once
    <3> QED BY <1>4, <2>1, <3>2
  <2>2. CASE Old(p) /\ ~Old(q)
    <3>1. b[q].result \in S
      BY <1>3, <2>2
    <3>2. From(p) \in 1..Len(ms) /\ b[p] = ms[From(p)]
      BY <1>2, <2>2
    <3> QED BY <3>1, <3>2
  <2>3. CASE ~Old(p) /\ Old(q)
    <3>1. b[p].result \in S
      BY <1>3, <2>3
    <3>2. From(q) \in 1..Len(ms) /\ b[q] = ms[From(q)]
      BY <1>2, <2>3
    <3> QED BY <3>1, <3>2
  <2>4. CASE ~Old(p) /\ ~Old(q)
    BY <1>3, <2>4
  <2> QED BY <2>1, <2>2, <2>3, <2>4
<1> QED BY <1>0, <1>5, <1>6, <1>7, <1>8 DEF Paired

(* A message that ends the conversation. *)
LEMMA Ends ==
    ASSUME NEW ms \in Seq(Message), NEW m \in Message
    PROVE  /\ Append(ms, m) \in Seq(Message) /\ Len(Append(ms, m)) = Len(ms) + 1 /\ Len(ms) \in Nat
           /\ \A p \in 1..Len(ms) : Append(ms, m)[p] = ms[p]
           /\ Append(ms, m)[Len(ms) + 1] = m
BY AppendProperties, LenProperties

(* Calls made later do not matter to what is there. *)
LEMMA Later ==
    ASSUME NEW n \in Nat, NEW n2 \in Nat, n <= n2,
           NEW M, NEW M2, M \subseteq M2, M2 \subseteq M \cup (n + 1..n2),
           NEW ms, Paired(ms, n, M)
    PROVE  Paired(ms, n2, M2)
<1>1. ms \in Seq(Message) /\ \A i \in 1..Len(ms) : ms[i] \in Message
  BY ElementOfSeq DEF Paired
<1>2. ASSUME NEW i \in 1..Len(ms)
      PROVE  /\ ms[i].uses \subseteq 1..n /\ ms[i].uses \subseteq 1..n2 /\ ms[i].result <= n2
             /\ ms[i].result \in Nat /\ ms[i].result <= n
             /\ \A c \in 1..n : c \in M2 => c \in M
             /\ ms[i].result \in M2 => ms[i].result \in M
  <2>1. ms[i].result \in Nat
    BY <1>1, MessageHolds
  <2>2. ms[i].uses \subseteq 1..n /\ ms[i].result <= n
    BY DEF Paired, Alone
  <2> QED BY <2>1, <2>2
<1>3. Alone(ms, n2, M2)
  <2> SUFFICES ASSUME NEW i \in 1..Len(ms)
               PROVE  /\ ms[i].uses # {} => ms[i].result = 0
                      /\ ms[i].uses \subseteq 1..n2 /\ ms[i].result <= n2
                      /\ ms[i].uses \subseteq M2 \/ ms[i].uses \cap M2 = {}
    BY DEF Alone
  <2>1. ms[i].uses # {} => ms[i].result = 0
    BY DEF Paired, Alone
  <2>2. ms[i].uses \subseteq M \/ ms[i].uses \cap M = {}
    BY DEF Paired, Alone
  <2> QED BY <1>2, <2>1, <2>2
<1>4. Behind(ms, M2)
  BY DEF Paired, Behind
<1>5. Once(ms, M2)
  BY DEF Paired, Once
<1> QED BY <1>1, <1>3, <1>4, <1>5 DEF Paired

(* A text, or a result of /subagent, at the end. *)
LEMMA AddOther ==
    ASSUME NEW n \in Nat, NEW M, NEW ms, Paired(ms, n, M), NEW m \in Message,
           m.uses = {}, m.result \in M \cup {0}, m.result <= n
    PROVE  Paired(Append(ms, m), n, M)
<1> DEFINE b == Append(ms, m)
<1>0. ms \in Seq(Message)
  BY DEF Paired
<1>1. /\ b \in Seq(Message) /\ Len(b) = Len(ms) + 1 /\ Len(ms) \in Nat
      /\ \A p \in 1..Len(ms) : b[p] = ms[p]
      /\ b[Len(ms) + 1] = m
  BY <1>0, Ends
<1> HIDE DEF b
<1>2. \A p \in 1..Len(b) : p \in 1..Len(ms) \/ b[p] = m
  BY <1>1
<1>3. Alone(b, n, M)
  BY <1>1, <1>2 DEF Paired, Alone
<1>4. Distinct(b)
  BY <1>1, <1>2 DEF Paired, Distinct
<1>5. Behind(b, M)
  <2> SUFFICES ASSUME NEW x \in 1..Len(b), NEW j \in 1..Len(b),
                      b[j].result \in b[x].uses, b[j].result \notin M
               PROVE  j > x /\ \A h \in x + 1..j : b[h].result \in b[x].uses
    BY DEF Behind
  <2>1. x \in 1..Len(ms) /\ b[x] = ms[x]
    BY <1>1, <1>2
  <2>2. b[x].uses \subseteq 1..n
    BY <1>3 DEF Alone
  <2>3. j \in 1..Len(ms) /\ b[j] = ms[j]
    BY <1>1, <1>2, <2>2
  <2>4. j > x /\ \A h \in x + 1..j : ms[h].result \in ms[x].uses
    BY <2>1, <2>3 DEF Paired, Behind
  <2>5. \A h \in x + 1..j : h \in 1..Len(ms)
    BY <2>3, <1>1
  <2> QED BY <2>1, <2>4, <2>5, <1>1
<1>6. Once(b, M)
  BY <1>1, <1>2 DEF Paired, Once
<1> QED BY <1>1, <1>3, <1>4, <1>5, <1>6 DEF Paired, b

(* New calls at the end. *)
LEMMA AddCalls ==
    ASSUME NEW n \in Nat, NEW n2 \in Nat, n <= n2,
           NEW M, NEW M2, M \subseteq M2, M2 \subseteq M \cup (n + 1..n2),
           M \subseteq 1..n,
           NEW ms, Paired(ms, n, M), NEW C \in SUBSET CallIds, C \subseteq n + 1..n2,
           C \subseteq M2 \/ C \cap M2 = {}
    PROVE  /\ Paired(Append(ms, Assistant(C)), n2, M2)
           /\ \A keep \in SUBSET C : C \cap M2 = {} => Opened(Append(ms, Assistant(C)), keep, M2)
<1> DEFINE m == Assistant(C)
           b == Append(ms, m)
<1>a. m \in Message /\ m.uses = C /\ m.result = 0
  BY Messages
<1> HIDE DEF m
<1>0. ms \in Seq(Message) /\ Paired(ms, n2, M2)
  BY Later DEF Paired
<1>1. /\ b \in Seq(Message) /\ Len(b) = Len(ms) + 1 /\ Len(ms) \in Nat
      /\ \A p \in 1..Len(ms) : b[p] = ms[p]
      /\ b[Len(ms) + 1] = m
  BY <1>0, <1>a, Ends
<1> HIDE DEF b
<1>2. \A p \in 1..Len(b) : p \in 1..Len(ms) \/ (p = Len(ms) + 1 /\ b[p] = m)
  BY <1>1
<1>b. \A p \in 1..Len(ms) : b[p].uses \cap C = {} /\ b[p].result \notin C
  <2> TAKE p \in 1..Len(ms)
  <2>1. b[p].uses \subseteq 1..n /\ b[p].result <= n
    BY <1>1 DEF Paired, Alone
  <2>2. b[p].result \in Nat
    BY <1>0, <1>1, ElementOfSeq, MessageHolds
  <2> QED BY <2>1, <2>2
<1>c. \A c \in C : c # 0
  OBVIOUS
<1>3. Alone(b, n2, M2)
  <2> SUFFICES ASSUME NEW i \in 1..Len(b)
               PROVE  /\ b[i].uses # {} => b[i].result = 0
                      /\ b[i].uses \subseteq 1..n2 /\ b[i].result <= n2
                      /\ b[i].uses \subseteq M2 \/ b[i].uses \cap M2 = {}
    BY DEF Alone
  <2>1. CASE i \in 1..Len(ms)
    BY <1>0, <1>1, <2>1 DEF Paired, Alone
  <2>2. CASE b[i] = m
    <3>1. C \subseteq 1..n2 /\ 0 <= n2
      OBVIOUS
    <3> QED BY <1>a, <2>2, <3>1
  <2> QED BY <1>2, <2>1, <2>2
<1>4. Distinct(b)
  <2> SUFFICES ASSUME NEW p \in 1..Len(b), NEW q \in 1..Len(b), NEW c \in b[p].uses, c \in b[q].uses
               PROVE  p = q
    BY DEF Distinct
  <2>1. CASE p \in 1..Len(ms) /\ q \in 1..Len(ms)
    BY <1>0, <1>1, <2>1 DEF Paired, Distinct
  <2> QED BY <1>a, <1>b, <1>2, <2>1
<1>5. Behind(b, M2)
  <2> SUFFICES ASSUME NEW x \in 1..Len(b), NEW j \in 1..Len(b),
                      b[j].result \in b[x].uses, b[j].result \notin M2
               PROVE  j > x /\ \A h \in x + 1..j : b[h].result \in b[x].uses
    BY DEF Behind
  <2>0. \A c \in b[x].uses : c # 0
    BY <1>3 DEF Alone
  <2>1. j \in 1..Len(ms) /\ b[j] = ms[j]
    BY <1>a, <1>1, <1>2, <2>0
  <2>2. x \in 1..Len(ms) /\ b[x] = ms[x]
    BY <1>a, <1>b, <1>1, <1>2, <2>1
  <2>4. j > x /\ \A h \in x + 1..j : ms[h].result \in ms[x].uses
    BY <1>0, <2>1, <2>2 DEF Paired, Behind
  <2>5. \A h \in x + 1..j : h \in 1..Len(ms)
    BY <2>1, <2>2, <1>1
  <2> QED BY <2>2, <2>4, <2>5, <1>1
<1>6. Once(b, M2)
  <2> SUFFICES ASSUME NEW p \in 1..Len(b), NEW q \in 1..Len(b), b[p].result = b[q].result,
                      b[p].result \notin M2, b[p].result # 0
               PROVE  p = q
    BY DEF Once
  <2>1. p \in 1..Len(ms) /\ q \in 1..Len(ms)
    BY <1>a, <1>2
  <2> QED BY <1>0, <1>1, <2>1 DEF Paired, Once
<1>7. Paired(b, n2, M2)
  BY <1>1, <1>3, <1>4, <1>5, <1>6 DEF Paired
<1>8. ASSUME NEW keep \in SUBSET C, C \cap M2 = {} PROVE Opened(b, keep, M2)
  <2>1. \A j \in 1..Len(b) : b[j].result \notin keep
    BY <1>a, <1>b, <1>c, <1>2
  <2>2. Len(ms) + 1 \in 1..Len(b) /\ b[Len(ms) + 1].uses = C
    BY <1>a, <1>1
  <2>3. \A h \in (Len(ms) + 1) + 1..Len(b) : FALSE
    BY <1>1
  <2> QED BY <1>8, <2>1, <2>2, <2>3 DEF Opened
<1> QED BY <1>7, <1>8 DEF b, m

(* A rewind. *)
LEMMA Prefix ==
    ASSUME NEW n \in Nat, NEW M, NEW ms, Paired(ms, n, M), NEW k \in 1..Len(ms)
    PROVE  Paired(SubSeq(ms, 1, k), n, M)
<1> DEFINE b == SubSeq(ms, 1, k)
<1>0. ms \in Seq(Message) /\ Len(ms) \in Nat
  BY LenProperties DEF Paired
<1>1. b \in Seq(Message) /\ Len(b) = k /\ \A p \in 1..k : b[p] = ms[p]
  BY <1>0, SubSeqProperties
<1> HIDE DEF b
<1>2. \A p \in 1..k : p \in 1..Len(ms)
  BY <1>0
<1>3. Alone(b, n, M)
  BY <1>1, <1>2 DEF Paired, Alone
<1>4. Distinct(b)
  BY <1>1, <1>2 DEF Paired, Distinct
<1>5. Behind(b, M)
  <2> SUFFICES ASSUME NEW x \in 1..k, NEW j \in 1..k,
                      b[j].result \in b[x].uses, b[j].result \notin M
               PROVE  j > x /\ \A h \in x + 1..j : b[h].result \in b[x].uses
    BY <1>1 DEF Behind
  <2>1. j > x /\ \A h \in x + 1..j : ms[h].result \in ms[x].uses
    BY <1>1, <1>2 DEF Paired, Behind
  <2>2. \A h \in x + 1..j : h \in 1..k
    BY <1>0
  <2> QED BY <2>1, <2>2, <1>1
<1>6. Once(b, M)
  BY <1>1, <1>2 DEF Paired, Once
<1> QED BY <1>1, <1>3, <1>4, <1>5, <1>6 DEF Paired, b

(* The last message loses its calls. *)
LEMMA DropCalls ==
    ASSUME NEW n \in Nat, NEW M, NEW ms, Paired(ms, n, M), ms[Len(ms)].uses # {},
           NEW b, b = [ms EXCEPT ![Len(ms)] = Assistant({})]
    PROVE  /\ Paired(b, n, M) /\ Len(b) = Len(ms)
           /\ Continues(b, ms)
<1> DEFINE m == Assistant({})
<1>a. m \in Message /\ m.uses = {} /\ m.result = 0
  BY Messages
<1> HIDE DEF m
<1>0. ms \in Seq(Message) /\ Len(ms) \in Nat
  BY LenProperties DEF Paired
<1>1. CASE Len(ms) = 0
  <2>1. ms = <<>>
    BY <1>0, <1>1, EmptySeq
  <2>2. b = ms
    BY <2>1, <1>1
  <2> QED BY <1>0, <2>2 DEF Continues
<1>2. CASE Len(ms) # 0
  <2>1. Len(ms) \in 1..Len(ms)
    BY <1>0, <1>2
  <2>2. /\ b \in Seq(Message) /\ Len(b) = Len(ms)
        /\ \A p \in 1..Len(ms) : b[p] = IF p = Len(ms) THEN m ELSE ms[p]
    BY <1>0, <1>a, <2>1, ExceptSeq DEF m
  <2>3. ms[Len(ms)].result = 0
    BY <2>1 DEF Paired, Alone
  <2>4. \A p \in 1..Len(ms) :
          b[p].result = ms[p].result /\ (b[p].uses = ms[p].uses \/ b[p].uses = {})
    BY <1>a, <2>2, <2>3
  <2> HIDE DEF m
  <2>5. Alone(b, n, M)
    BY <2>2, <2>4 DEF Paired, Alone
  <2>6. Distinct(b)
    <3> SUFFICES ASSUME NEW p \in 1..Len(ms), NEW q \in 1..Len(ms),
                        NEW c \in b[p].uses, c \in b[q].uses
                 PROVE  p = q
      BY <2>2 DEF Distinct
    <3>1. c \in ms[p].uses /\ c \in ms[q].uses
      BY <2>4
    <3> QED BY <3>1 DEF Paired, Distinct
  <2>7. Behind(b, M)
    <3> SUFFICES ASSUME NEW x \in 1..Len(ms), NEW j \in 1..Len(ms),
                        b[j].result \in b[x].uses, b[j].result \notin M
                 PROVE  j > x /\ \A h \in x + 1..j : b[h].result \in b[x].uses
      BY <2>2 DEF Behind
    <3>1. b[x].uses = ms[x].uses
      BY <2>4
    <3>2. j > x /\ \A h \in x + 1..j : ms[h].result \in ms[x].uses
      BY <2>4, <3>1 DEF Paired, Behind
    <3>3. \A h \in x + 1..j : h \in 1..Len(ms)
      BY <1>0
    <3> QED BY <2>4, <3>1, <3>2, <3>3
  <2>8. Once(b, M)
    <3> SUFFICES ASSUME NEW p \in 1..Len(ms), NEW q \in 1..Len(ms), b[p].result = b[q].result,
                        b[p].result \notin M, b[p].result # 0
                 PROVE  p = q
      BY <2>2 DEF Once
    <3>1. b[p].result = ms[p].result /\ b[q].result = ms[q].result
      BY <2>4
    <3> QED BY <3>1 DEF Paired, Once
  <2> QED BY <2>2, <2>4, <2>5, <2>6, <2>7, <2>8 DEF Paired, Continues
<1> QED BY <1>1, <1>2

(* Results for some of the calls that wait, at the end. *)
LEMMA AnswerCalls ==
    ASSUME NEW n \in Nat, NEW M, NEW ms, Paired(ms, n, M), NEW T, Opened(ms, T, M),
           NEW S \in SUBSET T, NEW bs, Block(bs, S)
    PROVE  Paired(ms \o bs, n, M) /\ Opened(ms \o bs, T \ S, M)
<1>0. ms \in Seq(Message) /\ Len(ms) \in Nat /\ bs \in Seq(Message) /\ Len(bs) \in Nat
  BY LenProperties DEF Paired, Block
<1>1. CASE T = {}
  <2>1. Len(bs) = 0
    BY <1>0, <1>1 DEF Block
  <2>2. bs = <<>>
    BY <1>0, <2>1, EmptySeq
  <2>3. ms \o bs = ms
    BY <1>0, <2>2, ConcatEmptySeq
  <2> QED BY <1>1, <2>3 DEF Opened
<1>2. CASE T # {}
  <2>1. PICK b \in 1..Len(ms) :
          /\ T \subseteq ms[b].uses /\ ms[b].uses \cap M = {}
          /\ \A j \in 1..Len(ms) : ms[j].result \notin T
          /\ \A h \in b + 1..Len(ms) : ms[h].result \in ms[b].uses
    BY <1>2 DEF Opened
  <2> DEFINE r == ms \o bs
  <2>2. Placed(ms, Len(ms), bs, r)
    BY <1>0, PlacedAtEnd
  <2> HIDE DEF r
  <2>3. Paired(r, n, M)
    <3>1. Len(ms) \in b..Len(ms) /\ S \in SUBSET ms[b].uses
      BY <1>0, <2>1
    <3>2. \A j \in 1..Len(ms) : ms[j].result \notin S
      BY <2>1
    <3> QED BY <2>1, <2>2, <3>1, <3>2, InsertPaired
  <2>4. Len(r) = Len(ms) + Len(bs) /\ \A p \in 1..Len(ms) : r[p] = ms[p]
    BY <2>2 DEF Placed
  <2>5. \A p \in Len(ms) + 1..Len(r) : r[p].result \in S
    <3> TAKE p \in Len(ms) + 1..Len(r)
    <3>1. p - Len(ms) \in 1..Len(bs) /\ r[p] = bs[p - Len(ms)]
      BY <1>0, <2>2, <2>4 DEF Placed
    <3> QED BY <3>1 DEF Block
  <2>6. \A p \in 1..Len(r) : p \in 1..Len(ms) \/ p \in Len(ms) + 1..Len(r)
    BY <1>0, <2>4
  <2>7. \A j \in 1..Len(r) : r[j].result \notin T \ S
    BY <2>1, <2>4, <2>5, <2>6
  <2>8. \A h \in b + 1..Len(r) : r[h].result \in r[b].uses
    <3> TAKE h \in b + 1..Len(r)
    <3>1. h \in b + 1..Len(ms) \/ h \in Len(ms) + 1..Len(r)
      BY <1>0, <2>4
    <3>2. \A p \in b + 1..Len(ms) : p \in 1..Len(ms)
      BY <1>0
    <3> QED BY <2>1, <2>4, <2>5, <3>1, <3>2
  <2>9. b \in 1..Len(r) /\ T \ S \subseteq r[b].uses /\ r[b].uses \cap M = {}
    BY <1>0, <2>1, <2>4
  <2>10. Opened(r, T \ S, M)
    BY <2>7, <2>8, <2>9 DEF Opened
  <2> QED BY <2>3, <2>10 DEF r
<1> QED BY <1>1, <1>2

(* What the repair has seen stays seen. *)
LEMMA StaysTracked ==
    ASSUME NEW ms, NEW b, NEW sc, NEW rs, Tracked(ms, sc, rs),
           Len(ms) \in Nat, Len(b) \in Nat, sc <= Len(b),
           \A p \in 1..sc : b[p].result = ms[p].result /\ b[p].uses \subseteq ms[p].uses
    PROVE  Tracked(b, sc, rs)
BY DEF Tracked

(* The number of places behind i and up to i + w. *)
LEMMA IntervalSize ==
    ASSUME NEW i \in Nat, NEW w \in Nat
    PROVE  IsFiniteSet(i + 1..i + w) /\ Cardinality(i + 1..i + w) = w
<1> DEFINE from == i + 1
           upto == i + w
<1>1. from \in Int /\ upto \in Int /\ (IF from > upto THEN 0 ELSE upto - from + 1) = w
  OBVIOUS
<1> HIDE DEF from, upto
<1>2. /\ IsFiniteSet(from..upto)
      /\ Cardinality(from..upto) = IF from > upto THEN 0 ELSE upto - from + 1
  BY <1>1, FS_Interval
<1>3. IsFiniteSet(from..upto) /\ Cardinality(from..upto) = w
  BY <1>1, <1>2, Zenon
<1> QED BY <1>3 DEF from, upto

(* When no call misses its result, the calls of the model are answered right *)
(* behind the messages that make them: the results that belong to a message  *)
(* are as many as its calls, and follow it without a gap.                    *)
LEMMA AllAnswered ==
    ASSUME NEW n \in Nat, Paired(messages, n, manual), Tracked(messages, Len(messages), results),
           NEW i \in 1..Len(messages), NEW c \in messages[i].uses \ manual
    PROVE  Answered(i) /\ Cardinality(Answers(c)) = 1
<1> DEFINE U == messages[i].uses
           J == {j \in 1..Len(messages) : messages[j].result \in U}
           f == [j \in J |-> messages[j].result]
<1>0. messages \in Seq(Message) /\ Len(messages) \in Nat
  BY LenProperties DEF Paired
<1>1. U \subseteq CallIds /\ IsFiniteSet(U) /\ Cardinality(U) \in Nat
  <2>1. messages[i] \in Message
    BY <1>0, ElementOfSeq
  <2>2. U \in SUBSET CallIds
    BY <2>1, MessageHolds
  <2> QED BY <2>2, CallsAreNumbers, FS_Subset, FS_CardinalityType
<1>2. U \cap manual = {} /\ U \subseteq 1..n
  BY DEF Paired, Alone
<1>3. \A d \in U : \E j \in J : messages[j].result = d
  BY DEF Tracked
<1>4. \A j, h \in J : messages[j].result = messages[h].result => j = h
  BY <1>2 DEF Paired, Once
<1>5. f \in Bijection(J, U)
  <2>1. f \in [J -> U]
    OBVIOUS
  <2>2. \A j, h \in J : f[j] = f[h] => j = h
    BY <1>4
  <2>3. \A d \in U : \E j \in J : f[j] = d
    BY <1>3
  <2> QED BY <2>1, <2>2, <2>3 DEF Bijection, Injection, Surjection, IsInjective
<1>6. IsFiniteSet(J) /\ Cardinality(J) = Cardinality(U)
  <2>1. IsFiniteSet(1..Len(messages))
    <3>1. 1 \in Int /\ Len(messages) \in Int
      BY <1>0
    <3> QED BY ONLY <3>1, FS_Interval
  <2>2. IsFiniteSet(J)
    <3>1. J \in SUBSET (1..Len(messages))
      OBVIOUS
    <3> HIDE DEF J
    <3> QED BY <2>1, <3>1, FS_Subset
  <2> QED BY <2>2, <1>5, FS_Bijection DEF ExistsBijection
<1>7. \A j \in J : j > i /\ \A h \in i + 1..j : h \in J
  <2> TAKE j \in J
  <2>1. j > i /\ \A h \in i + 1..j : messages[h].result \in U
    BY <1>2 DEF Paired, Behind
  <2>2. \A h \in i + 1..j : h \in 1..Len(messages)
    BY <1>0
  <2> QED BY <2>1, <2>2
<1> HIDE DEF U, J, f
<1>8. J = i + 1..i + Cardinality(U)
  <2>1. \A j \in J : j \in 1..Len(messages)
    BY DEF J
  <2>2. ASSUME NEW j \in J PROVE j <= i + Cardinality(U)
    <3>1. (i + 1..j) \in SUBSET J
      BY <1>7
    <3>2. Cardinality(i + 1..j) = j - i
      BY <1>7, <2>1, <1>0, FS_Interval
    <3>3. Cardinality(i + 1..j) <= Cardinality(J)
      BY <3>1, <1>6, FS_Subset
    <3> QED BY <3>2, <3>3, <2>1, <1>0, <1>1, <1>6
  <2>3. J \in SUBSET (i + 1..i + Cardinality(U))
    BY <1>0, <1>1, <1>7, <2>1, <2>2
  <2>4. /\ IsFiniteSet(i + 1..i + Cardinality(U))
        /\ Cardinality(i + 1..i + Cardinality(U)) = Cardinality(U)
    BY <1>0, <1>1, IntervalSize
  <2> QED BY <2>3, <2>4, <1>6, FS_Subset
<1>9. i + Cardinality(U) <= Len(messages)
  <2>1. Cardinality(U) # 0
    BY <1>1, FS_EmptySet DEF U
  <2>2. i + Cardinality(U) \in J
    BY <1>0, <1>1, <1>8, <2>1
  <2> QED BY <1>0, <1>1, <2>2 DEF J
<1>10. {messages[j].result : j \in i + 1..i + Cardinality(U)} = U
  <2>1. {messages[j].result : j \in J} = U
    BY <1>3 DEF J
  <2> QED BY <2>1, <1>8
<1>11. Answered(i)
  BY <1>9, <1>10 DEF Answered, U
<1>12. PICK j \in J : messages[j].result = c
  BY <1>3 DEF U
<1>13. Answers(c) = {j}
  <2>1. \A h \in Answers(c) : h \in J /\ messages[h].result = c
    BY DEF Answers, J, U
  <2>2. j \in Answers(c)
    BY <1>12 DEF Answers, J
  <2> QED BY <1>4, <1>12, <2>1, <2>2
<1> QED BY <1>11, <1>13, FS_Singleton

-----------------------------------------------------------------------------
(* The conversation is in order, the repair knows what it has seen, and the  *)
(* calls that wait can be answered at the end.                               *)
ConvInv == PairedInv /\ TrackInv /\ OpenInv

Open == {"added", "decide", "tools", "exec"}

(* What a save changes. *)
LEMMA SaveEffect ==
    ASSUME NEW ms, NEW next, SaveOrEnd(ms, next) \/ SaveBestEffort(ms, next)
    PROVE  messages' = ms /\ (disk' = disk \/ disk' = ms) /\ (turn' = next \/ turn' = Idle)
BY DEF SaveOrEnd, SaveBestEffort, Saved

(* What the conversation holds. *)
LEMMA Holds ==
    ASSUME ConvInv, SentOK
    PROVE  /\ messages \in Seq(Message) /\ Len(messages) \in Nat /\ scan \in 0..Len(messages)
           /\ sent.calls \in Nat /\ sent.calls <= MaxCalls
           /\ Paired(messages, sent.calls, manual) /\ Paired(disk, sent.calls, manual)
<1>1. messages \in Seq(Message)
  BY DEF ConvInv, PairedInv, Paired
<1>2. sent.calls \in Nat /\ sent.calls <= MaxCalls
  BY Bounds DEF SentOK
<1> QED BY <1>1, <1>2, LenProperties DEF ConvInv, PairedInv, TrackInv, Tracked

(* A conversation in order, saved or not, takes the place of the old one. *)
LEMMA StaysPaired ==
    ASSUME SentOK, SentOK', ConvInv, sent.calls <= sent'.calls, manual \subseteq manual',
           manual' \subseteq manual \cup (sent.calls + 1..sent'.calls),
           subagents' \subseteq manual',
           Paired(messages', sent'.calls, manual'), disk' = disk \/ disk' = messages',
           undo' = undo \/ undo' = None \/ undo' = messages
    PROVE  PairedInv'
<1>1. sent.calls \in Nat /\ sent'.calls \in Nat
  BY Bounds DEF SentOK
<1>2. \A ms : Paired(ms, sent.calls, manual) => Paired(ms, sent'.calls, manual')
  BY <1>1, Later
<1>3. manual' \subseteq 1..sent'.calls
  BY <1>1 DEF ConvInv, PairedInv
<1>4. Paired(disk', sent'.calls, manual')
  BY <1>2 DEF ConvInv, PairedInv
<1>5. undo' # None => Paired(undo', sent'.calls, manual')
  BY <1>2 DEF ConvInv, PairedInv
<1> QED BY <1>3, <1>4, <1>5 DEF PairedInv

(* A step that adds to the conversation. *)
LEMMA Grows ==
    ASSUME SentOK, SentOK', ConvInv, UNCHANGED <<scan, results, undo>>,
           sent.calls <= sent'.calls, manual \subseteq manual',
           manual' \subseteq manual \cup (sent.calls + 1..sent'.calls),
           subagents' \subseteq manual',
           NEW b, messages' = b, disk' = disk \/ disk' = b,
           Paired(b, sent'.calls, manual'), Len(b) >= Len(messages),
           Continues(b, messages),
           turn'.pc # "request",
           turn'.pc \in Open => Opened(b, turn'.todo, manual'), turn'.pc = "exec" => turn'.todo # {}
    PROVE  ConvInv'
<1>1. PairedInv'
  BY StaysPaired
<1>2. TrackInv'
  <2>1. Len(b) \in Nat /\ scan <= Len(b) /\ \A p \in 1..scan : p \in 1..Len(messages)
    BY Holds, LenProperties DEF Paired
  <2>2. Tracked(b, scan, results)
    BY <2>1, Holds, StaysTracked DEF ConvInv, TrackInv, Continues
  <2> QED BY <2>2 DEF TrackInv, At
<1>3. OpenInv'
  BY DEF OpenInv, Open, At
<1> QED BY <1>1, <1>2, <1>3 DEF ConvInv

(* A step of a turn that adds to it, and makes no call. *)
LEMMA TurnAdds ==
    ASSUME SentOK, SentOK', ConvInv, UNCHANGED <<scan, results, undo, subagents, manual>>,
           sent'.calls = sent.calls, NEW b, messages' = b, disk' = disk \/ disk' = b,
           Paired(b, sent.calls, manual), Len(b) >= Len(messages),
           Continues(b, messages),
           turn'.pc # "request",
           turn'.pc \in Open => Opened(b, turn'.todo, manual), turn'.pc = "exec" => turn'.todo # {}
    PROVE  ConvInv'
<1>1. subagents' \subseteq manual' /\ sent.calls <= sent'.calls
  BY Holds DEF ConvInv, PairedInv
<1> QED BY <1>1, Grows

(* A step that leaves the conversation as it is. *)
LEMMA Quiet ==
    ASSUME SentOK, SentOK', ConvInv, UNCHANGED <<messages, scan, results, undo, manual>>,
           subagents' \subseteq subagents,
           sent'.calls = sent.calls, disk' = disk \/ disk' = messages,
           \/ turn' = turn
           \/ turn'.pc \notin Open \cup {"request"}
           \/ turn'.pc \in Open \ {"exec"} /\ turn'.todo = {}
           \/ /\ turn'.pc \in Open /\ turn.pc \in Open /\ turn'.todo \subseteq turn.todo
              /\ turn'.pc = "exec" => turn'.todo # {}
    PROVE  ConvInv'
<1>1. PairedInv'
  <2>1. /\ subagents' \subseteq manual' /\ sent.calls <= sent'.calls
        /\ Paired(messages', sent'.calls, manual')
    BY Holds DEF ConvInv, PairedInv
  <2> QED BY <2>1, StaysPaired
<1>2. TrackInv'
  BY DEF ConvInv, TrackInv, At, Open
<1>3. OpenInv'
  BY DEF ConvInv, OpenInv, Open, At, Opened
<1> QED BY <1>1, <1>2, <1>3 DEF ConvInv

(* A step that adds a text, at the top of the loop or the end of the turn. *)
LEMMA TextAdded ==
    ASSUME SentOK, SentOK', ConvInv, UNCHANGED <<scan, results, undo, subagents, manual>>,
           sent'.calls = sent.calls, messages' = Append(messages, Text),
           disk' = disk \/ disk' = Append(messages, Text), turn'.pc \in {"idle", "call"}
    PROVE  ConvInv'
<1>1. /\ Append(messages, Text) \in Seq(Message) /\ Len(Append(messages, Text)) = Len(messages) + 1
      /\ \A p \in 1..Len(messages) : Append(messages, Text)[p] = messages[p]
  BY Holds, Messages, Ends
<1>2. Paired(Append(messages, Text), sent.calls, manual)
  BY Holds, Messages, AddOther
<1> DEFINE b == Append(messages, Text)
<1>3. /\ Len(b) >= Len(messages)
      /\ Continues(b, messages)
  BY <1>1, Holds DEF Continues
<1> HIDE DEF b
<1>4. messages' = b /\ (disk' = disk \/ disk' = b) /\ Paired(b, sent.calls, manual)
  BY <1>2 DEF b
<1>5. turn'.pc # "request" /\ turn'.pc # "exec" /\ turn'.pc \notin Open
  BY DEF Open
<1> QED BY <1>3, <1>4, <1>5, TurnAdds

(* A step that adds results for calls that wait. *)
LEMMA ResultsAdded ==
    ASSUME SentOK, SentOK', ConvInv, UNCHANGED <<scan, results, undo, subagents, manual>>,
           sent'.calls = sent.calls, turn.pc \in Open, NEW S \in SUBSET turn.todo,
           NEW bs, Block(bs, S), messages' = messages \o bs,
           disk' = disk \/ disk' = messages \o bs, turn'.pc \notin {"request", "exec"},
           turn'.pc \in Open => turn'.todo = turn.todo \ S
    PROVE  ConvInv'
<1> DEFINE b == messages \o bs
<1>1. Opened(messages, turn.todo, manual)
  BY DEF ConvInv, OpenInv, Open
<1>2. Paired(b, sent.calls, manual) /\ Opened(b, turn.todo \ S, manual)
  BY <1>1, Holds, AnswerCalls
<1>3. bs \in Seq(Message) /\ Len(bs) \in Nat
  BY LenProperties DEF Block
<1>4. Len(b) >= Len(messages) /\ \A p \in 1..Len(messages) : b[p] = messages[p]
  BY <1>3, Holds, ConcatProperties
<1>5. Continues(b, messages)
  BY <1>4 DEF Continues
<1> HIDE DEF b
<1>6. messages' = b /\ (disk' = disk \/ disk' = b)
  BY DEF b
<1> QED BY <1>2, <1>4, <1>5, <1>6, TurnAdds

(* The call that is next. *)
LEMMA CurrentWaits ==
    ASSUME turn \in Turn, turn.todo # {}
    PROVE  Current \in turn.todo /\ Current \in CallIds
<1> DEFINE S == turn.todo
<1>1. S \in SUBSET CallIds /\ S # {}
  BY DEF Turn
<1> HIDE DEF S
<1>2. IsFiniteSet(S) /\ Cardinality(S) \in Nat /\ Cardinality(S) # 0
  BY <1>1, CallsAreNumbers, FS_Subset, FS_CardinalityType, FS_EmptySet
<1>3. PICK c \in S : Cardinality({d \in S : d <= c}) = 1
  <2>1. 1 \in 1..Cardinality(S)
    BY <1>2
  <2> QED BY <1>1, <2>1, RankOnto
<1>4. IsFiniteSet({d \in S : d <= c})
  BY <1>2, FS_Subset
<1>5. PICK x : {d \in S : d <= c} = {x}
  BY <1>3, <1>4, FS_Singleton
<1>6. \A d \in S : c <= d
  <2> TAKE d \in S
  <2>1. c \in Nat /\ d \in Nat
    BY <1>1, CallsAreNumbers
  <2>2. c \in {e \in S : e <= c}
    BY <2>1
  <2>3. ~(d < c)
    <3>1. SUFFICES ASSUME d < c PROVE FALSE
      OBVIOUS
    <3>2. d \in {e \in S : e <= c}
      BY <2>1, <3>1
    <3> QED BY <1>5, <2>1, <2>2, <3>1, <3>2
  <2> QED BY <2>1, <2>3
<1>7. \E e \in S : \A d \in S : e <= d
  BY <1>6
<1> QED BY <1>1, <1>7 DEF Current, S

(* A result for the call that is next. *)
LEMMA CurrentAnswered ==
    ASSUME ConvInv, turn \in Turn, turn.todo # {}
    PROVE  /\ {Current} \in SUBSET turn.todo /\ Block(<<Result(Current)>>, {Current})
           /\ Append(messages, Result(Current)) = messages \o <<Result(Current)>>
<1>1. Current \in turn.todo /\ Current \in CallIds
  BY CurrentWaits
<1>2. Result(Current) \in Message
  BY <1>1, Messages
<1>3. messages \in Seq(Message)
  BY DEF ConvInv, PairedInv, Paired
<1> QED BY <1>1, <1>2, <1>3, OneBlock, AppendIsConcat

(* An injection point. *)
LEMMA InjectsText ==
    ASSUME SentOK, SentOK', ConvInv, UNCHANGED <<scan, results, undo, subagents, manual>>,
           sent'.calls = sent.calls,
           NEW next, NEW otherwise, inject_soft_interrupts(next, otherwise),
           next.pc \in {"idle", "call"}, otherwise.pc \in {"idle", "call"}
    PROVE  ConvInv'
<1>1. CASE queue = <<>>
  <2>1. messages' = messages /\ disk' = disk /\ turn'.pc \in {"idle", "call"}
    BY <1>1 DEF inject_soft_interrupts, saving
  <2>2. turn'.pc \notin Open \cup {"request"} /\ subagents' \subseteq subagents
    BY <2>1 DEF Open
  <2> QED BY <2>1, <2>2, Quiet
<1>2. CASE queue # <<>>
  <2>1. SaveBestEffort(Append(messages, Text), next)
    BY <1>2 DEF inject_soft_interrupts
  <2>2. /\ messages' = Append(messages, Text)
        /\ disk' = disk \/ disk' = Append(messages, Text)
        /\ turn'.pc \in {"idle", "call"}
    BY <2>1, SaveEffect, IdleTurn
  <2> QED BY <2>2, TextAdded
<1> QED BY <1>1, <1>2

(* What is known of the results in the conversation. *)
LEMMA KnownResults ==
    ASSUME ConvInv, SentOK
    PROVE  /\ known_results = {messages[j].result : j \in 1..Len(messages)} \ {0}
           /\ \A i \in 1..Len(messages) :
                Missing(i) = IF i > scan THEN messages[i].uses \ known_results ELSE {}
<1>1. scan \in Nat /\ Len(messages) \in Nat /\ scan <= Len(messages)
  BY Holds
<1>2. scan_start = scan
  BY <1>1 DEF scan_start
<1>3. results = {messages[j].result : j \in 1..scan} \ {0}
  BY DEF ConvInv, TrackInv, Tracked
<1>4. known_results = results \cup ({messages[j].result : j \in scan + 1..Len(messages)} \ {0})
  BY <1>1, <1>2 DEF known_results
<1>5. \A j : j \in 1..Len(messages) <=> j \in 1..scan \/ j \in scan + 1..Len(messages)
  BY <1>1
<1>6. known_results = {messages[j].result : j \in 1..Len(messages)} \ {0}
  BY <1>3, <1>4, <1>5
<1> QED BY <1>2, <1>6 DEF Missing

(* The repair of a message. *)
LEMMA RepairStep ==
    ASSUME SentOK, SentOK', SavedInv, ConvInv, RepairMessage
    PROVE  ConvInv'
<1>0. /\ turn.pc = "call" /\ turn'.pc = "call" /\ disk' = disk
      /\ UNCHANGED <<scan, results, undo, subagents, manual, sent>>
  BY DEF RepairMessage, At, SavedInv, Sound, Turn, tracking, around
<1>1. PICK i \in 1..Len(messages) :
        /\ Missing(i) # {}
        /\ messages' = SubSeq(messages, 1, i) \o Results(Missing(i))
                         \o SubSeq(messages, i + 1, Len(messages))
  BY DEF RepairMessage
<1> DEFINE S == Missing(i)
           bs == Results(S)
           b == SubSeq(messages, 1, i) \o bs \o SubSeq(messages, i + 1, Len(messages))
<1>2. i > scan /\ S = messages[i].uses \ known_results /\ i \in Nat /\ i <= Len(messages)
  BY <1>1, KnownResults, Holds
<1>3. S \in SUBSET messages[i].uses /\ S \in SUBSET CallIds
  <2>1. messages[i].uses \in SUBSET CallIds
    BY Holds, ElementOfSeq, MessageHolds
  <2> QED BY <1>2, <2>1
<1>4. \A j \in 1..Len(messages) : messages[j].result \notin S
  <2> TAKE j \in 1..Len(messages)
  <2>1. messages[j].result \in known_results \/ messages[j].result = 0
    BY KnownResults
  <2>2. 0 \notin S
    BY <1>3, CallsAreNumbers
  <2> QED BY <1>2, <2>1, <2>2
<1> HIDE DEF S
<1>5. Block(bs, S)
  BY <1>3, ResultsBlock
<1>6. bs \in Seq(Message) /\ Len(bs) \in Nat
  BY <1>5, LenProperties DEF Block
<1> HIDE DEF bs
<1>7. Placed(messages, i, bs, b)
  BY <1>6, Holds, PlacedInside
<1> HIDE DEF b
<1>8. Paired(b, sent.calls, manual)
  <2>1. i \in i..Len(messages) /\ \A h \in i + 1..i : FALSE
    BY <1>2, Holds
  <2> QED BY <1>3, <1>4, <1>5, <1>7, <2>1, Holds, InsertPaired
<1>9. Len(b) \in Nat /\ scan <= Len(b) /\ \A p \in 1..scan : b[p] = messages[p]
  BY <1>2, <1>6, <1>7, Holds DEF Placed
<1>10. Tracked(b, scan, results)
  BY <1>9, Holds, StaysTracked DEF ConvInv, TrackInv
<1>11. messages' = b
  BY <1>1 DEF b, bs, S
<1>12. PairedInv'
  <2>1. subagents' \subseteq manual' /\ sent.calls <= sent'.calls
    BY <1>0, Holds DEF ConvInv, PairedInv
  <2> QED BY <1>0, <1>8, <1>11, <2>1, StaysPaired
<1>13. TrackInv'
  BY <1>0, <1>10, <1>11 DEF TrackInv, At
<1>14. OpenInv'
  BY <1>0 DEF OpenInv, At
<1> QED BY <1>12, <1>13, <1>14 DEF ConvInv

(* A request: everything is seen. *)
LEMMA CallStep ==
    ASSUME SentOK, SentOK', SavedInv, ConvInv, CallProvider
    PROVE  ConvInv'
<1>1. messages' = messages /\ (disk' = disk \/ disk' = messages) /\ turn'.pc \in {"request", "idle"}
  <2> DEFINE next == [turn EXCEPT !.pc = "request", !.dirty = FALSE]
  <2>1. next.pc = "request" /\ Reach("request").pc = "request"
    BY DEF SavedInv, Sound, Turn, Reach
  <2> HIDE DEF next
  <2>2. SaveBestEffort(messages, next) \/ (UNCHANGED saving /\ turn' = Reach("request"))
    BY DEF CallProvider, next
  <2> QED BY <2>1, <2>2, SaveEffect, IdleTurn DEF saving
<1>2. /\ UNCHANGED <<undo, subagents, manual, sent>>
      /\ scan' = Len(messages) /\ results' = known_results
      /\ \A i \in 1..Len(messages) : Missing(i) = {}
  BY DEF CallProvider, around
<1>3. PairedInv'
  <2>1. subagents' \subseteq manual' /\ sent.calls <= sent'.calls
    BY <1>2, Holds DEF ConvInv, PairedInv
  <2> QED BY <1>1, <1>2, <2>1, Holds, StaysPaired
<1>4. Tracked(messages, Len(messages), known_results)
  <2>1. \A i \in 1..Len(messages) : messages[i].uses \subseteq known_results
    <3> TAKE i \in 1..Len(messages)
    <3>1. CASE i > scan
      BY <1>2, <3>1, KnownResults
    <3>2. CASE ~(i > scan)
      <4>1. i \in 1..scan
        BY <3>2, Holds
      <4>2. /\ messages[i].uses \subseteq results
            /\ results = {messages[j].result : j \in 1..scan} \ {0}
        BY <4>1 DEF ConvInv, TrackInv, Tracked
      <4>3. \A j \in 1..scan : j \in 1..Len(messages)
        BY Holds
      <4> QED BY <4>2, <4>3, KnownResults
    <3> QED BY <3>1, <3>2
  <2>2. Len(messages) \in 0..Len(messages)
    BY Holds
  <2> QED BY <2>1, <2>2, KnownResults DEF Tracked
<1>5. TrackInv'
  BY <1>1, <1>2, <1>4 DEF TrackInv, At
<1>6. OpenInv'
  BY <1>1 DEF OpenInv, At
<1> QED BY <1>3, <1>5, <1>6 DEF ConvInv

(* A response: its calls wait. *)
LEMMA RespondStep ==
    ASSUME SentOK, SentOK', SavedInv, ConvInv, Respond
    PROVE  ConvInv'
<1>0. UNCHANGED <<scan, results, undo, subagents, manual>>
  BY Responds DEF tracking, around
<1>1. PICK n \in 0..MaxUses, cut \in BOOLEAN : \E keep \in SUBSET Fresh(n) :
         /\ sent.calls + n <= MaxCalls
         /\ sent' = [sent EXCEPT !.calls = @ + n]
         /\ \/ n = 0 /\ UNCHANGED saving /\ turn' = Response(keep, cut)
            \/ SaveOrEnd(Append(messages, Assistant(Fresh(n))), Response(keep, cut))
  BY Responds
<1>2. PICK keep \in SUBSET Fresh(n) :
         /\ sent.calls + n <= MaxCalls
         /\ sent' = [sent EXCEPT !.calls = @ + n]
         /\ \/ n = 0 /\ UNCHANGED saving /\ turn' = Response(keep, cut)
            \/ SaveOrEnd(Append(messages, Assistant(Fresh(n))), Response(keep, cut))
  BY <1>1
<1>3. Response(keep, cut).pc = "added" /\ Response(keep, cut).todo = keep
  BY DEF Response, SavedInv, Sound, Turn
<1>4. /\ n \in Nat /\ sent.calls \in Nat /\ MaxCalls \in Nat
      /\ sent'.calls = sent.calls + n /\ sent.calls + n <= MaxCalls
  BY <1>2, Bounds DEF SentOK
<1>5. CASE n = 0 /\ UNCHANGED saving /\ turn' = Response(keep, cut)
  <2>1. keep = {} /\ sent'.calls = sent.calls
    BY <1>4, <1>5 DEF Fresh
  <2>2. turn'.pc \in Open \ {"exec"} /\ turn'.todo = {}
    BY <1>3, <1>5, <2>1 DEF Open
  <2> QED BY <1>0, <1>5, <2>1, <2>2, Quiet DEF saving
<1>6. CASE SaveOrEnd(Append(messages, Assistant(Fresh(n))), Response(keep, cut))
  <2> DEFINE C == Fresh(n)
             b == Append(messages, Assistant(C))
  <2>1. C \in SUBSET CallIds /\ C \subseteq sent.calls + 1..sent'.calls
    BY <1>4 DEF Fresh, CallIds
  <2>2. manual \subseteq 1..sent.calls /\ manual \cap C = {}
    <3>1. manual \subseteq 1..sent.calls
      BY DEF ConvInv, PairedInv
    <3> QED BY <1>4, <2>1, <3>1
  <2>3. /\ sent'.calls \in Nat /\ sent.calls <= sent'.calls
        /\ manual \subseteq manual \cup (sent.calls + 1..sent'.calls)
    BY <1>4
  <2> HIDE DEF C
  <2>4. Paired(b, sent'.calls, manual) /\ Opened(b, keep, manual)
    <3>1. keep \in SUBSET C
      BY <1>2 DEF C
    <3> QED BY <1>4, <2>1, <2>2, <2>3, <3>1, Holds, AddCalls
  <2>5. Len(b) = Len(messages) + 1 /\ \A p \in 1..Len(messages) : b[p] = messages[p]
    BY <2>1, Messages, Holds, Ends
  <2>6. /\ messages' = b /\ (disk' = disk \/ disk' = b)
        /\ turn' = Response(keep, cut) \/ turn' = Idle
    BY <1>6, SaveEffect DEF C
  <2> HIDE DEF b
  <2>7. (turn'.pc = "added" /\ turn'.todo = keep) \/ turn'.pc = "idle"
    BY <1>3, <2>6, IdleTurn
  <2>8. /\ turn'.pc # "request" /\ turn'.pc # "exec"
        /\ turn'.pc \in Open => Opened(b, turn'.todo, manual)
    BY <2>4, <2>7 DEF Open
  <2>9. /\ Len(b) >= Len(messages)
        /\ Continues(b, messages)
    BY <2>5, Holds DEF Continues
  <2>10. subagents' \subseteq manual'
    BY <1>0 DEF ConvInv, PairedInv
  <2> QED BY <1>0, <2>3, <2>4, <2>6, <2>8, <2>9, <2>10, Grows
<1> QED BY <1>2, <1>5, <1>6

(* A response cut short may lose its calls. *)
LEMMA FilterStep ==
    ASSUME SentOK, SentOK', SavedInv, ConvInv, filter_truncated_tool_calls
    PROVE  ConvInv'
<1>0. UNCHANGED <<scan, results, undo, subagents, manual, sent>> /\ turn.pc = "added"
  BY DEF filter_truncated_tool_calls, tracking, around, At
<1>1. Reach("decide").pc = "decide" /\ Reach("decide").todo = turn.todo
  BY DEF SavedInv, Sound, Turn, Reach
<1>2. CASE turn.cut /\ turn.todo = {} /\ messages[Len(messages)].uses # {}
  <2> DEFINE b == [messages EXCEPT ![Len(messages)] = Assistant({})]
  <2>1. SaveBestEffort(b, Reach("decide"))
    BY <1>2 DEF filter_truncated_tool_calls
  <2>2. messages' = b /\ (disk' = disk \/ disk' = b) /\ (turn' = Reach("decide") \/ turn' = Idle)
    BY <2>1, SaveEffect
  <2>3. /\ Paired(b, sent.calls, manual) /\ Len(b) = Len(messages)
        /\ Continues(b, messages)
    BY <1>2, Holds, DropCalls
  <2> HIDE DEF b
  <2>4. turn'.pc # "request" /\ turn'.pc # "exec" /\ (turn'.pc \in Open => turn'.todo = {})
    BY <1>1, <1>2, <2>2, IdleTurn DEF Open
  <2>5. turn'.pc \in Open => Opened(b, turn'.todo, manual)
    BY <2>4 DEF Opened
  <2>6. Len(b) >= Len(messages)
    BY <2>3, Holds
  <2> QED BY <1>0, <2>2, <2>3, <2>4, <2>5, <2>6, TurnAdds
<1>3. CASE ~(turn.cut /\ turn.todo = {} /\ messages[Len(messages)].uses # {})
  <2>1. UNCHANGED saving /\ turn' = Reach("decide")
    BY <1>3 DEF filter_truncated_tool_calls
  <2>2. turn'.pc \in Open /\ turn.pc \in Open /\ turn'.todo \subseteq turn.todo /\ turn'.pc # "exec"
    BY <1>0, <1>1, <2>1 DEF Open
  <2> QED BY <1>0, <2>1, <2>2, Quiet DEF saving
<1> QED BY <1>2, <1>3

(* The tools of a response are skipped, answered, run or stopped. *)
LEMMA ToolsStep ==
    ASSUME SentOK, SentOK', SavedInv, ConvInv,
           \/ SkipForShutdown \/ StartTools \/ SkipForUrgent \/ AnswerAtOnce \/ RefuseTool
           \/ StartTool \/ ToolEnds \/ ToolMoved \/ ToolStopped \/ ToolsDone \/ NextRound
    PROVE  ConvInv'
<1>0. UNCHANGED <<scan, results, undo, subagents, manual, sent>> /\ turn \in Turn
  BY DEF SkipForShutdown, StartTools, SkipForUrgent, AnswerAtOnce, RefuseTool, StartTool, ToolEnds,
         ToolMoved, ToolStopped, ToolsDone, NextRound, tracking, around, SavedInv, Sound
<1>1. Idle.pc = "idle" /\ Again.pc = "call" /\ turn.todo \in SUBSET CallIds
  BY <1>0, IdleTurn, AgainTurn DEF Turn
<1>2. AfterTool(TRUE).pc = "tools" /\ AfterTool(TRUE).todo = turn.todo \ {Current}
      /\ AfterTool(FALSE).pc = "tools" /\ AfterTool(FALSE).todo = turn.todo \ {Current}
  BY <1>0 DEF AfterTool, Turn
<1>3. \A p : Reach(p).pc = p /\ Reach(p).todo = turn.todo
  BY <1>0 DEF Reach, Turn
<1>4. CASE SkipForShutdown
  <2>1. SaveOrEnd(messages \o Results(turn.todo), Idle) /\ turn.pc \in Open
    BY <1>4 DEF SkipForShutdown, At, Open
  <2>2. Block(Results(turn.todo), turn.todo)
    BY <1>1, ResultsBlock
  <2>3. /\ messages' = messages \o Results(turn.todo)
        /\ disk' = disk \/ disk' = messages \o Results(turn.todo)
        /\ turn'.pc \notin {"request", "exec"} /\ turn'.pc \notin Open
    BY <1>1, <2>1, SaveEffect DEF Open
  <2> QED BY <1>0, <2>1, <2>2, <2>3, ResultsAdded
<1>5. CASE StartTools
  <2>1. PICK keep \in SUBSET turn.todo :
          \/ inject_soft_interrupts(Again, Idle)
          \/ turn' = [turn EXCEPT !.pc = "tools", !.todo = keep, !.cut = FALSE] /\ UNCHANGED saving
    BY <1>5 DEF StartTools
  <2>2. CASE inject_soft_interrupts(Again, Idle)
    BY <1>0, <1>1, <2>2, InjectsText
  <2>3. CASE turn' = [turn EXCEPT !.pc = "tools", !.todo = keep, !.cut = FALSE] /\ UNCHANGED saving
    <3>1. turn'.pc = "tools" /\ turn'.todo = keep /\ turn.pc = "decide"
      BY <1>0, <1>5, <2>3 DEF StartTools, Turn, At
    <3>2. /\ turn'.pc \in Open /\ turn'.pc # "exec" /\ turn.pc \in Open
          /\ turn'.todo \subseteq turn.todo
      BY <3>1 DEF Open
    <3> QED BY <1>0, <2>3, <3>2, Quiet DEF saving
  <2> QED BY <2>1, <2>2, <2>3
<1>6. CASE SkipForUrgent
  <2> DEFINE rs == Results(turn.todo)
             r == messages \o rs
             b == r \o <<Text, Text>>
             next == [turn EXCEPT !.todo = {}]
  <2>1. SaveBestEffort(b, next) /\ turn.pc = "tools"
    BY <1>6 DEF SkipForUrgent, At
  <2>2. next.pc = "tools" /\ next.todo = {}
    BY <1>0, <2>1 DEF Turn
  <2>3. messages' = b /\ (disk' = disk \/ disk' = b) /\ (turn' = next \/ turn' = Idle)
    BY <2>1, SaveEffect
  <2> HIDE DEF next
  <2>4. Block(rs, turn.todo)
    BY <1>1, ResultsBlock
  <2> HIDE DEF rs
  <2>5. Opened(messages, turn.todo, manual)
    BY <2>1 DEF ConvInv, OpenInv
  <2>6. Paired(r, sent.calls, manual)
    BY <2>4, <2>5, Holds, AnswerCalls
  <2>7. r \in Seq(Message) /\ Len(r) \in Nat /\ Len(r) >= Len(messages)
        /\ \A p \in 1..Len(messages) : r[p] = messages[p]
    <3>1. rs \in Seq(Message) /\ Len(rs) \in Nat
      BY <2>4, LenProperties DEF Block
    <3> QED BY <3>1, Holds, ConcatProperties
  <2> HIDE DEF r
  <2>8. b = Append(Append(r, Text), Text)
    BY <2>7, Messages
  <2>9. Paired(Append(r, Text), sent.calls, manual)
    BY <2>6, Messages, Holds, AddOther
  <2>10. Paired(b, sent.calls, manual)
    <3> DEFINE rt == Append(r, Text)
    <3>1. Paired(rt, sent.calls, manual)
      BY <2>9
    <3> HIDE DEF rt, b
    <3>2. Paired(Append(rt, Text), sent.calls, manual)
      BY <3>1, Messages, Holds, AddOther
    <3> QED BY <2>8, <3>2 DEF rt
  <2>11. Len(b) >= Len(messages) /\ \A p \in 1..Len(messages) : b[p] = messages[p]
    <3>1. Append(r, Text) \in Seq(Message) /\ Len(Append(r, Text)) = Len(r) + 1
          /\ \A p \in 1..Len(r) : Append(r, Text)[p] = r[p]
      BY <2>7, Messages, Ends
    <3>2. Len(b) = Len(r) + 2 /\ \A p \in 1..Len(r) + 1 : b[p] = Append(r, Text)[p]
      BY <2>7, <2>8, <3>1, Messages, Ends
    <3> HIDE DEF b
    <3>3. \A p \in 1..Len(messages) : p \in 1..Len(r) /\ p \in 1..Len(r) + 1
      BY <2>7, Holds
    <3> QED BY <2>7, <3>1, <3>2, <3>3, Holds
  <2> HIDE DEF b
  <2>12. Continues(b, messages)
    BY <2>11 DEF Continues
  <2>13. /\ turn'.pc # "request" /\ turn'.pc # "exec"
         /\ turn'.pc \in Open => Opened(b, turn'.todo, manual)
    BY <1>1, <2>2, <2>3 DEF Open, Opened
  <2> QED BY <1>0, <2>3, <2>10, <2>11, <2>12, <2>13, TurnAdds
<1>7. CASE AnswerAtOnce \/ ToolEnds
  <2>1. /\ messages' = messages \o <<Result(Current)>> /\ disk' = disk
        /\ turn' = AfterTool(TRUE) /\ turn.pc \in Open
    BY <1>7 DEF AnswerAtOnce, ToolEnds, Add, At, Open
  <2>2. turn.todo # {}
    BY <1>7 DEF AnswerAtOnce, ToolEnds, ConvInv, OpenInv, At
  <2>3. {Current} \in SUBSET turn.todo /\ Block(<<Result(Current)>>, {Current})
    BY <1>0, <2>2, CurrentAnswered
  <2>4. turn'.pc \notin {"request", "exec"} /\ turn'.todo = turn.todo \ {Current}
    BY <1>2, <2>1
  <2> QED BY <1>0, <2>1, <2>3, <2>4, ResultsAdded
<1>8. CASE RefuseTool
  <2>1. UNCHANGED saving /\ turn'.pc \notin Open \cup {"request"}
    BY <1>1, <1>8 DEF RefuseTool, Open
  <2> QED BY <1>0, <2>1, Quiet DEF saving
<1>9. CASE StartTool
  <2>1. UNCHANGED saving /\ turn' = Reach("exec") /\ turn.pc \in Open /\ turn.todo # {}
    BY <1>9 DEF StartTool, At, Open
  <2>2. turn'.pc \in Open /\ turn'.todo \subseteq turn.todo /\ turn'.todo # {}
    BY <1>3, <2>1 DEF Open
  <2> QED BY <1>0, <2>1, <2>2, Quiet DEF saving
<1>10. CASE ToolMoved
  <2>1. SaveOrEnd(Append(messages, Result(Current)), AfterTool(FALSE)) /\ turn.pc = "exec"
    BY <1>10 DEF ToolMoved, At
  <2>2. turn.todo # {} /\ turn.pc \in Open
    BY <2>1 DEF ConvInv, OpenInv, At, Open
  <2>3. {Current} \in SUBSET turn.todo /\ Block(<<Result(Current)>>, {Current})
        /\ Append(messages, Result(Current)) = messages \o <<Result(Current)>>
    BY <1>0, <2>2, CurrentAnswered
  <2>4. /\ messages' = messages \o <<Result(Current)>>
        /\ disk' = disk \/ disk' = messages \o <<Result(Current)>>
        /\ turn' = AfterTool(FALSE) \/ turn' = Idle
    BY <2>1, <2>3, SaveEffect
  <2>5. /\ turn'.pc \notin {"request", "exec"}
        /\ turn'.pc \in Open => turn'.todo = turn.todo \ {Current}
    BY <1>1, <1>2, <2>4 DEF Open
  <2> QED BY <1>0, <2>2, <2>3, <2>4, <2>5, ResultsAdded
<1>11. CASE ToolStopped
  <2> DEFINE one == Append(messages, Result(Current))
             rest == turn.todo \ {Current}
             all == one \o Results(rest)
  <2>1. turn.pc = "exec" /\ (SaveOrEnd(all, Idle) \/ (Saved(one, FALSE, 0) /\ turn' = Idle))
    BY <1>11 DEF ToolStopped, At
  <2>2. turn.todo # {} /\ turn.pc \in Open /\ Opened(messages, turn.todo, manual)
    BY <2>1 DEF ConvInv, OpenInv, At, Open
  <2>3. {Current} \in SUBSET turn.todo /\ Block(<<Result(Current)>>, {Current})
        /\ one = messages \o <<Result(Current)>>
    BY <1>0, <2>2, CurrentAnswered
  <2>4. Paired(one, sent.calls, manual) /\ Opened(one, rest, manual)
    <3> DEFINE bs == <<Result(Current)>>
               S == {Current}
    <3>1. S \in SUBSET turn.todo /\ Block(bs, S)
      BY <2>3
    <3> HIDE DEF bs, S
    <3>2. /\ Paired(messages \o bs, sent.calls, manual)
          /\ Opened(messages \o bs, turn.todo \ S, manual)
      BY <2>2, <3>1, Holds, AnswerCalls
    <3> QED BY <2>3, <3>2 DEF bs, S
  <2>5. Block(Results(rest), rest)
    <3>1. rest \in SUBSET CallIds
      BY <1>1
    <3> QED BY <3>1, ResultsBlock
  <2>6. Paired(all, sent.calls, manual)
    <3> HIDE DEF one, rest
    <3> QED BY <2>4, <2>5, Holds, AnswerCalls
  <2>7. Result(Current) \in Message
    BY <1>0, <2>2, CurrentWaits, Messages
  <2>8. /\ one \in Seq(Message) /\ Len(one) = Len(messages) + 1
        /\ \A p \in 1..Len(messages) : one[p] = messages[p]
    BY <2>7, Holds, Ends
  <2>9. Len(all) >= Len(messages) /\ \A p \in 1..Len(messages) : all[p] = messages[p]
    <3> HIDE DEF one, rest
    <3> DEFINE bs == Results(rest)
    <3>1. bs \in Seq(Message) /\ Len(bs) \in Nat
      BY <2>5, LenProperties DEF Block
    <3>2. one \in Seq(Message) /\ Len(one) \in Nat
      BY <2>8, LenProperties
    <3> HIDE DEF bs
    <3>3. Len(one \o bs) = Len(one) + Len(bs) /\ \A p \in 1..Len(one) : (one \o bs)[p] = one[p]
      BY <3>1, <3>2, ConcatProperties
    <3>4. Len(all) = Len(one) + Len(bs) /\ \A p \in 1..Len(one) : all[p] = one[p]
      BY <3>3 DEF bs
    <3> HIDE DEF all
    <3> QED BY <2>8, <3>1, <3>2, <3>4, Holds
  <2>10. \/ messages' = all /\ (disk' = disk \/ disk' = all)
         \/ messages' = one /\ disk' = disk
    <3> HIDE DEF one, all
    <3>1. Saved(one, FALSE, 0) => messages' = one /\ disk' = disk
      BY DEF Saved
    <3> QED BY <2>1, <3>1, SaveEffect
  <2>11. turn' = Idle
    BY <2>1 DEF SaveOrEnd
  <2> HIDE DEF one, all
  <2>12. turn'.pc # "request" /\ turn'.pc # "exec" /\ turn'.pc \notin Open
    BY <1>1, <2>11 DEF Open
  <2>13. CASE messages' = all /\ (disk' = disk \/ disk' = all)
    <3>1. Continues(all, messages)
      BY <2>9 DEF Continues
    <3> QED BY <1>0, <2>6, <2>9, <2>12, <2>13, <3>1, TurnAdds
  <2>14. CASE messages' = one /\ disk' = disk
    <3>1. Len(one) >= Len(messages)
          /\ Continues(one, messages)
      BY <2>8, Holds DEF Continues
    <3> QED BY <1>0, <2>4, <2>12, <2>14, <3>1, TurnAdds
  <2> QED BY <2>10, <2>13, <2>14
<1>12. CASE ToolsDone
  <2> DEFINE next == [turn EXCEPT !.pc = "done", !.dirty = FALSE]
  <2>1. next.pc = "done"
    BY <1>0 DEF Turn
  <2> HIDE DEF next
  <2>2. SaveOrEnd(messages, next) \/ (UNCHANGED saving /\ turn' = Reach("done"))
    BY <1>12 DEF ToolsDone, next
  <2>3. messages' = messages /\ (disk' = disk \/ disk' = messages) /\ turn'.pc \in {"done", "idle"}
    BY <1>1, <1>3, <2>1, <2>2, SaveEffect DEF saving
  <2>4. turn'.pc \notin Open \cup {"request"}
    BY <2>3 DEF Open
  <2> QED BY <1>0, <2>3, <2>4, Quiet
<1>13. CASE NextRound
  BY <1>0, <1>1, <1>13, InjectsText DEF NextRound
<1> QED BY <1>4, <1>5, <1>6, <1>7, <1>8, <1>9, <1>10, <1>11, <1>12, <1>13

(* A conversation of which the repair has seen nothing. *)
LEMMA Unseen ==
    ASSUME NEW n, NEW M, NEW ms, Paired(ms, n, M)
    PROVE  Tracked(ms, 0, {})
<1>1. Len(ms) \in Nat
  BY LenProperties DEF Paired
<1>2. 0 \in 0..Len(ms) /\ \A p \in 1..0 : FALSE
  BY <1>1
<1> QED BY <1>2 DEF Tracked

(* A step that puts another conversation in the place of this one, and       *)
(* forgets what the repair has seen.                                         *)
LEMMA Replaced ==
    ASSUME SentOK, SentOK', ConvInv, UNCHANGED <<manual, sent>>, subagents' \subseteq subagents,
           NEW b, messages' = b, disk' = disk \/ disk' = b, Paired(b, sent.calls, manual),
           undo' = undo \/ undo' = None \/ undo' = messages,
           scan' = 0, results' = {}, turn'.pc = "idle"
    PROVE  ConvInv'
<1>1. PairedInv'
  <2>1. subagents' \subseteq manual' /\ sent.calls <= sent'.calls
    BY Holds DEF ConvInv, PairedInv
  <2> QED BY <2>1, StaysPaired
<1>2. TrackInv'
  BY Unseen DEF TrackInv, At
<1>3. OpenInv'
  BY DEF OpenInv, At
<1> QED BY <1>1, <1>2, <1>3 DEF ConvInv

(* What the user, the server and the process do around the turns. *)
LEMMA OutsideStep ==
    ASSUME SentOK, SentOK', SavedInv, ConvInv, Outside
    PROVE  ConvInv'
<1>0. turn \in Turn /\ Idle.pc = "idle"
  BY IdleTurn DEF SavedInv, Sound
<1>1. CASE Enqueue \/ clear_soft_interrupts \/ Stop
  <2>1. /\ UNCHANGED <<messages, disk, scan, results, undo, manual, subagents, turn>>
        /\ sent'.calls = sent.calls
    BY <1>1 DEF Enqueue, clear_soft_interrupts, Stop, saving, tracking, around, SentOK
  <2> QED BY <2>1, Quiet
<1>2. CASE Cancel
  <2>1. UNCHANGED <<messages, disk, scan, results, undo, manual, subagents, sent>> /\ turn' = Idle
    BY <1>2 DEF Cancel, saving, tracking
  <2>2. turn'.pc \notin Open \cup {"request"}
    BY <1>0, <2>1 DEF Open
  <2> QED BY <2>1, <2>2, Quiet
<1>3. CASE SubagentStarts
  <2> DEFINE c == sent.calls + 1
             b == Append(messages, Assistant({c}))
  <2>1. /\ turn.pc = "idle" /\ sent.calls < MaxCalls /\ sent' = [sent EXCEPT !.calls = @ + 1]
        /\ UNCHANGED <<scan, results, undo, turn>> /\ manual' = manual \cup {c}
        /\ subagents' \subseteq subagents \cup {c}
        /\ messages' = b /\ (disk' = disk \/ disk' = b)
    BY <1>3 DEF SubagentStarts, At, tracking, Saved
  <2>2. /\ sent.calls \in Nat /\ MaxCalls \in Nat /\ c \in Nat /\ c \in CallIds
        /\ sent'.calls = c /\ sent.calls <= c
        /\ {c} \subseteq sent.calls + 1..c
    BY <2>1, Bounds DEF SentOK, CallIds
  <2>3. manual \subseteq 1..sent.calls /\ subagents \subseteq manual
    BY DEF ConvInv, PairedInv
  <2>4. /\ {c} \in SUBSET CallIds
        /\ manual' \subseteq manual \cup (sent.calls + 1..c) /\ manual \subseteq manual'
        /\ {c} \subseteq manual' /\ subagents' \subseteq manual'
    BY <2>1, <2>2, <2>3
  <2> HIDE DEF c
  <2>5. Paired(b, c, manual')
    BY <2>2, <2>3, <2>4, Holds, AddCalls
  <2>6. Len(b) = Len(messages) + 1 /\ \A p \in 1..Len(messages) : b[p] = messages[p]
    BY <2>4, Messages, Holds, Ends
  <2> HIDE DEF b
  <2>7. /\ Len(b) >= Len(messages)
        /\ Continues(b, messages)
    BY <2>6, Holds DEF Continues
  <2>8. turn'.pc # "request" /\ turn'.pc # "exec" /\ turn'.pc \notin Open
    BY <2>1 DEF Open
  <2> QED BY <2>1, <2>2, <2>4, <2>5, <2>7, <2>8, Grows
<1>4. CASE SubagentEnds
  <2>1. PICK c \in subagents :
          /\ messages' = Append(messages, Result(c))
          /\ disk' = disk \/ disk' = Append(messages, Result(c))
          /\ subagents' = subagents \ {c}
    BY <1>4 DEF SubagentEnds, Saved
  <2> DEFINE b == Append(messages, Result(c))
  <2>2. UNCHANGED <<scan, results, undo, manual, turn, sent>> /\ turn.pc = "idle"
    BY <1>4 DEF SubagentEnds, tracking, At
  <2>3. c \in manual /\ c \in 1..sent.calls /\ subagents' \subseteq manual'
    BY <2>1, <2>2 DEF ConvInv, PairedInv
  <2>4. c \in CallIds /\ c <= sent.calls
    BY <2>3, Holds, Bounds DEF CallIds
  <2>5. Result(c) \in Message /\ Result(c).uses = {} /\ Result(c).result = c
    BY <2>4, Messages
  <2>6. Paired(b, sent.calls, manual)
    BY <2>3, <2>4, <2>5, Holds, AddOther
  <2>7. Len(b) = Len(messages) + 1 /\ \A p \in 1..Len(messages) : b[p] = messages[p]
    BY <2>5, Holds, Ends
  <2>8. messages' = b /\ (disk' = disk \/ disk' = b)
    BY <2>1
  <2> HIDE DEF b
  <2>9. /\ Len(b) >= Len(messages)
        /\ Continues(b, messages)
    BY <2>7, Holds DEF Continues
  <2>10. turn'.pc # "request" /\ turn'.pc # "exec" /\ turn'.pc \notin Open
    BY <2>2 DEF Open
  <2>11. sent.calls <= sent'.calls
    BY <2>2, Holds
  <2> QED BY <2>2, <2>3, <2>6, <2>8, <2>9, <2>10, <2>11, Grows
<1>5. CASE rewind_to_message
  <2>1. PICK k \in 1..Len(messages) :
          /\ messages' = SubSeq(messages, 1, k)
          /\ disk' = disk \/ disk' = SubSeq(messages, 1, k)
    BY <1>5 DEF rewind_to_message, SaveEvent, Saved
  <2>2. /\ UNCHANGED <<manual, sent, subagents>>
        /\ undo' = messages /\ scan' = 0 /\ results' = {} /\ turn'.pc = "idle"
    BY <1>5 DEF rewind_to_message, reset_tool_output_tracking, At
  <2>3. Paired(SubSeq(messages, 1, k), sent.calls, manual)
    BY Holds, Prefix
  <2> QED BY <2>1, <2>2, <2>3, Replaced
<1>6. CASE undo_rewind
  <2>1. /\ messages' = undo /\ (disk' = disk \/ disk' = undo) /\ undo' = None
        /\ UNCHANGED <<manual, sent, subagents>> /\ scan' = 0 /\ results' = {} /\ turn'.pc = "idle"
    BY <1>6 DEF undo_rewind, reset_tool_output_tracking, At, Saved
  <2>2. Paired(undo, sent.calls, manual)
    BY <1>6 DEF undo_rewind, ConvInv, PairedInv
  <2> QED BY <2>1, <2>2, Replaced
<1>7. CASE clear
  <2>1. /\ messages' = <<>> /\ disk' = <<>> /\ undo' = None
        /\ UNCHANGED <<manual, sent, subagents>> /\ scan' = 0 /\ results' = {} /\ turn'.pc = "idle"
    BY <1>7 DEF clear, reset_runtime_state_for_session_change, reset_tool_output_tracking, At, Saved
  <2>2. Paired(<<>>, sent.calls, manual)
    BY DEF Paired, Alone, Distinct, Behind, Once
  <2> QED BY <2>1, <2>2, Replaced
<1>8. CASE CrashAndRestore
  <2>1. /\ messages' = disk /\ disk' = disk /\ undo' = None
        /\ UNCHANGED <<manual, sent>> /\ subagents' = {} /\ turn' = Idle
        /\ scan' = 0 /\ results' = {}
    BY <1>8 DEF CrashAndRestore, reset_runtime_state_for_session_change,
                reset_tool_output_tracking, Saved
  <2> QED BY <1>0, <2>1, Holds, Replaced
<1> QED BY <1>1, <1>2, <1>3, <1>4, <1>5, <1>6, <1>7, <1>8 DEF Outside

(* Every step leaves the conversation in order. *)
LEMMA ConvStep == SentOK /\ SavedInv /\ ConvInv /\ [TurnNext]_turn_vars => ConvInv'
<1> SUFFICES ASSUME SentOK, SavedInv, ConvInv, [TurnNext]_turn_vars PROVE ConvInv'
  OBVIOUS
<1>0. SentOK' /\ turn \in Turn
  BY SentStep DEF SavedInv, Sound
<1>1. Idle.pc = "idle" /\ [Idle EXCEPT !.pc = "call"].pc = "call" /\ Again.pc = "call"
  BY <1>0, IdleTurn, AgainTurn
<1>2. CASE StartTurn
  <2> DEFINE next == [Idle EXCEPT !.pc = "call"]
  <2>1. SaveOrEnd(Append(messages, Text), next)
    BY <1>2 DEF StartTurn
  <2>2. next.pc = "call"
    BY <1>1
  <2> HIDE DEF next
  <2>3. UNCHANGED <<scan, results, undo, subagents, manual>> /\ sent'.calls = sent.calls
    BY <1>2 DEF StartTurn, tracking, around, SentOK
  <2> QED BY <1>0, <1>1, <2>1, <2>2, <2>3, SaveEffect, TextAdded
<1>3. CASE \/ StreamOpens \/ ProviderFails \/ TooLong \/ PolledAgain \/ ContextLimit
           \/ NativeToolCall \/ NativeToolEnds
  <2>1. /\ UNCHANGED <<messages, disk, scan, results, undo, subagents, manual, sent>>
        /\ \/ turn' = Idle \/ turn' = Again
           \/ \E p \in {"streaming", "refused", "native"} : turn' = Reach(p)
    BY <1>3 DEF StreamOpens, ProviderFails, TooLong, PolledAgain, ContextLimit, NativeToolCall,
                NativeToolEnds, saving, tracking, around
  <2>2. \A p \in {"streaming", "refused", "native"} : Reach(p).pc = p
    BY <1>0 DEF Reach, Turn
  <2>3. turn'.pc \notin Open \cup {"request"}
    BY <1>1, <2>1, <2>2 DEF Open
  <2> QED BY <1>0, <2>1, <2>3, Quiet
<1>4. CASE NoToolCalls
  <2>1. UNCHANGED <<scan, results, undo, subagents, manual, sent>>
    BY <1>4 DEF NoToolCalls, tracking, around
  <2> DEFINE next == [Again EXCEPT !.attempts = @ + 1]
  <2>2. next.pc = "call"
    BY <1>0, <1>1, AgainTurn DEF Turn
  <2> HIDE DEF next
  <2>3. SaveOrEnd(Append(messages, Text), next) \/ inject_soft_interrupts(Again, Idle)
    BY <1>4 DEF NoToolCalls, next
  <2>4. CASE SaveOrEnd(Append(messages, Text), next)
    BY <1>0, <1>1, <2>1, <2>2, <2>4, SaveEffect, TextAdded
  <2>5. CASE inject_soft_interrupts(Again, Idle)
    BY <1>0, <1>1, <2>1, <2>5, InjectsText
  <2> QED BY <2>3, <2>4, <2>5
<1>5. CASE UNCHANGED turn_vars
  BY <1>0, <1>5, Quiet DEF turn_vars
<1> QED BY <1>0, <1>2, <1>3, <1>4, <1>5, RepairStep, CallStep, RespondStep, FilterStep,
           ToolsStep, OutsideStep
        DEF TurnNext, LoopStep, RequestStep, ToolStep

(* Whatever was cancelled, stopped, skipped, refused, rewound, lost in a     *)
(* crash or left unsaved, a request pairs every call the model made with one *)
(* result, right behind the message that made it.                            *)
THEOREM RequestsArePaired == TurnSpec => []RequestIsPaired
<1>1. TurnInit => ConvInv
  <2> SUFFICES ASSUME TurnInit PROVE ConvInv
    OBVIOUS
  <2>1. Paired(<<>>, sent.calls, manual)
    BY DEF Paired, Alone, Distinct, Behind, Once
  <2>2. PairedInv
    BY <2>1 DEF TurnInit, PairedInv
  <2>3. TrackInv
    BY <2>1, Unseen, IdleTurn DEF TurnInit, TrackInv, At
  <2>4. OpenInv
    BY IdleTurn DEF TurnInit, OpenInv, At
  <2> QED BY <2>2, <2>3, <2>4 DEF ConvInv
<1>2. SentOK /\ ConvInv => RequestIsPaired
  <2> SUFFICES ASSUME SentOK, ConvInv, At("request"),
                      NEW i \in 1..Len(messages), NEW c \in messages[i].uses \ manual
               PROVE  Answered(i) /\ Cardinality(Answers(c)) = 1
    BY DEF RequestIsPaired
  <2>1. Tracked(messages, Len(messages), results)
    BY DEF ConvInv, TrackInv
  <2> QED BY <2>1, Holds, AllAnswered
<1> QED BY <1>1, <1>2, TurnAlways, ConvStep, PTL DEF TurnSpec
=============================================================================
