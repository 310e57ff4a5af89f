------------------------- MODULE AwaitMembersProofs -------------------------
(***************************************************************************)
(* Proofs about AwaitMembers, for any requests, watched members, targets,  *)
(* mode, time-to-live and channel capacity, any number of status changes   *)
(* and restarts.  The inductive invariant is IInv.                         *)
(***************************************************************************)
EXTENDS AwaitMembers, TLAPS

(* Handlers past ensure_pending_state and running watchers hold a record;  *)
(* a watcher about to respond holds the outcome.                           *)
HeldInv ==
    /\ \A r \in Req : hpc[r] \in {"save", "add", "mark", "respond", "clear"} => hstate[r] \in Record
    /\ \A r \in Req : wpc[r] # "none" => wstate[r] \in Record
    /\ \A r \in Req : wpc[r] = "respond" => wstate[r].final \in BOOLEAN

(* A request is registered only between add_waiter and its answer. *)
ReplyInv ==
    /\ \A r \in Req : hpc[r] \in {"idle", "check", "save", "add"} =>
                          replies[r].count = 0 /\ r \notin waiters
    /\ \A r \in waiters : replies[r].count = 0

IInv == TypeOK /\ HeldInv /\ ActiveHasWatcher /\ ReplyInv /\ AtMostOneReply

-----------------------------------------------------------------------------
(* Every step keeps the tables, the tasks and the record well typed. *)
LEMMA TypeStep == TypeOK /\ HeldInv /\ [Next]_vars => TypeOK'
<1> SUFFICES ASSUME TypeOK, HeldInv, [Next]_vars PROVE TypeOK'
  OBVIOUS
<1> USE NumberAssumption, NoneAssumption
    DEF TypeOK, HandlerPC, WatcherPC, HGoto, WGoto, hvars, wvars, rvars, clock
<1>1. ASSUME NEW r \in Req, HandlerReplay(r) PROVE TypeOK'
  <2>1. Loaded \in Record
    BY <1>1 DEF HandlerReplay, Loaded
  <2>2. Loaded.final \in BOOLEAN
    BY <1>1, <2>1 DEF HandlerReplay, Record
  <2> QED BY <1>1, <2>2 DEF HandlerReplay, Reply
<1>2. ASSUME NEW r \in Req, HandlerLoad(r) PROVE TypeOK'
  BY <1>2 DEF HandlerLoad, Loaded
<1>3. ASSUME NEW r \in Req, HandlerNobody(r) PROVE TypeOK'
  BY <1>3 DEF HandlerNobody, Reply, HEnd
<1>4. ASSUME NEW r \in Req, HandlerEnsure(r) PROVE TypeOK'
  <2>1. [deadline |-> now + Timeout, final |-> None, resolved |-> 0] \in Record
    BY DEF Record
  <2>2. Loaded \in Record \cup {None}
    BY DEF Loaded
  <2>3. disk' \in Record \cup {None}
    BY <1>4, <2>2 DEF HandlerEnsure
  <2>4. hstate' \in [Req -> Record \cup {None}]
    BY <1>4, <2>1, <2>2 DEF HandlerEnsure
  <2> QED BY <1>4, <2>3, <2>4 DEF HandlerEnsure
<1>4a. ASSUME NEW r \in Req, HandlerSave(r) PROVE TypeOK'
  BY <1>4a DEF HandlerSave, save_state, HeldInv
<1>5. ASSUME NEW r \in Req, add_waiter(r) PROVE TypeOK'
  BY <1>5 DEF add_waiter
<1>6. ASSUME NEW r \in Req, HandlerExpired(r) PROVE TypeOK'
  <2>1. WithFinal(hstate[r], FALSE) \in Record
    BY <1>6, ZenonT(60) DEF HandlerExpired, HeldInv, WithFinal, Record
  <2> QED BY <1>6, <2>1 DEF HandlerExpired, save_state
<1>7. ASSUME NEW r \in Req, HandlerRespond(r) PROVE TypeOK'
  BY <1>7 DEF HandlerRespond, Reply
<1>8. ASSUME NEW r \in Req, HandlerClear(r) PROVE TypeOK'
  BY <1>8 DEF HandlerClear, HEnd
<1>9. ASSUME NEW r \in Req, HandlerMark(r) PROVE TypeOK'
  BY <1>9 DEF HandlerMark, HEnd
<1>10. ASSUME NEW r \in Req, WatcherSubscribe(r) PROVE TypeOK'
  BY <1>10 DEF WatcherSubscribe
<1>11. ASSUME NEW r \in Req, WatcherSatisfied(r) PROVE TypeOK'
  <2>1. WithFinal(wstate[r], TRUE) \in Record
    BY <1>11, ZenonT(60) DEF WatcherSatisfied, HeldInv, WithFinal, Record
  <2> QED BY <1>11, <2>1 DEF WatcherSatisfied, save_state
<1>12. ASSUME NEW r \in Req, WatcherScan(r) PROVE TypeOK'
  BY <1>12 DEF WatcherScan
<1>13. ASSUME NEW r \in Req, WatcherRetain(r) PROVE TypeOK'
  BY <1>13 DEF WatcherRetain
<1>14. ASSUME NEW r \in Req, WatcherTimeout(r) PROVE TypeOK'
  <2>1. WithFinal(wstate[r], FALSE) \in Record
    BY <1>14, ZenonT(60) DEF WatcherTimeout, HeldInv, WithFinal, Record
  <2> QED BY <1>14, <2>1 DEF WatcherTimeout, save_state
<1>15. ASSUME NEW r \in Req, WatcherEvent(r) PROVE TypeOK'
  <2>1. unread[r] - 1 \in 0..(Capacity + 1)
    BY <1>15 DEF WatcherEvent
  <2> QED BY <1>15, <2>1 DEF WatcherEvent
<1>16. ASSUME NEW r \in Req, WatcherLagged(r) PROVE TypeOK'
  BY <1>16 DEF WatcherLagged
<1>17. ASSUME NEW r \in Req, WatcherRespond(r) PROVE TypeOK'
  <2>1. wstate[r].final \in BOOLEAN
    BY <1>17 DEF WatcherRespond, HeldInv
  <2> QED BY <1>17, <2>1 DEF WatcherRespond, Reply
<1>18. ASSUME NEW r \in Req, WatcherClear(r) PROVE TypeOK'
  <2>1. 0 \in 0..(Capacity + 1)
    OBVIOUS
  <2> QED BY <1>18, <2>1 DEF WatcherClear, WEnd
<1>19. ASSUME NEW r \in Req, Disconnect(r) PROVE TypeOK'
  BY <1>19 DEF Disconnect
<1>20. ASSUME NEW m \in Member, NEW s \in MemberStatus, ChangeStatus(m, s) PROVE TypeOK'
  BY <1>20 DEF ChangeStatus
<1>21. ASSUME SendEvent PROVE TypeOK'
  BY <1>21 DEF SendEvent
<1>22. ASSUME Tick PROVE TypeOK'
  BY <1>22 DEF Tick
<1>23. ASSUME Restart PROVE TypeOK'
  <2>1. 0 \in 0..(Capacity + 1)
    OBVIOUS
  <2>2. hpc' \in [Req -> HandlerPC] /\ unread' \in [Req -> 0..(Capacity + 1)]
    BY <1>23, <2>1 DEF Restart
  <2>3. hstate' \in [Req -> Record \cup {None}] /\ wstate' \in [Req -> Record \cup {None}]
    BY <1>23 DEF Restart
  <2>4. wpc' \in [Req -> WatcherPC] /\ open' \subseteq Req /\ crashes' \in Nat
    BY <1>23 DEF Restart
  <2>5. status' \in [Member -> MemberStatus] /\ unsent' \in Nat /\ active' \in BOOLEAN
          /\ waiters' \subseteq Req
    BY <1>23 DEF Restart
  <2>6. /\ disk' \in Record \cup {None}
        /\ replies' \in [Req -> [count : Nat, completed : BOOLEAN \cup {None}]]
        /\ now' \in Nat /\ changes' \in Nat
    BY <1>23 DEF Restart
  <2> HIDE DEF HandlerPC, WatcherPC
  <2> QED BY <2>2, <2>3, <2>4, <2>5, <2>6 DEF TypeOK
<1>24. ASSUME UNCHANGED vars PROVE TypeOK'
  BY <1>24 DEF vars, hvars, wvars, rvars, clock
<1> QED
  BY <1>1, <1>2, <1>3, <1>4, <1>4a, <1>5, <1>6, <1>7, <1>8, <1>9, <1>10, <1>11,
     <1>12, <1>13, <1>14, <1>15, <1>16, <1>17, <1>18, <1>19, <1>20, <1>21, <1>22, <1>23, <1>24 DEF Next, Handler, Watcher

(* A task keeps the record it works with until it ends. *)
LEMMA HeldStep == TypeOK /\ HeldInv /\ [Next]_vars => HeldInv'
<1> SUFFICES ASSUME TypeOK, HeldInv, [Next]_vars PROVE HeldInv'
  OBVIOUS
<1> USE NumberAssumption, NoneAssumption
    DEF TypeOK, HeldInv, HandlerPC, WatcherPC, HGoto, WGoto, hvars, wvars, rvars, clock
<1>1. ASSUME NEW r \in Req, HandlerReplay(r) PROVE HeldInv'
  BY <1>1 DEF HandlerReplay, Reply
<1>2. ASSUME NEW r \in Req, HandlerLoad(r) PROVE HeldInv'
  BY <1>2 DEF HandlerLoad, Loaded
<1>3. ASSUME NEW r \in Req, HandlerNobody(r) PROVE HeldInv'
  BY <1>3 DEF HandlerNobody, Reply, HEnd
<1>4. ASSUME NEW r \in Req, HandlerEnsure(r) PROVE HeldInv'
  <2>1. [deadline |-> now + Timeout, final |-> None, resolved |-> 0] \in Record
    BY DEF Record
  <2>2. Loaded \in Record \cup {None}
    BY DEF Loaded
  <2>3. hstate'[r] \in Record
    BY <1>4, <2>1, <2>2 DEF HandlerEnsure
  <2> QED BY <1>4, <2>3 DEF HandlerEnsure
<1>4a. ASSUME NEW r \in Req, HandlerSave(r) PROVE HeldInv'
  BY <1>4a DEF HandlerSave, save_state
<1>5. ASSUME NEW r \in Req, add_waiter(r) PROVE HeldInv'
  BY <1>5 DEF add_waiter
<1>6. ASSUME NEW r \in Req, HandlerExpired(r) PROVE HeldInv'
  BY <1>6 DEF HandlerExpired, save_state, WithFinal
<1>7. ASSUME NEW r \in Req, HandlerRespond(r) PROVE HeldInv'
  BY <1>7 DEF HandlerRespond, Reply
<1>8. ASSUME NEW r \in Req, HandlerClear(r) PROVE HeldInv'
  BY <1>8 DEF HandlerClear, HEnd
<1>9. ASSUME NEW r \in Req, HandlerMark(r) PROVE HeldInv'
  BY <1>9 DEF HandlerMark, HEnd
<1>10. ASSUME NEW r \in Req, WatcherSubscribe(r) PROVE HeldInv'
  BY <1>10 DEF WatcherSubscribe
<1>11. ASSUME NEW r \in Req, WatcherSatisfied(r) PROVE HeldInv'
  <2>1. WithFinal(wstate[r], TRUE) \in Record /\ WithFinal(wstate[r], TRUE).final \in BOOLEAN
    BY <1>11 DEF WatcherSatisfied, WithFinal, Record
  <2> QED BY <1>11, <2>1 DEF WatcherSatisfied
<1>12. ASSUME NEW r \in Req, WatcherScan(r) PROVE HeldInv'
  BY <1>12 DEF WatcherScan
<1>13. ASSUME NEW r \in Req, WatcherRetain(r) PROVE HeldInv'
  BY <1>13 DEF WatcherRetain
<1>14. ASSUME NEW r \in Req, WatcherTimeout(r) PROVE HeldInv'
  <2>1. WithFinal(wstate[r], FALSE) \in Record /\ WithFinal(wstate[r], FALSE).final \in BOOLEAN
    BY <1>14 DEF WatcherTimeout, WithFinal, Record
  <2> QED BY <1>14, <2>1 DEF WatcherTimeout
<1>15. ASSUME NEW r \in Req, WatcherEvent(r) PROVE HeldInv'
  BY <1>15 DEF WatcherEvent
<1>16. ASSUME NEW r \in Req, WatcherLagged(r) PROVE HeldInv'
  BY <1>16 DEF WatcherLagged
<1>17. ASSUME NEW r \in Req, WatcherRespond(r) PROVE HeldInv'
  BY <1>17 DEF WatcherRespond, Reply
<1>18. ASSUME NEW r \in Req, WatcherClear(r) PROVE HeldInv'
  BY <1>18 DEF WatcherClear, WEnd
<1>19. ASSUME NEW r \in Req, Disconnect(r) PROVE HeldInv'
  BY <1>19 DEF Disconnect
<1>20. ASSUME NEW m \in Member, NEW s \in MemberStatus, ChangeStatus(m, s) PROVE HeldInv'
  BY <1>20 DEF ChangeStatus
<1>21. ASSUME SendEvent PROVE HeldInv'
  BY <1>21 DEF SendEvent
<1>22. ASSUME Tick PROVE HeldInv'
  BY <1>22 DEF Tick
<1>23. ASSUME Restart PROVE HeldInv'
  BY <1>23 DEF Restart
<1>24. ASSUME UNCHANGED vars PROVE HeldInv'
  BY <1>24 DEF vars, hvars, wvars, rvars, clock
<1> QED
  BY <1>1, <1>2, <1>3, <1>4, <1>4a, <1>5, <1>6, <1>7, <1>8, <1>9, <1>10, <1>11,
     <1>12, <1>13, <1>14, <1>15, <1>16, <1>17, <1>18, <1>19, <1>20, <1>21, <1>22, <1>23, <1>24 DEF Next, Handler, Watcher

(* An active key keeps a watcher: the last step of every watcher, and of a *)
(* handler whose deadline has passed, clears the key.                      *)
LEMMA WatcherStep == TypeOK /\ ActiveHasWatcher /\ [Next]_vars => ActiveHasWatcher'
<1> SUFFICES ASSUME TypeOK, ActiveHasWatcher, [Next]_vars PROVE ActiveHasWatcher'
  OBVIOUS
<1> USE DEF TypeOK, ActiveHasWatcher, HandlerPC, WatcherPC, HGoto, WGoto, hvars, wvars, rvars, clock
<1>1. ASSUME NEW r \in Req, HandlerReplay(r) PROVE ActiveHasWatcher'
  BY <1>1 DEF HandlerReplay, Reply
<1>2. ASSUME NEW r \in Req, HandlerLoad(r) PROVE ActiveHasWatcher'
  BY <1>2 DEF HandlerLoad, Loaded
<1>3. ASSUME NEW r \in Req, HandlerNobody(r) PROVE ActiveHasWatcher'
  BY <1>3 DEF HandlerNobody, Reply, HEnd
<1>4. ASSUME NEW r \in Req, HandlerEnsure(r) PROVE ActiveHasWatcher'
  BY <1>4 DEF HandlerEnsure, save_state, Loaded
<1>4a. ASSUME NEW r \in Req, HandlerSave(r) PROVE ActiveHasWatcher'
  BY <1>4a DEF HandlerSave, save_state
<1>5. ASSUME NEW r \in Req, add_waiter(r) PROVE ActiveHasWatcher'
  BY <1>5 DEF add_waiter
<1>6. ASSUME NEW r \in Req, HandlerExpired(r) PROVE ActiveHasWatcher'
  BY <1>6 DEF HandlerExpired, save_state, WithFinal
<1>7. ASSUME NEW r \in Req, HandlerRespond(r) PROVE ActiveHasWatcher'
  BY <1>7 DEF HandlerRespond, Reply
<1>8. ASSUME NEW r \in Req, HandlerClear(r) PROVE ActiveHasWatcher'
  BY <1>8 DEF HandlerClear, HEnd
<1>9. ASSUME NEW r \in Req, HandlerMark(r) PROVE ActiveHasWatcher'
  BY <1>9 DEF HandlerMark, HEnd
<1>10. ASSUME NEW r \in Req, WatcherSubscribe(r) PROVE ActiveHasWatcher'
  BY <1>10 DEF WatcherSubscribe
<1>11. ASSUME NEW r \in Req, WatcherSatisfied(r) PROVE ActiveHasWatcher'
  BY <1>11 DEF WatcherSatisfied, save_state, WithFinal
<1>12. ASSUME NEW r \in Req, WatcherScan(r) PROVE ActiveHasWatcher'
  BY <1>12 DEF WatcherScan
<1>13. ASSUME NEW r \in Req, WatcherRetain(r) PROVE ActiveHasWatcher'
  BY <1>13 DEF WatcherRetain
<1>14. ASSUME NEW r \in Req, WatcherTimeout(r) PROVE ActiveHasWatcher'
  BY <1>14 DEF WatcherTimeout, save_state, WithFinal
<1>15. ASSUME NEW r \in Req, WatcherEvent(r) PROVE ActiveHasWatcher'
  BY <1>15 DEF WatcherEvent
<1>16. ASSUME NEW r \in Req, WatcherLagged(r) PROVE ActiveHasWatcher'
  BY <1>16 DEF WatcherLagged
<1>17. ASSUME NEW r \in Req, WatcherRespond(r) PROVE ActiveHasWatcher'
  BY <1>17 DEF WatcherRespond, Reply
<1>18. ASSUME NEW r \in Req, WatcherClear(r) PROVE ActiveHasWatcher'
  BY <1>18 DEF WatcherClear, WEnd
<1>19. ASSUME NEW r \in Req, Disconnect(r) PROVE ActiveHasWatcher'
  BY <1>19 DEF Disconnect
<1>20. ASSUME NEW m \in Member, NEW s \in MemberStatus, ChangeStatus(m, s) PROVE ActiveHasWatcher'
  BY <1>20 DEF ChangeStatus
<1>21. ASSUME SendEvent PROVE ActiveHasWatcher'
  BY <1>21 DEF SendEvent
<1>22. ASSUME Tick PROVE ActiveHasWatcher'
  BY <1>22 DEF Tick
<1>23. ASSUME Restart PROVE ActiveHasWatcher'
  BY <1>23 DEF Restart
<1>24. ASSUME UNCHANGED vars PROVE ActiveHasWatcher'
  BY <1>24 DEF vars, hvars, wvars, rvars, clock
<1> QED
  BY <1>1, <1>2, <1>3, <1>4, <1>4a, <1>5, <1>6, <1>7, <1>8, <1>9, <1>10, <1>11,
     <1>12, <1>13, <1>14, <1>15, <1>16, <1>17, <1>18, <1>19, <1>20, <1>21, <1>22, <1>23, <1>24 DEF Next, Handler, Watcher

(* A request is answered out of the waiters, which are emptied with the    *)
(* same step, or before it is registered.                                  *)
LEMMA ReplyStep ==
    TypeOK /\ ReplyInv /\ AtMostOneReply /\ [Next]_vars => ReplyInv' /\ AtMostOneReply'
<1> SUFFICES ASSUME TypeOK, ReplyInv, AtMostOneReply, [Next]_vars
             PROVE ReplyInv' /\ AtMostOneReply'
  OBVIOUS
<1> USE DEF TypeOK, ReplyInv, AtMostOneReply, HandlerPC, HGoto, WGoto, hvars, wvars, rvars, clock
<1>1. ASSUME NEW r \in Req, HandlerReplay(r) PROVE ReplyInv' /\ AtMostOneReply'
  BY <1>1 DEF HandlerReplay, Reply
<1>2. ASSUME NEW r \in Req, HandlerLoad(r) PROVE ReplyInv' /\ AtMostOneReply'
  BY <1>2 DEF HandlerLoad, Loaded
<1>3. ASSUME NEW r \in Req, HandlerNobody(r) PROVE ReplyInv' /\ AtMostOneReply'
  BY <1>3 DEF HandlerNobody, Reply, HEnd
<1>4. ASSUME NEW r \in Req, HandlerEnsure(r) PROVE ReplyInv' /\ AtMostOneReply'
  BY <1>4 DEF HandlerEnsure, save_state, Loaded
<1>4a. ASSUME NEW r \in Req, HandlerSave(r) PROVE ReplyInv' /\ AtMostOneReply'
  BY <1>4a DEF HandlerSave, save_state
<1>5. ASSUME NEW r \in Req, add_waiter(r) PROVE ReplyInv' /\ AtMostOneReply'
  BY <1>5 DEF add_waiter
<1>6. ASSUME NEW r \in Req, HandlerExpired(r) PROVE ReplyInv' /\ AtMostOneReply'
  BY <1>6 DEF HandlerExpired, save_state, WithFinal
<1>7. ASSUME NEW r \in Req, HandlerRespond(r) PROVE ReplyInv' /\ AtMostOneReply'
  BY <1>7 DEF HandlerRespond, Reply
<1>8. ASSUME NEW r \in Req, HandlerClear(r) PROVE ReplyInv' /\ AtMostOneReply'
  BY <1>8 DEF HandlerClear, HEnd
<1>9. ASSUME NEW r \in Req, HandlerMark(r) PROVE ReplyInv' /\ AtMostOneReply'
  BY <1>9 DEF HandlerMark, HEnd
<1>10. ASSUME NEW r \in Req, WatcherSubscribe(r) PROVE ReplyInv' /\ AtMostOneReply'
  BY <1>10 DEF WatcherSubscribe
<1>11. ASSUME NEW r \in Req, WatcherSatisfied(r) PROVE ReplyInv' /\ AtMostOneReply'
  BY <1>11 DEF WatcherSatisfied, save_state, WithFinal
<1>12. ASSUME NEW r \in Req, WatcherScan(r) PROVE ReplyInv' /\ AtMostOneReply'
  BY <1>12 DEF WatcherScan
<1>13. ASSUME NEW r \in Req, WatcherRetain(r) PROVE ReplyInv' /\ AtMostOneReply'
  BY <1>13 DEF WatcherRetain
<1>14. ASSUME NEW r \in Req, WatcherTimeout(r) PROVE ReplyInv' /\ AtMostOneReply'
  BY <1>14 DEF WatcherTimeout, save_state, WithFinal
<1>15. ASSUME NEW r \in Req, WatcherEvent(r) PROVE ReplyInv' /\ AtMostOneReply'
  BY <1>15 DEF WatcherEvent
<1>16. ASSUME NEW r \in Req, WatcherLagged(r) PROVE ReplyInv' /\ AtMostOneReply'
  BY <1>16 DEF WatcherLagged
<1>17. ASSUME NEW r \in Req, WatcherRespond(r) PROVE ReplyInv' /\ AtMostOneReply'
  BY <1>17 DEF WatcherRespond, Reply
<1>18. ASSUME NEW r \in Req, WatcherClear(r) PROVE ReplyInv' /\ AtMostOneReply'
  BY <1>18 DEF WatcherClear, WEnd
<1>19. ASSUME NEW r \in Req, Disconnect(r) PROVE ReplyInv' /\ AtMostOneReply'
  BY <1>19 DEF Disconnect
<1>20. ASSUME NEW m \in Member, NEW s \in MemberStatus, ChangeStatus(m, s) PROVE ReplyInv' /\ AtMostOneReply'
  BY <1>20 DEF ChangeStatus
<1>21. ASSUME SendEvent PROVE ReplyInv' /\ AtMostOneReply'
  BY <1>21 DEF SendEvent
<1>22. ASSUME Tick PROVE ReplyInv' /\ AtMostOneReply'
  BY <1>22 DEF Tick
<1>23. ASSUME Restart PROVE ReplyInv' /\ AtMostOneReply'
  BY <1>23 DEF Restart
<1>24. ASSUME UNCHANGED vars PROVE ReplyInv' /\ AtMostOneReply'
  BY <1>24 DEF vars, hvars, wvars, rvars, clock
<1> QED
  BY <1>1, <1>2, <1>3, <1>4, <1>4a, <1>5, <1>6, <1>7, <1>8, <1>9, <1>10, <1>11,
     <1>12, <1>13, <1>14, <1>15, <1>16, <1>17, <1>18, <1>19, <1>20, <1>21, <1>22, <1>23, <1>24 DEF Next, Handler, Watcher

(* Only the save of a first request moves the deadline of a pending record *)
(* that is not stale, and no request becomes one while it is on disk.      *)
DeadlineAction ==
    PendingOnDisk =>
      /\ Saving' \subseteq Saving
      /\ \/ disk' = None \/ disk'.final # None \/ disk'.deadline = disk.deadline
         \/ \E r \in Saving : r \notin Saving'

LEMMA DeadlineStep == TypeOK /\ HeldInv /\ [Next]_vars => DeadlineAction
<1> SUFFICES ASSUME TypeOK, HeldInv, [Next]_vars, PendingOnDisk
             PROVE /\ Saving' \subseteq Saving
                   /\ \/ disk' = disk \/ disk' = None \/ disk'.final # None
                      \/ \E r \in Saving : r \notin Saving'
  BY DEF DeadlineAction
<1> USE NoneAssumption DEF PendingOnDisk, Saving, hvars, wvars, rvars, clock, HGoto
<1> DEFINE G == /\ Saving' \subseteq Saving
                /\ \/ disk' = disk \/ disk' = None \/ disk'.final # None
                   \/ \E r \in Saving : r \notin Saving'
<1>0. hpc \in [Req -> HandlerPC]
  BY DEF TypeOK
<1>1. ASSUME NEW r \in Req, HandlerReplay(r) PROVE G
  BY <1>0, <1>1 DEF HandlerReplay, Reply
<1>2. ASSUME NEW r \in Req, HandlerLoad(r) PROVE G
  BY <1>0, <1>2 DEF HandlerLoad, Loaded
<1>3. ASSUME NEW r \in Req, HandlerNobody(r) PROVE G
  BY <1>0, <1>3 DEF HandlerNobody, Reply, HEnd
<1>4. ASSUME NEW r \in Req, HandlerEnsure(r) PROVE G
  BY <1>0, <1>4 DEF HandlerEnsure, Loaded
<1>4a. ASSUME NEW r \in Req, HandlerSave(r) PROVE G
  BY <1>0, <1>4a DEF HandlerSave
<1>5. ASSUME NEW r \in Req, add_waiter(r) PROVE G
  BY <1>0, <1>5 DEF add_waiter
<1>6. ASSUME NEW r \in Req, HandlerExpired(r) PROVE G
  <2>1. WithFinal(hstate[r], FALSE).final # None
    BY <1>0, <1>6 DEF HandlerExpired, HeldInv, WithFinal, Record
  <2> QED BY <1>0, <1>6, <2>1 DEF HandlerExpired, save_state
<1>7. ASSUME NEW r \in Req, HandlerRespond(r) PROVE G
  BY <1>0, <1>7 DEF HandlerRespond, Reply
<1>8. ASSUME NEW r \in Req, HandlerClear(r) PROVE G
  BY <1>0, <1>8 DEF HandlerClear, HEnd
<1>9. ASSUME NEW r \in Req, HandlerMark(r) PROVE G
  BY <1>0, <1>9 DEF HandlerMark, HEnd
<1>10. ASSUME NEW r \in Req, WatcherSubscribe(r) PROVE G
  BY <1>0, <1>10 DEF WatcherSubscribe
<1>11. ASSUME NEW r \in Req, WatcherSatisfied(r) PROVE G
  <2>1. WithFinal(wstate[r], TRUE).final # None
    BY <1>0, <1>11 DEF WatcherSatisfied, HeldInv, WithFinal, Record
  <2> QED BY <1>0, <1>11, <2>1 DEF WatcherSatisfied, save_state
<1>12. ASSUME NEW r \in Req, WatcherScan(r) PROVE G
  BY <1>0, <1>12 DEF WatcherScan
<1>13. ASSUME NEW r \in Req, WatcherRetain(r) PROVE G
  BY <1>0, <1>13 DEF WatcherRetain
<1>14. ASSUME NEW r \in Req, WatcherTimeout(r) PROVE G
  <2>1. WithFinal(wstate[r], FALSE).final # None
    BY <1>0, <1>14 DEF WatcherTimeout, HeldInv, WithFinal, Record
  <2> QED BY <1>0, <1>14, <2>1 DEF WatcherTimeout, save_state
<1>15. ASSUME NEW r \in Req, WatcherEvent(r) PROVE G
  BY <1>0, <1>15 DEF WatcherEvent
<1>16. ASSUME NEW r \in Req, WatcherLagged(r) PROVE G
  BY <1>0, <1>16 DEF WatcherLagged
<1>17. ASSUME NEW r \in Req, WatcherRespond(r) PROVE G
  BY <1>0, <1>17 DEF WatcherRespond, Reply
<1>18. ASSUME NEW r \in Req, WatcherClear(r) PROVE G
  BY <1>0, <1>18 DEF WatcherClear, WEnd
<1>19. ASSUME NEW r \in Req, Disconnect(r) PROVE G
  BY <1>0, <1>19 DEF Disconnect
<1>20. ASSUME NEW m \in Member, NEW s \in MemberStatus, ChangeStatus(m, s) PROVE G
  BY <1>0, <1>20 DEF ChangeStatus
<1>21. ASSUME SendEvent PROVE G
  BY <1>0, <1>21 DEF SendEvent
<1>22. ASSUME Tick PROVE G
  BY <1>0, <1>22 DEF Tick
<1>23. ASSUME Restart PROVE G
  BY <1>0, <1>23 DEF Restart
<1>24. ASSUME UNCHANGED vars PROVE G
  BY <1>0, <1>24 DEF vars, hvars, wvars, rvars, clock
<1> QED
  BY <1>1, <1>2, <1>3, <1>4, <1>4a, <1>5, <1>6, <1>7, <1>8, <1>9, <1>10, <1>11,
     <1>12, <1>13, <1>14, <1>15, <1>16, <1>17, <1>18, <1>19, <1>20, <1>21, <1>22, <1>23, <1>24 DEF Next, Handler, Watcher

-----------------------------------------------------------------------------
(* IInv holds initially and every step keeps it. *)
THEOREM Inductive == Spec => []IInv
<1>1. ASSUME Init PROVE IInv
  <2>1. 0 \in 0..(Capacity + 1)
    BY NumberAssumption
  <2>2. TypeOK
    BY <1>1, <2>1 DEF Init, TypeOK, HandlerPC, WatcherPC
  <2>3. HeldInv /\ ActiveHasWatcher
    BY <1>1 DEF Init, HeldInv, ActiveHasWatcher
  <2>4. ReplyInv /\ AtMostOneReply
    BY <1>1 DEF Init, ReplyInv, AtMostOneReply
  <2> QED BY <2>2, <2>3, <2>4 DEF IInv
<1>2. IInv /\ [Next]_vars => IInv'
  BY TypeStep, HeldStep, WatcherStep, ReplyStep DEF IInv
<1> QED BY <1>1, <1>2, PTL DEF Spec

(* The await_members tables, tasks and record stay well typed. *)
THEOREM TypeCorrect == Spec => []TypeOK
<1>1. IInv => TypeOK
  BY DEF IInv
<1> QED BY <1>1, Inductive, PTL

(* A handler that finds its key active parks its client behind a watcher   *)
(* that runs (mark_active_if_new, clear_active).                           *)
THEOREM WatcherExists == Spec => []ActiveHasWatcher
<1>1. IInv => ActiveHasWatcher
  BY DEF IInv
<1> QED BY <1>1, Inductive, PTL

(* No client is answered twice, whether by the replay of the record, by a  *)
(* watcher or by a handler whose deadline has passed.                      *)
THEOREM SingleReply == Spec => []AtMostOneReply
<1>1. IInv => AtMostOneReply
  BY DEF IInv
<1> QED BY <1>1, Inductive, PTL

(* Once a pending record is on disk, only first requests that had loaded   *)
(* nothing before it was written can move its deadline                     *)
(* (ensure_pending_state loads and saves without a lock).                  *)
THEOREM DeadlineKept == Spec => DeadlineFixed
<1>1. IInv /\ [Next]_vars => [DeadlineAction]_vars
  BY DeadlineStep DEF IInv
<1>2. [][DeadlineAction]_vars => DeadlineFixed
  BY PTL DEF DeadlineFixed, DeadlineAction
<1> QED BY <1>1, <1>2, Inductive, PTL DEF Spec
=============================================================================
