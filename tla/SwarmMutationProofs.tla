------------------------ MODULE SwarmMutationProofs ------------------------
(***************************************************************************)
(* Proofs about SwarmMutation, for any requests, keys, time-to-live and    *)
(* bounds.  The inductive invariant is IInv: the type invariant, exclusive *)
(* ownership of the keys, and what the handler's position says about its   *)
(* waiter entry, its answers and its execution.                            *)
(***************************************************************************)
EXTENDS SwarmMutation, TLAPS

(* Where a handler's waiter entry and answer are, from its position. *)
WaiterInv ==
    /\ \A k \in Key : \A r \in waiters[k] : keyOf[r] = k /\ Len(replies[r]) = 0
    /\ \A r \in Req :
         /\ pc[r] \in {"idle", "evict", "add"} =>
               Len(replies[r]) = 0 /\ r \notin waiters[keyOf[r]]
         /\ pc[r] \in {"mark", "parked"} \cup (OwnerPC \ {"clear"}) =>
               r \in waiters[keyOf[r]] \/ Len(replies[r]) = 1
         /\ pc[r] \in {"clear", "done"} => Len(replies[r]) = 1

(* A handler that is finishing its request has performed its mutation. *)
FinishingInv ==
    \A r \in Req : pc[r] \in {"retire", "install", "notify", "clear"} => r \in executed

(* From the end of begin_or_replay on, a handler holds the key's record. *)
HeldInv ==
    \A r \in Req : pc[r] \in OwnerPC \ {"reload", "reevict", "create"} => held[r] \in State

IInv == TypeOK /\ HeldInv /\ OneOwnerPerKey /\ AtMostOneReply /\ WaiterInv
           /\ FinishingInv /\ RepliesAreResults

-----------------------------------------------------------------------------
(* Every step of the dedupe protocol keeps the state well typed. *)
LEMMA TypeStep == TypeOK /\ HeldInv /\ [Next]_vars => TypeOK'
<1> SUFFICES ASSUME TypeOK, HeldInv, [Next]_vars PROVE TypeOK'
  OBVIOUS
<1> USE KeyOfAssumption, TTLAssumption, BoundAssumption DEF TypeOK, State, PC, OwnerPC, Goto
<1>1. ASSUME NEW r \in Req, Replay(r) PROVE TypeOK'
  <2>1. disk[keyOf[r]] \in State /\ disk[keyOf[r]].final \in Req
    BY <1>1 DEF Replay
  <2> QED BY <1>1, <2>1 DEF Replay
<1>2. ASSUME NEW r \in Req, Miss(r) PROVE TypeOK'
  BY <1>2 DEF Miss
<1>3. ASSUME NEW r \in Req, Evict(r) PROVE TypeOK'
  BY <1>3 DEF Evict
<1>4. ASSUME NEW r \in Req, add_waiter(r) PROVE TypeOK'
  BY <1>4 DEF add_waiter
<1>5. ASSUME NEW r \in Req, mark_active_if_new(r) PROVE TypeOK'
  BY <1>5 DEF mark_active_if_new
<1>6. ASSUME NEW r \in Req, ReusePending(r) PROVE TypeOK'
  BY <1>6 DEF ReusePending
<1>7. ASSUME NEW r \in Req, NoPending(r) PROVE TypeOK'
  BY <1>7 DEF NoPending
<1>8. ASSUME NEW r \in Req, CreatePending(r) PROVE TypeOK'
  <2>1. [created |-> now, final |-> None] \in State
    OBVIOUS
  <2> HIDE DEF State
  <2>2. disk' \in [Key -> State \cup {None}]
    BY <1>8, <2>1 DEF CreatePending
  <2> QED BY <1>8, <2>1, <2>2 DEF CreatePending
<1>9. ASSUME NEW r \in Req, Execute(r) PROVE TypeOK'
  BY <1>9 DEF Execute
<1>10. ASSUME NEW r \in Req, RetireRecord(r) PROVE TypeOK'
  BY <1>10 DEF RetireRecord
<1>11. ASSUME NEW r \in Req, InstallFinal(r) PROVE TypeOK'
  <2>1. [created |-> held[r].created, final |-> r] \in State
    BY <1>11 DEF InstallFinal, HeldInv
  <2> HIDE DEF State
  <2>2. disk' \in [Key -> State \cup {None}]
    BY <1>11, <2>1 DEF InstallFinal
  <2> QED BY <1>11, <2>2 DEF InstallFinal
<1>12. ASSUME NEW r \in Req, NotifyWaiters(r) PROVE TypeOK'
  BY <1>12 DEF NotifyWaiters
<1>13. ASSUME NEW r \in Req, clear_active(r) PROVE TypeOK'
  BY <1>13 DEF clear_active
<1>14. ASSUME Restart PROVE TypeOK'
  BY <1>14 DEF Restart
<1>15. ASSUME Tick PROVE TypeOK'
  BY <1>15 DEF Tick
<1>16. ASSUME UNCHANGED vars PROVE TypeOK'
  BY <1>16 DEF vars
<1> QED
  BY <1>1, <1>2, <1>3, <1>4, <1>5, <1>6, <1>7, <1>8, <1>9, <1>10, <1>11,
     <1>12, <1>13, <1>14, <1>15, <1>16 DEF Next, Arrive, Handle

(* A handler keeps the record it got until it is done or lost. *)
LEMMA HeldStep == TypeOK /\ HeldInv /\ [Next]_vars => HeldInv'
<1> SUFFICES ASSUME TypeOK, HeldInv, [Next]_vars PROVE HeldInv'
  OBVIOUS
<1> USE KeyOfAssumption, BoundAssumption DEF TypeOK, HeldInv, PC, OwnerPC, Goto
<1>1. ASSUME NEW r \in Req, Replay(r) PROVE HeldInv'
  BY <1>1 DEF Replay
<1>2. ASSUME NEW r \in Req, Miss(r) PROVE HeldInv'
  BY <1>2 DEF Miss
<1>3. ASSUME NEW r \in Req, Evict(r) PROVE HeldInv'
  BY <1>3 DEF Evict
<1>4. ASSUME NEW r \in Req, add_waiter(r) PROVE HeldInv'
  BY <1>4 DEF add_waiter
<1>5. ASSUME NEW r \in Req, mark_active_if_new(r) PROVE HeldInv'
  BY <1>5 DEF mark_active_if_new
<1>6. ASSUME NEW r \in Req, ReusePending(r) PROVE HeldInv'
  BY <1>6 DEF ReusePending
<1>7. ASSUME NEW r \in Req, NoPending(r) PROVE HeldInv'
  BY <1>7 DEF NoPending
<1>8. ASSUME NEW r \in Req, CreatePending(r) PROVE HeldInv'
  <2>1. [created |-> now, final |-> None] \in State
    BY BoundAssumption DEF State
  <2> QED BY <1>8, <2>1 DEF CreatePending
<1>9. ASSUME NEW r \in Req, Execute(r) PROVE HeldInv'
  BY <1>9 DEF Execute
<1>10. ASSUME NEW r \in Req, RetireRecord(r) PROVE HeldInv'
  BY <1>10 DEF RetireRecord
<1>11. ASSUME NEW r \in Req, InstallFinal(r) PROVE HeldInv'
  BY <1>11 DEF InstallFinal
<1>12. ASSUME NEW r \in Req, NotifyWaiters(r) PROVE HeldInv'
  BY <1>12 DEF NotifyWaiters
<1>13. ASSUME NEW r \in Req, clear_active(r) PROVE HeldInv'
  BY <1>13 DEF clear_active
<1>14. ASSUME Restart PROVE HeldInv'
  BY <1>14 DEF Restart
<1>15. ASSUME Tick PROVE HeldInv'
  BY <1>15 DEF Tick
<1>16. ASSUME UNCHANGED vars PROVE HeldInv'
  BY <1>16 DEF vars
<1> QED
  BY <1>1, <1>2, <1>3, <1>4, <1>5, <1>6, <1>7, <1>8, <1>9, <1>10, <1>11,
     <1>12, <1>13, <1>14, <1>15, <1>16 DEF Next, Arrive, Handle

(* Steps that neither enter nor leave a critical section keep the ownership. *)
LEMMA SameOwners ==
  ASSUME OneOwnerPerKey, active' = active,
         \A q \in Req : pc'[q] \in OwnerPC <=> pc[q] \in OwnerPC
  PROVE  OneOwnerPerKey'
BY DEF OneOwnerPerKey, Owns


(* Ownership of a key passes only through mark_active_if_new and clear_active. *)
LEMMA OwnerStep == TypeOK /\ OneOwnerPerKey /\ [Next]_vars => OneOwnerPerKey'
<1> SUFFICES ASSUME TypeOK, OneOwnerPerKey, [Next]_vars PROVE OneOwnerPerKey'
  OBVIOUS
<1> USE KeyOfAssumption DEF TypeOK, PC, OwnerPC, Goto
<1>1. ASSUME NEW r \in Req, Replay(r) PROVE OneOwnerPerKey'
  BY <1>1, SameOwners DEF Replay
<1>2. ASSUME NEW r \in Req, Miss(r) PROVE OneOwnerPerKey'
  BY <1>2, SameOwners DEF Miss
<1>3. ASSUME NEW r \in Req, Evict(r) PROVE OneOwnerPerKey'
  BY <1>3, SameOwners DEF Evict
<1>4. ASSUME NEW r \in Req, add_waiter(r) PROVE OneOwnerPerKey'
  BY <1>4, SameOwners DEF add_waiter
<1>5. ASSUME NEW r \in Req, mark_active_if_new(r) PROVE OneOwnerPerKey'
  <2>1. CASE keyOf[r] \in active
    BY <1>5, <2>1, SameOwners DEF mark_active_if_new
  <2>2. CASE keyOf[r] \notin active
    <3>1. active' = active \cup {keyOf[r]} /\ pc' = [pc EXCEPT ![r] = "reload"]
      BY <1>5, <2>2 DEF mark_active_if_new
    <3>2. \A q \in Req : pc[q] \in OwnerPC => keyOf[q] # keyOf[r]
      BY <2>2 DEF OneOwnerPerKey, Owns
    <3> QED BY <3>1, <3>2 DEF OneOwnerPerKey, Owns
  <2> QED BY <2>1, <2>2
<1>6. ASSUME NEW r \in Req, ReusePending(r) PROVE OneOwnerPerKey'
  BY <1>6, SameOwners DEF ReusePending
<1>7. ASSUME NEW r \in Req, NoPending(r) PROVE OneOwnerPerKey'
  BY <1>7, SameOwners DEF NoPending
<1>8. ASSUME NEW r \in Req, CreatePending(r) PROVE OneOwnerPerKey'
  BY <1>8, SameOwners DEF CreatePending
<1>9. ASSUME NEW r \in Req, Execute(r) PROVE OneOwnerPerKey'
  BY <1>9, SameOwners DEF Execute
<1>10. ASSUME NEW r \in Req, RetireRecord(r) PROVE OneOwnerPerKey'
  BY <1>10, SameOwners DEF RetireRecord
<1>11. ASSUME NEW r \in Req, InstallFinal(r) PROVE OneOwnerPerKey'
  BY <1>11, SameOwners DEF InstallFinal
<1>12. ASSUME NEW r \in Req, NotifyWaiters(r) PROVE OneOwnerPerKey'
  BY <1>12, SameOwners DEF NotifyWaiters
<1>13. ASSUME NEW r \in Req, clear_active(r) PROVE OneOwnerPerKey'
  BY <1>13 DEF clear_active, OneOwnerPerKey, Owns
<1>14. ASSUME Restart PROVE OneOwnerPerKey'
  BY <1>14 DEF Restart, OneOwnerPerKey, Owns
<1>15. ASSUME Tick PROVE OneOwnerPerKey'
  BY <1>15, SameOwners DEF Tick
<1>16. ASSUME UNCHANGED vars PROVE OneOwnerPerKey'
  BY <1>16, SameOwners DEF vars
<1> QED
  BY <1>1, <1>2, <1>3, <1>4, <1>5, <1>6, <1>7, <1>8, <1>9, <1>10, <1>11,
     <1>12, <1>13, <1>14, <1>15, <1>16 DEF Next, Arrive, Handle

(* A request leaves the waiters exactly when it is answered. *)
LEMMA ReplyStep ==
  TypeOK /\ OneOwnerPerKey /\ AtMostOneReply /\ WaiterInv /\ [Next]_vars
     => (AtMostOneReply /\ WaiterInv)'
<1> SUFFICES ASSUME TypeOK, OneOwnerPerKey, AtMostOneReply, WaiterInv, [Next]_vars PROVE (AtMostOneReply /\ WaiterInv)'
  OBVIOUS
<1> USE KeyOfAssumption, NoneAssumption DEF TypeOK, AtMostOneReply, WaiterInv, PC, OwnerPC, Goto
<1>1. ASSUME NEW r \in Req, Replay(r) PROVE (AtMostOneReply /\ WaiterInv)'
  BY <1>1 DEF Replay
<1>2. ASSUME NEW r \in Req, Miss(r) PROVE (AtMostOneReply /\ WaiterInv)'
  BY <1>2 DEF Miss
<1>3. ASSUME NEW r \in Req, Evict(r) PROVE (AtMostOneReply /\ WaiterInv)'
  BY <1>3 DEF Evict
<1>4. ASSUME NEW r \in Req, add_waiter(r) PROVE (AtMostOneReply /\ WaiterInv)'
  BY <1>4 DEF add_waiter
<1>5. ASSUME NEW r \in Req, mark_active_if_new(r) PROVE (AtMostOneReply /\ WaiterInv)'
  BY <1>5 DEF mark_active_if_new
<1>6. ASSUME NEW r \in Req, ReusePending(r) PROVE (AtMostOneReply /\ WaiterInv)'
  BY <1>6 DEF ReusePending
<1>7. ASSUME NEW r \in Req, NoPending(r) PROVE (AtMostOneReply /\ WaiterInv)'
  BY <1>7 DEF NoPending
<1>8. ASSUME NEW r \in Req, CreatePending(r) PROVE (AtMostOneReply /\ WaiterInv)'
  BY <1>8 DEF CreatePending
<1>9. ASSUME NEW r \in Req, Execute(r) PROVE (AtMostOneReply /\ WaiterInv)'
  BY <1>9 DEF Execute
<1>10. ASSUME NEW r \in Req, RetireRecord(r) PROVE (AtMostOneReply /\ WaiterInv)'
  BY <1>10 DEF RetireRecord
<1>11. ASSUME NEW r \in Req, InstallFinal(r) PROVE (AtMostOneReply /\ WaiterInv)'
  BY <1>11 DEF InstallFinal
<1>12. ASSUME NEW r \in Req, NotifyWaiters(r) PROVE (AtMostOneReply /\ WaiterInv)'
  BY <1>12 DEF NotifyWaiters
<1>13. ASSUME NEW r \in Req, clear_active(r) PROVE (AtMostOneReply /\ WaiterInv)'
  BY <1>13 DEF clear_active
<1>14. ASSUME Restart PROVE (AtMostOneReply /\ WaiterInv)'
  BY <1>14 DEF Restart
<1>15. ASSUME Tick PROVE (AtMostOneReply /\ WaiterInv)'
  BY <1>15 DEF Tick
<1>16. ASSUME UNCHANGED vars PROVE (AtMostOneReply /\ WaiterInv)'
  BY <1>16 DEF vars
<1> QED
  BY <1>1, <1>2, <1>3, <1>4, <1>5, <1>6, <1>7, <1>8, <1>9, <1>10, <1>11,
     <1>12, <1>13, <1>14, <1>15, <1>16 DEF Next, Arrive, Handle

(* Answers and final records come from performed mutations of the key. *)
LEMMA ResultStep ==
  TypeOK /\ WaiterInv /\ FinishingInv /\ RepliesAreResults /\ [Next]_vars
     => (FinishingInv /\ RepliesAreResults)'
<1> SUFFICES ASSUME TypeOK, WaiterInv, FinishingInv, RepliesAreResults, [Next]_vars PROVE (FinishingInv /\ RepliesAreResults)'
  OBVIOUS
<1> USE KeyOfAssumption, NoneAssumption DEF TypeOK, FinishingInv, RepliesAreResults, PC, OwnerPC, Goto
<1>1. ASSUME NEW r \in Req, Replay(r) PROVE (FinishingInv /\ RepliesAreResults)'
  BY <1>1 DEF Replay
<1>2. ASSUME NEW r \in Req, Miss(r) PROVE (FinishingInv /\ RepliesAreResults)'
  BY <1>2 DEF Miss
<1>3. ASSUME NEW r \in Req, Evict(r) PROVE (FinishingInv /\ RepliesAreResults)'
  BY <1>3 DEF Evict
<1>4. ASSUME NEW r \in Req, add_waiter(r) PROVE (FinishingInv /\ RepliesAreResults)'
  BY <1>4 DEF add_waiter
<1>5. ASSUME NEW r \in Req, mark_active_if_new(r) PROVE (FinishingInv /\ RepliesAreResults)'
  BY <1>5 DEF mark_active_if_new
<1>6. ASSUME NEW r \in Req, ReusePending(r) PROVE (FinishingInv /\ RepliesAreResults)'
  BY <1>6 DEF ReusePending
<1>7. ASSUME NEW r \in Req, NoPending(r) PROVE (FinishingInv /\ RepliesAreResults)'
  BY <1>7 DEF NoPending
<1>8. ASSUME NEW r \in Req, CreatePending(r) PROVE (FinishingInv /\ RepliesAreResults)'
  <2>1. CASE UNCHANGED disk
    BY <1>8, <2>1 DEF CreatePending
  <2>2. CASE disk' = [disk EXCEPT ![keyOf[r]] = [created |-> now, final |-> None]]
    BY <1>8, <2>2 DEF CreatePending
  <2> QED BY <1>8, <2>1, <2>2 DEF CreatePending
<1>9. ASSUME NEW r \in Req, Execute(r) PROVE (FinishingInv /\ RepliesAreResults)'
  BY <1>9 DEF Execute
<1>10. ASSUME NEW r \in Req, RetireRecord(r) PROVE (FinishingInv /\ RepliesAreResults)'
  BY <1>10, ZenonT(60) DEF RetireRecord
<1>11. ASSUME NEW r \in Req, InstallFinal(r) PROVE (FinishingInv /\ RepliesAreResults)'
  <2>1. CASE UNCHANGED disk
    BY <1>11, <2>1 DEF InstallFinal
  <2>2. CASE disk' = [disk EXCEPT ![keyOf[r]] = [created |-> held[r].created, final |-> r]]
    BY <1>11, <2>2 DEF InstallFinal
  <2> QED BY <1>11, <2>1, <2>2 DEF InstallFinal
<1>12. ASSUME NEW r \in Req, NotifyWaiters(r) PROVE (FinishingInv /\ RepliesAreResults)'
  <2>1. FinishingInv' /\ UNCHANGED <<disk, executed>> /\ r \in executed
    BY <1>12 DEF NotifyWaiters
  <2>2. ASSUME NEW w \in Req, NEW i \in 1..Len(replies'[w])
        PROVE  replies'[w][i] \in executed /\ keyOf[replies'[w][i]] = keyOf[w]
    <3>1. CASE w \in waiters[keyOf[r]]
      <4>1. keyOf[w] = keyOf[r] /\ replies'[w] = Append(replies[w], r)
        BY <1>12, <3>1 DEF NotifyWaiters, WaiterInv
      <4> QED BY <2>1, <4>1
    <3>2. CASE w \notin waiters[keyOf[r]]
      BY <1>12, <2>1, <3>2 DEF NotifyWaiters
    <3> QED BY <3>1, <3>2
  <2> QED BY <2>1, <2>2
<1>13. ASSUME NEW r \in Req, clear_active(r) PROVE (FinishingInv /\ RepliesAreResults)'
  BY <1>13 DEF clear_active
<1>14. ASSUME Restart PROVE (FinishingInv /\ RepliesAreResults)'
  BY <1>14 DEF Restart
<1>15. ASSUME Tick PROVE (FinishingInv /\ RepliesAreResults)'
  BY <1>15 DEF Tick
<1>16. ASSUME UNCHANGED vars PROVE (FinishingInv /\ RepliesAreResults)'
  BY <1>16 DEF vars
<1> QED
  BY <1>1, <1>2, <1>3, <1>4, <1>5, <1>6, <1>7, <1>8, <1>9, <1>10, <1>11,
     <1>12, <1>13, <1>14, <1>15, <1>16 DEF Next, Arrive, Handle
-----------------------------------------------------------------------------
(* The inductive invariant of the dedupe protocol. *)
THEOREM Inductive == Spec => []IInv
<1>1. Init => IInv
  BY KeyOfAssumption, BoundAssumption
     DEF Init, IInv, TypeOK, HeldInv, OneOwnerPerKey, Owns, AtMostOneReply,
         WaiterInv, FinishingInv, RepliesAreResults, PC, OwnerPC
<1>2. IInv /\ [Next]_vars => IInv'
  BY TypeStep, HeldStep, OwnerStep, ReplyStep, ResultStep DEF IInv
<1> QED BY <1>1, <1>2, PTL DEF Spec

(* Well-typedness of the runtime's tables and of the persisted records. *)
THEOREM TypeCorrect == Spec => []TypeOK
<1>1. IInv => TypeOK
  BY DEF IInv
<1> QED BY <1>1, Inductive, PTL

(* At any time at most one handler is between mark_active_if_new and       *)
(* clear_active of a key, and active_keys records exactly those keys.      *)
THEOREM MutualExclusion == Spec => []OneOwnerPerKey
<1>1. IInv => OneOwnerPerKey
  BY DEF IInv
<1> QED BY <1>1, Inductive, PTL

(* begin_or_replay and finish_request together never answer a request twice. *)
THEOREM SingleReply == Spec => []AtMostOneReply
<1>1. IInv => AtMostOneReply
  BY DEF IInv
<1> QED BY <1>1, Inductive, PTL

(* Replayed and shared answers are results of performed mutations of the   *)
(* same key.                                                               *)
THEOREM GenuineReplies == Spec => []RepliesAreResults
<1>1. IInv => RepliesAreResults
  BY DEF IInv
<1> QED BY <1>1, Inductive, PTL

(* The handler that performed a mutation does not end before its own       *)
(* client has the answer.                                                  *)
THEOREM ExecutorIsAnswered == Spec => []ExecutorAnswered
<1>1. IInv => ExecutorAnswered
  BY DEF IInv, TypeOK, WaiterInv, ExecutorAnswered
<1> QED BY <1>1, Inductive, PTL
=============================================================================
