----------------------- MODULE SwarmPersistenceProofs -----------------------
(***************************************************************************)
(* Proofs for SwarmPersistence: type correctness, that a snapshot is on    *)
(* disk wherever a crash falls, and that a save which no other operation   *)
(* overlaps leaves the present plan on disk, for any tasks, sessions,      *)
(* number of concurrent saves, restarts and failing writes.                *)
(***************************************************************************)
EXTENDS SwarmPersistence, TLAPS

(* A save that nothing has overlapped is the only one, and what it has     *)
(* read is still what is in memory.                                        *)
SoloReads ==
    \A p \in Saver : solo = p =>
        /\ pc[p] \notin {"idle", "broadcast"}
        /\ \A q \in Saver \ {p} : pc[q] = "idle"
        /\ pc[p] \in {"members", "write", "retire", "install"} => snap[p].plan = plan
        /\ pc[p] \in {"write", "retire", "install"} => snap[p].members = members
        /\ pc[p] \in {"retire", "install"} => snap[p] # Empty
        /\ mode[p] = "remove" => plan = None

(* A save that is over has been forgotten. *)
SavedIsIdle == saved => \A p \in Saver : pc[p] \in {"idle", "broadcast"}

(* Only the check of a leave chooses another purpose, and a join or a      *)
(* leave that waits for the members knows its session.                     *)
IdleMode ==
    \A p \in Saver :
        /\ pc[p] \in {"idle", "guard", "join", "leave", "check", "broadcast"} => mode[p] = "persist"
        /\ pc[p] \in {"join", "leave"} => want[p] \in Session

IInv == TypeOK /\ SnapshotSurvives /\ QuietSaveIsCurrent /\ SoloReads /\ SavedIsIdle /\ IdleMode

-----------------------------------------------------------------------------
(* Ageing keeps plans and snapshots what they are, but for their ages. *)
LEMMA OlderPlan ==
    ASSUME NEW pl \in Plan \cup {None}
    PROVE  /\ Older(pl) \in Plan \cup {None}
           /\ Older(pl) = None <=> pl = None
BY NoneAssumption, StaleAfterAssumption DEF Older, Plan, Item

(* The same for a snapshot: its members stay, and only the empty one is    *)
(* empty afterwards.                                                       *)
LEMMA OlderSnap ==
    ASSUME NEW s \in Snapshot
    PROVE  /\ OlderSnapshot(s) \in Snapshot
           /\ OlderSnapshot(s).plan = Older(s.plan)
           /\ OlderSnapshot(s).members = s.members
           /\ OlderSnapshot(s) # None
           /\ s # Empty => OlderSnapshot(s) # Empty
<1>1. s # None
    BY NoneAssumption
<1>2. OlderSnapshot(s) = [s EXCEPT !.plan = Older(@)]
    BY <1>1 DEF OlderSnapshot
<1>3. s.plan \in Plan \cup {None} /\ s.members \subseteq Session
    BY DEF Snapshot
<1>4. Older(s.plan) \in Plan \cup {None} /\ (Older(s.plan) = None <=> s.plan = None)
    BY <1>3, OlderPlan
<1>5. OlderSnapshot(s) = [plan |-> Older(s.plan), members |-> s.members]
    BY <1>2 DEF Snapshot
<1>6. OlderSnapshot(s) \in Snapshot
    BY <1>3, <1>4, <1>5 DEF Snapshot
<1>7. s # Empty => OlderSnapshot(s) # Empty
    BY <1>4, <1>5 DEF Snapshot, Empty
<1> QED
    BY <1>5, <1>6, <1>7, NoneAssumption

(* The empty snapshot is a snapshot. *)
LEMMA EmptyType == Empty \in Snapshot
BY DEF Empty, Snapshot

(* The sweep and a recovery change statuses only. *)
LEMMA PlanUpdates ==
    ASSUME NEW pl \in Plan
    PROVE  from_persisted_plan(pl) \in Plan
BY DEF from_persisted_plan, Plan, Item, ItemStatus

-----------------------------------------------------------------------------
(* What the start and the end of a save do to the types. *)
LEMMA SaveType ==
    ASSUME TypeOK, NEW p \in Saver, NEW start \in {"guard", "join", "leave", "plan"}, Save(p, start)
    PROVE  /\ pc' \in [Saver -> PC]
           /\ snap' \in [Saver -> Snapshot]
           /\ mode' \in [Saver -> {"persist", "remove"}]
           /\ json' \in Snapshot \cup {None} /\ bak' \in Snapshot \cup {None}
           /\ orphans' \subseteq Snapshot
           /\ restarts' \in 0..MaxRestarts
           /\ solo' \in Saver \cup {None} /\ saved' \in BOOLEAN /\ kept' \in BOOLEAN
BY DEF TypeOK, Save, disk, PC

(* The end of a save keeps the types of what it assigns. *)
LEMMA EndType ==
    ASSUME TypeOK, NEW p \in Saver, NEW success \in BOOLEAN, End(p, success)
    PROVE  /\ pc' \in [Saver -> PC]
           /\ snap' \in [Saver -> Snapshot]
           /\ mode' \in [Saver -> {"persist", "remove"}]
           /\ solo' \in Saver \cup {None} /\ saved' \in BOOLEAN
BY EmptyType DEF TypeOK, End, PC

(* Every step keeps the types. *)
LEMMA TypeStep == TypeOK /\ IdleMode /\ [Next]_vars => TypeOK'
<1> SUFFICES ASSUME TypeOK, IdleMode, [Next]_vars PROVE TypeOK'
    OBVIOUS
<1> USE BoundsAssumption
<1>1. ASSUME NEW p \in Saver \ {Sweeper}, Operation(p) PROVE TypeOK'
  <2>0. ops' \in 0..MaxOps
    BY <1>1 DEF Operation, TypeOK
  <2>1. CASE propose_plan(p)
    <3>1. plan' \in Plan
        BY <2>1, StaleAfterAssumption DEF propose_plan, TypeOK, Plan, Item, ItemStatus
    <3>2. Save(p, "guard") /\ members' = members /\ live' = live /\ held' = held /\ want' = want
        BY <2>1 DEF propose_plan
    <3> QED BY <2>0, <3>1, <3>2, SaveType DEF TypeOK
  <2>2. ASSUME NEW t \in Task, StartTask(p, t) PROVE TypeOK'
    <3>1. plan' \in Plan
        BY <2>2, StaleAfterAssumption DEF StartTask, TypeOK, Plan, Item, ItemStatus
    <3>2. /\ Save(p, "plan") /\ members' = members /\ live' \subseteq Task
          /\ held' = held /\ want' = want
        BY <2>2 DEF StartTask, TypeOK
    <3> QED BY <2>0, <3>1, <3>2, SaveType DEF TypeOK
  <2>3. ASSUME NEW t \in Task, touch_swarm_task_progress(p, t) PROVE TypeOK'
    <3>1. plan' \in Plan
        BY <2>3, StaleAfterAssumption DEF touch_swarm_task_progress, TypeOK, Plan, Item, ItemStatus
    <3>2. Save(p, "plan") /\ members' = members /\ live' = live /\ held' = held /\ want' = want
        BY <2>3 DEF touch_swarm_task_progress
    <3> QED BY <2>0, <3>1, <3>2, SaveType DEF TypeOK
  <2>4. ASSUME NEW t \in Task, NEW outcome \in {"done", "failed"}, FinishTask(p, t, outcome)
        PROVE  TypeOK'
    <3>1. plan' \in Plan
        BY <2>4, StaleAfterAssumption DEF FinishTask, TypeOK, Plan, Item, ItemStatus
    <3>2. /\ Save(p, "plan") /\ members' = members /\ live' \subseteq Task
          /\ held' = held /\ want' = want
        BY <2>4 DEF FinishTask, TypeOK
    <3> QED BY <2>0, <3>1, <3>2, SaveType DEF TypeOK
  <2>5. ASSUME NEW s \in Session, Join(p, s) PROVE TypeOK'
    <3>1. /\ Save(p, "join") /\ plan' = plan /\ members' = members /\ live' = live
          /\ held' = held /\ want' \in [Saver -> Session \cup {None}]
        BY <2>5 DEF Join, TypeOK
    <3> QED BY <2>0, <3>1, SaveType DEF TypeOK
  <2>6. ASSUME NEW s \in Session, Leave(p, s) PROVE TypeOK'
    <3>1. /\ Save(p, "leave") /\ plan' = plan /\ members' = members /\ live' = live
          /\ held' = held /\ want' \in [Saver -> Session \cup {None}]
        BY <2>6 DEF Leave, TypeOK
    <3> QED BY <2>0, <3>1, SaveType DEF TypeOK
  <2> QED
    BY <1>1, <2>1, <2>2, <2>3, <2>4, <2>5, <2>6 DEF Operation
<1>2. ASSUME NEW p \in Saver, SaveStep(p) PROVE TypeOK'
  <2>10. CASE TakeGuard(p)
    BY <2>10 DEF TakeGuard, Step, TypeOK, disk, PC
  <2>11. CASE WriteMembers(p)
    <3>1. members' \subseteq Session
        BY <2>11 DEF WriteMembers, Step, TypeOK, IdleMode
    <3>2. pc' \in [Saver -> PC]
        BY <2>11 DEF WriteMembers, Step, TypeOK, PC
    <3> QED BY <2>11, <3>1, <3>2 DEF WriteMembers, TypeOK, disk
  <2>12. CASE Broadcast(p)
    BY <2>12 DEF Broadcast, Step, TypeOK, disk, PC
  <2>1. CASE CheckPlan(p)
    BY <2>1 DEF CheckPlan, Step, TypeOK, PC, memory, disk
  <2>2. CASE LoadPlan(p)
    BY <2>2 DEF LoadPlan, Step, TypeOK, PC, memory, disk, Snapshot
  <2>3. CASE LoadMembers(p)
    BY <2>3 DEF LoadMembers, Step, TypeOK, PC, memory, disk, Snapshot
  <2>4. CASE RemoveFile(p)
    BY <2>4, EndType DEF RemoveFile, TypeOK, memory
  <2>5. CASE KeepFile(p)
    BY <2>5, EndType DEF KeepFile, TypeOK, memory, disk
  <2>6. CASE WriteTemp(p)
    BY <2>6 DEF WriteTemp, Step, TypeOK, PC, memory, disk
  <2>7. CASE Retire(p)
    BY <2>7 DEF Retire, Step, TypeOK, PC, memory
  <2>8. CASE Install(p)
    BY <2>8, EndType DEF Install, TypeOK, memory
  <2>9. CASE WriteFails(p)
    BY <2>9, EndType DEF WriteFails, TypeOK, memory, disk
  <2> QED
    BY <1>2, <2>1, <2>2, <2>3, <2>4, <2>5, <2>6, <2>7, <2>8, <2>9, <2>10, <2>11, <2>12
    DEF SaveStep
<1>3. CASE refresh_swarm_task_staleness
  <2>1. plan' \in Plan
    BY <1>3 DEF refresh_swarm_task_staleness, Swept, TypeOK, Plan, Item, ItemStatus
  <2>2. /\ Save(Sweeper, "plan") /\ members' = members /\ live' = live /\ ops' = ops
        /\ held' = held /\ want' = want
    BY <1>3 DEF refresh_swarm_task_staleness
  <2> QED BY <2>1, <2>2, SaveType, SaverAssumption DEF TypeOK
<1>4. CASE Tick
  <2>1. plan' \in Plan \cup {None}
    BY <1>4, OlderPlan DEF Tick, TypeOK
  <2>2. snap' \in [Saver -> Snapshot]
    BY <1>4, OlderSnap DEF Tick, TypeOK
  <2>3. json' \in Snapshot \cup {None} /\ bak' \in Snapshot \cup {None}
    <3>1. ASSUME NEW s \in Snapshot \cup {None} PROVE OlderSnapshot(s) \in Snapshot \cup {None}
        BY OlderSnap DEF OlderSnapshot
    <3> QED BY <1>4, <3>1 DEF Tick, TypeOK
  <2>4. orphans' \subseteq Snapshot
    BY <1>4, OlderSnap DEF Tick, TypeOK
  <2> QED BY <1>4, <2>1, <2>2, <2>3, <2>4 DEF Tick, TypeOK
<1>5. CASE Restart
  <2> DEFINE left == orphans \cup {snap[p] : p \in {q \in Saver : pc[q] \in {"retire", "install"}}}
  <2>1. left \subseteq Snapshot
    BY DEF TypeOK
  <2>2. Files(left) \subseteq Snapshot
    BY <2>1 DEF Files, TypeOK
  <2>3. plan' \in Plan \cup {None}
    <3>1. ASSUME NEW f \in WithPlan(left) PROVE from_persisted_plan(f.plan) \in Plan
        BY <2>2, PlanUpdates DEF WithPlan, Snapshot
    <3> QED BY <1>5, <3>1 DEF Restart
  <2>4. members' \subseteq Session
    BY <1>5, <2>2 DEF Restart, Snapshot
  <2>5. snap' \in [Saver -> Snapshot]
    BY <1>5, EmptyType DEF Restart
  <2>6. orphans' \subseteq Snapshot
    BY <1>5, <2>1 DEF Restart
  <2>7. restarts' \in 0..MaxRestarts
    BY <1>5 DEF Restart, TypeOK
  <2> QED
    BY <1>5, <2>3, <2>4, <2>5, <2>6, <2>7 DEF Restart, TypeOK, PC
<1>6. CASE UNCHANGED vars
    BY <1>6 DEF vars, TypeOK
<1> QED
    BY <1>1, <1>2, <1>3, <1>4, <1>5, <1>6 DEF Next

-----------------------------------------------------------------------------
(* The parts of the invariant beside the types. *)
Rest == SnapshotSurvives /\ QuietSaveIsCurrent /\ SoloReads /\ SavedIsIdle /\ IdleMode

(* An operation starts its save: alone it is the solo save, otherwise no   *)
(* save is solo any more; whatever it did to the plan, nothing counts as   *)
(* saved.                                                                  *)
LEMMA SaveRest ==
    ASSUME TypeOK, Rest, NEW p \in Saver, NEW start \in {"guard", "join", "leave", "plan"},
           Save(p, start),
           start \in {"join", "leave"} => want'[p] \in Session,
           \A q \in Saver \ {p} : want'[q] = want[q]
    PROVE  Rest'
<1>1. SnapshotSurvives'
    BY DEF Save, disk, Rest, SnapshotSurvives
<1>2. QuietSaveIsCurrent' /\ SavedIsIdle'
    BY DEF Save, QuietSaveIsCurrent, SavedIsIdle
<1>3. IdleMode'
    BY DEF Save, Rest, IdleMode, TypeOK
<1>4. SoloReads'
    BY NoneAssumption DEF Save, SoloReads, Rest, IdleMode, TypeOK
<1> QED
    BY <1>1, <1>2, <1>3, <1>4 DEF Rest

(* The steps of a save: only Retire and RemoveFile take the snapshot away, *)
(* the first keeps it as the backup, the second is meant to.               *)
LEMMA SurviveSaveStep ==
    ASSUME TypeOK, Rest, NEW p \in Saver, SaveStep(p)
    PROVE  SnapshotSurvives'
<1>1. SnapshotSurvives /\ SaveStep(p)
    BY DEF Rest
<1>2. CASE CheckPlan(p)
    BY <1>2, <1>1, NoneAssumption DEF CheckPlan, Step, memory, disk, SnapshotSurvives, TypeOK
<1>3. CASE LoadPlan(p)
    BY <1>3, <1>1, NoneAssumption DEF LoadPlan, Step, memory, disk, SnapshotSurvives, TypeOK
<1>4. CASE LoadMembers(p)
    BY <1>4, <1>1, NoneAssumption DEF LoadMembers, Step, memory, disk, SnapshotSurvives, TypeOK
<1>5. CASE RemoveFile(p)
    BY <1>5, <1>1, NoneAssumption DEF RemoveFile, End, memory, SnapshotSurvives, TypeOK
<1>6. CASE KeepFile(p)
    BY <1>6, <1>1, NoneAssumption DEF KeepFile, End, memory, disk, SnapshotSurvives, TypeOK
<1>7. CASE WriteTemp(p)
    BY <1>7, <1>1, NoneAssumption DEF WriteTemp, Step, memory, disk, SnapshotSurvives, TypeOK
<1>8. CASE Retire(p)
    BY <1>8, <1>1, NoneAssumption DEF Retire, Step, memory, SnapshotSurvives, TypeOK
<1>9. CASE Install(p)
    BY <1>9, <1>1, NoneAssumption DEF Install, End, memory, SnapshotSurvives, TypeOK
<1>10. CASE WriteFails(p)
    BY <1>10, <1>1, NoneAssumption DEF WriteFails, End, memory, disk, SnapshotSurvives, TypeOK
<1>11. CASE TakeGuard(p)
    BY <1>11, <1>1, NoneAssumption DEF TakeGuard, Step, disk, SnapshotSurvives, TypeOK
<1>12. CASE WriteMembers(p)
    BY <1>12, <1>1, NoneAssumption DEF WriteMembers, Step, disk, SnapshotSurvives, TypeOK
<1>13. CASE Broadcast(p)
    BY <1>13, <1>1, NoneAssumption DEF Broadcast, Step, disk, SnapshotSurvives, TypeOK
<1> QED
    BY <1>1, <1>2, <1>3, <1>4, <1>5, <1>6, <1>7, <1>8, <1>9, <1>10,
       <1>11, <1>12, <1>13
    DEF SaveStep

(* The position and the mode of a save agree. *)
LEMMA ModeSaveStep ==
    ASSUME TypeOK, Rest, NEW p \in Saver, SaveStep(p)
    PROVE  IdleMode'
<1>1. IdleMode /\ SaveStep(p)
    BY DEF Rest
<1>2. CASE CheckPlan(p)
    BY <1>2, <1>1 DEF CheckPlan, Step, memory, disk, IdleMode, TypeOK
<1>3. CASE LoadPlan(p)
    BY <1>3, <1>1 DEF LoadPlan, Step, memory, disk, IdleMode, TypeOK
<1>4. CASE LoadMembers(p)
    BY <1>4, <1>1 DEF LoadMembers, Step, memory, disk, IdleMode, TypeOK
<1>5. CASE RemoveFile(p)
    BY <1>5, <1>1 DEF RemoveFile, End, memory, IdleMode, TypeOK
<1>6. CASE KeepFile(p)
    BY <1>6, <1>1 DEF KeepFile, End, memory, disk, IdleMode, TypeOK
<1>7. CASE WriteTemp(p)
    BY <1>7, <1>1 DEF WriteTemp, Step, memory, disk, IdleMode, TypeOK
<1>8. CASE Retire(p)
    BY <1>8, <1>1 DEF Retire, Step, memory, IdleMode, TypeOK
<1>9. CASE Install(p)
    BY <1>9, <1>1 DEF Install, End, memory, IdleMode, TypeOK
<1>10. CASE WriteFails(p)
    BY <1>10, <1>1 DEF WriteFails, End, memory, disk, IdleMode, TypeOK
<1>11. CASE TakeGuard(p)
    BY <1>11, <1>1, NoneAssumption DEF TakeGuard, Step, disk, IdleMode, TypeOK
<1>12. CASE WriteMembers(p)
    BY <1>12, <1>1, NoneAssumption DEF WriteMembers, Step, disk, IdleMode, TypeOK
<1>13. CASE Broadcast(p)
    BY <1>13, <1>1, NoneAssumption DEF Broadcast, Step, disk, IdleMode, TypeOK
<1> QED
    BY <1>1, <1>2, <1>3, <1>4, <1>5, <1>6, <1>7, <1>8, <1>9, <1>10,
       <1>11, <1>12, <1>13
    DEF SaveStep

(* The solo save reads memory that does not change until it is over. *)
LEMMA SoloSaveStep ==
    ASSUME TypeOK, Rest, NEW p \in Saver, SaveStep(p)
    PROVE  SoloReads'
<1>1. SoloReads /\ IdleMode /\ SaveStep(p)
    BY DEF Rest
<1>2. CASE CheckPlan(p)
    BY <1>2, <1>1, NoneAssumption DEF CheckPlan, Step, memory, disk, SoloReads, IdleMode, TypeOK
<1>3. CASE LoadPlan(p)
    BY <1>3, <1>1, NoneAssumption DEF LoadPlan, Step, memory, disk, SoloReads, IdleMode, TypeOK
<1>4. CASE LoadMembers(p)
    BY <1>4, <1>1, NoneAssumption DEF LoadMembers, Step, memory, disk, SoloReads, IdleMode, TypeOK
<1>5. CASE RemoveFile(p)
    BY <1>5, <1>1, NoneAssumption DEF RemoveFile, End, memory, SoloReads, IdleMode, TypeOK
<1>6. CASE KeepFile(p)
    BY <1>6, <1>1, NoneAssumption DEF KeepFile, End, memory, disk, SoloReads, IdleMode, TypeOK
<1>7. CASE WriteTemp(p)
    BY <1>7, <1>1, NoneAssumption DEF WriteTemp, Step, memory, disk, SoloReads, IdleMode, TypeOK
<1>8. CASE Retire(p)
    BY <1>8, <1>1, NoneAssumption DEF Retire, Step, memory, SoloReads, IdleMode, TypeOK
<1>9. CASE Install(p)
    BY <1>9, <1>1, NoneAssumption DEF Install, End, memory, SoloReads, IdleMode, TypeOK
<1>10. CASE WriteFails(p)
    BY <1>10, <1>1, NoneAssumption DEF WriteFails, End, memory, disk, SoloReads, IdleMode, TypeOK
<1>11. CASE TakeGuard(p)
    BY <1>11, <1>1, NoneAssumption DEF TakeGuard, Step, disk, SoloReads, IdleMode, TypeOK
<1>12. CASE WriteMembers(p)
    BY <1>12, <1>1, NoneAssumption DEF WriteMembers, Step, disk, SoloReads, IdleMode, TypeOK
<1>13. CASE Broadcast(p)
    BY <1>13, <1>1, NoneAssumption DEF Broadcast, Step, disk, SoloReads, IdleMode, TypeOK
<1> QED
    BY <1>1, <1>2, <1>3, <1>4, <1>5, <1>6, <1>7, <1>8, <1>9, <1>10,
       <1>11, <1>12, <1>13
    DEF SaveStep

(* A save that ends counts as saved only when it was solo, and then every  *)
(* save is over.                                                           *)
LEMMA IdleSaveStep ==
    ASSUME TypeOK, Rest, NEW p \in Saver, SaveStep(p)
    PROVE  SavedIsIdle'
<1>1. SavedIsIdle /\ SoloReads /\ SaveStep(p)
    BY DEF Rest
<1>2. CASE CheckPlan(p)
    BY <1>2, <1>1, NoneAssumption DEF CheckPlan, Step, memory, disk, SavedIsIdle, SoloReads, TypeOK
<1>3. CASE LoadPlan(p)
    BY <1>3, <1>1, NoneAssumption DEF LoadPlan, Step, memory, disk, SavedIsIdle, SoloReads, TypeOK
<1>4. CASE LoadMembers(p)
    BY <1>4, <1>1, NoneAssumption DEF LoadMembers, Step, memory, disk, SavedIsIdle, SoloReads, TypeOK
<1>5. CASE RemoveFile(p)
    BY <1>5, <1>1, NoneAssumption DEF RemoveFile, End, memory, SavedIsIdle, SoloReads, TypeOK
<1>6. CASE KeepFile(p)
    BY <1>6, <1>1, NoneAssumption DEF KeepFile, End, memory, disk, SavedIsIdle, SoloReads, TypeOK
<1>7. CASE WriteTemp(p)
    BY <1>7, <1>1, NoneAssumption DEF WriteTemp, Step, memory, disk, SavedIsIdle, SoloReads, TypeOK
<1>8. CASE Retire(p)
    BY <1>8, <1>1, NoneAssumption DEF Retire, Step, memory, SavedIsIdle, SoloReads, TypeOK
<1>9. CASE Install(p)
    BY <1>9, <1>1, NoneAssumption DEF Install, End, memory, SavedIsIdle, SoloReads, TypeOK
<1>10. CASE WriteFails(p)
    BY <1>10, <1>1, NoneAssumption DEF WriteFails, End, memory, disk, SavedIsIdle, SoloReads, TypeOK
<1>11. CASE TakeGuard(p)
    BY <1>11, <1>1, NoneAssumption DEF TakeGuard, Step, disk, SavedIsIdle, SoloReads, TypeOK
<1>12. CASE WriteMembers(p)
    BY <1>12, <1>1, NoneAssumption DEF WriteMembers, Step, disk, SavedIsIdle, SoloReads, TypeOK
<1>13. CASE Broadcast(p)
    BY <1>13, <1>1, NoneAssumption DEF Broadcast, Step, disk, SavedIsIdle, SoloReads, TypeOK
<1> QED
    BY <1>1, <1>2, <1>3, <1>4, <1>5, <1>6, <1>7, <1>8, <1>9, <1>10,
       <1>11, <1>12, <1>13
    DEF SaveStep

(* What the solo save installs, keeps or removes is what is in memory. *)
LEMMA QuietSaveStep ==
    ASSUME TypeOK, Rest, NEW p \in Saver, SaveStep(p)
    PROVE  QuietSaveIsCurrent'
<1>1. QuietSaveIsCurrent /\ SavedIsIdle /\ SoloReads /\ SaveStep(p)
    BY DEF Rest
<1>2. CASE CheckPlan(p)
    BY <1>2, <1>1, NoneAssumption DEF CheckPlan, Step, memory, disk, QuietSaveIsCurrent, SavedIsIdle, SoloReads, TypeOK, Snapshot, Empty
<1>3. CASE LoadPlan(p)
    BY <1>3, <1>1, NoneAssumption DEF LoadPlan, Step, memory, disk, QuietSaveIsCurrent, SavedIsIdle, SoloReads, TypeOK, Snapshot, Empty
<1>4. CASE LoadMembers(p)
    BY <1>4, <1>1, NoneAssumption DEF LoadMembers, Step, memory, disk, QuietSaveIsCurrent, SavedIsIdle, SoloReads, TypeOK, Snapshot, Empty
<1>5. CASE RemoveFile(p)
  <2>1. json' = None /\ plan' = plan /\ members' = members
    BY <1>5 DEF RemoveFile, memory
  <2>2. ASSUME saved' PROVE plan = None
    <3>1. solo = p
        BY <1>1, <1>5, <2>2 DEF RemoveFile, End, SavedIsIdle
    <3>2. snap[p].plan = plan /\ snap[p] = Empty
        BY <1>1, <1>5, <3>1 DEF RemoveFile, SoloReads
    <3> QED BY <3>2 DEF Empty
  <2> QED BY <2>1, <2>2 DEF QuietSaveIsCurrent
<1>6. CASE KeepFile(p)
    BY <1>6, <1>1, NoneAssumption DEF KeepFile, End, memory, disk, QuietSaveIsCurrent, SavedIsIdle, SoloReads, TypeOK, Snapshot, Empty
<1>7. CASE WriteTemp(p)
    BY <1>7, <1>1, NoneAssumption DEF WriteTemp, Step, memory, disk, QuietSaveIsCurrent, SavedIsIdle, SoloReads, TypeOK, Snapshot, Empty
<1>8. CASE Retire(p)
    BY <1>8, <1>1, NoneAssumption DEF Retire, Step, memory, QuietSaveIsCurrent, SavedIsIdle, SoloReads, TypeOK, Snapshot, Empty
<1>9. CASE Install(p)
  <2>1. json' = snap[p] /\ plan' = plan /\ members' = members
    BY <1>9 DEF Install, memory
  <2>2. snap[p] \in Snapshot /\ snap[p] # None
    BY NoneAssumption DEF TypeOK
  <2>3. ASSUME saved'
        PROVE  snap[p].plan = plan /\ snap[p].members = members /\ snap[p] # Empty
    <3>1. solo = p
        BY <1>1, <1>9, <2>3 DEF Install, End, SavedIsIdle
    <3> QED BY <1>1, <1>9, <3>1 DEF Install, SoloReads
  <2>4. ASSUME saved', plan = None, members = {} PROVE FALSE
    BY <2>2, <2>3, <2>4 DEF Snapshot, Empty
  <2> QED BY <2>1, <2>2, <2>3, <2>4 DEF QuietSaveIsCurrent
<1>10. CASE WriteFails(p)
    BY <1>10, <1>1, NoneAssumption DEF WriteFails, End, memory, disk, QuietSaveIsCurrent, SavedIsIdle, SoloReads, TypeOK, Snapshot, Empty
<1>11. CASE TakeGuard(p)
    BY <1>11, <1>1, NoneAssumption DEF TakeGuard, Step, disk, QuietSaveIsCurrent, SavedIsIdle, SoloReads, TypeOK
<1>12. CASE WriteMembers(p)
    BY <1>12, <1>1, NoneAssumption DEF WriteMembers, Step, disk, QuietSaveIsCurrent, SavedIsIdle, SoloReads, TypeOK
<1>13. CASE Broadcast(p)
    BY <1>13, <1>1, NoneAssumption DEF Broadcast, Step, disk, QuietSaveIsCurrent, SavedIsIdle, SoloReads, TypeOK
<1> QED
    BY <1>1, <1>2, <1>3, <1>4, <1>5, <1>6, <1>7, <1>8, <1>9, <1>10,
       <1>11, <1>12, <1>13
    DEF SaveStep

(* Time passes alike in memory, for the saves and on disk. *)
LEMMA TickRest ==
    ASSUME TypeOK, Rest, Tick
    PROVE  Rest'
<1>1. ASSUME NEW s \in Snapshot \cup {None} PROVE OlderSnapshot(s) = None <=> s = None
    BY OlderSnap, NoneAssumption DEF OlderSnapshot
<1>2. /\ json \in Snapshot \cup {None} /\ bak \in Snapshot \cup {None}
      /\ json' = OlderSnapshot(json) /\ bak' = OlderSnapshot(bak)
      /\ plan \in Plan \cup {None} /\ plan' = Older(plan)
      /\ members' = members /\ want' = want /\ pc' = pc /\ mode' = mode /\ solo' = solo /\ saved' = saved /\ kept' = kept
    BY DEF TypeOK, Tick
<1>3. Older(plan) = None <=> plan = None
    BY <1>2, OlderPlan
<1>4. SnapshotSurvives'
    BY <1>1, <1>2 DEF Rest, SnapshotSurvives
<1>5. QuietSaveIsCurrent'
  <2>1. ASSUME json # None PROVE OlderSnapshot(json).plan = Older(json.plan)
    BY <1>2, <2>1, OlderSnap
  <2> QED BY <1>1, <1>2, <1>3, <2>1 DEF Rest, QuietSaveIsCurrent
<1>6. SavedIsIdle' /\ IdleMode'
    BY <1>2 DEF Rest, SavedIsIdle, IdleMode
<1>7. SoloReads'
  <2>1. ASSUME NEW p \in Saver
        PROVE  /\ snap'[p].plan = Older(snap[p].plan)
               /\ snap'[p].members = snap[p].members
               /\ snap[p] # Empty => snap'[p] # Empty
    <3>1. snap[p] \in Snapshot /\ snap'[p] = OlderSnapshot(snap[p])
        BY DEF TypeOK, Tick
    <3> QED BY <3>1, OlderSnap
  <2> QED BY <1>2, <1>3, <2>1 DEF Rest, SoloReads
<1> QED
    BY <1>4, <1>5, <1>6, <1>7 DEF Rest

(* Every step keeps the rest of the invariant. *)
LEMMA RestStep == TypeOK /\ Rest /\ [Next]_vars => Rest'
<1> SUFFICES ASSUME TypeOK, Rest, [Next]_vars PROVE Rest'
    OBVIOUS
<1>1. ASSUME NEW p \in Saver \ {Sweeper}, Operation(p) PROVE Rest'
  <2>1. ASSUME NEW s \in Session, Join(p, s) \/ Leave(p, s) PROVE Rest'
    <3>1. /\ Save(p, "join") \/ Save(p, "leave")
          /\ want'[p] \in Session /\ \A q \in Saver \ {p} : want'[q] = want[q]
        BY <2>1 DEF Join, Leave, TypeOK
    <3> QED BY <3>1, SaveRest
  <2>2. CASE want' = want /\ (Save(p, "guard") \/ Save(p, "plan"))
    BY <2>2, SaveRest
  <2> QED
    BY <1>1, <2>1, <2>2 DEF Operation, propose_plan, StartTask, touch_swarm_task_progress, FinishTask
<1>2. ASSUME NEW p \in Saver, SaveStep(p) PROVE Rest'
    BY <1>2, SurviveSaveStep, QuietSaveStep, SoloSaveStep, IdleSaveStep, ModeSaveStep DEF Rest
<1>3. CASE refresh_swarm_task_staleness
  <2>1. Save(Sweeper, "plan") /\ want' = want
    BY <1>3 DEF refresh_swarm_task_staleness
  <2> QED BY <2>1, SaveRest, SaverAssumption
<1>4. CASE Tick
    BY <1>4, TickRest
<1>5. CASE Restart
    BY <1>5, NoneAssumption
    DEF Restart, Rest, SnapshotSurvives, QuietSaveIsCurrent, SoloReads, SavedIsIdle, IdleMode
<1>6. CASE UNCHANGED vars
    BY <1>6 DEF vars, Rest, SnapshotSurvives, QuietSaveIsCurrent, SoloReads, SavedIsIdle, IdleMode
<1> QED
    BY <1>1, <1>2, <1>3, <1>4, <1>5, <1>6 DEF Next

(* The invariant holds of every behaviour: at first nothing is saved, and  *)
(* each step keeps it.                                                     *)
THEOREM Inductive == Spec => []IInv
<1>1. Init => IInv
  <2>1. Init => TypeOK
    <3> SUFFICES ASSUME Init PROVE TypeOK
        OBVIOUS
    <3>1. snap \in [Saver -> Snapshot]
        BY EmptyType DEF Init
    <3>2. ops \in 0..MaxOps /\ restarts \in 0..MaxRestarts
        BY BoundsAssumption DEF Init
    <3>3. /\ pc \in [Saver -> PC]
          /\ mode \in [Saver -> {"persist", "remove"}]
        BY DEF Init, PC
    <3> QED BY <3>1, <3>2, <3>3 DEF Init, TypeOK, PC
  <2>2. Init => SoloReads
    <3>1. ASSUME Init, NEW p \in Saver PROVE solo # p
        BY <3>1, NoneAssumption DEF Init
    <3> QED BY <3>1 DEF SoloReads
  <2> QED
    BY <2>1, <2>2 DEF Init, IInv, SnapshotSurvives, QuietSaveIsCurrent, SavedIsIdle, IdleMode
<1>2. IInv /\ [Next]_vars => IInv'
    BY TypeStep, RestStep DEF IInv, Rest
<1> QED
    BY <1>1, <1>2, PTL DEF Spec

(* Memory, saves and files stay well typed. *)
THEOREM TypeCorrect == Spec => []TypeOK
BY Inductive, PTL DEF IInv

(* With any number of overlapping and failing saves, a crash at any point  *)
(* finds the snapshot or its backup.                                       *)
THEOREM CrashFindsSnapshot == Spec => []SnapshotSurvives
BY Inductive, PTL DEF IInv

(* A save that no other operation overlapped leaves the present plan on    *)
(* disk, and no file of an empty swarm.                                    *)
THEOREM QuietSave == Spec => []QuietSaveIsCurrent
BY Inductive, PTL DEF IInv
=============================================================================
