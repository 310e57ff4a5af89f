-------------------------- MODULE SwarmPersistence --------------------------
(***************************************************************************)
(* The snapshots of a swarm: src/src/server/swarm_persistence.rs, their    *)
(* callers (persist_swarm_state_for, remove_persisted_swarm_state_for) and *)
(* the file protocol of crates/jcode-storage, with crashes and restarts.   *)
(*                                                                         *)
(* An operation changes the plan or the members under a lock, releases it, *)
(* and then saves: it reads the plan, reads the members, writes a temporary*)
(* file, renames the snapshot to its backup and the temporary file to the  *)
(* snapshot.  Nothing orders the saves of two operations.  A restart loads *)
(* every readable file of the directory, in the order of the directory.    *)
(*                                                                         *)
(* The members are behind an RwLock whose waiting writers keep new readers *)
(* out.  All its lock sections are short but one: the handler of a         *)
(* proposal keeps its read guard while it saves and broadcasts, and reads  *)
(* the members again in both.                                              *)
(*                                                                         *)
(* One swarm: each has a file of its own.  Of an item the status and the   *)
(* age of its heartbeat are kept, of a member its name.  The coordinator   *)
(* is left out: it is saved and loaded as the plan is.  Which assignments  *)
(* the plan's operations make is the subject of SwarmTasks.                *)
(***************************************************************************)
EXTENDS Integers, FiniteSets

CONSTANTS Task, Session, None,
          Saver,        \* operations that can be saving at the same time
          Sweeper,      \* one of them: the staleness sweep
          StaleAfter,   \* swarm_task_stale_after
          MaxOps,       \* bound on the operations, the sweep's apart
          MaxRestarts,  \* bound on the restarts of the server
          DiskFails     \* whether a write or a rename can fail

ASSUME SaverAssumption == Sweeper \in Saver
ASSUME StaleAfterAssumption == StaleAfter \in Nat \ {0}
ASSUME BoundsAssumption == MaxOps \in Nat /\ MaxRestarts \in Nat
ASSUME DiskAssumption == DiskFails \in BOOLEAN

ItemStatus == {"queued", "running", "running_stale", "done", "failed"}

Item == [status : ItemStatus, age : 0..StaleAfter]

Plan == [Task -> Item]

VARIABLES
    plan,      \* the plan in memory, or None
    members,   \* the members in memory
    held,      \* the proposals that hold the read guard of swarm_members
    want,      \* the session each join or leave is about
    live,      \* tasks that a run of this process is working on
    pc, snap, mode,  \* position of each save, what it has read, its purpose
    json, bak, \* the snapshot <swarm>.json and its backup <swarm>.bak
    orphans,   \* complete temporary files that a crash left behind
    ops, restarts,
    solo,      \* history: the save that no other operation has overlapped
    saved,     \* history: the last operation was solo and its save succeeded
    kept       \* history: some save succeeded, and none removed the file since

vars == <<plan, members, live, held, want, pc, snap, mode, json, bak, orphans, ops, restarts,
          solo, saved, kept>>

memory == <<plan, members, live, held, want>>
disk == <<json, bak, orphans, kept>>

Snapshot == [plan : Plan \cup {None}, members : SUBSET Session]

ASSUME NoneAssumption == None \notin Plan \cup Saver \cup Snapshot \cup Session

Empty == [plan |-> None, members |-> {}]

Init ==
    /\ plan = None /\ members = {} /\ live = {}
    /\ held = {} /\ want = [p \in Saver |-> None]
    /\ pc = [p \in Saver |-> "idle"]
    /\ snap = [p \in Saver |-> Empty]
    /\ mode = [p \in Saver |-> "persist"]
    /\ json = None /\ bak = None /\ orphans = {}
    /\ ops = 0 /\ restarts = 0
    /\ solo = None /\ saved = FALSE /\ kept = FALSE

-----------------------------------------------------------------------------
(* The operations.  Each ends by starting its save.                        *)

Save(p, start) ==
    /\ pc[p] = "idle"
    /\ pc' = [pc EXCEPT ![p] = start]
    /\ solo' = IF \A q \in Saver : pc[q] = "idle" THEN p ELSE None
    /\ saved' = FALSE
    /\ UNCHANGED <<snap, mode, disk, restarts>>

(* The coordinator proposes a plan: its items replace those of the plan;   *)
(* the progress of tasks it had before, and their runs, go on.  Then the   *)
(* participants are looked up, under the read guard.                       *)
propose_plan(p) ==
    /\ plan' = [t \in Task |-> [status |-> "queued",
                                age |-> IF plan = None THEN StaleAfter ELSE plan[t].age]]
    /\ UNCHANGED <<members, live, held, want>>
    /\ Save(p, "guard")

(* A run starts on a task that waits, failed, or lost its run. *)
StartTask(p, t) ==
    /\ plan # None
    /\ t \notin live
    /\ plan[t].status \in {"queued", "failed", "running_stale"}
    /\ plan' = [plan EXCEPT ![t] = [status |-> "running", age |-> 0]]
    /\ live' = live \cup {t}
    /\ UNCHANGED <<members, held, want>>
    /\ Save(p, "plan")

(* A heartbeat of the run. *)
touch_swarm_task_progress(p, t) ==
    /\ plan # None
    /\ t \in live
    /\ plan' = [plan EXCEPT ![t] =
                  [status |-> IF @.status = "running_stale" THEN "running" ELSE @.status,
                   age |-> 0]]
    /\ UNCHANGED <<members, live, held, want>>
    /\ Save(p, "plan")

(* The run ends and writes its outcome, with a last heartbeat. *)
FinishTask(p, t, outcome) ==
    /\ plan # None
    /\ t \in live
    /\ plan' = [plan EXCEPT ![t] = [status |-> outcome, age |-> 0]]
    /\ live' = live \ {t}
    /\ UNCHANGED <<members, held, want>>
    /\ Save(p, "plan")

(* A session is spawned into the swarm, or leaves it                       *)
(* (remove_session_from_swarm, once it is gone from the map): the members' *)
(* write lock is asked for.                                                *)
Join(p, s) ==
    /\ s \notin members
    /\ want' = [want EXCEPT ![p] = s]
    /\ UNCHANGED <<plan, members, live, held>>
    /\ Save(p, "join")

Leave(p, s) ==
    /\ s \in members
    /\ want' = [want EXCEPT ![p] = s]
    /\ UNCHANGED <<plan, members, live, held>>
    /\ Save(p, "leave")

Swept(t) ==
    LET stale == plan[t].age >= StaleAfter IN
    CASE plan[t].status = "running" /\ stale -> [plan[t] EXCEPT !.status = "running_stale"]
      [] plan[t].status = "running_stale" /\ ~ stale -> [plan[t] EXCEPT !.status = "running"]
      [] OTHER -> plan[t]

(* Mutant: only revives. *)
SweepRevives ==
    /\ plan # None
    /\ \E t \in Task : plan[t].status = "running_stale" /\ plan[t].age < StaleAfter
    /\ plan' = [t \in Task |-> IF plan[t].status = "running_stale" THEN Swept(t) ELSE plan[t]]
    /\ UNCHANGED <<members, live, held, want, ops>>
    /\ Save(Sweeper, "plan")

(* The periodic sweep; it saves when it changed the plan. *)
refresh_swarm_task_staleness ==
    /\ plan # None
    /\ \E t \in Task : Swept(t) # plan[t]
    /\ plan' = [t \in Task |-> Swept(t)]
    /\ UNCHANGED <<members, live, held, want, ops>>
    /\ Save(Sweeper, "plan")

-----------------------------------------------------------------------------
(* The steps of a save.                                                    *)

Step(p, from, to) == pc[p] = from /\ pc' = [pc EXCEPT ![p] = to]

(* A writer that waits for the members keeps new readers out. *)
Readable == \A p \in Saver : pc[p] \notin {"join", "leave"}

(* handle_comm_propose_plan: the guard it keeps until it returns. *)
TakeGuard(p) ==
    /\ Readable
    /\ Step(p, "guard", "plan")
    /\ held' = held \cup {p}
    /\ UNCHANGED <<plan, members, live, want, snap, mode, disk, ops, restarts, solo, saved>>

(* The writer gets the lock when no guard is held. *)
WriteMembers(p) ==
    /\ held = {}
    /\ \/ Step(p, "join", "plan") /\ members' = members \cup {want[p]}
       \/ Step(p, "leave", "check") /\ members' = members \ {want[p]}
    /\ want' = [want EXCEPT ![p] = None]
    /\ UNCHANGED <<plan, live, held, snap, mode, disk, ops, restarts, solo, saved>>

(* A swarm that has a plan is saved; of one that has none the file is only *)
(* removed, when nothing is left of the swarm.                             *)
CheckPlan(p) ==
    /\ Step(p, "check", "plan")
    /\ mode' = [mode EXCEPT ![p] = IF plan # None THEN "persist" ELSE "remove"]
    /\ UNCHANGED <<memory, snap, disk, ops, restarts, solo, saved>>

(* Mutant: the plan of the last snapshot is saved again. *)
LoadPlanCached(p) ==
    /\ Step(p, "plan", "members")
    /\ snap' = [snap EXCEPT ![p].plan = IF json # None THEN json.plan ELSE plan]
    /\ UNCHANGED <<memory, mode, disk, ops, restarts, solo, saved>>

LoadPlan(p) ==
    /\ Step(p, "plan", "members")
    /\ snap' = [snap EXCEPT ![p].plan = plan]
    /\ UNCHANGED <<memory, mode, disk, ops, restarts, solo, saved>>

LoadMembers(p) ==
    /\ Readable
    /\ Step(p, "members", "write")
    /\ snap' = [snap EXCEPT ![p].members = members]
    /\ UNCHANGED <<memory, mode, disk, ops, restarts, solo, saved>>

(* The save is over; the flag tells whether it did what it had to. *)
End(p, success) ==
    /\ pc' = [pc EXCEPT ![p] = IF p \in held THEN "broadcast" ELSE "idle"]
    /\ snap' = [snap EXCEPT ![p] = Empty]
    /\ mode' = [mode EXCEPT ![p] = "persist"]
    /\ solo' = IF solo = p THEN None ELSE solo
    /\ saved' = IF solo = p THEN success ELSE saved

(* Nothing is left of the swarm: both kinds of save remove its file. *)
RemoveFile(p) ==
    /\ pc[p] = "write"
    /\ snap[p] = Empty
    /\ json' = None /\ kept' = FALSE
    /\ End(p, TRUE)
    /\ UNCHANGED <<memory, bak, orphans, ops, restarts>>

KeepFile(p) ==
    /\ pc[p] = "write"
    /\ snap[p] # Empty /\ mode[p] = "remove"
    /\ End(p, TRUE)
    /\ UNCHANGED <<memory, disk, ops, restarts>>

(* write_bytes_inner: the temporary file is complete, ... *)
WriteTemp(p) ==
    /\ snap[p] # Empty /\ mode[p] = "persist"
    /\ Step(p, "write", "retire")
    /\ UNCHANGED <<memory, snap, mode, disk, ops, restarts, solo, saved>>

(* Mutant: the old snapshot is deleted, not kept as the backup. *)
DeleteOld(p) ==
    /\ Step(p, "retire", "install")
    /\ json' = None
    /\ UNCHANGED <<memory, snap, mode, bak, orphans, kept, ops, restarts, solo, saved>>

(* ... the old snapshot, if there is one, becomes the backup (a failure of *)
(* that rename is ignored), ...                                            *)
Retire(p) ==
    /\ Step(p, "retire", "install")
    /\ \/ bak' = (IF json # None THEN json ELSE bak) /\ json' = None
       \/ DiskFails /\ UNCHANGED <<json, bak>>
    /\ UNCHANGED <<memory, snap, mode, orphans, kept, ops, restarts, solo, saved>>

(* ... and the temporary file becomes the snapshot. *)
Install(p) ==
    /\ pc[p] = "install"
    /\ json' = snap[p] /\ kept' = TRUE
    /\ End(p, TRUE)
    /\ UNCHANGED <<memory, bak, orphans, ops, restarts>>

(* The write or the rename into place fails: the temporary file is         *)
(* removed, the error is logged and the operation goes on.                 *)
WriteFails(p) ==
    /\ DiskFails
    /\ pc[p] \in {"write", "install"}
    /\ snap[p] # Empty /\ mode[p] = "persist"
    /\ End(p, FALSE)
    /\ UNCHANGED <<memory, disk, ops, restarts>>

(* broadcast_swarm_plan reads the members; then the proposal returns, and  *)
(* its guard is dropped.                                                   *)
Broadcast(p) ==
    /\ Readable
    /\ Step(p, "broadcast", "idle")
    /\ held' = held \ {p}
    /\ UNCHANGED <<plan, members, live, want, snap, mode, disk, ops, restarts, solo, saved>>

-----------------------------------------------------------------------------
(* Mutant: the age of a heartbeat is not bounded. *)
OlderUncapped(pl) ==
    IF pl = None THEN None ELSE [t \in Task |-> [pl[t] EXCEPT !.age = @ + 1]]

(* Ages count up to StaleAfter, beyond which they all are stale. *)
Older(pl) ==
    IF pl = None THEN None
    ELSE [t \in Task |-> [pl[t] EXCEPT !.age = IF @ < StaleAfter THEN @ + 1 ELSE @]]

OlderSnapshot(s) == IF s = None THEN None ELSE [s EXCEPT !.plan = Older(@)]

(* Time passes: the heartbeats in memory and those on disk grow older. *)
Tick ==
    /\ plan' = Older(plan)
    /\ snap' = [p \in Saver |-> OlderSnapshot(snap[p])]
    /\ json' = OlderSnapshot(json) /\ bak' = OlderSnapshot(bak)
    /\ orphans' = {OlderSnapshot(s) : s \in orphans}
    /\ UNCHANGED <<members, live, held, want, pc, mode, ops, restarts, solo, saved, kept>>

(* A task that was running has lost its run. *)
from_persisted_plan(pl) ==
    [t \in Task |-> IF pl[t].status = "running" THEN [pl[t] EXCEPT !.status = "running_stale"]
                    ELSE pl[t]]

(* The readable files of the directory, given its orphans: the backup and  *)
(* the temporary files are read like the snapshot.                         *)
Files(left) == ({json, bak} \ {None}) \cup left

WithPlan(left) == {f \in Files(left) : f.plan # None}

(* A crash and a new process, which loads the plan of the file that comes  *)
(* last in the directory, and the members of all files.                    *)
Restart ==
    LET left == orphans \cup {snap[p] : p \in {q \in Saver : pc[q] \in {"retire", "install"}}}
    IN
    /\ restarts < MaxRestarts
    /\ restarts' = restarts + 1
    /\ orphans' = left
    /\ \/ WithPlan(left) = {} /\ plan' = None
       \/ \E f \in WithPlan(left) : plan' = from_persisted_plan(f.plan)
    /\ members' = UNION {f.members : f \in Files(left)}
    /\ live' = {}
    /\ held' = {} /\ want' = [p \in Saver |-> None]
    /\ pc' = [p \in Saver |-> "idle"]
    /\ snap' = [p \in Saver |-> Empty]
    /\ mode' = [p \in Saver |-> "persist"]
    /\ solo' = None /\ saved' = FALSE
    /\ UNCHANGED <<json, bak, kept, ops>>

-----------------------------------------------------------------------------
Operation(p) ==
    /\ ops < MaxOps
    /\ ops' = ops + 1
    /\ \/ propose_plan(p)
       \/ \E t \in Task : StartTask(p, t) \/ touch_swarm_task_progress(p, t)
       \/ \E t \in Task, outcome \in {"done", "failed"} : FinishTask(p, t, outcome)
       \/ \E s \in Session : Join(p, s) \/ Leave(p, s)

SaveStep(p) ==
    \/ TakeGuard(p) \/ WriteMembers(p) \/ CheckPlan(p) \/ LoadPlan(p) \/ LoadMembers(p)
    \/ RemoveFile(p) \/ KeepFile(p) \/ WriteTemp(p) \/ Retire(p) \/ Install(p)
    \/ WriteFails(p) \/ Broadcast(p)

Next ==
    \/ \E p \in Saver \ {Sweeper} : Operation(p)
    \/ \E p \in Saver : SaveStep(p)
    \/ refresh_swarm_task_staleness
    \/ Tick
    \/ Restart

Spec == Init /\ [][Next]_vars

(* The sweep is a loop with a timer, a handler goes on when it gets the    *)
(* lock it waits for, and time passes.                                     *)
FairSpec ==
    /\ Spec
    /\ WF_vars(refresh_swarm_task_staleness)
    /\ \A p \in Saver : WF_vars(SaveStep(p))
    /\ WF_vars(Tick)

-----------------------------------------------------------------------------
PC == {"idle", "guard", "join", "leave", "check", "plan", "members", "write", "retire",
       "install", "broadcast"}

TypeOK ==
    /\ plan \in Plan \cup {None}
    /\ members \subseteq Session
    /\ live \subseteq Task
    /\ held \subseteq Saver
    /\ want \in [Saver -> Session \cup {None}]
    /\ pc \in [Saver -> PC]
    /\ snap \in [Saver -> Snapshot]
    /\ mode \in [Saver -> {"persist", "remove"}]
    /\ json \in Snapshot \cup {None}
    /\ bak \in Snapshot \cup {None}
    /\ orphans \subseteq Snapshot
    /\ ops \in 0..MaxOps /\ restarts \in 0..MaxRestarts
    /\ solo \in Saver \cup {None}
    /\ saved \in BOOLEAN
    /\ kept \in BOOLEAN

(* A crash finds a snapshot to recover from, wherever it falls: from the   *)
(* first save on, and however saves overlap or fail between their two      *)
(* renames, <swarm>.json or <swarm>.bak exists until the swarm is removed. *)
SnapshotSurvives == kept => json # None \/ bak # None

(* Once an operation that no other operation overlapped has saved, the     *)
(* plan on disk is the plan in memory, and a swarm of which nothing is     *)
(* left has no file.                                                       *)
QuietSaveIsCurrent ==
    saved => /\ plan # None => json # None /\ json.plan = plan
             /\ plan = None /\ members = {} => json = None

(* A task that a crash interrupted does not pass for running for ever:     *)
(* after the restart it becomes stale, and so open to retry, even when the *)
(* sweep takes its persisted heartbeat for a fresh one at first.  The      *)
(* condition is that no proposal keeps its read guard for ever: the sweep  *)
(* saves before it goes on, and that save reads the members.               *)
InterruptedSettles ==
    []<>(held = {}) =>
        \A t \in Task :
            LET Orphaned == plan # None /\ plan[t].status = "running" /\ t \notin live
            IN  Orphaned ~> ~ Orphaned
=============================================================================
