--------------------------- MODULE SessionJournal ---------------------------
(***************************************************************************)
(* How a session is kept on disk: src/src/session/persistence.rs and       *)
(* journal.rs, the persist state and the mutations of src/src/session.rs,  *)
(* and the file steps of crates/jcode-storage.                             *)
(*                                                                         *)
(* A session file is a snapshot plus a journal of one line per save.  save *)
(* appends what was added since the last save, or, when something else     *)
(* changed or the journal is long, writes a new snapshot and removes the   *)
(* journal.  The server owns the session: it keeps it in memory and changes*)
(* it.  A client process edits its metadata: it loads the files, changes   *)
(* the copy and saves it.  Nothing locks the files.  A process can be      *)
(* killed between any two file operations and in the middle of an append.  *)
(*                                                                         *)
(* The journal is kept as what a load reads from it: the replayed lines,   *)
(* whether the text ends in an unfinished line, and whether a line that    *)
(* does not parse stops the replay.  Two of the four vectors stand for all:*)
(* memory_injections and replay_events are only ever pushed to.  Of the    *)
(* metadata, hard is what metadata_requires_snapshot compares, soft the    *)
(* rest.  The loss of power is not modelled.                               *)
(***************************************************************************)
EXTENDS Integers, Sequences

CONSTANTS Owner, Clients, None,
          MaxEnvSnapshots,  \* MAX_ENV_SNAPSHOTS
          JournalLimit,     \* MAX_SESSION_JOURNAL_BYTES, in lines
          MaxChanges,       \* bound on the changes of the session, each a new value
          MaxCrashes,       \* bound on the processes killed
          DiskFails         \* whether a write or a rename can fail

ASSUME WriterAssumption == Owner \notin Clients /\ None \notin Clients \cup {Owner}
ASSUME LimitAssumption == MaxEnvSnapshots \in Nat \ {0} /\ JournalLimit \in Nat
ASSUME BoundsAssumption == MaxChanges \in Nat /\ MaxCrashes \in Nat
ASSUME DiskAssumption == DiskFails \in BOOLEAN

Writers == Clients \cup {Owner}

Vectors == {"messages", "env_snapshots"}

Meta == [hard : Nat, soft : Nat]

(* A session as far as save and load are concerned. *)
Session == [vec : [Vectors -> Seq(Nat)], meta : Meta]

(* What a sequence of journal lines adds to a session. *)
Replay == [vec : [Vectors -> Seq(Nat)], meta : Meta \cup {None}]

Journal == [size : Nat, replay : Replay, before : Replay,
            tail : {"closed", "open", "torn"}, bad : BOOLEAN]

SessionPersistState == [exists : BOOLEAN, len : [Vectors -> Nat],
                        full : [Vectors -> BOOLEAN], hard : Nat]

ASSUME NoneAssumption == None \notin Meta \cup Session

VARIABLES
    mem, persist, pc,    \* of each writer: its copy, its persist_state, its position
    snapshot, journal,   \* <id>.json (None when missing) and <id>.journal.jsonl
    changes, crashes,
    saved, attempt,      \* history: the session of the last successful save, of the last one begun
    trouble              \* history: the worst of the Troubles since the server last
                         \* loaded the session or wrote a snapshot

vars == <<mem, persist, pc, snapshot, journal, changes, crashes,
          saved, attempt, trouble>>

disk == <<snapshot, journal>>
copies == <<mem, persist>>
bounds == <<changes, crashes>>

(* A save failed or was cut off; a line was appended to an unfinished one;  *)
(* the saves of two writers overlapped.                                    *)
Troubles == [none |-> 0, cut |-> 1, spoiled |-> 2, raced |-> 3]

Worse(t) == IF Troubles[t] > Troubles[trouble] THEN t ELSE trouble

NoItems == [v \in Vectors |-> <<>>]

NewSession == [vec |-> NoItems, meta |-> [hard |-> 0, soft |-> 0]]

NoLines == [vec |-> NoItems, meta |-> None]

NoJournal == [size |-> 0, replay |-> NoLines, before |-> NoLines,
              tail |-> "closed", bad |-> FALSE]

(* reset_persist_state: everything the session holds counts as persisted. *)
reset_persist_state(s, exists) ==
    [exists |-> exists, len |-> [v \in Vectors |-> Len(s.vec[v])],
     full |-> [v \in Vectors |-> FALSE], hard |-> s.meta.hard]

(* The server has just created the session; nothing is on disk. *)
Init ==
    /\ mem = [w \in Writers |-> NewSession]
    /\ persist = [w \in Writers |-> reset_persist_state(NewSession, FALSE)]
    /\ pc = [w \in Writers |-> IF w = Owner THEN "idle" ELSE "stopped"]
    /\ snapshot = None /\ journal = NoJournal
    /\ changes = 0 /\ crashes = 0
    /\ saved = None /\ attempt = None /\ trouble = "none"

(* A writer moves on with a session and its persist state. *)
Goto(w, at, s, ps) ==
    /\ pc' = [pc EXCEPT ![w] = at]
    /\ mem' = [mem EXCEPT ![w] = s]
    /\ persist' = [persist EXCEPT ![w] = ps]

(* The copy is gone: a client has dropped it, or the process was killed. *)
Stop(w) == Goto(w, "stopped", NewSession, reset_persist_state(NewSession, FALSE))

(* Between the start of a save, or of a load and edit, and its return. *)
Busy(w) == pc[w] \notin {"idle", "stopped"}

-----------------------------------------------------------------------------
(* The session in memory.  The agent owns it, and save runs to its end     *)
(* before the next change.                                                 *)

Change(v, s, full) ==
    /\ pc[Owner] = "idle"
    /\ mem' = [mem EXCEPT ![Owner].vec[v] = s]
    /\ persist' = [persist EXCEPT ![Owner].full[v] = @ \/ full]
    /\ UNCHANGED <<pc, disk, crashes, saved, attempt, trouble>>

(* A change brings a value that was not there before. *)
NewValue == changes < MaxChanges /\ changes' = changes + 1

append_stored_message ==
    /\ NewValue
    /\ Change("messages", Append(mem[Owner].vec["messages"], changes'), FALSE)

(* insert_message; a rewritten message (replace_messages,                  *)
(* remove_tool_use_blocks) is persisted in the same way.                   *)
insert_message ==
    /\ NewValue
    /\ Change("messages", <<changes'>> \o mem[Owner].vec["messages"], TRUE)

(* Mutant: a truncation does not ask for a snapshot. *)
TruncateUnmarked(len) ==
    /\ len < Len(mem[Owner].vec["messages"])
    /\ Change("messages", SubSeq(mem[Owner].vec["messages"], 1, len), FALSE)
    /\ UNCHANGED changes

truncate_messages(len) ==
    /\ len < Len(mem[Owner].vec["messages"])
    /\ Change("messages", SubSeq(mem[Owner].vec["messages"], 1, len), TRUE)
    /\ UNCHANGED changes

(* The oldest snapshots go when there are more than MAX_ENV_SNAPSHOTS. *)
record_env_snapshot ==
    LET grown == Append(mem[Owner].vec["env_snapshots"], changes')
        excess == Len(grown) - MaxEnvSnapshots
    IN  /\ NewValue
        /\ IF excess > 0
           THEN Change("env_snapshots", SubSeq(grown, excess + 1, Len(grown)), TRUE)
           ELSE Change("env_snapshots", grown, FALSE)

(* A title, a status, a model... is set. *)
SetMeta(field) ==
    /\ pc[Owner] = "idle"
    /\ NewValue
    /\ mem' = [mem EXCEPT ![Owner].meta[field] = changes']
    /\ UNCHANGED <<persist, pc, disk, crashes, saved, attempt, trouble>>

-----------------------------------------------------------------------------
(* load_from_path: the snapshot, then the lines of the journal up to the   *)
(* first that does not parse.                                              *)

Replayed(r, e) == [vec |-> [v \in Vectors |-> r.vec[v] \o e.vec[v]], meta |-> e.meta]

Loaded ==
    [vec |-> [v \in Vectors |-> snapshot.vec[v] \o journal.replay.vec[v]],
     meta |-> IF journal.replay.meta = None THEN snapshot.meta ELSE journal.replay.meta]

(* The server restarts and restores the session. Without a snapshot the    *)
(* load fails.                                                             *)
load ==
    /\ pc[Owner] = "stopped" /\ snapshot # None
    /\ Goto(Owner, "idle", Loaded, reset_persist_state(Loaded, TRUE))
    /\ saved' = Loaded /\ attempt' = Loaded
    /\ trouble' = IF \E c \in Clients : Busy(c) THEN "raced"
                  ELSE IF journal.bad THEN "spoiled" ELSE "none"
    /\ UNCHANGED <<disk, bounds>>

-----------------------------------------------------------------------------
(* save.  First it decides between a snapshot and a line of the journal.   *)

metadata_requires_snapshot(s, ps) == s.meta.hard # ps.hard

NeedsSnapshot(s, ps) ==
    \/ metadata_requires_snapshot(s, ps)
    \/ ~ps.exists
    \/ \E v \in Vectors : ps.full[v] \/ Len(s.vec[v]) < ps.len[v]

Begin(w, s, ps) ==
    /\ Goto(w, IF NeedsSnapshot(s, ps) THEN "write" ELSE "append", s, ps)
    /\ attempt' = s
    /\ trouble' = IF \E q \in Writers \ {w} : Busy(q) THEN "raced" ELSE trouble
    /\ UNCHANGED <<disk, crashes, saved>>

save ==
    /\ pc[Owner] = "idle"
    /\ Begin(Owner, mem[Owner], persist[Owner])
    /\ UNCHANGED changes

(* persist_remote_session_metadata of a client: load, update, save. *)
persist_remote_session_metadata(c, field) ==
    LET s == [Loaded EXCEPT !.meta[field] = changes']
        ps == reset_persist_state(Loaded, TRUE)
    IN  /\ pc[c] = "stopped" /\ snapshot # None
        /\ NewValue
        /\ Begin(c, s, ps)

(* The call is over.  A client then drops its copy. *)
Return(w, ps) == IF w = Owner THEN Goto(w, "idle", mem[w], ps) ELSE Stop(w)

(* The line a save appends: the metadata and what the vectors gained. *)
SessionJournalEntry(w) ==
    [vec |-> [v \in Vectors |->
                SubSeq(mem[w].vec[v], persist[w].len[v] + 1, Len(mem[w].vec[v]))],
     meta |-> mem[w].meta]

(* The text of an entry goes to the end of the file, complete, or complete *)
(* but for its newline, or only in part.  What is appended to a line       *)
(* without a newline makes a line that does not parse.  Beyond the limit    *)
(* the size no longer matters.                                             *)
AppendLine(j, e, how) ==
    LET spoils == j.tail # "closed"
        kept == IF spoils THEN j.before ELSE j.replay
        counts == ~spoils /\ ~j.bad /\ how # "torn"
    IN  [size |-> IF j.size > JournalLimit THEN j.size ELSE j.size + 1,
         replay |-> IF counts THEN Replayed(kept, e) ELSE kept,
         before |-> kept,
         tail |-> IF how = "closed" THEN "closed" ELSE IF counts THEN "open" ELSE "torn",
         bad |-> j.bad \/ (spoils /\ (how = "closed" \/ j.tail = "open"))]

append_json_line_fast(w) ==
    LET ps == reset_persist_state(mem[w], TRUE)
    IN  /\ pc[w] = "append"
        /\ journal' = AppendLine(journal, SessionJournalEntry(w), "closed")
        /\ saved' = mem[w]
        /\ IF journal'.size > JournalLimit THEN Goto(w, "write", mem[w], ps)
                                             ELSE Return(w, ps)
        /\ trouble' = IF journal.tail = "closed" THEN trouble ELSE Worse("spoiled")
        /\ UNCHANGED <<snapshot, bounds, attempt>>

(* Mutant: save takes a failed append for a successful one. *)
AppendFailsUnseen(w) ==
    /\ DiskFails
    /\ pc[w] = "append"
    /\ UNCHANGED journal
    /\ saved' = mem[w]
    /\ Return(w, reset_persist_state(mem[w], TRUE))
    /\ trouble' = Worse("cut")
    /\ UNCHANGED <<snapshot, bounds, attempt>>

(* The append fails, perhaps after a part of it was written, and save      *)
(* falls back to a snapshot.                                               *)
AppendFails(w) ==
    /\ DiskFails
    /\ pc[w] = "append"
    /\ \/ UNCHANGED journal
       \/ \E how \in {"open", "torn"} :
            journal' = AppendLine(journal, SessionJournalEntry(w), how)
    /\ Goto(w, "write", mem[w], persist[w])
    /\ trouble' = Worse(IF journal.tail = "closed" THEN "cut" ELSE "spoiled")
    /\ UNCHANGED <<snapshot, bounds, saved, attempt>>

(* checkpoint_snapshot, one file operation at a time.  With the temporary  *)
(* file written, the snapshot, if there is one, becomes the backup (that   *)
(* it may not is ignored) ...                                              *)
RenameToBackup(w) ==
    /\ pc[w] = "write"
    /\ \/ snapshot' = None
       \/ DiskFails /\ UNCHANGED snapshot
    /\ Goto(w, "moved", mem[w], persist[w])
    /\ UNCHANGED <<journal, bounds, saved, attempt, trouble>>

(* ... the temporary file the snapshot... *)
RenameIntoPlace(w) ==
    /\ pc[w] = "moved"
    /\ snapshot' = mem[w]
    /\ Goto(w, "placed", mem[w], persist[w])
    /\ UNCHANGED <<journal, bounds, saved, attempt, trouble>>

(* ... and the journal goes.  That it may not go is ignored, and the next   *)
(* load applies its lines to a snapshot that has them.                     *)
RemoveJournal(w) ==
    /\ pc[w] = "placed"
    /\ \/ /\ journal' = NoJournal
          /\ trouble' = IF w = Owner /\ trouble # "raced" THEN "none" ELSE trouble
       \/ /\ DiskFails
          /\ UNCHANGED journal
          /\ trouble' = Worse("cut")
    /\ saved' = mem[w]
    /\ Return(w, reset_persist_state(mem[w], TRUE))
    /\ UNCHANGED <<snapshot, bounds, attempt>>

(* The temporary file or the rename into place fails: save returns the     *)
(* error.                                                                  *)
CheckpointFails(w) ==
    /\ DiskFails
    /\ pc[w] \in {"write", "moved"}
    /\ Return(w, persist[w])
    /\ trouble' = Worse("cut")
    /\ UNCHANGED <<disk, bounds, saved, attempt>>

(* The process is killed.  An append can be cut off anywhere. *)
Crash(w) ==
    /\ crashes < MaxCrashes /\ crashes' = crashes + 1
    /\ pc[w] # "stopped"
    /\ \/ UNCHANGED journal
       \/ /\ pc[w] = "append"
          /\ \E how \in {"closed", "open", "torn"} :
               journal' = AppendLine(journal, SessionJournalEntry(w), how)
    /\ Stop(w)
    /\ trouble' = IF ~Busy(w) THEN trouble
                  ELSE Worse(IF pc[w] = "append" /\ journal.tail # "closed"
                             THEN "spoiled" ELSE "cut")
    /\ UNCHANGED <<snapshot, changes, saved, attempt>>

-----------------------------------------------------------------------------

Mutate ==
    \/ append_stored_message
    \/ insert_message
    \/ \E len \in 0..MaxChanges : truncate_messages(len)
    \/ record_env_snapshot
    \/ \E field \in {"hard", "soft"} : SetMeta(field)

Edit == \E c \in Clients, field \in {"hard", "soft"} :
            persist_remote_session_metadata(c, field)

FileStep(w) ==
    \/ append_json_line_fast(w) \/ AppendFails(w)
    \/ RenameToBackup(w) \/ RenameIntoPlace(w) \/ RemoveJournal(w)
    \/ CheckpointFails(w)

Next ==
    \/ Mutate \/ save \/ load \/ Edit
    \/ \E w \in Writers : FileStep(w) \/ Crash(w)

Spec == Init /\ [][Next]_vars

-----------------------------------------------------------------------------

(* Types of the copies, the files and the histories. *)
TypeOK ==
    /\ mem \in [Writers -> Session]
    /\ persist \in [Writers -> SessionPersistState]
    /\ pc \in [Writers -> {"idle", "append", "write", "moved", "placed", "stopped"}]
    /\ snapshot \in Session \cup {None} /\ journal \in Journal
    /\ changes \in Nat /\ crashes \in Nat
    /\ saved \in Session \cup {None} /\ attempt \in Session \cup {None}
    /\ trouble \in DOMAIN Troubles

Quiet == \A w \in Writers : ~Busy(w)

(* When no save is under way and none was cut off or failed, and no two    *)
(* overlapped, the files read back as exactly the session that was saved   *)
(* last: the lengths in persist_state, the modes and the metadata test     *)
(* never leave a change out and never write one twice.                     *)
QuietDiskIsSaved ==
    (trouble = "none" /\ saved # None /\ Quiet) => snapshot # None /\ Loaded = saved

Items(s) == {s[i] : i \in DOMAIN s}

(* A restart that can read the files finds every item of the session that  *)
(* was saved last, or every item of the save that was cut off after it,    *)
(* unless saves overlapped or a line was appended to an unfinished one.    *)
LoadKeepsSaved ==
    [][(load /\ saved # None /\ trouble \in {"none", "cut"}) =>
         \E s \in {saved, attempt} : \A v \in Vectors :
            Items(s.vec[v]) \subseteq Items(mem'[Owner].vec[v])]_vars
=============================================================================
