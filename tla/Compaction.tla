----------------------------- MODULE Compaction -----------------------------
(***************************************************************************)
(* The compacted view of a long conversation: src/src/compaction.rs (the   *)
(* manager), crates/jcode-compaction-core (the cut), and the calls that    *)
(* src/src/agent.rs, agent/compaction.rs, agent/turn_execution.rs and      *)
(* handle_compact of server/client_actions.rs make.                        *)
(*                                                                         *)
(* The session keeps every message.  A request carries the summary of the  *)
(* first compacted_count of them and the others as they are.  A compaction *)
(* summarises in the background what it was given and is applied, by its   *)
(* number of messages, at a later request; a hard compaction drops messages*)
(* at once and says how many.  Meanwhile the conversation is extended,     *)
(* rewound and replaced, and the model switched, without the manager being *)
(* told.  A summary is a text, or encrypted content that OpenAI wrote and  *)
(* only OpenAI reads.                                                      *)
(*                                                                         *)
(* A message is a text, a call of a tool or the result of one (AgentTurn   *)
(* says how they come about); a summary is the set of the messages it      *)
(* speaks of.  How full the context is - the thresholds, token estimates   *)
(* and embeddings of should_compact_with and semantic_cutoff - is a choice.*)
(* A turn adds a message before it sends a request, so that                *)
(* suppress_compaction_until_new_message is never set at one.  The manager *)
(* is reached through the registry of the agent only (a clone of it has a  *)
(* manager of its own), under the lock of the agent: its try_write never   *)
(* fails.  Content that is accepted stays small enough to be sent, so that *)
(* discard_oversized_openai_native_compaction finds none to discard.       *)
(***************************************************************************)
EXTENDS Integers, Sequences

CONSTANTS None,
          RecentTurns,   \* RECENT_TURNS_TO_KEEP
          MinTurns,      \* MIN_TURNS_TO_KEEP
          MaxIds,        \* bound on the messages
          MaxEvents,     \* bound on the rewinds, the resumed and cleared sessions, the switches
                         \* of the model, the /compact commands and the requests that did not fit
          NativeMode,    \* openai_native_compaction_mode
          MayBeOversized \* whether OpenAI may return more content than can be sent back

ASSUME TurnsAssumption == MinTurns \in Nat \ {0} /\ RecentTurns \in Nat /\ RecentTurns >= MinTurns
ASSUME BoundsAssumption == MaxIds \in Nat /\ MaxEvents \in Nat
ASSUME ModeAssumption == NativeMode \in {"auto", "explicit", "off"} /\ MayBeOversized \in BOOLEAN

Message == [id : Nat, kind : {"text", "call", "result"}, of : Nat]

Text(n) == [id |-> n, kind |-> "text", of |-> 0]
Call(n) == [id |-> n, kind |-> "call", of |-> 0]
Result(n, c) == [id |-> n, kind |-> "result", of |-> c]

Ids(ms) == {ms[i].id : i \in DOMAIN ms}

Summary == [kind : {"text", "native"}, covers : SUBSET Nat]

(* What persisted_state exports: compacted_count and the active summary. *)
View == [count : Nat, kind : {"text", "native"}, covers : SUBSET Nat]

(* pending_task with pending_cutoff: the summary and the messages it was    *)
(* given, the provider it asks, and as history the count and the messages  *)
(* up to its cutoff when it was started.                                   *)
Pending == [cutoff : Nat, old : Summary \cup {None}, new : SUBSET Nat,
            asks : {"openai", "other", "bedrock"},
            state : {"running", "text", "native", "failed"},
            count : Nat, prefix : Seq(Message)]

ASSUME NoneAssumption == None \notin View \cup Summary \cup Pending \cup Seq(Message)

VARIABLES
    messages,    \* session.messages
    pc,          \* the turn: "idle", "ready" for a request, "started" and "fits" while
                 \* it prepares one, "sent" when the provider has it, "raw" when the
                 \* manager was not asked and it carries all messages
    provider,    \* the active provider: "openai", "bedrock", which does without jcode's
                 \* compaction in the MultiProvider, or an "other", which has it
    count,       \* compacted_count
    summary,     \* active_summary: the messages it speaks of, or None
    pending,     \* pending_task, or None
    event,       \* whether last_compaction is set
    stored,      \* session.compaction
    manual,      \* whether a compaction that /compact started is being written
    undo,        \* rewind_undo_snapshot
    ids, events,
    sound,       \* history: every compaction was applied to the messages it summarised,
                 \* and those were neither rewound nor repaired
    lost         \* history: what encrypted content spoke of that was dropped

vars == <<messages, pc, provider, count, summary, pending, event, stored, manual, undo,
          ids, events, sound, lost>>

manager == <<count, summary, pending, event>>
history == <<sound, lost>>

Init ==
    /\ messages = <<>> /\ pc = "idle"
    /\ provider \in {"openai", "other", "bedrock"}
    /\ count = 0 /\ summary = None /\ pending = None /\ event = FALSE
    /\ stored = None /\ manual = FALSE /\ undo = None
    /\ ids = 0 /\ events = 0
    /\ sound = TRUE /\ lost = {}
-----------------------------------------------------------------------------
(* In its auto mode OpenAI compacts by itself, in the stream. *)
uses_jcode_compaction == \/ provider = "other"
                         \/ provider = "openai" /\ NativeMode # "auto"

(* active_messages: what is not compacted, or everything when there are     *)
(* fewer messages than were compacted.                                     *)
ActiveStart(n, ms) == IF n <= Len(ms) THEN n ELSE 0

Active(n, ms) == SubSeq(ms, ActiveStart(n, ms) + 1, Len(ms))

(* The results behind cutoff c whose call is not behind it. *)
Unmatched(ms, c) ==
    {ms[i].of : i \in {j \in c + 1..Len(ms) : ms[j].kind = "result"}}
      \ {ms[i].id : i \in {j \in c + 1..Len(ms) : ms[j].kind = "call"}}

(* Mutant: the cutoff is taken as it is wanted. *)
CutoffAsWanted(ms, initial) == initial

(* The walk backward from the cutoff stops where nothing is unmatched. *)
safe_compaction_cutoff(ms, initial) ==
    LET safe == {c \in 0..initial : Unmatched(ms, c) = {}}
    IN IF safe = {} THEN 0 ELSE CHOOSE c \in safe : \A d \in safe : d <= c

Covered(s) == IF s = None THEN {} ELSE s.covers
Texts(s) == IF s # None /\ s.kind = "text" THEN s.covers ELSE {}
Encrypted(s) == IF s # None /\ s.kind = "native" THEN s.covers ELSE {}

(* The compaction of what is behind the wanted cutoff, moved so that no call *)
(* is parted from its result; none when that leaves nothing.               *)
Starts(n, s, ms, wanted) ==
    LET active == Active(n, ms)
        cutoff == safe_compaction_cutoff(active, wanted)
    IN IF cutoff = 0 THEN {}
       ELSE {[cutoff |-> cutoff, old |-> s, new |-> Ids(SubSeq(active, 1, cutoff)),
              asks |-> provider, state |-> "running", count |-> n,
              prefix |-> SubSeq(ms, 1, ActiveStart(n, ms) + cutoff)]}

(* What generate_compaction_artifact returns: the native_compact of OpenAI   *)
(* is given the old summary, text or encrypted; the prompt for a summary   *)
(* in words has room for its text only.                                    *)
Artifact(p) == IF p.state = "native"
               THEN [kind |-> "native", covers |-> Covered(p.old) \cup p.new]
               ELSE [kind |-> "text", covers |-> Texts(p.old) \cup p.new]

(* The cutoff that keeps RecentTurns messages; semantic_cutoff may be less. *)
Standard(n, ms) == Len(Active(n, ms)) - RecentTurns

persisted_state == IF summary = None THEN None
                   ELSE [count |-> count, kind |-> summary.kind, covers |-> summary.covers]

(* RecentTurns messages are kept, or half as many until they fit, down to   *)
(* MinTurns.  The text of the old summary is kept; encrypted content is    *)
(* not.                                                                    *)
hard_compact_with ==
    LET active == Active(count, messages)
    IN \E keep \in MinTurns..RecentTurns :
         LET cutoff == safe_compaction_cutoff(active, Len(active) - keep)
         IN /\ keep < Len(active)
            /\ cutoff > 0
            /\ count' = count + cutoff
            /\ summary' = [kind |-> "text",
                           covers |-> Texts(summary) \cup Ids(SubSeq(active, 1, cutoff))]
            /\ lost' = lost \cup Encrypted(summary)
            /\ event' = TRUE

(* repair_missing_tool_outputs: the call without a result.  Every request   *)
(* comes after a repair, so there is at most one.                          *)
Dangling(ms) == {i \in DOMAIN ms : /\ ms[i].kind = "call"
                                   /\ \A j \in DOMAIN ms : ms[j].of # ms[i].id}

Repaired(ms, i, n) == SubSeq(ms, 1, i) \o <<Result(n, ms[i].id)>> \o SubSeq(ms, i + 1, Len(ms))

(* The messages a compaction is applied to are those it was given, and no   *)
(* call among them was still to be answered.                               *)
Clean(p, n, ms) ==
    /\ p.count = n
    /\ n + p.cutoff <= Len(ms)
    /\ p.prefix = SubSeq(ms, 1, n + p.cutoff)
    /\ Dangling(p.prefix) = {}

(* The pending compaction is counted from where the manager is now. *)
check_and_apply_compaction ==
    /\ pending # None
    /\ pending.state \in {"text", "native"}
    /\ count' = count + pending.cutoff
    /\ summary' = Artifact(pending)
    /\ pending' = None
    /\ sound' = (sound /\ Clean(pending, count, messages))
    /\ lost' = IF pending.state = "native" THEN lost ELSE lost \cup Encrypted(pending.old)
-----------------------------------------------------------------------------
NextId == ids < MaxIds /\ ids' = ids + 1
NextEvent == events < MaxEvents /\ events' = events + 1

(* A message of the user, and the results of tools, make a request due. *)
StartTurn ==
    /\ pc = "idle"
    /\ NextId
    /\ messages' = Append(messages, Text(ids'))
    /\ pc' = "ready"
    /\ UNCHANGED <<provider, manager, stored, manual, undo, events, history>>

RepairCalls ==
    /\ pc = "ready"
    /\ \E i \in Dangling(messages) : /\ messages' = Repaired(messages, i, ids + 1)
                                     /\ sound' = (sound /\ count < i)
    /\ NextId
    /\ UNCHANGED <<pc, provider, manager, stored, manual, undo, events, lost>>

(* With jcode's compaction messages_for_provider begins with                *)
(* ensure_context_fits: a background compaction may start                  *)
(* (maybe_start_compaction_with) ...                                       *)
StartCompaction ==
    /\ pc = "ready"
    /\ Dangling(messages) = {}
    /\ uses_jcode_compaction
    /\ \/ pending' = pending
       \/ /\ pending = None
          /\ \E wanted \in 1..Standard(count, messages) :
                pending' \in Starts(count, summary, messages, wanted)
    /\ pc' = "started"
    /\ UNCHANGED <<messages, provider, count, summary, event, stored, manual, undo, ids, events,
                   history>>

(* ... and a hard compaction follow, whether or not one is pending. *)
HardCompact ==
    /\ pc = "started"
    /\ \/ UNCHANGED <<count, summary, event, lost>>
       \/ hard_compact_with
    /\ pc' = "fits"
    /\ UNCHANGED <<messages, provider, pending, stored, manual, undo, ids, events, sound>>

(* Without it the manager is asked only when the session has a view. *)
Consulted == \/ pc = "fits"
             \/ /\ pc = "ready" /\ Dangling(messages) = {}
                /\ ~uses_jcode_compaction /\ stored # None

(* Mutant: the session does not take over the view of an applied compaction. *)
SendUnsynced ==
    /\ Consulted
    /\ \/ check_and_apply_compaction
       \/ /\ pending # None => pending.state \notin {"text", "native"}
          /\ UNCHANGED <<count, summary, pending, history>>
    /\ stored' = IF event THEN persisted_state ELSE stored
    /\ event' = (event /\ ~uses_jcode_compaction)
    /\ pc' = "sent"
    /\ UNCHANGED <<messages, provider, manual, undo, ids, events>>

(* messages_for_api_with applies a compaction that has ended.  Its event    *)
(* makes the session take over the view of the manager and save it; with a *)
(* provider that does without jcode's compaction it stays, and the session *)
(* as it is.                                                               *)
SendCompacted ==
    /\ Consulted
    /\ \E applied \in BOOLEAN :
         /\ \/ applied /\ check_and_apply_compaction
            \/ /\ ~applied
               /\ pending # None => pending.state \notin {"text", "native"}
               /\ pending' = IF pending # None /\ pending.state = "failed" THEN None ELSE pending
               /\ UNCHANGED <<count, summary, history>>
         /\ event' = ((applied \/ event) /\ ~uses_jcode_compaction)
         /\ stored' = IF (applied \/ event) /\ uses_jcode_compaction
                      THEN persisted_state' ELSE stored
    /\ pc' = "sent"
    /\ UNCHANGED <<messages, provider, manual, undo, ids, events>>

SendAll ==
    /\ pc = "ready"
    /\ Dangling(messages) = {}
    /\ ~uses_jcode_compaction /\ stored = None
    /\ pc' = "raw"
    /\ UNCHANGED <<messages, provider, manager, stored, manual, undo, ids, events, history>>

Sent == pc \in {"sent", "raw"}

(* The response is a text; or it calls a tool, whose result makes the next  *)
(* request due, unless the turn ends before there is one.                  *)
Response ==
    \/ NextId /\ messages' = Append(messages, Text(ids')) /\ pc' = "idle"
    \/ NextId /\ messages' = Append(messages, Call(ids')) /\ pc' = "idle"
    \/ /\ ids + 2 <= MaxIds /\ ids' = ids + 2
       /\ messages' = messages \o <<Call(ids + 1), Result(ids + 2, ids + 1)>>
       /\ pc' = "ready"
    \/ UNCHANGED <<messages, ids>> /\ pc' = "idle"

Respond ==
    /\ Sent
    /\ Response
    /\ UNCHANGED <<provider, manager, stored, manual, undo, events, history>>

(* apply_openai_native_compaction: OpenAI compacted what it was sent, or    *)
(* what it returns is too large and a text without content takes its       *)
(* place.  The manager forgets a compaction that is pending.               *)
RespondCompacted ==
    /\ Sent
    /\ provider = "openai" /\ NativeMode = "auto"
    /\ Response
    /\ LET sent == IF pc = "raw" THEN Ids(messages)
                   ELSE Covered(summary) \cup Ids(Active(count, messages))
       IN \/ /\ summary' = [kind |-> "native", covers |-> sent]
             /\ lost' = lost
          \/ /\ MayBeOversized
             /\ summary' = [kind |-> "text", covers |-> {}]
             /\ lost' = lost \cup sent
    /\ count' = Len(messages)
    /\ stored' = persisted_state'
    /\ pending' = None
    /\ event' = FALSE
    /\ sound' = (pc = "raw" \/ sound)
    /\ UNCHANGED <<provider, manual, undo, events>>

(* try_auto_compact_after_context_limit: the request is sent again with     *)
(* less; when nothing can be dropped the turn fails.                       *)
ContextLimit ==
    /\ Sent
    /\ NextEvent
    /\ \/ hard_compact_with /\ stored' = persisted_state' /\ pc' = "ready"
       \/ UNCHANGED <<count, summary, event, stored, lost>> /\ pc' = "idle"
    /\ UNCHANGED <<messages, provider, pending, manual, undo, ids, sound>>
-----------------------------------------------------------------------------
(* The summary of a pending compaction is written, by the provider it asked *)
(* or, when that does not, in words; or that fails.                        *)
PendingEnds ==
    /\ pending # None /\ pending.state = "running"
    /\ \E end \in {"text", "native", "failed"} :
         /\ end = "native" => pending.asks = "openai" /\ NativeMode = "explicit"
         /\ pending' = [pending EXCEPT !.state = end]
    /\ UNCHANGED <<messages, pc, provider, count, summary, event, stored, manual, undo, ids, events,
                   history>>

(* handle_compact asks Agent::registry for the manager.  That clones the    *)
(* registry, and Registry::clone makes a new manager, in which nothing is  *)
(* compacted or pending: force_compact_with starts a compaction there.     *)
ForceCompact ==
    /\ pc = "idle"
    /\ NextEvent
    /\ Standard(0, messages) > 0
    /\ Starts(0, None, messages, Standard(0, messages)) # {}
    /\ manual' = TRUE
    /\ UNCHANGED <<messages, pc, provider, manager, stored, undo, ids, history>>

(* Its summary is ready, and goes with its manager. *)
ManualEnds ==
    /\ manual
    /\ manual' = FALSE
    /\ UNCHANGED <<messages, pc, provider, manager, stored, undo, ids, events, history>>

(* set_model, or the fallback of a request whose provider is not configured. *)
SwitchProvider ==
    /\ pc = "idle" \/ Sent
    /\ NextEvent
    /\ provider' \in {"openai", "other", "bedrock"} \ {provider}
    /\ UNCHANGED <<messages, pc, manager, stored, manual, undo, ids, history>>

(* rewind_to_message and undo_rewind leave the manager and the stored view  *)
(* as they are.                                                            *)
rewind_to_message ==
    /\ pc = "idle"
    /\ NextEvent
    /\ \E n \in 1..Len(messages) : /\ messages' = SubSeq(messages, 1, n)
                                  /\ sound' = (sound /\ count <= n)
    /\ undo' = messages
    /\ UNCHANGED <<pc, provider, manager, stored, manual, ids, lost>>

undo_rewind ==
    /\ pc = "idle"
    /\ undo # None
    /\ messages' = undo
    /\ sound' = (/\ sound
                 /\ count <= Len(undo)
                 /\ SubSeq(undo, 1, count) = SubSeq(messages, 1, count))
    /\ undo' = None
    /\ UNCHANGED <<pc, provider, manager, stored, manual, ids, events, lost>>

(* seed_compaction_from_session: a new manager takes the stored view. *)
seed_compaction(ms, view) ==
    /\ count' = IF view = None THEN 0
                ELSE IF view.count <= Len(ms) THEN view.count ELSE Len(ms)
    /\ summary' = IF view = None THEN None ELSE [kind |-> view.kind, covers |-> view.covers]
    /\ pending' = None
    /\ event' = FALSE

(* The server restarts, or the session is resumed elsewhere. *)
restore_session ==
    /\ NextEvent
    /\ seed_compaction(messages, stored)
    /\ pc' = "idle"
    /\ manual' = FALSE
    /\ undo' = None
    /\ UNCHANGED <<messages, provider, stored, ids, history>>

(* /clear: a new session in the same agent. *)
clear ==
    /\ pc = "idle"
    /\ NextEvent
    /\ messages' = <<>>
    /\ stored' = None
    /\ seed_compaction(<<>>, None)
    /\ undo' = None
    /\ sound' = TRUE /\ lost' = {}
    /\ UNCHANGED <<pc, provider, manual, ids>>
-----------------------------------------------------------------------------
Next == \/ StartTurn \/ RepairCalls
        \/ StartCompaction \/ HardCompact \/ SendCompacted \/ SendAll
        \/ Respond \/ RespondCompacted \/ ContextLimit
        \/ PendingEnds \/ ForceCompact \/ ManualEnds \/ SwitchProvider
        \/ rewind_to_message \/ undo_rewind \/ restore_session \/ clear

Spec == Init /\ [][Next]_vars
-----------------------------------------------------------------------------
TypeOK ==
    /\ messages \in Seq(Message)
    /\ pc \in {"idle", "ready", "started", "fits", "sent", "raw"}
    /\ provider \in {"openai", "other", "bedrock"}
    /\ count \in Nat
    /\ summary \in Summary \cup {None}
    /\ pending \in Pending \cup {None}
    /\ event \in BOOLEAN
    /\ stored \in View \cup {None}
    /\ manual \in BOOLEAN
    /\ undo \in Seq(Message) \cup {None}
    /\ ids \in Nat /\ events \in Nat
    /\ sound \in BOOLEAN /\ lost \in SUBSET Nat

(* While every compaction meets the messages it summarised, a request shows *)
(* the model every message of the conversation, as it is or in the summary,*)
(* but those that only encrypted content spoke of that was dropped; and it *)
(* shows no result without its call (messages_for_api_with, compaction.rs  *)
(* 1012-1047, with the cutoffs of 699-765 and 1198-1243).  Encrypted       *)
(* content is read by OpenAI only, whatever the active provider.           *)
RequestIsComplete ==
    pc = "sent" /\ sound =>
      /\ Ids(messages) \subseteq Covered(summary) \cup Ids(Active(count, messages)) \cup lost
      /\ Unmatched(Active(count, messages), 0) = {}

(* A session that is resumed goes on with the view its last request had,    *)
(* unless an event still waits for a provider with jcode's compaction: an  *)
(* applied compaction reaches the session file before the model answers    *)
(* (agent.rs 362-376, 464-471).  And with whatever view it goes on, the    *)
(* next request misses no message for it.                                  *)
RestartKeepsView ==
    pc = "sent" /\ sound =>
      /\ ~event => stored = persisted_state
      /\ stored # None =>
           Ids(messages) \subseteq stored.covers \cup Ids(Active(stored.count, messages)) \cup lost
=============================================================================
