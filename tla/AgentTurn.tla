----------------------------- MODULE AgentTurn -----------------------------
(***************************************************************************)
(* The conversation of one agent and the turns that extend it:             *)
(* src/src/agent/turn_streaming_mpsc.rs (the loop), turn_execution.rs (its *)
(* entry, rewind, clear, restore), response_recovery.rs and interrupts.rs, *)
(* repair_missing_tool_outputs of agent.rs, the cancellation of            *)
(* server/client_lifecycle.rs and /subagent of server/client_actions.rs.   *)
(*                                                                         *)
(* A turn holds the lock of the agent from its first message to its end.   *)
(* It sends the conversation to the provider, adds the answer, runs the    *)
(* tools the answer calls, adds their results and goes round again.  While *)
(* it waits - for the provider or for a tool - the user may cancel it, the *)
(* server may stop it for a reload, and soft interrupts may be queued.     *)
(* Providers refuse a conversation in which a tool call is not followed at *)
(* at once by its result.  Neither the opening of the stream, nor the       *)
(* stream, nor a tool that runs inside it, nor any other tool has a        *)
(* timeout, and of those only the last looks at the signal to stop.        *)
(*                                                                         *)
(* A message is the set of calls it makes or the call it answers; its text *)
(* and images are left out.  Calls are numbered in the order the provider  *)
(* makes them and run in that order.  A failed save leaves the files as    *)
(* they were; what a save does to them is the matter of SessionJournal.    *)
(***************************************************************************)
EXTENDS Integers, Sequences, FiniteSets

CONSTANTS None,
          MaxUses,               \* bound on the calls of one response
          MaxContinuations,      \* MAX_INCOMPLETE_CONTINUATION_ATTEMPTS
          InternalTools,         \* Provider::handles_tools_internally
          MaxMessages, MaxCalls, MaxInterrupts,  \* bounds on what the user and the model send
          MaxEvents              \* bound on the rest: subagents, rewinds, clears, crashes,
                                 \* failed saves and overlong contexts

ASSUME BoundsAssumption == {MaxUses, MaxContinuations, MaxMessages, MaxCalls,
                            MaxInterrupts, MaxEvents} \subseteq Nat
ASSUME SwitchAssumption == InternalTools \in BOOLEAN

CallIds == 1..MaxCalls

Message == [role : {"user", "assistant"}, uses : SUBSET CallIds, result : CallIds \cup {0}]

Text == [role |-> "user", uses |-> {}, result |-> 0]
Result(c) == [role |-> "user", uses |-> {}, result |-> c]
Assistant(calls) == [role |-> "assistant", uses |-> calls, result |-> 0]

(* One result for each of the calls, a message each, in their order. *)
Nth(calls, i) == CHOOSE c \in calls : Cardinality({d \in calls : d <= c}) = i

Results(calls) == [i \in 1..Cardinality(calls) |-> Result(Nth(calls, i))]

ASSUME NoneAssumption == None \notin Seq(Message)

VARIABLES
    messages, disk,   \* session.messages, and what the last successful save wrote
    lapse,            \* whether the last save failed
    scan, results,    \* tool_output_scan_index and tool_result_ids
    undo,             \* rewind_undo_snapshot
    queue,            \* soft_interrupt_queue: whether each is urgent
    signal,           \* graceful_shutdown
    turn,             \* the turn that holds the lock: its position and its locals
    subagents,        \* the calls of /subagent that still run
    manual,           \* history: every call that /subagent made
    sent,             \* how many messages, calls and interrupts came
    events            \* how many of the other events

turn_vars == <<messages, disk, lapse, scan, results, undo, queue, signal, turn,
               subagents, manual, sent, events>>

saving == <<messages, disk, lapse, events>>
tracking == <<scan, results>>
around == <<undo, signal, subagents, manual>>

Requesting == {"request", "streaming", "native"}

Turn == [pc : {"idle", "call", "request", "streaming", "native", "refused", "added", "decide",
               "tools", "exec", "done"},
         todo : SUBSET CallIds, first : BOOLEAN, cut : BOOLEAN, dirty : BOOLEAN,
         attempts : 0..MaxContinuations]

Idle == [pc |-> "idle", todo |-> {}, first |-> TRUE, cut |-> FALSE, dirty |-> FALSE,
         attempts |-> 0]

At(p) == turn.pc = p

Reach(p) == [turn EXCEPT !.pc = p]

(* Back to the top of the loop: only the count of continuations stays. *)
Again == [Idle EXCEPT !.pc = "call", !.attempts = turn.attempts]

TurnInit ==
    /\ messages = <<>> /\ disk = <<>> /\ lapse = FALSE
    /\ scan = 0 /\ results = {}
    /\ undo = None
    /\ queue = <<>>
    /\ signal = FALSE
    /\ turn = Idle
    /\ subagents = {} /\ manual = {}
    /\ sent = [messages |-> 0, calls |-> 0, interrupts |-> 0]
    /\ events = 0
-----------------------------------------------------------------------------
(* The conversation becomes ms and is saved; a save that fails with "?"     *)
(* ends the turn, persist_session_best_effort only notes it.               *)
Saved(ms, ok, count) ==
    /\ count + (IF ok THEN 0 ELSE 1) <= MaxEvents - events
    /\ events' = events + count + (IF ok THEN 0 ELSE 1)
    /\ messages' = ms
    /\ disk' = IF ok THEN ms ELSE disk
    /\ lapse' = ~ok

SaveOrEnd(ms, next) ==
    \E ok \in BOOLEAN : Saved(ms, ok, 0) /\ turn' = IF ok THEN next ELSE Idle

SaveBestEffort(ms, next) ==
    \E ok \in BOOLEAN : Saved(ms, ok, 0) /\ turn' = next

Add(ms) == messages' = messages \o ms /\ UNCHANGED <<disk, lapse, events>>

(* The same for an event that counts itself and does not touch the turn. *)
SaveEvent(ms) == \E ok \in BOOLEAN : Saved(ms, ok, 1)

Event == events < MaxEvents /\ events' = events + 1

(* inject_soft_interrupts: the queued texts of one source become one        *)
(* message; one source is modelled.                                        *)
inject_soft_interrupts(next, otherwise) ==
    IF queue = <<>>
    THEN UNCHANGED <<saving, queue>> /\ turn' = otherwise
    ELSE SaveBestEffort(Append(messages, Text), next) /\ queue' = <<>>

has_urgent_interrupt == \E i \in DOMAIN queue : queue[i]

(* The calls of a message, of those not yet scanned, that have no result. *)
scan_start == IF scan > Len(messages) THEN 0 ELSE scan

known_results ==
    (IF scan > Len(messages) THEN {} ELSE results)
      \cup ({messages[i].result : i \in scan_start + 1..Len(messages)} \ {0})

Missing(i) == IF i > scan_start THEN messages[i].uses \ known_results ELSE {}

reset_tool_output_tracking == scan' = 0 /\ results' = {}
-----------------------------------------------------------------------------
(* run_once_streaming_mpsc: a message of the user starts a turn. *)
StartTurn ==
    /\ At("idle")
    /\ sent.messages < MaxMessages
    /\ sent' = [sent EXCEPT !.messages = @ + 1]
    /\ SaveOrEnd(Append(messages, Text), [Idle EXCEPT !.pc = "call"])
    /\ UNCHANGED <<tracking, around, queue>>

(* repair_missing_tool_outputs, at the top of the loop, puts a result for   *)
(* each call that has none right behind the first message that misses some.*)
(* An iteration is a step: nothing else of the turn comes in between, and a *)
(* process that is killed there loses what is not saved yet.               *)
RepairMessage ==
    /\ At("call")
    /\ \E i \in 1..Len(messages) :
          /\ Missing(i) # {}
          /\ \A h \in 1..i - 1 : Missing(h) = {}
          /\ messages' = SubSeq(messages, 1, i) \o Results(Missing(i))
                           \o SubSeq(messages, i + 1, Len(messages))
    /\ turn' = [turn EXCEPT !.dirty = TRUE]
    /\ UNCHANGED <<disk, lapse, events, tracking, around, queue, sent>>

(* Then the repair, if there was one, is saved, and the request is sent. *)
CallProvider ==
    /\ At("call")
    /\ \A i \in 1..Len(messages) : Missing(i) = {}
    /\ IF turn.dirty
       THEN SaveBestEffort(messages, [turn EXCEPT !.pc = "request", !.dirty = FALSE])
       ELSE UNCHANGED saving /\ turn' = Reach("request")
    /\ results' = known_results
    /\ scan' = Len(messages)
    /\ UNCHANGED <<around, queue, sent>>

StreamOpens ==
    /\ At("request")
    /\ turn' = Reach("streaming")
    /\ UNCHANGED <<saving, tracking, around, queue, sent>>

(* The provider refused the request or the stream broke off. *)
ProviderFails ==
    /\ turn.pc \in {"request", "streaming"}
    /\ turn' = Idle
    /\ UNCHANGED <<saving, tracking, around, queue, sent>>

(* The provider refused the request because it is too long, and             *)
(* try_auto_compact_after_context_limit drops messages from the next one,  *)
TooLong ==
    /\ At("request")
    /\ Event
    /\ turn' = Reach("refused")
    /\ UNCHANGED <<messages, disk, lapse, tracking, around, queue, sent>>

(* ... but the loop that goes on is the one that waits for the opening: it  *)
(* polls the future that has returned, whose panic ends the turn.          *)
PolledAgain ==
    /\ At("refused")
    /\ turn' = Idle
    /\ UNCHANGED <<saving, tracking, around, queue, sent>>

(* The stream reports it, and the turn does go round again. *)
ContextLimit ==
    /\ At("streaming")
    /\ Event
    /\ turn' = Again
    /\ UNCHANGED <<messages, disk, lapse, tracking, around, queue, sent>>

(* A provider that runs tools itself asks for one of the agent's in the     *)
(* middle of its stream.  Its result goes to the provider, not into the    *)
(* conversation.                                                           *)
NativeToolCall ==
    /\ At("streaming") /\ InternalTools
    /\ turn' = Reach("native")
    /\ UNCHANGED <<saving, tracking, around, queue, sent>>

NativeToolEnds ==
    /\ At("native")
    /\ turn' = Reach("streaming")
    /\ UNCHANGED <<saving, tracking, around, queue, sent>>

(* The response is complete, or cut short by its stop reason or by the stop *)
(* signal, and becomes a message.  keep are the calls whose input arrived. *)
Respond ==
    /\ At("streaming")
    /\ \E n \in 0..MaxUses, cut, text \in BOOLEAN :
          LET calls == sent.calls + 1..sent.calls + n
          IN \E keep \in IF cut THEN SUBSET calls ELSE {calls} :
               LET next == [turn EXCEPT !.pc = "added", !.todo = keep, !.cut = cut]
               IN /\ sent.calls + n <= MaxCalls
                  /\ sent' = [sent EXCEPT !.calls = @ + n]
                  /\ IF n = 0 /\ ~text
                     THEN UNCHANGED saving /\ turn' = next
                     ELSE SaveOrEnd(Append(messages, Assistant(calls)), next)
    /\ UNCHANGED <<tracking, around, queue>>

(* filter_truncated_tool_calls: when no call is left, the message loses     *)
(* them all.  (The calls of a complete response are all kept.)             *)
filter_truncated_tool_calls ==
    /\ At("added")
    /\ IF turn.cut /\ turn.todo = {} /\ messages[Len(messages)].uses # {}
       THEN SaveBestEffort([messages EXCEPT ![Len(messages)] = Assistant({})], Reach("decide"))
       ELSE UNCHANGED saving /\ turn' = Reach("decide")
    /\ UNCHANGED <<tracking, around, queue, sent>>

(* No calls: a response cut short is continued, injection point B goes      *)
(* round again, and otherwise the turn is over.                            *)
NoToolCalls ==
    /\ At("decide")
    /\ turn.todo = {}
    /\ IF turn.cut /\ turn.attempts < MaxContinuations
       THEN /\ SaveOrEnd(Append(messages, Text),
                         [Again EXCEPT !.attempts = @ + 1])
            /\ UNCHANGED queue
       ELSE inject_soft_interrupts(Again, Idle)
    /\ UNCHANGED <<tracking, around, sent>>

(* The stop signal came while the response streamed. *)
SkipForShutdown ==
    /\ At("decide")
    /\ turn.todo # {}
    /\ signal
    /\ SaveOrEnd(messages \o Results(turn.todo), Idle)
    /\ UNCHANGED <<tracking, around, queue, sent>>

(* A provider that runs tools itself leaves only native ones to the agent. *)
StartTools ==
    /\ At("decide")
    /\ turn.todo # {}
    /\ ~signal
    /\ \E keep \in IF InternalTools THEN SUBSET turn.todo ELSE {turn.todo} :
          IF keep = {}
          THEN inject_soft_interrupts(Again, Idle)
          ELSE /\ turn' = [turn EXCEPT !.pc = "tools", !.todo = keep, !.cut = FALSE]
               /\ UNCHANGED <<saving, queue>>
    /\ UNCHANGED <<tracking, around, sent>>
-----------------------------------------------------------------------------
Current == CHOOSE c \in turn.todo : \A d \in turn.todo : c <= d

(* Mutant: the results are not marked for a save. *)
AfterToolClean(dirty) == [turn EXCEPT !.pc = "tools", !.todo = @ \ {Current}, !.first = FALSE]

AfterTool(dirty) == [turn EXCEPT !.pc = "tools", !.todo = @ \ {Current}, !.first = FALSE,
                                 !.dirty = @ \/ dirty]

Interrupted == ~turn.first /\ has_urgent_interrupt

(* Injection point C: the tools that are left are skipped, and a note says  *)
(* so.                                                                     *)
SkipForUrgent ==
    /\ At("tools")
    /\ turn.todo # {}
    /\ Interrupted
    /\ SaveBestEffort(messages \o Results(turn.todo) \o <<Text, Text>>,
                      [turn EXCEPT !.todo = {}])
    /\ queue' = <<>>
    /\ UNCHANGED <<tracking, around, sent>>

(* An input that does not parse, or a result the provider already sent. *)
AnswerAtOnce ==
    /\ At("tools")
    /\ turn.todo # {}
    /\ ~Interrupted
    /\ Add(<<Result(Current)>>)
    /\ turn' = AfterTool(TRUE)
    /\ UNCHANGED <<tracking, around, queue, sent>>

(* validate_tool_allowed: the error ends the turn. *)
RefuseTool ==
    /\ At("tools")
    /\ turn.todo # {}
    /\ ~Interrupted
    /\ turn' = Idle
    /\ UNCHANGED <<saving, tracking, around, queue, sent>>

StartTool ==
    /\ At("tools")
    /\ turn.todo # {}
    /\ ~Interrupted
    /\ turn' = Reach("exec")
    /\ UNCHANGED <<saving, tracking, around, queue, sent>>

(* The tool returned its output or an error. *)
ToolEnds ==
    /\ At("exec")
    /\ Add(<<Result(Current)>>)
    /\ turn' = AfterTool(TRUE)
    /\ UNCHANGED <<tracking, around, queue, sent>>

(* Alt+B: the tool goes on in the background. *)
ToolMoved ==
    /\ At("exec")
    /\ ~signal
    /\ SaveOrEnd(Append(messages, Result(Current)), AfterTool(FALSE))
    /\ UNCHANGED <<tracking, around, queue, sent>>

(* Mutant: the stop signal waits for the tool. *)
StopAfterTool == At("exec") /\ signal /\ FALSE /\ UNCHANGED turn_vars

(* The stop signal came while the tool ran: it is aborted, its result saved *)
(* and then those of the calls behind it.                                  *)
ToolStopped ==
    /\ At("exec")
    /\ signal
    /\ LET one == Append(messages, Result(Current))
           all == one \o Results(turn.todo \ {Current})
       IN SaveOrEnd(all, Idle) \/ (Saved(one, FALSE, 0) /\ turn' = Idle)
    /\ UNCHANGED <<tracking, around, queue, sent>>

ToolsDone ==
    /\ At("tools")
    /\ turn.todo = {}
    /\ IF turn.dirty THEN SaveOrEnd(messages, [turn EXCEPT !.pc = "done", !.dirty = FALSE])
                     ELSE UNCHANGED saving /\ turn' = Reach("done")
    /\ UNCHANGED <<tracking, around, queue, sent>>

(* Injection point D, and round again. *)
NextRound ==
    /\ At("done")
    /\ inject_soft_interrupts(Again, Again)
    /\ UNCHANGED <<tracking, around, sent>>
-----------------------------------------------------------------------------
(* A soft interrupt is queued without the lock; the user may clear them. *)
Enqueue ==
    /\ sent.interrupts < MaxInterrupts
    /\ sent' = [sent EXCEPT !.interrupts = @ + 1]
    /\ \E urgent \in BOOLEAN : queue' = Append(queue, urgent)
    /\ UNCHANGED <<saving, tracking, around, turn>>

clear_soft_interrupts ==
    /\ queue # <<>>
    /\ queue' = <<>>
    /\ UNCHANGED <<saving, tracking, around, turn, sent>>

(* A reload, or the cancellation of a debug command, asks the turn to stop. *)
Stop ==
    /\ ~signal
    /\ signal' = TRUE
    /\ UNCHANGED <<saving, tracking, undo, subagents, manual, queue, turn, sent>>

(* cancel_processing_message: the task is aborted where it waits. *)
Cancel ==
    /\ turn.pc \in Requesting \cup {"exec"}
    /\ turn' = Idle
    /\ signal' = FALSE
    /\ UNCHANGED <<saving, tracking, undo, subagents, manual, queue, sent>>

(* handle_run_subagent: the call is added under the lock ... *)
SubagentStarts ==
    /\ At("idle")
    /\ sent.calls < MaxCalls
    /\ sent' = [sent EXCEPT !.calls = @ + 1]
    /\ LET c == sent.calls + 1
       IN \E ok \in BOOLEAN :
            /\ Saved(Append(messages, Assistant({c})), ok, 1)
            /\ subagents' = IF ok THEN subagents \cup {c} ELSE subagents
            /\ manual' = manual \cup {c}
    /\ UNCHANGED <<tracking, undo, signal, queue, turn>>

(* ... and its result, however late, under the lock again. *)
SubagentEnds ==
    /\ At("idle")
    /\ \E c \in subagents, ok \in BOOLEAN :
          /\ Saved(Append(messages, Result(c)), ok, 0)
          /\ subagents' = subagents \ {c}
    /\ UNCHANGED <<tracking, undo, signal, manual, queue, turn, sent>>

(* Mutant: a rewind keeps what the repair has seen. *)
RewindTracked ==
    /\ At("idle")
    /\ \E n \in 1..Len(messages) : SaveEvent(SubSeq(messages, 1, n))
    /\ undo' = messages
    /\ UNCHANGED <<tracking, signal, subagents, manual, queue, turn, sent>>

(* Any length: the messages that are not visible are not told apart. *)
rewind_to_message ==
    /\ At("idle")
    /\ \E n \in 1..Len(messages) : SaveEvent(SubSeq(messages, 1, n))
    /\ undo' = messages
    /\ reset_tool_output_tracking
    /\ UNCHANGED <<signal, subagents, manual, queue, turn, sent>>

undo_rewind ==
    /\ At("idle")
    /\ undo # None
    /\ \E ok \in BOOLEAN : Saved(undo, ok, 0)
    /\ undo' = None
    /\ reset_tool_output_tracking
    /\ UNCHANGED <<signal, subagents, manual, queue, turn, sent>>

reset_runtime_state_for_session_change ==
    /\ reset_tool_output_tracking
    /\ queue' = <<>>
    /\ signal' = FALSE
    /\ undo' = None

(* A new session, which is not saved before its first turn. *)
clear ==
    /\ At("idle")
    /\ Saved(<<>>, TRUE, 1)
    /\ reset_runtime_state_for_session_change
    /\ UNCHANGED <<subagents, manual, turn, sent>>

(* The process is killed; restore_session of the next one loads the files. *)
CrashAndRestore ==
    /\ Saved(disk, TRUE, 1)
    /\ reset_runtime_state_for_session_change
    /\ turn' = Idle
    /\ subagents' = {}
    /\ UNCHANGED <<manual, sent>>
-----------------------------------------------------------------------------
ToolStep == \/ SkipForUrgent \/ AnswerAtOnce \/ RefuseTool \/ StartTool
            \/ ToolStopped \/ ToolsDone \/ NextRound

LoopStep == \/ RepairMessage \/ CallProvider \/ PolledAgain
            \/ filter_truncated_tool_calls \/ NoToolCalls \/ SkipForShutdown \/ StartTools

RequestStep == \/ StreamOpens \/ ProviderFails \/ TooLong \/ ContextLimit \/ Respond
               \/ NativeToolCall \/ NativeToolEnds

Outside == \/ Enqueue \/ clear_soft_interrupts \/ Stop \/ Cancel
           \/ SubagentStarts \/ SubagentEnds
           \/ rewind_to_message \/ undo_rewind \/ clear \/ CrashAndRestore

TurnNext == \/ StartTurn \/ LoopStep \/ RequestStep \/ ToolStep
            \/ ToolEnds \/ ToolMoved
            \/ Outside

(* The task of the turn is scheduled.  That a request ends, or a tool, is   *)
(* not assumed.                                                            *)
TurnFairness == WF_turn_vars(LoopStep) /\ WF_turn_vars(ToolStep)

TurnSpec == TurnInit /\ [][TurnNext]_turn_vars /\ TurnFairness
-----------------------------------------------------------------------------
(* The messages right behind message i answer its calls, one each. *)
Answered(i) ==
    LET last == i + Cardinality(messages[i].uses)
    IN /\ last <= Len(messages)
       /\ {messages[j].result : j \in i + 1..last} = messages[i].uses

Answers(c) == {j \in 1..Len(messages) : messages[j].result = c}

(* When a request is sent, every call the model made has exactly one result,*)
(* among the messages right behind the one that made it - whatever was     *)
(* cancelled, stopped, skipped, refused, rewound, lost in a crash or left   *)
(* unsaved before (turn_streaming_mpsc.rs 14-20, 640-679, 707-742, 912-969).*)
RequestIsPaired ==
    At("request") =>
      \A i \in 1..Len(messages) :
        \A c \in messages[i].uses \ manual : Answered(i) /\ Cardinality(Answers(c)) = 1

(* When a request is sent, the files hold the conversation it carries unless *)
(* the last save failed: a crash from there on loses nothing the model has  *)
(* been shown (the saves of the loop, turn_streaming_mpsc.rs 609, 678, 965,*)
(* 1003, 1015 and interrupts.rs 348).                                      *)
SentIsSaved == At("request") /\ ~lapse => disk = messages

(* A turn that is asked to stop ends, if the request under way ends with    *)
(* all that runs inside it; no other tool has to end: the turn skips those *)
(* it has not begun and leaves the one that runs                           *)
(* (turn_streaming_mpsc.rs 662-679, 845-861, 912-969).                     *)
StopEndsTurn ==
    []<>(turn.pc \notin Requesting) => (signal /\ ~At("idle") ~> At("idle"))
=============================================================================
