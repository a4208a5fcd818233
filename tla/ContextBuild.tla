---------------------------- MODULE ContextBuild ----------------------------
(***************************************************************************)
(* What an agent sees: run_agent_step (handlers/run_pipeline.rs) has no    *)
(* list of messages, it asks ContextBuilder (runtime/context_builder.rs)   *)
(* to rebuild one from the step's stream before every call of the model,   *)
(* masked (runtime/context_window.rs), and compacted by another call of    *)
(* the model when it is still too long.  The stream of a conversation is   *)
(* the same in every run.                                                  *)
(*                                                                         *)
(* An event is [kind, id, calls, call, lo, hi, chars]: "assistant" (an     *)
(* LlmCallCompleted) with the tool calls it asks for, "tool" (a            *)
(* ToolCallCompleted) with the call it answers, "user", "compacted" with   *)
(* the range it replaces, "other"; its sequence number is its place in the *)
(* stream.  A message is [role, seq, id, calls, call, chars, masked].      *)
(* Text is a number of characters.  An answer is named by the run and the  *)
(* iteration it is given in, a call by its answer and its index there.     *)
(***************************************************************************)
EXTENDS Naturals, Integers, Sequences, FiniteSets, SequencesExt

CONSTANTS
    ContextConfigs,  \* [window, soft, hard, min_tail, forget, fresh, provider];
                     \* forget = 0 stands for None
    ToolChars,       \* lengths a tool's result may have
    MaxCalls,        \* tool calls of one answer, at most
    MaxIterations,   \* max_iterations
    MaxRuns,         \* runs of the step on this stream
    MaxEvents,       \* bound on the stream
    MaxLost          \* bound: publishes that fail

AssistantChars == 2
MaskedChars == 1
SummaryChars == 1
PrefixChars == 1

VARIABLES
    config,     \* the step's ContextConfig
    stream,     \* the step's events
    pc,         \* "idle", "build", "compact", "summarise", "replace", "reread",
                \* "check", "ready", "tools"
    cutoff,     \* the first event of this run when `fresh`, else 1
    iteration,  \* iteration of the agent loop
    runs,       \* runs begun
    messages,   \* what build() has put together, without the prefix
    answer,     \* the model's last answer: its calls, and how many were made
    lost        \* publishes that failed

vars == <<config, stream, pc, cutoff, iteration, runs, messages, answer, lost>>
-----------------------------------------------------------------------------
(* The answer the step is at.                                              *)
Turn == <<runs, iteration>>

Event(kind) == [kind |-> kind, id |-> Len(stream) + 1, calls |-> 0, call |-> << >>,
                lo |-> 0, hi |-> 0, chars |-> 0]

(* identify_segments of context_window.rs: a turn is an assistant message  *)
(* and the tool results right after it; anything else passes through.      *)
IdentifySegments(body) ==
    LET starts == SelectSeq([i \in 1..Len(body) |-> i], LAMBDA i : body[i].role = "assistant")
        Results(i) == {j \in i..Len(body) : \A k \in (i + 1)..j : body[k].role = "tool"}
    IN [t \in 1..Len(starts) |->
          [start |-> starts[t], end |-> starts[t] - 1 + Cardinality(Results(starts[t]))]]

(* The end of the n-th turn; what passes through before it goes with it.   *)
EndOfTurn(body, n) == IF n = 0 THEN 0 ELSE IdentifySegments(body)[n].end

Saturating(a, b) == IF a > b THEN a - b ELSE 0

ForgetOldTurns(body, keep) ==
    LET drop == Saturating(Len(IdentifySegments(body)), keep)
    IN SubSeq(body, EndOfTurn(body, drop) + 1, Len(body))

MaskMessage(m) ==
    CASE m.role = "tool" -> [m EXCEPT !.chars = MaskedChars, !.masked = TRUE]
      [] m.role = "assistant" -> [m EXCEPT !.chars = IF @ < MaskedChars THEN @ ELSE MaskedChars]

(* Slips: the window counts one turn too few, the compacted span ends      *)
(* inside the turns to keep.                                               *)
MaskObservations_short(body, window) ==
    LET turns == IdentifySegments(body)
        mask == IF Len(turns) >= window THEN Len(turns) - window + 1 ELSE 0
        InMasked(i) == \E t \in 1..mask : i \in turns[t].start..turns[t].end
    IN [i \in 1..Len(body) |-> IF InMasked(i) THEN MaskMessage(body[i]) ELSE body[i]]

(* mask_observations: the leading user and system messages are a prefix of *)
(* no turn; of the turns the last `window` stay in full.                   *)
MaskObservations(body, window) ==
    LET turns == IdentifySegments(body)
        mask == Saturating(Len(turns), window)
        InMasked(i) == \E t \in 1..mask : i \in turns[t].start..turns[t].end
    IN [i \in 1..Len(body) |-> IF InMasked(i) THEN MaskMessage(body[i]) ELSE body[i]]

ApproxChars(ms) == FoldLeft(LAMBDA n, m : n + m.chars, 0, ms)
-----------------------------------------------------------------------------
(* events_to_messages_with_seqs: what a compaction replaces is left out    *)
(* and its summary stands where the replaced range starts.  The summaries  *)
(* are sorted by that start (a stable sort) and given out in that order,   *)
(* one per event: of two with one start the second, and whatever comes     *)
(* after it, is never given out.                                           *)
EventsToMessages(events) ==
    LET compactions == SelectSeq(events, LAMBDA e : e.kind = "compacted")
        summaries == SortSeq(compactions,
            LAMBDA a, b : a.lo < b.lo \/ (a.lo = b.lo /\ a.id < b.id))
        GivenOut(k) == /\ summaries[1].lo >= events[1].id
                       /\ \A j \in 1..(k - 1) : summaries[j].lo < summaries[j + 1].lo
        given == {k \in DOMAIN summaries : GivenOut(k)}
        Compacted(seq) == \E k \in DOMAIN compactions : seq \in compactions[k].lo..compactions[k].hi
        At(e) == {k \in given : summaries[k].lo = e.id}
        Message(e, role, seq) == [role |-> role, seq |-> seq, id |-> e.id, calls |-> e.calls,
                                  call |-> e.call, chars |-> e.chars, masked |-> FALSE]
        shown == SelectSeq(events, LAMBDA e : IF Compacted(e.id) THEN At(e) # {}
                                              ELSE e.kind \in {"assistant", "tool", "user"})
    IN [i \in DOMAIN shown |->
          IF Compacted(shown[i].id)
          THEN Message(summaries[CHOOSE k \in At(shown[i]) : TRUE], "system", shown[i].id)
          ELSE Message(shown[i], shown[i].kind, shown[i].id)]

ObservationTail(events) == LET all == EventsToMessages(events)
              IN IF config.forget = 0 THEN all ELSE ForgetOldTurns(all, config.forget)
Masked(events) == MaskObservations(ObservationTail(events), config.window)

Events == SubSeq(stream, cutoff, Len(stream))

\* a slip: mutated form of CompactableEnd
CompactableEnd_all == Len(messages)

(* try_compact: the turns before the last min_tail_turns, and the range of *)
(* sequence numbers that many messages have when the events are converted  *)
(* again.                                                                  *)
CompactableEnd ==
    EndOfTurn(messages, Saturating(Len(IdentifySegments(messages)), config.min_tail))
Tagged == EventsToMessages(Events)
CompactedRange == [lo |-> Tagged[1].seq, hi |-> Tagged[CompactableEnd].seq]
CanCompact ==
    /\ config.provider
    /\ messages # << >>
    /\ CompactableEnd > 0
    /\ Len(Tagged) >= CompactableEnd
-----------------------------------------------------------------------------
NoAnswer == [calls |-> 0, made |-> 0]

Init ==
    /\ config \in ContextConfigs
    /\ stream = << >>
    /\ pc = "idle"
    /\ cutoff = 1
    /\ iteration = 0
    /\ runs = 0
    /\ messages = << >>
    /\ answer = NoAnswer
    /\ lost = 0

Room == Len(stream) < MaxEvents

(* The step ends, however it ends, and what it had at hand goes with it.   *)
End == pc' = "idle" /\ iteration' = 0 /\ messages' = << >> /\ answer' = NoAnswer

(* emit_event and emit_compaction_event: a publish that fails is logged and *)
(* the caller goes on.                                                      *)
Emit(e) == \/ Room /\ stream' = Append(stream, e) /\ UNCHANGED lost
           \/ lost < MaxLost /\ lost' = lost + 1 /\ UNCHANGED stream

(* A connector's message to the conversation.                              *)
UserMessageReceived ==
    /\ pc = "idle" /\ Room /\ runs < MaxRuns
    /\ stream' = Append(stream, [Event("user") EXCEPT !.chars = 1])
    /\ UNCHANGED <<config, pc, cutoff, iteration, runs, messages, answer, lost>>

(* run_agent_step: with_fresh_after takes the time the step begins.        *)
StepBegins ==
    /\ pc = "idle" /\ runs < MaxRuns
    /\ runs' = runs + 1
    /\ cutoff' = IF config.fresh THEN Len(stream) + 1 ELSE 1
    /\ iteration' = 1
    /\ messages' = << >>
    /\ pc' = "build"
    /\ UNCHANGED <<config, stream, answer, lost>>

(* build(): the masked tail, and whether it has to be compacted.           *)
Build ==
    /\ pc = "build"
    /\ messages' = Masked(Events)
    /\ pc' = IF PrefixChars + ApproxChars(Masked(Events)) > config.soft THEN "compact" ELSE "check"
    /\ UNCHANGED <<config, stream, cutoff, iteration, runs, answer, lost>>

(* The stream cannot be read, here or after a compaction: the step fails.  *)
ReadFails ==
    /\ pc \in {"build", "reread"}
    /\ End
    /\ UNCHANGED <<config, stream, cutoff, runs, lost>>

(* try_compact: no provider, or nothing old enough to compact.             *)
CompactSkipped ==
    /\ pc = "compact" /\ ~CanCompact
    /\ pc' = "check"
    /\ UNCHANGED <<config, stream, cutoff, iteration, runs, messages, answer, lost>>

(* LlmCallStarted for the call that summarises.                            *)
CompactBegins ==
    /\ pc = "compact" /\ CanCompact
    /\ Emit(Event("other"))
    /\ pc' = "summarise"
    /\ UNCHANGED <<config, cutoff, iteration, runs, messages, answer>>

(* The model does not answer: the context stays as it is.                  *)
CompactFails ==
    /\ pc = "summarise"
    /\ pc' = "check"
    /\ UNCHANGED <<config, stream, cutoff, iteration, runs, messages, answer, lost>>

(* It does: LlmCallCompleted, in the step's own stream.                    *)
Summarised ==
    /\ pc = "summarise"
    /\ Emit([Event("assistant") EXCEPT !.chars = SummaryChars])
    /\ pc' = "replace"
    /\ UNCHANGED <<config, cutoff, iteration, runs, messages, answer>>

(* ContextCompacted.                                                       *)
Compact ==
    /\ pc = "replace"
    /\ Emit([Event("compacted") EXCEPT !.chars = SummaryChars, !.lo = CompactedRange.lo,
                                       !.hi = CompactedRange.hi])
    /\ pc' = "reread"
    /\ UNCHANGED <<config, cutoff, iteration, runs, messages, answer>>

(* Whatever was recorded of it, the tail is read again, from the stream's  *)
(* first event.                                                            *)
Reread ==
    /\ pc = "reread"
    /\ messages' = Masked(stream)
    /\ pc' = "check"
    /\ UNCHANGED <<config, stream, cutoff, iteration, runs, answer, lost>>

(* The hard cap.                                                           *)
CheckHardCap ==
    /\ pc = "check"
    /\ IF PrefixChars + ApproxChars(messages) > config.hard
       THEN End ELSE pc' = "ready" /\ UNCHANGED <<iteration, messages, answer>>
    /\ UNCHANGED <<config, stream, cutoff, runs, lost>>

(* The model's answer, with n tool calls; it may be cut off at max_tokens, *)
(* which fails the step after the answer was recorded.                     *)
ModelAnswers ==
    \E n \in 0..MaxCalls, cut_off \in BOOLEAN :
        /\ pc = "ready"
        /\ Emit([Event("assistant") EXCEPT !.calls = n, !.call = Turn, !.chars = AssistantChars])
        /\ IF cut_off \/ n = 0 THEN End
           ELSE /\ pc' = "tools" /\ answer' = [calls |-> n, made |-> 0]
                /\ messages' = << >> /\ UNCHANGED iteration
        /\ UNCHANGED <<config, cutoff, runs>>

(* The model fails: LlmCallFailed is no message.                           *)
ModelFails ==
    /\ pc = "ready"
    /\ End
    /\ UNCHANGED <<config, stream, cutoff, runs, lost>>

(* One tool call, in the answer's order, which the loop has at hand; after *)
(* the last the loop goes round, or ends at max_iterations.                *)
ToolCallCompleted ==
    \E chars \in ToolChars :
        LET made == answer.made + 1
            last == made = answer.calls
        IN /\ pc = "tools"
           /\ Emit([Event("tool") EXCEPT !.call = Append(Turn, made), !.chars = chars])
           /\ IF last /\ iteration = MaxIterations THEN End
              ELSE /\ answer' = [answer EXCEPT !.made = made]
                   /\ pc' = IF last THEN "build" ELSE "tools"
                   /\ iteration' = IF last THEN iteration + 1 ELSE iteration
                   /\ UNCHANGED messages
           /\ UNCHANGED <<config, cutoff, runs>>

(* The process dies while the step runs.                                   *)
Crash ==
    /\ pc # "idle"
    /\ End
    /\ UNCHANGED <<config, stream, cutoff, runs, lost>>

Next ==
    \/ UserMessageReceived \/ StepBegins \/ Build \/ ReadFails
    \/ CompactSkipped \/ CompactBegins \/ CompactFails \/ Summarised \/ Compact \/ Reread
    \/ CheckHardCap \/ ModelAnswers \/ ModelFails \/ ToolCallCompleted \/ Crash

Spec == Init /\ [][Next]_vars
-----------------------------------------------------------------------------
TypeOK ==
    /\ config \in ContextConfigs
    /\ \A i \in DOMAIN stream : stream[i].id = i
    /\ \A i \in DOMAIN stream : stream[i].kind = "compacted" => stream[i].lo <= stream[i].hi
    /\ pc \in {"idle", "build", "compact", "summarise", "replace", "reread", "check", "ready", "tools"}
    /\ cutoff \in 1..(Len(stream) + 1)
    /\ iteration \in 0..MaxIterations
    /\ runs \in 0..MaxRuns
    /\ answer \in [calls : 0..MaxCalls, made : 0..MaxCalls]
    /\ lost \in 0..MaxLost

(* What the agent has just learned it is shown: of its last answer and the *)
(* results of its calls, all that could be recorded is in the context in   *)
(* full, whatever was masked, forgotten or compacted before, or failed to  *)
(* be recorded on the way.  Windows of one turn are excepted, see the      *)
(* README.                                                                 *)
RecentInFull ==
    pc = "ready" /\ iteration > 1 =>
        \A e \in ToSet(stream) :
            e.call # << >> /\ SubSeq(e.call, 1, 2) = <<runs, iteration - 1>> =>
                \E m \in ToSet(messages) : m.id = e.id /\ ~m.masked

(* A message of the stream's conversation is shown once, and in order.     *)
ShownOnce == \A i, j \in DOMAIN messages : i < j => messages[i].seq < messages[j].seq

ContextSound == RecentInFull /\ ShownOnce

(* ADR-0016 of the context: "a tool_use and its matching tool_result are   *)
(* always adjacent in the output and always either both present or both    *)
(* absent".                                                                *)
PairsAdjacent ==
    pc = "ready" =>
        \A i \in DOMAIN messages :
            /\ \A k \in 1..messages[i].calls :
                  /\ i + k \in DOMAIN messages
                  /\ messages[i + k].call = Append(messages[i].call, k)
            /\ messages[i].role = "tool" =>
                  \E j \in 1..(i - 1) : messages[j].call = SubSeq(messages[i].call, 1, 2)

(* events_to_messages: "events whose sequence falls within a compacted     *)
(* range are suppressed, replaced by a single Message::System carrying the *)
(* compaction summary".                                                    *)
SummaryReplaces ==
    pc = "ready" =>
        \A i \in DOMAIN stream :
            stream[i].kind = "compacted" /\ ~config.fresh /\ config.forget = 0 =>
                \/ \E j \in DOMAIN messages : messages[j].id = i
                \/ \E j \in (i + 1)..Len(stream) :
                      stream[j].kind = "compacted" /\ stream[i].lo \in stream[j].lo..stream[j].hi
                         /\ \E k \in DOMAIN messages : messages[k].id = j

=============================================================================
