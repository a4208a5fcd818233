--------------------------------- MODULE Llm ---------------------------------
(***************************************************************************)
(* One LLM call of an agent step: how a config becomes a provider          *)
(* (config/providers.rs, llm/mod.rs), what the provider makes of the       *)
(* conversation, how it reads the answer, in one body or as a stream of    *)
(* server-sent events cut into chunks anywhere (llm/openai.rs,             *)
(* llm/anthropic.rs), and what the step makes of it (run_pipeline.rs).     *)
(*                                                                         *)
(* An answer is [text, tools, finish, fresh, cached]: text and arguments   *)
(* are sequences of pieces, the number of tokens it cost is in two parts.  *)
(***************************************************************************)
EXTENDS Naturals, Sequences, SequencesExt, FiniteSets, FiniteSetsExt

CONSTANTS
    Configs,    \* [source, unset, entry, overrides, agents, indexed]: what llm: and
                \* providers.yml say, and how the model's server streams
    Histories,  \* what ContextBuilder may have built: << [role, text, calls, call_id] >>
    Answers,
    Faults      \* of "status", "reset", "slow_reset", "error_line" and "early_end"

None == "none"
Nobody == [provider |-> None, stream |-> FALSE, key |-> FALSE]
NoAnswer == [text |-> << >>, tools |-> << >>, finish |-> None, input |-> 0]

VARIABLES
    config, provider,  \* provider: [provider, stream, key], Nobody when there is none
    history, answer,   \* the call: what is sent, and what the model says to it
    phase,    \* "build", "ready", "sent", "streaming", "over"; "ended": over
              \* because a stream stopped before its sentinel
    sent,     \* the request as the provider wrote it: [system, messages]
    wire,     \* the bytes the server has still to send
    buf,      \* the bytes the client has that make no line yet
    acc,      \* StreamAcc
    outcome   \* of the step: [kind, text, tools, input]

vars == <<config, provider, history, answer, phase, sent, wire, buf, acc, outcome>>

Pending == [kind |-> None, text |-> << >>, tools |-> << >>, input |-> 0]

Init ==
    /\ config \in Configs /\ history \in Histories /\ answer \in Answers
    /\ provider = Nobody /\ phase = "build"
    /\ sent = [system |-> None, messages |-> << >>]
    /\ wire = << >> /\ buf = << >> /\ acc = NoAnswer
    /\ outcome = Pending

Call == <<config, history, answer>>
Fails(kind) == phase' = "over" /\ outcome' = [Pending EXCEPT !.kind = kind]
-----------------------------------------------------------------------------
(* parse_llm_value and resolve_named: the entry of a named provider, which *)
(* may name a variable that is not set, and the overrides on top; a broken *)
(* name leaves the project without a model.                                *)
Fields == [k \in DOMAIN config.entry |->
              IF k \in DOMAIN config.overrides THEN config.overrides[k] ELSE config.entry[k]]
Resolved == config.source = "inline" \/ (config.source = "named" /\ config.entry # Nobody /\ ~config.unset)

(* create_provider, and build_inner where it is needed.                    *)
Built(fields) == fields.provider # "anthropic" \/ (~fields.stream /\ fields.key)

Build ==
    /\ phase = "build"
    /\ IF ~Resolved
       THEN /\ provider' = Nobody
            /\ IF config.agents THEN Fails("no_model") ELSE Fails("deterministic")
       ELSE IF ~Built(Fields) THEN Fails("bad_config") /\ UNCHANGED provider
       ELSE provider' = Fields /\ phase' = "ready" /\ UNCHANGED outcome
    /\ UNCHANGED <<Call, sent, wire, buf, acc>>
-----------------------------------------------------------------------------
Of(role) == SelectSeq(history, LAMBDA m : m.role = role)

(* openai::build_request: a message for a message.                         *)
OpenAi == [system |-> None, messages |-> history]

(* anthropic::build_request: the system text is beside the messages, and a *)
(* tool's result is said by the user.                                      *)
Anthropic ==
    [system |-> IF Of("system") = << >> THEN None ELSE Last(Of("system")).text,
     messages |-> [i \in DOMAIN SelectSeq(history, LAMBDA m : m.role # "system") |->
                     LET m == SelectSeq(history, LAMBDA x : x.role # "system")[i] IN
                     [m EXCEPT !.role = IF m.role = "tool" THEN "user" ELSE @]]]

(* Each provider has its own words, and its own way to count.              *)
Word(reason) ==
    CASE provider.provider # "anthropic" -> reason
      [] reason = "length" -> "max_tokens"
      [] reason = "tool_calls" -> "tool_use"
      [] OTHER -> "end_turn"
Prompt == IF provider.provider = "anthropic" THEN answer.fresh ELSE answer.fresh + answer.cached

(* The lines of the stream: a comment, the pieces of the answer, why it    *)
(* ended, what it cost, and the sentinel.  Text comes in pieces, a call as *)
(* its id and name and then its arguments, and the pieces of the text and  *)
(* of several calls in any order that keeps each of them in its own.  The  *)
(* bytes of a line are its two halves and its end.                         *)
Line(kind, i, v) == [kind |-> kind, index |-> i, value |-> v]
PiecesOf(i) ==
    IF i = 0 THEN [k \in DOMAIN answer.text |-> Line("text", 0, answer.text[k])]
    ELSE << Line("call", i, answer.tools[i].id) >> \o
         [k \in DOMAIN answer.tools[i].args |-> Line("args", i, answer.tools[i].args[k])]
Nth(order, k) == Cardinality({j \in 1..k : order[j] = order[k]})
Orders ==
    LET parts == 0..Len(answer.tools)
        total == FoldLeft(LAMBDA n, i : n + Len(PiecesOf(i)), Len(PiecesOf(0)), [i \in DOMAIN answer.tools |-> i])
    IN {o \in [1..total -> parts] :
            \A i \in parts : Cardinality({k \in 1..total : o[k] = i}) = Len(PiecesOf(i))}
StreamLines(order) ==
    << Line("comment", 0, None) >> \o [k \in DOMAIN order |-> PiecesOf(order[k])[Nth(order, k)]]
       \o << Line("finish", 0, Word(answer.finish)), Line("usage", 0, None), Line("done", 0, None) >>
Bytes(lines) ==
    [i \in 1..3 * Len(lines) |-> [line |-> lines[1 + ((i - 1) \div 3)], part |-> 1 + ((i - 1) % 3)]]

(* chat_completion, up to the status of the response.                      *)
Send ==
    /\ phase = "ready"
    /\ sent' = IF provider.provider = "anthropic" THEN Anthropic ELSE OpenAi
    /\ \/ "status" \in Faults /\ Fails("api_error") /\ UNCHANGED wire
       \/ "reset" \in Faults /\ Fails("http_error") /\ UNCHANGED wire
       \/ "slow_reset" \in Faults /\ Fails(IF provider.stream THEN "http_error" ELSE "dropped") /\ UNCHANGED wire
       \/ /\ phase' = IF provider.stream THEN "streaming" ELSE "sent"
          /\ IF provider.stream THEN \E order \in Orders : wire' = Bytes(StreamLines(order)) ELSE wire' = << >>
          /\ UNCHANGED outcome
    /\ UNCHANGED <<Call, provider, buf, acc>>
-----------------------------------------------------------------------------
(* run_agent_step: an answer that was cut off fails the step, calls go on, *)
(* and any other answer is the step's output.                              *)
Take(a) ==
    outcome' = [kind |-> IF a.finish = "length" THEN "cut_off"
                         ELSE IF a.tools # << >> THEN "tools" ELSE "final",
               text |-> a.text, tools |-> a.tools, input |-> a.input]

\* a slip: the reason stays in Anthropic's own words
Finish_own(word) == word

(* parse_response of llm/anthropic.rs                                      *)
Finish(word) ==
    CASE word = "max_tokens" -> "length"
      [] word = "end_turn" -> "stop"
      [] word = "tool_use" -> "tool_calls"
      [] OTHER -> word

(* Anthropic's count leaves out what was cached.                           *)
Input(prompt) == IF provider.provider = "anthropic" THEN prompt + answer.cached ELSE prompt

Plain == [text |-> answer.text, tools |-> answer.tools, finish |-> Finish(Word(answer.finish)), input |-> Input(Prompt)]

ReadBody ==
    /\ phase = "sent"
    /\ \/ Take(Plain) /\ phase' = "over"
       \/ "reset" \in Faults /\ Fails("bad_body")
    /\ UNCHANGED <<Call, provider, sent, wire, buf, acc>>
-----------------------------------------------------------------------------
(* feed_line.  A piece of a call goes to the slot of its index, which is   *)
(* made with all before it, and one that has no index to the last slot.    *)
Slot(a, line) == IF config.indexed THEN line.index ELSE IF a.tools = << >> THEN 1 ELSE Len(a.tools)
Widened(tools, n) ==
    [i \in 1..(IF Len(tools) >= n THEN Len(tools) ELSE n) |->
        IF i \in DOMAIN tools THEN tools[i] ELSE [id |-> None, args |-> << >>]]
FeedLine(a, line) ==
    LET n == Slot(a, line) IN
    CASE line.kind = "text" -> [a EXCEPT !.text = Append(@, line.value)]
      [] line.kind = "call" -> [a EXCEPT !.tools = [Widened(@, n) EXCEPT ![n].id = line.value]]
      [] line.kind = "args" -> [a EXCEPT !.tools = [Widened(@, n) EXCEPT ![n].args = Append(@, line.value)]]
      [] line.kind = "finish" -> [a EXCEPT !.finish = line.value]
      [] line.kind = "usage" -> [a EXCEPT !.input = Prompt]
      [] OTHER -> a

CutAt(bytes) == Max({0} \cup {i \in DOMAIN bytes : bytes[i].part = 3})
Read(bytes) ==
    LET whole == SelectSeq([i \in DOMAIN bytes |-> i],
                    LAMBDA i : bytes[i].part = 2 /\ i > 1 /\ bytes[i - 1].part = 1)
    IN [i \in DOMAIN whole |-> bytes[whole[i]].line]
Has(lines, kind) == \E l \in ToSet(lines) : l.kind = kind

\* a slip: what is left of a chunk is taken for a line
Lines_eager(bytes) == [lines |-> Read(bytes), rest |-> << >>]

(* Only what ends in a newline is a line; the rest waits.                  *)
Lines(bytes) == [lines |-> Read(SubSeq(bytes, 1, CutAt(bytes))), rest |-> SubSeq(bytes, CutAt(bytes) + 1, Len(bytes))]

(* resp.chunk(): any part of what is on the wire.                          *)
Chunk ==
    /\ phase = "streaming" /\ wire # << >>
    /\ \E n \in 1..Len(wire) :
          LET got == Lines(buf \o SubSeq(wire, 1, n))
              next == FoldLeft(FeedLine, acc, got.lines)
          IN /\ wire' = SubSeq(wire, n + 1, Len(wire))
             /\ buf' = got.rest /\ acc' = next
             /\ IF Has(got.lines, "error") THEN Fails("api_error")
                ELSE IF Has(got.lines, "done") THEN Take(next) /\ phase' = "over" ELSE UNCHANGED <<phase, outcome>>
    /\ UNCHANGED <<Call, provider, sent>>

(* The server reports an error inside the stream.                          *)
ServerErrs ==
    /\ "error_line" \in Faults /\ phase = "streaming"
    /\ wire # << >> /\ Head(wire).part = 1 /\ Head(wire).line.kind \in {"text", "finish"}
    /\ wire' = Bytes(<< Line("error", 0, None) >>)
    /\ UNCHANGED <<Call, provider, phase, sent, buf, acc, outcome>>

(* The body ends before the sentinel.  What is left is read as a line: one *)
(* that only lacks its newline counts, a half is bad JSON or no data line. *)
StreamEnds ==
    /\ "early_end" \in Faults /\ phase = "streaming"
    /\ LET next == FoldLeft(FeedLine, acc, Read(buf)) IN
       \/ ~Has(Read(buf), "error") /\ Take(next) /\ acc' = next /\ phase' = "ended"
       \/ Has(Read(buf), "error") /\ Fails("api_error") /\ UNCHANGED acc
       \/ Len(buf) = 1 /\ buf[1].line.kind # "comment" /\ Fails("bad_line") /\ UNCHANGED acc
    /\ wire' = << >> /\ buf' = << >>
    /\ UNCHANGED <<Call, provider, sent>>

(* The connection is reset, or the whole call's timeout passes.            *)
StreamBreaks ==
    /\ "reset" \in Faults /\ phase = "streaming"
    /\ Fails("http_error")
    /\ wire' = << >>
    /\ UNCHANGED <<Call, provider, sent, buf, acc>>

Next == Build \/ Send \/ ReadBody \/ Chunk \/ ServerErrs \/ StreamEnds \/ StreamBreaks

Spec == Init /\ [][Next]_vars
-----------------------------------------------------------------------------
TypeOK ==
    /\ phase \in {"build", "ready", "sent", "streaming", "over", "ended"}
    /\ Len(buf) <= 2 /\ (phase \in {"over", "ended"}) = (outcome.kind # None)

Answered == outcome.kind \in {"cut_off", "tools", "final"}
Unbroken == config.indexed \/ Len(answer.tools) < 2

(* Whichever provider answered, and however its stream was cut into        *)
(* chunks, the step is given the whole answer and its cost, and an answer  *)
(* that hit the limit fails it, unless the pieces of several calls say not *)
(* which call they are of; of a stream that stopped, it has a beginning.   *)
LlmSound ==
    /\ Answered => IsPrefix(outcome.text, answer.text)
    /\ Answered /\ Unbroken /\ phase = "over" =>
        /\ outcome.kind = (IF answer.finish = "length" THEN "cut_off" ELSE IF answer.tools # << >> THEN "tools" ELSE "final")
        /\ outcome.text = answer.text /\ outcome.tools = answer.tools
        /\ outcome.input = answer.fresh + answer.cached

(* docs/context.md:11 "system prompt + user task. Deterministic, never     *)
(* touched": the request holds the system prompt, the first message built. *)
PromptReachesModel ==
    sent.messages # << >> =>
        sent.system = history[1].text \/ \E m \in ToSet(sent.messages) : m.text = history[1].text

(* llm/openai.rs:110 "the rest of the provider can't tell the difference": *)
(* a stream gives what the plain body gives.                               *)
StreamedLikePlain == Answered => outcome.text = answer.text /\ outcome.tools = answer.tools
=============================================================================
