------------------------------- MODULE Services -------------------------------
(***************************************************************************)
(* services/: a ServiceRunner feeds every event of the bus to a service,   *)
(* in a task of its own, and LangfuseService (services/langfuse.rs) makes  *)
(* traces, generations and spans of the events of agents, which it sends   *)
(* in batches.                                                             *)
(*                                                                         *)
(* An item is [type, id, trace]; ids are the numbers of the events they    *)
(* are named after.  Steps of one run share a correlation id, and steps of *)
(* one level run at the same time.                                         *)
(***************************************************************************)
EXTENDS Naturals, Sequences, FiniteSets, SequencesExt, Functions

CONSTANTS
    Steps,       \* agents at work
    CorrOf,      \* step -> the correlation id of its run
    BatchSize,   \* langfuse.batch_size
    Capacity,    \* the bus's buffer of the service
    MaxEvents    \* bound on the events

VARIABLES
    step,        \* step -> [pc, gen, span]: its agent, and the events it is in
    events,      \* the events published: [kind, corr, call]
    inbox,       \* the service's subscription
    service,     \* "running", "flushing", "stopped", "orphaned"
    trace_map,   \* correlation -> trace
    active_generation,  \* correlation -> generation
    span_map,    \* tool call -> span
    batch,       \* the items not yet sent
    sent,        \* the items that were sent, in order
    lost         \* the items of batches the server did not take

vars == <<step, events, inbox, service, trace_map, active_generation, span_map, batch, sent, lost>>
NoEntries == << >>

Init ==
    /\ step = [s \in Steps |-> [pc |-> "idle", gen |-> 0, span |-> 0]]
    /\ events = << >>
    /\ inbox = << >>
    /\ service = "running"
    /\ trace_map = NoEntries /\ active_generation = NoEntries /\ span_map = NoEntries
    /\ batch = << >> /\ sent = << >> /\ lost = {}

Drop(map, k) == [x \in DOMAIN map \ {k} |-> map[x]]
Put(map, k, v) == [x \in DOMAIN map \cup {k} |-> IF x = k THEN v ELSE map[x]]
-----------------------------------------------------------------------------
(* An agent's step; a call of the model completes or fails.                *)
Publish(s, kind, pc) ==
    LET n == Len(events) + 1 IN
    /\ n <= MaxEvents
    /\ events' = Append(events, [kind |-> kind, corr |-> CorrOf[s], call |-> s,
                                 gen |-> step[s].gen, span |-> step[s].span])
    /\ inbox' = IF service = "running" /\ Len(inbox) < Capacity THEN Append(inbox, n) ELSE inbox
    /\ step' = [step EXCEPT ![s].pc = pc,
                            ![s].gen = IF kind = "LlmCallStarted" THEN n ELSE @,
                            ![s].span = IF kind = "ToolCallRequested" THEN n ELSE @]

AgentActs(s) ==
    /\ \/ step[s].pc = "idle" /\ Publish(s, "AgentProcessingStarted", "ready")
       \/ step[s].pc = "ready" /\ Publish(s, "LlmCallStarted", "calling")
       \/ /\ step[s].pc = "calling"
          /\ Publish(s, "LlmCallCompleted", "answered") \/ Publish(s, "LlmCallFailed", "failed")
       \/ step[s].pc = "answered" /\ Publish(s, "ToolCallRequested", "tool")
       \/ step[s].pc = "tool" /\ Publish(s, "ToolCallCompleted", "ready")
       \/ step[s].pc \in {"answered", "failed"} /\ Publish(s, "AgentProcessingCompleted", "idle")
    /\ UNCHANGED <<service, trace_map, active_generation, span_map, batch, sent, lost>>
-----------------------------------------------------------------------------
(* map_event: zero or one item, and what it leaves in the maps.            *)
Item(type, id, trace) == [type |-> type, id |-> id, trace |-> trace]

MapEvent(n) ==
    LET e == events[n]
        traced == e.corr \in DOMAIN trace_map
        trace == trace_map[e.corr]
        Nothing == [item |-> << >>, traces |-> trace_map, gens |-> active_generation, spans |-> span_map]
        With(items) == [Nothing EXCEPT !.item = items]
    IN CASE e.kind = "AgentProcessingStarted" ->
              [With(<<Item("trace-create", e.corr, e.corr)>>) EXCEPT !.traces = Put(trace_map, e.corr, e.corr)]
         [] e.kind = "LlmCallStarted" /\ traced ->
              [With(<<Item("generation-create", n, trace)>>) EXCEPT !.gens = Put(active_generation, e.corr, n)]
         [] e.kind = "LlmCallCompleted" /\ e.corr \in DOMAIN active_generation ->
              [With(IF traced THEN <<Item("generation-update", active_generation[e.corr], trace)>> ELSE << >>)
                  EXCEPT !.gens = Drop(active_generation, e.corr)]
         [] e.kind = "ToolCallRequested" /\ traced ->
              [With(<<Item("span-create", n, trace)>>) EXCEPT !.spans = Put(span_map, e.call, n)]
         [] e.kind = "ToolCallCompleted" /\ e.call \in DOMAIN span_map ->
              [With(IF traced THEN <<Item("span-update", span_map[e.call], trace)>> ELSE << >>)
                  EXCEPT !.spans = Drop(span_map, e.call)]
         [] e.kind = "AgentProcessingCompleted" /\ traced ->
              [With(<<Item("trace-update", trace, trace)>>)
                  EXCEPT !.traces = Drop(trace_map, e.corr), !.gens = Drop(active_generation, e.corr)]
         [] OTHER -> Nothing

(* flush_batch: the batch is gone whether the server takes it or not.      *)
Flush(items) ==
    /\ batch' = << >>
    /\ \/ sent' = sent \o items /\ UNCHANGED lost
       \/ lost' = lost \cup Range(items) /\ UNCHANGED sent

(* handle_event of the service's next event.                               *)
\* a slip: the batch is sent without being taken out of the state
HandleEvent_copies ==
    LET to == MapEvent(Head(inbox))
        items == batch \o to.item
    IN /\ service \in {"running", "flushing"} /\ inbox # << >>
       /\ inbox' = Tail(inbox)
       /\ trace_map' = to.traces /\ active_generation' = to.gens /\ span_map' = to.spans
       /\ \/ /\ Len(items) >= BatchSize
             /\ sent' = sent \o items /\ batch' = items /\ UNCHANGED lost
          \/ /\ Len(items) < BatchSize
             /\ batch' = items /\ UNCHANGED <<sent, lost>>
       /\ UNCHANGED <<step, events, service>>

HandleEvent ==
    LET to == MapEvent(Head(inbox))
        items == batch \o to.item
    IN /\ service \in {"running", "flushing"} /\ inbox # << >>
       /\ inbox' = Tail(inbox)
       /\ trace_map' = to.traces /\ active_generation' = to.gens /\ span_map' = to.spans
       /\ \/ Flush(items)   \* the batch is full, or the interval has passed
          \/ /\ Len(items) < BatchSize
             /\ batch' = items /\ UNCHANGED <<sent, lost>>
       /\ UNCHANGED <<step, events, service>>

(* shutdown: the service drains its subscription and flushes.              *)
Shutdown ==
    /\ service = "running"
    /\ service' = "flushing"
    /\ UNCHANGED <<step, events, inbox, trace_map, active_generation, span_map, batch, sent, lost>>


Drained ==
    /\ service = "flushing" /\ inbox = << >>
    /\ service' = "stopped"
    /\ Flush(batch)
    /\ UNCHANGED <<step, events, inbox, trace_map, active_generation, span_map>>

(* The bus is dropped first: the task ends without a flush.                *)
BusDropped ==
    /\ service = "running" /\ inbox = << >>
    /\ service' = "orphaned"
    /\ UNCHANGED <<step, events, inbox, trace_map, active_generation, span_map, batch, sent, lost>>

Next == (\E s \in Steps : AgentActs(s)) \/ HandleEvent \/ Shutdown \/ Drained \/ BusDropped

Spec == Init /\ [][Next]_vars
-----------------------------------------------------------------------------
TypeOK ==
    /\ \A i \in DOMAIN inbox : inbox[i] \in DOMAIN events
    /\ service \in {"running", "flushing", "stopped", "orphaned"}
    /\ DOMAIN trace_map \subseteq Range(CorrOf) /\ DOMAIN active_generation \subseteq Range(CorrOf)
    /\ DOMAIN span_map \subseteq Steps
    /\ Len(batch) < BatchSize \/ service = "flushing"

(* Nothing is sent twice, an update comes after the item it updates unless *)
(* that one's batch was lost, and a service that was shut down has nothing *)
(* left in its batch.                                                      *)
SentOnce ==
    /\ \A i, j \in DOMAIN (sent \o batch) :
          LET all == sent \o batch IN
          /\ i # j /\ all[i] = all[j] =>
                all[i].type \in {"trace-create", "trace-update"} \/
                    (all[i].type = "generation-update" /\ \E k \in Steps, l \in Steps : k # l /\ CorrOf[k] = CorrOf[l])
          /\ all[j].type = "span-update" =>
                \E c \in Range(SubSeq(all, 1, j)) \cup lost : c.type = "span-create" /\ c.id = all[j].id
          /\ all[j].type = "generation-update" =>
                \E c \in Range(SubSeq(all, 1, j)) \cup lost : c.type = "generation-create" /\ c.id = all[j].id
    /\ service = "stopped" => batch = << >>

(* "LLM calls are sequential per correlation": an answer is reported under *)
(* the call it answers.                                                    *)
OwnGeneration ==
    [][\A n \in DOMAIN events :
          inbox # << >> /\ inbox' = Tail(inbox) /\ Head(inbox) = n /\ events[n].kind = "LlmCallCompleted"
              => \A i \in DOMAIN MapEvent(n).item : MapEvent(n).item[i].id = events[n].gen]_vars
=============================================================================
