--------------------------------- MODULE Sinks ---------------------------------
(***************************************************************************)
(* The outbound sinks: http_post, file_append and stdout (connectors/*.rs).*)
(* Each subscribes to the bus when it starts and takes one matching event  *)
(* at a time: it sends or writes what its template makes of it, http_post  *)
(* with retries, and publishes what became of it, an event that the bus    *)
(* delivers to the sinks as well.  A subscription is a bounded queue; what *)
(* finds it full is dropped for that subscriber.                           *)
(***************************************************************************)
EXTENDS Naturals, Sequences, FiniteSets, SequencesExt

CONSTANTS
    SinkConfigs,  \* sink -> [type, on, attempts, backoff]; on = {}: every kind
    Kinds,        \* kinds of the events other code publishes
    Hints,        \* the Retry-After values a server may send
    Capacity,     \* DEFAULT_CHANNEL_CAPACITY
    MaxEvents     \* bound on the log

Sinks == DOMAIN SinkConfigs
NoHint == 0
MaxDelay == 300
Dispatched == "outbound_dispatched"
Failed == "outbound_failed"

VARIABLES
    log,       \* the published events: [kind, sink, trigger]
    queue,     \* sink -> the events its subscription holds
    task,      \* sink -> [pc, event, attempt, delay, replies, result]
    handled,   \* sink -> the events it has taken and that match, in order
    untold,    \* <<sink, event>> whose outcome could not be published
    cancelled  \* the sinks whose token was cancelled

vars == <<log, queue, task, handled, untold, cancelled>>

Waiting == [pc |-> "waiting", event |-> 0, attempt |-> 0, delay |-> 0,
            replies |-> << >>, result |-> "none"]

Init ==
    /\ log = << >>
    /\ queue = [s \in Sinks |-> << >>]
    /\ task = [s \in Sinks |-> Waiting]
    /\ handled = [s \in Sinks |-> << >>]
    /\ untold = {}
    /\ cancelled = {}

(* RetryConfig.delay_for: the last entry of the list is repeated. *)
DelayFor(cfg, attempt) ==
    IF cfg.backoff = << >> THEN 1
    ELSE cfg.backoff[IF attempt < Len(cfg.backoff) THEN attempt ELSE Len(cfg.backoff)]

Clamped(hint) == IF hint < MaxDelay THEN hint ELSE MaxDelay

(* EventBus::publish: the log, then every subscriber that has room.        *)
Listens(s) == task[s].pc \notin {"stopped", "panicked"}
Deliver(q, kind, sink, trigger) ==
    /\ Len(log) < MaxEvents
    /\ log' = Append(log, [kind |-> kind, sink |-> sink, trigger |-> trigger])
    /\ queue' = [s \in Sinks |-> IF Listens(s) /\ Len(q[s]) < Capacity
                                 THEN Append(q[s], Len(log) + 1) ELSE q[s]]

Publish(kind) ==
    /\ Deliver(queue, kind, "none", 0)
    /\ UNCHANGED <<task, handled, untold, cancelled>>
-----------------------------------------------------------------------------
Matches(s, e) == SinkConfigs[s].on = {} \/ log[e].kind \in SinkConfigs[s].on

(* rx.recv(): another kind is passed over; a template that does not render *)
(* ends the event, and so does http_post without an attempt.               *)
Skip(s) ==
    /\ task[s].pc = "waiting" /\ queue[s] # << >> /\ ~Matches(s, Head(queue[s]))
    /\ queue' = [queue EXCEPT ![s] = Tail(@)]
    /\ UNCHANGED <<log, task, handled, untold, cancelled>>

Go(s, pc, result) ==
    task' = [task EXCEPT ![s] =
        [Waiting EXCEPT !.pc = pc, !.event = Head(queue[s]), !.result = result,
                        !.attempt = IF pc = "sending" THEN 1 ELSE 0]]

DispatchPost(s) ==
    /\ SinkConfigs[s].type = "http_post"
    /\ \/ SinkConfigs[s].attempts > 0 /\ Go(s, "sending", "none")
       \/ Go(s, "telling", Failed)

AppendToFile(s) ==
    /\ SinkConfigs[s].type = "file_append"
    /\ \E r \in {Dispatched, Failed} : Go(s, "telling", r)

(* stdout writes, or logs that it could not, and tells nobody.             *)
WriteToStdout(s) == SinkConfigs[s].type = "stdout" /\ UNCHANGED task

Take(s) ==
    /\ task[s].pc = "waiting" /\ queue[s] # << >> /\ Matches(s, Head(queue[s]))
    /\ queue' = [queue EXCEPT ![s] = Tail(@)]
    /\ handled' = [handled EXCEPT ![s] = Append(@, Head(queue[s]))]
    /\ DispatchPost(s) \/ AppendToFile(s) \/ WriteToStdout(s)
    /\ UNCHANGED <<log, untold, cancelled>>

(* One attempt of dispatch. A success ends it, so does a status that is    *)
(* neither 5xx nor 429; after any other answer, and after none, the next   *)
(* attempt follows a delay, if there is one.                               *)
Sent(s, reply) == [task[s] EXCEPT !.replies = Append(@, reply)]

Succeeds(s) ==
    /\ task[s].pc = "sending"
    /\ task' = [task EXCEPT ![s] = [Sent(s, "success") EXCEPT !.pc = "telling", !.result = Dispatched]]
    /\ UNCHANGED <<log, queue, handled, untold, cancelled>>

\* a slip: every error status is worth a retry
Refused_retried(s) ==
    /\ task[s].pc = "sending"
    /\ task' = [task EXCEPT ![s] =
         IF task[s].attempt < SinkConfigs[s].attempts
         THEN [Sent(s, "client_error") EXCEPT !.pc = "sleeping", !.delay = 1]
         ELSE [Sent(s, "client_error") EXCEPT !.pc = "telling", !.result = Failed]]
    /\ UNCHANGED <<log, queue, handled, untold, cancelled>>

Refused(s) ==
    /\ task[s].pc = "sending"
    /\ task' = [task EXCEPT ![s] = [Sent(s, "client_error") EXCEPT !.pc = "telling", !.result = Failed]]
    /\ UNCHANGED <<log, queue, handled, untold, cancelled>>

TryLater(s) ==
    \E reply \in {"server_error", "rate_limited", "network_error"} :
    \E hint \in (IF reply = "network_error" THEN {NoHint} ELSE Hints \cup {NoHint}) :
        /\ task[s].pc = "sending"
        /\ task' = [task EXCEPT ![s] =
             IF task[s].attempt < SinkConfigs[s].attempts
             THEN [Sent(s, reply) EXCEPT !.pc = "sleeping",
                      !.delay = IF hint = NoHint THEN DelayFor(SinkConfigs[s], task[s].attempt)
                                ELSE Clamped(hint)]
             ELSE [Sent(s, reply) EXCEPT !.pc = "telling", !.result = Failed]]
        /\ UNCHANGED <<log, queue, handled, untold, cancelled>>

(* The error's body is cut for the log line, inside a character: a panic.  *)
Panics(s) ==
    /\ task[s].pc = "sending"
    /\ task' = [task EXCEPT ![s] = [Sent(s, "error_body") EXCEPT !.pc = "panicked"]]
    /\ queue' = [queue EXCEPT ![s] = << >>]
    /\ UNCHANGED <<log, handled, untold, cancelled>>

Wakes(s) ==
    /\ task[s].pc = "sleeping"
    /\ task' = [task EXCEPT ![s].pc = "sending", ![s].attempt = @ + 1, ![s].delay = 0]
    /\ UNCHANGED <<log, queue, handled, untold, cancelled>>

\* a slip: an outcome is only published for a success
Tell_success(s) ==
    /\ task[s].pc = "telling"
    /\ task' = [task EXCEPT ![s] = Waiting]
    /\ IF task[s].result = Dispatched THEN Deliver(queue, Dispatched, s, task[s].event)
       ELSE UNCHANGED <<log, queue>>
    /\ UNCHANGED <<handled, untold, cancelled>>

(* publish_outcome; its failure is only logged. *)
Tell(s) ==
    /\ task[s].pc = "telling"
    /\ task' = [task EXCEPT ![s] = Waiting]
    /\ \/ /\ Deliver(queue, task[s].result, s, task[s].event)
          /\ UNCHANGED untold
       \/ /\ untold' = untold \cup {<<s, task[s].event>>}
          /\ UNCHANGED <<log, queue>>
    /\ UNCHANGED <<handled, cancelled>>

(* shutdown_connectors cancels; the loop sees it only between two events,  *)
(* and may take another one first.                                         *)
Cancel(s) ==
    /\ s \notin cancelled
    /\ cancelled' = cancelled \cup {s}
    /\ UNCHANGED <<log, queue, task, handled, untold>>

Stop(s) ==
    /\ s \in cancelled /\ task[s].pc = "waiting"
    /\ task' = [task EXCEPT ![s].pc = "stopped"]
    /\ queue' = [queue EXCEPT ![s] = << >>]
    /\ UNCHANGED <<log, handled, untold, cancelled>>

Next ==
    \/ \E kind \in Kinds : Publish(kind)
    \/ \E s \in Sinks :
          \/ Skip(s) \/ Take(s)
          \/ Succeeds(s) \/ Refused(s) \/ TryLater(s) \/ Panics(s) \/ Wakes(s)
          \/ Tell(s) \/ Cancel(s) \/ Stop(s)

Spec == Init /\ [][Next]_vars
-----------------------------------------------------------------------------
TypeOK ==
    /\ \A i \in DOMAIN log : log[i].kind \in Kinds \cup {Dispatched, Failed} /\ log[i].trigger < i
    /\ \A s \in Sinks :
          /\ Len(queue[s]) <= Capacity
          /\ task[s].pc \in {"waiting", "sending", "sleeping", "telling", "stopped", "panicked"}
          /\ task[s].pc \in {"sending", "sleeping"} => SinkConfigs[s].type = "http_post"
    /\ cancelled \subseteq Sinks

OutcomesOf(s) == {i \in DOMAIN log : log[i].sink = s}
Told(s) == {log[i].trigger : i \in OutcomesOf(s)}

(* "Each successful POST emits an OutboundDispatched event; failures emit  *)
(* OutboundFailed": a sink tells of the events it has taken in the order   *)
(* of the bus, once each, those excepted whose outcome could not be        *)
(* published, the one under way, and one on which the task panicked.       *)
OutcomeInOrder ==
    \A s \in Sinks :
        SinkConfigs[s].type # "stdout" =>
            /\ Told(s) = {e \in Range(handled[s]) : <<s, e>> \notin untold /\ e # task[s].event}
            /\ \A i, j \in OutcomesOf(s) : i < j => log[i].trigger < log[j].trigger
            /\ \A i, j \in DOMAIN handled[s] : i < j => handled[s][i] < handled[s][j]

(* No more attempts than configured, none after a final answer, and no     *)
(* server can make a sink sleep longer than the ceiling.                   *)
RetriesJustified ==
    \A s \in Sinks :
        LET replies == task[s].replies IN
        /\ Len(replies) <= SinkConfigs[s].attempts
        /\ \A i \in 1..(Len(replies) - 1) :
              replies[i] \in {"server_error", "rate_limited", "network_error"}
        /\ task[s].delay \in 0..MaxDelay \cup Range(SinkConfigs[s].backoff)

SinksSound == OutcomeInOrder /\ RetriesJustified

(* The same promise of docs/connectors.md without the exception: a sink    *)
(* that is no longer at work on an event has told of it.                   *)
FailureTold ==
    \A s \in Sinks :
        SinkConfigs[s].type # "stdout" /\ task[s].pc \notin {"sending", "sleeping", "telling"} =>
            \A i \in DOMAIN handled[s] :
                <<s, handled[s][i]>> \in untold \/ handled[s][i] \in Told(s)

(* "an outbound retry loop completes the current attempt before checking   *)
(* the cancel token": a cancelled sink starts no further attempt.          *)
NoAttemptAfterCancel ==
    [][\A s \in Sinks : s \in cancelled /\ task[s].pc = "sleeping" => task'[s].pc # "sending"]_vars
=============================================================================
