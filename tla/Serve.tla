--------------------------------- MODULE Serve ---------------------------------
(***************************************************************************)
(* `zymi serve` (cli/serve.rs): the runtime is built, which starts the     *)
(* connectors, then the approval channels, the tail watcher and at last    *)
(* the router (runtime/event_router.rs), which subscribes to the bus and   *)
(* turns every PipelineRequested of a served pipeline into a run of its    *)
(* own and a PipelineCompleted.  Requests come from the inbound connectors *)
(* http_inbound, cron, file_read and stdin, which publish a message and    *)
(* then the request, and, through the watcher, from other processes.       *)
(*                                                                         *)
(* A run is taken as a whole (PipelineRun has its steps); the watcher      *)
(* delivers what was appended since it began (TailDelivery).               *)
(***************************************************************************)
EXTENDS Naturals, Sequences, FiniteSets, SequencesExt

CONSTANTS
    Projects,   \* [pipelines, served, all, file_ok, channels_ok]
    Feeders,    \* the cron, file_read and stdin connectors
    Handlers,   \* requests http_inbound handles at a time
    Corrs,      \* correlation ids a webhook's body may carry
    Wanted,     \* pipelines the connectors ask for
    Capacity,   \* the bus's buffer for the router
    MaxLog,     \* bound on the log
    MaxTicks    \* bound on the contents a feeder emits

VARIABLES
    project,  \* the workspace and the command line
    phase,    \* "checking", "building", "channels", "watching", "routing", "stopping",
              \* "stopped", "failed"
    feeder,   \* connector -> [type, pc, ticks, pipeline]
    handler,  \* handler -> [pc, corr, reply]
    log,      \* the store: [kind, corr, pipeline, by, of]
    inbox,    \* the router's subscription: indexes of the log; it hears when routing
    run,      \* index of a request -> "spawned", "completed", "untold"
    missed    \* [request, why]: requests that no subscription of the router got

vars == <<project, phase, feeder, handler, log, inbox, run, missed>>

Routing == phase = "routing"
ConnectorsUp == phase \in {"channels", "watching", "routing", "stopping"}
Served == IF project.all THEN project.pipelines ELSE project.served
-----------------------------------------------------------------------------
Idle == [pc |-> "idle", corr |-> "none", pipeline |-> "none", reply |-> 0]

Init ==
    /\ project \in Projects
    /\ phase = "checking"
    /\ \E type \in [Feeders -> {"cron", "file_read", "stdin"}] :
          feeder = [c \in Feeders |->
                      [type |-> type[c], pc |-> "down", ticks |-> 0, pipeline |-> "none"]]
    /\ handler = [h \in Handlers |-> Idle]
    /\ log = << >>
    /\ inbox = << >>
    /\ run = << >>
    /\ missed = {}

(* exec: the served set is checked against the workspace. *)
Check ==
    /\ phase = "checking"
    /\ phase' = IF Served = {} \/ ~(Served \subseteq project.pipelines)
                THEN "failed" ELSE "building"
    /\ UNCHANGED <<project, feeder, handler, log, inbox, run, missed>>

(* build_async starts the connectors; file_read fails it when its file     *)
(* cannot be read.                                                         *)
Readable == project.file_ok \/ \A c \in Feeders : feeder[c].type # "file_read"

Build ==
    /\ phase = "building"
    /\ phase' = IF Readable THEN "channels" ELSE "failed"
    /\ feeder' = [c \in Feeders |-> IF Readable THEN [feeder[c] EXCEPT !.pc = "running"]
                                    ELSE feeder[c]]
    /\ UNCHANGED <<project, handler, log, inbox, run, missed>>

(* An approval channel that does not start fails serve; the connectors are *)
(* not shut down, they go with the process.                                *)
StartChannels ==
    /\ phase = "channels"
    /\ phase' = IF project.channels_ok THEN "watching" ELSE "failed"
    /\ UNCHANGED <<project, feeder, handler, log, inbox, run, missed>>

(* The watcher runs, the router subscribes.                                *)
Subscribe ==
    /\ phase = "watching"
    /\ phase' = "routing"
    /\ UNCHANGED <<project, feeder, handler, log, inbox, run, missed>>
-----------------------------------------------------------------------------
(* EventBus::publish, and what the router's subscription gets of it.       *)
Event(kind, corr, pipeline, by) ==
    [kind |-> kind, corr |-> corr, pipeline |-> pipeline, by |-> by, of |-> 0]

Publish(e) ==
    LET i == Len(log) + 1
        heard == Routing /\ Len(inbox) < Capacity
    IN /\ Len(log) < MaxLog
       /\ log' = Append(log, e)
       /\ inbox' = IF heard THEN Append(inbox, i) ELSE inbox
       /\ missed' = IF heard \/ e.kind # "request" THEN missed
                     ELSE missed \cup {[request |-> i,
                                        why |-> CASE Routing -> "full"
                                                  [] phase = "stopping" -> "late"
                                                  [] OTHER -> "early"]}

PublishFails == UNCHANGED <<log, inbox, missed>>

(* emit of the three: the message first, and nothing after one that could  *)
(* not be published.                                                       *)
Emit(c) ==
    \E p \in Wanted \cup {"none"} :
        /\ ConnectorsUp /\ feeder[c].pc = "running" /\ feeder[c].ticks < MaxTicks
        /\ \/ /\ Publish(Event("message", <<c, feeder[c].ticks>>, p, c))
              /\ feeder' = [feeder EXCEPT ![c].pc = IF p = "none" THEN "running" ELSE "asking",
                                          ![c].pipeline = p,
                                          ![c].ticks = IF p = "none" THEN @ + 1 ELSE @]
           \/ /\ PublishFails
              /\ feeder' = [feeder EXCEPT ![c].ticks = @ + 1]
        /\ UNCHANGED <<project, phase, handler, run>>

EmitRequest(c) ==
    /\ ConnectorsUp /\ feeder[c].pc = "asking"
    /\ Publish(Event("request", <<c, feeder[c].ticks>>, feeder[c].pipeline, c)) \/ PublishFails
    /\ feeder' = [feeder EXCEPT ![c].pc = "running", ![c].ticks = @ + 1]
    /\ UNCHANGED <<project, phase, handler, run>>

FeedEnds(c) ==
    /\ ConnectorsUp /\ feeder[c].pc = "running"
    /\ feeder' = [feeder EXCEPT ![c].pc = "ended"]
    /\ UNCHANGED <<project, phase, handler, log, inbox, run, missed>>

(* A tick of the schedule, or its last; a line of the file, or the whole   *)
(* of it; a line of stdin, its end or an error reading it.                 *)
Cron(c) == feeder[c].type = "cron" /\ (Emit(c) \/ EmitRequest(c) \/ FeedEnds(c))
FileRead(c) == feeder[c].type = "file_read" /\ (Emit(c) \/ EmitRequest(c) \/ FeedEnds(c))
Stdin(c) == feeder[c].type = "stdin" /\ (Emit(c) \/ EmitRequest(c) \/ FeedEnds(c))

(* handle_webhook: authentication, the body, the fields; a body without a  *)
(* correlation id gets a new one.                                          *)
Refuse(h) ==
    \E code \in {400, 401} :
        /\ ConnectorsUp /\ phase # "stopping" /\ handler[h].pc = "idle"
        /\ handler' = [handler EXCEPT ![h] = [Idle EXCEPT !.reply = code]]
        /\ UNCHANGED <<project, phase, feeder, log, inbox, run, missed>>

Accept(h) ==
    \E corr \in Corrs, p \in Wanted \cup {"none"} :
        /\ ConnectorsUp /\ phase # "stopping" /\ handler[h].pc = "idle"
        /\ handler' = [handler EXCEPT ![h] =
                          [pc |-> "message", corr |-> corr, pipeline |-> p, reply |-> 0]]
        /\ UNCHANGED <<project, phase, feeder, log, inbox, run, missed>>

\* a slip: the reply does not wait for the message
HookMessage_early(h) ==
    /\ handler[h].pc = "message"
    /\ \/ Publish(Event("message", handler[h].corr, handler[h].pipeline, h))
       \/ PublishFails
    /\ handler' = [handler EXCEPT ![h].pc = IF handler[h].pipeline = "none" THEN "idle" ELSE "request",
                                  ![h].reply = IF handler[h].pipeline = "none" THEN 200 ELSE 0]
    /\ UNCHANGED <<project, phase, feeder, run>>

HookMessage(h) ==
    /\ ConnectorsUp /\ handler[h].pc = "message"
    /\ \/ /\ Publish(Event("message", handler[h].corr, handler[h].pipeline, h))
          /\ handler' = [handler EXCEPT ![h].pc = IF handler[h].pipeline = "none" THEN "idle" ELSE "request",
                                        ![h].reply = IF handler[h].pipeline = "none" THEN 200 ELSE 0]
       \/ /\ PublishFails
          /\ handler' = [handler EXCEPT ![h] = [Idle EXCEPT !.reply = 500]]
    /\ UNCHANGED <<project, phase, feeder, run>>

(* A request that cannot be published is only logged: the reply is 200.    *)
HookRequest(h) ==
    /\ ConnectorsUp /\ handler[h].pc = "request"
    /\ Publish(Event("request", handler[h].corr, handler[h].pipeline, h)) \/ PublishFails
    /\ handler' = [handler EXCEPT ![h].pc = "idle", ![h].reply = 200]
    /\ UNCHANGED <<project, phase, feeder, run>>

(* A request of another process, which the watcher redelivers.             *)
Remote ==
    \E p \in Wanted :
        /\ Routing /\ Publish(Event("request", "remote", p, "remote"))
        /\ UNCHANGED <<project, phase, feeder, handler, run>>
-----------------------------------------------------------------------------
(* dispatch: every other event is passed over, and so is a pipeline that   *)
(* is not served.                                                          *)
Accepted(e) == e.kind = "request" /\ (project.all \/ e.pipeline \in project.served)

\* a slip: the router dispatches the next event without taking this one off
Dispatch_twice ==
    LET i == Head(inbox) IN
    /\ Routing /\ inbox # << >>
    /\ inbox' \in {inbox, Tail(inbox)}
    /\ run' = IF Accepted(log[i]) THEN Append(run, [request |-> i, pc |-> "spawned"]) ELSE run
    /\ Len(run) < MaxLog
    /\ UNCHANGED <<project, phase, feeder, handler, log, missed>>

Dispatch ==
    LET i == Head(inbox) IN
    /\ Routing /\ inbox # << >>
    /\ inbox' = Tail(inbox)
    /\ run' = IF Accepted(log[i]) THEN Append(run, [request |-> i, pc |-> "spawned"]) ELSE run
    /\ UNCHANGED <<project, phase, feeder, handler, log, missed>>

(* The task of a request: an unknown pipeline is completed at once, any    *)
(* other after its run, whose success or error the completion carries; a   *)
(* completion that cannot be published is only logged.                     *)
Complete(r) ==
    LET e == log[run[r].request] IN
    /\ phase \in {"routing", "stopping"} /\ run[r].pc = "spawned"
    /\ \/ /\ \E kind \in (IF e.pipeline \in project.pipelines THEN {"succeeded", "failed"} ELSE {"failed"}) :
                Publish([Event(kind, e.corr, e.pipeline, "router") EXCEPT !.of = run[r].request])
          /\ run' = [run EXCEPT ![r].pc = "completed"]
       \/ /\ PublishFails
          /\ run' = [run EXCEPT ![r].pc = "untold"]
    /\ UNCHANGED <<project, phase, feeder, handler>>

(* Ctrl-C: the router's loop is dropped, the connectors finish what they   *)
(* are at; then the process ends, and with it whatever runs.               *)
Interrupt ==
    /\ Routing
    /\ phase' = "stopping"
    /\ inbox' = << >>
    /\ feeder' = [c \in Feeders |-> IF feeder[c].pc = "running"
                                    THEN [feeder[c] EXCEPT !.pc = "ended"] ELSE feeder[c]]
    /\ UNCHANGED <<project, handler, log, run, missed>>

Stop ==
    /\ phase = "stopping"
    /\ phase' = "stopped"
    /\ UNCHANGED <<project, feeder, handler, log, inbox, run, missed>>

Next ==
    \/ Check \/ Build \/ StartChannels \/ Subscribe
    \/ \E c \in Feeders : Cron(c) \/ FileRead(c) \/ Stdin(c)
    \/ \E h \in Handlers : Refuse(h) \/ Accept(h) \/ HookMessage(h) \/ HookRequest(h)
    \/ Remote \/ Dispatch
    \/ \E r \in DOMAIN run : Complete(r)
    \/ Interrupt \/ Stop

Spec == Init /\ [][Next]_vars
-----------------------------------------------------------------------------
TypeOK ==
    /\ project \in Projects
    /\ phase \in {"checking", "building", "channels", "watching", "routing", "stopping",
                  "stopped", "failed"}
    /\ \A c \in Feeders : feeder[c].pc \in {"down", "running", "asking", "ended"}
    /\ \A h \in Handlers :
          /\ handler[h].pc \in {"idle", "message", "request"}
          /\ handler[h].reply \in {0, 200, 400, 401, 500}
    /\ \A i \in DOMAIN inbox : inbox[i] \in DOMAIN log
    /\ \A r \in DOMAIN run : log[run[r].request].kind = "request"
    /\ \A m \in missed : log[m.request].kind = "request"

Completions(i) == {k \in DOMAIN log : log[k].of = i}

(* A request is run at most once and answered at most once, only by a run  *)
(* of it, on its own correlation and only if its pipeline is served; one   *)
(* that the router has neither missed nor still holds has a run; an        *)
(* unknown pipeline never succeeds.                                        *)
OneRunPerRequest ==
    \A i \in {j \in DOMAIN log : log[j].kind = "request"} :
        LET runs == {r \in DOMAIN run : run[r].request = i} IN
        /\ Cardinality(runs) <= 1
        /\ runs # {} => log[i].pipeline \in Served \/ project.all
        /\ Cardinality(Completions(i)) = Cardinality({r \in runs : run[r].pc = "completed"})
        /\ \A k \in Completions(i) :
              /\ k > i /\ log[k].corr = log[i].corr
              /\ log[k].kind = "succeeded" => log[i].pipeline \in project.pipelines
        /\ Routing /\ (\A m \in missed : m.request # i) /\ i \notin Range(inbox) /\ Accepted(log[i]) => runs # {}

(* A connector's request follows its message, with the same correlation:   *)
(* who reads the stream finds what a run was asked for.                    *)
MessageFirst ==
    \A i \in DOMAIN log :
        log[i].kind = "request" /\ log[i].by # "remote" =>
            LET By(kind, n) == {k \in 1..n : log[k].kind = kind /\ log[k].by = log[i].by
                                              /\ log[k].corr = log[i].corr}
            IN Cardinality(By("request", i)) <= Cardinality(By("message", i))

ServeSound == OneRunPerRequest /\ MessageFirst

(* A connector "optionally pairs it with a `PipelineRequested` event so    *)
(* `zymi serve <pipeline>` reacts" (docs/connectors.md): no request of a   *)
(* connector is published before the router listens.                       *)
RequestsReachRouter == \A m \in missed : m.why # "early"
=============================================================================
