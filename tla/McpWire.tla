-------------------------------- MODULE McpWire --------------------------------
(***************************************************************************)
(* The wire of `zymi mcp serve` (mcp/server/mod.rs, link.rs): one loop     *)
(* reads the client's lines and spawns a task for each; the tasks hand     *)
(* their frames to one writer through an unbounded queue.  A task may send *)
(* a request of the server's own and wait for the line that answers it.    *)
(*                                                                         *)
(* A line is known by its position; what runs behind a tools/call is       *)
(* McpServer's.                                                            *)
(***************************************************************************)
EXTENDS Naturals, Sequences, SequencesExt, FiniteSets

CONSTANTS
    Lines,             \* what a client may send, see Line
    MaxLines,
    Pipelines,         \* [name, exposed, tool]
    Include, Exclude,  \* the names the patterns of the command line match
    AnyName,           \* whether no --include was given
    Observed           \* the zymi.runs.* tools, or {}

None == "none"

(* kind: "garbage", "answer" (no method, an id), "odd" (neither),          *)
(* "misshapen" or "call"; of a call: id "given", "null" or "absent", tool  *)
(* and arguments of a tools/call, task whether it is task-augmented; caps  *)
(* of an initialize.                                                       *)
Line == [kind : {"garbage", "answer", "odd", "misshapen", "call"}, id : {"given", "null", "absent"},
         version : BOOLEAN, method : STRING, params : BOOLEAN, tool : STRING,
         arguments : {"object", "null", "other"}, task : BOOLEAN, caps : BOOLEAN, answers : Nat]

VARIABLES
    inbox,    \* lines sent and not read
    read,     \* every line read, in order
    client,   \* "open" or "closed": its end of the pipe
    jobs,     \* line -> "new", "asking", "told" or "none": the task that handles it
    asks,     \* line -> the number of the server's request it waits for, or 0
    caps,     \* OnceLock: "unset", "yes", "no"
    next_id, pending,   \* McpClientLink
    delivered,          \* <<request, line>>: the answers handed to their waiters
    queue, wire,        \* frames: [type, of, good]
    writer,   \* "on", "broken" or "aborted"
    over,     \* the loop has ended
    ran       \* <<line, pipeline>>

vars == <<inbox, read, client, jobs, asks, caps, next_id, pending, delivered, queue, wire, writer, over, ran>>

Frame(type, of, good) == [type |-> type, of |-> of, good |-> good]
All == wire \o queue
Init ==
    /\ inbox = << >> /\ read = << >> /\ client = "open"
    /\ jobs = [n \in 1..MaxLines |-> None] /\ asks = [n \in 1..MaxLines |-> 0]
    /\ caps = "unset" /\ next_id = 0 /\ pending = {} /\ delivered = {}
    /\ queue = << >> /\ wire = << >> /\ writer = "on"
    /\ over = FALSE
    /\ ran = {}

(* The client answers only what it has read.                               *)
Send ==
    \E l \in Lines :
        /\ client = "open" /\ Len(read) + Len(inbox) < MaxLines
        /\ l.kind = "answer" => \E i \in DOMAIN wire : wire[i].type = "request" /\ wire[i].of = l.answers
        /\ inbox' = Append(inbox, l)
        /\ UNCHANGED <<read, client, jobs, asks, caps, next_id, pending, delivered, queue, wire, writer, over, ran>>

Close ==
    /\ client = "open"
    /\ client' = "closed"
    /\ UNCHANGED <<inbox, read, jobs, asks, caps, next_id, pending, delivered, queue, wire, writer, over, ran>>
-----------------------------------------------------------------------------
(* outbound.send: what is sent once the writer has gone is dropped.        *)
Push(frames) == queue' = IF writer = "on" THEN queue \o frames ELSE queue

\* a slip: a notification whose version is wrong is answered
Dispatch_answers(l, n) ==
    CASE l.kind \in {"garbage", "misshapen"} -> Push(<< Frame("response", 0, FALSE) >>) /\ UNCHANGED jobs
      [] l.kind = "odd" -> UNCHANGED <<queue, jobs>>
      [] l.kind = "call" /\ ~l.version -> Push(<< Frame("response", n, FALSE) >>) /\ UNCHANGED jobs
      [] OTHER -> jobs' = [jobs EXCEPT ![n] = "new"] /\ UNCHANGED queue

(* dispatch_inbound: `"id": null` reads as no id.                          *)
Dispatch(l, n) ==
    CASE l.kind \in {"garbage", "misshapen"} -> Push(<< Frame("response", 0, FALSE) >>) /\ UNCHANGED jobs
      [] l.kind = "odd" -> UNCHANGED <<queue, jobs>>
      [] l.kind = "call" /\ ~l.version /\ l.id = "given" -> Push(<< Frame("response", n, FALSE) >>) /\ UNCHANGED jobs
      [] l.kind = "call" /\ ~l.version /\ l.id # "given" -> UNCHANGED <<queue, jobs>>
      [] OTHER -> jobs' = [jobs EXCEPT ![n] = "new"] /\ UNCHANGED queue

ReadLine ==
    /\ ~over /\ inbox # << >>
    /\ inbox' = Tail(inbox) /\ read' = Append(read, Head(inbox))
    /\ Dispatch(Head(inbox), Len(read) + 1)
    /\ UNCHANGED <<client, asks, caps, next_id, pending, delivered, wire, writer, over, ran>>

Done(n) == jobs' = [jobs EXCEPT ![n] = None]

(* deliver_response.                                                       *)
Deliver(n) ==
    LET k == read[n].answers IN
    /\ ~over /\ jobs[n] = "new" /\ read[n].kind = "answer"
    /\ delivered' = IF k \in pending THEN delivered \cup {<<k, n>>} ELSE delivered
    /\ pending' = pending \ {k}
    /\ Done(n)
    /\ UNCHANGED <<inbox, read, client, asks, caps, next_id, queue, wire, writer, over, ran>>

(* handle_notification: whatever it does, it tells nobody.                 *)
Notification(n) ==
    /\ ~over /\ jobs[n] = "new" /\ read[n].kind = "call" /\ read[n].id # "given"
    /\ Done(n)
    /\ UNCHANGED <<inbox, read, client, asks, caps, next_id, pending, delivered, queue, wire, writer, over, ran>>

IsRequest(n) == read[n].kind = "call" /\ read[n].id = "given"

(* PipelineFilter::matches. *)
Passes(name) == (AnyName \/ name \in Include) /\ name \notin Exclude
Exposed == {p \in Pipelines : Passes(p.name) /\ p.exposed}
Listed == {p.tool : p \in Exposed} \cup Observed

NeedsParams == {"tools/call", "tasks/get", "tasks/result", "tasks/cancel", "zymi/reasoning/resume"}
Plain == {"initialize", "tools/list", "tasks/list", "ping"}

Respond(n, frames) ==
    /\ Push(frames)
    /\ Done(n)
    /\ UNCHANGED <<inbox, read, client, asks, next_id, pending, delivered, wire, writer, over>>

(* The methods that answer at once; set_caps keeps the first word.         *)
Handle(n) ==
    LET l == read[n] IN
    /\ ~over /\ jobs[n] = "new" /\ IsRequest(n) /\ l.method # "tools/call"
    /\ \E good \in BOOLEAN :
        /\ good => l.method \in Plain \/ (l.method \in NeedsParams /\ l.params)
        /\ l.method \in Plain => good
        /\ Respond(n, << Frame("response", n, good) >>)
    /\ caps' = IF l.method = "initialize" /\ l.params /\ caps = "unset" THEN (IF l.caps THEN "yes" ELSE "no") ELSE caps
    /\ UNCHANGED ran

Refused(l) ==
    \/ ~l.params
    \/ l.tool \notin Listed
    \/ l.tool \notin Observed /\ l.arguments = "other"

CallRefused(n) ==
    /\ ~over /\ jobs[n] = "new" /\ IsRequest(n) /\ read[n].method = "tools/call" /\ Refused(read[n])
    /\ Respond(n, << Frame("response", n, FALSE) >>)
    /\ UNCHANGED <<caps, ran>>

Observe(n) ==
    /\ ~over /\ jobs[n] = "new" /\ IsRequest(n) /\ read[n].method = "tools/call"
    /\ read[n].params /\ read[n].tool \in Observed
    /\ \E good \in BOOLEAN : Respond(n, << Frame("response", n, good) >>)
    /\ UNCHANGED <<caps, ran>>

\* a slip: the name alone decides
Resolvable_named(tool) == {p \in Pipelines : p.exposed /\ p.tool = tool}

(* resolve_exposed_pipeline: the first of a HashMap, whichever that is.    *)
Resolvable(tool) == {p \in Exposed : p.tool = tool}

MayRun(n) ==
    /\ ~over /\ jobs[n] = "new" /\ IsRequest(n) /\ read[n].method = "tools/call"
    /\ ~Refused(read[n]) /\ read[n].tool \notin Observed
RunsPipeline(n) == \E p \in Resolvable(read[n].tool) : ran' = ran \cup {<<n, p.name>>}

(* A task-augmented call: the response follows the notification; or the    *)
(* task id is in use.                                                      *)
CallTask(n) ==
    /\ MayRun(n) /\ read[n].task
    /\ \/ RunsPipeline(n) /\ Respond(n, << Frame("created", n, TRUE), Frame("response", n, TRUE) >>)
       \/ UNCHANGED ran /\ Respond(n, << Frame("response", n, FALSE) >>)
    /\ UNCHANGED caps

CallSync(n) ==
    /\ MayRun(n) /\ RunsPipeline(n) /\ ~read[n].task
    /\ jobs' = [jobs EXCEPT ![n] = "told"]
    /\ UNCHANGED <<inbox, read, client, asks, caps, next_id, pending, delivered, queue, wire, writer, over>>

(* The run comes to an approval: McpClientLink::request.                   *)
Ask(n) ==
    /\ ~over /\ jobs[n] = "told" /\ asks[n] = 0 /\ caps = "yes"
    /\ next_id' = next_id + 1
    /\ IF writer = "on"
       THEN /\ pending' = pending \cup {next_id + 1}
            /\ asks' = [asks EXCEPT ![n] = next_id + 1]
            /\ jobs' = [jobs EXCEPT ![n] = "asking"]
       ELSE UNCHANGED <<pending, asks, jobs>>
    /\ Push(<< Frame("request", next_id + 1, TRUE) >>)
    /\ next_id < MaxLines
    /\ UNCHANGED <<inbox, read, client, caps, delivered, wire, writer, over, ran>>

(* The answer, or the time an approval has; a late answer finds its sender *)
(* still pending and nobody who listens.                                   *)
AskEnds(n) ==
    /\ ~over /\ jobs[n] = "asking"
    /\ jobs' = [jobs EXCEPT ![n] = "told"]
    /\ UNCHANGED <<inbox, read, client, asks, caps, next_id, pending, delivered, queue, wire, writer, over, ran>>

RunEnds(n) ==
    /\ ~over /\ jobs[n] = "told"
    /\ Respond(n, << Frame("response", n, TRUE) >>)
    /\ UNCHANGED <<caps, ran>>

Job(n) == \/ Deliver(n) \/ Notification(n) \/ Handle(n) \/ CallRefused(n) \/ Observe(n)
          \/ CallTask(n) \/ CallSync(n) \/ Ask(n) \/ AskEnds(n) \/ RunEnds(n)
-----------------------------------------------------------------------------
WriteFrame ==
    /\ writer = "on" /\ queue # << >>
    /\ \/ wire' = Append(wire, Head(queue)) /\ queue' = Tail(queue) /\ UNCHANGED writer
       \/ writer' = "broken" /\ queue' = << >> /\ UNCHANGED wire
    /\ UNCHANGED <<inbox, read, client, jobs, asks, caps, next_id, pending, delivered, over, ran>>

(* EOF: the writer is aborted, whatever the queue and the tasks hold.      *)
EndOfFile ==
    /\ ~over /\ client = "closed" /\ inbox = << >>
    /\ over' = TRUE
    /\ writer' = IF writer = "on" THEN "aborted" ELSE writer
    /\ UNCHANGED <<inbox, read, client, jobs, asks, caps, next_id, pending, delivered, queue, wire, ran>>

Next ==
    \/ Send \/ Close \/ ReadLine \/ WriteFrame \/ EndOfFile
    \/ \E n \in 1..Len(read) : Job(n)

Spec == Init /\ [][Next]_vars
-----------------------------------------------------------------------------
TypeOK ==
    /\ ToSet(inbox \o read) \subseteq Line /\ Len(read) + Len(inbox) <= MaxLines
    /\ \A n \in 1..MaxLines : jobs[n] # None => n <= Len(read)
    /\ \A n \in 1..MaxLines : asks[n] <= next_id
    /\ pending \subseteq 1..next_id
    /\ over => writer # "on"

Count(type, n) == Cardinality({i \in DOMAIN All : All[i].type = type /\ All[i].of = n})

(* Every request is answered exactly once, unless the session ends before; *)
(* what is no request is not answered; the notification that a task exists *)
(* is ahead of the response that names it; an answer reaches the request   *)
(* it was for; and no pipeline runs that is not listed.                    *)
WireSound ==
    /\ \A n \in DOMAIN read :
        /\ Count("response", n) <= 1
        /\ ~IsRequest(n) => Count("response", n) = 0
        /\ IsRequest(n) /\ jobs[n] = None /\ writer = "on" => Count("response", n) = 1
        /\ \A i \in DOMAIN All : All[i].type = "created" /\ All[i].of = n =>
              \A j \in DOMAIN All : All[j].type = "response" /\ All[j].of = n => i < j
    /\ \A d \in delivered : read[d[2]].answers = d[1] /\ \E i \in DOMAIN wire : wire[i] = Frame("request", d[1], TRUE)
    /\ \A d \in delivered : d[1] \notin pending
    /\ \A r \in ran : \E p \in Pipelines : p.name = r[2] /\ p.exposed /\ Passes(p.name)

(* "Any in-flight response was already flushed": at the end of the input   *)
(* no response is left unwritten.                                          *)
FlushedAtEnd ==
    writer = "aborted" => \A n \in DOMAIN read : IsRequest(n) => \E i \in DOMAIN wire : wire[i].type = "response" /\ wire[i].of = n

(* "The spec allows `id` to be a number, string, or null": a request whose *)
(* id is null is answered.                                                 *)
NullIdAnswered ==
    \A n \in DOMAIN read :
        read[n].kind = "call" /\ read[n].id = "null" /\ jobs[n] = None /\ writer = "on"
            => \E i \in DOMAIN All : All[i].type = "response"
=============================================================================
