------------------------------ MODULE MCEdges -------------------------------
(*****************************************************************************)
(* Small instances of the components at the edges of a process, what comes   *)
(* in, what goes out and who looks on, each by itself: one of them is        *)
(* chosen in the initial state, and its variables are the slots v1 to v14.   *)
(* The bounds of a component are the WITH of its instance.                   *)
(*****************************************************************************)
EXTENDS Naturals, Sequences, FiniteSets

VARIABLES
    part,  \* the component that runs
    v1, v2, v3, v4, v5, v6, v7, v8, v9, v10, v11, v12, v13, v14  \* its variables, in the order of its module

vars == <<part, v1, v2, v3, v4, v5, v6, v7, v8, v9, v10, v11, v12, v13, v14>>

\* the slots a component with fewer variables leaves alone
Rest14 == <<v14>>
Rest13 == <<v13, Rest14>>
Rest12 == <<v12, Rest13>>
Rest11 == <<v11, Rest12>>
Rest10 == <<v10, Rest11>>
Rest9 == <<v9, Rest10>>
Rest8 == <<v8, Rest9>>
Rest7 == <<v7, Rest8>>
Rest6 == <<v6, Rest7>>
Rest5 == <<v5, Rest6>>
Rest4 == <<v4, Rest5>>
Rest3 == <<v3, Rest4>>
None14 == v14 = 0
None13 == v13 = 0 /\ None14
None12 == v12 = 0 /\ None13
None11 == v11 = 0 /\ None12
None10 == v10 = 0 /\ None11
None9 == v9 = 0 /\ None10
None8 == v8 = 0 /\ None9
None7 == v7 = 0 /\ None8
None6 == v6 = 0 /\ None7
None5 == v5 = 0 /\ None6
None4 == v4 = 0 /\ None5
None3 == v3 = 0 /\ None4
-----------------------------------------------------------------------------
(* Sinks: one that posts and retries, a file and standard output.          *)
SinkOf(type, on, attempts) == [type |-> type, on |-> on, attempts |-> attempts, backoff |-> << >>]
SinkSet == [post |-> SinkOf("http_post", {"response_ready", "outbound_failed"}, 2),
            file |-> SinkOf("file_append", {}, 0),
            out |-> SinkOf("stdout", {"response_ready"}, 0)]

(* Serve: what `zymi serve` may find in the project.                       *)
Healthy == [pipelines |-> {"p", "q"}, served |-> {"p"}, all |-> FALSE, file_ok |-> TRUE, channels_ok |-> TRUE]
ServedProjects == {Healthy, [Healthy EXCEPT !.all = TRUE], [Healthy EXCEPT !.served = {"x"}], [Healthy EXCEPT !.served = {}],
                   [Healthy EXCEPT !.file_ok = FALSE], [Healthy EXCEPT !.channels_ok = FALSE]}

(* McpWire: lines of a client, and three pipelines of one tool name.       *)
Line(kind) == [kind |-> kind, id |-> "given", version |-> TRUE, method |-> "ping", params |-> TRUE, tool |-> "none",
               arguments |-> "object", task |-> FALSE, caps |-> FALSE, answers |-> 1]
Call(method) == [Line("call") EXCEPT !.method = method]
ToolCall(tool) == [Call("tools/call") EXCEPT !.tool = tool]
ClientLines == {Line("garbage"), Line("odd"), Line("answer"), [Line("answer") EXCEPT !.answers = 2], [Line("call") EXCEPT !.version = FALSE],
                [Call("notifications/cancelled") EXCEPT !.id = "absent", !.version = FALSE], [Call("ping") EXCEPT !.id = "null"],
                [Call("initialize") EXCEPT !.caps = TRUE], Call("tasks/get"), Call("unknown"), ToolCall("a"),
                [ToolCall("a") EXCEPT !.task = TRUE], ToolCall("hidden"), ToolCall("zymi.runs.list")}
Exposed(n, tool) == [name |-> n, exposed |-> TRUE, tool |-> tool]
ToolPipelines == {Exposed("p", "a"), Exposed("q", "a"), Exposed("r", "a"), [name |-> "h", exposed |-> FALSE, tool |-> "hidden"]}

(* Observe: a pipeline of two steps and what a run of it may append.       *)
Happening(kind, ok) == [kind |-> kind, node |-> "a", ok |-> ok]
Shown == <<[id |-> "b", deps |-> {"a"}], [id |-> "a", deps |-> {}]>>
-----------------------------------------------------------------------------
Poll == INSTANCE Poller WITH
    Processes <- {"p"}, Ids <- {8, 9, 10}, Ignored <- {8}, Batch <- 2, PlusOne <- TRUE,
    Persist <- TRUE, MaxStarts <- 2, arrived <- v1, saved <- v2, life <- v3, starts <- v4,
    cursor <- v5, items <- v6, todo <- v7, fired <- v8, told <- v9, lost <- v10

Sink == INSTANCE Sinks WITH
    SinkConfigs <- SinkSet, Kinds <- {"response_ready"}, Hints <- {86400}, Capacity <- 1,
    MaxEvents <- 2, log <- v1, queue <- v2, task <- v3, handled <- v4, untold <- v5,
    cancelled <- v6

Served == INSTANCE Serve WITH
    Projects <- ServedProjects, Feeders <- {"f"}, Handlers <- {"h"}, Corrs <- {"c"},
    Wanted <- {"p"}, Capacity <- 2, MaxLog <- 3, MaxTicks <- 1, project <- v1, phase <- v2,
    feeder <- v3, handler <- v4, log <- v5, inbox <- v6, run <- v7, missed <- v8

Submitted == INSTANCE Submit WITH
    Callers <- {"c", "d"}, Capacity <- 3, MaxProgress <- 3, call <- v1, inbox <- v2,
    registry <- v3, worker <- v4, senders <- v5

Service == INSTANCE Services WITH
    Steps <- {"a", "b"}, CorrOf <- [s \in {"a", "b"} |-> "c"], BatchSize <- 2, Capacity <- 2,
    MaxEvents <- 6, step <- v1, events <- v2, inbox <- v3, service <- v4, trace_map <- v5,
    active_generation <- v6, span_map <- v7, batch <- v8, sent <- v9, lost <- v10

Mcp == INSTANCE McpServer WITH
    Calls <- {"c", "d"}, TaskIds <- {"t"}, Resumers <- {"r"}, MaxAsks <- 1, MaxForms <- 0, MaxLost <- 1,
    caps <- v1, call <- v2, handles <- v3, state <- v4, run <- v5, asked <- v6, sealed <- v7,
    completed <- v8, shown <- v9, known <- v10, resume <- v11, pending <- v12, session <- v13, lost <- v14

Form == INSTANCE McpServer WITH
    Calls <- {"c"}, TaskIds <- {"t"}, Resumers <- {"r"}, MaxAsks <- 2, MaxForms <- 1, MaxLost <- 1,
    caps <- v1, call <- v2, handles <- v3, state <- v4, run <- v5, asked <- v6, sealed <- v7,
    completed <- v8, shown <- v9, known <- v10, resume <- v11, pending <- v12, session <- v13, lost <- v14

Wire == INSTANCE McpWire WITH
    Lines <- ClientLines, MaxLines <- 2, Pipelines <- ToolPipelines, Include <- {},
    Exclude <- {"q"}, AnyName <- TRUE, Observed <- {"zymi.runs.list"}, inbox <- v1, read <- v2,
    client <- v3, jobs <- v4, asks <- v5, caps <- v6, next_id <- v7, pending <- v8,
    delivered <- v9, queue <- v10, wire <- v11, writer <- v12, over <- v13, ran <- v14

Terminal == INSTANCE Asking WITH
    Asks <- {"a", "b"}, Approvals <- {"p"}, Elsewhere <- {}, MaxStarts <- 2, MaxLost <- 1, starts <- v1,
    up <- v2, waits <- v3, requested <- v4, decided <- v5, old <- v6, inbox <- v7, queue <- v8,
    open <- v9, shown <- v10, lines <- v11, closed <- v12, lost <- v13

Walks == INSTANCE StoreScan WITH
    Ids <- {"a", "b"}, Scanners <- {"s"}, Kinds <- {"list", "decide", "callback", "replay"},
    Page <- 2, MaxSeq <- 4, InOrder <- FALSE, log <- v1, scan <- v2

Pg == INSTANCE PgStore WITH
    Tasks <- {"t", "u"}, Streams <- {"r", "s"}, Events <- {"a", "b"}, Pool <- 2, MaxId <- 2,
    LockOf <- [s \in {"r", "s"} |-> s], rows <- v1, heads <- v2, last_id <- v3, tx <- v4,
    told <- v5, scan <- v6, view <- v7

OutOfOrder == INSTANCE TailDelivery WITH
    Local <- {"a"}, Remote <- {"c", "d"}, Old <- <<"o">>, Subs <- {"s"},
    Capacity <- [s \in {"s"} |-> 2], Wants <- [s \in {"s"} |-> {"a", "c", "d", "o"}],
    RingCapacity <- 1, BatchSize <- 2, MaxBatches <- 1, Serial <- FALSE, CursorErrors <- FALSE,
    rows <- v1, pc <- v2, ring <- v3, sub <- v4, got <- v5, taken <- v6, dropped <- v7,
    wpc <- v8, last_seen <- v9, batch <- v10, received <- v11, burst <- v12, start <- v13,
    seen <- v14

Mates == INSTANCE Approvals WITH
    Procs <- {"p"}, Watching <- {"p"}, Requests <- {"a", "b"},
    Owner <- [r \in {"a", "b"} |-> "p"], Corr <- [r \in {"a", "b"} |-> 1],
    Channel <- [r \in {"a", "b"} |-> IF r = "a" THEN "terminal" ELSE "telegram"],
    Contract <- [r \in {"a", "b"} |-> IF r = "b" THEN "approved" ELSE "human"], Forced <- {"b"},
    Clicks <- {"k"}, InboxCapacity <- 2, StoreErrors <- TRUE, MaxStarts <- 2, MaxNoise <- 0,
    log <- v1, req <- v2, inbox <- v3, aged <- v4, due <- v5, up <- v6, replay <- v7,
    cursor <- v8, prompts <- v9, listening <- v10, shown <- v11, click <- v12, starts <- v13,
    noise <- 0, missed <- v14

Screen == INSTANCE Observe WITH
    Steps <- Shown, Loadable <- {1},
    Happen <- {Happening("started", FALSE), Happening("completed", TRUE)}, MaxRuns <- 2,
    MaxEvents <- 2, Window <- 1, Grow <- 1, store <- v1, known <- v2, cursor <- v3, shown <- v4,
    at <- v5, expanded <- v6, top <- v7, earlier <- v8, node <- v9, focus <- v10, frozen <- v11,
    quit <- v12, prompt <- v13, forks <- v14

Views == INSTANCE RunViews WITH
    Runs <- {"r", "q"}, Steps <- {"a", "b"},
    Deps <- [s \in {"a", "b"} |-> IF s = "a" THEN {} ELSE {"a"}], Tasks <- {"r"},
    Texts <- {"empty", "x"}, Page <- 2, Limit <- 2, MaxLog <- 5, log <- v1, session <- v2,
    query <- v3, since <- v4, got <- v5, page <- v6, read <- v7, heard <- v8, answer <- v9
-----------------------------------------------------------------------------
Init ==
    \/ part = "Poll" /\ Poll!Init /\ None11
    \/ part = "Sink" /\ Sink!Init /\ None7
    \/ part = "Served" /\ Served!Init /\ None9
    \/ part = "Submitted" /\ Submitted!Init /\ None6
    \/ part = "Service" /\ Service!Init /\ None11
    \/ part = "Mcp" /\ Mcp!Init
    \/ part = "Form" /\ Form!Init
    \/ part = "Wire" /\ Wire!Init
    \/ part = "Terminal" /\ Terminal!Init /\ None14
    \/ part = "Walks" /\ Walks!Init /\ None3
    \/ part = "Pg" /\ Pg!Init /\ None8
    \/ part = "OutOfOrder" /\ OutOfOrder!Init
    \/ part = "Mates" /\ Mates!Init
    \/ part = "Screen" /\ Screen!Init
    \/ part = "Views" /\ Views!Init /\ None10

PollNext == part = "Poll" /\ Poll!Next /\ UNCHANGED <<part, Rest11>>
SinkNext == part = "Sink" /\ Sink!Next /\ UNCHANGED <<part, Rest7>>
ServedNext == part = "Served" /\ Served!Next /\ UNCHANGED <<part, Rest9>>
SubmittedNext == part = "Submitted" /\ Submitted!Next /\ UNCHANGED <<part, Rest6>>
ServiceNext == part = "Service" /\ Service!Next /\ UNCHANGED <<part, Rest11>>
McpNext == part = "Mcp" /\ Mcp!Next /\ UNCHANGED part
FormNext == part = "Form" /\ Form!Next /\ UNCHANGED part
WireNext == part = "Wire" /\ Wire!Next /\ UNCHANGED part
TerminalNext == part = "Terminal" /\ Terminal!Next /\ UNCHANGED <<part, Rest14>>
WalksNext == part = "Walks" /\ Walks!Next /\ UNCHANGED <<part, Rest3>>
PgNext == part = "Pg" /\ Pg!Next /\ UNCHANGED <<part, Rest8>>
OutOfOrderNext == part = "OutOfOrder" /\ OutOfOrder!Next /\ UNCHANGED part
MatesNext == part = "Mates" /\ Mates!Next /\ UNCHANGED part
ScreenNext == part = "Screen" /\ Screen!Next /\ UNCHANGED part
ViewsNext == part = "Views" /\ Views!Next /\ UNCHANGED <<part, Rest10>>

Next ==
    \/ PollNext \/ SinkNext \/ ServedNext \/ SubmittedNext \/ ServiceNext \/ McpNext
    \/ FormNext \/ WireNext \/ TerminalNext \/ WalksNext \/ PgNext \/ OutOfOrderNext
    \/ MatesNext \/ ScreenNext \/ ViewsNext

Spec == Init /\ [][Next]_vars
-----------------------------------------------------------------------------
TypeOK ==
    /\ part = "Poll" => Poll!TypeOK
    /\ part = "Sink" => Sink!TypeOK
    /\ part = "Served" => Served!TypeOK
    /\ part = "Submitted" => Submitted!TypeOK
    /\ part = "Service" => Service!TypeOK
    /\ part = "Mcp" => Mcp!TypeOK
    /\ part = "Form" => Form!TypeOK
    /\ part = "Wire" => Wire!TypeOK
    /\ part = "Terminal" => Terminal!TypeOK
    /\ part = "Walks" => Walks!TypeOK
    /\ part = "Pg" => Pg!TypeOK
    /\ part = "OutOfOrder" => OutOfOrder!TypeOK
    /\ part = "Mates" => Mates!TypeOK
    /\ part = "Screen" => Screen!TypeOK
    /\ part = "Views" => Views!TypeOK


(* No question is dropped unless an append fails, and none is answered but    *)
(* once or by what names it: a run of the MCP server goes past a question     *)
(* only when the store has its answer or its time-out; across restarts a      *)
(* request at the terminal has a prompt to come or is closed, and no prompt   *)
(* takes the line of another one of its channel; a frame of the MCP wire      *)
(* answers the request of its id; and an approval needs a human's grant of    *)
(* that request.  Which line a prompt reads beside the other channel's, and   *)
(* which task a resume reaches, is not said: Asking!OwnLine,                  *)
(* McpServer!OneRunPerTaskId and McpServer!ParkStaysVisible are not kept.     *)
QuestionsSettled ==
    /\ part = "Mcp" => Mcp!ServerSound
    /\ part = "Form" => Form!ServerSound
    /\ part = "Terminal" => Terminal!AskSound
    /\ part = "Wire" => Wire!WireSound
    /\ part = "Mates" => Mates!ApprovedByHuman

(* A paged walk finds each request that was there when it began, and its      *)
(* decision, while others append.  Appends through a pool of connections make *)
(* one chain of each stream.  A tail over ids that commit out of order may    *)
(* skip events (TailDelivery_gap shows one); what still holds of those it     *)
(* gives is bounded delivery: a remote event once and a local one twice at    *)
(* most, no remote event after a younger one, and none from before the start. *)
HistorySound ==
    /\ part = "Walks" => Walks!ScanComplete
    /\ part = "Pg" => Pg!PgSound
    /\ part = "OutOfOrder" => OutOfOrder!DeliveryBound /\ OutOfOrder!RemoteInOrder /\ OutOfOrder!OldStaysOld

(* What the screens and the status tools show of a run is of one piece while  *)
(* the store grows under them.  On the screen: the events and the graph are   *)
(* the selected run's, the cursors of its panels are within them (a reload    *)
(* puts them back to the first node and the newest event), and a popup that   *)
(* waits has its one fork under way and leads to the run that fork made.  Of  *)
(* the tools: below its limit a list leaves out no run that had ended so, the *)
(* step called current was under way, the pages of a run's events are its     *)
(* events in order, and a prompt is rebuilt from the outputs its step was     *)
(* given.  Not every step under way is named (RunViews!CurrentStepSeen).      *)
ViewsOfOnePiece ==
    /\ part = "Screen" => Screen!ObserveSound
    /\ part = "Views" => Views!ViewsSound

(* What was told once is not taken back. "don't overwrite a terminal cancel"  *)
(* (mcp/server/handlers.rs): the end of a task that a client was told stays,  *)
(* whichever of the run, the cancellation and the resume comes last. And      *)
(* every step of the PostgreSQL store is one of the abstract event log, or    *)
(* shows nothing there: a row appears at the end of its stream in one piece,  *)
(* no event enters twice, and Ok is said of what is stored only.              *)
ToldIsKept ==
    /\ [][part = "Mcp" \/ part = "Form" => \A c \in DOMAIN v4 : Mcp!Terminal(v4[c].status) => v4'[c].status = v4[c].status]_vars
    /\ [][part = "Pg" => [Pg!Log!LogNext]_(Pg!Log!logVars)]_vars
=============================================================================
