------------------------------- MODULE MCRun --------------------------------
(*****************************************************************************)
(* Small instances of the components inside one process's run, each by       *)
(* itself: one of them is chosen in the initial state. A run and a fork of   *)
(* it have the variables of PipelineRun, every other component the slots v1  *)
(* to v14. The bounds of a component are the WITH of its instance.           *)
(*****************************************************************************)
EXTENDS PipelineRun

VARIABLES
    part,  \* the component that runs
    v1, v2, v3, v4, v5, v6, v7, v8, v9, v10, v11, v12, v13, v14  \* its variables, in the order of its module

any_vars == <<part, vars, v1, v2, v3, v4, v5, v6, v7, v8, v9, v10, v11, v12, v13, v14>>

\* the slots a component with fewer variables leaves alone
Rest14 == <<v14>>
Rest13 == <<v13, Rest14>>
Rest12 == <<v12, Rest13>>
Rest11 == <<v11, Rest12>>
Rest10 == <<v10, Rest11>>
Rest9 == <<v9, Rest10>>
Rest8 == <<v8, Rest9>>
Rest7 == <<v7, Rest8>>
Rest6 == <<v6, Rest7>>
Rest5 == <<v5, Rest6>>
Rest4 == <<v4, Rest5>>
Rest3 == <<v3, Rest4>>
Rest2 == <<v2, Rest3>>
Rest1 == <<v1, Rest2>>
None14 == v14 = 0
None13 == v13 = 0 /\ None14
None12 == v12 = 0 /\ None13
None11 == v11 = 0 /\ None12
None10 == v10 = 0 /\ None11
None9 == v9 = 0 /\ None10
None8 == v8 = 0 /\ None9
None7 == v7 = 0 /\ None8
None6 == v6 = 0 /\ None7
None5 == v5 = 0 /\ None6
None4 == v4 = 0 /\ None5
None3 == v3 = 0 /\ None4
None2 == v2 = 0 /\ None3
None1 == v1 = 0 /\ None2
-----------------------------------------------------------------------------
(* PipelineRun: an agent, then a tool.                                     *)
Chain == [s \in Steps |-> IF s = 1 THEN {} ELSE {1}]
AgentTool == [s \in Steps |-> IF s = 1 THEN "agent" ELSE "tool"]
NoOutputs == << >>

(* ContextBuild: windows and caps so small that two turns pass them.       *)
Window2 == [window |-> 2, soft |-> 6, hard |-> 12, min_tail |-> 1, forget |-> 0, fresh |-> FALSE, provider |-> TRUE]
Windows == {Window2, [Window2 EXCEPT !.forget = 2], [Window2 EXCEPT !.fresh = TRUE],
            [Window2 EXCEPT !.provider = FALSE], [Window2 EXCEPT !.soft = 4, !.min_tail = 2]}

(* Llm: providers, conversations and answers.                              *)
LlmEntry(p, streams) == [provider |-> p, stream |-> streams, key |-> TRUE]
Model(src, unset, e, agents, indexed) ==
    [source |-> src, unset |-> unset, entry |-> e, agents |-> agents, indexed |-> indexed,
     overrides |-> IF src = "named" THEN [k \in {"stream"} |-> TRUE] ELSE [k \in {} |-> TRUE]]
Absent == [provider |-> "none", stream |-> FALSE, key |-> FALSE]
Models == {Model("inline", FALSE, LlmEntry(p, s), TRUE, TRUE) : p \in {"openai", "anthropic"}, s \in BOOLEAN}
          \cup {Model("named", FALSE, LlmEntry("openai", FALSE), TRUE, FALSE), Model("named", TRUE, LlmEntry("openai", FALSE), FALSE, TRUE),
                Model("absent", FALSE, Absent, TRUE, TRUE)}
Asked(id, args) == [id |-> id, args |-> args]
Says(text, tools, finish, cached) == [text |-> text, tools |-> tools, finish |-> finish, fresh |-> 1, cached |-> cached]
Answers == {Says(<<"x", "y">>, << >>, "stop", 2), Says(<<"x">>, << >>, "length", 0),
            Says(<< >>, <<Asked("c", <<"p", "q">>), Asked("d", <<"r">>)>>, "tool_calls", 1)}
Msg(role, text) == [role |-> role, text |-> text]
Started == <<Msg("system", "prompt"), Msg("user", "task")>>
Histories == {Started, Started \o <<Msg("system", "memory"), Msg("tool", "result")>>}

(* CommandPolicy: every command of two fragments, and some longer ones.    *)
Alphabet == {"a", "d", "q", ";", "'", "(", "$(", ")", "tick", "sh -c"}
Commands == UNION {[1..n -> Alphabet] : n \in 0..2} \cup
  {<<"a", "(", "d", ";", "a", ")">>, <<"a", "$(", "a", "$(", "a", ";", "d", ")", ")">>, <<"a", "\"", "a", ";", "d", "\"">>,
   <<"a", "\"", "\\", "\"", ";", "d", "\"", ";", "a">>, <<"a", "\\", ";", "d">>, <<"a", ";", "d">>, <<"q", ";", "a">>, <<"'", ";", "'">>,
   <<"rm", "-rf", "/">>, <<"rm", "-r", "--force", "/">>, <<"rm", "-r", "/">>, <<"chmod", "--recursive", "777", "/">>,
   <<"chown", "-r", "/">>, <<"a", "$v">>, <<"a", "'", "$v", "'">>, <<"eval", "a">>, <<"docker", "--privileged">>,
   <<"a", "$(", "sh -c", "'", "d", "'", ")">>, <<"mkfs.">>, <<"sh -c", "\"", "a", ";", "d", "\"">>,
   <<"a", "$(", "a", ")", "tick", "a", ";", "a", "$(", "a", ")", "tick">>}
Policies == {[enabled |-> TRUE, deny |-> {"d"}, ask |-> {"q"}, allow |-> {"a", "sh -c", "rm", "docker", "eval", "d"}],
             [enabled |-> FALSE, deny |-> {}, ask |-> {}, allow |-> {"a"}]}
Paths == UNION {[1..n -> {"", ".", "..", "m", "s", "key"}] : n \in 1..3}
Contracts == {[dirs |-> {}, deny |-> {"key"}], [dirs |-> {<<"m">>, <<"", "s">>, <<".", "s", "..", "m", "s">>}, deny |-> {"key"}]}
Intend(kind, command, path) == [kind |-> kind, command |-> command, path |-> path]
Intentions == {Intend("execute_shell_command", c, << >>) : c \in Commands}
              \cup {Intend(k, << >>, p) : k \in {"read_file", "write_file"}, p \in Paths}
              \cup {Intend(k, << >>, << >>) : k \in {"write_memory", "spawn_sub_agent", "call_custom_tool"}}

(* RuntimeBuild: names are sequences, the ids of MCP tools join them.       *)
S == <<"s">>
SU == <<"s", "_">>
T == <<"t">>
UT == <<"_", "t">>
Clash == <<"a", "_", "_">>
Lists == [n \in {S, SU, Clash} |-> {<< >>, <<T>>, <<T, UT>>, <<T, T>>, <<<<"u", "_", "_">>>>}]
Server == [name |-> S, filter |-> "deny", list |-> {}, command |-> TRUE, attempts |-> 2, approval |-> TRUE, no_resume |-> {T}]
Server2 == [Server EXCEPT !.name = SU, !.filter = "allow", !.list = {T}, !.attempts = 1]
Yaml(kind) == [kind |-> kind, requires_approval |-> "unset", no_resume |-> "yes"]
Py(n) == [name |-> n, requires_approval |-> "yes", no_resume |-> "unset"]
Nothing == [servers |-> << >>, tools |-> [n \in {} |-> Yaml("http")], python |-> << >>, backend |-> "sqlite",
            injected |-> FALSE, llm |-> "ok", agent |-> TRUE, connectors |-> << >>, outputs |-> << >>]
Plug(n, entry) == [name |-> n, entry |-> entry]
Sections == {<< >>, <<Plug("c", "ok")>>, <<Plug("c", "ok"), Plug("d", "ok")>>, <<Plug("c", "ok"), Plug("c", "ok")>>,
             <<Plug("c", "ok"), Plug("d", "unknown_type")>>}
ReadFile == <<"read_file">>
McpId(s, t) == <<"m", "c", "p", "_", "_">> \o s \o <<"_", "_">> \o t
Configs ==
    {[Nothing EXCEPT !.servers = s] :
        s \in {<<Server>>, <<Server, Server2>>, <<Server, Server>>, <<[Server EXCEPT !.filter = "both"]>>,
               <<[Server EXCEPT !.filter = "none"], Server2>>, <<[Server EXCEPT !.name = Clash]>>, <<[Server EXCEPT !.command = FALSE]>>}}
    \cup {[Nothing EXCEPT !.connectors = s, !.outputs = o, !.injected = i] : s \in Sections, o \in Sections, i \in BOOLEAN}
    \cup {[Nothing EXCEPT !.llm = l, !.agent = a, !.backend = b, !.injected = i] :
            l \in {"ok", "bad", "absent"}, a \in BOOLEAN, b \in {"sqlite", "postgres"}, i \in BOOLEAN}
    \cup {[Nothing EXCEPT !.servers = s, !.tools = [n \in t |-> Yaml(k)], !.python = p] :
            k \in {"http", "shell"}, s \in {<< >>, <<Server>>},
            t \in {{}, {<<"x">>}, {ReadFile}, {McpId(S, T)}, {<<"x">>, <<"y">>}},
            p \in {<< >>, <<Py(<<"x">>)>>, <<Py(<<"z">>), Py(<<"z">>)>>, <<Py(<<"z">>), Py(ReadFile)>>, <<Py(McpId(S, UT))>>}}

(* PyTools: files and the callables in them.                               *)
Param(n, hint, how, default) == [name |-> n, hint |-> hint, how |-> how, default |-> default]
Fn(n, kind, body, params) == [name |-> n, kind |-> kind, body |-> body, params |-> params, hints |-> TRUE]
Plain == Fn("s", "sync", "value", <<Param("x", "int", "plain", FALSE), Param("y", "int_or_none", "plain", TRUE)>>)
Star == Fn("v", "sync", "raises", <<Param("args", "none", "star", FALSE)>>)
Async(body) == Fn("a", "async", body, <<Param("x", "optional_int", "plain", TRUE)>>)
Lazy == Fn("l", "coroutine", "value", << >>)
NoHints == [Plain EXCEPT !.hints = FALSE]
Member(mark, fn, rename) == [mark |-> mark, fn |-> fn, rename |-> rename, overrides_ok |-> TRUE]
PyFile(path, imports, members) == [path |-> path, imports |-> imports, members |-> members]
StarFile == PyFile("b.py", TRUE, <<Member("tool", Star, "none")>>)
PyDirs ==
    {<< >>,
     <<PyFile("a.py", TRUE, <<Member("tool", Plain, "none"), Member("none", Lazy, "none"), Member("tool", Async("value"), "b")>>), StarFile>>,
     <<PyFile("a.py", TRUE, <<Member("tool", Plain, "none"), Member("odd", Lazy, "none")>>), StarFile>>,
     <<PyFile("a.py", FALSE, << >>), PyFile("b.py", TRUE, <<Member("tool", NoHints, "none")>>),
       PyFile("c.py", TRUE, <<Member("tool", Plain, "s2")>>)>>}
Callables == {Plain, Star, Lazy, NoHints} \cup {Async(b) : b \in {"value", "raises", "raises_loop", "exits"}}

(* Templates: the YAML of a step, the command of a tool, and every place a *)
(* value may come from.                                                    *)
Tok(ns, key) == [ns |-> ns, key |-> key]
TextLine(comment, text) == [comment |-> comment, text |-> text]
Texts == {<<TextLine(FALSE, <<Tok("inputs", "x"), Tok("steps", "s")>>)>>,
          <<TextLine(TRUE, <<Tok("var", "nope")>>),
            TextLine(FALSE, <<Tok("lit", "t"), Tok("var", "v"), Tok("steps", "s"), Tok("steps", "t")>>)>>,
          <<TextLine(FALSE, <<Tok("env", "e"), Tok("inputs", "y")>>)>>,
          <<TextLine(FALSE, <<Tok("env", "none")>>)>>}
Shells == {<<TextLine(FALSE, <<Tok("lit", "run"), Tok("args", "a"), Tok("args", "b")>>)>>,
           <<TextLine(FALSE, <<Tok("lit", "cat"), Tok("var", "v"), Tok("args", "b"), Tok("args", "c")>>)>>,
           <<TextLine(FALSE, <<Tok("lit", "quote"), Tok("args", "a"), Tok("lit", "quote")>>)>>}
Worlds ==
    {[env |-> [k \in {"e"} |-> <<Tok("lit", "E")>>],
      vars |-> [k \in {"v", "w"} |-> IF k = "v" THEN v ELSE <<Tok("lit", "W")>>],
      inputs |-> [k \in {"x", "y"} |-> IF k = "x" THEN x ELSE <<Tok("lit", "Y")>>],
      outputs |-> [k \in {"s", "t"} |-> IF k = "s" THEN s ELSE <<Tok("lit", "T"), Tok("lit", "U")>>]] :
        v \in {<<Tok("env", "e")>>, <<Tok("var", "w")>>, <<Tok("env", "zz")>>},
        x \in {<<Tok("lit", "X")>>, <<Tok("args", "b")>>, <<Tok("inputs", "y")>>},
        s \in {<<Tok("lit", "S")>>, <<Tok("inputs", "x")>>, <<Tok("lit", "S"), Tok("args", "b")>>, <<Tok("steps", "t")>>,
               <<Tok("lit", "quote"), Tok("args", "b")>>}}

(* WhenExpr: comparisons of two outputs, which may hold quotes, spaces,     *)
(* operators and connectives.                                              *)
Compare(ref, quoted, op) == [ref |-> ref, quoted |-> quoted, op |-> op, word |-> "w"]
Comparisons == {Compare("$a", TRUE, "=="), Compare("$a", FALSE, "!="), Compare("$b", FALSE, "==")}
WhenOutputs == {<<"w">>, <<"v">>, << >>, <<"w", " ", "v">>, <<"w", "'", " ", "==">>, <<"w", "==", "w", "||", "v">>}

(* Workspace: the files of a project and the steps of its pipeline.         *)
File(kind, n, at, tools) == [kind |-> kind, name |-> n, path |-> at, tools |-> tools]
TwoFiles == {File("agent", "ann", 1, {<<"t">>}), File("tool", "t", 3, {})}
FileSets == {TwoFiles, TwoFiles \cup {File("tool", "t", 4, {})}, TwoFiles \cup {File("agent", "bob", 4, {<<"x">>})}}
Step(id, keys, n, deps, refs, when, when_refs) ==
    [id |-> id, keys |-> keys, name |-> n, deps |-> deps, refs |-> refs, when |-> when, when_refs |-> when_refs]
Shapes == {Step(i, {"ask"}, <<"none">>, d, r, FALSE, {}) : i \in {"b", "c"}, d \in {{}, {"a"}, {"b", "c"}}, r \in {{}, {"a"}}}
          \cup {Step("a", {"agent", "task"}, <<"ann">>, {"b"}, {"c"}, TRUE, wr) : wr \in {{"b"}, {"c"}}}
          \cup {Step("a", {"tool"}, <<"t">>, {}, {"a"}, FALSE, {}), Step("a", {"tool"}, <<"x">>, {}, {}, FALSE, {}),
                Step("a", {"tool", "args"}, <<"s", "t">>, {"z"}, {"z"}, FALSE, {}),
                Step("b", {"tool", "ask"}, <<"t">>, {}, {}, FALSE, {}), Step("b", {"tool"}, <<"t">>, {}, {}, TRUE, {})}
OutputLists == {<<"none">>, <<"a">>, <<"a", "a">>}
-----------------------------------------------------------------------------
Pool == INSTANCE ShellPool WITH
    Workers <- {"w1", "w2"}, Streams <- {"r", "q", "s"}, MaxSessions <- 1, MaxShells <- 3,
    MaxCalls <- 3, sessions <- v1, process <- v2, home <- v3, call <- v4, calls <- v5

Client == INSTANCE McpClient WITH
    Callers <- {"c", "d"}, MaxRestarts <- 1, MaxCalls <- 2, restartable <- v1, slot <- v2,
    writer <- v3, attempts <- v4, child <- v5, reader <- v6, pending <- v7, next_id <- v8,
    asked <- v9, answers <- v10, call <- v11, calls <- v12

Memory == INSTANCE AgentMemory WITH
    Tasks <- {"t", "u"}, Keys <- {"k", "l"}, MaxOps <- 3, log <- v1, shown <- v2, op <- v3,
    done <- v4, ops <- v5

Context == INSTANCE ContextBuild WITH
    ContextConfigs <- Windows, ToolChars <- {1, 4}, MaxCalls <- 2, MaxIterations <- 3,
    MaxRuns <- 2, MaxEvents <- 8, MaxLost <- 1, config <- v1, stream <- v2, pc <- v3, cutoff <- v4,
    iteration <- v5, runs <- v6, messages <- v7, answer <- v8, lost <- v9

LlmCall == INSTANCE Llm WITH
    Configs <- Models, Histories <- Histories, Answers <- Answers,
    Faults <- {"status", "reset", "slow_reset", "error_line", "early_end"}, config <- v1,
    provider <- v2, history <- v3, answer <- v4, phase <- v5, sent <- v6, wire <- v7, buf <- v8,
    acc <- v9, outcome <- v10

Policy == INSTANCE CommandPolicy WITH
    Policies <- Policies, Contracts <- Contracts, Intentions <- Intentions,
    MaxFragmentDepth <- 2, policy <- v1, contract <- v2, intention <- v3, pc <- v4, queue <- v5,
    seen <- v6, fragments <- v7, next <- v8, worst <- v9, verdict <- v10

Build == INSTANCE RuntimeBuild WITH
    Configs <- Configs, Advertised <- Lists, cfg <- v1, pc <- v2, at <- v3, attempt <- v4,
    process <- v5, imported <- v6, failures <- v7, bus_store <- v8, store <- v9, opened <- v10,
    catalog <- v11, told <- v12, plugins <- v13, outcome <- v14

PyFiles == INSTANCE PyTools WITH
    Directories <- PyDirs, Callables <- Callables, Overrides <- {"none", "n"}, Loops <- BOOLEAN,
    MaxTools <- 1, files <- v1, todo <- v2, tools <- v3, errors <- v4, registry <- v5,
    decorators <- v6, call <- v7, intent <- v8

Template == INSTANCE Templates WITH
    Fields <- Texts, Tools <- Shells, Worlds <- Worlds, Width <- 1, world <- v1, field <- v2,
    command <- v3, phase <- v4, task <- v5, args <- v6, judged <- v7, ran <- v8, request <- v9

Guard == INSTANCE WhenExpr WITH
    Comparisons <- Comparisons, MaxTerms <- 3, Steps <- {"$a", "$b"}, Outputs <- WhenOutputs,
    terms <- v1, outputs <- v2, phase <- v3, text <- v4, part <- v5, lhs <- v6, op <- v7,
    logic <- v8, acc <- v9, loaded <- v10, result <- v11

Project == INSTANCE Workspace WITH
    Directories <- FileSets, Shapes <- Shapes, MaxSteps <- 3, OutputsOf <- OutputLists,
    Builtins <- {"w"}, Python <- {}, Servers <- {"s"}, steps <- v1, output <- v2, unread <- v3,
    loaded <- v4, pc <- v5, at <- v6, color <- v7, stack <- v8, error <- v9

-----------------------------------------------------------------------------
AnyInit == Init /\
    \/ part = "Fork" /\ None1
    \/ part = "Pool" /\ Pool!Init /\ None6
    \/ part = "Client" /\ Client!Init /\ None13
    \/ part = "Memory" /\ Memory!Init /\ None6
    \/ part = "Context" /\ Context!Init /\ None10
    \/ part = "LlmCall" /\ LlmCall!Init /\ None11
    \/ part = "Policy" /\ Policy!Init /\ None11
    \/ part = "Build" /\ Build!Init
    \/ part = "PyFiles" /\ PyFiles!Init /\ None9
    \/ part = "Template" /\ Template!Init /\ None10
    \/ part = "Guard" /\ Guard!Init /\ None12
    \/ part = "Project" /\ Project!Init /\ None10

PoolNext == part = "Pool" /\ Pool!Next /\ UNCHANGED <<part, vars, Rest6>>
ClientNext == part = "Client" /\ Client!Next /\ UNCHANGED <<part, vars, Rest13>>
MemoryNext == part = "Memory" /\ Memory!Next /\ UNCHANGED <<part, vars, Rest6>>
ContextNext == part = "Context" /\ Context!Next /\ UNCHANGED <<part, vars, Rest10>>
LlmCallNext == part = "LlmCall" /\ LlmCall!Next /\ UNCHANGED <<part, vars, Rest11>>
PolicyNext == part = "Policy" /\ Policy!Next /\ UNCHANGED <<part, vars, Rest11>>
BuildNext == part = "Build" /\ Build!Next /\ UNCHANGED <<part, vars>>
PyFilesNext == part = "PyFiles" /\ PyFiles!Next /\ UNCHANGED <<part, vars, Rest9>>
TemplateNext == part = "Template" /\ Template!Next /\ UNCHANGED <<part, vars, Rest10>>
GuardNext == part = "Guard" /\ Guard!Next /\ UNCHANGED <<part, vars, Rest12>>
ProjectNext == part = "Project" /\ Project!Next /\ UNCHANGED <<part, vars, Rest10>>
ForkNext == part = "Fork" /\ Next /\ UNCHANGED <<part, Rest1>>

AnyNext ==
    \/ ForkNext \/ PoolNext \/ ClientNext \/ MemoryNext \/ ContextNext \/ LlmCallNext
    \/ PolicyNext \/ BuildNext \/ PyFilesNext \/ TemplateNext \/ GuardNext \/ ProjectNext

AnySpec == AnyInit /\ [][AnyNext]_any_vars
-----------------------------------------------------------------------------
AnyTypeOK ==
    /\ TypeOK
    /\ part = "Pool" => Pool!TypeOK
    /\ part = "Client" => Client!TypeOK
    /\ part = "Memory" => Memory!TypeOK
    /\ part = "Context" => Context!TypeOK
    /\ part = "LlmCall" => LlmCall!TypeOK
    /\ part = "Policy" => Policy!TypeOK
    /\ part = "Build" => Build!TypeOK
    /\ part = "PyFiles" => PyFiles!TypeOK
    /\ part = "Template" => Template!TypeOK
    /\ part = "Guard" => Guard!TypeOK
    /\ part = "Project" => Project!TypeOK

(* What one agent's call holds no other call uses: a shell belongs to one     *)
(* stream and serves one caller, and the pool outgrows its bound only by the  *)
(* callers inside it; an MCP server has one child process, and a caller is    *)
(* given the answer to its own request, never one of an earlier call or of a  *)
(* child that is gone.                                                        *)
CallsKeptApart ==
    /\ part = "Pool" => Pool!OneHolder /\ Pool!OverfullByCallers
    /\ part = "Client" => Client!OneChild /\ Client!OwnAnswer

(* What an agent's model is given of its run, and what the run takes from it. *)
(* Once a memory write has returned no value that it overwrote is shown; of   *)
(* two writes at once the log and the projection may keep different ones.     *)
(* Messages are shown once and in the log's order, and the last answer with   *)
(* the results that were recorded of it in full, however much was masked,     *)
(* forgotten, compacted or lost; a call may stand there without its result.   *)
(* A body, or a stream that comes to its end, gives the step the whole answer *)
(* and its cost, whichever provider sent it and in whatever pieces, unless    *)
(* the pieces of several calls do not say which call they are of; a stream    *)
(* that stops early gives a beginning of the text.                            *)
ModelSeesTheRun ==
    /\ part = "Memory" => Memory!MemoryIsRecent
    /\ part = "Context" => Context!ContextSound
    /\ part = "LlmCall" => LlmCall!LlmSound

(* From declaration to call. Of the fragments the extractor finds in a        *)
(* command, to the depth it looks, the strictest verdict stands, and a write  *)
(* passes only inside an allowed directory. A tool's id means one tool, whose *)
(* gate is that of its route; every MCP server is told of as it is, and none  *)
(* outlives a failed build or a shutdown. A Python file that fails takes no   *)
(* other file along and a call is answered by its callable. A text is what    *)
(* filling in all its placeholders at once gives, a url percent-encoded and a *)
(* body escaped, when no value names a placeholder of its own stage; then the *)
(* command that runs is the one that was judged; of every command that is     *)
(* not so (Templates!JudgedIsRun).                                            *)
DeclaredIsRun ==
    /\ part = "Policy" => Policy!Judged
    /\ part = "Build" => Build!CatalogSound /\ Build!LifecycleTold
    /\ part = "PyFiles" => PyFiles!PyToolsSound
    /\ part = "Template" => Template!TemplatesSound

(* A `when:` that loads comes, with outputs its quoting can hold, to the      *)
(* value of its comparisons, joined from left to right with && and || of one  *)
(* precedence (config/when_expr.rs:12). A project that validation accepts,    *)
(* and whose steps differ in their ids has a level for each, above that of    *)
(* all that its arguments, prompt and `when:` read, but for its own output,   *)
(* which a step may read (Workspace!NoSelfReference).                         *)
PipelineReadAsWritten ==
    /\ part = "Guard" => Guard!EvaluatesAsWritten
    /\ part = "Project" => Project!ProjectSound
=============================================================================
