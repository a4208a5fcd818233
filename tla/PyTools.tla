------------------------------- MODULE PyTools -------------------------------
(***************************************************************************)
(* Python tools: the scan of tools/*.py (python/auto_discover.rs), the     *)
(* registry a Python program keeps (python/tool.rs), and the two ways a    *)
(* tool is called, PyToolRegistry::call and the executor's execute_python. *)
(*                                                                         *)
(* A callable is what the interpreter shows of it: its parameters, whether *)
(* inspect calls it a coroutine function, and how its body ends: with a    *)
(* value, with an Exception, with an Exception that says "running event    *)
(* loop", or with what is no Exception (SystemExit, CancelledError).       *)
(***************************************************************************)
EXTENDS Naturals, Sequences, SequencesExt, FiniteSets, Functions

CONSTANTS
    Directories,  \* what tools/ may hold: a sequence of files, in name order
    Callables,    \* what a program may register: [name, fn]
    Overrides,    \* names given to the decorator, None for none
    Loops,        \* may an event loop run where the registry is called?
    MaxTools      \* bound: tools in the registry, and decorators unapplied

None == "none"
Required == [execute_shell_command |-> {"command"}, write_file |-> {"path", "content"},
             read_file |-> {"path"}, web_search |-> {"query"}, web_scrape |-> {"url"},
             write_memory |-> {"key", "content"}, spawn_sub_agent |-> {"name", "task"}]

VARIABLES
    files,       \* the directory, as it was at startup
    todo,        \* the files still to be read
    tools,       \* what was discovered: << [name, fn, file] >>
    errors,      \* the files that gave an error
    registry,    \* name -> [fn, intention]
    decorators,  \* those made by @registry.tool(...) and not yet applied
    call,        \* the call under way
    intent       \* the last intention made of a call

vars == <<files, todo, tools, errors, registry, decorators, call, intent>>

Quiet == [phase |-> "idle", fn |-> None, args |-> << >>, loop |-> FALSE, ran |-> 0, told |-> None]

NoIntent == [kind |-> None, carries |-> {}]

Init ==
    /\ files \in Directories /\ todo = files
    /\ tools = << >> /\ errors = {}
    /\ registry = [n \in {} |-> 0] /\ decorators = {}
    /\ call = Quiet /\ intent = NoIntent
-----------------------------------------------------------------------------
(* python_type_to_json_schema; X | None is no typing.Union.                *)
JsonType(hint) ==
    CASE hint = "int" \/ hint = "optional_int" -> "integer"
      [] hint = "list" -> "array"
      [] hint = "dict" -> "object"
      [] OTHER -> "string"

(* introspect_function: every parameter is a property, *args and **kwargs  *)
(* too.                                                                    *)
Introspects(fn) == fn.hints
Properties(fn) == [p \in {fn.params[i].name : i \in DOMAIN fn.params} |->
                      JsonType((CHOOSE q \in ToSet(fn.params) : q.name = p).hint)]
RequiredOf(fn) == {q.name : q \in {p \in ToSet(fn.params) : ~p.default}}
Schema(fn) == [properties |-> Properties(fn), required |-> RequiredOf(fn)]

(* What a model sends that keeps to the schema.                            *)
Satisfies(args, schema) ==
    /\ schema.required \subseteq DOMAIN args /\ DOMAIN args \subseteq DOMAIN schema.properties
    /\ \A p \in DOMAIN args : args[p] = schema.properties[p]

(* What the interpreter takes as **kwargs.                                 *)
Accepts(fn, args) ==
    \A p \in ToSet(fn.params) : p.how \in {"star", "positional"} => p.name \notin DOMAIN args
-----------------------------------------------------------------------------
(* is_zymi_tool and build_discovered                                       *)
Marked(file) == SelectSeq(file.members, LAMBDA x : x.mark # "none")
Readable(file) ==
    /\ file.imports
    /\ \A x \in ToSet(file.members) :
          /\ x.mark # "odd"
          /\ x.mark = "tool" => Introspects(x.fn) /\ x.overrides_ok
Named(x) == IF x.rename = None THEN x.fn.name ELSE x.rename
Found(file) == [i \in DOMAIN Marked(file) |->
                   [name |-> Named(Marked(file)[i]), fn |-> Marked(file)[i].fn, file |-> file.path]]

\* a slip: the first error ends the scan
DiscoverInFile_stops ==
    /\ todo # << >>
    /\ IF Readable(Head(todo))
       THEN tools' = tools \o Found(Head(todo)) /\ todo' = Tail(todo) /\ UNCHANGED errors
       ELSE errors' = errors \cup {Head(todo).path} /\ todo' = << >> /\ UNCHANGED tools
    /\ UNCHANGED <<files, registry, decorators, call, intent>>

(* discover_in_file, for each file in turn: all of its tools or none.      *)
DiscoverInFile ==
    /\ todo # << >>
    /\ todo' = Tail(todo)
    /\ IF Readable(Head(todo))
       THEN tools' = tools \o Found(Head(todo)) /\ UNCHANGED errors
       ELSE errors' = errors \cup {Head(todo).path} /\ UNCHANGED tools
    /\ UNCHANGED <<files, registry, decorators, call, intent>>
-----------------------------------------------------------------------------
Idle == todo = << >> /\ call.phase \in {"idle", "done"}
Put(name, fn, tag) ==
    /\ Idle /\ Cardinality(DOMAIN registry \cup {name}) <= MaxTools
    /\ registry' = [n \in DOMAIN registry \cup {name} |->
                       IF n = name THEN [fn |-> fn, intention |-> tag] ELSE registry[n]]
    /\ call' = Quiet /\ intent' = NoIntent
    /\ UNCHANGED <<files, todo, tools, errors>>
Tags == {None, "write_file"}

(* register takes the schema as it is given.                               *)
Register ==
    \E c \in Callables, tag \in Tags :
        /\ Put(c.name, c, tag)
        /\ UNCHANGED decorators

(* @registry.tool: a function that cannot be introspected is not put in.   *)
RegisterFromCallable ==
    \E c \in Callables :
        /\ Introspects(c)
        /\ Put(c.name, c, None)
        /\ UNCHANGED decorators

(* @registry.tool(...) makes a decorator; it registers when it is applied, *)
(* as often as it is applied.                                              *)
ToolDecorator ==
    \/ /\ Idle /\ Cardinality(decorators) < MaxTools
       /\ \E n \in Overrides, tag \in Tags : decorators' = decorators \cup {[name |-> n, tag |-> tag]}
       /\ UNCHANGED <<files, todo, tools, errors, registry, call, intent>>
    \/ \E d \in decorators, c \in Callables :
          /\ Introspects(c)
          /\ Put(IF d.name = None THEN c.name ELSE d.name, c, d.tag)
          /\ UNCHANGED decorators

(* to_intention: a tag it knows needs its own arguments; any other tag is  *)
(* a custom tool.                                                          *)
ToIntention ==
    \E n \in DOMAIN registry :
        LET tag == registry[n].intention IN
        /\ Idle /\ call' = Quiet
        /\ \E given \in SUBSET {"path", "content"} :
              intent' = CASE tag \notin DOMAIN Required -> [kind |-> "call_custom_tool", carries |-> {n}]
                          [] Required[tag] \subseteq given -> [kind |-> tag, carries |-> Required[tag]]
                          [] OTHER -> [kind |-> "error", carries |-> {}]
        /\ UNCHANGED <<files, todo, tools, errors, registry, decorators>>
-----------------------------------------------------------------------------
Arguments(fn) == {a \in UNION {[S -> {"string", "integer", "array", "object"}] : S \in SUBSET DOMAIN Properties(fn)} :
                     Satisfies(a, Schema(fn))}
Rest == <<files, todo, tools, errors, registry, decorators, intent>>
Tell(what) == call' = [call EXCEPT !.phase = "done", !.told = what]

(* The catalog calls from a thread of the blocking pool, where no loop     *)
(* runs; a program calls from where it is.                                 *)
Begin ==
    /\ Idle /\ intent' = NoIntent
    /\ \/ \E i \in DOMAIN tools : \E a \in Arguments(tools[i].fn) :
             call' = [Quiet EXCEPT !.phase = "called", !.fn = tools[i].fn, !.args = a]
       \/ \E n \in DOMAIN registry, l \in Loops : \E a \in Arguments(registry[n].fn) :
             call' = [Quiet EXCEPT !.phase = "called", !.fn = registry[n].fn, !.args = a, !.loop = l]
    /\ UNCHANGED <<files, todo, tools, errors, registry, decorators>>

Body(b) == CASE b = "value" -> "ok" [] OTHER -> b

(* The call itself: a coroutine function's body does not run yet.  What    *)
(* inspect does not call one may still hand back a coroutine, which is     *)
(* turned into a string.                                                   *)
Invoke ==
    /\ call.phase = "called"
    /\ CASE ~Accepts(call.fn, call.args) -> Tell("type_error")
         [] call.fn.kind = "coroutine" -> Tell("ok")
         [] call.fn.kind = "async" -> call' = [call EXCEPT !.phase = "run"]
         [] OTHER -> call' = [call EXCEPT !.phase = "done", !.ran = 1, !.told = Body(call.fn.body)]
    /\ UNCHANGED Rest

\* a slip: whatever error there is, the coroutine is tried in a thread
RunCoroutine_always ==
    /\ call.phase = "run"
    /\ IF call.loop THEN call' = [call EXCEPT !.phase = "thread"]
       ELSE IF call.fn.body # "value" THEN call' = [call EXCEPT !.phase = "thread", !.ran = 1]
       ELSE call' = [call EXCEPT !.phase = "done", !.ran = 1, !.told = Body(call.fn.body)]
    /\ UNCHANGED Rest

(* run_coroutine: asyncio.run first, and the thread when its error says    *)
(* that a loop is running.                                                 *)
RunCoroutine ==
    /\ call.phase = "run"
    /\ IF call.loop THEN call' = [call EXCEPT !.phase = "thread"]
       ELSE IF call.fn.body = "raises_loop" THEN call' = [call EXCEPT !.phase = "thread", !.ran = 1]
       ELSE call' = [call EXCEPT !.phase = "done", !.ran = 1, !.told = Body(call.fn.body)]
    /\ UNCHANGED Rest

(* _zymi_run_coro: a coroutine that has run cannot be run again, and only  *)
(* an Exception reaches the holder.                                        *)
RunInThread ==
    /\ call.phase = "thread"
    /\ IF call.ran = 1 THEN Tell("already_awaited")
       ELSE call' = [call EXCEPT !.phase = "done", !.ran = 1,
                                 !.told = IF call.fn.body = "exits" THEN "ok" ELSE Body(call.fn.body)]
    /\ UNCHANGED Rest

Next ==
    \/ DiscoverInFile \/ Register \/ RegisterFromCallable \/ ToolDecorator \/ ToIntention
    \/ Begin \/ Invoke \/ RunCoroutine \/ RunInThread

Spec == Init /\ [][Next]_vars
-----------------------------------------------------------------------------
TypeOK ==
    /\ errors \subseteq {f.path : f \in ToSet(files)}
    /\ call.phase \in {"idle", "called", "run", "thread", "done"} /\ call.ran \in 0..1
    /\ \A d \in decorators : d.name \in Overrides /\ d.tag \in Tags

Complete(file) == file.imports /\ ~(\E x \in ToSet(file.members) :
                     x.mark = "odd" \/ (x.mark = "tool" /\ ~(x.fn.hints /\ x.overrides_ok)))

(* docs/tools.md: the files are scanned alphabetically, and a broken one   *)
(* takes nothing from the others; a tool's body runs once at most in a     *)
(* call; a call that is told a value has one, and one that is told an      *)
(* error is told the body's own, unless that error names a running loop.   *)
(* Left out are the callable whose coroutine nobody awaits and the one     *)
(* that exits in the helper thread.                                        *)
PyToolsSound ==
    /\ todo = << >> =>
          /\ errors = {f.path : f \in {g \in ToSet(files) : ~Complete(g)}}
          /\ \A f \in ToSet(files) \ {g \in ToSet(files) : ~Complete(g)} :
                SelectSeq(tools, LAMBDA t : t.file = f.path) = Found(f)
          /\ \A i, j \in DOMAIN tools : i < j =>
                LET At(t) == CHOOSE k \in DOMAIN files : files[k].path = t.file IN At(tools[i]) <= At(tools[j])
    /\ call.phase = "done" /\ call.fn.kind # "coroutine" =>
          \/ call.told = "type_error" /\ call.ran = 0
          \/ /\ call.ran = 1
             /\ \/ call.told = Body(call.fn.body)
                \/ call.fn.body = "raises_loop"
                \/ call.fn.body = "exits" /\ call.loop

(* A tool that is told to have answered has run to its end.                *)
AnswersRan == call.phase = "done" /\ call.told = "ok" => call.ran = 1 /\ call.fn.body = "value"
=============================================================================
