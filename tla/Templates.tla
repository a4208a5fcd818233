------------------------------ MODULE Templates ------------------------------
(***************************************************************************)
(* Where a ${...} is filled in: when a file is loaded (config/template.rs),*)
(* when a step starts (handlers/run_pipeline.rs), and when a tool is judged*)
(* and called (runtime/tool_catalog.rs, runtime/action_executor.rs).  Each *)
(* stage leaves the placeholders of a later one in the text, and a text    *)
(* that is filled in may hold placeholders itself.                         *)
(*                                                                         *)
(* A text is a sequence of tokens [ns, key]: literal text has the ns "lit",*)
(* a placeholder that of its namespace.  A HashMap gives its entries in an *)
(* order of its own, in two maps of the same entries not the same one.     *)
(***************************************************************************)
EXTENDS Naturals, Sequences, SequencesExt, FiniteSets, Functions

CONSTANTS
    Fields,    \* a step's task or argument: the lines of its pipeline file
    Tools,     \* a tool's template: the lines of its file
    Worlds,    \* [env, vars, inputs, outputs], each name -> text; vars as project.yml has them
    Width      \* 2000: how much of an output a task takes

Absent == << [ns |-> "absent", key |-> "absent"] >>

VARIABLES
    world,    \* the environment, the project's variables, the inputs and outputs
    field, command,  \* the two files, then their texts once loaded
    phase,    \* "project", "files", "step", "gate", "call", "called" or "refused"
    task,     \* the task the agent is given
    args,     \* the arguments of the tool step: name -> text
    judged,   \* the command the gate was shown
    ran,      \* the command the shell was given
    request   \* the request an HTTP tool made of the same template

vars == <<world, field, command, phase, task, args, judged, ran, request>>

NoRequest == [url |-> Absent, header |-> Absent, body |-> Absent]

Init ==
    /\ world \in Worlds /\ field \in Fields /\ command \in Tools
    /\ phase = "project"
    /\ task = Absent /\ args = [n \in {} |-> Absent]
    /\ judged = Absent /\ ran = Absent /\ request = NoRequest
-----------------------------------------------------------------------------
Later == {"inputs", "args", "steps"}

(* The text of a token, in a pass over a file that looks at each of its    *)
(* placeholders once.                                                      *)
Filled(text, Value(_)) == FlattenSeq([i \in DOMAIN text |-> Value(text[i])])
Of(map, tok) == IF tok.key \in DOMAIN map THEN map[tok.key] ELSE Absent

(* resolve_env_templates: every other namespace stays.                     *)
EnvText(tok) == IF tok.ns = "env" THEN Of(world.env, tok) ELSE << tok >>
ResolveEnv(text) == Filled(text, EnvText)
Unset(text) == \E t \in ToSet(text) : t.ns = "env" /\ t.key \notin DOMAIN world.env

(* load_project, and build_project_vars of what it gave: a variable that   *)
(* names another variable keeps the name.                                  *)
LoadProject ==
    /\ phase = "project"
    /\ IF \E v \in DOMAIN world.vars : Unset(world.vars[v])
       THEN phase' = "refused" /\ UNCHANGED world
       ELSE /\ world' = [world EXCEPT !.vars = [v \in DOMAIN @ |-> ResolveEnv(@[v])]]
            /\ phase' = "files"
    /\ UNCHANGED <<field, command, task, args, judged, ran, request>>

(* resolve_key *)
KeyText(tok) ==
    CASE tok.ns = "env" -> Of(world.env, tok)
      [] tok.ns = "var" -> Of(world.vars, tok)
      [] OTHER -> << tok >>

(* resolve_templates: a comment line is copied, and one placeholder that   *)
(* means nothing refuses the file.                                         *)
LineText(line) == IF line.comment THEN line.text ELSE Filled(line.text, KeyText)
ResolveTemplates(lines) == FlattenSeq([i \in DOMAIN lines |-> LineText(lines[i])])
Unresolved(lines) ==
    \E l \in ToSet(lines) : ~l.comment /\ \E t \in ToSet(l.text) : KeyText(t) = Absent

LoadFiles ==
    /\ phase = "files"
    /\ IF Unresolved(field) \/ Unresolved(command)
       THEN phase' = "refused" /\ UNCHANGED <<field, command>>
       ELSE /\ field' = << [comment |-> FALSE, text |-> ResolveTemplates(field)] >>
            /\ command' = << [comment |-> FALSE, text |-> ResolveTemplates(command)] >>
            /\ phase' = "step"
    /\ UNCHANGED <<world, task, args, judged, ran, request>>
-----------------------------------------------------------------------------
(* str::replace, for each entry of a map in one of its orders.             *)
Replace(text, ns, key, value) ==
    FlattenSeq([i \in DOMAIN text |-> IF text[i] = [ns |-> ns, key |-> key] THEN value ELSE << text[i] >>])
Orders(map) == SetToSeqs(DOMAIN map)
Substitute(text, ns, map, order) ==
    FoldLeft(LAMBDA t, k : Replace(t, ns, k, map[k]), text, order)

Cut(text) == IF Len(text) > Width THEN SubSeq(text, 1, Width) ELSE text

\* a slip: the outputs are put in before the inputs
ResolveStr_outputs(text, outputs, o, p) ==
    Substitute(Substitute(text, "steps", outputs, p), "inputs", world.inputs, o)

(* resolve_str_template and resolve_task_template: the inputs, then the    *)
(* outputs of the steps before.                                            *)
ResolveStr(text, outputs, o, p) ==
    Substitute(Substitute(text, "inputs", world.inputs, o), "steps", outputs, p)

(* An agent step takes the field as its task, a tool step as its arguments *)
(* a and b, the second through a map of its own.                           *)
StepStarts ==
    /\ phase = "step"
    /\ \E o, q \in Orders(world.inputs), p, r \in Orders(world.outputs) :
          /\ task' = ResolveStr(field[1].text, [s \in DOMAIN world.outputs |-> Cut(world.outputs[s])], o, p)
          /\ args' = [n \in {"a", "b"} |->
                        IF n = "a" THEN ResolveStr(field[1].text, world.outputs, q, r)
                        ELSE ResolveStr(<< [ns |-> "inputs", key |-> "x"] >>, world.outputs, q, r)]
    /\ phase' = "gate"
    /\ UNCHANGED <<world, field, command, judged, ran, request>>
-----------------------------------------------------------------------------
(* resolve_args *)
ResolveArgs(text, o) == Substitute(text, "args", args, o)

(* ToolCatalog::intention *)
Judge ==
    /\ phase = "gate"
    /\ \E o \in Orders(args) : judged' = ResolveArgs(command[1].text, o)
    /\ phase' = "call"
    /\ UNCHANGED <<world, field, command, task, args, ran, request>>

(* execute_declarative_shell, once it may *)
ExecuteShell ==
    /\ phase = "call"
    /\ \E o \in Orders(args) : ran' = ResolveArgs(command[1].text, o)
    /\ phase' = "called"
    /\ UNCHANGED <<world, field, command, task, args, judged, request>>

\* a slip: the address takes the arguments as they are
Encoded_raw(text) == text

(* Percent-encoding leaves no placeholder in a value.                      *)
Encoded(text) == [i \in DOMAIN text |-> [ns |-> "encoded", key |-> text[i].key]]

Quote == [ns |-> "lit", key |-> "quote"]

\* a slip: the body takes the arguments as they are
Escaped_raw(text) == text

(* resolve_args_json: of what a text may hold, escaping for JSON changes   *)
(* the quotes, and it leaves a placeholder.                                *)
Escaped(text) == [i \in DOMAIN text |-> IF text[i] = Quote THEN [ns |-> "escaped", key |-> "quote"] ELSE text[i]]

(* execute_declarative_http, on a template that stands for its url, a      *)
(* header and its body.                                                    *)
ExecuteHttp ==
    /\ phase = "call"
    /\ \E o \in Orders(args) :
          request' = [url |-> Substitute(command[1].text, "args", [n \in DOMAIN args |-> Encoded(args[n])], o),
                      header |-> ResolveArgs(command[1].text, o),
                      body |-> Substitute(command[1].text, "args", [n \in DOMAIN args |-> Escaped(args[n])], o)]
    /\ phase' = "called"
    /\ UNCHANGED <<world, field, command, task, args, judged, ran>>

Next == LoadProject \/ LoadFiles \/ StepStarts \/ Judge \/ ExecuteShell \/ ExecuteHttp

Spec == Init /\ [][Next]_vars
-----------------------------------------------------------------------------
TypeOK ==
    /\ phase \in {"project", "files", "step", "gate", "call", "called", "refused"}
    /\ DOMAIN args \subseteq {"a", "b"}
    /\ phase \in {"step", "gate", "call", "called"} => Len(field) = 1 /\ Len(command) = 1

Holds(map, ns) == \E k \in DOMAIN map : \E t \in ToSet(map[k]) : t.ns = ns
Together(text, Map(_)) ==
    Filled(text, LAMBDA t : IF t.key \in DOMAIN Map(t.ns) THEN Map(t.ns)[t.key] ELSE << t >>)
Nothing == [n \in {} |-> Absent]
AtStart(outputs) == [inputs |-> world.inputs, steps |-> outputs]
OfStep(ns) == IF ns \in {"inputs", "steps"} THEN AtStart(world.outputs)[ns] ELSE Nothing
OfTask(ns) ==
    IF ns \in {"inputs", "steps"}
    THEN AtStart([s \in DOMAIN world.outputs |-> Cut(world.outputs[s])])[ns] ELSE Nothing
OfCall(ns) == IF ns = "args" THEN args ELSE Nothing
OfUrl(ns) == IF ns = "args" THEN [n \in DOMAIN args |-> Encoded(args[n])] ELSE Nothing
OfBody(ns) == IF ns = "args" THEN [n \in DOMAIN args |-> Escaped(args[n])] ELSE Nothing
Quotes(text) == SelectSeq(text, LAMBDA t : t = Quote)

(* Past loading no placeholder of the files' own namespaces is left that   *)
(* neither a comment nor a variable holds.  A step's text is what filling  *)
(* in all its placeholders at once gives, whatever an output says, unless  *)
(* an input or an output names its own stage; a call's too, unless an      *)
(* argument names an argument; and a url always.  A body has the quotes of *)
(* its template and no others, whatever an argument holds.                 *)
TemplatesSound ==
    /\ phase \in {"gate", "call", "called"} /\ ~Holds(world.inputs, "inputs")
          /\ ~Holds(world.inputs, "steps") /\ ~Holds(world.outputs, "steps") =>
          /\ task = Together(field[1].text, OfTask)
          /\ args["a"] = Together(field[1].text, OfStep)
    /\ phase = "called" /\ ~Holds(args, "args") =>
          /\ judged = Together(command[1].text, OfCall)
          /\ ran # Absent => ran = judged
          /\ request # NoRequest =>
                request.header = judged /\ request.body = Together(command[1].text, OfBody)
    /\ request # NoRequest =>
          /\ request.url = Together(command[1].text, OfUrl)
          /\ Quotes(request.body) = Quotes(command[1].text)

(* runtime/action_executor.rs:497 "the policy engine evaluates the         *)
(* *resolved* command": the command that runs is the one that was judged.  *)
JudgedIsRun == ran # Absent => ran = judged
=============================================================================
