----------------------------- MODULE ToolCatalog -----------------------------
(***************************************************************************)
(* The tool catalog of runtime/tool_catalog.rs: what each name means to    *)
(* the model (definition), to the gate (intention, approval, no_resume)    *)
(* and to the executor (runtime/action_executor.rs), whose dispatch is a   *)
(* table of its own and has to agree with the catalog's.                   *)
(*                                                                         *)
(* A name is a sequence of symbols, "_" being one, because the ids of MCP  *)
(* tools are put together from two names and a separator.  A definition's  *)
(* description and schema are left out.                                    *)
(***************************************************************************)
EXTENDS Naturals, Sequences, FiniteSets, SequencesExt

Separator == <<"_", "_">>
McpPrefix == <<"mcp", "_", "_">>

(* make_id *)
MakeId(server, tool) == McpPrefix \o server \o Separator \o tool

SeparatorAt(s) == {i \in 1..(Len(s) - 1) : SubSeq(s, i, i + 1) = Separator}

(* parse_id cuts at the first separator after the prefix. *)
NoId == [server |-> << >>, tool |-> << >>]
ParseId(name) ==
    LET rest == SubSeq(name, Len(McpPrefix) + 1, Len(name))
        cuts == SeparatorAt(rest)
        cut == CHOOSE i \in cuts : \A j \in cuts : i <= j
        id == [server |-> SubSeq(rest, 1, cut - 1), tool |-> SubSeq(rest, cut + 2, Len(rest))]
    IN IF IsPrefix(McpPrefix, name) /\ cuts # {} /\ id.server # << >> /\ id.tool # << >>
       THEN id ELSE NoId

(* validate_segment *)
ValidSegment(s) == s # << >> /\ SeparatorAt(s) = {}
-----------------------------------------------------------------------------
ShellCommand == <<"execute_shell_command">>
ReadFile == <<"read_file">>
WriteFile == <<"write_file">>
WriteMemory == <<"write_memory">>
ReadMemory == <<"read_memory">>
SpawnSubAgent == <<"spawn_sub_agent">>

(* The intention each built-in name is mapped to. *)
Builtins ==
    [name \in {ShellCommand, ReadFile, WriteFile, WriteMemory, SpawnSubAgent} |->
        [kind |-> CASE name = ShellCommand -> "execute_shell_command"
                    [] name = ReadFile -> "read_file"
                    [] name = WriteFile -> "write_file"
                    [] name = WriteMemory -> "write_memory"
                    [] name = SpawnSubAgent -> "spawn_sub_agent",
         requires_approval |-> FALSE, no_resume |-> FALSE]]

NoEntries == [name \in {} |-> 0]
BuiltinOnly == [builtin |-> Builtins, declarative |-> NoEntries, mcp |-> NoEntries,
                python |-> NoEntries, error |-> "none"]
Error(tag) == [BuiltinOnly EXCEPT !.error = tag]

Layers == {"builtin", "declarative", "mcp", "python"}
Names(cat, layer) == DOMAIN cat[layer]
Knows(cat, name) == \E layer \in Layers : name \in Names(cat, layer)

Merge(f, g) == [x \in DOMAIN f \cup DOMAIN g |-> IF x \in DOMAIN g THEN g[x] ELSE f[x]]

(* with_declarative: tools is a function from names to [kind,              *)
(* requires_approval, no_resume], the two flags "unset", "yes" or "no".    *)
WithDeclarative(tools) ==
    IF DOMAIN tools \cap DOMAIN Builtins # {}
    THEN Error("declarative_collides")
    ELSE [BuiltinOnly EXCEPT !.declarative = tools]

(* add_mcp_server: the tools are added in order and the first bad name, or *)
(* the first id that is taken, ends the whole build.                       *)
AddMcpServer(cat, server, tools, approval, no_resume) ==
    LET Taken(c, id) == \E layer \in {"builtin", "declarative", "mcp"} : id \in Names(c, layer)
        Add(c, tool) ==
            LET id == MakeId(server, tool) IN
            CASE c.error # "none" -> c
              [] ~ValidSegment(tool) -> Error("mcp_tool_name")
              [] Taken(c, id) -> Error("mcp_collides")
              [] OTHER -> [c EXCEPT !.mcp = Merge(@, [n \in {id} |->
                              [server |-> server, tool |-> tool, requires_approval |-> approval,
                               no_resume |-> tool \in no_resume]])]
    IN IF cat.error = "none" /\ ~ValidSegment(server) THEN Error("mcp_server_name")
       ELSE FoldLeft(Add, cat, tools)

(* Only the Python layer is asked whether a name is taken. *)
AddPythonTools_own(cat, tools) ==
    LET Add(c, tool) ==
            CASE c.error # "none" -> c
              [] tool.name \in Names(c, "python") -> Error("python_collides")
              [] OTHER -> [c EXCEPT !.python = Merge(@, [n \in {tool.name} |->
                              [requires_approval |-> tool.requires_approval = "yes",
                               no_resume |-> tool.no_resume = "yes"]])]
    IN FoldLeft(Add, cat, tools)

(* add_python_tools: tools is a sequence of [name, requires_approval,      *)
(* no_resume].                                                             *)
AddPythonTools(cat, tools) ==
    LET Add(c, tool) ==
            CASE c.error # "none" -> c
              [] Knows(c, tool.name) -> Error("python_collides")
              [] OTHER -> [c EXCEPT !.python = Merge(@, [n \in {tool.name} |->
                              [requires_approval |-> tool.requires_approval = "yes",
                               no_resume |-> tool.no_resume = "yes"]])]
    IN FoldLeft(Add, cat, tools)
-----------------------------------------------------------------------------
(* definitions_for_agent: the tools an agent is offered, of those its      *)
(* configuration names.                                                    *)
DefinitionsForAgent(cat, names) == SelectSeq(names, LAMBDA n : Knows(cat, n))

(* A shell tool from YAML is judged like any other custom tool. *)
Intention_custom(cat, name) ==
    CASE name \in Names(cat, "builtin") -> cat.builtin[name].kind
      [] OTHER -> "call_custom_tool"

(* intention: what the contracts are asked about. *)
Intention(cat, name) ==
    CASE name \in Names(cat, "builtin") -> cat.builtin[name].kind
      [] name \in Names(cat, "declarative") /\ cat.declarative[name].kind = "shell" ->
             "execute_shell_command"
      [] OTHER -> "call_custom_tool"

(* requires_approval: only an explicit mark counts, not the default of     *)
(* ToolConfig::effective_requires_approval.                                *)
RequiresApproval(cat, name) ==
    CASE name \in Names(cat, "builtin") -> cat.builtin[name].requires_approval
      [] name \in Names(cat, "declarative") -> cat.declarative[name].requires_approval = "yes"
      [] name \in Names(cat, "mcp") -> cat.mcp[name].requires_approval
      [] name \in Names(cat, "python") -> cat.python[name].requires_approval
      [] OTHER -> FALSE

(* no_resume, with ToolConfig::effective_no_resume *)
NeverResumed(cat, name) ==
    CASE name \in Names(cat, "builtin") -> cat.builtin[name].no_resume
      [] name \in Names(cat, "declarative") -> cat.declarative[name].no_resume = "yes"
      [] name \in Names(cat, "mcp") -> cat.mcp[name].no_resume
      [] name \in Names(cat, "python") -> cat.python[name].no_resume
      [] OTHER -> FALSE

(* mcp_route *)
McpRoute(cat, name) == [server |-> cat.mcp[name].server, tool |-> cat.mcp[name].tool]

(* CatalogActionExecutor::execute and, at its end, execute_builtin_tool.   *)
Route(cat, name) ==
    CASE name = ShellCommand -> "shell_pool"
      [] name \in Names(cat, "mcp") -> "mcp"
      [] name \in Names(cat, "python") -> "python"
      [] name \in Names(cat, "declarative") ->
             IF cat.declarative[name].kind = "http" THEN "http" ELSE "shell_pool"
      [] name \in {ReadFile, WriteFile, WriteMemory, ReadMemory} -> name[1]
      [] OTHER -> "unknown"
-----------------------------------------------------------------------------
(* Every name an agent can be given has one meaning: it is in one layer,   *)
(* so the definition the model sees, the intention the gate judges and the *)
(* code that runs belong to the same tool.                                 *)
OneLayer(cat) ==
    \A k, l \in Layers : k # l => Names(cat, k) \cap Names(cat, l) = {}

(* The two dispatch tables agree: what the shell runs was judged as a      *)
(* shell command, and what touches files was judged by the file contracts. *)
(* An MCP id leads back to its server and tool, by the entry always and by *)
(* parse_id unless the server's name ends in "_".  Every name has code     *)
(* behind it, save spawn_sub_agent, which no executor knows.               *)
GateMatchesRoute(cat) ==
    \A name \in UNION {Names(cat, layer) : layer \in Layers} :
        /\ Route(cat, name) = "shell_pool" <=> Intention(cat, name) = "execute_shell_command"
        /\ \A kind \in {"read_file", "write_file", "write_memory"} :
              Route(cat, name) = kind <=> Intention(cat, name) = kind
        /\ Route(cat, name) = "mcp" =>
              /\ MakeId(McpRoute(cat, name).server, McpRoute(cat, name).tool) = name
              /\ Last(McpRoute(cat, name).server) # "_" => ParseId(name) = McpRoute(cat, name)
        /\ Route(cat, name) = "unknown" => name = SpawnSubAgent
=============================================================================
