------------------------------- MODULE Workspace -------------------------------
(***************************************************************************)
(* Loading a project (config/): the files of its directories are read in   *)
(* whatever order the directory gives them, the pipeline is checked step   *)
(* by step and its graph searched for cycles; what is accepted is later    *)
(* planned in levels (config/dag.rs) with no further check.                *)
(*                                                                         *)
(* A file is its name; a step the keys of its mapping, what its texts      *)
(* refer to and what it depends on.                                        *)
(***************************************************************************)
EXTENDS Naturals, Sequences, SequencesExt, FiniteSetsExt

CONSTANTS
    Directories, \* what the directories may hold: sets of [kind, name, path, tools]
    Shapes,      \* [id, keys, name, deps, refs, when, when_refs]: steps one may write
    MaxSteps,    \* steps of the pipeline, at most
    OutputsOf,   \* the `output:` blocks one may write: sequences of step ids, or NoOutput
    Builtins, Python, Servers  \* the tools known beside those of tools/*.yml

None == "none"
NoOutput == << "none" >>

VARIABLES
    steps, output,  \* the pipeline
    unread,         \* files of the directories not read yet
    loaded,         \* the files loaded
    pc,             \* "read", "parse", "refs", "output", "search", "accepted", "rejected"
    at,             \* the step being checked, or where the search starts
    color,          \* id -> 0 unvisited, 1 in progress, 2 done
    stack,          \* << <<id, how many of its dependencies were looked at>> >>
    error

vars == <<steps, output, unread, loaded, pc, at, color, stack, error>>

Ids == {steps[n].id : n \in DOMAIN steps}

Init ==
    /\ steps \in BoundedSeq(Shapes, MaxSteps) /\ output \in OutputsOf
    /\ unread \in Directories
    /\ loaded = {}
    /\ pc = "read" /\ at = 1
    /\ color = << >> /\ stack = << >>
    /\ error = None

Reject(why) == pc' = "rejected" /\ error' = why

(* load_project_dir: agents, then pipelines, then tools. *)
Order == <<"agent", "pipeline", "tool">>
Turn == {f \in unread : \A g \in unread : IndexFirstSubSeq(<<f.kind>>, Order) <= IndexFirstSubSeq(<<g.kind>>, Order)}

Named(kind) == {f.name : f \in {g \in loaded : g.kind = kind}}

ReadFile ==
    \E f \in Turn :
        /\ pc = "read"
        /\ unread' = unread \ {f}
        /\ IF f.name \in Named(f.kind)
           THEN Reject("duplicate") /\ UNCHANGED loaded
           ELSE loaded' = loaded \cup {f} /\ UNCHANGED <<pc, error>>
        /\ UNCHANGED <<steps, output, at, color, stack>>

(* PipelineStep::deserialize: exactly one of the three forms, complete. *)
HasAgent(k) == k \cap {"agent", "task"} # {}
HasTool(k) == k \cap {"tool", "args"} # {}
HasAsk(k) == "ask" \in k
KindOf(k) ==
    CASE HasAgent(k) /\ ~HasTool(k) /\ ~HasAsk(k) /\ {"agent", "task"} \subseteq k -> "agent"
      [] HasTool(k) /\ ~HasAgent(k) /\ ~HasAsk(k) /\ "tool" \in k -> "tool"
      [] HasAsk(k) /\ ~HasAgent(k) /\ ~HasTool(k) -> "ask"
      [] OTHER -> None

(* ConfigToolNameResolver: the tools of an MCP server are not known yet;   *)
(* a name <<server, tool>> stands for mcp__server__tool.                   *)
Knows(name) == name[1] \in Builtins \cup Named("tool") \cup Python \/ (Len(name) = 2 /\ name[1] \in Servers)

Parse ==
    /\ pc = "read" /\ unread = {}
    /\ CASE \E n \in DOMAIN steps : KindOf(steps[n].keys) = None -> Reject("form")
         [] \E f \in loaded : \E tool \in f.tools : ~Knows(tool) -> Reject("agent tool")
         [] OTHER -> pc' = "refs" /\ UNCHANGED error
    /\ UNCHANGED <<steps, output, unread, loaded, at, color, stack>>

\* a slip: what an ask's prompt refers to is not checked
Undeclared_args(s) == IF KindOf(s.keys) = "tool" THEN s.refs \ (s.deps \cup {s.id}) ELSE {}

(* References of a tool's arguments or an ask's prompt to other steps must *)
(* be dependencies; those of an agent's task are not looked at.            *)
Undeclared(s) == IF KindOf(s.keys) = "agent" THEN {} ELSE s.refs \ (s.deps \cup {s.id})

StepError(s) ==
    CASE KindOf(s.keys) = "agent" /\ s.name[1] \notin Named("agent") -> "agent"
      [] KindOf(s.keys) = "tool" /\ ~Knows(s.name) -> "tool"
      [] Undeclared(s) # {} -> "reference"
      [] ~(s.deps \subseteq Ids) -> "dependency"
      [] s.when /\ s.deps = {} -> "when"
      [] s.when /\ ~(s.when_refs \subseteq s.deps) -> "when"
      [] OTHER -> None

CheckStep ==
    /\ pc = "refs" /\ at <= Len(steps)
    /\ IF StepError(steps[at]) # None
       THEN Reject(StepError(steps[at])) /\ UNCHANGED at
       ELSE at' = at + 1 /\ UNCHANGED <<pc, error>>
    /\ UNCHANGED <<steps, output, unread, loaded, color, stack>>

CheckOutput ==
    /\ pc = "refs" /\ at > Len(steps)
    /\ IF output # NoOutput /\ (output = << >> \/ ~(ToSet(output) \subseteq Ids) \/ ~IsInjective(output))
       THEN Reject("output") /\ UNCHANGED <<at, color>>
       ELSE pc' = "search" /\ at' = 1 /\ color' = [i \in Ids |-> 0] /\ UNCHANGED error
    /\ UNCHANGED <<steps, output, unread, loaded, stack>>
-----------------------------------------------------------------------------
(* validate_pipeline_dag: a depth-first search with its own stack; of two  *)
(* steps with one id the last one's dependencies count.                    *)
Deps(i) == LET n == Max({m \in DOMAIN steps : steps[m].id = i}) IN SetToSeq(steps[n].deps)
Top == Last(stack)

StartAt ==
    /\ pc = "search" /\ stack = << >>
    /\ IF at > Len(steps) THEN pc' = "accepted" /\ UNCHANGED <<at, color, stack>>
       ELSE IF color[steps[at].id] = 2 THEN at' = at + 1 /\ UNCHANGED <<pc, color, stack>>
       ELSE /\ stack' = << <<steps[at].id, 0>> >>
            /\ color' = [color EXCEPT ![steps[at].id] = 1]
            /\ UNCHANGED <<pc, at>>
    /\ UNCHANGED <<steps, output, unread, loaded, error>>

Visit_once(deps) ==
    LET d == deps[Top[2] + 1]
        rest == [stack EXCEPT ![Len(stack)] = <<Top[1], Top[2] + 1>>]
    IN IF color[d] = 0
       THEN stack' = Append(rest, <<d, 0>>) /\ color' = [color EXCEPT ![d] = 2] /\ UNCHANGED <<pc, error>>
       ELSE IF color[d] = 1 THEN Reject("cycle") /\ UNCHANGED <<stack, color>>
       ELSE stack' = rest /\ UNCHANGED <<color, pc, error>>

Visit(deps) ==
    LET d == deps[Top[2] + 1]
        rest == [stack EXCEPT ![Len(stack)] = <<Top[1], Top[2] + 1>>]
    IN IF color[d] = 0
       THEN stack' = Append(rest, <<d, 0>>) /\ color' = [color EXCEPT ![d] = 1] /\ UNCHANGED <<pc, error>>
       ELSE IF color[d] = 1 THEN Reject("cycle") /\ UNCHANGED <<stack, color>>
       ELSE stack' = rest /\ UNCHANGED <<color, pc, error>>

Search ==
    /\ pc = "search" /\ stack # << >>
    /\ IF Top[2] < Len(Deps(Top[1])) THEN Visit(Deps(Top[1]))
       ELSE /\ stack' = Front(stack) /\ color' = [color EXCEPT ![Top[1]] = 2]
            /\ UNCHANGED <<pc, error>>
    /\ UNCHANGED <<steps, output, unread, loaded, at>>

Next == ReadFile \/ Parse \/ CheckStep \/ CheckOutput \/ StartAt \/ Search

Spec == Init /\ [][Next]_vars
-----------------------------------------------------------------------------
(* build_execution_plan: level by level, a step once all its dependencies  *)
(* are placed; steps of one id are one.                                    *)
AllDeps(i) == UNION {steps[n].deps : n \in {m \in DOMAIN steps : steps[m].id = i}} \cap Ids

Placed[n \in 0..MaxSteps] ==
    IF n = 0 THEN {} ELSE Placed[n - 1] \cup {i \in Ids : AllDeps(i) \subseteq Placed[n - 1]}
LevelOf(i) == Min({n \in 1..MaxSteps : i \in Placed[n]})
Plannable == Placed[MaxSteps] = Ids

Distinct == Cardinality(Ids) = Len(steps)

TypeOK ==
    /\ pc \in {"read", "refs", "search", "accepted", "rejected"}
    /\ (error # None) = (pc = "rejected")
    /\ \A n \in DOMAIN stack : color[stack[n][1]] = 1 /\ stack[n][2] <= Len(Deps(stack[n][1]))

(* A project that is accepted can be run: every step has its level, all it *)
(* depends on and all its arguments, prompt or `when:` read is at a lower  *)
(* one, and its output exists; a project rejected for a cycle has one.     *)
ProjectSound ==
    /\ pc = "accepted" /\ Distinct =>
          /\ Plannable
          /\ \A n \in DOMAIN steps :
                LET s == steps[n]
                    read == (IF KindOf(s.keys) = "agent" THEN {} ELSE s.refs \ {s.id})
                                \cup (IF s.when THEN s.when_refs ELSE {})
                IN \A d \in s.deps \cup read : d \in Ids /\ LevelOf(d) < LevelOf(s.id)
          /\ output # NoOutput => ToSet(output) \subseteq Ids
    /\ error = "cycle" /\ Distinct => ~Plannable

(* "self-ref is the cycle check's domain": no step that is accepted reads  *)
(* its own output.                                                         *)
NoSelfReference ==
    pc = "accepted" => \A n \in DOMAIN steps : KindOf(steps[n].keys) # "agent" => steps[n].id \notin steps[n].refs

(* Every step of an accepted pipeline is a step of its plan.               *)
EveryStepPlanned == pc = "accepted" => Distinct
=============================================================================
