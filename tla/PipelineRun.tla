----------------------------- MODULE PipelineRun -----------------------------
(***************************************************************************)
(* Executions of one pipeline: handlers/run_pipeline.rs, and                *)
(* handlers/resume_pipeline.rs, which forks a new run off the recorded     *)
(* events of an earlier one.                                               *)
(*                                                                         *)
(* The handler walks the levels of the plan.  It decides, in the order of  *)
(* their ids, which steps of the level are skipped and spawns the others   *)
(* as tasks; it joins them in the same order; a failed tool step, or a     *)
(* task that ends with an error, halts the run after the level.  The tasks *)
(* run side by side, with the handler and with one another.  All that is   *)
(* left of a run for a later one is its stream of events.                  *)
(***************************************************************************)
EXTENDS Integers, Sequences, FiniteSets

CONSTANTS
    Steps,          \* step ids, as numbers in the order in which ids are sorted
    Kind,           \* Kind[s]: "agent", "tool" or "ask"
    DependsOn,      \* depends_on
    Conditional,    \* steps with a `when:`
    NoResume,       \* steps whose tools are marked no_resume
    Shell,          \* steps whose tools use the shell session of the run
    Output,         \* the steps named by `output:`, in order; << >> if there is none
    Runs, Roots,    \* run streams, and those that do not begin as a fork
    LiveForks,      \* whether a run may be forked while it goes on (the code does not ask)
    WhenErrors,     \* whether a `when:` may fail to parse after substitution
    MaxFaults       \* bound: appends that fail and processes that die, in all

ASSUME PipelineAssumption ==
    /\ Steps \subseteq Nat /\ Steps # {}
    /\ Kind \in [Steps -> {"agent", "tool", "ask"}]
    /\ DependsOn \in [Steps -> SUBSET Steps]
    /\ \A S \in SUBSET Steps : S # {} => \E s \in S : DependsOn[s] \cap S = {}
    /\ Conditional \subseteq Steps /\ NoResume \subseteq Steps /\ Shell \subseteq Steps
    /\ \A s \in Conditional : DependsOn[s] # {}
    /\ Output \in Seq(Steps)
    /\ Roots \subseteq Runs /\ "raw" \notin Runs
    /\ LiveForks \in BOOLEAN /\ WhenErrors \in BOOLEAN /\ MaxFaults \in Nat

Modes == {"cli", "serve", "resume"}

VARIABLES
    mode,       \* mode[r]: who started r
    parent,     \* parent[r]: the run r was forked from, r itself if none
    frozen,     \* frozen[r]: steps taken over from the parent
    pc,         \* pc[r]: where the handler is
    placed,     \* placed[r]: steps of the levels that are over
    todo,       \* todo[r]: steps of the level (or of the bootstrap) not looked at yet
    joining,    \* joining[r]: spawned steps of the level not joined yet
    task,       \* task[r][s]: how far the task of s is
    output,     \* output[r][s]: step_outputs: the run that produced it, {} if absent
    skipped,
    overall,    \* overall[r]: overall_success
    halt,       \* halt[r]: halt.is_some()
    pending,    \* pending[r]: terminal events not emitted yet
    log,        \* log[r]: the stream of r
    sub,        \* sub[r][s]: the output the sub-stream of s ends with, {} if absent
    acted,      \* acted[r]: history: steps that executed a tool
    session,    \* session[r]: whether the stream has a shell session
    faults      \* how many faults there were

decisions == <<mode, parent, frozen>>
level     == <<placed, todo, joining>>
stream    == <<log, faults>>
results   == <<output, skipped, overall, halt>>
vars == <<mode, parent, frozen, pc, placed, todo, joining, task, output, skipped, overall, halt,
          pending, log, sub, acted, session, faults>>

------------------------------------------------------------------------------

First(S) == CHOOSE s \in S : \A t \in S : s <= t

Ended == {"ok", "err", "closed", "dead"}

Alive == {"spawned", "running", "acted"}

(* What an agent leaves in its sub-stream before its answer: a tool result, or an *)
(* answer cut off.                                                                *)
Raw == "raw"

Event(k, s, ok) == [kind |-> k, step |-> s, ok |-> ok]
NodeStarted(s) == Event("node_started", s, TRUE)
NodeCompleted(s, ok) == Event("node_completed", s, ok)
Skip(s) == Event("skipped", s, TRUE)
OfRun(k, ok) == Event(k, 0, ok)

Has(r, e) == \E i \in DOMAIN log[r] : log[r][i] = e

(* An append that fails, a process that dies. *)
Fault == faults < MaxFaults /\ faults' = faults + 1

(* emit_event: what cannot be appended is logged and forgotten. *)
Emit(r, e) == \/ log' = [log EXCEPT ![r] = Append(@, e)] /\ UNCHANGED faults
              \/ Fault /\ UNCHANGED log

(* build_execution_plan: a level is what depends on earlier levels only. *)
LevelAfter(done) == {s \in Steps \ done : DependsOn[s] \subseteq done}
Level(r) == LevelAfter(placed[r])

Depth[s \in Steps] ==
    IF DependsOn[s] = {} THEN 0
    ELSE 1 + (CHOOSE d \in {Depth[t] : t \in DependsOn[s]} : \A t \in DependsOn[s] : d >= Depth[t])

(* The last step of the last level. *)
LastStep == CHOOSE s \in Steps : \A t \in Steps :
                Depth[t] < Depth[s] \/ (Depth[t] = Depth[s] /\ t <= s)

Init ==
    /\ mode = [r \in Runs |-> "cli"]
    /\ parent = [r \in Runs |-> r]
    /\ frozen = [r \in Runs |-> {}]
    /\ pc = [r \in Runs |-> "unused"]
    /\ placed = [r \in Runs |-> {}]
    /\ todo = [r \in Runs |-> {}]
    /\ joining = [r \in Runs |-> {}]
    /\ task = [r \in Runs |-> [s \in Steps |-> "none"]]
    /\ output = [r \in Runs |-> [s \in Steps |-> {}]]
    /\ skipped = [r \in Runs |-> {}]
    /\ overall = [r \in Runs |-> TRUE]
    /\ halt = [r \in Runs |-> FALSE]
    /\ pending = [r \in Runs |-> << >>]
    /\ log = [r \in Runs |-> << >>]
    /\ sub = [r \in Runs |-> [s \in Steps |-> {}]]
    /\ acted = [r \in Runs |-> {}]
    /\ session = [r \in Runs |-> FALSE]
    /\ faults = 0

------------------------------------------------------------------------------
(* A run begins: handle(), up to the loop over the levels. *)

Request(r) ==
    /\ r \in Roots
    /\ pc[r] = "unused"
    /\ \/ mode' = [mode EXCEPT ![r] = "cli"] /\ Emit(r, OfRun("requested", TRUE))
       \/ /\ mode' = [mode EXCEPT ![r] = "serve"]
          /\ log' = [log EXCEPT ![r] = Append(@, OfRun("requested", TRUE))]
          /\ UNCHANGED faults
    /\ pc' = [pc EXCEPT ![r] = "requested"]
    /\ UNCHANGED <<parent, frozen, level, task, results, pending, sub, acted, session>>

Begin(r) ==
    /\ pc[r] = "requested"
    /\ Emit(r, OfRun("started", TRUE))
    /\ pc' = [pc EXCEPT ![r] = "dispatch"]
    /\ todo' = [todo EXCEPT ![r] = Level(r)]
    /\ UNCHANGED <<decisions, placed, joining, task, results, pending, sub, acted, session>>

------------------------------------------------------------------------------
(* The loop over the steps of a level. *)

Poisoned_never(r, s) == FALSE           \* with a bug: skips do not cascade

Considers(r, s) == pc[r] = "dispatch" /\ todo[r] # {} /\ s = First(todo[r])
Poisoned(r, s) == DependsOn[s] \cap skipped[r] # {}

PassFrozen(r, s) ==
    /\ Considers(r, s)
    /\ s \in frozen[r]
    /\ todo' = [todo EXCEPT ![r] = @ \ {s}]
    /\ UNCHANGED <<decisions, pc, placed, joining, task, results, pending, stream, sub, acted, session>>

(* A skipped dependency, or else a `when:` that is false. *)
SkipStep(r, s) ==
    /\ Considers(r, s)
    /\ s \notin frozen[r]
    /\ Poisoned(r, s) \/ s \in Conditional
    /\ Emit(r, Skip(s))
    /\ skipped' = [skipped EXCEPT ![r] = @ \cup {s}]
    /\ todo' = [todo EXCEPT ![r] = @ \ {s}]
    /\ UNCHANGED <<decisions, pc, placed, joining, task, output, overall, halt, pending, sub, acted, session>>

(* The `when:` does not parse: handle() returns at once, whatever it has spawned. *)
WhenFails(r, s) ==
    /\ WhenErrors
    /\ Considers(r, s)
    /\ s \in Conditional \ frozen[r]
    /\ ~Poisoned(r, s)
    /\ pc' = [pc EXCEPT ![r] = "err"]
    /\ UNCHANGED <<decisions, level, task, results, pending, stream, sub, acted, session>>

Spawn(r, s) ==
    /\ Considers(r, s)
    /\ s \notin frozen[r]
    /\ ~Poisoned(r, s)
    /\ task' = [task EXCEPT ![r][s] = "spawned"]
    /\ todo' = [todo EXCEPT ![r] = @ \ {s}]
    /\ joining' = [joining EXCEPT ![r] = @ \cup {s}]
    /\ UNCHANGED <<decisions, pc, placed, results, pending, stream, sub, acted, session>>

AllSpawned(r) ==
    /\ pc[r] = "dispatch"
    /\ todo[r] = {}
    /\ pc' = [pc EXCEPT ![r] = "join"]
    /\ UNCHANGED <<decisions, level, task, results, pending, stream, sub, acted, session>>

------------------------------------------------------------------------------
(* The tasks: run_agent_step, run_tool_step, run_ask_step. *)

handler == <<decisions, pc, level, results, pending>>

StepStarts(r, s) ==
    /\ task[r][s] = "spawned"
    /\ task' = [task EXCEPT ![r][s] = "running"]
    /\ Emit(r, NodeStarted(s))
    /\ UNCHANGED <<handler, sub, acted, session>>

(* With a bug: what was frozen is shadowed, not what runs again. *)
Shadowed_frozen(r, s) == mode[r] = "resume" /\ s \in NoResume \cap frozen[r]

(* The placeholder of a no_resume tool in a resumed run. *)
Shadowed(r, s) == mode[r] = "resume" /\ s \in NoResume

Record(r, s) == \/ sub' = [sub EXCEPT ![r][s] = {Raw}] /\ UNCHANGED faults
                \/ Fault /\ UNCHANGED sub

(* An approved tool call, which may open the shell session of the run.  A tool *)
(* step makes one call, an agent as many as it likes, and records each.        *)
ExecuteTool(r, s) ==
    /\ task[r][s] = "running"
    /\ Kind[s] # "ask"
    /\ ~Shadowed(r, s)
    /\ acted' = [acted EXCEPT ![r] = @ \cup {s}]
    /\ session' = [session EXCEPT ![r] = @ \/ s \in Shell]
    /\ \/ Kind[s] = "tool" /\ task' = [task EXCEPT ![r][s] = "acted"] /\ UNCHANGED <<sub, faults>>
       \/ Kind[s] = "agent" /\ Record(r, s) /\ UNCHANGED task
    /\ UNCHANGED <<handler, log>>

(* A call of an agent that is refused, or gets a placeholder. *)
RefuseCall(r, s) ==
    /\ task[r][s] = "running"
    /\ Kind[s] = "agent"
    /\ Record(r, s)
    /\ UNCHANGED <<handler, task, log, acted, session>>

Return(r, s, ok) == task' = [task EXCEPT ![r][s] = IF ok THEN "ok" ELSE "failed"]

(* With a bug: the id of the call is recorded for its result. *)
Conclude_by_id(r, s, ok) ==
    /\ log' = [log EXCEPT ![r] = Append(@, NodeCompleted(s, ok))]
    /\ sub' = [sub EXCEPT ![r][s] = {"call_id"}]
    /\ UNCHANGED faults

(* The output goes to the sub-stream, the end of the step to the stream of the run. *)
Conclude(r, s, ok) ==
    LET ended == [log EXCEPT ![r] = Append(@, NodeCompleted(s, ok))]
        kept  == [sub EXCEPT ![r][s] = {r}]
    IN  \/ log' = ended /\ sub' = kept /\ UNCHANGED faults
        \/ Fault /\ log' = ended /\ UNCHANGED sub
        \/ Fault /\ sub' = kept /\ UNCHANGED log

(* A tool step ends: after its call, after a refusal, or with a placeholder. *)
ToolReturns(r, s) ==
    /\ Kind[s] = "tool"
    /\ \E ok \in BOOLEAN :
          /\ \/ task[r][s] = "acted"
             \/ task[r][s] = "running" /\ (ok <=> Shadowed(r, s))
          /\ Conclude(r, s, ok)
          /\ Return(r, s, ok)
    /\ UNCHANGED <<handler, acted, session>>

AskReturns(r, s) ==
    /\ Kind[s] = "ask"
    /\ task[r][s] = "running"
    /\ \E ok \in BOOLEAN : Emit(r, NodeCompleted(s, ok)) /\ Return(r, s, ok)
    /\ UNCHANGED <<handler, sub, acted, session>>

AgentAnswers(r, s) ==
    /\ Kind[s] = "agent"
    /\ task[r][s] = "running"
    /\ Conclude(r, s, TRUE)
    /\ Return(r, s, TRUE)
    /\ UNCHANGED <<handler, acted, session>>

(* max_iterations without an answer: a failed result, and no event. *)
AgentGivesUp(r, s) ==
    /\ Kind[s] = "agent"
    /\ task[r][s] = "running"
    /\ Return(r, s, FALSE)
    /\ UNCHANGED <<handler, stream, sub, acted, session>>

(* The LLM fails or is cut off, the context cannot be built, the task panics. *)
TaskErrs(r, s) ==
    /\ task[r][s] \in {"running", "acted"}
    /\ task' = [task EXCEPT ![r][s] = "error"]
    /\ \/ UNCHANGED sub
       \/ Kind[s] = "agent" /\ sub' = [sub EXCEPT ![r][s] = {Raw}]
    /\ UNCHANGED <<handler, stream, acted, session>>

------------------------------------------------------------------------------
(* Joining, and the end of a level. *)

Joins(r, s) == pc[r] = "join" /\ joining[r] # {} /\ s = First(joining[r])

(* With a bug: a failed tool step is as soft as a failed agent. *)
JoinResult_soft(r, s) ==
    /\ Joins(r, s)
    /\ task[r][s] \in {"ok", "failed"}
    /\ output' = [output EXCEPT ![r][s] = {r}]
    /\ overall' = [overall EXCEPT ![r] = @ /\ task[r][s] = "ok"]
    /\ joining' = [joining EXCEPT ![r] = @ \ {s}]
    /\ UNCHANGED <<decisions, pc, placed, todo, task, skipped, halt, pending, stream, sub, acted,
                   session>>

(* With a bug: a failed result is sealed as well. *)
JoinResult_sealed(r, s) ==
    /\ Joins(r, s)
    /\ task[r][s] \in {"ok", "failed"}
    /\ IF task[r][s] = "failed" THEN Emit(r, NodeCompleted(s, FALSE)) ELSE UNCHANGED stream
    /\ output' = [output EXCEPT ![r][s] = {r}]
    /\ overall' = [overall EXCEPT ![r] = @ /\ task[r][s] = "ok"]
    /\ halt' = [halt EXCEPT ![r] = @ \/ (task[r][s] = "failed" /\ Kind[s] = "tool")]
    /\ joining' = [joining EXCEPT ![r] = @ \ {s}]
    /\ UNCHANGED <<decisions, pc, placed, todo, task, skipped, pending, sub, acted, session>>

(* A result, good or bad, becomes the output; a failed tool step halts the run. *)
JoinResult(r, s) ==
    /\ Joins(r, s)
    /\ task[r][s] \in {"ok", "failed"}
    /\ output' = [output EXCEPT ![r][s] = {r}]
    /\ overall' = [overall EXCEPT ![r] = @ /\ task[r][s] = "ok"]
    /\ halt' = [halt EXCEPT ![r] = @ \/ (task[r][s] = "failed" /\ Kind[s] = "tool")]
    /\ joining' = [joining EXCEPT ![r] = @ \ {s}]
    /\ UNCHANGED <<decisions, pc, placed, todo, task, skipped, pending, stream, sub, acted, session>>

(* With a bug: the run goes on being a success. *)
JoinError_quiet(r, s) ==
    /\ Joins(r, s)
    /\ task[r][s] = "error"
    /\ Emit(r, NodeCompleted(s, FALSE))
    /\ halt' = [halt EXCEPT ![r] = TRUE]
    /\ joining' = [joining EXCEPT ![r] = @ \ {s}]
    /\ UNCHANGED <<decisions, pc, placed, todo, task, output, skipped, overall, pending, sub,
                   acted, session>>
JoinError_never(r, s) == FALSE          \* with a bug: only results are joined

(* A task without a result is sealed as a failed step. *)
JoinError(r, s) ==
    /\ Joins(r, s)
    /\ task[r][s] = "error"
    /\ Emit(r, NodeCompleted(s, FALSE))
    /\ overall' = [overall EXCEPT ![r] = FALSE]
    /\ halt' = [halt EXCEPT ![r] = TRUE]
    /\ joining' = [joining EXCEPT ![r] = @ \ {s}]
    /\ UNCHANGED <<decisions, pc, placed, todo, task, output, skipped, pending, sub, acted, session>>

(* With a bug: a halted run does not wait for the siblings. *)
Joined_early(r) == pc[r] = "join" /\ (joining[r] = {} \/ halt[r])

Joined(r) == pc[r] = "join" /\ joining[r] = {}

NextLevel(r) ==
    /\ Joined(r)
    /\ ~halt[r]
    /\ \E done \in {placed[r] \cup Level(r)} :
          /\ placed' = [placed EXCEPT ![r] = done]
          /\ todo' = [todo EXCEPT ![r] = LevelAfter(done)]
          /\ pc' = [pc EXCEPT ![r] = IF done = Steps THEN "resolve" ELSE "dispatch"]
    /\ UNCHANGED <<decisions, joining, task, results, pending, stream, sub, acted, session>>

Break(r) ==
    /\ Joined(r)
    /\ halt[r]
    /\ pc' = [pc EXCEPT ![r] = "resolve"]
    /\ UNCHANGED <<decisions, level, task, results, pending, stream, sub, acted, session>>

------------------------------------------------------------------------------
(* The end of a run. *)

(* resolve_final_output: the first of the named steps that was not skipped. *)
Survivors(r) == {i \in DOMAIN Output : Output[i] \notin skipped[r]}
Chosen(r) == IF Survivors(r) = {} THEN {} ELSE {Output[First(Survivors(r))]}
NoneLeft(r) == Output # << >> /\ Survivors(r) = {}

(* ... and its output, or that of the last step of the plan. *)
FinalOutput(r) ==
    LET resolved == UNION {output[r][s] : s \in Chosen(r)}
    IN  IF resolved # {} THEN resolved ELSE output[r][LastStep]

When(c, e) == IF c THEN <<e>> ELSE << >>

Resolve(r) ==
    LET success == overall[r] /\ ~NoneLeft(r)
    IN  /\ pc[r] = "resolve"
        /\ overall' = [overall EXCEPT ![r] = success]
        /\ halt' = [halt EXCEPT ![r] = @ \/ NoneLeft(r)]
        /\ pending' = [pending EXCEPT ![r] =
               <<OfRun("completed", success)>>
               \o When(Chosen(r) # {}, OfRun("resolved", TRUE))
               \o When(success /\ FinalOutput(r) # {}, OfRun("response", TRUE))
               \o When(mode[r] # "serve", OfRun("run_completed", success))]
        /\ pc' = [pc EXCEPT ![r] = "sealing"]
        /\ UNCHANGED <<decisions, level, task, output, skipped, stream, sub, acted, session>>

EmitPending(r) ==
    /\ pending[r] # << >>
    /\ pc[r] \in {"sealing", "completing"}
    /\ Emit(r, Head(pending[r]))
    /\ pending' = [pending EXCEPT ![r] = Tail(@)]
    /\ UNCHANGED <<decisions, pc, level, task, results, sub, acted, session>>

(* close_session; handle() returns Err if the run was halted. *)
Finish(r) ==
    /\ pc[r] = "sealing"
    /\ pending[r] = << >>
    /\ session' = [session EXCEPT ![r] = FALSE]
    /\ pc' = [pc EXCEPT ![r] = IF halt[r] THEN "err" ELSE "ok"]
    /\ UNCHANGED <<decisions, level, task, results, pending, stream, sub, acted>>

(* Under `zymi serve` the router publishes the completion. *)
RouterCompletes(r) ==
    /\ mode[r] = "serve"
    /\ pc[r] \in {"ok", "err"}
    /\ pending' = [pending EXCEPT ![r] = <<OfRun("run_completed", pc[r] = "ok" /\ overall[r])>>]
    /\ pc' = [pc EXCEPT ![r] = "completing"]
    /\ UNCHANGED <<decisions, level, task, results, stream, sub, acted, session>>

RouterDone(r) ==
    /\ pc[r] = "completing"
    /\ pending[r] = << >>
    /\ pc' = [pc EXCEPT ![r] = "closed"]
    /\ UNCHANGED <<decisions, level, task, results, pending, stream, sub, acted, session>>

(* The process dies with every task that is left, or ends after its run. *)
Kill(r) ==
    /\ pc' = [pc EXCEPT ![r] = "dead"]
    /\ task' = [task EXCEPT ![r] = [s \in Steps |->
                   IF task[r][s] \in Alive THEN "killed" ELSE task[r][s]]]
    /\ session' = [session EXCEPT ![r] = FALSE]
    /\ todo' = [todo EXCEPT ![r] = {}] /\ joining' = [joining EXCEPT ![r] = {}]
    /\ overall' = [overall EXCEPT ![r] = TRUE] /\ halt' = [halt EXCEPT ![r] = FALSE]
    /\ pending' = [pending EXCEPT ![r] = << >>]
    /\ UNCHANGED <<decisions, placed, output, skipped, log, sub, acted>>
Die(r)  == pc[r] \notin {"unused", "closed", "dead"} /\ Fault /\ Kill(r)
Exit(r) == mode[r] # "serve" /\ pc[r] = "err" /\ UNCHANGED faults /\ Kill(r)

------------------------------------------------------------------------------
(* zymi resume *)

(* transitive_dependents: the least set with f and all that depends on a member. *)
Dependents(f) ==
    {s \in Steps : \A S \in SUBSET Steps :
        (f \in S /\ \A t \in Steps : DependsOn[t] \cap S # {} => t \in S) => s \in S}

(* With a bug: the success flag is not looked at. *)
Completed_any(q) ==
    {s \in Steps : Has(q, NodeCompleted(s, TRUE)) \/ Has(q, NodeCompleted(s, FALSE))}

Completed(q) == {s \in Steps : Has(q, NodeCompleted(s, TRUE))}

(* plan_with and extract_step_output: all but the dependents of f is frozen, and *)
(* must have completed in the parent and left its output in its sub-stream.      *)
Resumable(q, f) ==
    /\ Has(q, OfRun("requested", TRUE))
    /\ Steps \ Dependents(f) \subseteq Completed(q)
    /\ \A s \in Steps \ Dependents(f) : sub[q][s] # {}

Fork(r, q, f) ==
    /\ pc[r] = "unused"
    /\ q # r
    /\ LiveForks \/ pc[q] \in Ended
    /\ Resumable(q, f)
    /\ mode' = [mode EXCEPT ![r] = "resume"]
    /\ parent' = [parent EXCEPT ![r] = q]
    /\ frozen' = [frozen EXCEPT ![r] = Steps \ Dependents(f)]
    /\ output' = [output EXCEPT ![r] = [s \in Steps |-> IF s \in Dependents(f) THEN {} ELSE sub[q][s]]]
    /\ todo' = [todo EXCEPT ![r] = Steps \ Dependents(f)]
    /\ log' = [log EXCEPT ![r] = <<OfRun("requested", TRUE), OfRun("forked", TRUE),
                                   OfRun("started", TRUE)>>]
    /\ pc' = [pc EXCEPT ![r] = "bootstrap"]
    /\ UNCHANGED <<placed, joining, task, skipped, overall, halt, pending, sub, acted, session,
                   faults>>

(* replay_frozen_step, in the order of the DAG. *)
ReplayFrozen(r, s) ==
    /\ pc[r] = "bootstrap"
    /\ s \in todo[r]
    /\ DependsOn[s] \cap todo[r] = {}
    /\ log' = [log EXCEPT ![r] = @ \o <<NodeStarted(s), NodeCompleted(s, TRUE)>>]
    /\ sub' = [sub EXCEPT ![r][s] = sub[parent[r]][s]]
    /\ todo' = [todo EXCEPT ![r] = @ \ {s}]
    /\ UNCHANGED <<decisions, pc, placed, joining, task, results, pending, acted, session, faults>>

BootstrapFails(r) ==
    /\ pc[r] = "bootstrap"
    /\ Fault
    /\ pc' = [pc EXCEPT ![r] = "err"]
    /\ UNCHANGED <<decisions, level, task, results, pending, log, sub, acted, session>>

BootstrapDone(r) ==
    /\ pc[r] = "bootstrap"
    /\ todo[r] = {}
    /\ todo' = [todo EXCEPT ![r] = Level(r)]
    /\ pc' = [pc EXCEPT ![r] = "dispatch"]
    /\ UNCHANGED <<decisions, placed, joining, task, results, pending, stream, sub, acted, session>>

------------------------------------------------------------------------------

Task(r, s) ==
    \/ StepStarts(r, s) \/ ExecuteTool(r, s) \/ RefuseCall(r, s) \/ ToolReturns(r, s)
    \/ AskReturns(r, s) \/ AgentAnswers(r, s) \/ AgentGivesUp(r, s) \/ TaskErrs(r, s)
HandlerStep(r, s) ==
    \/ SkipStep(r, s) \/ WhenFails(r, s) \/ Spawn(r, s) \/ JoinResult(r, s) \/ JoinError(r, s)
Handler(r) ==
    \/ Begin(r) \/ AllSpawned(r) \/ NextLevel(r) \/ Break(r) \/ Resolve(r) \/ EmitPending(r)
    \/ Finish(r) \/ RouterCompletes(r) \/ RouterDone(r)
(* What only a fork does. *)
FrozenStep(r, s) == PassFrozen(r, s) \/ ReplayFrozen(r, s)
Bootstrap(r) == BootstrapFails(r) \/ BootstrapDone(r)

Next ==
    \/ \E r \in Runs :
          \/ Request(r) \/ Handler(r) \/ Die(r) \/ Exit(r)
          \/ \E s \in Steps : HandlerStep(r, s) \/ Task(r, s)
    \/ \E r \in Runs \ Roots :
          \/ Bootstrap(r)
          \/ \E s \in Steps : FrozenStep(r, s)
          \/ \E q \in Runs, f \in Steps : Fork(r, q, f)

(* The runtime polls its tasks, and every call a step makes comes back: LLM and *)
(* HTTP clients, tools and approvals have time-outs, iterations a limit.         *)
Fairness ==
    \A r \in Runs :
        /\ WF_vars(\/ Handler(r) \/ Bootstrap(r)
                   \/ \E s \in Steps : HandlerStep(r, s) \/ FrozenStep(r, s))
        /\ \A s \in Steps :
              WF_vars(\/ StepStarts(r, s) \/ ToolReturns(r, s) \/ AskReturns(r, s)
                      \/ AgentAnswers(r, s) \/ AgentGivesUp(r, s) \/ TaskErrs(r, s))

Spec == Init /\ [][Next]_vars
FairSpec == Spec /\ Fairness

------------------------------------------------------------------------------
(* Properties *)

Kinds == {"requested", "forked", "started", "node_started", "node_completed", "skipped",
          "completed", "resolved", "response", "run_completed"}
Entry == [kind : Kinds, step : Steps \cup {0}, ok : BOOLEAN]
Over == {"ok", "failed", "error"}

(* Every variable keeps its type. *)
TypeOK ==
    /\ mode \in [Runs -> Modes] /\ parent \in [Runs -> Runs]
    /\ frozen \in [Runs -> SUBSET Steps]
    /\ pc \in [Runs -> {"unused", "requested", "bootstrap", "dispatch", "join", "resolve",
                        "sealing", "ok", "err", "completing", "closed", "dead"}]
    /\ placed \in [Runs -> SUBSET Steps] /\ todo \in [Runs -> SUBSET Steps]
    /\ joining \in [Runs -> SUBSET Steps] /\ skipped \in [Runs -> SUBSET Steps]
    /\ task \in [Runs -> [Steps -> {"none", "killed"} \cup Alive \cup Over]]
    /\ output \in [Runs -> [Steps -> SUBSET (Runs \cup {Raw})]]
    /\ sub \in [Runs -> [Steps -> SUBSET (Runs \cup {Raw})]]
    /\ overall \in [Runs -> BOOLEAN] /\ halt \in [Runs -> BOOLEAN]
    /\ pending \in [Runs -> Seq(Entry)] /\ log \in [Runs -> Seq(Entry)]
    /\ acted \in [Runs -> SUBSET Steps] /\ session \in [Runs -> BOOLEAN]
    /\ faults \in Nat

(* No step runs on data that is not there: whatever was skipped, frozen or failed, *)
(* a step starts only when every step it depends on has left an output.            *)
DepsReady ==
    \A r \in Runs, s \in Steps :
        task[r][s] # "none" => \A t \in DependsOn[s] : output[r][t] # {}

(* Fail-fast: no level starts after one in which a tool step failed or a task *)
(* ended with an error, wherever its siblings were.                            *)
FailFast ==
    \A r \in Runs : \A s \in placed[r] :
        task[r][s] \in {"none", "ok"} \/ (task[r][s] = "failed" /\ Kind[s] # "tool")

Positions(r, E) == {i \in DOMAIN log[r] : log[r][i] \in E}
AtMostOne(S) == \A i, j \in S : i = j

(* The stream tells of every step at most one start or skip and at most one end, *)
(* although tasks, handler and bootstrap all write it; and of at most one end of *)
(* the run, which its events agree upon.                                         *)
ToldOnce ==
    \A r \in Runs :
        /\ \A s \in Steps :
              /\ AtMostOne(Positions(r, {NodeStarted(s), Skip(s)}))
              /\ AtMostOne(Positions(r, {NodeCompleted(s, TRUE), NodeCompleted(s, FALSE)}))
        /\ AtMostOne(Positions(r, {OfRun("run_completed", TRUE), OfRun("run_completed", FALSE)}))
        /\ \A ok \in BOOLEAN : Has(r, OfRun("run_completed", ok)) => ~Has(r, OfRun("completed", ~ok))

(* Success is earned: a run that says it succeeded, or answers, has every step *)
(* done, frozen or skipped, and an output of the step its `output:` chose.     *)
SuccessEarned ==
    \A r \in Runs :
        Has(r, OfRun("run_completed", TRUE)) \/ Has(r, OfRun("response", TRUE)) =>
            /\ \A s \in Steps : s \in frozen[r] \cup skipped[r] \/ task[r][s] = "ok"
            /\ Output # << >> => \E s \in Chosen(r) : output[r][s] # {}

(* The handler has come back from the middle of a level: a `when:` did not parse, *)
(* or the bootstrap failed.                                                       *)
Cut(r) == pc[r] \in {"err", "completing", "closed"} /\ todo[r] # {}

Recorded(r) == \E k \in {"completed", "run_completed"}, ok \in BOOLEAN : Has(r, OfRun(k, ok))

(* Once handle() has returned, or the stream records the run as completed (by      *)
(* WorkflowCompleted, or by the PipelineCompleted the router writes), no task of   *)
(* it is left and its shell session is closed.  A run cut off in the middle of a   *)
(* level may leave both: it gets no WorkflowCompleted, and the PipelineCompleted   *)
(* of the router never says that it succeeded.                                     *)
NothingOutlives ==
    \A r \in Runs :
        IF Cut(r)
        THEN \A ok \in BOOLEAN :
                ~Has(r, OfRun("completed", ok)) /\ ~Has(r, OfRun("run_completed", TRUE))
        ELSE /\ Recorded(r) \/ pc[r] \in Ended => \A s \in Steps : task[r][s] \notin Alive
             /\ pc[r] \in Ended \cup {"completing"} => ~session[r]

(* A frozen step does not run again, and its output is what a run that really did *)
(* it produced, through forks of forks, forks of live runs and forks cut short.    *)
(* Only a lost append can make the raw tool result of an agent stand in for its    *)
(* answer.                                                                         *)
FrozenIsGenuine ==
    \A r \in Runs : \A s \in frozen[r] :
        /\ task[r][s] = "none" /\ s \notin skipped[r]
        /\ \/ \E q \in Runs \ {r} : output[r][s] = {q} /\ task[q][s] = "ok"
           \/ output[r][s] = {Raw} /\ Kind[s] = "agent" /\ faults > 0

(* A fork does not repeat the effects of its lineage: no tool of a step marked *)
(* no_resume, or taken over from the parent, acts again in it.                 *)
NoEffectTwice ==
    \A r \in Runs : parent[r] # r => acted[r] \cap (NoResume \cup frozen[r]) = {}

(* Every run ends, or its process does. *)
RunEnds ==
    \A r \in Runs : pc[r] \notin Ended \cup {"unused"} ~> pc[r] \in Ended

(* A skipped step does not stand in the way of a resume: it is terminal in the *)
(* same way as a completed one.                                                *)
SkippedIsTerminal ==
    \A q \in Runs, f \in Steps :
        (/\ pc[q] = "ok"
         /\ \A s \in Steps \ Dependents(f) : s \in skipped[q] \/ sub[q][s] # {})
            => Resumable(q, f)
=============================================================================
