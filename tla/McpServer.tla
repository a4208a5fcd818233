------------------------------- MODULE McpServer -------------------------------
(***************************************************************************)
(* `zymi mcp serve` (mcp/server/): every request of the client is handled  *)
(* by a task of its own.  A tools/call runs a pipeline, and either waits   *)
(* for its end or, when the client sent a task id, leaves the run to a     *)
(* task whose state tasks/get, tasks/result and tasks/cancel serve.        *)
(*                                                                         *)
(* A run may park on a step that asks: the bridge (server/reasoning.rs)    *)
(* hands the question to the client through the task, with a token, and    *)
(* the client's resume publishes the answer.  A run may also wait for an   *)
(* approval, which server/elicitation.rs turns into a form of the client.  *)
(*                                                                         *)
(* A run is known by its call; of its steps only the questions matter.     *)
(* The stream of a run is named after its task id.                         *)
(***************************************************************************)
EXTENDS Naturals, Sequences, FiniteSets

CONSTANTS
    Calls,      \* tools/call requests
    TaskIds,    \* the ids the client gives its tasks
    Resumers,   \* resume requests handled at a time
    MaxAsks,    \* questions of a run, at most
    MaxForms,   \* approvals of a run, at most
    MaxLost     \* events that cannot be stored, at most

None == "none"
Sync == "sync"

VARIABLES
    caps,      \* OnceLock<ClientCaps>: None, or whether the client shows forms
    call,      \* call -> [pc, task]: its handler; task is Sync without an id
    handles,   \* TaskStore: task id -> the call whose TaskHandle it holds
    state,     \* call -> [status, prompt]: TaskState; prompt is the question shown
    run,       \* call -> [pc, ask, form]: the run's await point, its questions so far
    asked,     \* the bridge's subscription: the questions published, <<call, n>>
    sealed,    \* <<question, by>>: the ReasoningAnswered events of the store
    completed, \* the calls whose PipelineCompleted is in the store
    shown,     \* the questions the bridge put into a task
    known,     \* the questions whose token the client has seen
    resume,    \* resumer -> the question it has answered, before it looks at the task
    pending,   \* the calls whose form the link waits for
    session,   \* CliObservability.session_runs: task ids and calls
    lost       \* <<question, by>>: the answers, and <<c, 0>>: the completions, not stored

vars == <<caps, call, handles, state, run, asked, sealed, completed, shown, known,
          resume, pending, session, lost>>

Terminal(status) == status \in {"completed", "failed", "cancelled"}
TaskOf(c) == call[c].task
Stream(c) == IF TaskOf(c) = Sync THEN c ELSE TaskOf(c)
NoQuestion == <<None, 0>>
Question(c) == <<c, run[c].ask>>

Init ==
    /\ caps = None
    /\ call = [c \in Calls |-> [pc |-> "unread", task |-> Sync]]
    /\ handles = [t \in TaskIds |-> None]
    /\ state = [c \in Calls |-> [status |-> None, prompt |-> NoQuestion]]
    /\ run = [c \in Calls |-> [pc |-> None, ask |-> 0, form |-> 0]]
    /\ asked = << >>
    /\ sealed = {} /\ completed = {}
    /\ shown = {} /\ known = {}
    /\ resume = [r \in Resumers |-> NoQuestion]
    /\ pending = {}
    /\ session = {}
    /\ lost = {}

(* A publish whose error is dropped or only logged: all goes on as if the  *)
(* event were stored.                                                      *)
Stored(events, e) == events' = events \cup {e} /\ UNCHANGED lost
Lost(e, by) == Cardinality(lost) < MaxLost /\ lost' = lost \cup {<<e, by>>}
Answered(q, by) ==
    \/ Stored(sealed, <<q, by>>)
    \/ Lost(q, by) /\ UNCHANGED sealed

(* initialize: the first one decides. *)
Initialize ==
    /\ caps = None
    /\ caps' \in {"forms", "no forms"}
    /\ UNCHANGED <<call, handles, state, run, asked, sealed, completed, shown, known, resume, pending, session, lost>>
-----------------------------------------------------------------------------
(* handle_tools_call, up to its first await: an unknown or unexposed tool, *)
(* arguments that are no object and a task id in use are refused.          *)
InUse(t) == handles[t] # None

ToolsCall(c) ==
    \E t \in TaskIds \cup {Sync} :
        /\ call[c].pc = "unread"
        /\ \/ call' = [call EXCEPT ![c] = [pc |-> "refused", task |-> t]] /\ UNCHANGED <<run, session>>
           \/ /\ t # Sync /\ ~InUse(t)
              /\ call' = [call EXCEPT ![c] = [pc |-> "checked", task |-> t]]
              /\ session' = session \cup {t}
              /\ UNCHANGED run
           \/ /\ t = Sync
              /\ call' = [call EXCEPT ![c] = [pc |-> "waiting", task |-> t]]
              /\ run' = [run EXCEPT ![c].pc = "running"]
              /\ UNCHANGED session
        /\ UNCHANGED <<caps, handles, state, asked, sealed, completed, shown, known, resume, pending, lost>>

(* spawn_pipeline_task: PipelineRequested is published, then the run       *)
(* begins, then its handle is registered and the call is answered.         *)
SpawnRun(c) ==
    /\ call[c].pc = "checked"
    /\ call' = [call EXCEPT ![c].pc = "spawned"]
    /\ run' = [run EXCEPT ![c].pc = "running"]
    /\ state' = [state EXCEPT ![c].status = "working"]
    /\ UNCHANGED <<caps, handles, asked, sealed, completed, shown, known, resume, pending, session, lost>>

Register(c) ==
    /\ call[c].pc = "spawned"
    /\ call' = [call EXCEPT ![c].pc = "answered"]
    /\ handles' = [handles EXCEPT ![TaskOf(c)] = c]
    /\ UNCHANGED <<caps, state, run, asked, sealed, completed, shown, known, resume, pending, session, lost>>

(* A call without a task id is answered when its run has ended, and the    *)
(* run is visible to the observability tools from then on.                 *)
AnswerSync(c) ==
    /\ call[c].pc = "waiting" /\ run[c].pc = "ended"
    /\ call' = [call EXCEPT ![c].pc = "answered"]
    /\ session' \in {session, session \cup {c}}
    /\ UNCHANGED <<caps, handles, state, run, asked, sealed, completed, shown, known, resume, pending, lost>>
-----------------------------------------------------------------------------
(* request_reasoning_via_bus: the question is published and awaited.       *)
Park(c) ==
    /\ run[c].pc = "running" /\ run[c].ask < MaxAsks
    /\ run' = [run EXCEPT ![c].pc = "parked", ![c].ask = @ + 1]
    /\ asked' = Append(asked, <<c, run[c].ask + 1>>)
    /\ UNCHANGED <<caps, call, handles, state, sealed, completed, shown, known, resume, pending, session, lost>>

(* McpTaskReasoningChannel: the task of the question's stream shows it.    *)
Bridge ==
    LET q == Head(asked)
        t == TaskOf(q[1])
        owner == IF t = Sync THEN None ELSE handles[t]
        shows == owner # None /\ ~Terminal(state[owner].status)
    IN /\ asked # << >>
       /\ asked' = Tail(asked)
       /\ state' = IF shows THEN [state EXCEPT ![owner] = [status |-> "input_required", prompt |-> q]]
                   ELSE state
       /\ shown' = IF shows THEN shown \cup {q} ELSE shown
       /\ UNCHANGED <<caps, call, handles, run, sealed, completed, known, resume, pending, session, lost>>

(* tasks/get: the client reads the question and its token.                 *)
TasksGet(t) ==
    LET s == state[handles[t]] IN
    /\ handles[t] # None /\ s.status = "input_required"
    /\ known' = known \cup {s.prompt}
    /\ UNCHANGED <<caps, call, handles, state, run, asked, sealed, completed, shown, resume, pending, session, lost>>

(* zymi/reasoning/resume with a token that is not expired, however often:  *)
(* the answer is published first, then the task of the stream goes back to *)
(* working, whatever it shows by then and wherever the answer went.        *)
Resume(r) ==
    \E q \in known :
        /\ resume[r] = NoQuestion
        /\ resume' = [resume EXCEPT ![r] = q]
        /\ Answered(q, "caller")
        /\ UNCHANGED <<caps, call, handles, state, run, asked, completed, shown, known, pending, session>>

FlipBack(r) ==
    LET owner == handles[TaskOf(resume[r][1])] IN
    /\ resume[r] # NoQuestion
    /\ state' = IF state[owner].status = "input_required"
                THEN [state EXCEPT ![owner] = [status |-> "working", prompt |-> NoQuestion]] ELSE state
    /\ resume' = [resume EXCEPT ![r] = NoQuestion]
    /\ UNCHANGED <<caps, call, handles, run, asked, sealed, completed, shown, known, pending, session, lost>>

(* The run hears the answer to its question, or gives up and closes it.    *)
Unpark(c) ==
    /\ run[c].pc = "parked" /\ <<Question(c), "caller">> \in sealed
    /\ run' = [run EXCEPT ![c].pc = "running"]
    /\ UNCHANGED <<caps, call, handles, state, asked, sealed, completed, shown, known, resume, pending, session, lost>>

\* a slip: the time-out is not recorded
TimeOut_silent(c) ==
    /\ run[c].pc = "parked"
    /\ run' = [run EXCEPT ![c].pc = "running"]
    /\ UNCHANGED <<caps, call, handles, state, asked, sealed, completed, shown, known, resume, pending, session, lost>>

TimeOut(c) ==
    /\ run[c].pc = "parked"
    /\ run' = [run EXCEPT ![c].pc = "running"]
    /\ Answered(Question(c), "orchestrator")
    /\ UNCHANGED <<caps, call, handles, state, asked, completed, shown, known, resume, pending, session>>
-----------------------------------------------------------------------------
(* McpElicitationApprovalChannel: a client that shows forms is asked; one  *)
(* that does not, or has not said, is a denial at once.                    *)
Elicit(c) ==
    /\ run[c].pc = "running" /\ run[c].form < MaxForms
    /\ IF caps = "forms"
       THEN run' = [run EXCEPT ![c].pc = "eliciting", ![c].form = @ + 1] /\ pending' = pending \cup {c}
       ELSE run' = [run EXCEPT ![c].form = @ + 1] /\ UNCHANGED pending
    /\ UNCHANGED <<caps, call, handles, state, asked, sealed, completed, shown, known, resume, session, lost>>

(* The client's reply finds its form by the id of the request; the run     *)
(* that gave up waiting has been denied.                                   *)
DeliverResponse(c) ==
    /\ c \in pending
    /\ pending' = pending \ {c}
    /\ run' = IF run[c].pc = "eliciting" THEN [run EXCEPT ![c].pc = "running"] ELSE run
    /\ UNCHANGED <<caps, call, handles, state, asked, sealed, completed, shown, known, resume, session, lost>>

ApprovalTimesOut(c) ==
    /\ run[c].pc = "eliciting"
    /\ run' = [run EXCEPT ![c].pc = "running"]
    /\ UNCHANGED <<caps, call, handles, state, asked, sealed, completed, shown, known, resume, pending, session, lost>>
-----------------------------------------------------------------------------
(* The wrapper of a task publishes PipelineCompleted, then writes the      *)
(* state, unless the task was cancelled.                                   *)
Complete(c) ==
    /\ run[c].pc = "running"
    /\ run' = [run EXCEPT ![c].pc = IF TaskOf(c) = Sync THEN "ended" ELSE "completing"]
    /\ \/ Stored(completed, c)
       \/ Lost(<<c, 0>>, "wrapper") /\ UNCHANGED completed
    /\ UNCHANGED <<caps, call, handles, state, asked, sealed, shown, known, resume, pending, session>>

\* a slip: the outcome is written over a cancellation
WriteOutcome_always(c) ==
    /\ run[c].pc = "completing"
    /\ run' = [run EXCEPT ![c].pc = "ended"]
    /\ state' = [state EXCEPT ![c] = [status |-> "completed", prompt |-> NoQuestion]]
    /\ UNCHANGED <<caps, call, handles, asked, sealed, completed, shown, known, resume, pending, session, lost>>

WriteOutcome(c) ==
    /\ run[c].pc = "completing"
    /\ run' = [run EXCEPT ![c].pc = "ended"]
    /\ state' = IF state[c].status = "cancelled" THEN state
                ELSE [state EXCEPT ![c] = [status |-> "completed", prompt |-> NoQuestion]]
    /\ UNCHANGED <<caps, call, handles, asked, sealed, completed, shown, known, resume, pending, session, lost>>

(* cancel_handle, for tasks/cancel and for the cancelled notification of   *)
(* the call: the state first, then the run's wrapper is aborted, wherever  *)
(* it waits.  A run whose steps were spawned goes on until its wrapper is. *)
CancelHandle(c) ==
    /\ TaskOf(c) # Sync /\ handles[TaskOf(c)] = c /\ ~Terminal(state[c].status)
    /\ state' = [state EXCEPT ![c].status = "cancelled"]
    /\ UNCHANGED <<caps, call, handles, run, asked, sealed, completed, shown, known, resume, pending, session, lost>>

Abort(c) ==
    /\ state[c].status = "cancelled" /\ run[c].pc \notin {"ended", "aborted"}
    /\ run' = [run EXCEPT ![c].pc = "aborted"]
    /\ UNCHANGED <<caps, call, handles, state, asked, sealed, completed, shown, known, resume, pending, session, lost>>

Next ==
    \/ Initialize \/ Bridge
    \/ \E c \in Calls :
          \/ ToolsCall(c) \/ SpawnRun(c) \/ Register(c) \/ AnswerSync(c)
          \/ Park(c) \/ Unpark(c) \/ TimeOut(c)
          \/ Elicit(c) \/ DeliverResponse(c) \/ ApprovalTimesOut(c)
          \/ Complete(c) \/ WriteOutcome(c) \/ CancelHandle(c) \/ Abort(c)
    \/ \E t \in TaskIds : TasksGet(t)
    \/ \E r \in Resumers : Resume(r) \/ FlipBack(r)

Spec == Init /\ [][Next]_vars
-----------------------------------------------------------------------------
(* What the observability tools see of a run, and what they say of it.     *)
InScope(c) == Stream(c) \in session
RunStatus(c) == IF \E d \in completed : Stream(d) = Stream(c) THEN "ended" ELSE "running"

TypeOK ==
    /\ caps \in {None, "forms", "no forms"}
    /\ \A c \in Calls :
          /\ call[c].pc \in {"unread", "refused", "checked", "spawned", "waiting", "answered"}
          /\ run[c].pc \in {None, "running", "parked", "eliciting", "completing", "ended", "aborted"}
          /\ state[c].status \in {None, "working", "input_required", "completed", "cancelled"}
          /\ state[c].status = "input_required" => state[c].prompt # NoQuestion
    /\ known \subseteq shown
    /\ lost \subseteq (Calls \X Nat) \X {"caller", "orchestrator", "wrapper"}
    /\ \A t \in TaskIds : handles[t] # None => TaskOf(handles[t]) = t

(* A task that is completed has its completion in the store, and one that  *)
(* runs can be looked into.  What a run asked and has gone past is closed  *)
(* in the store: by an answer, without which no run goes on but by its     *)
(* time-out, or by the time-out.  Excepted is what the wrapper or the      *)
(* time-out could not store, of which nobody is told (handlers.rs:294,     *)
(* reasoning.rs:138); an answer that could not be stored does not let the  *)
(* run go on, though its task is shown at work (server/reasoning.rs:340).  *)
ServerSound ==
    \A c \in Calls :
        /\ state[c].status = "completed" /\ <<<<c, 0>>, "wrapper">> \notin lost =>
              c \in completed /\ RunStatus(c) = "ended"
        /\ run[c].pc # None /\ TaskOf(c) # Sync => InScope(c)
        /\ \A n \in 1..run[c].ask :
              run[c].pc = "aborted" \/ (run[c].pc = "parked" /\ n = run[c].ask)
                \/ <<<<c, n>>, "caller">> \in sealed
                \/ <<<<c, n>>, "orchestrator">> \in sealed \cup lost

(* "don't overwrite a terminal cancel": what the client was once told of   *)
(* the end of a task stays true.                                           *)
TerminalStays ==
    [][\A c \in Calls : Terminal(state[c].status) => state'[c].status = state[c].status]_vars

(* "If the run already parked on the *next* ask, its channel handler will  *)
(* re-flip to InputRequired": with no question on its way and no resume    *)
(* under way, a question the task once showed is still there to answer as  *)
(* long as the run waits for it.                                           *)
ParkStaysVisible ==
    \A c \in Calls :
        run[c].pc = "parked" /\ Question(c) \in shown /\ asked = << >>
            /\ (\A r \in Resumers : resume[r] = NoQuestion)
            /\ <<Question(c), "caller">> \notin sealed /\ state[c].status # "cancelled"
                => state[c].prompt = Question(c)

(* "a re-used taskId is a protocol error": no two runs have one task id.   *)
OneRunPerTaskId ==
    \A c, d \in Calls :
        c # d /\ run[c].pc # None /\ run[d].pc # None /\ TaskOf(c) # Sync => TaskOf(c) # TaskOf(d)

(* A task's wrapper "emits a `PipelineCompleted` envelope so `zymi runs` / *)
(* `zymi observe` see a complete run": no run that is over is shown as     *)
(* running.                                                                *)
EndsInStore == \A c \in Calls : run[c].pc \in {"ended", "aborted"} => RunStatus(c) = "ended"
=============================================================================
