---------------------------- MODULE McpServerProofs ----------------------------
(***************************************************************************)
(* Theorems about the MCP server, for any calls, task ids and resumers and *)
(* any number of questions and forms: the end of a task is final, and what *)
(* the client and the store are told of runs and questions is true.        *)
(*                                                                         *)
(* None stands for "no handle" and is no call.                             *)
(*                                                                         *)
(* Then about the wire the server talks over (McpWire), for any lines and  *)
(* pipelines: a specification of its own.                                  *)
(***************************************************************************)
EXTENDS McpServer, FiniteSetTheorems, FunctionTheorems, SequenceTheorems, TLAPS

CONSTANTS
    Lines, MaxLines, Pipelines, Include, Exclude, AnyName, Observed   \* McpWire

VARIABLES
    inbox, read, client, jobs, asks, next_id, delivered, queue, wire,
    writer, over, ran,          \* McpWire
    client_caps, link_pending   \* its caps and pending

NoneIsNoCall == None \notin Calls

Questions == Calls \X (Nat \ {0})
CallT == [pc : {"unread", "refused", "checked", "spawned", "waiting", "answered"},
          task : TaskIds \cup {Sync}]
StateT == [status : {None, "working", "input_required", "completed", "cancelled"},
           prompt : Questions \cup {NoQuestion}]
RunT == [pc : {None, "running", "parked", "eliciting", "completing", "ended", "aborted"},
         ask : Nat, form : Nat]

Losses == (Calls \X Nat) \X {"caller", "orchestrator", "wrapper"}

Typed ==
    /\ caps \in {None, "forms", "no forms"}
    /\ call \in [Calls -> CallT]
    /\ handles \in [TaskIds -> Calls \cup {None}]
    /\ state \in [Calls -> StateT]
    /\ run \in [Calls -> RunT]
    /\ asked \in Seq(Questions)
    /\ shown \subseteq Questions /\ known \subseteq shown
    /\ resume \in [Resumers -> Questions \cup {NoQuestion}]
    /\ lost \subseteq Losses

(* A call whose handler has not spawned a run. *)
Fresh(pc) == pc \in {"unread", "refused", "checked"}

(* How far the handler of c is, and what there is of its run by then. *)
CallInv(c) ==
    /\ Fresh(call[c].pc) <=> run[c].pc = None
    /\ Fresh(call[c].pc) => state[c].status = None
    /\ call[c].pc \in {"checked", "spawned"} => TaskOf(c) # Sync
    /\ call[c].pc = "waiting" => TaskOf(c) = Sync
    /\ call[c].pc \in {"checked", "spawned", "answered"} /\ TaskOf(c) # Sync =>
          TaskOf(c) \in session

(* Its completion is in the store, or the wrapper could not put it there. *)
Told(c) == c \in completed \/ <<<<c, 0>>, "wrapper">> \in lost

(* What a task says of its run. *)
StateInv(c) ==
    /\ state[c].status = "input_required" => state[c].prompt \in shown
    /\ state[c].status = "completed" \/ run[c].pc = "completing" => Told(c)

Closed(c, n) ==
    <<<<c, n>>, "caller">> \in sealed \/ <<<<c, n>>, "orchestrator">> \in sealed \cup lost

(* The questions a run has gone past are closed, or their time-out could   *)
(* not be stored.                                                          *)
AskInv(c) ==
    \A n \in 1..run[c].ask :
        run[c].pc = "aborted" \/ (run[c].pc = "parked" /\ n = run[c].ask) \/ Closed(c, n)

(* A handle is of a call that was answered. *)
Handled ==
    \A t \in TaskIds : handles[t] # None =>
        handles[t] \in Calls /\ call[handles[t]].pc = "answered" /\ TaskOf(handles[t]) = t

ServerInv ==
    /\ Typed /\ Handled
    /\ \A c \in Calls : CallInv(c) /\ StateInv(c) /\ AskInv(c)

------------------------------------------------------------------------------
(* Steps of a run, of a task, and of a call.                                  *)

LEMMA RunKeeps ==
  ASSUME ServerInv, NEW c \in Calls, NEW x \in RunT, run' = [run EXCEPT ![c] = x],
         run[c].pc # None, x.pc # None,
         UNCHANGED <<caps, call, handles, state, shown, known, resume, session>>,
         asked' \in Seq(Questions), sealed \subseteq sealed', completed \subseteq completed',
         lost \subseteq lost', lost' \subseteq Losses,
         x.pc = "completing" => Told(c)',
         \A n \in 1..x.ask : x.pc = "aborted" \/ (x.pc = "parked" /\ n = x.ask) \/ Closed(c, n)'
  PROVE  ServerInv'
  <1>1. Typed /\ Handled /\ \A d \in Calls : CallInv(d) /\ StateInv(d) /\ AskInv(d)
    BY DEF ServerInv
  <1>2. /\ run' \in [Calls -> RunT] /\ run'[c] = x
        /\ \A d \in Calls : d # c => run'[d] = run[d]
    BY <1>1 DEF Typed
  <1>3. Typed' BY <1>1, <1>2 DEF Typed
  <1>4. Handled' BY <1>1 DEF Handled, TaskOf
  <1>5. ASSUME NEW d \in Calls PROVE CallInv(d)' /\ StateInv(d)' /\ AskInv(d)'
    <2>1. CallInv(d) /\ StateInv(d) /\ AskInv(d) BY <1>1
    <2>2. CASE d = c
      <3>1. CallInv(d)' BY <1>2, <2>1, <2>2 DEF CallInv, TaskOf
      <3>2. StateInv(d)' BY <1>2, <2>1, <2>2 DEF StateInv, Told
      <3>3. AskInv(d)' BY <1>2, <2>2 DEF AskInv, Closed
      <3> QED BY <3>1, <3>2, <3>3
    <2>3. CASE d # c
      <3>1. run'[d] = run[d] BY <1>2, <2>3
      <3>2. CallInv(d)' BY <3>1, <2>1 DEF CallInv, TaskOf
      <3>3. StateInv(d)' BY <3>1, <2>1 DEF StateInv, Told
      <3>4. AskInv(d)' BY <3>1, <2>1 DEF AskInv, Closed
      <3> QED BY <3>2, <3>3, <3>4
    <2> QED BY <2>2, <2>3
  <1> QED BY <1>3, <1>4, <1>5 DEF ServerInv

(* A run that goes on where it has no question open. *)
LEMMA RunGoesOn ==
  ASSUME ServerInv, NEW c \in Calls, NEW x \in RunT, run' = [run EXCEPT ![c] = x],
         run[c].pc \notin {None, "parked", "aborted"} \/ x.pc = "aborted", run[c].pc # None,
         x.pc # None, x.ask = run[c].ask,
         UNCHANGED <<caps, call, handles, state, asked, sealed, shown, known, resume, session>>,
         completed \subseteq completed', lost \subseteq lost', lost' \subseteq Losses,
         x.pc = "completing" => Told(c)'
  PROVE  ServerInv'
  <1>1. AskInv(c) /\ asked \in Seq(Questions) BY DEF ServerInv, Typed
  <1>2. \A n \in 1..x.ask : x.pc = "aborted" \/ (x.pc = "parked" /\ n = x.ask) \/ Closed(c, n)'
    BY <1>1 DEF AskInv, Closed
  <1> QED BY <1>1, <1>2, RunKeeps

LEMMA StateKeeps ==
  ASSUME ServerInv, NEW c \in Calls, NEW y \in StateT, state' = [state EXCEPT ![c] = y],
         ~Fresh(call[c].pc),
         UNCHANGED <<caps, call, handles, run, sealed, completed, known, session, lost>>,
         asked' \in Seq(Questions), resume' \in [Resumers -> Questions \cup {NoQuestion}],
         shown \subseteq shown', shown' \subseteq Questions,
         y.status = "input_required" => y.prompt \in shown',
         y.status = "completed" => Told(c)
  PROVE  ServerInv'
  <1>1. Typed /\ Handled /\ \A d \in Calls : CallInv(d) /\ StateInv(d) /\ AskInv(d)
    BY DEF ServerInv
  <1>2. /\ state' \in [Calls -> StateT] /\ state'[c] = y
        /\ \A d \in Calls : d # c => state'[d] = state[d]
    BY <1>1 DEF Typed
  <1>3. Typed' BY <1>1, <1>2 DEF Typed
  <1>4. Handled' BY <1>1 DEF Handled, TaskOf
  <1>5. ASSUME NEW d \in Calls PROVE CallInv(d)' /\ StateInv(d)' /\ AskInv(d)'
    <2>1. CallInv(d) /\ StateInv(d) /\ AskInv(d) BY <1>1
    <2>2. CallInv(d)' BY <1>2, <2>1 DEF CallInv, TaskOf
    <2>3. StateInv(d)' BY <1>2, <2>1 DEF StateInv, Told
    <2>4. AskInv(d)' BY <2>1 DEF AskInv, Closed
    <2> QED BY <2>2, <2>3, <2>4
  <1> QED BY <1>3, <1>4, <1>5 DEF ServerInv

(* Nothing that the invariant speaks of but the table of questions changes. *)
LEMMA TablesKeep ==
  ASSUME ServerInv, UNCHANGED <<call, handles, state, run, completed, session>>,
         caps' \in {None, "forms", "no forms"}, asked' \in Seq(Questions),
         sealed \subseteq sealed', shown \subseteq shown', shown' \subseteq Questions,
         lost \subseteq lost', lost' \subseteq Losses,
         known' \subseteq shown', resume' \in [Resumers -> Questions \cup {NoQuestion}]
  PROVE  ServerInv'
  <1>1. Typed /\ Handled /\ \A d \in Calls : CallInv(d) /\ StateInv(d) /\ AskInv(d)
    BY DEF ServerInv
  <1>2. Typed' BY <1>1 DEF Typed
  <1>3. Handled' BY <1>1 DEF Handled, TaskOf
  <1>4. ASSUME NEW d \in Calls PROVE CallInv(d)' /\ StateInv(d)' /\ AskInv(d)'
    <2>1. CallInv(d) /\ StateInv(d) /\ AskInv(d) BY <1>1
    <2>2. CallInv(d)' BY <2>1 DEF CallInv, TaskOf
    <2>3. StateInv(d)' BY <2>1 DEF StateInv, Told
    <2>4. AskInv(d)' BY <2>1 DEF AskInv, Closed
    <2> QED BY <2>2, <2>3, <2>4
  <1> QED BY <1>2, <1>3, <1>4 DEF ServerInv

LEMMA ToolsCallKeeps ==
  ASSUME ServerInv, NEW c \in Calls, ToolsCall(c) PROVE ServerInv'
  <1>1. Typed /\ Handled /\ \A d \in Calls : CallInv(d) /\ StateInv(d) /\ AskInv(d)
    BY DEF ServerInv
  <1>2. PICK t \in TaskIds \cup {Sync} :
          /\ call[c].pc = "unread"
          /\ \/ call' = [call EXCEPT ![c] = [pc |-> "refused", task |-> t]] /\ UNCHANGED <<run, session>>
             \/ /\ t # Sync
                /\ call' = [call EXCEPT ![c] = [pc |-> "checked", task |-> t]]
                /\ session' = session \cup {t} /\ UNCHANGED run
             \/ /\ t = Sync
                /\ call' = [call EXCEPT ![c] = [pc |-> "waiting", task |-> t]]
                /\ run' = [run EXCEPT ![c].pc = "running"] /\ UNCHANGED session
          /\ UNCHANGED <<caps, handles, state, asked, sealed, completed, shown, known, resume, lost>>
    BY DEF ToolsCall
  <1>3. PICK pc \in {"refused", "checked", "waiting"} :
          /\ call' = [call EXCEPT ![c] = [pc |-> pc, task |-> t]]
          /\ pc = "checked" => t # Sync /\ t \in session'
          /\ pc = "waiting" => t = Sync
          /\ session \subseteq session'
    BY <1>2
  <1>4. /\ call' \in [Calls -> CallT] /\ call'[c].pc = pc /\ call'[c].task = t
        /\ \A d \in Calls : d # c => call'[d] = call[d]
    <2>1. [pc |-> pc, task |-> t] \in CallT BY DEF CallT
    <2> QED BY <1>1, <1>3, <2>1 DEF Typed
  <1>5. /\ run' \in [Calls -> RunT] /\ run'[c].ask = run[c].ask
        /\ \A d \in Calls : d # c => run'[d] = run[d]
        /\ run'[c].pc = IF pc = "waiting" THEN "running" ELSE None
    <2>1. run[c] \in RunT /\ run[c].pc = None BY <1>1, <1>2 DEF Typed, CallInv, Fresh
    <2>2. CASE pc = "waiting"
      <3>1. run' = [run EXCEPT ![c].pc = "running"]
        <4>1. call'[c].pc = "waiting" BY <1>4, <2>2
        <4>2. call \in [Calls -> CallT] BY <1>1 DEF Typed
        <4> QED BY <1>2, <4>1, <4>2
      <3>2. [run[c] EXCEPT !.pc = "running"] \in RunT BY <2>1 DEF RunT
      <3> QED BY <1>1, <2>1, <2>2, <3>1, <3>2 DEF Typed, RunT
    <2>3. CASE pc # "waiting"
      <3>1. run' = run
        <4>1. call'[c].pc # "waiting" BY <1>4, <2>3
        <4>2. call \in [Calls -> CallT] BY <1>1 DEF Typed
        <4> QED BY <1>2, <4>1, <4>2
      <3> QED BY <1>1, <2>1, <2>3, <3>1 DEF Typed
    <2> QED BY <2>2, <2>3
  <1>6. Typed' BY <1>1, <1>2, <1>4, <1>5 DEF Typed
  <1>7. Handled'
    <2> SUFFICES ASSUME NEW u \in TaskIds, handles[u] # None
                 PROVE  /\ handles[u] \in Calls /\ call'[handles[u]].pc = "answered"
                        /\ call'[handles[u]].task = u
      BY <1>2 DEF Handled, TaskOf
    <2>1. handles[u] \in Calls /\ call[handles[u]].pc = "answered" /\ call[handles[u]].task = u
      BY <1>1 DEF Handled, TaskOf
    <2>2. handles[u] # c BY <1>2, <2>1
    <2> QED BY <1>4, <2>1, <2>2
  <1>8. ASSUME NEW d \in Calls PROVE CallInv(d)' /\ StateInv(d)' /\ AskInv(d)'
    <2>1. CallInv(d) /\ StateInv(d) /\ AskInv(d) BY <1>1
    <2>2. CASE d # c
      <3>1. call'[d] = call[d] /\ run'[d] = run[d] BY <1>4, <1>5, <2>2
      <3>2. CallInv(d)' BY <1>2, <1>3, <2>1, <3>1 DEF CallInv, TaskOf
      <3>3. StateInv(d)' BY <1>2, <2>1, <3>1 DEF StateInv, Told
      <3>4. AskInv(d)' BY <1>2, <2>1, <3>1 DEF AskInv, Closed
      <3> QED BY <3>2, <3>3, <3>4
    <2>3. CASE d = c
      <3>1. run[c].pc = None /\ state[c].status = None BY <1>2, <2>1, <2>3 DEF CallInv, Fresh
      <3>2. CallInv(c)' BY <1>2, <1>3, <1>4, <1>5, <3>1 DEF CallInv, TaskOf, Fresh, None
      <3>3. StateInv(c)' BY <1>2, <1>5, <3>1 DEF StateInv, Told, None
      <3>4. AskInv(c)' BY <1>2, <1>5, <2>1, <2>3, <3>1 DEF AskInv, Closed, None
      <3> QED BY <2>3, <3>2, <3>3, <3>4
    <2> QED BY <2>2, <2>3
  <1> QED BY <1>6, <1>7, <1>8 DEF ServerInv

LEMMA SpawnRunKeeps ==
  ASSUME ServerInv, NEW c \in Calls, SpawnRun(c) PROVE ServerInv'
  <1>1. Typed /\ Handled /\ \A d \in Calls : CallInv(d) /\ StateInv(d) /\ AskInv(d)
    BY DEF ServerInv
  <1>2. /\ call[c].pc = "checked" /\ call[c] \in CallT /\ run[c] \in RunT /\ state[c] \in StateT
        /\ run[c].pc = None /\ state[c].status = None
    BY <1>1 DEF SpawnRun, Typed, CallInv, Fresh
  <1>3. /\ call' \in [Calls -> CallT] /\ call'[c].pc = "spawned" /\ call'[c].task = call[c].task
        /\ \A d \in Calls : d # c => call'[d] = call[d]
    <2>1. [call[c] EXCEPT !.pc = "spawned"] \in CallT BY <1>2 DEF CallT
    <2> QED BY <1>1, <1>2, <2>1 DEF Typed, SpawnRun, CallT
  <1>4. /\ run' \in [Calls -> RunT] /\ run'[c].pc = "running" /\ run'[c].ask = run[c].ask
        /\ \A d \in Calls : d # c => run'[d] = run[d]
    <2>1. [run[c] EXCEPT !.pc = "running"] \in RunT BY <1>2 DEF RunT
    <2> QED BY <1>1, <1>2, <2>1 DEF Typed, SpawnRun, RunT
  <1>5. /\ state' \in [Calls -> StateT] /\ state'[c].status = "working"
        /\ \A d \in Calls : d # c => state'[d] = state[d]
    <2>1. [state[c] EXCEPT !.status = "working"] \in StateT BY <1>2 DEF StateT
    <2> QED BY <1>1, <1>2, <2>1 DEF Typed, SpawnRun, StateT
  <1>6. UNCHANGED <<caps, handles, asked, sealed, completed, shown, known, resume, session, lost>>
    BY DEF SpawnRun
  <1>7. Typed' BY <1>1, <1>3, <1>4, <1>5, <1>6 DEF Typed
  <1>8. Handled'
    <2> SUFFICES ASSUME NEW u \in TaskIds, handles[u] # None
                 PROVE  /\ handles[u] \in Calls /\ call'[handles[u]].pc = "answered"
                        /\ call'[handles[u]].task = u
      BY <1>6 DEF Handled, TaskOf
    <2>1. handles[u] \in Calls /\ call[handles[u]].pc = "answered" /\ call[handles[u]].task = u
      BY <1>1 DEF Handled, TaskOf
    <2>2. handles[u] # c BY <1>2, <2>1
    <2> QED BY <1>3, <2>1, <2>2
  <1>9. ASSUME NEW d \in Calls PROVE CallInv(d)' /\ StateInv(d)' /\ AskInv(d)'
    <2>1. CallInv(d) /\ StateInv(d) /\ AskInv(d) BY <1>1
    <2>2. CASE d # c
      <3>1. call'[d] = call[d] /\ run'[d] = run[d] /\ state'[d] = state[d]
        BY <1>3, <1>4, <1>5, <2>2
      <3>2. CallInv(d)' BY <1>6, <2>1, <3>1 DEF CallInv, TaskOf
      <3>3. StateInv(d)' BY <1>6, <2>1, <3>1 DEF StateInv, Told
      <3>4. AskInv(d)' BY <1>6, <2>1, <3>1 DEF AskInv, Closed
      <3> QED BY <3>2, <3>3, <3>4
    <2>3. CASE d = c
      <3>1. CallInv(c)' BY <1>2, <1>3, <1>4, <1>6, <2>1, <2>3 DEF CallInv, TaskOf, Fresh, None
      <3>2. StateInv(c)' BY <1>4, <1>5 DEF StateInv, Told
      <3>3. AskInv(c)' BY <1>2, <1>4, <1>6, <2>1, <2>3 DEF AskInv, Closed, None
      <3> QED BY <2>3, <3>1, <3>2, <3>3
    <2> QED BY <2>2, <2>3
  <1> QED BY <1>7, <1>8, <1>9 DEF ServerInv

LEMMA RegisterKeeps ==
  ASSUME NoneIsNoCall, ServerInv, NEW c \in Calls, Register(c) PROVE ServerInv'
  <1>1. Typed /\ Handled /\ \A d \in Calls : CallInv(d) /\ StateInv(d) /\ AskInv(d)
    BY DEF ServerInv
  <1>2. /\ call[c].pc = "spawned" /\ call[c] \in CallT /\ call[c].task # Sync
        /\ call[c].task \in TaskIds
    BY <1>1 DEF Register, Typed, CallInv, CallT, TaskOf
  <1>3. /\ call' \in [Calls -> CallT] /\ call'[c].pc = "answered" /\ call'[c].task = call[c].task
        /\ \A d \in Calls : d # c => call'[d] = call[d]
    <2>1. [call[c] EXCEPT !.pc = "answered"] \in CallT BY <1>2 DEF CallT
    <2> QED BY <1>1, <1>2, <2>1 DEF Typed, Register, CallT
  <1>4. /\ handles' = [handles EXCEPT ![call[c].task] = c]
        /\ UNCHANGED <<caps, state, run, asked, sealed, completed, shown, known, resume, session, lost>>
    BY DEF Register, TaskOf
  <1>5. Typed' BY <1>1, <1>2, <1>3, <1>4 DEF Typed
  <1>6. Handled'
    <2> SUFFICES ASSUME NEW u \in TaskIds, handles'[u] # None
                 PROVE  /\ handles'[u] \in Calls /\ call'[handles'[u]].pc = "answered"
                        /\ call'[handles'[u]].task = u
      BY DEF Handled, TaskOf
    <2>1. CASE u = call[c].task
      <3>1. handles'[u] = c BY <1>1, <1>4, <2>1 DEF Typed
      <3> QED BY <1>3, <2>1, <3>1
    <2>2. CASE u # call[c].task
      <3>1. handles'[u] = handles[u] BY <1>1, <1>4, <2>2 DEF Typed
      <3>2. handles[u] \in Calls /\ call[handles[u]].pc = "answered" /\ call[handles[u]].task = u
        BY <1>1, <3>1 DEF Handled, TaskOf
      <3> QED BY <1>2, <1>3, <3>1, <3>2
    <2> QED BY <2>1, <2>2
  <1>7. ASSUME NEW d \in Calls PROVE CallInv(d)' /\ StateInv(d)' /\ AskInv(d)'
    <2>1. CallInv(d) /\ StateInv(d) /\ AskInv(d) BY <1>1
    <2>2. CallInv(d)'
      <3>1. CASE d = c BY <1>2, <1>3, <1>4, <2>1, <3>1 DEF CallInv, TaskOf, Fresh
      <3>2. CASE d # c BY <1>3, <1>4, <2>1, <3>2 DEF CallInv, TaskOf
      <3> QED BY <3>1, <3>2
    <2>3. StateInv(d)' BY <1>4, <2>1 DEF StateInv, Told
    <2>4. AskInv(d)' BY <1>4, <2>1 DEF AskInv, Closed
    <2> QED BY <2>2, <2>3, <2>4
  <1> QED BY <1>5, <1>6, <1>7 DEF ServerInv

LEMMA AnswerSyncKeeps ==
  ASSUME ServerInv, NEW c \in Calls, AnswerSync(c) PROVE ServerInv'
  <1>1. Typed /\ Handled /\ \A d \in Calls : CallInv(d) /\ StateInv(d) /\ AskInv(d)
    BY DEF ServerInv
  <1>2. /\ call[c].pc = "waiting" /\ call[c] \in CallT /\ call[c].task = Sync
        /\ session \subseteq session'
    BY <1>1 DEF AnswerSync, Typed, CallInv, TaskOf
  <1>3. /\ call' \in [Calls -> CallT] /\ call'[c].pc = "answered" /\ call'[c].task = call[c].task
        /\ \A d \in Calls : d # c => call'[d] = call[d]
    <2>1. [call[c] EXCEPT !.pc = "answered"] \in CallT BY <1>2 DEF CallT
    <2> QED BY <1>1, <1>2, <2>1 DEF Typed, AnswerSync, CallT
  <1>4. UNCHANGED <<caps, handles, state, run, asked, sealed, completed, shown, known, resume, lost>>
    BY DEF AnswerSync
  <1>5. Typed' BY <1>1, <1>2, <1>3, <1>4 DEF Typed
  <1>6. Handled'
    <2> SUFFICES ASSUME NEW u \in TaskIds, handles[u] # None
                 PROVE  /\ handles[u] \in Calls /\ call'[handles[u]].pc = "answered"
                        /\ call'[handles[u]].task = u
      BY <1>4 DEF Handled, TaskOf
    <2>1. handles[u] \in Calls /\ call[handles[u]].pc = "answered" /\ call[handles[u]].task = u
      BY <1>1 DEF Handled, TaskOf
    <2>2. handles[u] # c BY <1>2, <2>1
    <2> QED BY <1>3, <2>1, <2>2
  <1>7. ASSUME NEW d \in Calls PROVE CallInv(d)' /\ StateInv(d)' /\ AskInv(d)'
    <2>1. CallInv(d) /\ StateInv(d) /\ AskInv(d) BY <1>1
    <2>2. CallInv(d)'
      <3>1. CASE d = c BY <1>2, <1>3, <1>4, <2>1, <3>1 DEF CallInv, TaskOf, Fresh
      <3>2. CASE d # c BY <1>2, <1>3, <1>4, <2>1, <3>2 DEF CallInv, TaskOf
      <3> QED BY <3>1, <3>2
    <2>3. StateInv(d)' BY <1>4, <2>1 DEF StateInv, Told
    <2>4. AskInv(d)' BY <1>4, <2>1 DEF AskInv, Closed
    <2> QED BY <2>2, <2>3, <2>4
  <1> QED BY <1>5, <1>6, <1>7 DEF ServerInv

(* Steps of a run that has been spawned. *)
LEMMA ParkKeeps ==
  ASSUME ServerInv, NEW c \in Calls, Park(c) PROVE ServerInv'
  <1>1. /\ run[c] \in RunT /\ run[c].pc = "running" /\ AskInv(c) /\ asked \in Seq(Questions)
    BY DEF ServerInv, Typed, Park
  <1>2. PICK n \in Nat : n = run[c].ask BY <1>1 DEF RunT
  <1> DEFINE x == [run[c] EXCEPT !.pc = "parked", !.ask = n + 1]
  <1>4. run' = [run EXCEPT ![c] = x]
    <2>1. run \in [Calls -> RunT] BY DEF ServerInv, Typed
    <2> QED BY <1>2, <2>1 DEF Park
  <1>11. x = [run[c] EXCEPT !.pc = "parked", !.ask = n + 1] OBVIOUS
  <1> HIDE DEF x
  <1>12. PICK k \in Nat : k = n + 1 BY <1>2
  <1>13. x = [run[c] EXCEPT !.pc = "parked", !.ask = k] BY <1>11, <1>12
  <1>3. x \in RunT /\ x.pc = "parked" /\ x.ask = n + 1
    <2>1. run[c] \in RunT BY <1>1
    <2> QED BY ONLY <1>12, <1>13, <2>1 DEF RunT
  <1>5. <<c, n + 1>> \in Questions BY <1>2 DEF Questions
  <1>6. asked' \in Seq(Questions) BY <1>1, <1>2, <1>5 DEF Park
  <1>7. \A m \in 1..x.ask : m = x.ask \/ m \in 1..n BY <1>2, <1>3
  <1>8. \A m \in 1..n : Closed(c, m) BY <1>1, <1>2 DEF AskInv
  <1>9. \A m \in 1..x.ask : x.pc = "aborted" \/ (x.pc = "parked" /\ m = x.ask) \/ Closed(c, m)'
    BY <1>3, <1>7, <1>8 DEF Closed, Park
  <1>10. UNCHANGED <<caps, call, handles, state, sealed, completed, shown, known, resume, session, lost>>
    BY DEF Park
  <1>14. lost \subseteq lost' /\ lost' \subseteq Losses BY <1>10 DEF ServerInv, Typed
  <1> QED BY <1>1, <1>3, <1>4, <1>6, <1>9, <1>10, <1>14, RunKeeps DEF None

LEMMA UnparkKeeps ==
  ASSUME ServerInv, NEW c \in Calls, Unpark(c) \/ TimeOut(c) PROVE ServerInv'
  <1>1. /\ run[c] \in RunT /\ run[c].pc = "parked" /\ AskInv(c) /\ asked \in Seq(Questions)
        /\ run \in [Calls -> RunT]
    BY DEF ServerInv, Typed, Unpark, TimeOut
  <1> DEFINE x == [run[c] EXCEPT !.pc = "running"]
  <1>2. x \in RunT /\ x.pc = "running" /\ x.ask = run[c].ask BY <1>1 DEF RunT
  <1>3. run' = [run EXCEPT ![c] = x] BY <1>1 DEF Unpark, TimeOut
  <1> HIDE DEF x
  <1>4. UNCHANGED <<caps, call, handles, state, asked, completed, shown, known, resume, session>>
        /\ sealed \subseteq sealed' /\ lost \subseteq lost'
        /\ lost' \subseteq lost \cup {<<<<c, run[c].ask>>, "orchestrator">>}
    BY DEF Unpark, TimeOut, Answered, Stored, Lost, Question
  <1>5. \A m : m = run[c].ask => Closed(c, m)'
    <2>1. <<<<c, run[c].ask>>, "caller">> \in sealed' \/ <<<<c, run[c].ask>>, "orchestrator">> \in sealed' \cup lost'
      BY DEF Unpark, TimeOut, Answered, Stored, Lost, Question
    <2> QED BY <2>1 DEF Closed
  <1>6. \A m \in 1..x.ask : x.pc = "aborted" \/ (x.pc = "parked" /\ m = x.ask) \/ Closed(c, m)'
    <2> SUFFICES ASSUME NEW m \in 1..x.ask PROVE Closed(c, m)' OBVIOUS
    <2>1. CASE m = run[c].ask BY <1>5, <2>1
    <2>2. CASE m # run[c].ask
      <3>1. m \in 1..run[c].ask BY <1>2
      <3>2. Closed(c, m) BY <1>1, <2>2, <3>1 DEF AskInv
      <3> QED BY <1>4, <3>2 DEF Closed
    <2> QED BY <2>1, <2>2
  <1>7. lost' \subseteq Losses
    <2>1. run[c].ask \in Nat /\ lost \subseteq Losses BY <1>1 DEF RunT, ServerInv, Typed
    <2> QED BY <1>4, <2>1 DEF Losses
  <1> QED BY <1>1, <1>2, <1>3, <1>4, <1>6, <1>7, RunKeeps DEF None

LEMMA ElicitKeeps ==
  ASSUME ServerInv, NEW c \in Calls, Elicit(c) \/ DeliverResponse(c) \/ ApprovalTimesOut(c)
  PROVE  ServerInv'
  <1>1. run[c] \in RunT /\ run \in [Calls -> RunT] BY DEF ServerInv, Typed
  <1>2. UNCHANGED <<caps, call, handles, state, asked, sealed, completed, shown, known, resume, session, lost>>
    BY DEF Elicit, DeliverResponse, ApprovalTimesOut
  <1>5. lost \subseteq lost' /\ lost' \subseteq Losses BY <1>2 DEF ServerInv, Typed
  <1>3. CASE Elicit(c)
    <2>1. run[c].pc = "running" BY <1>3 DEF Elicit
    <2>5. PICK n \in Nat : n = run[c].form + 1 BY <1>1 DEF RunT
    <2>6. PICK pc \in {"running", "eliciting"} :
              run' = [run EXCEPT ![c] = [run[c] EXCEPT !.pc = pc, !.form = n]]
      <3>1. CASE caps = "forms"
        <4>1. run' = [run EXCEPT ![c] = [run[c] EXCEPT !.pc = "eliciting", !.form = n]]
          BY <1>1, <1>3, <2>5, <3>1 DEF Elicit
        <4> QED BY <4>1
      <3>2. CASE caps # "forms"
        <4>1. run' = [run EXCEPT ![c] = [run[c] EXCEPT !.form = n]]
          BY <1>1, <1>3, <2>5, <3>2 DEF Elicit
        <4>2. [run[c] EXCEPT !.form = n] = [run[c] EXCEPT !.pc = "running", !.form = n]
          BY <1>1, <2>1 DEF RunT
        <4> QED BY <4>1, <4>2
      <3> QED BY <3>1, <3>2
    <2> DEFINE x == [run[c] EXCEPT !.pc = pc, !.form = n]
    <2>3. run' = [run EXCEPT ![c] = x] BY <2>6
    <2>4. x = [run[c] EXCEPT !.pc = pc, !.form = n] OBVIOUS
    <2> HIDE DEF x
    <2>2. x \in RunT /\ x.pc = pc /\ x.ask = run[c].ask BY <1>1, <2>5, <2>4 DEF RunT
    <2> QED BY <1>2, <1>5, <2>1, <2>2, <2>3, RunGoesOn DEF None
  <1>4. CASE DeliverResponse(c) \/ ApprovalTimesOut(c)
    <2>1. CASE run' = run
      BY <1>2, <1>5, <2>1, TablesKeep DEF ServerInv, Typed
    <2>2. CASE run' # run
      <3>1. run[c].pc = "eliciting" /\ run' = [run EXCEPT ![c].pc = "running"]
        BY <1>4, <2>2 DEF DeliverResponse, ApprovalTimesOut
      <3> DEFINE x == [run[c] EXCEPT !.pc = "running"]
      <3>2. x \in RunT /\ x.pc = "running" /\ x.ask = run[c].ask BY <1>1 DEF RunT
      <3>3. run' = [run EXCEPT ![c] = x] BY <3>1
      <3> HIDE DEF x
      <3> QED BY <1>2, <1>5, <3>1, <3>2, <3>3, RunGoesOn DEF None
    <2> QED BY <2>1, <2>2
  <1> QED BY <1>3, <1>4

LEMMA CompleteKeeps ==
  ASSUME ServerInv, NEW c \in Calls, Complete(c) PROVE ServerInv'
  <1>1. run[c] \in RunT /\ run \in [Calls -> RunT] /\ run[c].pc = "running"
    BY DEF ServerInv, Typed, Complete
  <1>2. PICK pc \in {"ended", "completing"} : run' = [run EXCEPT ![c].pc = pc]
    BY DEF Complete
  <1> DEFINE x == [run[c] EXCEPT !.pc = pc]
  <1>3. x \in RunT /\ x.pc = pc /\ x.ask = run[c].ask BY <1>1 DEF RunT
  <1>4. run' = [run EXCEPT ![c] = x] BY <1>2
  <1> HIDE DEF x
  <1>5. /\ UNCHANGED <<caps, call, handles, state, asked, sealed, shown, known, resume, session>>
        /\ completed \subseteq completed' /\ lost \subseteq lost'
        /\ lost' \subseteq lost \cup {<<<<c, 0>>, "wrapper">>}
    BY DEF Complete, Stored, Lost
  <1>6. Told(c)' BY DEF Complete, Stored, Lost, Told
  <1>7. lost' \subseteq Losses
    <2>1. 0 \in Nat /\ lost \subseteq Losses BY DEF ServerInv, Typed
    <2> QED BY <1>5, <2>1 DEF Losses
  <1> QED BY <1>1, <1>3, <1>4, <1>5, <1>6, <1>7, RunGoesOn DEF None

(* No run is spawned, and so none is aborted, of a call that is fresh. *)
LEMMA AbortKeeps ==
  ASSUME ServerInv, NEW c \in Calls, Abort(c) PROVE ServerInv'
  <1>1. run[c] \in RunT /\ run \in [Calls -> RunT] /\ state[c].status = "cancelled"
    BY DEF ServerInv, Typed, Abort
  <1> DEFINE x == [run[c] EXCEPT !.pc = "aborted"]
  <1>3. x \in RunT /\ x.pc = "aborted" /\ x.ask = run[c].ask BY <1>1 DEF RunT
  <1>4. run' = [run EXCEPT ![c] = x] BY DEF Abort
  <1> HIDE DEF x
  <1>5. UNCHANGED <<caps, call, handles, state, asked, sealed, completed, shown, known, resume, session, lost>>
    BY DEF Abort
  <1>6. run[c].pc # None BY <1>1 DEF ServerInv, CallInv, None
  <1>7. lost \subseteq lost' /\ lost' \subseteq Losses BY <1>5 DEF ServerInv, Typed
  <1> QED BY <1>1, <1>3, <1>4, <1>5, <1>6, <1>7, RunGoesOn DEF None

(* A bridge that shows a question, and a resume that puts it away. *)
LEMMA BridgeKeeps ==
  ASSUME ServerInv, Bridge PROVE ServerInv'
  <1>1. Typed /\ Handled BY DEF ServerInv
  <1>2. PICK q \in Questions : q = Head(asked) /\ asked # << >> /\ asked' = Tail(asked)
    <2>1. asked \in Seq(Questions) /\ asked # << >> /\ asked' = Tail(asked)
      BY <1>1 DEF Typed, Bridge
    <2>2. Head(asked) \in Questions BY <2>1, HeadTailProperties
    <2> QED BY <2>1, <2>2
  <1>3. asked' \in Seq(Questions) BY <1>1, <1>2, HeadTailProperties DEF Typed
  <1>4. PICK t : t = TaskOf(q[1]) OBVIOUS
  <1>5. PICK owner : owner = IF t = Sync THEN None ELSE handles[t] OBVIOUS
  <1>6. UNCHANGED <<caps, call, handles, run, sealed, completed, known, resume, session, lost>>
    BY DEF Bridge
  <1>7. CASE owner # None /\ ~Terminal(state[owner].status)
    <2>1. /\ state' = [state EXCEPT ![owner] = [status |-> "input_required", prompt |-> q]]
          /\ shown' = shown \cup {q}
      BY <1>2, <1>4, <1>5, <1>7 DEF Bridge
    <2>2. t \in TaskIds /\ handles[t] = owner
      <3>1. q[1] \in Calls BY <1>2 DEF Questions
      <3>2. t \in TaskIds \cup {Sync} BY <1>1, <1>4, <3>1 DEF Typed, CallT, TaskOf
      <3> QED BY <1>5, <1>7, <3>2
    <2>3. owner \in Calls /\ call[owner].pc = "answered" BY <1>1, <1>7, <2>2 DEF Handled
    <2>4. PICK y \in StateT : y = [status |-> "input_required", prompt |-> q] BY DEF StateT
    <2>5. /\ y.status = "input_required" /\ y.prompt = q /\ q \in shown'
          /\ shown \subseteq shown' /\ shown' \subseteq Questions
      BY <1>1, <2>1, <2>4 DEF Typed
    <2>6. state' = [state EXCEPT ![owner] = y] /\ ~Fresh(call[owner].pc)
      BY <2>1, <2>3, <2>4 DEF Fresh
    <2>7. resume' \in [Resumers -> Questions \cup {NoQuestion}] BY <1>1, <1>6 DEF Typed
    <2> QED BY <1>3, <1>6, <2>3, <2>5, <2>6, <2>7, StateKeeps
  <1>8. CASE ~(owner # None /\ ~Terminal(state[owner].status))
    <2>1. state' = state /\ shown' = shown BY <1>2, <1>4, <1>5, <1>8 DEF Bridge
    <2> QED BY <1>1, <1>3, <1>6, <2>1, TablesKeep DEF Typed
  <1> QED BY <1>7, <1>8

LEMMA FlipBackKeeps ==
  ASSUME ServerInv, NEW r \in Resumers, FlipBack(r) PROVE ServerInv'
  <1>1. Typed /\ Handled /\ \A d \in Calls : CallInv(d) BY DEF ServerInv
  <1>2. PICK owner : owner = handles[TaskOf(resume[r][1])] OBVIOUS
  <1>3. /\ resume' \in [Resumers -> Questions \cup {NoQuestion}] /\ asked' \in Seq(Questions)
        /\ UNCHANGED <<caps, call, handles, run, asked, sealed, completed, shown, known, session, lost>>
    BY <1>1 DEF Typed, FlipBack
  <1>4. CASE owner \in Calls /\ state[owner].status = "input_required"
    <2>1. PICK y \in StateT : y = [status |-> "working", prompt |-> NoQuestion] BY DEF StateT
    <2>2. state' = [state EXCEPT ![owner] = y] BY <1>2, <1>4, <2>1 DEF FlipBack
    <2>3. ~Fresh(call[owner].pc) BY <1>1, <1>4 DEF CallInv, None
    <2>4. y.status = "working" BY <2>1
    <2> QED BY <1>1, <1>3, <1>4, <2>2, <2>3, <2>4, StateKeeps DEF Typed
  <1>5. CASE ~(owner \in Calls /\ state[owner].status = "input_required")
    <2>1. state' = state BY <1>1, <1>2, <1>5 DEF FlipBack, Typed
    <2> QED BY <1>1, <1>3, <2>1, TablesKeep DEF Typed
  <1> QED BY <1>4, <1>5

LEMMA CancelKeeps ==
  ASSUME NoneIsNoCall, ServerInv, NEW c \in Calls, CancelHandle(c) PROVE ServerInv'
  <1>1. Typed /\ Handled /\ CallInv(c) BY DEF ServerInv
  <1>2. call[c].pc = "answered"
    <2>1. call[c].task \in TaskIds BY <1>1 DEF Typed, CallT, CancelHandle, TaskOf
    <2> QED BY <1>1, <2>1 DEF Handled, CancelHandle, TaskOf, NoneIsNoCall
  <1> DEFINE y == [state[c] EXCEPT !.status = "cancelled"]
  <1>3. state' = [state EXCEPT ![c] = y] BY <1>1 DEF CancelHandle, Typed
  <1>4. y \in StateT /\ y.status = "cancelled" BY <1>1 DEF Typed, StateT
  <1> HIDE DEF y
  <1>5. UNCHANGED <<caps, call, handles, run, asked, sealed, completed, shown, known, resume, session, lost>>
    BY DEF CancelHandle
  <1> QED BY <1>1, <1>2, <1>3, <1>4, <1>5, StateKeeps DEF Typed, Fresh

LEMMA WriteOutcomeKeeps ==
  ASSUME ServerInv, NEW c \in Calls, WriteOutcome(c) PROVE ServerInv'
  <1>1. Typed /\ Handled /\ \A d \in Calls : CallInv(d) /\ StateInv(d) /\ AskInv(d)
    BY DEF ServerInv
  <1>2. /\ run[c].pc = "completing" /\ run[c] \in RunT /\ state[c] \in StateT /\ Told(c)
        /\ ~Fresh(call[c].pc)
    BY <1>1 DEF WriteOutcome, Typed, StateInv, CallInv, None
  <1>3. UNCHANGED <<caps, call, handles, asked, sealed, completed, shown, known, resume, session, lost>>
    BY DEF WriteOutcome
  <1>4. /\ run' \in [Calls -> RunT] /\ run'[c].pc = "ended" /\ run'[c].ask = run[c].ask
        /\ \A d \in Calls : d # c => run'[d] = run[d]
    <2>1. [run[c] EXCEPT !.pc = "ended"] \in RunT BY <1>2 DEF RunT
    <2> QED BY <1>1, <1>2, <2>1 DEF Typed, WriteOutcome, RunT
  <1>5. /\ state' \in [Calls -> StateT] /\ state'[c].status \in {"completed", "cancelled"}
        /\ \A d \in Calls : d # c => state'[d] = state[d]
    <2>1. PICK y \in StateT : y = [status |-> "completed", prompt |-> NoQuestion] BY DEF StateT
    <2>2. CASE state[c].status = "cancelled" BY <1>1, <2>2 DEF Typed, WriteOutcome
    <2>3. CASE state[c].status # "cancelled"
      <3>1. state' = [state EXCEPT ![c] = y] /\ y.status = "completed"
        BY <2>1, <2>3 DEF WriteOutcome
      <3> QED BY <1>1, <3>1 DEF Typed
    <2> QED BY <2>2, <2>3
  <1>6. Typed' BY <1>1, <1>3, <1>4, <1>5 DEF Typed
  <1>7. Handled' BY <1>1, <1>3 DEF Handled, TaskOf
  <1>8. ASSUME NEW d \in Calls PROVE CallInv(d)' /\ StateInv(d)' /\ AskInv(d)'
    <2>1. CallInv(d) /\ StateInv(d) /\ AskInv(d) BY <1>1
    <2>2. CASE d # c
      <3>1. run'[d] = run[d] /\ state'[d] = state[d] BY <1>4, <1>5, <2>2
      <3>2. CallInv(d)' BY <1>3, <2>1, <3>1 DEF CallInv, TaskOf
      <3>3. StateInv(d)' BY <1>3, <2>1, <3>1 DEF StateInv, Told
      <3>4. AskInv(d)' BY <1>3, <2>1, <3>1 DEF AskInv, Closed
      <3> QED BY <3>2, <3>3, <3>4
    <2>3. CASE d = c
      <3>1. CallInv(c)' BY <1>2, <1>3, <1>4, <2>1, <2>3 DEF CallInv, TaskOf, None
      <3>2. StateInv(c)' BY <1>2, <1>3, <1>4, <1>5 DEF StateInv, Told
      <3>3. AskInv(c)' BY <1>2, <1>3, <1>4, <2>1, <2>3 DEF AskInv, Closed
      <3> QED BY <2>3, <3>1, <3>2, <3>3
    <2> QED BY <2>2, <2>3
  <1> QED BY <1>6, <1>7, <1>8 DEF ServerInv

LEMMA TablesStepsKeep ==
  ASSUME ServerInv,
         \/ Initialize \/ (\E t \in TaskIds : TasksGet(t)) \/ (\E r \in Resumers : Resume(r))
  PROVE  ServerInv'
  <1>1. Typed /\ Handled /\ \A d \in Calls : StateInv(d) BY DEF ServerInv
  <1>2. CASE Initialize BY <1>1, <1>2, TablesKeep DEF Initialize, Typed
  <1>3. ASSUME NEW t \in TaskIds, TasksGet(t) PROVE ServerInv'
    <2>1. state[handles[t]].prompt \in shown
      BY <1>1, <1>3 DEF Handled, TasksGet, StateInv
    <2>2. /\ UNCHANGED <<caps, call, handles, state, run, asked, sealed, completed, shown, resume, session, lost>>
          /\ known' \subseteq shown
      BY <1>1, <1>3, <2>1 DEF TasksGet, Typed
    <2> QED BY <1>1, <2>2, TablesKeep DEF Typed
  <1>4. ASSUME NEW r \in Resumers, Resume(r) PROVE ServerInv'
    <2>1. PICK q \in known : resume' = [resume EXCEPT ![r] = q] /\ Answered(q, "caller") BY <1>4 DEF Resume
    <2>2. q \in Questions BY <1>1 DEF Typed
    <2>3. resume' \in [Resumers -> Questions \cup {NoQuestion}] BY <1>1, <2>1, <2>2 DEF Typed
    <2>4. /\ UNCHANGED <<caps, call, handles, state, run, asked, completed, shown, known, session>>
          /\ sealed \subseteq sealed' /\ lost \subseteq lost' /\ lost' \subseteq lost \cup {<<q, "caller">>}
      BY <1>4, <2>1 DEF Resume, Answered, Stored, Lost
    <2>5. lost' \subseteq Losses
      <3>1. lost \subseteq Losses /\ q \in Calls \X Nat BY <1>1, <2>2 DEF Typed, Questions
      <3> QED BY <2>4, <3>1 DEF Losses
    <2> QED BY <1>1, <2>3, <2>4, <2>5, TablesKeep DEF Typed
  <1> QED BY <1>2, <1>3, <1>4

------------------------------------------------------------------------------
(* The theorems. *)

LEMMA InitServer == Init => ServerInv
  <1> SUFFICES ASSUME Init PROVE ServerInv OBVIOUS
  <1>1. Typed BY DEF Init, Typed, CallT, StateT, RunT
  <1>2. Handled BY DEF Init, Handled
  <1>3. ASSUME NEW c \in Calls PROVE CallInv(c) /\ StateInv(c) /\ AskInv(c)
    BY DEF Init, CallInv, StateInv, AskInv, Fresh, TaskOf, None
  <1> QED BY <1>1, <1>2, <1>3 DEF ServerInv

LEMMA ServerStep ==
  ASSUME NoneIsNoCall PROVE ServerInv /\ [Next]_vars => ServerInv'
  <1> SUFFICES ASSUME ServerInv, [Next]_vars PROVE ServerInv' OBVIOUS
  <1>1. CASE UNCHANGED vars BY <1>1, TablesKeep DEF vars, ServerInv, Typed
  <1>2. CASE Initialize BY <1>2, TablesStepsKeep
  <1>3. CASE Bridge BY <1>3, BridgeKeeps
  <1>4. ASSUME NEW c \in Calls, ToolsCall(c) \/ SpawnRun(c) \/ Register(c) \/ AnswerSync(c)
        PROVE  ServerInv'
    BY <1>4, ToolsCallKeeps, SpawnRunKeeps, RegisterKeeps, AnswerSyncKeeps
  <1>5. ASSUME NEW c \in Calls, Park(c) \/ Unpark(c) \/ TimeOut(c) PROVE ServerInv'
    BY <1>5, ParkKeeps, UnparkKeeps
  <1>6. ASSUME NEW c \in Calls, Elicit(c) \/ DeliverResponse(c) \/ ApprovalTimesOut(c)
        PROVE  ServerInv'
    BY <1>6, ElicitKeeps
  <1>7. ASSUME NEW c \in Calls, Complete(c) \/ WriteOutcome(c) \/ CancelHandle(c) \/ Abort(c)
        PROVE  ServerInv'
    BY <1>7, CompleteKeeps, WriteOutcomeKeeps, CancelKeeps, AbortKeeps
  <1>8. ASSUME NEW t \in TaskIds, TasksGet(t) PROVE ServerInv' BY <1>8, TablesStepsKeep
  <1>9. ASSUME NEW r \in Resumers, Resume(r) \/ FlipBack(r) PROVE ServerInv'
    BY <1>9, TablesStepsKeep, FlipBackKeeps
  <1> QED BY <1>1, <1>2, <1>3, <1>4, <1>5, <1>6, <1>7, <1>8, <1>9 DEF Next

(* How far a call, its run and its task are fits at every point between    *)
(* two awaits, for any interleaving of the requests' tasks and the runs.   *)
THEOREM ServerInvariant == ASSUME NoneIsNoCall PROVE Spec => []ServerInv
  <1>1. ServerInv /\ [Next]_vars => ServerInv' BY ServerStep
  <1> QED BY <1>1, InitServer, PTL DEF Spec

(* Every variable keeps its type; a token the client holds is of a question *)
(* that a task showed, and a task id leads to the call that was given it.   *)
THEOREM TypeCorrect == ASSUME NoneIsNoCall PROVE Spec => []TypeOK
  <1>1. ServerInv => TypeOK
    <2> SUFFICES ASSUME ServerInv PROVE TypeOK OBVIOUS
    <2>1. Typed /\ Handled /\ \A c \in Calls : StateInv(c) BY DEF ServerInv
    <2>2. ASSUME NEW c \in Calls
          PROVE  /\ call[c].pc \in {"unread", "refused", "checked", "spawned", "waiting", "answered"}
                 /\ run[c].pc \in {None, "running", "parked", "eliciting", "completing", "ended", "aborted"}
                 /\ state[c].status \in {None, "working", "input_required", "completed", "cancelled"}
                 /\ state[c].status = "input_required" => state[c].prompt # NoQuestion
      <3>1. call[c] \in CallT /\ run[c] \in RunT /\ state[c] \in StateT BY <2>1 DEF Typed
      <3>2. NoQuestion \notin Questions BY DEF NoQuestion, Questions
      <3>3. state[c].status = "input_required" => state[c].prompt \in Questions
        BY <2>1 DEF StateInv, Typed
      <3> QED BY <3>1, <3>2, <3>3 DEF CallT, RunT, StateT
    <2> QED BY <2>1, <2>2 DEF TypeOK, Typed, Handled, Losses
  <1> QED BY <1>1, ServerInvariant, PTL

(* A task that is completed has its completion in the store, one that runs *)
(* can be looked into, and what a run asked and went past is closed there, *)
(* but for the completion or the time-out whose publish failed, which the  *)
(* code drops (handlers.rs:294) or only logs (reasoning.rs:138).           *)
THEOREM ServerTellsTheTruth == ASSUME NoneIsNoCall PROVE Spec => []ServerSound
  <1>1. ServerInv => ServerSound
    <2> SUFFICES ASSUME ServerInv, NEW c \in Calls
                 PROVE  /\ state[c].status = "completed" /\ <<<<c, 0>>, "wrapper">> \notin lost =>
                              c \in completed /\ RunStatus(c) = "ended"
                        /\ run[c].pc # None /\ TaskOf(c) # Sync => InScope(c)
                        /\ \A n \in 1..run[c].ask :
                              run[c].pc = "aborted" \/ (run[c].pc = "parked" /\ n = run[c].ask)
                                \/ Closed(c, n)
      BY DEF ServerSound, Closed
    <2>1. Typed /\ CallInv(c) /\ StateInv(c) /\ AskInv(c) BY DEF ServerInv
    <2>2. state[c].status = "completed" /\ <<<<c, 0>>, "wrapper">> \notin lost =>
              c \in completed /\ RunStatus(c) = "ended"
      BY <2>1 DEF StateInv, Told, RunStatus
    <2>3. run[c].pc # None /\ TaskOf(c) # Sync => InScope(c)
      BY <2>1 DEF Typed, CallT, CallInv, Fresh, InScope, Stream
    <2> QED BY <2>1, <2>2, <2>3 DEF AskInv
  <1> QED BY <1>1, ServerInvariant, PTL

(* What the client was once told of the end of a task stays so: no late    *)
(* outcome, resume or question writes over it.                             *)
THEOREM TaskEndsStay == ASSUME NoneIsNoCall PROVE Spec => TerminalStays
  <1>1. ServerInv /\ [Next]_vars =>
          [\A c \in Calls : Terminal(state[c].status) => state'[c].status = state[c].status]_vars
    <2> SUFFICES ASSUME ServerInv, Next, NEW c \in Calls, Terminal(state[c].status)
                 PROVE  state'[c].status = state[c].status
      OBVIOUS
    <2>1. /\ state \in [Calls -> StateT] /\ \A d \in Calls : CallInv(d)
          /\ Typed /\ Handled
      BY DEF ServerInv, Typed
    <2>2. state[c].status \notin {None, "working", "input_required"} BY DEF Terminal, None
    <2>3. ASSUME NEW d \in Calls, SpawnRun(d) PROVE state'[c].status = state[c].status
      <3>1. d # c BY <2>1, <2>2, <2>3 DEF SpawnRun, CallInv, Fresh
      <3> QED BY <2>1, <2>3, <3>1 DEF SpawnRun
    <2>4. CASE Bridge BY <2>1, <2>4 DEF Bridge
    <2>5. ASSUME NEW r \in Resumers, FlipBack(r) PROVE state'[c].status = state[c].status
      BY <2>1, <2>2, <2>5 DEF FlipBack
    <2>6. ASSUME NEW d \in Calls, WriteOutcome(d) \/ CancelHandle(d)
          PROVE  state'[c].status = state[c].status
      <3>1. state[c].status \in {"completed", "cancelled"}
        <4>1. state[c] \in StateT BY <2>1
        <4> QED BY <2>2, <4>1 DEF StateT
      <3>2. CASE WriteOutcome(d)
        BY <2>1, <3>1, <3>2 DEF WriteOutcome
      <3>3. CASE CancelHandle(d)
        <4>1. d # c BY <3>3 DEF CancelHandle
        <4> QED BY <2>1, <3>3, <4>1 DEF CancelHandle
      <3> QED BY <2>6, <3>2, <3>3
    <2>7. CASE \/ Initialize \/ (\E t \in TaskIds : TasksGet(t)) \/ (\E r \in Resumers : Resume(r))
               \/ \E d \in Calls :
                     \/ ToolsCall(d) \/ Register(d) \/ AnswerSync(d) \/ Park(d) \/ Unpark(d) \/ TimeOut(d)
                     \/ Elicit(d) \/ DeliverResponse(d) \/ ApprovalTimesOut(d) \/ Complete(d) \/ Abort(d)
      <3>1. state' = state
        BY <2>7 DEF Initialize, TasksGet, Resume, ToolsCall, Register, AnswerSync, Park, Unpark,
                    TimeOut, Elicit, DeliverResponse, ApprovalTimesOut, Complete, Abort
      <3> QED BY <3>1
    <2> QED BY <2>3, <2>4, <2>5, <2>6, <2>7 DEF Next
  <1> QED BY <1>1, ServerInvariant, PTL DEF Spec, TerminalStays

-----------------------------------------------------------------------------
(* The wire of the MCP server.                                              *)
Wire == INSTANCE McpWire WITH caps <- client_caps, pending <- link_pending

WireBounds == MaxLines \in Nat

WireFrame == [type : {"response", "created", "request"}, of : Nat, good : BOOLEAN]

WireTyped ==
    /\ inbox \in Seq(Lines) /\ read \in Seq(Lines) /\ Len(read) + Len(inbox) <= MaxLines
    /\ jobs \in [1..MaxLines -> {"new", "asking", "told", Wire!None}]
    /\ next_id \in Nat
    /\ queue \in Seq(WireFrame) /\ wire \in Seq(WireFrame)

(* Only a request that was read has a run, and is asked something.          *)
JobInv ==
    \A n \in 1..MaxLines : /\ jobs[n] # Wire!None => n \in 1..Len(read)
                           /\ jobs[n] \in {"asking", "told"} => Wire!IsRequest(n)

(* A frame that speaks of a line: the line is a request, and its task over; *)
(* no second response; the notification first.                              *)
Speaks(f) == f.type \in {"response", "created"} /\ f.of # 0
Spoken(n) == n \in 1..Len(read) /\ Wire!IsRequest(n) /\ jobs[n] = Wire!None

FramesInv ==
    /\ \A i \in 1..Len(Wire!All) : Speaks(Wire!All[i]) => Spoken(Wire!All[i].of)
    /\ \A i, j \in 1..Len(Wire!All) :
          Speaks(Wire!All[i]) /\ Speaks(Wire!All[j]) /\ Wire!All[i].of = Wire!All[j].of
          /\ Wire!All[j].type = "response"
             => IF Wire!All[i].type = "response" THEN i = j ELSE i < j
    /\ \A i \in 1..Len(Wire!All) :
          Wire!All[i].type = "request" => Wire!All[i].good = TRUE /\ Wire!All[i].of \in 1..next_id

(* A request whose task is over was answered, if there is a writer.         *)
Responded(n) == \E i \in 1..Len(Wire!All) : Wire!All[i].type = "response" /\ Wire!All[i].of = n
RequestsHeard == \A n \in 1..Len(read) : Wire!IsRequest(n) /\ jobs[n] = Wire!None /\ writer = "on" => Responded(n)

(* A client answers what it has read; an answer was handed to the request   *)
(* it is for, which waits no more.                                          *)
Put(k) == \E i \in 1..Len(wire) : wire[i] = Wire!Frame("request", k, TRUE)
AnswersInv ==
    /\ \A i \in 1..Len(inbox) : inbox[i].kind = "answer" => Put(inbox[i].answers)
    /\ \A n \in 1..Len(read) : read[n].kind = "answer" => Put(read[n].answers)
    /\ link_pending \subseteq 1..next_id
    /\ \A d \in delivered : /\ d[1] \in 1..next_id /\ d[1] \notin link_pending
                            /\ d[2] \in 1..Len(read) /\ read[d[2]].answers = d[1] /\ Put(d[1])

RanInv == \A r \in ran : \E p \in Pipelines : p.name = r[2] /\ p.exposed /\ Wire!Passes(p.name)

WireInv == WireTyped /\ JobInv /\ FramesInv /\ RequestsHeard /\ AnswersInv /\ RanInv

(* What is on the wire and what waits to be written, as one list.           *)
LEMMA AllIs ==
  ASSUME WireTyped
  PROVE  /\ Wire!All \in Seq(WireFrame) /\ Len(Wire!All) \in Nat
         /\ Len(Wire!All) = Len(wire) + Len(queue) /\ Len(wire) \in Nat /\ Len(queue) \in Nat
         /\ \A i \in 1..Len(wire) : i \in 1..Len(Wire!All) /\ Wire!All[i] = wire[i]
         /\ \A i \in 1..Len(queue) : Len(wire) + i \in 1..Len(Wire!All) /\ Wire!All[Len(wire) + i] = queue[i]
  <1>1. PICK w, q \in Nat : w = Len(wire) /\ q = Len(queue) BY LenProperties DEF WireTyped
  <1>2. /\ wire \o queue \in Seq(WireFrame) /\ Len(wire \o queue) = Len(wire) + Len(queue)
        /\ \A i \in 1..Len(wire) + Len(queue) :
              (wire \o queue)[i] = IF i <= Len(wire) THEN wire[i] ELSE queue[i - Len(wire)]
    BY ConcatProperties DEF WireTyped
  <1>3. Wire!All = wire \o queue BY DEF Wire!All
  <1>4. \A i \in 1..w : i \in 1..(w + q) /\ i <= w OBVIOUS
  <1>5. \A i \in 1..q : w + i \in 1..(w + q) /\ ~(w + i <= w) /\ (w + i) - w = i OBVIOUS
  <1> QED BY <1>1, <1>2, <1>3, <1>4, <1>5

(* Frames are appended to the list, or nothing is. *)
Grown(f) ==
    /\ Len(Wire!All') = Len(Wire!All) + Len(f)
    /\ \A i \in 1..Len(Wire!All) : Wire!All'[i] = Wire!All[i]
    /\ \A i \in 1..Len(f) : Wire!All'[Len(Wire!All) + i] = f[i]

LEMMA PushGrows ==
  ASSUME WireTyped, NEW f \in Seq(WireFrame), queue' = queue \o f, wire' = wire
  PROVE  queue' \in Seq(WireFrame) /\ Grown(f)
  <1>1. queue \in Seq(WireFrame) /\ wire \in Seq(WireFrame) BY DEF WireTyped
  <1>2. PICK w, q, m \in Nat : w = Len(wire) /\ q = Len(queue) /\ m = Len(f) BY <1>1, LenProperties
  <1>3. PICK g : g = queue \o f OBVIOUS
  <1>4. /\ g \in Seq(WireFrame) /\ Len(g) = q + m
        /\ \A i \in 1..(q + m) : g[i] = IF i <= q THEN queue[i] ELSE f[i - q]
    <2>1. /\ queue \o f \in Seq(WireFrame) /\ Len(queue \o f) = Len(queue) + Len(f)
          /\ \A i \in 1..Len(queue) + Len(f) : (queue \o f)[i] = IF i <= Len(queue) THEN queue[i] ELSE f[i - Len(queue)]
      BY <1>1, ConcatProperties
    <2> QED BY ONLY <1>2, <1>3, <2>1
  <1>5. PICK a : a = wire \o g OBVIOUS
  <1>6. /\ Len(a) = w + (q + m)
        /\ \A i \in 1..(w + (q + m)) : a[i] = IF i <= w THEN wire[i] ELSE g[i - w]
    <2>1. /\ Len(wire \o g) = Len(wire) + Len(g)
          /\ \A i \in 1..Len(wire) + Len(g) : (wire \o g)[i] = IF i <= Len(wire) THEN wire[i] ELSE g[i - Len(wire)]
      BY <1>1, <1>4, ConcatProperties
    <2> QED BY ONLY <1>2, <1>4, <1>5, <2>1
  <1>7. (Wire!All)' = a BY <1>3, <1>5 DEF Wire!All
  <1>8. PICK b : b = wire \o queue OBVIOUS
  <1>9. /\ Len(b) = w + q
        /\ \A i \in 1..(w + q) : b[i] = IF i <= w THEN wire[i] ELSE queue[i - w]
    <2>1. /\ Len(wire \o queue) = Len(wire) + Len(queue)
          /\ \A i \in 1..Len(wire) + Len(queue) : (wire \o queue)[i] = IF i <= Len(wire) THEN wire[i] ELSE queue[i - Len(wire)]
      BY <1>1, ConcatProperties
    <2> QED BY ONLY <1>2, <1>8, <2>1
  <1>10. Wire!All = b BY <1>8 DEF Wire!All
  <1>11. ASSUME NEW i \in 1..(w + q) PROVE a[i] = b[i]
    <2>1. i \in 1..(w + (q + m)) OBVIOUS
    <2>2. CASE i <= w BY <1>6, <1>9, <2>1, <2>2
    <2>3. CASE ~(i <= w)
      <3>1. PICK j \in 1..q : j = i - w BY <2>3
      <3>2. j \in 1..(q + m) /\ j <= q OBVIOUS
      <3>3. g[j] = queue[j] BY <1>4, <3>2
      <3>4. a[i] = g[i - w] /\ b[i] = queue[i - w] BY <1>6, <1>9, <2>1, <2>3
      <3> QED BY <3>1, <3>3, <3>4
    <2> QED BY <2>2, <2>3
  <1>12. ASSUME NEW i \in 1..m PROVE a[(w + q) + i] = f[i]
    <2>1. (w + q) + i \in 1..(w + (q + m)) /\ ~((w + q) + i <= w) /\ ((w + q) + i) - w = q + i OBVIOUS
    <2>2. a[(w + q) + i] = g[q + i] BY <1>6, <2>1
    <2>3. q + i \in 1..(q + m) /\ ~(q + i <= q) /\ (q + i) - q = i OBVIOUS
    <2>4. g[q + i] = f[i] BY <1>4, <2>3
    <2> QED BY <2>2, <2>4
  <1>13. Len(a) = Len(b) + m BY <1>6, <1>9
  <1> QED BY <1>2, <1>3, <1>4, <1>7, <1>9, <1>10, <1>11, <1>12, <1>13 DEF Grown

LEMMA SameFrames ==
  ASSUME WireTyped, UNCHANGED <<queue, wire>> PROVE Grown(<< >>)
  <1>1. (Wire!All)' = Wire!All BY DEF Wire!All
  <1>2. Len(<< >>) = 0 /\ Len(Wire!All) \in Nat BY AllIs
  <1> QED BY <1>1, <1>2 DEF Grown

LEMMA WrittenIs ==
  ASSUME WireTyped, queue # << >>, wire' = Append(wire, Head(queue)), queue' = Tail(queue)
  PROVE  wire' \in Seq(WireFrame) /\ queue' \in Seq(WireFrame) /\ (Wire!All)' = Wire!All
  <1>1. queue \in Seq(WireFrame) /\ wire \in Seq(WireFrame) BY DEF WireTyped
  <1>2. Head(queue) \in WireFrame /\ Tail(queue) \in Seq(WireFrame) BY <1>1, HeadTailProperties
  <1>3. Append(wire, Head(queue)) \in Seq(WireFrame) BY <1>1, <1>2, AppendProperties
  <1>4. Append(wire, Head(queue)) = wire \o <<Head(queue)>> BY <1>1, <1>2, AppendIsConcat
  <1>5. queue = <<Head(queue)>> \o Tail(queue)
    BY <1>1
  <1>6. (wire \o <<Head(queue)>>) \o Tail(queue) = wire \o (<<Head(queue)>> \o Tail(queue))
    <2>1. <<Head(queue)>> \in Seq(WireFrame) BY <1>2
    <2> QED BY <1>1, <1>2, <2>1, ConcatAssociative
  <1> QED BY <1>2, <1>3, <1>4, <1>5, <1>6 DEF Wire!All

LEMMA FramesStep ==
  ASSUME WireInv, WireTyped', NEW f, Grown(f), NEW m \in Nat, m = Len(f),
         Len(read) <= Len(read'), \A n \in 1..Len(read) : read'[n] = read[n],
         \A n \in 1..Len(read) : jobs[n] = Wire!None => jobs'[n] = Wire!None,
         next_id <= next_id',
         \A i \in 1..m : Speaks(f[i]) =>
            Spoken(f[i].of)' /\ (f[i].of \in 1..Len(read) => jobs[f[i].of] # Wire!None),
         \A i \in 1..m : f[i].type = "request" => f[i].good = TRUE /\ f[i].of \in 1..next_id',
         \A i, j \in 1..m : Speaks(f[i]) /\ Speaks(f[j]) /\ f[i].of = f[j].of /\ f[j].type = "response"
             => IF f[i].type = "response" THEN i = j ELSE i < j
  PROVE  FramesInv'
  <1>1. PICK A, B : A = Wire!All /\ B = (Wire!All)' OBVIOUS
  <1>2. WireTyped /\ FramesInv BY DEF WireInv
  <1>3. PICK a \in Nat : a = Len(A) BY <1>1, <1>2, AllIs
  <1>4. /\ Len(B) = a + m /\ \A i \in 1..a : B[i] = A[i]
        /\ \A i \in 1..m : B[a + i] = f[i]
    BY <1>1, <1>3 DEF Grown
  <1>5. ASSUME NEW i \in 1..(a + m) PROVE i \in 1..a \/ \E k \in 1..m : i = a + k
    <2>1. CASE i <= a BY <2>1
    <2>2. CASE ~(i <= a)
      <3>1. i - a \in 1..m /\ i = a + (i - a) BY <2>2
      <3> QED BY <3>1
    <2> QED BY <2>1, <2>2
  <1>6. PICK r, s \in Nat : r = Len(read) /\ s = Len(read') /\ r <= s
    <2>1. Len(read) \in Nat BY <1>2, LenProperties DEF WireTyped
    <2>2. Len(read') \in Nat BY LenProperties DEF WireTyped
    <2> QED BY <2>1, <2>2
  <1>7. \A n \in 1..r : n \in 1..s BY <1>6
  <1>8. \A i \in 1..a : /\ Speaks(A[i]) => A[i].of \in 1..r /\ Wire!IsRequest(A[i].of) /\ jobs[A[i].of] = Wire!None
                        /\ A[i].type = "request" => A[i].good = TRUE /\ A[i].of \in 1..next_id
    BY <1>1, <1>2, <1>3, <1>6 DEF FramesInv, Spoken
  <1>9. \A n \in 1..r : Wire!IsRequest(n) => Wire!IsRequest(n)' BY <1>6 DEF Wire!IsRequest
  <1>10. \A i \in 1..a : Speaks(B[i]) => Spoken(B[i].of)'
    BY <1>4, <1>6, <1>7, <1>8, <1>9 DEF Spoken
  <1>11. \A i \in 1..m : Speaks(B[a + i]) => Spoken(B[a + i].of)' BY <1>4
  <1>12. PICK x, y \in Nat : x = next_id /\ y = next_id' /\ x <= y BY <1>2 DEF WireTyped
  <1>13. \A n \in 1..x : n \in 1..y BY <1>12
  <1>14. \A i \in 1..(a + m) : B[i].type = "request" => B[i].good = TRUE /\ B[i].of \in 1..next_id'
    <2>1. \A i \in 1..a : B[i].type = "request" => B[i].good = TRUE /\ B[i].of \in 1..next_id'
      BY <1>4, <1>8, <1>12, <1>13
    <2>2. \A i \in 1..m : B[a + i].type = "request" => B[a + i].good = TRUE /\ B[a + i].of \in 1..next_id'
      BY <1>4
    <2> QED BY <1>5, <2>1, <2>2
  <1>15. ASSUME NEW i \in 1..(a + m), NEW j \in 1..(a + m),
                Speaks(B[i]), Speaks(B[j]), B[i].of = B[j].of, B[j].type = "response"
         PROVE  IF B[i].type = "response" THEN i = j ELSE i < j
    <2>1. CASE i \in 1..a /\ j \in 1..a
      <3>1. Speaks(A[i]) /\ Speaks(A[j]) /\ A[i].of = A[j].of /\ A[j].type = "response" BY <1>4, <1>15, <2>1
      <3>2. IF A[i].type = "response" THEN i = j ELSE i < j BY <1>1, <1>2, <1>3, <2>1, <3>1 DEF FramesInv
      <3> QED BY <1>4, <2>1, <3>2
    <2>2. ASSUME NEW k \in 1..a, NEW l \in 1..m, Speaks(A[k]), Speaks(f[l]), A[k].of = f[l].of PROVE FALSE
      BY <1>6, <1>8, <2>2
    <2>3. CASE i \in 1..a /\ \E l \in 1..m : j = a + l BY <1>4, <1>15, <2>2, <2>3
    <2>4. CASE j \in 1..a /\ \E l \in 1..m : i = a + l BY <1>4, <1>15, <2>2, <2>4
    <2>5. ASSUME NEW k \in 1..m, NEW l \in 1..m, i = a + k, j = a + l
          PROVE  IF B[i].type = "response" THEN i = j ELSE i < j
      <3>1. B[i] = f[k] /\ B[j] = f[l] BY <1>4, <2>5
      <3>2. IF f[k].type = "response" THEN k = l ELSE k < l BY <1>15, <3>1
      <3> QED BY <2>5, <3>1, <3>2
    <2> QED BY <1>5, <2>1, <2>3, <2>4, <2>5
  <1>16. \A i \in 1..(a + m) : Speaks(B[i]) => Spoken(B[i].of)' BY <1>4, <1>5, <1>10, <1>11
  <1> QED BY <1>1, <1>4, <1>14, <1>15, <1>16 DEF FramesInv


LEMMA QuietFrames ==
  ASSUME WireInv, WireTyped', UNCHANGED <<queue, wire, next_id>>,
         Len(read) <= Len(read'), \A n \in 1..Len(read) : read'[n] = read[n],
         \A n \in 1..Len(read) : jobs[n] = Wire!None => jobs'[n] = Wire!None
  PROVE  FramesInv'
  <1>1. PICK f, m : f = << >> /\ m = 0 OBVIOUS
  <1>2. Grown(f) /\ m \in Nat /\ m = Len(f) BY <1>1, SameFrames DEF WireInv
  <1>3. \A i \in 1..m : FALSE BY <1>1
  <1>4. next_id <= next_id' BY DEF WireInv, WireTyped
  <1> QED BY <1>2, <1>3, <1>4, FramesStep

(* Nothing is read, told or asked: who answered before did.                *)
LEMMA AnswersStay ==
  ASSUME WireInv, UNCHANGED <<read, inbox, wire, link_pending, delivered>>,
         next_id' \in Nat, next_id <= next_id'
  PROVE  AnswersInv'
  <1>1. AnswersInv /\ next_id \in Nat BY DEF WireInv, WireTyped
  <1>2. \A k \in 1..next_id : k \in 1..next_id' BY <1>1
  <1> QED BY <1>1, <1>2 DEF AnswersInv, Put

(* Of what a task does to jobs.                                            *)
LEMMA JobGoes ==
  ASSUME WireBounds, WireInv, NEW n \in 1..Len(read), jobs[n] # Wire!None, NEW j \in {"new", "asking", "told", Wire!None},
         j \in {"asking", "told"} => Wire!IsRequest(n),
         jobs' = [jobs EXCEPT ![n] = j], read' = read
  PROVE  /\ n \in 1..MaxLines
         /\ jobs' \in [1..MaxLines -> {"new", "asking", "told", Wire!None}] /\ jobs'[n] = j
         /\ \A o \in 1..Len(read) : o # n => jobs'[o] = jobs[o]
         /\ \A o \in 1..Len(read) : jobs[o] = Wire!None => jobs'[o] = Wire!None
         /\ JobInv'
  <1>1. WireTyped /\ JobInv BY DEF WireInv
  <1>2. n \in 1..MaxLines /\ \A o \in 1..Len(read) : o \in 1..MaxLines
    <2>1. Len(read) \in Nat /\ Len(inbox) \in Nat BY <1>1, LenProperties DEF WireTyped
    <2> QED BY <1>1, <2>1 DEF WireTyped, WireBounds
  <1>3. /\ jobs' \in [1..MaxLines -> {"new", "asking", "told", Wire!None}] /\ jobs'[n] = j
        /\ \A o \in 1..MaxLines : o # n => jobs'[o] = jobs[o]
    BY <1>1, <1>2 DEF WireTyped
  <1>4. JobInv' BY <1>1, <1>3 DEF JobInv, Wire!IsRequest
  <1> QED BY <1>2, <1>3, <1>4


(* The task of a request ends with its response.                           *)
LEMMA RespondKeeps ==
  ASSUME WireBounds, WireInv, NEW n \in 1..Len(read), jobs[n] # Wire!None, Wire!IsRequest(n),
         NEW f \in Seq(WireFrame), NEW m \in Nat, m = Len(f), m >= 1,
         \A i \in 1..m : f[i].of = n /\ f[i].type = (IF i = m THEN "response" ELSE "created"),
         Wire!Respond(n, f), RanInv'
  PROVE  WireInv'
  <1>1. WireTyped /\ JobInv /\ RequestsHeard BY DEF WireInv
  <1>2. /\ UNCHANGED <<inbox, read, next_id, link_pending, delivered, wire, writer>>
        /\ jobs' = [jobs EXCEPT ![n] = Wire!None]
        /\ queue' = IF writer = "on" THEN queue \o f ELSE queue
    BY DEF Wire!Respond, Wire!Done, Wire!Push
  <1>3. /\ n \in 1..MaxLines /\ JobInv'
        /\ jobs' \in [1..MaxLines -> {"new", "asking", "told", Wire!None}] /\ jobs'[n] = Wire!None
        /\ \A o \in 1..Len(read) : o # n => jobs'[o] = jobs[o]
        /\ \A o \in 1..Len(read) : jobs[o] = Wire!None => jobs'[o] = Wire!None
    BY <1>2, JobGoes DEF Wire!None
  <1>4. AnswersInv' BY <1>1, <1>2, AnswersStay DEF WireTyped
  <1>5. next_id <= next_id' /\ Len(read) <= Len(read')
    BY <1>1, <1>2, LenProperties DEF WireTyped
  <1>6. CASE writer # "on"
    <2>2. WireTyped' BY <1>1, <1>2, <1>3, <1>6 DEF WireTyped
    <2>3. FramesInv' BY <1>2, <1>3, <1>5, <1>6, <2>2, QuietFrames
    <2>4. RequestsHeard' BY <1>2, <1>6 DEF RequestsHeard
    <2> QED BY <1>3, <1>4, <2>2, <2>3, <2>4 DEF WireInv
  <1>7. CASE writer = "on"
    <2>1. queue' \in Seq(WireFrame) /\ Grown(f) BY <1>1, <1>2, <1>7, PushGrows
    <2>2. WireTyped' BY <1>1, <1>2, <1>3, <2>1 DEF WireTyped
    <2>3. \A i \in 1..m : f[i].type \in {"response", "created"} /\ f[i].type # "request" /\ f[i].of = n
      OBVIOUS
    <2>4. Spoken(n)' BY <1>2, <1>3 DEF Spoken, Wire!IsRequest
    <2>5. \A i \in 1..m : Speaks(f[i]) =>
            Spoken(f[i].of)' /\ (f[i].of \in 1..Len(read) => jobs[f[i].of] # Wire!None)
      BY <2>3, <2>4
    <2>6. \A i, j \in 1..m : f[j].type = "response" => IF f[i].type = "response" THEN i = j ELSE i < j
      <3>1. ASSUME NEW i \in 1..m, NEW j \in 1..m, f[j].type = "response"
            PROVE IF f[i].type = "response" THEN i = j ELSE i < j
        <4>1. j = m BY <3>1
        <4>2. CASE i = m BY <4>1, <4>2
        <4>3. CASE i # m BY <4>1, <4>3
        <4> QED BY <4>2, <4>3
      <3> QED BY <3>1
    <2>7. FramesInv' BY <1>2, <1>3, <1>5, <2>1, <2>2, <2>3, <2>5, <2>6, FramesStep
    <2>8. RequestsHeard'
      <3>1. PICK a \in Nat : a = Len(Wire!All) BY <1>1, AllIs
      <3>2. /\ Len((Wire!All)') = a + m /\ \A i \in 1..a : (Wire!All)'[i] = Wire!All[i]
            /\ (Wire!All)'[a + m] = f[m]
        <4>1. /\ Len((Wire!All)') = Len(Wire!All) + Len(f)
              /\ \A i \in 1..Len(Wire!All) : (Wire!All)'[i] = Wire!All[i]
              /\ \A i \in 1..Len(f) : (Wire!All)'[Len(Wire!All) + i] = f[i]
          BY <2>1 DEF Grown
        <4>2. m \in 1..Len(f) /\ Len(f) = m /\ Len(Wire!All) = a BY <3>1
        <4>3. (Wire!All)'[a + m] = f[m] BY <4>1, <4>2
        <4>4. Len((Wire!All)') = a + m BY <4>1, <4>2
        <4>5. \A i \in 1..a : (Wire!All)'[i] = Wire!All[i] BY <4>1, <4>2
        <4> QED BY <4>3, <4>4, <4>5
      <3>3. Responded(n)'
        <4>1. a + m \in 1..(a + m) /\ f[m].type = "response" /\ f[m].of = n BY <3>1
        <4> QED BY <3>2, <4>1 DEF Responded
      <3>4. \A o \in 1..Len(read) : Responded(o) => Responded(o)'
        <4>1. \A i \in 1..a : i \in 1..(a + m) BY <3>1
        <4> QED BY <3>1, <3>2, <4>1 DEF Responded
      <3>5. ASSUME NEW o \in 1..Len(read), Wire!IsRequest(o), jobs'[o] = Wire!None PROVE Responded(o)'
        <4>1. CASE o = n BY <3>3, <4>1
        <4>2. CASE o # n BY <1>1, <1>3, <1>7, <3>4, <3>5, <4>2 DEF RequestsHeard
        <4> QED BY <4>1, <4>2
      <3> QED BY <1>2, <3>5 DEF RequestsHeard, Wire!IsRequest
    <2> QED BY <1>3, <1>4, <2>2, <2>7, <2>8 DEF WireInv
  <1> QED BY <1>6, <1>7

(* A task goes on, or one that is no request's ends, and nothing is said.  *)
LEMMA QuietJobKeeps ==
  ASSUME WireBounds, WireInv, NEW n \in 1..Len(read), jobs[n] # Wire!None,
         NEW j \in {"new", "asking", "told", Wire!None},
         IF j \in {"asking", "told"} THEN Wire!IsRequest(n) ELSE ~Wire!IsRequest(n),
         jobs' = [jobs EXCEPT ![n] = j],
         UNCHANGED <<inbox, read, next_id, queue, wire, writer>>, RanInv', AnswersInv'
  PROVE  WireInv'
  <1>1. WireTyped /\ JobInv /\ RequestsHeard BY DEF WireInv
  <1>2. /\ n \in 1..MaxLines /\ JobInv'
        /\ jobs' \in [1..MaxLines -> {"new", "asking", "told", Wire!None}] /\ jobs'[n] = j
        /\ \A o \in 1..Len(read) : o # n => jobs'[o] = jobs[o]
        /\ \A o \in 1..Len(read) : jobs[o] = Wire!None => jobs'[o] = Wire!None
    BY JobGoes
  <1>3. WireTyped' BY <1>1, <1>2 DEF WireTyped
  <1>4. next_id <= next_id' /\ Len(read) <= Len(read') BY <1>1, LenProperties DEF WireTyped
  <1>6. FramesInv' BY <1>2, <1>3, <1>4, QuietFrames
  <1>7. RequestsHeard'
    <2>1. (Wire!All)' = Wire!All BY DEF Wire!All
    <2>2. \A o \in 1..Len(read) : jobs'[o] = Wire!None /\ Wire!IsRequest(o) => jobs[o] = Wire!None
      BY <1>2 DEF Wire!None
    <2> QED BY <1>1, <2>1, <2>2 DEF RequestsHeard, Responded, Wire!IsRequest
  <1> QED BY <1>2, <1>3, <1>6, <1>7 DEF WireInv


LEMMA SendKeeps == ASSUME WireBounds, WireInv, Wire!Send PROVE WireInv'
  <1>1. WireTyped /\ JobInv /\ FramesInv /\ RequestsHeard /\ AnswersInv /\ RanInv BY DEF WireInv
  <1>2. PICK l \in Lines :
          /\ Len(read) + Len(inbox) < MaxLines /\ inbox' = Append(inbox, l)
          /\ l.kind = "answer" => \E i \in DOMAIN wire : wire[i].type = "request" /\ wire[i].of = l.answers
          /\ UNCHANGED <<read, jobs, next_id, link_pending, delivered, queue, wire, writer, ran>>
    BY DEF Wire!Send
  <1>3. PICK r, b \in Nat : r = Len(read) /\ b = Len(inbox) BY <1>1, LenProperties DEF WireTyped
  <1>4. /\ inbox' \in Seq(Lines) /\ Len(inbox') = b + 1 /\ inbox'[b + 1] = l
        /\ \A i \in 1..b : inbox'[i] = inbox[i]
    BY <1>1, <1>2, <1>3, AppendProperties DEF WireTyped
  <1>5. WireTyped'
    <2>1. r + (b + 1) <= MaxLines BY <1>2, <1>3 DEF WireBounds
    <2> QED BY <1>1, <1>2, <1>3, <1>4, <2>1 DEF WireTyped
  <1>6. JobInv' BY <1>1, <1>2 DEF JobInv, Wire!IsRequest
  <1>7. FramesInv' /\ RequestsHeard'
    <2>1. (Wire!All)' = Wire!All BY <1>2 DEF Wire!All
    <2> QED BY <1>1, <1>2, <2>1 DEF FramesInv, RequestsHeard, Spoken, Responded, Wire!IsRequest
  <1>8. ASSUME l.kind = "answer" PROVE Put(l.answers)
    <2>1. PICK i \in 1..Len(wire) : wire[i].type = "request" /\ wire[i].of = l.answers
      BY <1>1, <1>2, <1>8, LenProperties DEF WireTyped
    <2>2. i \in 1..Len(Wire!All) /\ Wire!All[i] = wire[i] BY <1>1, AllIs
    <2>3. wire[i].good = TRUE BY <1>1, <2>1, <2>2 DEF FramesInv
    <2>4. wire[i] \in WireFrame BY <1>1, ElementOfSeq DEF WireTyped
    <2>5. wire[i] = [type |-> "request", of |-> l.answers, good |-> TRUE]
      BY <2>1, <2>3, <2>4 DEF WireFrame
    <2> QED BY <2>5 DEF Put, Wire!Frame
  <1>9. AnswersInv'
    <2>1. \A k : Put(k)' <=> Put(k) BY <1>2 DEF Put
    <2>2. 1..(b + 1) = 1..b \cup {b + 1} BY <1>3
    <2>3. \A i \in 1..(b + 1) : inbox'[i].kind = "answer" => Put(inbox'[i].answers)
      BY <1>1, <1>3, <1>4, <1>8, <2>2 DEF AnswersInv
    <2> QED BY <1>1, <1>2, <1>4, <2>3 DEF AnswersInv, Put
  <1>10. RanInv' BY <1>1, <1>2 DEF RanInv
  <1> QED BY <1>5, <1>6, <1>7, <1>9, <1>10 DEF WireInv

(* The line is known from now on by its place; a frame is about it, about  *)
(* no line, or not sent.                                                   *)
LEMMA ReadKeeps == ASSUME WireBounds, WireInv, Wire!ReadLine PROVE WireInv'
  <1>1. WireTyped /\ JobInv /\ FramesInv /\ RequestsHeard /\ AnswersInv /\ RanInv BY DEF WireInv
  <1>2. PICK l : l = Head(inbox) OBVIOUS
  <1>3. PICK r, b \in Nat : r = Len(read) /\ b = Len(inbox) BY <1>1, LenProperties DEF WireTyped
  <1>4. /\ inbox # << >> /\ inbox' = Tail(inbox) /\ read' = Append(read, l)
        /\ Wire!Dispatch(l, r + 1)
        /\ UNCHANGED <<next_id, link_pending, delivered, wire, writer, ran>>
    BY <1>2, <1>3 DEF Wire!ReadLine
  <1>5. /\ l \in Lines /\ l = inbox[1] /\ inbox' \in Seq(Lines) /\ Len(inbox') = b - 1 /\ b >= 1
        /\ \A i \in 1..(b - 1) : inbox'[i] = inbox[i + 1]
    BY <1>1, <1>2, <1>3, <1>4, HeadTailProperties, EmptySeq DEF WireTyped
  <1>6. /\ read' \in Seq(Lines) /\ Len(read') = r + 1 /\ read'[r + 1] = l
        /\ \A i \in 1..r : read'[i] = read[i]
    BY <1>1, <1>3, <1>4, <1>5, AppendProperties DEF WireTyped
  <1>7. PICK n : n = r + 1 OBVIOUS
  <1>8. n \in 1..MaxLines /\ n \in Nat /\ n # 0 /\ r + 1 + (b - 1) <= MaxLines
    BY <1>1, <1>3, <1>5, <1>7 DEF WireTyped, WireBounds
  <1>9. jobs[n] = Wire!None
    <2>1. n \notin 1..r BY <1>3, <1>7
    <2> QED BY <1>1, <1>3, <1>8, <2>1 DEF JobInv
  <1>10. \A i \in 1..r : i # n BY <1>3, <1>7
  <1>11. AnswersInv'
    <2>2. 1..(r + 1) = 1..r \cup {r + 1} BY <1>3
    <2>3. l.kind = "answer" => Put(l.answers)
      <3>1. 1 \in 1..b BY <1>3, <1>5
      <3> QED BY <1>1, <1>3, <1>5, <3>1 DEF AnswersInv
    <2>4. \A i \in 1..(r + 1) : read'[i].kind = "answer" => Put(read'[i].answers)
      BY <1>1, <1>3, <1>6, <2>2, <2>3 DEF AnswersInv
    <2>5. \A i \in 1..(b - 1) : inbox'[i].kind = "answer" => Put(inbox'[i].answers)
      <3>1. \A i \in 1..(b - 1) : i + 1 \in 1..b BY <1>3
      <3> QED BY <1>1, <1>3, <1>5, <3>1 DEF AnswersInv
    <2>6. \A d \in delivered : d[2] \in 1..(r + 1) /\ read'[d[2]] = read[d[2]]
      BY <1>1, <1>3, <1>6, <2>2 DEF AnswersInv
    <2>7. \A d \in delivered : /\ d[1] \in 1..next_id /\ d[1] \notin link_pending
                               /\ d[2] \in 1..(r + 1) /\ read'[d[2]].answers = d[1] /\ Put(d[1])
      BY <1>1, <2>6 DEF AnswersInv
    <2>8. link_pending \subseteq 1..next_id BY <1>1 DEF AnswersInv
    <2>9. \A i \in 1..Len(inbox') : inbox'[i].kind = "answer" => Put(inbox'[i].answers) BY <1>5, <2>5
    <2>10. \A i \in 1..Len(read') : read'[i].kind = "answer" => Put(read'[i].answers) BY <1>6, <2>4
    <2>11. \A d \in delivered' : /\ d[1] \in 1..next_id' /\ d[1] \notin link_pending'
                                 /\ d[2] \in 1..Len(read') /\ read'[d[2]].answers = d[1] /\ Put(d[1])
      BY <1>4, <1>6, <2>7
    <2> QED BY <1>4, <2>8, <2>9, <2>10, <2>11 DEF AnswersInv, Put
  <1>12. RanInv' BY <1>1, <1>4 DEF RanInv
  <1>13. \A i \in 1..r : Wire!IsRequest(i)' <=> Wire!IsRequest(i) BY <1>6 DEF Wire!IsRequest
  <1>14. Wire!IsRequest(n)' <=> l.kind = "call" /\ l.id = "given" BY <1>6, <1>7 DEF Wire!IsRequest
  <1>15. Len(read) <= Len(read') /\ next_id <= next_id'
    BY <1>1, <1>3, <1>4, <1>6 DEF WireTyped
  <1>16. CASE /\ UNCHANGED queue
               /\ \/ UNCHANGED jobs /\ ~(l.kind = "call" /\ l.id = "given")
                  \/ jobs' = [jobs EXCEPT ![n] = "new"]
    <2>1. /\ jobs' \in [1..MaxLines -> {"new", "asking", "told", Wire!None}]
          /\ \A o \in 1..MaxLines : o # n => jobs'[o] = jobs[o]
          /\ jobs'[n] = "new" \/ (jobs'[n] = Wire!None /\ ~(l.kind = "call" /\ l.id = "given"))
      BY <1>1, <1>8, <1>9, <1>16 DEF WireTyped
    <2>2. WireTyped' BY <1>1, <1>4, <1>5, <1>6, <1>8, <1>16, <2>1 DEF WireTyped
    <2>3. \A o \in 1..r : o \in 1..MaxLines /\ o \in 1..(r + 1) BY <1>3, <1>7, <1>8 DEF WireBounds
    <2>4. JobInv'
      <3>1. ASSUME NEW o \in 1..MaxLines
            PROVE  /\ jobs'[o] # Wire!None => o \in 1..(r + 1)
                   /\ jobs'[o] \in {"asking", "told"} => Wire!IsRequest(o)'
        <4>1. CASE o = n BY <1>3, <1>7, <2>1, <4>1 DEF Wire!None
        <4>2. CASE o # n
          <5>1. jobs'[o] = jobs[o] BY <2>1, <4>2
          <5>2. jobs[o] # Wire!None => o \in 1..r BY <1>1, <1>3 DEF JobInv
          <5>3. jobs[o] \in {"asking", "told"} => Wire!IsRequest(o) /\ o \in 1..r
            BY <1>1, <1>3 DEF JobInv, Wire!None
          <5> QED BY <1>13, <2>3, <5>1, <5>2, <5>3
        <4> QED BY <4>1, <4>2
      <3> QED BY <1>6, <3>1 DEF JobInv
    <2>5. FramesInv'
      <3>1. \A o \in 1..r : jobs'[o] = jobs[o] BY <1>10, <2>1, <2>3
      <3> QED BY <1>3, <1>4, <1>6, <1>15, <1>16, <2>2, <3>1, QuietFrames
    <2>6. RequestsHeard'
      <3>1. (Wire!All)' = Wire!All BY <1>4, <1>16 DEF Wire!All
      <3>2. 1..(r + 1) = 1..r \cup {n} BY <1>3, <1>7
      <3>3. ~(Wire!IsRequest(n)' /\ jobs'[n] = Wire!None) BY <1>14, <2>1 DEF Wire!None
      <3>4. \A o \in 1..r : jobs'[o] = jobs[o] BY <1>10, <2>1, <2>3
      <3> QED BY <1>1, <1>3, <1>4, <1>6, <1>13, <3>1, <3>2, <3>3, <3>4 DEF RequestsHeard, Responded
    <2> QED BY <1>11, <1>12, <2>2, <2>4, <2>5, <2>6 DEF WireInv
  <1>17. ASSUME UNCHANGED jobs, NEW o \in {0, n}, Wire!Push(<< Wire!Frame("response", o, FALSE) >>),
                o = 0 => ~(l.kind = "call" /\ l.id = "given"),
                o = n => l.kind = "call" /\ l.id = "given"
         PROVE  WireInv'
    <2>1. JobInv'
      <3>1. \A i \in 1..MaxLines : jobs[i] # Wire!None => i \in 1..(r + 1) /\ i \in 1..r
        <4>1. \A i \in 1..r : i \in 1..(r + 1) BY <1>3
        <4> QED BY <1>1, <1>3, <4>1 DEF JobInv
      <3> QED BY <1>1, <1>6, <1>13, <1>17, <3>1 DEF JobInv, Wire!None
    <2>2. PICK f \in WireFrame : f.type = "response" /\ f.of = o /\ f = Wire!Frame("response", o, FALSE)
      <3>1. Wire!Frame("response", o, FALSE) \in WireFrame BY <1>8 DEF WireFrame, Wire!Frame
      <3> QED BY <3>1 DEF Wire!Frame
    <2>3. \A i \in 1..r : jobs'[i] = jobs[i] BY <1>17
    <2>4. CASE writer # "on"
      <3>1. UNCHANGED queue BY <1>17, <2>4 DEF Wire!Push
      <3>2. WireTyped' BY <1>1, <1>4, <1>5, <1>6, <1>8, <1>17, <3>1 DEF WireTyped
      <3>3. FramesInv' BY <1>3, <1>4, <1>6, <1>15, <2>3, <3>1, <3>2, QuietFrames
      <3>4. RequestsHeard' BY <1>4, <2>4 DEF RequestsHeard
      <3> QED BY <1>11, <1>12, <2>1, <3>2, <3>3, <3>4 DEF WireInv
    <2>5. CASE writer = "on"
      <3>1. PICK g : g = <<f>> /\ g \in Seq(WireFrame) /\ Len(g) = 1 /\ g[1] = f
        <4>1. <<f>> \in Seq(WireFrame) OBVIOUS
        <4>2. Len(<<f>>) = 1 /\ <<f>>[1] = f OBVIOUS
        <4> QED BY <4>1, <4>2
      <3>2. queue' = queue \o g BY <1>17, <2>2, <2>5, <3>1 DEF Wire!Push
      <3>3. queue' \in Seq(WireFrame) /\ Grown(g) BY <1>1, <1>4, <3>1, <3>2, PushGrows
      <3>4. WireTyped' BY <1>1, <1>4, <1>5, <1>6, <1>8, <1>17, <3>3 DEF WireTyped
      <3>5. ASSUME NEW i \in 1..1, Speaks(g[i])
            PROVE  Spoken(g[i].of)' /\ (g[i].of \in 1..Len(read) => jobs[g[i].of] # Wire!None)
        <4>1. i = 1 /\ g[i] = f BY <3>1
        <4>3. o = n BY <1>17, <2>2, <3>5, <4>1 DEF Speaks
        <4>2. n \in 1..(r + 1) /\ n \notin 1..r BY <1>3, <1>7
        <4> QED BY <1>3, <1>6, <1>9, <1>14, <1>17, <2>2, <4>1, <4>2, <4>3 DEF Spoken
      <3>6. \A i \in 1..1 : i = 1 /\ g[i].type = "response"
        <4>1. \A i \in 1..1 : i = 1 OBVIOUS
        <4> QED BY <2>2, <3>1, <4>1
      <3>7. FramesInv'
        <4>1. PICK m \in Nat : m = 1 OBVIOUS
        <4>2. m = Len(g) BY <3>1, <4>1
        <4>3. \A i \in 1..Len(read) : read'[i] = read[i] BY <1>3, <1>6
        <4>4. \A i \in 1..Len(read) : jobs[i] = Wire!None => jobs'[i] = Wire!None BY <1>17
        <4>5. \A i \in 1..m : Speaks(g[i]) =>
                Spoken(g[i].of)' /\ (g[i].of \in 1..Len(read) => jobs[g[i].of] # Wire!None)
          BY <3>5, <4>1
        <4>6. \A i \in 1..m : g[i].type = "request" => g[i].good = TRUE /\ g[i].of \in 1..next_id'
          BY <3>6, <4>1
        <4>7. \A i, j \in 1..m : Speaks(g[i]) /\ Speaks(g[j]) /\ g[i].of = g[j].of /\ g[j].type = "response"
                => IF g[i].type = "response" THEN i = j ELSE i < j
          BY <3>6, <4>1
        <4> QED BY <1>15, <3>3, <3>4, <4>2, <4>3, <4>4, <4>5, <4>6, <4>7, FramesStep
      <3>8. RequestsHeard'
        <4>1. PICK a \in Nat : a = Len(Wire!All) BY <1>1, AllIs
        <4>2. /\ Len((Wire!All)') = a + 1 /\ \A i \in 1..a : (Wire!All)'[i] = Wire!All[i]
              /\ (Wire!All)'[a + 1] = f
          BY <3>1, <3>3, <4>1 DEF Grown
        <4>3. \A i \in 1..r : Responded(i) => Responded(i)'
          <5>1. \A i \in 1..a : i \in 1..(a + 1) BY <4>1
          <5> QED BY <4>1, <4>2, <5>1 DEF Responded
        <4>4. o = n => Responded(n)'
          <5>1. a + 1 \in 1..(a + 1) BY <4>1
          <5> QED BY <2>2, <4>2, <5>1 DEF Responded
        <4>5. o = 0 => ~Wire!IsRequest(n)' BY <1>14, <1>17
        <4>6. 1..(r + 1) = 1..r \cup {n} BY <1>3, <1>7
        <4> QED BY <1>1, <1>3, <1>6, <1>13, <2>3, <2>5, <4>3, <4>4, <4>5, <4>6 DEF RequestsHeard
      <3> QED BY <1>11, <1>12, <2>1, <3>4, <3>7, <3>8 DEF WireInv
    <2> QED BY <2>4, <2>5
  <1> QED
    <2>1. CASE l.kind \in {"garbage", "misshapen"}
      <3>1. Wire!Push(<< Wire!Frame("response", 0, FALSE) >>) /\ UNCHANGED jobs BY <1>4, <2>1 DEF Wire!Dispatch
      <3> QED BY <1>8, <1>17, <2>1, <3>1
    <2>2. CASE l.kind = "call" /\ ~l.version /\ l.id = "given"
      <3>1. Wire!Push(<< Wire!Frame("response", n, FALSE) >>) /\ UNCHANGED jobs BY <1>4, <1>7, <2>2 DEF Wire!Dispatch
      <3> QED BY <1>8, <1>17, <2>2, <3>1
    <2>3. CASE l.kind = "odd" \/ (l.kind = "call" /\ ~l.version /\ l.id # "given")
      <3>1. UNCHANGED <<queue, jobs>> BY <1>4, <2>3 DEF Wire!Dispatch
      <3> QED BY <1>16, <2>3, <3>1
    <2>4. CASE ~(l.kind \in {"garbage", "misshapen"} \/ l.kind = "odd" \/ (l.kind = "call" /\ ~l.version))
      <3>1. jobs' = [jobs EXCEPT ![n] = "new"] /\ UNCHANGED queue BY <1>4, <1>7, <2>4 DEF Wire!Dispatch
      <3> QED BY <1>16, <3>1
    <2> QED BY <2>1, <2>2, <2>3, <2>4

(* A task that ends with one response.                                      *)
LEMMA OneResponse ==
  ASSUME WireBounds, WireInv, NEW n \in 1..Len(read), jobs[n] # Wire!None, Wire!IsRequest(n),
         NEW good \in BOOLEAN, Wire!Respond(n, << Wire!Frame("response", n, good) >>), RanInv'
  PROVE  WireInv'
  <1>1. PICK f : f = Wire!Frame("response", n, good) OBVIOUS
  <1>2. f \in WireFrame /\ f.of = n /\ f.type = "response" BY <1>1 DEF Wire!Frame, WireFrame
  <1>3. PICK g : g = <<f>> /\ g \in Seq(WireFrame) /\ g[1] = f /\ Len(g) = 1
    <2>1. <<f>> \in Seq(WireFrame) BY <1>2
    <2>2. Len(<<f>>) = 1 /\ <<f>>[1] = f OBVIOUS
    <2> QED BY <2>1, <2>2
  <1>4. PICK m \in Nat : m = 1 OBVIOUS
  <1>5. m = Len(g) /\ m >= 1 BY <1>3, <1>4
  <1>6. \A i \in 1..m : i = m /\ g[i] = f BY <1>3, <1>4
  <1>7. \A i \in 1..m : g[i].of = n /\ g[i].type = (IF i = m THEN "response" ELSE "created") BY <1>2, <1>6
  <1>8. Wire!Respond(n, g) BY <1>1, <1>3
  <1> QED BY <1>3, <1>5, <1>7, <1>8, RespondKeeps

LEMMA DeliverKeeps == ASSUME WireBounds, WireInv, NEW n \in 1..Len(read), Wire!Deliver(n) PROVE WireInv'
  <1>1. WireTyped /\ AnswersInv /\ RanInv BY DEF WireInv
  <1>2. PICK k : k = read[n].answers OBVIOUS
  <1>3. /\ jobs[n] = "new" /\ read[n].kind = "answer"
        /\ delivered' = IF k \in link_pending THEN delivered \cup {<<k, n>>} ELSE delivered
        /\ link_pending' = link_pending \ {k}
        /\ jobs' = [jobs EXCEPT ![n] = Wire!None]
        /\ UNCHANGED <<inbox, read, next_id, queue, wire, writer, ran>>
    BY <1>2 DEF Wire!Deliver, Wire!Done
  <1>4. ~Wire!IsRequest(n) /\ jobs[n] # Wire!None BY <1>3 DEF Wire!IsRequest, Wire!None
  <1>5. RanInv' BY <1>1, <1>3 DEF RanInv
  <1>6. AnswersInv'
    <2>1. Put(k) BY <1>1, <1>2, <1>3 DEF AnswersInv
    <2>2. ASSUME NEW d \in delivered'
          PROVE  /\ d[1] \in 1..next_id /\ d[1] \notin link_pending'
                 /\ d[2] \in 1..Len(read) /\ read[d[2]].answers = d[1] /\ Put(d[1])
      <3>1. CASE d \in delivered BY <1>1, <1>3, <3>1 DEF AnswersInv
      <3>2. CASE d \notin delivered
        <4>1. d = <<k, n>> /\ k \in link_pending BY <1>3, <2>2, <3>2
        <4>2. d[1] = k /\ d[2] = n BY <4>1
        <4> QED BY <1>1, <1>2, <1>3, <2>1, <4>1, <4>2 DEF AnswersInv
      <3> QED BY <3>1, <3>2
    <2>3. link_pending' \subseteq 1..next_id BY <1>1, <1>3 DEF AnswersInv
    <2> QED BY <1>1, <1>3, <2>2, <2>3 DEF AnswersInv, Put
  <1>7. Wire!None \in {"new", "asking", "told", Wire!None} /\ Wire!None \notin {"asking", "told"} BY DEF Wire!None
  <1> QED BY <1>3, <1>4, <1>5, <1>6, <1>7, QuietJobKeeps

LEMMA NotificationKeeps == ASSUME WireBounds, WireInv, NEW n \in 1..Len(read), Wire!Notification(n) PROVE WireInv'
  <1>1. WireTyped /\ AnswersInv /\ RanInv BY DEF WireInv
  <1>2. /\ jobs[n] = "new" /\ read[n].id # "given"
        /\ jobs' = [jobs EXCEPT ![n] = Wire!None]
        /\ UNCHANGED <<inbox, read, next_id, link_pending, delivered, queue, wire, writer, ran>>
    BY DEF Wire!Notification, Wire!Done
  <1>3. ~Wire!IsRequest(n) /\ jobs[n] # Wire!None BY <1>2 DEF Wire!IsRequest, Wire!None
  <1>4. RanInv' BY <1>1, <1>2 DEF RanInv
  <1>5. AnswersInv' BY <1>1, <1>2, AnswersStay DEF WireTyped
  <1>6. Wire!None \in {"new", "asking", "told", Wire!None} /\ Wire!None \notin {"asking", "told"} BY DEF Wire!None
  <1> QED BY <1>2, <1>3, <1>4, <1>5, <1>6, QuietJobKeeps

LEMMA AtOnceKeeps ==
  ASSUME WireBounds, WireInv, NEW n \in 1..Len(read), Wire!Handle(n) \/ Wire!CallRefused(n) \/ Wire!Observe(n)
  PROVE  WireInv'
  <1>1. jobs[n] = "new" /\ Wire!IsRequest(n) /\ ran' = ran
        /\ \E good \in BOOLEAN : Wire!Respond(n, << Wire!Frame("response", n, good) >>)
    BY DEF Wire!Handle, Wire!CallRefused, Wire!Observe
  <1>2. RanInv' BY <1>1 DEF WireInv, RanInv
  <1>3. jobs[n] # Wire!None BY <1>1 DEF Wire!None
  <1> QED BY <1>1, <1>2, <1>3, OneResponse

(* A pipeline that runs is one the filter lets through.                    *)
LEMMA RunsListed ==
  ASSUME RanInv, NEW n \in 1..Len(read), Wire!RunsPipeline(n) PROVE RanInv'
  <1>1. PICK p \in Wire!Resolvable(read[n].tool) : ran' = ran \cup {<<n, p.name>>} BY DEF Wire!RunsPipeline
  <1>2. p \in Pipelines /\ p.exposed /\ Wire!Passes(p.name) BY DEF Wire!Resolvable, Wire!Exposed
  <1>3. ASSUME NEW x \in ran' PROVE \E q \in Pipelines : q.name = x[2] /\ q.exposed /\ Wire!Passes(q.name)
    <2>1. CASE x \in ran BY <2>1 DEF RanInv
    <2>2. CASE x \notin ran
      <3>1. x = <<n, p.name>> BY <1>1, <1>3, <2>2
      <3>2. x[2] = p.name BY <3>1
      <3> QED BY <1>2, <3>2
    <2> QED BY <2>1, <2>2
  <1> QED BY <1>3 DEF RanInv, Wire!Passes

LEMMA CallTaskKeeps == ASSUME WireBounds, WireInv, NEW n \in 1..Len(read), Wire!CallTask(n) PROVE WireInv'
  <1>1. jobs[n] # Wire!None /\ Wire!IsRequest(n) /\ RanInv BY DEF Wire!CallTask, Wire!MayRun, Wire!None, WireInv
  <1>2. CASE UNCHANGED ran /\ Wire!Respond(n, << Wire!Frame("response", n, FALSE) >>)
    <2>1. RanInv' BY <1>1, <1>2 DEF RanInv
    <2> QED BY <1>1, <1>2, <2>1, OneResponse
  <1>3. CASE Wire!RunsPipeline(n)
             /\ Wire!Respond(n, << Wire!Frame("created", n, TRUE), Wire!Frame("response", n, TRUE) >>)
    <2>1. RanInv' BY <1>1, <1>3, RunsListed
    <2>2. PICK f, g : f = Wire!Frame("created", n, TRUE) /\ g = Wire!Frame("response", n, TRUE) OBVIOUS
    <2>3. f \in WireFrame /\ g \in WireFrame /\ f.of = n /\ g.of = n /\ f.type = "created" /\ g.type = "response"
      BY <2>2 DEF Wire!Frame, WireFrame
    <2>4. PICK h : h = <<f, g>> /\ h \in Seq(WireFrame) /\ h[1] = f /\ h[2] = g /\ Len(h) = 2
      <3>1. <<f, g>> \in Seq(WireFrame) BY <2>3
      <3>2. Len(<<f, g>>) = 2 /\ <<f, g>>[1] = f /\ <<f, g>>[2] = g OBVIOUS
      <3> QED BY <3>1, <3>2
    <2>5. PICK m \in Nat : m = 2 OBVIOUS
    <2>6. m = Len(h) /\ m >= 1 BY <2>4, <2>5
    <2>7. \A i \in 1..m : (i = m /\ i = 2) \/ (i # m /\ i = 1) BY <2>5
    <2>8. \A i \in 1..m : h[i].of = n /\ h[i].type = (IF i = m THEN "response" ELSE "created") BY <2>3, <2>4, <2>7
    <2>9. Wire!Respond(n, h) BY <1>3, <2>2, <2>4
    <2> QED BY <1>1, <2>1, <2>4, <2>6, <2>8, <2>9, RespondKeeps
  <1> QED BY <1>2, <1>3 DEF Wire!CallTask

LEMMA CallSyncKeeps == ASSUME WireBounds, WireInv, NEW n \in 1..Len(read), Wire!CallSync(n) PROVE WireInv'
  <1>1. WireTyped /\ AnswersInv /\ RanInv BY DEF WireInv
  <1>2. /\ jobs[n] # Wire!None /\ Wire!IsRequest(n) /\ Wire!RunsPipeline(n)
        /\ jobs' = [jobs EXCEPT ![n] = "told"]
        /\ UNCHANGED <<inbox, read, next_id, link_pending, delivered, queue, wire, writer>>
    BY DEF Wire!CallSync, Wire!MayRun, Wire!None
  <1>3. RanInv' BY <1>1, <1>2, RunsListed
  <1>4. AnswersInv' BY <1>1, <1>2, AnswersStay DEF WireTyped
  <1> QED BY <1>2, <1>3, <1>4, QuietJobKeeps

LEMMA AskEndsKeeps == ASSUME WireBounds, WireInv, NEW n \in 1..Len(read), Wire!AskEnds(n) PROVE WireInv'
  <1>1. WireTyped /\ JobInv /\ AnswersInv /\ RanInv BY DEF WireInv
  <1>2. /\ jobs[n] = "asking"
        /\ jobs' = [jobs EXCEPT ![n] = "told"]
        /\ UNCHANGED <<inbox, read, next_id, link_pending, delivered, queue, wire, writer, ran>>
    BY DEF Wire!AskEnds
  <1>3. n \in 1..MaxLines BY <1>1, LenProperties DEF WireTyped, WireBounds
  <1>4. jobs[n] # Wire!None /\ Wire!IsRequest(n) BY <1>1, <1>2, <1>3 DEF JobInv, Wire!None
  <1>5. RanInv' BY <1>1, <1>2 DEF RanInv
  <1>6. AnswersInv' BY <1>1, <1>2, AnswersStay DEF WireTyped
  <1> QED BY <1>2, <1>4, <1>5, <1>6, QuietJobKeeps

LEMMA RunEndsKeeps == ASSUME WireBounds, WireInv, NEW n \in 1..Len(read), Wire!RunEnds(n) PROVE WireInv'
  <1>1. WireTyped /\ JobInv /\ RanInv BY DEF WireInv
  <1>2. jobs[n] = "told" /\ ran' = ran /\ Wire!Respond(n, << Wire!Frame("response", n, TRUE) >>)
    BY DEF Wire!RunEnds
  <1>3. n \in 1..MaxLines BY <1>1, LenProperties DEF WireTyped, WireBounds
  <1>4. jobs[n] # Wire!None /\ Wire!IsRequest(n) BY <1>1, <1>2, <1>3 DEF JobInv, Wire!None
  <1>5. RanInv' BY <1>1, <1>2 DEF RanInv
  <1> QED BY <1>2, <1>4, <1>5, OneResponse

(* A request of the server's own goes out with the task that waits for it. *)
LEMMA AskKeeps == ASSUME WireBounds, WireInv, NEW n \in 1..Len(read), Wire!Ask(n) PROVE WireInv'
  <1>1. WireTyped /\ JobInv /\ RequestsHeard /\ AnswersInv /\ RanInv BY DEF WireInv
  <1>2. PICK k : k = next_id + 1 OBVIOUS
  <1>3. /\ jobs[n] = "told" /\ next_id' = k
        /\ IF writer = "on" THEN link_pending' = link_pending \cup {k} /\ jobs' = [jobs EXCEPT ![n] = "asking"]
           ELSE UNCHANGED <<link_pending, jobs>>
        /\ Wire!Push(<< Wire!Frame("request", k, TRUE) >>)
        /\ UNCHANGED <<inbox, read, delivered, wire, writer, ran>>
    BY <1>2 DEF Wire!Ask
  <1>4. next_id \in Nat /\ k \in Nat /\ next_id <= k /\ k \in 1..k /\ k \notin 1..next_id
        /\ \A i \in 1..next_id : i \in 1..k
    BY <1>1, <1>2 DEF WireTyped
  <1>5. RanInv' BY <1>1, <1>3 DEF RanInv
  <1>6. Len(read) <= Len(read') /\ n \in 1..MaxLines
    BY <1>1, <1>3, LenProperties DEF WireTyped, WireBounds
  <1>7. jobs[n] # Wire!None /\ Wire!IsRequest(n) BY <1>1, <1>3, <1>6 DEF JobInv, Wire!None
  <1>8. link_pending' \subseteq 1..k BY <1>1, <1>3, <1>4 DEF AnswersInv
  <1>9. \A d \in delivered : /\ d[1] \in 1..k /\ d[1] \notin link_pending'
                             /\ d[2] \in 1..Len(read) /\ read[d[2]].answers = d[1] /\ Put(d[1])
    BY <1>1, <1>3, <1>4 DEF AnswersInv
  <1>10. AnswersInv' BY <1>1, <1>3, <1>8, <1>9 DEF AnswersInv, Put
  <1>11. CASE writer # "on"
    <2>1. UNCHANGED <<jobs, queue>> BY <1>3, <1>11 DEF Wire!Push
    <2>2. WireTyped' BY <1>1, <1>3, <1>4, <2>1 DEF WireTyped
    <2>3. JobInv' BY <1>1, <1>3, <2>1 DEF JobInv, Wire!IsRequest
    <2>4. RequestsHeard' BY <1>3, <1>11 DEF RequestsHeard
    <2>5. FramesInv'
      <3>1. PICK f, m : f = << >> /\ m = 0 OBVIOUS
      <3>2. Grown(f) /\ m \in Nat /\ m = Len(f) BY <1>1, <1>3, <2>1, <3>1, SameFrames
      <3>3. \A i \in 1..m : FALSE BY <3>1
      <3>4. \A i \in 1..Len(read) : read'[i] = read[i] /\ jobs'[i] = jobs[i] BY <1>3, <2>1
      <3>5. next_id <= next_id' BY <1>3, <1>4
      <3> QED BY <1>6, <2>2, <3>2, <3>3, <3>4, <3>5, FramesStep
    <2> QED BY <1>5, <1>10, <2>2, <2>3, <2>4, <2>5 DEF WireInv
  <1>12. CASE writer = "on"
    <2>1. jobs' = [jobs EXCEPT ![n] = "asking"] /\ read' = read BY <1>3, <1>12
    <2>2. /\ JobInv'
          /\ jobs' \in [1..MaxLines -> {"new", "asking", "told", Wire!None}] /\ jobs'[n] = "asking"
          /\ \A o \in 1..Len(read) : o # n => jobs'[o] = jobs[o]
          /\ \A o \in 1..Len(read) : jobs[o] = Wire!None => jobs'[o] = Wire!None
      BY <1>7, <2>1, JobGoes
    <2>3. PICK f : f = Wire!Frame("request", k, TRUE) OBVIOUS
    <2>4. f \in WireFrame /\ f.type = "request" /\ f.good = TRUE /\ f.of = k
      BY <1>4, <2>3 DEF Wire!Frame, WireFrame
    <2>5. PICK g : g = <<f>> /\ g \in Seq(WireFrame) /\ Len(g) = 1 /\ g[1] = f
      <3>1. <<f>> \in Seq(WireFrame) BY <2>4
      <3>2. Len(<<f>>) = 1 /\ <<f>>[1] = f OBVIOUS
      <3> QED BY <3>1, <3>2
    <2>6. queue' = queue \o g BY <1>3, <1>12, <2>3, <2>5 DEF Wire!Push
    <2>7. queue' \in Seq(WireFrame) /\ Grown(g) BY <1>1, <1>3, <2>5, <2>6, PushGrows
    <2>8. WireTyped' BY <1>1, <1>3, <1>4, <2>2, <2>7 DEF WireTyped
    <2>9. FramesInv'
      <3>1. PICK m \in Nat : m = 1 OBVIOUS
      <3>2. m = Len(g) BY <2>5, <3>1
      <3>3. \A i \in 1..m : g[i] = f BY <2>5, <3>1
      <3>4. \A i \in 1..m : ~Speaks(g[i]) BY <2>4, <3>3 DEF Speaks
      <3>5. \A i \in 1..m : g[i].type = "request" => g[i].good = TRUE /\ g[i].of \in 1..next_id'
        BY <1>3, <1>4, <2>4, <3>3
      <3>6. next_id <= next_id' BY <1>3, <1>4
      <3>7. \A i \in 1..Len(read) : read'[i] = read[i] BY <2>1
      <3> QED BY <1>6, <2>2, <2>7, <2>8, <3>2, <3>4, <3>5, <3>6, <3>7, FramesStep
    <2>10. RequestsHeard'
      <3>1. PICK a \in Nat : a = Len(Wire!All) BY <1>1, AllIs
      <3>2. /\ Len((Wire!All)') = a + 1 /\ \A i \in 1..a : (Wire!All)'[i] = Wire!All[i]
        BY <2>5, <2>7, <3>1 DEF Grown
      <3>3. \A i \in 1..a : i \in 1..(a + 1) BY <3>1
      <3>4. \A o \in 1..Len(read) : Responded(o) => Responded(o)' BY <3>1, <3>2, <3>3 DEF Responded
      <3>5. \A o \in 1..Len(read) : jobs'[o] = Wire!None => jobs[o] = Wire!None BY <2>2 DEF Wire!None
      <3> QED BY <1>1, <1>12, <2>1, <3>4, <3>5 DEF RequestsHeard, Wire!IsRequest
    <2> QED BY <1>5, <1>10, <2>2, <2>8, <2>9, <2>10 DEF WireInv
  <1> QED BY <1>11, <1>12

LEMMA WriteKeeps == ASSUME WireBounds, WireInv, Wire!WriteFrame PROVE WireInv'
  <1>1. WireTyped /\ JobInv /\ FramesInv /\ RequestsHeard /\ AnswersInv /\ RanInv BY DEF WireInv
  <1>2. queue # << >> /\ UNCHANGED <<inbox, read, jobs, next_id, link_pending, delivered, ran>> BY DEF Wire!WriteFrame
  <1>3. JobInv' BY <1>1, <1>2 DEF JobInv, Wire!IsRequest
  <1>4. RanInv' BY <1>1, <1>2 DEF RanInv
  <1>5. CASE wire' = Append(wire, Head(queue)) /\ queue' = Tail(queue) /\ UNCHANGED writer
    <2>1. wire' \in Seq(WireFrame) /\ queue' \in Seq(WireFrame) /\ (Wire!All)' = Wire!All
      BY <1>1, <1>2, <1>5, WrittenIs
    <2>2. WireTyped' BY <1>1, <1>2, <2>1 DEF WireTyped
    <2>3. FramesInv' BY <1>1, <1>2, <2>1 DEF FramesInv, Spoken, Wire!IsRequest
    <2>4. RequestsHeard' BY <1>1, <1>2, <1>5, <2>1 DEF RequestsHeard, Responded, Wire!IsRequest
    <2>5. ASSUME NEW k, Put(k) PROVE Put(k)'
      <3>1. PICK w \in Nat : w = Len(wire) BY <1>1, LenProperties DEF WireTyped
      <3>2. Head(queue) \in WireFrame BY <1>1, <1>2, HeadTailProperties DEF WireTyped
      <3>3. Len(wire') = w + 1 /\ \A i \in 1..w : wire'[i] = wire[i]
        BY <1>1, <1>5, <3>1, <3>2, AppendProperties DEF WireTyped
      <3>4. \A i \in 1..w : i \in 1..(w + 1) BY <3>1
      <3> QED BY <2>5, <3>1, <3>3, <3>4 DEF Put
    <2>6. AnswersInv' BY <1>1, <1>2, <2>5 DEF AnswersInv
    <2> QED BY <1>3, <1>4, <2>2, <2>3, <2>4, <2>6 DEF WireInv
  <1>6. CASE writer' = "broken" /\ queue' = << >> /\ UNCHANGED wire
    <2>1. WireTyped' BY <1>1, <1>2, <1>6 DEF WireTyped
    <2>2. AnswersInv' BY <1>1, <1>2, <1>6 DEF AnswersInv, Put
    <2>3. RequestsHeard' BY <1>6 DEF RequestsHeard
    <2>4. PICK A, B : A = Wire!All /\ B = (Wire!All)' OBVIOUS
    <2>5. PICK w \in Nat : w = Len(wire) BY <1>1, AllIs
    <2>6. Len(B) = w /\ \A i \in 1..w : B[i] = wire[i]
      <3>1. B = wire \o << >> BY <1>6, <2>4 DEF Wire!All
      <3>2. wire \in Seq(WireFrame) BY <1>1 DEF WireTyped
      <3>3. B = wire BY <3>1, <3>2
      <3> QED BY <2>5, <3>3
    <2>7. \A i \in 1..w : i \in 1..Len(A) /\ A[i] = wire[i] BY <1>1, <2>4, <2>5, AllIs
    <2>8. FramesInv'
      <3>1. \A i \in 1..w : Speaks(B[i]) => Spoken(B[i].of)'
        BY <1>1, <1>2, <2>4, <2>6, <2>7 DEF FramesInv, Spoken, Wire!IsRequest
      <3>2. \A i \in 1..w : B[i].type = "request" => B[i].good = TRUE /\ B[i].of \in 1..next_id'
        BY <1>1, <1>2, <2>4, <2>6, <2>7 DEF FramesInv
      <3>3. \A i, j \in 1..w : Speaks(B[i]) /\ Speaks(B[j]) /\ B[i].of = B[j].of /\ B[j].type = "response"
               => IF B[i].type = "response" THEN i = j ELSE i < j
        BY <1>1, <2>4, <2>6, <2>7 DEF FramesInv
      <3> QED BY <2>4, <2>6, <3>1, <3>2, <3>3 DEF FramesInv
    <2> QED BY <1>3, <1>4, <2>1, <2>2, <2>3, <2>8 DEF WireInv
  <1> QED BY <1>5, <1>6 DEF Wire!WriteFrame

LEMMA WireStays ==
  ASSUME WireInv, UNCHANGED <<inbox, read, jobs, next_id, link_pending, delivered, queue, wire, ran>>,
         writer' = writer \/ writer' # "on"
  PROVE  WireInv'
  <1>1. WireTyped /\ JobInv /\ FramesInv /\ RequestsHeard /\ AnswersInv /\ RanInv BY DEF WireInv
  <1>2. (Wire!All)' = Wire!All BY DEF Wire!All
  <1>3. WireTyped' BY <1>1 DEF WireTyped
  <1>4. JobInv' BY <1>1 DEF JobInv, Wire!IsRequest
  <1>5. FramesInv' BY <1>1, <1>2 DEF FramesInv, Spoken, Wire!IsRequest
  <1>6. RequestsHeard' BY <1>1, <1>2 DEF RequestsHeard, Responded, Wire!IsRequest
  <1>7. AnswersInv' BY <1>1 DEF AnswersInv, Put
  <1>8. RanInv' BY <1>1 DEF RanInv
  <1> QED BY <1>3, <1>4, <1>5, <1>6, <1>7, <1>8 DEF WireInv

(* The wire's invariant: what has been told of each line, and what waits.  *)
(* (mcp/server/mod.rs, link.rs.)                                           *)
THEOREM WireInvariant == ASSUME WireBounds PROVE Wire!Spec => []WireInv
  <1>1. Wire!Init => WireInv
    <2>1. SUFFICES ASSUME Wire!Init PROVE WireInv OBVIOUS
    <2>2. inbox = << >> /\ read = << >> /\ queue = << >> /\ wire = << >> /\ next_id = 0 /\ link_pending = {}
          /\ delivered = {} /\ ran = {} /\ jobs = [n \in 1..MaxLines |-> Wire!None]
      BY <2>1 DEF Wire!Init
    <2>3. Len(<< >>) = 0 /\ \A i \in 1..0 : FALSE OBVIOUS
    <2>4. Len(read) = 0 /\ Len(inbox) = 0 /\ Len(wire) = 0 BY <2>2
    <2>5. WireTyped BY <2>2, <2>4 DEF WireTyped, WireBounds
    <2>6. JobInv BY <2>2 DEF JobInv, Wire!None
    <2>7. Wire!All = << >>
      <3>1. << >> \o << >> = << >> OBVIOUS
      <3> QED BY <2>2, <3>1 DEF Wire!All
    <2>8. FramesInv BY <2>3, <2>7 DEF FramesInv
    <2>9. RequestsHeard BY <2>3, <2>4 DEF RequestsHeard
    <2>10. AnswersInv BY <2>2, <2>3, <2>4 DEF AnswersInv
    <2>11. RanInv BY <2>2 DEF RanInv
    <2> QED BY <2>5, <2>6, <2>8, <2>9, <2>10, <2>11 DEF WireInv
  <1>2. ASSUME WireInv, [Wire!Next]_(Wire!vars) PROVE WireInv'
    <2>1. CASE Wire!Send BY <1>2, <2>1, SendKeeps
    <2>2. CASE Wire!ReadLine BY <1>2, <2>2, ReadKeeps
    <2>3. CASE Wire!WriteFrame BY <1>2, <2>3, WriteKeeps
    <2>4. CASE Wire!Close BY <1>2, <2>4, WireStays DEF Wire!Close
    <2>5. CASE Wire!EndOfFile BY <1>2, <2>5, WireStays DEF Wire!EndOfFile
    <2>6. CASE UNCHANGED Wire!vars BY <1>2, <2>6, WireStays DEF Wire!vars
    <2>7. ASSUME NEW n \in 1..Len(read), Wire!Job(n) PROVE WireInv'
      <3>1. CASE Wire!Deliver(n) BY <1>2, <3>1, DeliverKeeps
      <3>2. CASE Wire!Notification(n) BY <1>2, <3>2, NotificationKeeps
      <3>3. CASE Wire!Handle(n) \/ Wire!CallRefused(n) \/ Wire!Observe(n) BY <1>2, <3>3, AtOnceKeeps
      <3>4. CASE Wire!CallTask(n) BY <1>2, <3>4, CallTaskKeeps
      <3>5. CASE Wire!CallSync(n) BY <1>2, <3>5, CallSyncKeeps
      <3>6. CASE Wire!Ask(n) BY <1>2, <3>6, AskKeeps
      <3>7. CASE Wire!AskEnds(n) BY <1>2, <3>7, AskEndsKeeps
      <3>8. CASE Wire!RunEnds(n) BY <1>2, <3>8, RunEndsKeeps
      <3> QED BY <2>7, <3>1, <3>2, <3>3, <3>4, <3>5, <3>6, <3>7, <3>8 DEF Wire!Job
    <2> QED BY <1>2, <2>1, <2>2, <2>3, <2>4, <2>5, <2>6, <2>7 DEF Wire!Next
  <1> QED BY <1>1, <1>2, PTL DEF Wire!Spec

(* Every request is answered exactly once while there is a writer, what is *)
(* no request never, the notification of a task ahead of its response, an  *)
(* answer given to the request it is for, and only what is listed is run.  *)
THEOREM LinesGetTheirAnswer == ASSUME WireBounds PROVE Wire!Spec => []Wire!WireSound
  <1>1. ASSUME WireInv PROVE Wire!WireSound
    <2>1. WireTyped /\ FramesInv /\ RequestsHeard /\ AnswersInv /\ RanInv BY <1>1 DEF WireInv
    <2>2. PICK A : A = Wire!All OBVIOUS
    <2>3. PICK a \in Nat : a = Len(A) BY <2>1, <2>2, AllIs
    <2>4. DOMAIN A = 1..a /\ DOMAIN read = 1..Len(read) /\ DOMAIN wire = 1..Len(wire)
      BY <2>1, <2>2, <2>3, AllIs, LenProperties DEF WireTyped
    <2>5. ASSUME NEW n \in 1..Len(read), NEW S, S = {i \in 1..a : A[i].type = "response" /\ A[i].of = n}
          PROVE  /\ Wire!Cardinality(S) <= 1
                 /\ ~Wire!IsRequest(n) => Wire!Cardinality(S) = 0
                 /\ Wire!IsRequest(n) /\ jobs[n] = Wire!None /\ writer = "on" => Wire!Cardinality(S) = 1
      <3>1. n # 0 BY <2>1, LenProperties DEF WireTyped
      <3>2. \A i \in S : Speaks(A[i]) BY <2>5, <3>1 DEF Speaks
      <3>3. \A i, j \in S : i = j
        BY <2>1, <2>2, <2>3, <2>5, <3>2 DEF FramesInv
      <3>4. ~Wire!IsRequest(n) => S = {}
        <4>1. \A i \in S : Wire!IsRequest(n) BY <2>1, <2>2, <2>3, <2>5, <3>2 DEF FramesInv, Spoken
        <4> QED BY <4>1
      <3>5. Wire!IsRequest(n) /\ jobs[n] = Wire!None /\ writer = "on" => S # {}
        BY <2>1, <2>2, <2>3, <2>5 DEF RequestsHeard, Responded
      <3>6. Wire!Cardinality(S) = Cardinality(S) BY DEF Wire!Cardinality, Cardinality
      <3>7. ASSUME NEW i \in S PROVE Cardinality(S) = 1
        <4>1. S = {i} BY <3>3, <3>7
        <4> QED BY <4>1, FS_Singleton
      <3>8. Cardinality({}) = 0 BY FS_EmptySet
      <3>10. CASE S = {} BY <3>5, <3>6, <3>8, <3>10
      <3>11. CASE S # {} BY <3>4, <3>6, <3>7, <3>11
      <3> QED BY <3>10, <3>11
    <2>6. ASSUME NEW n \in 1..Len(read)
          PROVE  /\ Wire!Count("response", n) <= 1
                 /\ ~Wire!IsRequest(n) => Wire!Count("response", n) = 0
                 /\ Wire!IsRequest(n) /\ jobs[n] = Wire!None /\ writer = "on" => Wire!Count("response", n) = 1
      <3>1. PICK S : S = {i \in 1..a : A[i].type = "response" /\ A[i].of = n} OBVIOUS
      <3>2. Wire!Count("response", n) = Wire!Cardinality(S) BY <2>2, <2>4, <3>1 DEF Wire!Count
      <3> QED BY <2>5, <3>1, <3>2
    <2>7. ASSUME NEW n \in 1..Len(read), NEW i \in 1..a, NEW j \in 1..a,
                 A[i].type = "created", A[i].of = n, A[j].type = "response", A[j].of = n
          PROVE  i < j
      <3>1. n # 0 BY <2>1, LenProperties DEF WireTyped
      <3>2. Speaks(A[i]) /\ Speaks(A[j]) /\ A[i].type # "response" BY <2>7, <3>1 DEF Speaks
      <3> QED BY <2>1, <2>2, <2>3, <2>7, <3>2 DEF FramesInv
    <2>8. \A d \in delivered : /\ read[d[2]].answers = d[1] /\ d[1] \notin link_pending
                               /\ \E i \in 1..Len(wire) : wire[i] = Wire!Frame("request", d[1], TRUE)
      BY <2>1 DEF AnswersInv, Put
    <2>9. \A n \in DOMAIN read :
             /\ Wire!Count("response", n) <= 1
             /\ ~Wire!IsRequest(n) => Wire!Count("response", n) = 0
             /\ Wire!IsRequest(n) /\ jobs[n] = Wire!None /\ writer = "on" => Wire!Count("response", n) = 1
             /\ \A i \in DOMAIN Wire!All : Wire!All[i].type = "created" /\ Wire!All[i].of = n =>
                   \A j \in DOMAIN Wire!All : Wire!All[j].type = "response" /\ Wire!All[j].of = n => i < j
      BY <2>2, <2>4, <2>6, <2>7
    <2> QED BY <2>1, <2>4, <2>8, <2>9 DEF Wire!WireSound, RanInv
  <1> QED BY <1>1, WireInvariant, PTL
================================================================================
