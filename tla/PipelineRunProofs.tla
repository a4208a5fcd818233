--------------------------- MODULE PipelineRunProofs ---------------------------
(***************************************************************************)
(* Theorems about pipeline runs, for any pipeline, any number of runs and  *)
(* forks, and any faults.                                                  *)
(*                                                                         *)
(* First the walk over the levels: the types, that steps start with what   *)
(* they depend on, and fail-fast.  Then forks: what a fork takes over is   *)
(* genuine and no effect happens again in it; the argument is about what   *)
(* the streams of the runs say, since they are all that a fork sees of its *)
(* parent.  Last the end of a run: nothing is told twice, success is       *)
(* earned, and nothing outlives the run.                                   *)
(***************************************************************************)
EXTENDS PipelineRun, SequenceTheorems, WellFoundedInduction, TLAPS

(* A run that has not come to its levels. *)
Early == {"unused", "requested", "bootstrap"}

Started(r) ==
    /\ pc[r] \in Early =>
          /\ placed[r] = {} /\ joining[r] = {} /\ skipped[r] = {} /\ halt[r] = FALSE
          /\ \A s \in Steps : task[r][s] = "none"
    /\ pc[r] = "unused" =>
          /\ parent[r] = r /\ frozen[r] = {} /\ log[r] = << >> /\ acted[r] = {}
          /\ \A s \in Steps : sub[r][s] = {}
    /\ pc[r] = "bootstrap" => todo[r] \subseteq frozen[r]

(* A step that has been joined, as it may be when the run goes on or halts. *)
Settled(r, s) ==
    \/ /\ output[r][s] # {}
       /\ task[r][s] = "ok" \/ (task[r][s] = "failed" /\ (Kind[s] = "tool" => halt[r]))
    \/ task[r][s] = "error" /\ halt[r]

(* The level at work: what is looked at, waited for, and over. *)
LevelInv(r) ==
    /\ pc[r] = "dispatch" => /\ halt[r] = FALSE
                             /\ todo[r] \subseteq Level(r)
                             /\ \A s \in todo[r] : task[r][s] = "none" /\ s \notin skipped[r]
    /\ pc[r] = "join" => todo[r] = {}
    /\ pc[r] \in {"dispatch", "join"} =>
          /\ \A s \in Steps : task[r][s] # "none" \/ s \in skipped[r] => s \in placed[r] \cup Level(r)
          /\ \A s \in Level(r) \ todo[r] :
                s \in joining[r] \cup frozen[r] \cup skipped[r] \/ Settled(r, s)

(* A step that was spawned had all that it depends on, and will not be skipped. *)
Spawned(r) ==
    /\ \A s \in joining[r] : task[r][s] # "none"
    /\ \A s \in Steps : task[r][s] # "none" =>
          s \notin frozen[r] \cup skipped[r] /\ DependsOn[s] \subseteq placed[r] \ skipped[r]

(* What the levels that are over have left. *)
PlacedDone(r) ==
    \A s \in placed[r] :
        /\ s \in skipped[r] \/ output[r][s] # {}
        /\ task[r][s] \in {"none", "ok"} \/ (task[r][s] = "failed" /\ Kind[s] # "tool")

Kept(r) == \A s \in frozen[r] : output[r][s] # {}

Local(r) == Started(r) /\ LevelInv(r) /\ Spawned(r) /\ PlacedDone(r) /\ Kept(r)

LocalInv == \A r \in Runs : Local(r)

------------------------------------------------------------------------------
(* Types *)

LEMMA Entries ==
  ASSUME NEW s \in Steps, NEW ok \in BOOLEAN,
         NEW k \in {"requested", "forked", "started", "completed", "resolved", "response", "run_completed"}
  PROVE  /\ NodeStarted(s) \in Entry /\ NodeCompleted(s, ok) \in Entry /\ Skip(s) \in Entry
         /\ OfRun(k, ok) \in Entry
  BY DEF NodeStarted, NodeCompleted, Skip, OfRun, Event, Entry, Kinds

LEMMA EmitType ==
  ASSUME TypeOK, NEW r \in Runs, NEW e \in Entry, Emit(r, e)
  PROVE  log' \in [Runs -> Seq(Entry)] /\ faults' \in Nat
  <1>1. log[r] \in Seq(Entry) /\ log \in [Runs -> Seq(Entry)] /\ faults \in Nat BY DEF TypeOK
  <1>2. Append(log[r], e) \in Seq(Entry) BY <1>1, AppendProperties
  <1> QED BY <1>1, <1>2 DEF Emit, Fault

LEMMA ConcludeType ==
  ASSUME TypeOK, NEW r \in Runs, NEW s \in Steps, NEW ok \in BOOLEAN, Conclude(r, s, ok), Return(r, s, ok)
  PROVE  /\ log' \in [Runs -> Seq(Entry)] /\ faults' \in Nat
         /\ sub' \in [Runs -> [Steps -> SUBSET (Runs \cup {Raw})]]
         /\ task' \in [Runs -> [Steps -> {"none", "killed"} \cup Alive \cup Over]]
  <1> DEFINE ended == [log EXCEPT ![r] = Append(@, NodeCompleted(s, ok))]
             kept  == [sub EXCEPT ![r][s] = {r}]
  <1>1. log[r] \in Seq(Entry) /\ log \in [Runs -> Seq(Entry)] /\ faults \in Nat BY DEF TypeOK
  <1>2. Append(log[r], NodeCompleted(s, ok)) \in Seq(Entry) BY <1>1, Entries, AppendProperties
  <1>3. ended \in [Runs -> Seq(Entry)] BY <1>1, <1>2
  <1>4. kept \in [Runs -> [Steps -> SUBSET (Runs \cup {Raw})]] BY DEF TypeOK
  <1>5. task' \in [Runs -> [Steps -> {"none", "killed"} \cup Alive \cup Over]]
    BY DEF Return, TypeOK, Over
  <1>6. \/ log' = ended /\ sub' = kept /\ UNCHANGED faults
        \/ Fault /\ log' = ended /\ UNCHANGED sub
        \/ Fault /\ sub' = kept /\ UNCHANGED log
    BY DEF Conclude
  <1>7. faults' \in Nat BY <1>1, <1>6 DEF Fault
  <1> HIDE DEF ended, kept
  <1>8. log' \in [Runs -> Seq(Entry)] BY <1>1, <1>3, <1>6
  <1>9. sub' \in [Runs -> [Steps -> SUBSET (Runs \cup {Raw})]] BY <1>4, <1>6 DEF TypeOK
  <1> QED BY <1>5, <1>7, <1>8, <1>9

LEMMA RecordType ==
  ASSUME TypeOK, NEW r \in Runs, NEW s \in Steps, Record(r, s)
  PROVE  sub' \in [Runs -> [Steps -> SUBSET (Runs \cup {Raw})]] /\ faults' \in Nat
  <1>1. \/ sub' = [sub EXCEPT ![r][s] = {Raw}] /\ UNCHANGED faults
        \/ faults' = faults + 1 /\ UNCHANGED sub
    BY DEF Record, Fault
  <1>2. [sub EXCEPT ![r][s] = {Raw}] \in [Runs -> [Steps -> SUBSET (Runs \cup {Raw})]] BY DEF TypeOK
  <1>3. sub \in [Runs -> [Steps -> SUBSET (Runs \cup {Raw})]] /\ faults \in Nat BY DEF TypeOK
  <1>4. CASE sub' = [sub EXCEPT ![r][s] = {Raw}] /\ UNCHANGED faults BY <1>2, <1>3, <1>4
  <1>5. CASE faults' = faults + 1 /\ UNCHANGED sub BY <1>3, <1>5
  <1> QED BY <1>1, <1>4, <1>5

LEMMA ResolveType ==
  ASSUME TypeOK, NEW r \in Runs, Resolve(r)
  PROVE  /\ pending' \in [Runs -> Seq(Entry)]
         /\ overall' \in [Runs -> BOOLEAN] /\ halt' \in [Runs -> BOOLEAN]
  <1> DEFINE success == overall[r] /\ ~NoneLeft(r)
  <1>1. success \in BOOLEAN BY DEF TypeOK
  <1>2. (halt[r] \/ NoneLeft(r)) \in BOOLEAN BY DEF TypeOK
  <1>3. \A c \in BOOLEAN, e \in Entry : When(c, e) \in Seq(Entry) BY DEF When
  <1>4. \A ok \in BOOLEAN : OfRun("completed", ok) \in Entry /\ OfRun("resolved", ok) \in Entry
                            /\ OfRun("response", ok) \in Entry /\ OfRun("run_completed", ok) \in Entry
    BY DEF OfRun, Event, Entry, Kinds
  <1> DEFINE a == <<OfRun("completed", success)>>
             b == When(Chosen(r) # {}, OfRun("resolved", TRUE))
             c == When(success /\ FinalOutput(r) # {}, OfRun("response", TRUE))
             d == When(mode[r] # "serve", OfRun("run_completed", success))
  <1>5. a \in Seq(Entry) /\ b \in Seq(Entry) /\ c \in Seq(Entry) /\ d \in Seq(Entry)
    <2>1. \A e \in Entry : <<e>> \in Seq(Entry) OBVIOUS
    <2>a. OfRun("completed", success) \in Entry BY <1>1, <1>4
    <2>b. a \in Seq(Entry) BY <2>1, <2>a
    <2>2. b \in Seq(Entry) BY <1>3, <1>4
    <2>3. c \in Seq(Entry) BY <1>3, <1>4
    <2>4. d \in Seq(Entry) BY <1>1, <1>3, <1>4
    <2> QED BY <2>b, <2>2, <2>3, <2>4
  <1>6. pending' = [pending EXCEPT ![r] = a \o b \o c \o d]
        /\ overall' = [overall EXCEPT ![r] = success]
        /\ halt' = [halt EXCEPT ![r] = @ \/ NoneLeft(r)]
    BY DEF Resolve
  <1> HIDE DEF a, b, c, d, success
  <1>7. a \o b \o c \o d \in Seq(Entry) BY <1>5, ConcatProperties
  <1> QED BY <1>1, <1>2, <1>6, <1>7 DEF TypeOK

LEMMA TypeStep ==
  ASSUME TypeOK, [Next]_vars
  PROVE  TypeOK'
  <1> USE PipelineAssumption DEF TypeOK, Modes, Alive, Over, Event
  <1>0. CASE UNCHANGED vars BY <1>0 DEF vars
  <1> SUFFICES ASSUME NEW r \in Runs,
                      \/ Request(r) \/ Handler(r) \/ Bootstrap(r) \/ Die(r) \/ Exit(r)
                      \/ \E s \in Steps : HandlerStep(r, s) \/ FrozenStep(r, s) \/ Task(r, s)
                      \/ \E q \in Runs, f \in Steps : Fork(r, q, f)
               PROVE  TypeOK'
    BY <1>0 DEF Next
  <1> DEFINE e1 == OfRun("requested", TRUE)
  <1>1. CASE Request(r)
    <2>1. log' \in [Runs -> Seq(Entry)] /\ faults' \in Nat
      <3>1. e1 \in Entry BY DEF OfRun, Entry, Kinds
      <3>2. log[r] \in Seq(Entry) /\ log \in [Runs -> Seq(Entry)] OBVIOUS
      <3> HIDE DEF e1
      <3>3. CASE Emit(r, e1) BY <3>1, <3>3, EmitType
      <3>4. CASE log' = [log EXCEPT ![r] = Append(@, e1)] /\ UNCHANGED faults
        <4>1. Append(log[r], e1) \in Seq(Entry) BY <3>1, <3>2, AppendProperties
        <4> QED BY <3>2, <3>4, <4>1
      <3> QED BY <1>1, <3>3, <3>4 DEF Request, e1
    <2>2. UNCHANGED <<parent, frozen, level, task, results, pending, sub, acted, session>>
          /\ pc' = [pc EXCEPT ![r] = "requested"]
      BY <1>1 DEF Request
    <2>3. mode' = [mode EXCEPT ![r] = "cli"] \/ mode' = [mode EXCEPT ![r] = "serve"] BY <1>1 DEF Request
    <2> DEFINE cli == [mode EXCEPT ![r] = "cli"]
               serve == [mode EXCEPT ![r] = "serve"]
    <2>a. cli \in [Runs -> Modes] /\ serve \in [Runs -> Modes] OBVIOUS
    <2>b. mode' \in {cli, serve} BY <2>3
    <2> HIDE DEF cli, serve
    <2>4. mode' \in [Runs -> Modes] BY <2>a, <2>b
    <2> QED BY <2>1, <2>2, <2>4 DEF level, results, TypeOK
  <1>2. CASE Handler(r) \/ Bootstrap(r)
    <2>1. CASE Begin(r)
      <3>1. OfRun("started", TRUE) \in Entry BY DEF OfRun, Entry, Kinds
      <3>2. Emit(r, OfRun("started", TRUE)) BY <2>1 DEF Begin
      <3>3. log' \in [Runs -> Seq(Entry)] /\ faults' \in Nat
        <4> HIDE DEF TypeOK, Modes, Alive, Over, Event
        <4> QED BY <3>1, <3>2, EmitType
      <3>4. Level(r) \subseteq Steps BY DEF Level, LevelAfter
      <3> QED BY <2>1, <3>3, <3>4 DEF Begin, decisions, results
    <2>2. CASE AllSpawned(r) BY <2>2 DEF AllSpawned, decisions, level, stream, results
    <2>3. CASE NextLevel(r)
      <3>1. PICK done \in {placed[r] \cup Level(r)} :
               /\ placed' = [placed EXCEPT ![r] = done]
               /\ todo' = [todo EXCEPT ![r] = LevelAfter(done)]
               /\ pc' = [pc EXCEPT ![r] = IF done = Steps THEN "resolve" ELSE "dispatch"]
        BY <2>3 DEF NextLevel
      <3>2. done \subseteq Steps /\ LevelAfter(done) \subseteq Steps BY DEF Level, LevelAfter
      <3> QED BY <2>3, <3>1, <3>2 DEF NextLevel, decisions, results, stream
    <2>4. CASE Break(r) BY <2>4 DEF Break, decisions, level, stream, results
    <2>5. CASE Resolve(r)
      <3>1. pc' \in [Runs -> {"unused", "requested", "bootstrap", "dispatch", "join", "resolve",
                        "sealing", "ok", "err", "completing", "closed", "dead"}]
        BY <2>5 DEF Resolve
      <3>2. /\ pending' \in [Runs -> Seq(Entry)]
            /\ overall' \in [Runs -> BOOLEAN] /\ halt' \in [Runs -> BOOLEAN]
        BY <2>5, ResolveType
      <3>3. UNCHANGED <<decisions, level, task, output, skipped, stream, sub, acted, session>>
        BY <2>5 DEF Resolve
      <3> QED BY <3>1, <3>2, <3>3 DEF decisions, level, stream
    <2>6. CASE EmitPending(r)
      <3>1. pending[r] \in Seq(Entry) /\ pending[r] # << >> BY <2>6 DEF EmitPending
      <3>2. Head(pending[r]) \in Entry /\ Tail(pending[r]) \in Seq(Entry) BY <3>1, HeadTailProperties
      <3>3. Emit(r, Head(pending[r])) BY <2>6 DEF EmitPending
      <3>4. log' \in [Runs -> Seq(Entry)] /\ faults' \in Nat BY <3>2, <3>3, EmitType
      <3>5. pending' \in [Runs -> Seq(Entry)] BY <2>6, <3>2 DEF EmitPending
      <3> QED BY <2>6, <3>4, <3>5 DEF EmitPending, decisions, level, results
    <2>7. CASE Finish(r) BY <2>7 DEF Finish, decisions, level, stream, results
    <2>8. CASE RouterCompletes(r)
      <3>1. \A ok \in BOOLEAN : <<OfRun("run_completed", ok)>> \in Seq(Entry)
        BY DEF OfRun, Entry, Kinds
      <3>2. (pc[r] = "ok" /\ overall[r]) \in BOOLEAN OBVIOUS
      <3>3. pending' \in [Runs -> Seq(Entry)] BY <2>8, <3>1, <3>2 DEF RouterCompletes
      <3> QED BY <2>8, <3>3 DEF RouterCompletes, decisions, level, stream, results
    <2>9. CASE RouterDone(r) BY <2>9 DEF RouterDone, decisions, level, stream, results
    <2>10. CASE BootstrapFails(r) BY <2>10 DEF BootstrapFails, Fault, decisions, level, stream, results
    <2>11. CASE BootstrapDone(r)
      <3>1. Level(r) \subseteq Steps BY DEF Level, LevelAfter
      <3> QED BY <2>11, <3>1 DEF BootstrapDone, decisions, stream, results
    <2> QED BY <1>2, <2>1, <2>2, <2>3, <2>4, <2>5, <2>6, <2>7, <2>8, <2>9, <2>10, <2>11 DEF Handler, Bootstrap
  <1>3. ASSUME Kill(r), faults' \in Nat PROVE TypeOK'
    <2>1. [s \in Steps |-> IF task[r][s] \in Alive THEN "killed" ELSE task[r][s]]
             \in [Steps -> {"none", "killed"} \cup Alive \cup Over]
      OBVIOUS
    <2>2. task' = [task EXCEPT ![r] = [s \in Steps |-> IF task[r][s] \in Alive THEN "killed" ELSE task[r][s]]]
      BY <1>3 DEF Kill
    <2>3. pending' = [pending EXCEPT ![r] = << >>] BY <1>3 DEF Kill
    <2>4. pending' \in [Runs -> Seq(Entry)] BY <2>3, EmptySeq
    <2> HIDE DEF TypeOK
    <2>5. task' \in [Runs -> [Steps -> {"none", "killed"} \cup Alive \cup Over]] BY <2>1, <2>2 DEF TypeOK
    <2>6. pc' \in [Runs -> {"unused", "requested", "bootstrap", "dispatch", "join", "resolve",
                            "sealing", "ok", "err", "completing", "closed", "dead"}]
      BY <1>3 DEF Kill, TypeOK
    <2>7. /\ session' \in [Runs -> BOOLEAN] /\ overall' \in [Runs -> BOOLEAN] /\ halt' \in [Runs -> BOOLEAN]
          /\ todo' \in [Runs -> SUBSET Steps] /\ joining' \in [Runs -> SUBSET Steps]
      BY <1>3 DEF Kill, TypeOK
    <2>8. UNCHANGED <<mode, parent, frozen, placed, output, skipped, log, sub, acted>>
      BY <1>3 DEF Kill, decisions
    <2> QED BY ONLY <1>3, <2>4, <2>5, <2>6, <2>7, <2>8, TypeOK DEF TypeOK
  <1>4. CASE Die(r)
    <2>1. faults' \in Nat BY <1>4 DEF Die, Fault
    <2>2. Kill(r) BY <1>4 DEF Die
    <2> QED BY <1>3, <2>1, <2>2
  <1>5. CASE Exit(r)
    <2>1. Kill(r) /\ UNCHANGED faults BY <1>5 DEF Exit
    <2>2. faults' \in Nat BY <2>1 DEF TypeOK
    <2> QED BY <1>3, <2>1, <2>2
  <1>6. CASE \E s \in Steps : HandlerStep(r, s) \/ FrozenStep(r, s)
    <2> PICK s \in Steps : HandlerStep(r, s) \/ FrozenStep(r, s) BY <1>6
    <2> USE DEF decisions, level, stream, results
    <2>1. CASE PassFrozen(r, s) BY <2>1 DEF PassFrozen
    <2>2. CASE SkipStep(r, s)
      <3>1. Skip(s) \in Entry BY DEF Skip, Entry, Kinds
      <3>2. log' \in [Runs -> Seq(Entry)] /\ faults' \in Nat BY <2>2, <3>1, EmitType DEF SkipStep
      <3>3. /\ skipped' = [skipped EXCEPT ![r] = @ \cup {s}]
            /\ todo' = [todo EXCEPT ![r] = @ \ {s}]
            /\ UNCHANGED <<decisions, pc, placed, joining, task, output, overall, halt, pending, sub,
                           acted, session>>
        BY <2>2 DEF SkipStep
      <3> QED BY <3>2, <3>3
    <2>3. CASE WhenFails(r, s) BY <2>3 DEF WhenFails
    <2>4. CASE Spawn(r, s) BY <2>4 DEF Spawn
    <2>5. CASE JoinResult(r, s)
      <3>1. output' \in [Runs -> [Steps -> SUBSET (Runs \cup {Raw})]]
        <4>1. output' = [output EXCEPT ![r][s] = {r}] BY <2>5 DEF JoinResult
        <4> QED BY <4>1
      <3>2. overall' \in [Runs -> BOOLEAN] /\ halt' \in [Runs -> BOOLEAN]
        <4>1. /\ overall' = [overall EXCEPT ![r] = @ /\ task[r][s] = "ok"]
              /\ halt' = [halt EXCEPT ![r] = @ \/ (task[r][s] = "failed" /\ Kind[s] = "tool")]
          BY <2>5 DEF JoinResult
        <4>2. overall[r] \in BOOLEAN /\ halt[r] \in BOOLEAN OBVIOUS
        <4> QED BY <4>1, <4>2
      <3>3. /\ joining' = [joining EXCEPT ![r] = @ \ {s}]
            /\ UNCHANGED <<decisions, pc, placed, todo, task, skipped, pending, stream, sub, acted, session>>
        BY <2>5 DEF JoinResult
      <3> QED BY <3>1, <3>2, <3>3
    <2>6. CASE JoinError(r, s)
      <3>1. NodeCompleted(s, FALSE) \in Entry BY DEF NodeCompleted, Entry, Kinds
      <3>2. log' \in [Runs -> Seq(Entry)] /\ faults' \in Nat 
        <4> HIDE DEF TypeOK, Modes, Alive, Over, Event
        <4> QED BY <2>6, <3>1, EmitType DEF JoinError
      <3> QED BY <2>6, <3>2 DEF JoinError
    <2>7. CASE ReplayFrozen(r, s)
      <3> DEFINE es == <<NodeStarted(s), NodeCompleted(s, TRUE)>>
      <3>1. es \in Seq(Entry) BY DEF NodeStarted, NodeCompleted, Entry, Kinds
      <3>2. log' = [log EXCEPT ![r] = @ \o es] /\ log[r] \in Seq(Entry) BY <2>7 DEF ReplayFrozen
      <3> HIDE DEF es
      <3>3. log[r] \o es \in Seq(Entry) BY <3>1, <3>2, ConcatProperties
      <3>4. log' \in [Runs -> Seq(Entry)] BY <3>2, <3>3
      <3>5. sub[parent[r]][s] \in SUBSET (Runs \cup {Raw}) OBVIOUS
      <3> QED BY <2>7, <3>4, <3>5 DEF ReplayFrozen
    <2> QED BY <2>1, <2>2, <2>3, <2>4, <2>5, <2>6, <2>7 DEF HandlerStep, FrozenStep
  <1>7. CASE \E s \in Steps : Task(r, s)
    <2> PICK s \in Steps : Task(r, s) BY <1>7
    <2> USE DEF handler, decisions, level, stream, results
    <2>1. CASE StepStarts(r, s)
      <3>1. NodeStarted(s) \in Entry BY DEF NodeStarted, Entry, Kinds
      <3>2. log' \in [Runs -> Seq(Entry)] /\ faults' \in Nat BY <2>1, <3>1, EmitType DEF StepStarts
      <3> QED BY <2>1, <3>2 DEF StepStarts
    <2>2. CASE ExecuteTool(r, s)
      <3>1. acted' \in [Runs -> SUBSET Steps] BY <2>2 DEF ExecuteTool
      <3>2. session' \in [Runs -> BOOLEAN]
        <4>1. session' = [session EXCEPT ![r] = @ \/ s \in Shell] /\ session[r] \in BOOLEAN
          BY <2>2 DEF ExecuteTool
        <4> QED BY <4>1
      <3>3. sub' \in [Runs -> [Steps -> SUBSET (Runs \cup {Raw})]] /\ faults' \in Nat
        <4>1. Record(r, s) \/ UNCHANGED <<sub, faults>> BY <2>2 DEF ExecuteTool
        <4> QED BY <4>1, RecordType
      <3>4. task' = [task EXCEPT ![r][s] = "acted"] \/ UNCHANGED task BY <2>2 DEF ExecuteTool
      <3>a. [task EXCEPT ![r][s] = "acted"] \in [Runs -> [Steps -> {"none", "killed"} \cup Alive \cup Over]]
        OBVIOUS
      <3>5. task' \in [Runs -> [Steps -> {"none", "killed"} \cup Alive \cup Over]] BY <3>4, <3>a
      <3>6. UNCHANGED <<handler, log>> BY <2>2 DEF ExecuteTool
      <3> QED BY <3>1, <3>2, <3>3, <3>5, <3>6
    <2>3. CASE RefuseCall(r, s)
      <3>1. sub' \in [Runs -> [Steps -> SUBSET (Runs \cup {Raw})]] /\ faults' \in Nat
        BY <2>3, RecordType DEF RefuseCall
      <3> QED BY <2>3, <3>1 DEF RefuseCall
    <2>4. CASE ToolReturns(r, s)
      <3>1. PICK ok \in BOOLEAN : Conclude(r, s, ok) /\ Return(r, s, ok) BY <2>4 DEF ToolReturns
      <3> QED BY <2>4, <3>1, ConcludeType DEF ToolReturns
    <2>5. CASE AskReturns(r, s)
      <3>1. PICK ok \in BOOLEAN : Emit(r, NodeCompleted(s, ok)) /\ Return(r, s, ok) BY <2>5 DEF AskReturns
      <3>2. NodeCompleted(s, ok) \in Entry BY DEF NodeCompleted, Entry, Kinds
      <3>3. log' \in [Runs -> Seq(Entry)] /\ faults' \in Nat BY <3>1, <3>2, EmitType
      <3>4. task' \in [Runs -> [Steps -> {"none", "killed"} \cup Alive \cup Over]] BY <3>1 DEF Return
      <3> QED BY <2>5, <3>3, <3>4 DEF AskReturns
    <2>6. CASE AgentAnswers(r, s)
      <3>1. Conclude(r, s, TRUE) /\ Return(r, s, TRUE) BY <2>6 DEF AgentAnswers
      <3> QED BY <2>6, <3>1, ConcludeType DEF AgentAnswers
    <2>7. CASE AgentGivesUp(r, s) BY <2>7 DEF AgentGivesUp, Return
    <2>8. CASE TaskErrs(r, s) 
      <3>1. sub' = [sub EXCEPT ![r][s] = {Raw}] \/ UNCHANGED sub BY <2>8 DEF TaskErrs
      <3>a. [sub EXCEPT ![r][s] = {Raw}] \in [Runs -> [Steps -> SUBSET (Runs \cup {Raw})]] OBVIOUS
      <3>2. sub' \in [Runs -> [Steps -> SUBSET (Runs \cup {Raw})]] BY <3>1, <3>a
      <3>3. task' = [task EXCEPT ![r][s] = "error"] /\ UNCHANGED <<handler, stream, acted, session>>
        BY <2>8 DEF TaskErrs
      <3>4. task' \in [Runs -> [Steps -> {"none", "killed"} \cup Alive \cup Over]] BY <3>3
      <3> QED BY <3>2, <3>3, <3>4
    <2> QED BY <2>1, <2>2, <2>3, <2>4, <2>5, <2>6, <2>7, <2>8 DEF Task
  <1>8. CASE \E q \in Runs, f \in Steps : Fork(r, q, f)
    <2> PICK q \in Runs, f \in Steps : Fork(r, q, f) BY <1>8
    <2> DEFINE D == Dependents(f)
               es == <<OfRun("requested", TRUE), OfRun("forked", TRUE), OfRun("started", TRUE)>>
               o  == [s \in Steps |-> IF s \in Dependents(f) THEN {} ELSE sub[q][s]]
    <2>1. es \in Seq(Entry) BY DEF OfRun, Entry, Kinds
    <2>2. o \in [Steps -> SUBSET (Runs \cup {Raw})] OBVIOUS
    <2>3. /\ log' = [log EXCEPT ![r] = es] /\ output' = [output EXCEPT ![r] = o]
          /\ frozen' = [frozen EXCEPT ![r] = Steps \ D] /\ todo' = [todo EXCEPT ![r] = Steps \ D]
          /\ mode' = [mode EXCEPT ![r] = "resume"] /\ parent' = [parent EXCEPT ![r] = q]
          /\ pc' = [pc EXCEPT ![r] = "bootstrap"]
          /\ UNCHANGED <<placed, joining, task, skipped, overall, halt, pending, sub, acted, session, faults>>
      BY DEF Fork
    <2> HIDE DEF es, o, D
    <2> QED BY <2>1, <2>2, <2>3
  <1> QED BY <1>1, <1>2, <1>4, <1>5, <1>6, <1>7, <1>8

(* Every variable of the pipeline handler, its tasks and its resumes keeps its type. *)
THEOREM TypeCorrect == Spec => []TypeOK
  <1>1. Init => TypeOK
    BY PipelineAssumption, EmptySeq DEF Init, TypeOK, Modes, Alive, Over
  <1>2. TypeOK /\ [Next]_vars => TypeOK' BY TypeStep
  <1> QED BY <1>1, <1>2, PTL DEF Spec

------------------------------------------------------------------------------
(* The walk over the levels *)

(* What a step does not change of another run. *)
Same(q) ==
    /\ pc'[q] = pc[q] /\ parent'[q] = parent[q] /\ frozen'[q] = frozen[q] /\ placed'[q] = placed[q]
    /\ todo'[q] = todo[q] /\ joining'[q] = joining[q] /\ task'[q] = task[q]
    /\ output'[q] = output[q] /\ skipped'[q] = skipped[q] /\ halt'[q] = halt[q]
    /\ log'[q] = log[q] /\ sub'[q] = sub[q] /\ acted'[q] = acted[q] /\ mode'[q] = mode[q]

LEMMA Frame ==
  ASSUME NEW q \in Runs, Local(q), Same(q)
  PROVE  Local(q)'
  <1> USE DEF Same
  <1>1. Started(q)' BY DEF Local, Started, Early
  <1>2. LevelInv(q)' BY DEF Local, LevelInv, Level, LevelAfter, Settled
  <1>3. Spawned(q)' BY DEF Local, Spawned
  <1>4. PlacedDone(q)' BY DEF Local, PlacedDone
  <1>5. Kept(q)' BY DEF Local, Kept
  <1> QED BY <1>1, <1>2, <1>3, <1>4, <1>5 DEF Local

LEMMA EmitSame ==
  ASSUME TypeOK, NEW r \in Runs, NEW e, Emit(r, e), NEW q \in Runs, q # r
  PROVE  log'[q] = log[q]
  <1>1. log \in [Runs -> Seq(Entry)] BY DEF TypeOK
  <1> QED BY <1>1 DEF Emit

(* What all steps of a task have in common. *)
LEMMA TaskFacts ==
  ASSUME TypeOK, NEW r \in Runs, NEW s \in Steps, Task(r, s)
  PROVE  /\ task[r][s] \in Alive
         /\ \E v \in Alive \cup Over : task' = [task EXCEPT ![r][s] = v]
         /\ UNCHANGED handler
         /\ \A q \in Runs : q # r => log'[q] = log[q] /\ sub'[q] = sub[q] /\ acted'[q] = acted[q]
         /\ \A t \in Steps : t # s => sub'[r][t] = sub[r][t]
  <1> DEFINE Others == \A q \in Runs : q # r => log'[q] = log[q] /\ sub'[q] = sub[q] /\ acted'[q] = acted[q]
             OtherSteps == \A t \in Steps : t # s => sub'[r][t] = sub[r][t]
             Moves == \E v \in Alive \cup Over : task' = [task EXCEPT ![r][s] = v]
  <1>1. /\ log \in [Runs -> Seq(Entry)]
        /\ sub \in [Runs -> [Steps -> SUBSET (Runs \cup {Raw})]]
        /\ acted \in [Runs -> SUBSET Steps]
        /\ task \in [Runs -> [Steps -> {"none", "killed"} \cup Alive \cup Over]]
    BY DEF TypeOK
  <1>2. task = [task EXCEPT ![r][s] = task[r][s]] BY <1>1
  <1>3. ASSUME NEW v \in Alive \cup Over, task' = [task EXCEPT ![r][s] = v] PROVE Moves BY <1>3
  <1>4. ASSUME NEW v, sub' = [sub EXCEPT ![r][s] = v]
        PROVE OtherSteps /\ \A q \in Runs : q # r => sub'[q] = sub[q]
    BY <1>1, <1>4
  <1>5. ASSUME NEW v, acted' = [acted EXCEPT ![r] = v] PROVE \A q \in Runs : q # r => acted'[q] = acted[q]
    BY <1>1, <1>5
  <1>6. ASSUME UNCHANGED sub PROVE OtherSteps /\ \A q \in Runs : q # r => sub'[q] = sub[q] BY <1>6
  <1>7. ASSUME NEW e, \/ log' = [log EXCEPT ![r] = Append(@, e)] \/ UNCHANGED log
        PROVE \A q \in Runs : q # r => log'[q] = log[q]
    BY <1>1, <1>7
  <1>8. ASSUME Record(r, s) PROVE OtherSteps /\ \A q \in Runs : q # r => sub'[q] = sub[q]
    <2>1. sub' = [sub EXCEPT ![r][s] = {Raw}] \/ UNCHANGED sub BY <1>8 DEF Record
    <2> HIDE DEF OtherSteps
    <2> QED BY <2>1, <1>4, <1>6
  <1>9. ASSUME NEW ok \in BOOLEAN, Conclude(r, s, ok), Return(r, s, ok)
        PROVE OtherSteps /\ Moves /\ \A q \in Runs : q # r => log'[q] = log[q] /\ sub'[q] = sub[q]
    <2>1. sub' = [sub EXCEPT ![r][s] = {r}] \/ UNCHANGED sub BY <1>9 DEF Conclude
    <2>2. log' = [log EXCEPT ![r] = Append(@, NodeCompleted(s, ok))] \/ UNCHANGED log BY <1>9 DEF Conclude
    <2>3. \E v \in {"ok", "failed"} : task' = [task EXCEPT ![r][s] = v] BY <1>9 DEF Return
    <2>4. {"ok", "failed"} \subseteq Alive \cup Over BY DEF Over
    <2> HIDE DEF OtherSteps
    <2> QED BY <2>1, <2>2, <2>3, <2>4, <1>4, <1>6, <1>7
  <1>10. ASSUME UNCHANGED acted PROVE \A q \in Runs : q # r => acted'[q] = acted[q] BY <1>10
  <1> HIDE DEF OtherSteps, Moves
  <1>a. CASE StepStarts(r, s)
    <2>1. task[r][s] \in Alive /\ "running" \in Alive /\ task' = [task EXCEPT ![r][s] = "running"]
          /\ UNCHANGED <<handler, sub, acted, session>> /\ Emit(r, NodeStarted(s))
      BY <1>a DEF StepStarts, Alive
    <2> QED BY <2>1, <1>3, <1>6, <1>7, <1>10 DEF Emit, Moves, OtherSteps
  <1>b. CASE ExecuteTool(r, s)
    <2>1. /\ task[r][s] = "running" /\ UNCHANGED <<handler, log>>
          /\ acted' = [acted EXCEPT ![r] = acted[r] \cup {s}]
          /\ \/ task' = [task EXCEPT ![r][s] = "acted"] /\ UNCHANGED sub
             \/ Record(r, s) /\ UNCHANGED task
      BY <1>b DEF ExecuteTool
    <2>2. {"acted", "running"} \subseteq Alive \cup Over /\ "running" \in Alive BY DEF Alive
    <2>3. Moves BY <2>1, <2>2, <1>2, <1>3
    <2>4. OtherSteps /\ \A q \in Runs : q # r => sub'[q] = sub[q] BY <2>1, <1>6, <1>8
    <2> QED BY <2>1, <2>2, <2>3, <2>4, <1>5 DEF Moves, OtherSteps
  <1>c. CASE RefuseCall(r, s)
    <2>1. task[r][s] = "running" /\ Record(r, s) /\ UNCHANGED <<handler, task, log, acted, session>>
      BY <1>c DEF RefuseCall
    <2>2. "running" \in Alive /\ "running" \in Alive \cup Over BY DEF Alive
    <2>3. Moves BY <2>1, <2>2, <1>2, <1>3
    <2> QED BY <2>1, <2>2, <2>3, <1>8 DEF Moves, OtherSteps
  <1>d. CASE ToolReturns(r, s)
    <2>1. PICK ok \in BOOLEAN : Conclude(r, s, ok) /\ Return(r, s, ok) /\ task[r][s] \in {"acted", "running"}
      BY <1>d DEF ToolReturns
    <2>2. UNCHANGED <<handler, acted, session>> /\ {"acted", "running"} \subseteq Alive
      BY <1>d DEF ToolReturns, Alive
    <2> QED BY <2>1, <2>2, <1>9, <1>10 DEF Moves, OtherSteps
  <1>e. CASE AskReturns(r, s)
    <2>1. PICK ok \in BOOLEAN : Emit(r, NodeCompleted(s, ok)) /\ Return(r, s, ok) BY <1>e DEF AskReturns
    <2>2. task[r][s] \in Alive /\ UNCHANGED <<handler, sub, acted, session>> BY <1>e DEF AskReturns, Alive
    <2>3. \E v \in {"ok", "failed"} : task' = [task EXCEPT ![r][s] = v] BY <2>1 DEF Return
    <2>4. {"ok", "failed"} \subseteq Alive \cup Over BY DEF Over
    <2> QED BY <2>1, <2>2, <2>3, <2>4, <1>6, <1>7, <1>10 DEF Emit, Moves, OtherSteps
  <1>f. CASE AgentAnswers(r, s)
    <2>1. task[r][s] \in Alive /\ Conclude(r, s, TRUE) /\ Return(r, s, TRUE) /\ UNCHANGED <<handler, acted, session>>
      BY <1>f DEF AgentAnswers, Alive
    <2> QED BY <2>1, <1>9, <1>10 DEF Moves, OtherSteps
  <1>g. CASE AgentGivesUp(r, s)
    <2>1. task[r][s] \in Alive /\ task' = [task EXCEPT ![r][s] = "failed"] /\ "failed" \in Over
          /\ UNCHANGED <<handler, stream, sub, acted, session>>
      BY <1>g DEF AgentGivesUp, Alive, Over, Return
    <2> QED BY <2>1, <1>3, <1>6, <1>10 DEF Moves, OtherSteps, stream
  <1>h. CASE TaskErrs(r, s)
    <2>1. task[r][s] \in Alive /\ task' = [task EXCEPT ![r][s] = "error"] /\ "error" \in Over
          /\ UNCHANGED <<handler, stream, acted, session>>
      BY <1>h DEF TaskErrs, Alive, Over
    <2>2. sub' = [sub EXCEPT ![r][s] = {Raw}] \/ UNCHANGED sub BY <1>h DEF TaskErrs
    <2> QED BY <2>1, <2>2, <1>3, <1>4, <1>6, <1>10 DEF Moves, OtherSteps, stream
  <1> QED BY <1>a, <1>b, <1>c, <1>d, <1>e, <1>f, <1>g, <1>h DEF Task

LEMMA LocalTask ==
  ASSUME TypeOK, LocalInv, NEW r \in Runs, NEW s \in Steps, Task(r, s)
  PROVE  LocalInv'
  <1>1. PICK v \in Alive \cup Over : task' = [task EXCEPT ![r][s] = v] BY TaskFacts
  <1>2. task \in [Runs -> [Steps -> {"none", "killed"} \cup Alive \cup Over]] BY DEF TypeOK
  <1>3. /\ \A q \in Runs : q # r => task'[q] = task[q]
        /\ task'[r][s] = v /\ v # "none"
        /\ \A t \in Steps : t # s => task'[r][t] = task[r][t]
    BY <1>1, <1>2 DEF Alive, Over
  <1>4. task[r][s] \in Alive /\ UNCHANGED handler
        /\ \A q \in Runs : q # r => log'[q] = log[q] /\ sub'[q] = sub[q] /\ acted'[q] = acted[q]
    BY TaskFacts
  <1>5. \A q \in Runs : q # r => Same(q) BY <1>3, <1>4 DEF Same, handler, decisions, level, results
  <1>6. \A q \in Runs : q # r => Local(q)' BY <1>5, Frame DEF LocalInv
  <1>7. /\ pc' = pc /\ parent' = parent /\ frozen' = frozen /\ placed' = placed /\ todo' = todo
        /\ joining' = joining /\ output' = output /\ skipped' = skipped /\ halt' = halt
    BY <1>4 DEF handler, decisions, level, results
  <1>8. Local(r) BY DEF LocalInv
  <1>9. Started(r)' BY <1>4, <1>7, <1>8 DEF Local, Started, Early, Alive
  <1>10. LevelInv(r)' BY <1>3, <1>4, <1>7, <1>8 DEF Local, LevelInv, Level, LevelAfter, Settled, Alive
  <1>t. placed[r] \subseteq Steps /\ joining[r] \subseteq Steps BY DEF TypeOK
  <1>11. Spawned(r)' BY <1>3, <1>4, <1>7, <1>8, <1>t DEF Local, Spawned, Alive
  <1>12. PlacedDone(r)' BY <1>3, <1>4, <1>7, <1>8, <1>t DEF Local, PlacedDone, Alive
  <1>13. Kept(r)' BY <1>7, <1>8 DEF Local, Kept
  <1> QED BY <1>6, <1>9, <1>10, <1>11, <1>12, <1>13 DEF LocalInv, Local

(* Of some numbers one is the first, and steps are numbers. *)
LEMMA FirstOf ==
  ASSUME NEW S \in SUBSET Nat, S # {}
  PROVE  First(S) \in S
  <1> DEFINE R == OpToRel(<, Nat)
  <1>1. IsWellFoundedOn(R, Nat) BY NatLessThanWellFounded
  <1>2. \A x, y \in Nat : <<x, y>> \in R <=> x < y BY DEF OpToRel
  <1> HIDE DEF R
  <1>3. PICK m \in S : \A y \in S : ~(<<y, m>> \in R) BY <1>1, WFMin
  <1>4. ASSUME NEW k \in S PROVE m <= k
    <2>1. k \in Nat /\ m \in Nat OBVIOUS
    <2>2. ~(k < m) BY <1>2, <1>3, <2>1
    <2> QED BY <2>1, <2>2
  <1> QED BY <1>4 DEF First

LEMMA FirstIn ==
  ASSUME NEW S \in SUBSET Steps, S # {}
  PROVE  First(S) \in S
  <1>1. S \in SUBSET Nat BY PipelineAssumption
  <1> QED BY <1>1, FirstOf

(* A step of the handler about one step of the pipeline. *)
LEMMA LocalHandlerStep ==
  ASSUME TypeOK, LocalInv, NEW r \in Runs, NEW s \in Steps, HandlerStep(r, s) \/ FrozenStep(r, s)
  PROVE  LocalInv'
  <1>1. Local(r) /\ \A q \in Runs : Local(q) BY DEF LocalInv
  <1>2. /\ todo \in [Runs -> SUBSET Steps] /\ joining \in [Runs -> SUBSET Steps]
        /\ skipped \in [Runs -> SUBSET Steps] /\ placed[r] \subseteq Steps
        /\ pc \in [Runs -> {"unused", "requested", "bootstrap", "dispatch", "join", "resolve",
                        "sealing", "ok", "err", "completing", "closed", "dead"}]
        /\ task \in [Runs -> [Steps -> {"none", "killed"} \cup Alive \cup Over]]
        /\ output \in [Runs -> [Steps -> SUBSET (Runs \cup {Raw})]]
        /\ halt \in [Runs -> BOOLEAN] /\ frozen[r] \subseteq Steps
        /\ log \in [Runs -> Seq(Entry)] /\ sub \in [Runs -> [Steps -> SUBSET (Runs \cup {Raw})]]
    BY DEF TypeOK
  <1>3. Considers(r, s) => pc[r] = "dispatch" /\ s \in todo[r]
    <2>1. todo[r] \in SUBSET Steps BY <1>2
    <2> QED BY <2>1, FirstIn DEF Considers
  <1>4. Joins(r, s) => pc[r] = "join" /\ s \in joining[r]
    <2>1. joining[r] \in SUBSET Steps BY <1>2
    <2> QED BY <2>1, FirstIn DEF Joins
  <1>5. ASSUME \A q \in Runs : q # r => Same(q), Local(r)' PROVE LocalInv'
    BY <1>1, <1>5, Frame DEF LocalInv
  <1> USE DEF decisions, level, stream, results
  <1>a. CASE PassFrozen(r, s)
    <2>1. /\ pc[r] = "dispatch" /\ s \in frozen[r] /\ todo' = [todo EXCEPT ![r] = @ \ {s}]
          /\ UNCHANGED <<decisions, pc, placed, joining, task, results, pending, stream, sub, acted, session>>
      BY <1>a, <1>3 DEF PassFrozen
    <2>2. todo'[r] = todo[r] \ {s} /\ \A q \in Runs : q # r => todo'[q] = todo[q] BY <1>2, <2>1
    <2>3. \A q \in Runs : q # r => Same(q) BY <2>1, <2>2 DEF Same
    <2>4. Started(r)' BY <1>1, <2>1 DEF Local, Started, Early
    <2>5. LevelInv(r)' BY <1>1, <2>1, <2>2 DEF Local, LevelInv, Level, LevelAfter, Settled
    <2>6. Spawned(r)' /\ PlacedDone(r)' /\ Kept(r)' BY <1>1, <2>1 DEF Local, Spawned, PlacedDone, Kept
    <2> QED BY <1>5, <2>3, <2>4, <2>5, <2>6 DEF Local
  <1>b. CASE SkipStep(r, s)
    <2>1. /\ pc[r] = "dispatch" /\ s \in todo[r] /\ s \notin frozen[r]
          /\ todo' = [todo EXCEPT ![r] = @ \ {s}] /\ skipped' = [skipped EXCEPT ![r] = @ \cup {s}]
          /\ Emit(r, Skip(s))
          /\ UNCHANGED <<decisions, pc, placed, joining, task, output, overall, halt, pending, sub, acted, session>>
      BY <1>b, <1>3 DEF SkipStep
    <2>2. /\ todo'[r] = todo[r] \ {s} /\ skipped'[r] = skipped[r] \cup {s}
          /\ \A q \in Runs : q # r => todo'[q] = todo[q] /\ skipped'[q] = skipped[q]
      BY <1>2, <2>1
    <2>3. \A q \in Runs : q # r => log'[q] = log[q] BY <2>1, EmitSame
    <2>4. \A q \in Runs : q # r => Same(q) BY <2>1, <2>2, <2>3 DEF Same
    <2>5. Started(r)' BY <1>1, <2>1 DEF Local, Started, Early
    <2>6. s \in Level(r) /\ task[r][s] = "none" /\ s \notin placed[r]
      BY <1>1, <2>1 DEF Local, LevelInv, Level, LevelAfter
    <2>7. LevelInv(r)' BY <1>1, <2>1, <2>2, <2>6 DEF Local, LevelInv, Level, LevelAfter, Settled
    <2>8. Spawned(r)' BY <1>1, <2>1, <2>2, <2>6 DEF Local, Spawned
    <2>9. PlacedDone(r)' /\ Kept(r)' BY <1>1, <2>1, <2>2 DEF Local, PlacedDone, Kept
    <2> QED BY <1>5, <2>4, <2>5, <2>7, <2>8, <2>9 DEF Local
  <1>c. CASE WhenFails(r, s)
    <2>1. /\ pc[r] = "dispatch" /\ pc' = [pc EXCEPT ![r] = "err"]
          /\ UNCHANGED <<decisions, level, task, results, pending, stream, sub, acted, session>>
      BY <1>c, <1>3 DEF WhenFails
    <2>2. pc'[r] = "err" /\ \A q \in Runs : q # r => pc'[q] = pc[q] BY <1>2, <2>1
    <2>3. \A q \in Runs : q # r => Same(q) BY <2>1, <2>2 DEF Same
    <2>4. Started(r)' /\ LevelInv(r)' BY <2>2 DEF Started, LevelInv, Early
    <2>5. Spawned(r)' /\ PlacedDone(r)' /\ Kept(r)' BY <1>1, <2>1 DEF Local, Spawned, PlacedDone, Kept
    <2> QED BY <1>5, <2>3, <2>4, <2>5 DEF Local
  <1>d. CASE Spawn(r, s)
    <2>1. /\ pc[r] = "dispatch" /\ s \in todo[r] /\ s \notin frozen[r] /\ DependsOn[s] \cap skipped[r] = {}
          /\ task' = [task EXCEPT ![r][s] = "spawned"] /\ todo' = [todo EXCEPT ![r] = @ \ {s}]
          /\ joining' = [joining EXCEPT ![r] = @ \cup {s}]
          /\ UNCHANGED <<decisions, pc, placed, results, pending, stream, sub, acted, session>>
      BY <1>d, <1>3 DEF Spawn, Poisoned
    <2>2. /\ todo'[r] = todo[r] \ {s} /\ joining'[r] = joining[r] \cup {s} /\ task'[r][s] = "spawned"
          /\ \A t \in Steps : t # s => task'[r][t] = task[r][t]
          /\ \A q \in Runs : q # r => todo'[q] = todo[q] /\ joining'[q] = joining[q] /\ task'[q] = task[q]
      BY <1>2, <2>1
    <2>3. \A q \in Runs : q # r => Same(q) BY <2>1, <2>2 DEF Same
    <2>4. Started(r)' BY <1>1, <2>1 DEF Local, Started, Early
    <2>5. /\ s \in Level(r) /\ s \notin placed[r] /\ s \notin skipped[r] /\ DependsOn[s] \subseteq placed[r]
          /\ task[r][s] = "none"
      BY <1>1, <2>1 DEF Local, LevelInv, Level, LevelAfter
    <2>6. LevelInv(r)'
      <3>1. Level(r)' = Level(r) /\ Level(r) \subseteq Steps BY <2>1 DEF Level, LevelAfter
      <3>2. \A t \in Steps : Settled(r, t) => Settled(r, t)' BY <2>1, <2>2, <2>5 DEF Settled
      <3>3. todo[r] \subseteq Steps BY <1>2
      <3> QED BY <1>1, <2>1, <2>2, <2>5, <3>1, <3>2, <3>3 DEF Local, LevelInv
    <2>7. Spawned(r)' BY <1>1, <1>2, <2>1, <2>2, <2>5 DEF Local, Spawned
    <2>8. PlacedDone(r)' /\ Kept(r)' BY <1>1, <1>2, <2>1, <2>2, <2>5 DEF Local, PlacedDone, Kept
    <2> QED BY <1>5, <2>3, <2>4, <2>6, <2>7, <2>8 DEF Local
  <1>e. CASE JoinResult(r, s)
    <2>1. /\ pc[r] = "join" /\ s \in joining[r] /\ task[r][s] \in {"ok", "failed"}
          /\ output' = [output EXCEPT ![r][s] = {r}]
          /\ halt' = [halt EXCEPT ![r] = @ \/ (task[r][s] = "failed" /\ Kind[s] = "tool")]
          /\ joining' = [joining EXCEPT ![r] = @ \ {s}]
          /\ UNCHANGED <<decisions, pc, placed, todo, task, skipped, pending, stream, sub, acted, session>>
      BY <1>e, <1>4 DEF JoinResult
    <2>2. /\ output'[r][s] = {r} /\ joining'[r] = joining[r] \ {s}
          /\ \A t \in Steps : t # s => output'[r][t] = output[r][t]
          /\ \A q \in Runs : q # r => output'[q] = output[q] /\ joining'[q] = joining[q]
      BY <1>2, <2>1
    <2>3. /\ halt'[r] = (halt[r] \/ (task[r][s] = "failed" /\ Kind[s] = "tool"))
          /\ \A q \in Runs : q # r => halt'[q] = halt[q]
      BY <1>2, <2>1
    <2>4. \A q \in Runs : q # r => Same(q) BY <2>1, <2>2, <2>3 DEF Same
    <2>5. Started(r)' BY <2>1 DEF Started, Early
    <2>6. LevelInv(r)'
      <3>1. Level(r)' = Level(r) /\ Level(r) \subseteq Steps BY <2>1 DEF Level, LevelAfter
      <3>2. Settled(r, s)' BY <2>1, <2>2, <2>3 DEF Settled
      <3>3. \A t \in Steps : t # s /\ Settled(r, t) => Settled(r, t)' BY <2>1, <2>2, <2>3 DEF Settled
      <3> QED BY <1>1, <2>1, <2>2, <3>1, <3>2, <3>3 DEF Local, LevelInv
    <2>7. Spawned(r)' BY <1>1, <2>1, <2>2 DEF Local, Spawned
    <2>8. PlacedDone(r)' BY <1>1, <1>2, <2>1, <2>2 DEF Local, PlacedDone
    <2>9. Kept(r)' BY <1>1, <1>2, <2>1, <2>2 DEF Local, Kept, decisions
    <2> QED BY <1>5, <2>4, <2>5, <2>6, <2>7, <2>8, <2>9 DEF Local
  <1>f. CASE JoinError(r, s)
    <2>1. /\ pc[r] = "join" /\ s \in joining[r] /\ task[r][s] = "error"
          /\ halt' = [halt EXCEPT ![r] = TRUE] /\ Emit(r, NodeCompleted(s, FALSE))
          /\ joining' = [joining EXCEPT ![r] = @ \ {s}]
          /\ UNCHANGED <<decisions, pc, placed, todo, task, output, skipped, pending, sub, acted, session>>
      BY <1>f, <1>4 DEF JoinError
    <2>2. /\ halt'[r] = TRUE /\ joining'[r] = joining[r] \ {s}
          /\ \A q \in Runs : q # r => halt'[q] = halt[q] /\ joining'[q] = joining[q]
      BY <1>2, <2>1
    <2>3. \A q \in Runs : q # r => log'[q] = log[q] BY <2>1, EmitSame
    <2>4. \A q \in Runs : q # r => Same(q) BY <2>1, <2>2, <2>3 DEF Same
    <2>5. Started(r)' BY <2>1 DEF Started, Early
    <2>6. LevelInv(r)' BY <1>1, <2>1, <2>2 DEF Local, LevelInv, Level, LevelAfter, Settled
    <2>7. Spawned(r)' /\ PlacedDone(r)' /\ Kept(r)' BY <1>1, <2>1, <2>2 DEF Local, Spawned, PlacedDone, Kept
    <2> QED BY <1>5, <2>4, <2>5, <2>6, <2>7 DEF Local
  <1>g. CASE ReplayFrozen(r, s)
    <2>1. /\ pc[r] = "bootstrap" /\ todo' = [todo EXCEPT ![r] = @ \ {s}]
          /\ log' = [log EXCEPT ![r] = @ \o <<NodeStarted(s), NodeCompleted(s, TRUE)>>]
          /\ sub' = [sub EXCEPT ![r][s] = sub[parent[r]][s]]
          /\ UNCHANGED <<decisions, pc, placed, joining, task, results, pending, acted, session>>
      BY <1>g DEF ReplayFrozen
    <2>2. todo'[r] = todo[r] \ {s} /\ \A q \in Runs : q # r => todo'[q] = todo[q] BY <1>2, <2>1
    <2>3. \A q \in Runs : q # r => log'[q] = log[q] BY <1>2, <2>1
    <2>4. \A q \in Runs : q # r => sub'[q] = sub[q] BY <1>2, <2>1
    <2>5. \A q \in Runs : q # r => Same(q) BY <2>1, <2>2, <2>3, <2>4 DEF Same
    <2>6. Started(r)' BY <1>1, <2>1, <2>2 DEF Local, Started, Early
    <2>7. LevelInv(r)' BY <2>1 DEF LevelInv
    <2>8. Spawned(r)' /\ PlacedDone(r)' /\ Kept(r)' BY <1>1, <2>1 DEF Local, Spawned, PlacedDone, Kept
    <2> QED BY <1>5, <2>5, <2>6, <2>7, <2>8 DEF Local
  <1> QED BY <1>a, <1>b, <1>c, <1>d, <1>e, <1>f, <1>g DEF HandlerStep, FrozenStep

(* A step of the handler about the run. *)
LEMMA LocalHandler ==
  ASSUME TypeOK, LocalInv, NEW r \in Runs, Handler(r) \/ Bootstrap(r)
  PROVE  LocalInv'
  <1>1. Local(r) /\ \A q \in Runs : Local(q) BY DEF LocalInv
  <1>2. /\ todo \in [Runs -> SUBSET Steps] /\ joining[r] \in SUBSET Steps
        /\ skipped[r] \in SUBSET Steps /\ placed \in [Runs -> SUBSET Steps]
        /\ pc \in [Runs -> {"unused", "requested", "bootstrap", "dispatch", "join", "resolve",
                        "sealing", "ok", "err", "completing", "closed", "dead"}]
        /\ task[r] \in [Steps -> {"none", "killed"} \cup Alive \cup Over]
        /\ halt \in [Runs -> BOOLEAN] /\ frozen[r] \subseteq Steps
        /\ log \in [Runs -> Seq(Entry)]
    BY DEF TypeOK
  <1>3. ASSUME \A q \in Runs : q # r => Same(q), Local(r)' PROVE LocalInv'
    BY <1>1, <1>3, Frame DEF LocalInv
  <1> USE DEF decisions, level, stream, results
  (* The level begins with what depends on earlier levels only. *)
  <1>4. ASSUME pc[r] \in {"requested", "bootstrap"},
               pc' = [pc EXCEPT ![r] = "dispatch"], todo' = [todo EXCEPT ![r] = Level(r)],
               UNCHANGED <<decisions, placed, joining, task, results, pending, sub, acted, session>>,
               \A q \in Runs : q # r => log'[q] = log[q]
        PROVE  LocalInv'
    <2>1. /\ todo'[r] = Level(r) /\ pc'[r] = "dispatch"
          /\ \A q \in Runs : q # r => todo'[q] = todo[q] /\ pc'[q] = pc[q]
      BY <1>2, <1>4
    <2>2. \A q \in Runs : q # r => Same(q) BY <1>4, <2>1 DEF Same
    <2>3. Started(r)' BY <2>1 DEF Started, Early
    <2>4. LevelInv(r)'
      <3>1. Level(r)' = Level(r) /\ Level(r) \subseteq Steps BY <1>4 DEF Level, LevelAfter
      <3> QED BY <1>1, <1>4, <2>1, <3>1 DEF Local, Started, LevelInv, Early
    <2>5. Spawned(r)' /\ PlacedDone(r)' /\ Kept(r)' BY <1>1, <1>4 DEF Local, Spawned, PlacedDone, Kept
    <2> QED BY <1>3, <2>2, <2>3, <2>4, <2>5 DEF Local
  (* A move to a place where no level is at work. *)
  <1>5. ASSUME NEW p \in {"resolve", "sealing", "ok", "err", "completing", "closed"},
               pc' = [pc EXCEPT ![r] = p],
               UNCHANGED <<decisions, level, task, output, skipped, log, sub, acted>>,
               \A q \in Runs : q # r => halt'[q] = halt[q]
        PROVE  LocalInv'
    <2>1. pc'[r] = p /\ \A q \in Runs : q # r => pc'[q] = pc[q] BY <1>2, <1>5
    <2>2. \A q \in Runs : q # r => Same(q) BY <1>5, <2>1 DEF Same
    <2>3. Started(r)' /\ LevelInv(r)' BY <2>1 DEF Started, LevelInv, Early
    <2>4. Spawned(r)' /\ PlacedDone(r)' /\ Kept(r)' BY <1>1, <1>5 DEF Local, Spawned, PlacedDone, Kept
    <2> QED BY <1>3, <2>2, <2>3, <2>4 DEF Local
  <1>a. CASE Begin(r)
    <2>1. \A q \in Runs : q # r => log'[q] = log[q] BY <1>a, EmitSame DEF Begin
    <2> QED BY <1>4, <1>a, <2>1 DEF Begin
  <1>b. CASE BootstrapDone(r)
    <2>1. \A q \in Runs : q # r => log'[q] = log[q] BY <1>b DEF BootstrapDone
    <2> QED BY <1>4, <1>b, <2>1 DEF BootstrapDone
  <1>c. CASE AllSpawned(r)
    <2>1. /\ pc[r] = "dispatch" /\ todo[r] = {} /\ pc' = [pc EXCEPT ![r] = "join"]
          /\ UNCHANGED <<decisions, level, task, results, pending, stream, sub, acted, session>>
      BY <1>c DEF AllSpawned
    <2>2. pc'[r] = "join" /\ \A q \in Runs : q # r => pc'[q] = pc[q] BY <1>2, <2>1
    <2>3. \A q \in Runs : q # r => Same(q) BY <2>1, <2>2 DEF Same
    <2>4. Started(r)' BY <2>2 DEF Started, Early
    <2>5. LevelInv(r)' BY <1>1, <2>1, <2>2 DEF Local, LevelInv, Level, LevelAfter, Settled
    <2>6. Spawned(r)' /\ PlacedDone(r)' /\ Kept(r)' BY <1>1, <2>1 DEF Local, Spawned, PlacedDone, Kept
    <2> QED BY <1>3, <2>3, <2>4, <2>5, <2>6 DEF Local
  <1>d. CASE NextLevel(r)
    <2>1. /\ pc[r] = "join" /\ joining[r] = {} /\ halt[r] = FALSE
          /\ UNCHANGED <<decisions, joining, task, results, pending, stream, sub, acted, session>>
      BY <1>d, <1>2 DEF NextLevel, Joined
    <2>2. PICK done \in {placed[r] \cup Level(r)} :
             /\ placed' = [placed EXCEPT ![r] = done]
             /\ todo' = [todo EXCEPT ![r] = LevelAfter(done)]
             /\ pc' = [pc EXCEPT ![r] = IF done = Steps THEN "resolve" ELSE "dispatch"]
      BY <1>d DEF NextLevel
    <2>3. /\ placed'[r] = placed[r] \cup Level(r) /\ todo'[r] = LevelAfter(placed[r] \cup Level(r))
          /\ pc'[r] \in {"resolve", "dispatch"}
          /\ \A q \in Runs : q # r => placed'[q] = placed[q] /\ todo'[q] = todo[q] /\ pc'[q] = pc[q]
      BY <1>2, <2>2
    <2>4. \A q \in Runs : q # r => Same(q) BY <2>1, <2>3 DEF Same
    <2>5. Started(r)' BY <2>3 DEF Started, Early
    <2>6. Level(r)' = todo'[r] /\ todo'[r] \subseteq Steps /\ Level(r) \subseteq Steps
          /\ todo'[r] \cap (placed[r] \cup Level(r)) = {}
      BY <2>3 DEF Level, LevelAfter
    <2>7. /\ todo[r] = {}
          /\ \A s \in Steps : task[r][s] # "none" \/ s \in skipped[r] => s \in placed[r] \cup Level(r)
          /\ \A s \in Level(r) : s \in frozen[r] \cup skipped[r] \/ Settled(r, s)
      BY <1>1, <2>1 DEF Local, LevelInv
    <2>8. LevelInv(r)' BY <2>1, <2>3, <2>6, <2>7 DEF LevelInv
    <2>9. PlacedDone(r)'
      <3>1. ASSUME NEW s \in Level(r)
            PROVE  /\ s \in skipped[r] \/ output[r][s] # {}
                   /\ task[r][s] \in {"none", "ok"} \/ (task[r][s] = "failed" /\ Kind[s] # "tool")
        <4>1. CASE s \in frozen[r] \cup skipped[r] BY <1>1, <2>6, <4>1 DEF Local, Spawned, Kept
        <4>2. CASE Settled(r, s) BY <2>1, <4>2 DEF Settled
        <4> QED BY <2>7, <4>1, <4>2
      <3> QED BY <1>1, <2>1, <2>3, <3>1 DEF Local, PlacedDone
    <2>10. Spawned(r)' /\ Kept(r)' BY <1>1, <2>1, <2>3 DEF Local, Spawned, Kept
    <2> QED BY <1>3, <2>4, <2>5, <2>8, <2>9, <2>10 DEF Local
  <1>e. CASE Break(r) BY <1>5, <1>e DEF Break
  <1>f. CASE Resolve(r)
    <2>1. /\ pc' = [pc EXCEPT ![r] = "sealing"] /\ halt' = [halt EXCEPT ![r] = @ \/ NoneLeft(r)]
          /\ UNCHANGED <<decisions, level, task, output, skipped, stream, sub, acted, session>>
      BY <1>f DEF Resolve
    <2>2. \A q \in Runs : q # r => halt'[q] = halt[q] BY <1>2, <2>1
    <2> QED BY <1>5, <2>1, <2>2
  <1>g. CASE EmitPending(r)
    <2>1. /\ pc[r] \in {"sealing", "completing"} /\ Emit(r, Head(pending[r]))
          /\ UNCHANGED <<decisions, pc, level, task, results, sub, acted, session>>
      BY <1>g DEF EmitPending
    <2>2. \A q \in Runs : q # r => log'[q] = log[q] BY <2>1, EmitSame
    <2>3. \A q \in Runs : q # r => Same(q) BY <2>1, <2>2 DEF Same
    <2>4. Started(r)' /\ LevelInv(r)' BY <2>1 DEF Started, LevelInv, Early
    <2>5. Spawned(r)' /\ PlacedDone(r)' /\ Kept(r)' BY <1>1, <2>1 DEF Local, Spawned, PlacedDone, Kept
    <2> QED BY <1>3, <2>3, <2>4, <2>5 DEF Local
  <1>h. CASE Finish(r)
    <2>1. \E p \in {"ok", "err"} : pc' = [pc EXCEPT ![r] = p] BY <1>h DEF Finish
    <2> QED BY <1>5, <1>h, <2>1 DEF Finish
  <1>i. CASE RouterCompletes(r) BY <1>5, <1>i DEF RouterCompletes
  <1>j. CASE RouterDone(r) BY <1>5, <1>j DEF RouterDone
  <1>k. CASE BootstrapFails(r)
    <2>1. /\ pc' = [pc EXCEPT ![r] = "err"]
          /\ UNCHANGED <<decisions, level, task, results, pending, sub, acted, session>> /\ UNCHANGED log
      BY <1>k DEF BootstrapFails
    <2> QED BY <1>5, <2>1
  <1> QED BY <1>a, <1>b, <1>c, <1>d, <1>e, <1>f, <1>g, <1>h, <1>i, <1>j, <1>k DEF Handler, Bootstrap

LEMMA LocalRequest ==
  ASSUME TypeOK, LocalInv, NEW r \in Runs, Request(r)
  PROVE  LocalInv'
  <1>1. /\ pc[r] = "unused" /\ pc' = [pc EXCEPT ![r] = "requested"]
        /\ UNCHANGED <<parent, frozen, level, task, results, pending, sub, acted, session>>
    BY DEF Request
  <1>2. pc'[r] = "requested" /\ \A q \in Runs : q # r => pc'[q] = pc[q] BY <1>1 DEF TypeOK
  <1>3. \E e : \/ log' = [log EXCEPT ![r] = Append(@, e)] \/ UNCHANGED log BY DEF Request, Emit
  <1>4. \A q \in Runs : q # r => log'[q] = log[q] BY <1>3 DEF TypeOK
  <1>5. \A q \in Runs : q # r => mode'[q] = mode[q] BY DEF Request, TypeOK
  <1>6. \A q \in Runs : q # r => Same(q) BY <1>1, <1>2, <1>4, <1>5 DEF Same, level, results
  <1>7. Local(r) BY DEF LocalInv
  <1>8. Started(r)' BY <1>1, <1>2, <1>7 DEF Local, Started, Early, level, results
  <1>9. LevelInv(r)' BY <1>2 DEF LevelInv
  <1>10. Spawned(r)' /\ PlacedDone(r)' /\ Kept(r)'
    BY <1>1, <1>7 DEF Local, Spawned, PlacedDone, Kept, level, results
  <1> QED BY <1>6, <1>8, <1>9, <1>10, Frame DEF LocalInv, Local

LEMMA LocalKill ==
  ASSUME TypeOK, LocalInv, NEW r \in Runs, Kill(r)
  PROVE  LocalInv'
  <1> DEFINE killed == [s \in Steps |-> IF task[r][s] \in Alive THEN "killed" ELSE task[r][s]]
  <1>1. /\ pc' = [pc EXCEPT ![r] = "dead"] /\ task' = [task EXCEPT ![r] = killed]
        /\ todo' = [todo EXCEPT ![r] = {}] /\ joining' = [joining EXCEPT ![r] = {}]
        /\ halt' = [halt EXCEPT ![r] = FALSE]
        /\ UNCHANGED <<decisions, placed, output, skipped, log, sub, acted>>
    BY DEF Kill
  <1>2. \A s \in Steps : /\ (killed[s] = "none" <=> task[r][s] = "none")
                          /\ (task[r][s] \in {"none", "ok", "failed"} => killed[s] = task[r][s])
    <2> SUFFICES ASSUME NEW s \in Steps
                 PROVE  /\ (killed[s] = "none" <=> task[r][s] = "none")
                        /\ (task[r][s] \in {"none", "ok", "failed"} => killed[s] = task[r][s])
      OBVIOUS
    <2>1. killed[s] = IF task[r][s] \in Alive THEN "killed" ELSE task[r][s] OBVIOUS
    <2> HIDE DEF killed
    <2> QED BY <2>1 DEF Alive
  <1> HIDE DEF killed
  <1>3. /\ pc'[r] = "dead" /\ joining'[r] = {} /\ task'[r] = killed
        /\ \A q \in Runs : q # r => /\ pc'[q] = pc[q] /\ task'[q] = task[q] /\ todo'[q] = todo[q]
                                    /\ joining'[q] = joining[q] /\ halt'[q] = halt[q]
    BY <1>1 DEF TypeOK
  <1>4. \A q \in Runs : q # r => Same(q) BY <1>1, <1>3 DEF Same, decisions
  <1>5. Local(r) /\ placed[r] \subseteq Steps BY DEF LocalInv, TypeOK
  <1>6. Started(r)' /\ LevelInv(r)' BY <1>3 DEF Started, LevelInv, Early
  <1>7. \A s \in Steps : /\ (task'[r][s] = "none" <=> task[r][s] = "none")
                          /\ (task[r][s] \in {"none", "ok", "failed"} => task'[r][s] = task[r][s])
    BY <1>2, <1>3
  <1>8. frozen' = frozen /\ placed' = placed /\ skipped' = skipped /\ output' = output BY <1>1 DEF decisions
  <1>9. Spawned(r)' BY <1>3, <1>5, <1>7, <1>8 DEF Local, Spawned
  <1>10. PlacedDone(r)' /\ Kept(r)' BY <1>5, <1>7, <1>8 DEF Local, PlacedDone, Kept
  <1> QED BY <1>4, <1>6, <1>9, <1>10, Frame DEF LocalInv, Local

(* What a fork r of q takes over. *)
TakenOver(r, q) ==
    \A s \in frozen'[r] :
        output'[r][s] = sub[q][s] /\ sub[q][s] # {} /\ Has(q, NodeCompleted(s, TRUE))

(* What a fork is given. *)
LEMMA ForkFacts ==
  ASSUME TypeOK, LocalInv, NEW r \in Runs, NEW q \in Runs, NEW f \in Steps, Fork(r, q, f)
  PROVE  /\ pc[r] = "unused" /\ pc'[r] = "bootstrap" /\ q # r /\ parent'[r] = q /\ mode'[r] = "resume"
         /\ frozen'[r] \subseteq Steps /\ todo'[r] = frozen'[r]
         /\ TakenOver(r, q)
         /\ log'[r] = <<OfRun("requested", TRUE), OfRun("forked", TRUE), OfRun("started", TRUE)>>
         /\ UNCHANGED <<placed, joining, task, skipped, halt, sub, acted, faults>>
         /\ \A p \in Runs : p # r => Same(p)
  <1> DEFINE D == Steps \ Dependents(f)
             o == [s \in Steps |-> IF s \in Dependents(f) THEN {} ELSE sub[q][s]]
             es == <<OfRun("requested", TRUE), OfRun("forked", TRUE), OfRun("started", TRUE)>>
  <1>1. /\ pc[r] = "unused" /\ q # r /\ Resumable(q, f)
        /\ mode' = [mode EXCEPT ![r] = "resume"] /\ parent' = [parent EXCEPT ![r] = q]
        /\ frozen' = [frozen EXCEPT ![r] = D] /\ todo' = [todo EXCEPT ![r] = D]
        /\ output' = [output EXCEPT ![r] = o] /\ log' = [log EXCEPT ![r] = es]
        /\ pc' = [pc EXCEPT ![r] = "bootstrap"]
        /\ UNCHANGED <<placed, joining, task, skipped, halt, sub, acted, faults>>
    BY DEF Fork
  <1>2. \A s \in D : o[s] = sub[q][s] /\ s \in Steps OBVIOUS
  <1>3. D \subseteq Completed(q) /\ \A s \in D : sub[q][s] # {} BY <1>1 DEF Resumable
  <1>4. \A s \in D : Has(q, NodeCompleted(s, TRUE)) BY <1>3 DEF Completed
  <1>d. D \subseteq Steps OBVIOUS
  <1> HIDE DEF D, o, es
  <1>5. /\ mode'[r] = "resume" /\ parent'[r] = q /\ frozen'[r] = D /\ todo'[r] = D
        /\ output'[r] = o /\ log'[r] = es /\ pc'[r] = "bootstrap"
    BY <1>1 DEF TypeOK
  <1>6. \A p \in Runs : p # r =>
          /\ mode'[p] = mode[p] /\ parent'[p] = parent[p] /\ frozen'[p] = frozen[p]
          /\ todo'[p] = todo[p] /\ output'[p] = output[p] /\ log'[p] = log[p] /\ pc'[p] = pc[p]
    BY <1>1 DEF TypeOK
  <1>7. \A p \in Runs : p # r => Same(p) BY <1>1, <1>6 DEF Same
  <1>8. TakenOver(r, q) BY <1>2, <1>3, <1>4, <1>5 DEF TakenOver
  <1> QED BY <1>1, <1>d, <1>5, <1>7, <1>8 DEF es

LEMMA LocalFork ==
  ASSUME TypeOK, LocalInv, NEW r \in Runs, NEW q \in Runs, NEW f \in Steps, Fork(r, q, f)
  PROVE  LocalInv'
  <1>a. pc[r] = "unused" /\ pc'[r] = "bootstrap" /\ todo'[r] = frozen'[r] /\ frozen'[r] \subseteq Steps
    BY ForkFacts
  <1>t. TakenOver(r, q) BY ForkFacts
  <1>b. \A s \in frozen'[r] : output'[r][s] = sub[q][s] /\ sub[q][s] # {} BY <1>t DEF TakenOver
  <1>c. UNCHANGED <<placed, joining, task, skipped, halt, sub, acted, faults>> BY ForkFacts
  <1>d. \A p \in Runs : p # r => Same(p) BY ForkFacts
  <1>1. /\ pc[r] = "unused" /\ pc'[r] = "bootstrap" /\ todo'[r] = frozen'[r] /\ frozen'[r] \subseteq Steps
        /\ \A s \in frozen'[r] : output'[r][s] = sub[q][s] /\ sub[q][s] # {}
        /\ UNCHANGED <<placed, joining, task, skipped, halt, sub, acted, faults>>
        /\ \A p \in Runs : p # r => Same(p)
    BY <1>a, <1>b, <1>c, <1>d
  <1>2. Local(r) BY DEF LocalInv
  <1>3. /\ placed[r] = {} /\ joining[r] = {} /\ skipped[r] = {} /\ halt[r] = FALSE
        /\ \A s \in Steps : task[r][s] = "none"
    BY <1>1, <1>2 DEF Local, Started, Early
  <1>4. Started(r)' BY <1>1, <1>3 DEF Started, Early
  <1>5. LevelInv(r)' BY <1>1 DEF LevelInv
  <1>6. Spawned(r)' /\ PlacedDone(r)' /\ Kept(r)' BY <1>1, <1>3 DEF Spawned, PlacedDone, Kept
  <1> QED BY <1>1, <1>4, <1>5, <1>6, Frame DEF LocalInv, Local

LEMMA LocalStep ==
  ASSUME TypeOK, LocalInv, [Next]_vars
  PROVE  LocalInv'
  <1>1. CASE UNCHANGED vars
    <2>1. \A q \in Runs : Same(q) BY <1>1 DEF vars, Same
    <2> QED BY <2>1, Frame DEF LocalInv
  <1>2. CASE \E r \in Runs : Request(r) BY <1>2, LocalRequest
  <1>3. CASE \E r \in Runs : Handler(r) \/ Bootstrap(r) BY <1>3, LocalHandler
  <1>4. CASE \E r \in Runs : Kill(r) BY <1>4, LocalKill
  <1>5. CASE \E r \in Runs, s \in Steps : HandlerStep(r, s) \/ FrozenStep(r, s) BY <1>5, LocalHandlerStep
  <1>6. CASE \E r \in Runs, s \in Steps : Task(r, s) BY <1>6, LocalTask
  <1>7. CASE \E r \in Runs, q \in Runs, f \in Steps : Fork(r, q, f) BY <1>7, LocalFork
  <1> QED BY <1>1, <1>2, <1>3, <1>4, <1>5, <1>6, <1>7 DEF Next, Die, Exit

LEMMA LocalInit == Init => LocalInv
  <1> SUFFICES ASSUME Init, NEW r \in Runs PROVE Local(r) BY DEF LocalInv
  <1>1. Started(r) BY DEF Init, Started, Early
  <1>2. LevelInv(r) BY DEF Init, LevelInv
  <1>3. Spawned(r) /\ PlacedDone(r) /\ Kept(r) BY DEF Init, Spawned, PlacedDone, Kept
  <1> QED BY <1>1, <1>2, <1>3 DEF Local

(* The invariant of the walk over the levels. *)
THEOREM WalkInvariant == Spec => [](TypeOK /\ LocalInv)
  <1>1. Init => LocalInv BY LocalInit
  <1>2. TypeOK /\ LocalInv /\ [Next]_vars => LocalInv' BY LocalStep
  <1>3. Spec => []TypeOK BY TypeCorrect
  <1> QED BY <1>1, <1>2, <1>3, PTL DEF Spec

(* No step runs on data that is not there. *)
THEOREM StepsHaveTheirInputs == Spec => []DepsReady
  <1>1. TypeOK /\ LocalInv => DepsReady
    <2> SUFFICES ASSUME TypeOK, LocalInv, NEW r \in Runs, NEW s \in Steps, task[r][s] # "none",
                        NEW t \in DependsOn[s]
                 PROVE  output[r][t] # {}
      BY DEF DepsReady
    <2>1. Spawned(r) /\ PlacedDone(r) BY DEF LocalInv, Local
    <2>2. t \in placed[r] /\ t \notin skipped[r] BY <2>1 DEF Spawned
    <2> QED BY <2>1, <2>2 DEF PlacedDone
  <1> QED BY <1>1, WalkInvariant, PTL

(* No level starts after one in which a tool step failed or a task ended with an error. *)
THEOREM HaltsAfterFailure == Spec => []FailFast
  <1>1. LocalInv => FailFast BY DEF LocalInv, Local, PlacedDone, FailFast
  <1> QED BY <1>1, WalkInvariant, PTL

------------------------------------------------------------------------------
(* Forks: what a run takes over from another one. *)

(* The stream of r tells a later resume that s ended well. *)
Told(r, s) == Has(r, NodeCompleted(s, TRUE))

(* A value that a run may take over as the output of s. *)
Genuine(o, s) ==
    \/ \E q \in Runs : o = {q} /\ task[q][s] = "ok"
    \/ o = {Raw} /\ Kind[s] = "agent" /\ faults > 0

FrozenInv(r) ==
    /\ parent[r] # r => mode[r] = "resume" /\ acted[r] \cap (NoResume \cup frozen[r]) = {}
    /\ parent[r] = r => frozen[r] = {}
    /\ frozen[r] \cap skipped[r] = {}
    /\ \A s \in frozen[r] : Genuine(output[r][s], s)
    /\ \A s \in frozen[r], q \in Runs : parent[r] = q => Told(q, s)

(* What the streams of r tell a later resume is true. *)
StreamInv(r) ==
    \A s \in Steps :
        /\ Told(r, s) => /\ task[r][s] = "ok" \/ s \in frozen[r]
                         /\ sub[r][s] = {} \/ Genuine(sub[r][s], s)
        /\ task[r][s] \in {"none"} \cup Alive /\ s \notin frozen[r] =>
              sub[r][s] = {} \/ (Kind[s] = "agent" /\ sub[r][s] = {Raw})

(* Events that do not end a step. *)
Closing == {e \in Entry : e.kind # "node_completed"}

ForkInv == \A r \in Runs : FrozenInv(r) /\ StreamInv(r) /\ pending[r] \in Seq(Closing)

------------------------------------------------------------------------------
(* What the streams say after a step *)

(* A step after which the streams say of each step what they said before. *)
SaysTheSame ==
    /\ faults' \in Nat /\ faults' >= faults
    /\ \A p \in Runs, t \in Steps : Told(p, t)' <=> Told(p, t)

LEMMA Unsaid ==
  ASSUME TypeOK, log' = log, UNCHANGED faults \/ Fault
  PROVE  SaysTheSame
  <1>1. faults \in Nat BY DEF TypeOK
  <1>2. faults' \in Nat /\ faults' >= faults BY <1>1 DEF Fault
  <1> QED BY <1>2 DEF SaysTheSame, Told, Has

LEMMA AppendSays ==
  ASSUME TypeOK, NEW r \in Runs, NEW e \in Entry, log' = [log EXCEPT ![r] = Append(@, e)]
  PROVE  \A p \in Runs, t \in Steps : Told(p, t)' <=> Told(p, t) \/ (p = r /\ e = NodeCompleted(t, TRUE))
  <1>1. log \in [Runs -> Seq(Entry)] BY DEF TypeOK
  <1>2. log'[r] = Append(log[r], e) /\ \A p \in Runs : p # r => log'[p] = log[p] BY <1>1
  <1>3. log[r] \in Seq(Entry) BY <1>1
  <1>n. PICK n \in Nat : n = Len(log[r]) BY <1>3
  <1>4. /\ log'[r][n + 1] = e /\ \A i \in 1 .. n : log'[r][i] = log[r][i]
        /\ DOMAIN log'[r] = 1 .. n + 1 /\ DOMAIN log[r] = 1 .. n
    BY <1>2, <1>3, <1>n, AppendProperties
  <1>d. DOMAIN log[r] \subseteq DOMAIN log'[r] /\ n + 1 \in DOMAIN log'[r] BY <1>4
  <1>5. ASSUME NEW t \in Steps PROVE Told(r, t)' <=> Told(r, t) \/ e = NodeCompleted(t, TRUE)
    <2>1. ASSUME Told(r, t)' PROVE Told(r, t) \/ e = NodeCompleted(t, TRUE)
      <3>1. PICK i \in DOMAIN log'[r] : log'[r][i] = NodeCompleted(t, TRUE) BY <2>1 DEF Told, Has, NodeCompleted, Event
      <3>2. i \in 1 .. n \/ i = n + 1 BY <1>4
      <3> QED BY <1>4, <3>1, <3>2 DEF Told, Has
    <2>2. ASSUME Told(r, t) PROVE Told(r, t)'
      <3>1. PICK i \in DOMAIN log[r] : log[r][i] = NodeCompleted(t, TRUE) BY <2>2 DEF Told, Has
      <3>2. i \in DOMAIN log'[r] /\ log'[r][i] = NodeCompleted(t, TRUE) BY <1>4, <1>d, <3>1
      <3> QED BY <3>2 DEF Told, Has, NodeCompleted, Event
    <2>3. ASSUME e = NodeCompleted(t, TRUE) PROVE Told(r, t)'
      <3>1. n + 1 \in DOMAIN log'[r] /\ log'[r][n + 1] = NodeCompleted(t, TRUE) BY <1>4, <1>d, <2>3
      <3> QED BY <3>1 DEF Told, Has, NodeCompleted, Event
    <2> QED BY <2>1, <2>2, <2>3
  <1>6. ASSUME NEW p \in Runs, p # r, NEW t \in Steps PROVE Told(p, t)' <=> Told(p, t)
    BY <1>2, <1>6 DEF Told, Has
  <1> QED BY <1>5, <1>6

(* Only the good end of a step makes a difference. *)
LEMMA EmitSays ==
  ASSUME TypeOK, NEW r \in Runs, NEW e \in Entry, Emit(r, e),
         \A t \in Steps : e # NodeCompleted(t, TRUE)
  PROVE  SaysTheSame
  <1>1. CASE Fault /\ UNCHANGED log BY <1>1, Unsaid
  <1>2. CASE log' = [log EXCEPT ![r] = Append(@, e)] /\ UNCHANGED faults
    <2>1. \A p \in Runs, t \in Steps : Told(p, t)' <=> Told(p, t) BY <1>2, AppendSays
    <2>2. faults' \in Nat /\ faults' >= faults BY <1>2 DEF TypeOK
    <2> QED BY <2>1, <2>2 DEF SaysTheSame
  <1> QED BY <1>1, <1>2 DEF Emit

LEMMA OtherEvents ==
  ASSUME NEW t \in Steps
  PROVE  /\ \A e \in Closing : e # NodeCompleted(t, TRUE)
         /\ \A s \in Steps : /\ NodeStarted(s) # NodeCompleted(t, TRUE) /\ Skip(s) # NodeCompleted(t, TRUE)
                             /\ NodeCompleted(s, FALSE) # NodeCompleted(t, TRUE)
         /\ \A k \in {"requested", "forked", "started", "completed", "resolved", "response", "run_completed"},
               ok \in BOOLEAN : OfRun(k, ok) # NodeCompleted(t, TRUE) /\ OfRun(k, ok) \in Closing
  <1>1. NodeCompleted(t, TRUE).kind = "node_completed" /\ NodeCompleted(t, TRUE).ok = TRUE
    BY DEF NodeCompleted, Event
  <1>2. \A e \in Closing : e # NodeCompleted(t, TRUE) BY <1>1 DEF Closing
  <1>3. ASSUME NEW s \in Steps
        PROVE  /\ NodeStarted(s) # NodeCompleted(t, TRUE) /\ Skip(s) # NodeCompleted(t, TRUE)
               /\ NodeCompleted(s, FALSE) # NodeCompleted(t, TRUE)
    BY <1>1 DEF NodeStarted, Skip, NodeCompleted, Event
  <1>4. ASSUME NEW k \in {"requested", "forked", "started", "completed", "resolved", "response", "run_completed"},
               NEW ok \in BOOLEAN
        PROVE  OfRun(k, ok) \in Closing
    <2>1. OfRun(k, ok) \in Entry BY Entries
    <2>2. OfRun(k, ok).kind # "node_completed" BY DEF OfRun, Event
    <2> QED BY <2>1, <2>2 DEF Closing
  <1> QED BY <1>2, <1>3, <1>4

------------------------------------------------------------------------------
(* Steps that leave the sub-streams alone and end no step *)

Calm ==
    /\ SaysTheSame
    /\ parent' = parent /\ frozen' = frozen /\ sub' = sub /\ acted' = acted
    /\ \A p \in Runs :
          /\ parent[p] # p => mode'[p] = mode[p]
          /\ frozen[p] \cap skipped'[p] = {}
          /\ \A t \in frozen[p] : output'[p][t] = output[p][t]
          /\ pending'[p] \in Seq(Closing)
          /\ \A t \in Steps : /\ (task[p][t] = "ok" => task'[p][t] = "ok")
                              /\ (task'[p][t] \in {"none"} \cup Alive => task[p][t] \in {"none"} \cup Alive)

LEMMA CalmStays ==
  ASSUME TypeOK, ForkInv, Calm
  PROVE  ForkInv'
  <1> SUFFICES ASSUME NEW p \in Runs PROVE (FrozenInv(p) /\ StreamInv(p) /\ pending[p] \in Seq(Closing))'
    BY DEF ForkInv
  <1>1. FrozenInv(p) /\ StreamInv(p) /\ frozen[p] \subseteq Steps BY DEF ForkInv, TypeOK
  <1>2. /\ faults \in Nat /\ faults' \in Nat /\ faults' >= faults
        /\ \A q \in Runs, t \in Steps : Told(q, t)' <=> Told(q, t)
    BY DEF Calm, SaysTheSame, TypeOK
  <1>3. /\ parent' = parent /\ frozen' = frozen /\ sub' = sub /\ acted' = acted
        /\ parent[p] # p => mode'[p] = mode[p]
        /\ frozen[p] \cap skipped'[p] = {}
        /\ \A t \in frozen[p] : output'[p][t] = output[p][t]
        /\ \A q \in Runs, t \in Steps : (task[q][t] = "ok" => task'[q][t] = "ok")
        /\ \A t \in Steps : (task'[p][t] \in {"none"} \cup Alive => task[p][t] \in {"none"} \cup Alive)
        /\ pending'[p] \in Seq(Closing)
    BY DEF Calm
  <1>4. FrozenInv(p)'
    <2>1. \A t \in frozen[p] : Genuine(output[p][t], t)'
      BY <1>1, <1>2, <1>3 DEF FrozenInv, Genuine
    <2>2. \A t \in frozen[p], q \in Runs : parent[p] = q => Told(q, t)' BY <1>1, <1>2 DEF FrozenInv
    <2> QED BY <1>1, <1>3, <2>1, <2>2 DEF FrozenInv
  <1>5. StreamInv(p)'
    <2> SUFFICES ASSUME NEW t \in Steps
                 PROVE  /\ Told(p, t)' => /\ task'[p][t] = "ok" \/ t \in frozen'[p]
                                          /\ sub'[p][t] = {} \/ Genuine(sub[p][t], t)'
                        /\ task'[p][t] \in {"none"} \cup Alive /\ t \notin frozen'[p] =>
                              sub'[p][t] = {} \/ (Kind[t] = "agent" /\ sub'[p][t] = {Raw})
      BY DEF StreamInv
    <2>1. Told(p, t)' => Told(p, t) BY <1>2
    <2>2. Genuine(sub[p][t], t) => Genuine(sub[p][t], t)' BY <1>2, <1>3 DEF Genuine
    <2> QED BY <1>1, <1>3, <2>1, <2>2 DEF StreamInv
  <1> QED BY <1>3, <1>4, <1>5

(* A calm step is put together from what it says, and from what it leaves alone. *)
LEMMA Calmly ==
  ASSUME TypeOK, ForkInv, SaysTheSame, UNCHANGED <<parent, frozen, sub, acted>>,
         \A p \in Runs : parent[p] # p => mode'[p] = mode[p],
         skipped' = skipped \/ (\A p \in Runs : frozen[p] \cap skipped'[p] = {}),
         output' = output \/ (\A p \in Runs : \A t \in frozen[p] : output'[p][t] = output[p][t]),
         pending' = pending \/ (\A p \in Runs : pending'[p] \in Seq(Closing)),
         task' = task \/ (\A p \in Runs, t \in Steps :
            /\ (task[p][t] = "ok" => task'[p][t] = "ok")
            /\ (task'[p][t] \in {"none"} \cup Alive => task[p][t] \in {"none"} \cup Alive))
  PROVE  Calm
  <1>1. \A p \in Runs : frozen[p] \cap skipped[p] = {} /\ pending[p] \in Seq(Closing)
    BY DEF ForkInv, FrozenInv
  <1>2. \A p \in Runs : frozen[p] \cap skipped'[p] = {} BY <1>1
  <1>3. \A p \in Runs : \A t \in frozen[p] : output'[p][t] = output[p][t] OBVIOUS
  <1>4. \A p \in Runs : pending'[p] \in Seq(Closing) BY <1>1
  <1>5. \A p \in Runs, t \in Steps :
            /\ (task[p][t] = "ok" => task'[p][t] = "ok")
            /\ (task'[p][t] \in {"none"} \cup Alive => task[p][t] \in {"none"} \cup Alive)
    OBVIOUS
  <1> QED BY <1>2, <1>3, <1>4, <1>5 DEF Calm

LEMMA CalmHandlerStep ==
  ASSUME TypeOK, LocalInv, ForkInv, NEW r \in Runs, NEW s \in Steps, HandlerStep(r, s) \/ FrozenStep(r, s)
  PROVE  Calm \/ ReplayFrozen(r, s)
  <1>1. /\ skipped \in [Runs -> SUBSET Steps]
        /\ task \in [Runs -> [Steps -> {"none", "killed"} \cup Alive \cup Over]]
        /\ output \in [Runs -> [Steps -> SUBSET (Runs \cup {Raw})]]
        /\ todo[r] \in SUBSET Steps /\ joining[r] \in SUBSET Steps
    BY DEF TypeOK
  <1>2. \A p \in Runs : frozen[p] \cap skipped[p] = {} BY DEF ForkInv, FrozenInv
  <1>3. LevelInv(r) /\ Spawned(r) BY DEF LocalInv, Local
  <1> USE DEF decisions, level, stream, results
  <1>a. CASE PassFrozen(r, s) BY <1>a, Unsaid, Calmly DEF PassFrozen
  <1>b. CASE SkipStep(r, s)
    <2>1. /\ s \notin frozen[r] /\ skipped' = [skipped EXCEPT ![r] = @ \cup {s}] /\ Emit(r, Skip(s))
          /\ UNCHANGED <<decisions, task, output, pending, sub, acted>>
      BY <1>b DEF SkipStep
    <2>2. \A p \in Runs : frozen[p] \cap skipped'[p] = {} BY <1>1, <1>2, <2>1
    <2>3. SaysTheSame BY <2>1, Entries, OtherEvents, EmitSays
    <2> QED BY <2>1, <2>2, <2>3, Calmly
  <1>c. CASE WhenFails(r, s) BY <1>c, Unsaid, Calmly DEF WhenFails
  <1>d. CASE Spawn(r, s)
    <2>1. /\ Considers(r, s) /\ task' = [task EXCEPT ![r][s] = "spawned"]
          /\ UNCHANGED <<decisions, results, pending, stream, sub, acted>>
      BY <1>d DEF Spawn
    <2>2. task[r][s] = "none" BY <1>1, <1>3, <2>1, FirstIn DEF Considers, LevelInv
    <2>3. \A p \in Runs, t \in Steps :
            /\ (task[p][t] = "ok" => task'[p][t] = "ok")
            /\ (task'[p][t] \in {"none"} \cup Alive => task[p][t] \in {"none"} \cup Alive)
      BY <1>1, <2>1, <2>2
    <2> QED BY <2>1, <2>3, Unsaid, Calmly
  <1>e. CASE JoinResult(r, s)
    <2>1. /\ Joins(r, s) /\ output' = [output EXCEPT ![r][s] = {r}]
          /\ UNCHANGED <<decisions, task, skipped, pending, stream, sub, acted>>
      BY <1>e DEF JoinResult
    <2>2. s \notin frozen[r] BY <1>1, <1>3, <2>1, FirstIn DEF Joins, Spawned
    <2>3. \A p \in Runs : \A t \in frozen[p] : output'[p][t] = output[p][t]
      <3> SUFFICES ASSUME NEW p \in Runs, NEW t \in frozen[p] PROVE output'[p][t] = output[p][t] OBVIOUS
      <3>1. t \in Steps BY DEF TypeOK
      <3> QED BY <1>1, <2>1, <2>2, <3>1
    <2> QED BY <2>1, <2>3, Unsaid, Calmly
  <1>f. CASE JoinError(r, s)
    <2>1. /\ Emit(r, NodeCompleted(s, FALSE))
          /\ UNCHANGED <<decisions, task, output, skipped, pending, sub, acted>>
      BY <1>f DEF JoinError
    <2>2. SaysTheSame BY <2>1, Entries, OtherEvents, EmitSays
    <2> QED BY <2>1, <2>2, Calmly
  <1> QED BY <1>a, <1>b, <1>c, <1>d, <1>e, <1>f DEF HandlerStep, FrozenStep

(* What is left to emit at the end of a run ends no step. *)
LEMMA ResolveCloses ==
  ASSUME TypeOK, ForkInv, NEW r \in Runs, Resolve(r)
  PROVE  \A p \in Runs : pending'[p] \in Seq(Closing)
  <1> DEFINE success == overall[r] /\ ~NoneLeft(r)
             a == <<OfRun("completed", success)>>
             b == When(Chosen(r) # {}, OfRun("resolved", TRUE))
             c == When(success /\ FinalOutput(r) # {}, OfRun("response", TRUE))
             d == When(mode[r] # "serve", OfRun("run_completed", success))
  <1>1. success \in BOOLEAN BY DEF TypeOK
  <1>2. \A x \in BOOLEAN, e \in Closing : When(x, e) \in Seq(Closing) BY DEF When
  <1>3. \A ok \in BOOLEAN : OfRun("completed", ok) \in Closing /\ OfRun("resolved", ok) \in Closing
                            /\ OfRun("response", ok) \in Closing /\ OfRun("run_completed", ok) \in Closing
    <2>1. PICK t \in Steps : TRUE BY PipelineAssumption
    <2> QED BY <2>1, OtherEvents
  <1>4. a \in Seq(Closing)
    <2>1. \A e \in Closing : <<e>> \in Seq(Closing) OBVIOUS
    <2>2. OfRun("completed", success) \in Closing BY <1>1, <1>3
    <2> QED BY <2>1, <2>2
  <1>5. b \in Seq(Closing) BY <1>2, <1>3
  <1>6. c \in Seq(Closing) BY <1>2, <1>3
  <1>7. d \in Seq(Closing) BY <1>1, <1>2, <1>3
  <1>8. pending' = [pending EXCEPT ![r] = a \o b \o c \o d] BY DEF Resolve
  <1> HIDE DEF a, b, c, d, success
  <1>9. a \o b \o c \o d \in Seq(Closing) BY <1>4, <1>5, <1>6, <1>7, ConcatProperties
  <1>10. pending \in [Runs -> Seq(Entry)] /\ \A p \in Runs : pending[p] \in Seq(Closing)
    BY DEF TypeOK, ForkInv
  <1> QED BY <1>8, <1>9, <1>10

LEMMA CalmHandler ==
  ASSUME TypeOK, LocalInv, ForkInv, NEW r \in Runs, Handler(r) \/ Bootstrap(r)
  PROVE  Calm
  <1>1. /\ pending \in [Runs -> Seq(Entry)] /\ \A p \in Runs : pending[p] \in Seq(Closing)
    BY DEF TypeOK, ForkInv
  <1>2. PICK t0 \in Steps : TRUE BY PipelineAssumption
  <1>3. \A k \in {"started", "completed", "run_completed"}, ok \in BOOLEAN :
           OfRun(k, ok) \in Entry /\ OfRun(k, ok) \in Closing /\ \A t \in Steps : OfRun(k, ok) # NodeCompleted(t, TRUE)
    BY <1>2, Entries, OtherEvents
  <1> USE DEF decisions, level, stream, results
  <1>a. CASE Begin(r)
    <2>1. Emit(r, OfRun("started", TRUE))
          /\ UNCHANGED <<decisions, task, results, pending, sub, acted>>
      BY <1>a DEF Begin
    <2>2. SaysTheSame BY <1>3, <2>1, EmitSays
    <2> QED BY <2>1, <2>2, Calmly
  <1>b. CASE BootstrapDone(r) BY <1>b, Unsaid, Calmly DEF BootstrapDone
  <1>c. CASE AllSpawned(r) BY <1>c, Unsaid, Calmly DEF AllSpawned
  <1>d. CASE NextLevel(r) BY <1>d, Unsaid, Calmly DEF NextLevel
  <1>e. CASE Break(r) BY <1>e, Unsaid, Calmly DEF Break
  <1>f. CASE Resolve(r)
    <2>1. UNCHANGED <<decisions, task, output, skipped, stream, sub, acted>> BY <1>f DEF Resolve
    <2> QED BY <1>f, <2>1, ResolveCloses, Unsaid, Calmly
  <1>g. CASE EmitPending(r)
    <2>1. /\ pending[r] # << >> /\ Emit(r, Head(pending[r]))
          /\ pending' = [pending EXCEPT ![r] = Tail(@)]
          /\ UNCHANGED <<decisions, task, results, sub, acted>>
      BY <1>g DEF EmitPending
    <2>2. Head(pending[r]) \in Closing /\ Tail(pending[r]) \in Seq(Closing)
      BY <1>1, <2>1, HeadTailProperties
    <2>3. SaysTheSame
      <3>1. Head(pending[r]) \in Entry BY <2>2 DEF Closing
      <3>2. \A t \in Steps : Head(pending[r]) # NodeCompleted(t, TRUE) BY <2>2, OtherEvents
      <3> QED BY <2>1, <3>1, <3>2, EmitSays
    <2>4. \A p \in Runs : pending'[p] \in Seq(Closing) BY <1>1, <2>1, <2>2
    <2> QED BY <2>1, <2>3, <2>4, Calmly
  <1>h. CASE Finish(r) BY <1>h, Unsaid, Calmly DEF Finish
  <1>i. CASE RouterCompletes(r)
    <2>1. /\ pending' = [pending EXCEPT ![r] = <<OfRun("run_completed", pc[r] = "ok" /\ overall[r])>>]
          /\ UNCHANGED <<decisions, task, results, stream, sub, acted>>
      BY <1>i DEF RouterCompletes
    <2>2. <<OfRun("run_completed", pc[r] = "ok" /\ overall[r])>> \in Seq(Closing)
      <3>1. (pc[r] = "ok" /\ overall[r]) \in BOOLEAN OBVIOUS
      <3>2. OfRun("run_completed", pc[r] = "ok" /\ overall[r]) \in Closing BY <1>3, <3>1
      <3>3. \A e \in Closing : <<e>> \in Seq(Closing) OBVIOUS
      <3> QED BY <3>2, <3>3
    <2>3. \A p \in Runs : pending'[p] \in Seq(Closing) BY <1>1, <2>1, <2>2
    <2> QED BY <2>1, <2>3, Unsaid, Calmly
  <1>j. CASE RouterDone(r) BY <1>j, Unsaid, Calmly DEF RouterDone
  <1>k. CASE BootstrapFails(r)
    <2>1. Fault /\ log' = log /\ UNCHANGED <<decisions, task, results, pending, sub, acted>>
      BY <1>k DEF BootstrapFails
    <2> QED BY <2>1, Unsaid, Calmly
  <1> QED BY <1>a, <1>b, <1>c, <1>d, <1>e, <1>f, <1>g, <1>h, <1>i, <1>j, <1>k DEF Handler, Bootstrap

LEMMA CalmRequest ==
  ASSUME TypeOK, LocalInv, ForkInv, NEW r \in Runs, Request(r)
  PROVE  Calm
  <1>1. /\ pc[r] = "unused" /\ UNCHANGED <<parent, frozen, task, results, pending, sub, acted>>
        /\ \E m \in {"cli", "serve"} : mode' = [mode EXCEPT ![r] = m]
        /\ Emit(r, OfRun("requested", TRUE))
    BY DEF Request, Emit
  <1>2. parent[r] = r BY <1>1 DEF LocalInv, Local, Started
  <1>3. \A p \in Runs : parent[p] # p => mode'[p] = mode[p] BY <1>1, <1>2 DEF TypeOK
  <1>4. PICK t0 \in Steps : TRUE BY PipelineAssumption
  <1>5. OfRun("requested", TRUE) \in Entry /\ \A t \in Steps : OfRun("requested", TRUE) # NodeCompleted(t, TRUE)
    BY <1>4, Entries, OtherEvents
  <1>6. SaysTheSame BY <1>1, <1>5, EmitSays
  <1> QED BY <1>1, <1>3, <1>6, Calmly DEF results

LEMMA CalmKill ==
  ASSUME TypeOK, LocalInv, ForkInv, NEW r \in Runs, Kill(r), Fault \/ UNCHANGED faults
  PROVE  Calm
  <1> DEFINE killed == [s \in Steps |-> IF task[r][s] \in Alive THEN "killed" ELSE task[r][s]]
  <1>1. /\ task' = [task EXCEPT ![r] = killed] /\ pending' = [pending EXCEPT ![r] = << >>]
        /\ UNCHANGED <<decisions, output, skipped, log, sub, acted>>
    BY DEF Kill
  <1>2. \A s \in Steps : killed[s] \in {"killed", task[r][s]} /\ (task[r][s] = "ok" => killed[s] = "ok")
    BY DEF Alive
  <1> HIDE DEF killed
  <1>3. task'[r] = killed /\ \A p \in Runs : p # r => task'[p] = task[p] BY <1>1 DEF TypeOK
  <1>4. "killed" \notin {"none"} \cup Alive BY DEF Alive
  <1>5. \A p \in Runs, t \in Steps :
            /\ (task[p][t] = "ok" => task'[p][t] = "ok")
            /\ (task'[p][t] \in {"none"} \cup Alive => task[p][t] \in {"none"} \cup Alive)
    BY <1>2, <1>3, <1>4
  <1>6. \A p \in Runs : pending'[p] \in Seq(Closing)
    <2>1. << >> \in Seq(Closing) OBVIOUS
    <2> QED BY <1>1, <2>1 DEF TypeOK, ForkInv
  <1>7. SaysTheSame BY <1>1, Unsaid
  <1> QED BY <1>1, <1>5, <1>6, <1>7, Calmly DEF decisions

------------------------------------------------------------------------------
(* Steps of a task *)

(* What a step of the task of s tells: nothing of other steps; of s, that it ended *)
(* well only if it did, and then its sub-stream ends with its output, unless an    *)
(* append was lost.                                                                *)
TaskTells(r, s) ==
    /\ faults' \in Nat /\ faults' >= faults
    /\ \A p \in Runs, t \in Steps : p # r \/ t # s => (Told(p, t)' <=> Told(p, t))
    /\ Told(r, s)' =>
          /\ task'[r][s] = "ok"
          /\ sub'[r][s] \in {{}, {r}} \/ (sub'[r][s] = {Raw} /\ Kind[s] = "agent" /\ faults' > 0)
    /\ task'[r][s] \in Alive => sub'[r][s] = {} \/ (Kind[s] = "agent" /\ sub'[r][s] = {Raw})
    /\ \A p \in Runs : acted'[p] = acted[p] \/ (p = r /\ acted'[p] = acted[p] \cup {s} /\ ~Shadowed(r, s))

LEMMA TaskStepTells ==
  ASSUME TypeOK, LocalInv, ForkInv, NEW r \in Runs, NEW s \in Steps, Task(r, s)
  PROVE  TaskTells(r, s)
  <1>1. task[r][s] \in Alive /\ ~Told(r, s) /\ (sub[r][s] = {} \/ (Kind[s] = "agent" /\ sub[r][s] = {Raw}))
    <2>1. task[r][s] \in Alive BY TaskFacts
    <2>2. task[r][s] # "none" /\ task[r][s] # "ok" BY <2>1 DEF Alive
    <2>3. s \notin frozen[r] BY <2>2 DEF LocalInv, Local, Spawned
    <2> QED BY <2>1, <2>2, <2>3 DEF ForkInv, StreamInv
  <1>2. /\ log \in [Runs -> Seq(Entry)] /\ faults \in Nat /\ acted \in [Runs -> SUBSET Steps]
        /\ sub \in [Runs -> [Steps -> SUBSET (Runs \cup {Raw})]]
        /\ task \in [Runs -> [Steps -> {"none", "killed"} \cup Alive \cup Over]]
    BY DEF TypeOK
  (* A step that says nothing new. *)
  <1>3. ASSUME SaysTheSame, sub' = sub \/ (Kind[s] = "agent" /\ sub'[r][s] = {Raw}),
               \A p \in Runs : acted'[p] = acted[p] \/ (p = r /\ acted'[p] = acted[p] \cup {s} /\ ~Shadowed(r, s))
        PROVE  TaskTells(r, s)
    BY <1>1, <1>3 DEF SaysTheSame, TaskTells
  <1>4. ASSUME Kind[s] = "agent", Record(r, s), log' = log
        PROVE  SaysTheSame /\ (sub' = sub \/ (Kind[s] = "agent" /\ sub'[r][s] = {Raw}))
    <2>1. CASE sub' = [sub EXCEPT ![r][s] = {Raw}] /\ UNCHANGED faults BY <1>2, <1>4, <2>1, Unsaid
    <2>2. CASE Fault /\ UNCHANGED sub BY <1>4, <2>2, Unsaid
    <2> QED BY <1>4, <2>1, <2>2 DEF Record
  (* A step that ends s. *)
  <1>5. ASSUME NEW ok \in BOOLEAN, log' = [log EXCEPT ![r] = Append(@, NodeCompleted(s, ok))]
        PROVE  /\ \A p \in Runs, t \in Steps : p # r \/ t # s => (Told(p, t)' <=> Told(p, t))
               /\ Told(r, s)' => ok
    <2>1. NodeCompleted(s, ok) \in Entry BY Entries
    <2>2. \A t \in Steps : NodeCompleted(s, ok) = NodeCompleted(t, TRUE) => t = s /\ ok
      BY DEF NodeCompleted, Event
    <2> QED BY <1>1, <1>5, <2>1, <2>2, AppendSays
  <1> DEFINE Others == \A p \in Runs, t \in Steps : p # r \/ t # s => (Told(p, t)' <=> Told(p, t))
  <1>6. ASSUME NEW ok \in BOOLEAN, Conclude(r, s, ok), Return(r, s, ok), UNCHANGED acted
        PROVE  TaskTells(r, s)
    <2>1. task'[r][s] = (IF ok THEN "ok" ELSE "failed") BY <1>2, <1>6 DEF Return
    <2>2. task'[r][s] \notin Alive /\ (ok => task'[r][s] = "ok") BY <2>1 DEF Alive
    <2>3. CASE /\ log' = [log EXCEPT ![r] = Append(@, NodeCompleted(s, ok))]
               /\ sub' = [sub EXCEPT ![r][s] = {r}] /\ UNCHANGED faults
      <3>1. sub'[r][s] = {r} BY <1>2, <2>3
      <3>2. Others /\ (Told(r, s)' => ok) BY <1>5, <2>3
      <3> QED BY <1>2, <1>6, <2>2, <2>3, <3>1, <3>2 DEF TaskTells
    <2>4. CASE Fault /\ log' = [log EXCEPT ![r] = Append(@, NodeCompleted(s, ok))] /\ UNCHANGED sub
      <3>1. faults' = faults + 1 /\ faults' > 0 BY <1>2, <2>4 DEF Fault
      <3>2. Others /\ (Told(r, s)' => ok) BY <1>5, <2>4
      <3> QED BY <1>1, <1>2, <1>6, <2>2, <2>4, <3>1, <3>2 DEF TaskTells
    <2>5. CASE Fault /\ sub' = [sub EXCEPT ![r][s] = {r}] /\ UNCHANGED log
      <3>1. SaysTheSame BY <2>5, Unsaid
      <3> QED BY <1>1, <1>6, <2>2, <3>1 DEF SaysTheSame, TaskTells
    <2> QED BY <1>6, <2>3, <2>4, <2>5 DEF Conclude
  <1>a. CASE StepStarts(r, s)
    <2>1. Emit(r, NodeStarted(s)) /\ UNCHANGED <<sub, acted>> BY <1>a DEF StepStarts
    <2>2. NodeStarted(s) \in Entry BY Entries
    <2>3. \A t \in Steps : NodeStarted(s) # NodeCompleted(t, TRUE) BY OtherEvents
    <2>4. SaysTheSame BY <2>1, <2>2, <2>3, EmitSays
    <2> QED BY <1>3, <2>1, <2>4
  <1>b. CASE ExecuteTool(r, s)
    <2>1. /\ ~Shadowed(r, s) /\ acted' = [acted EXCEPT ![r] = @ \cup {s}] /\ log' = log
          /\ UNCHANGED <<sub, faults>> \/ (Kind[s] = "agent" /\ Record(r, s))
      BY <1>b DEF ExecuteTool
    <2>2. \A p \in Runs : acted'[p] = acted[p] \/ (p = r /\ acted'[p] = acted[p] \cup {s} /\ ~Shadowed(r, s))
      BY <1>2, <2>1
    <2>3. CASE UNCHANGED <<sub, faults>> BY <1>3, <2>1, <2>2, <2>3, Unsaid
    <2>4. CASE Kind[s] = "agent" /\ Record(r, s) BY <1>3, <1>4, <2>1, <2>2, <2>4
    <2> QED BY <2>1, <2>3, <2>4
  <1>c. CASE RefuseCall(r, s) BY <1>3, <1>4, <1>c DEF RefuseCall
  <1>d. CASE ToolReturns(r, s) BY <1>6, <1>d DEF ToolReturns
  <1>e. CASE AskReturns(r, s)
    <2>1. PICK ok \in BOOLEAN : Emit(r, NodeCompleted(s, ok)) /\ Return(r, s, ok) BY <1>e DEF AskReturns
    <2>2. sub' = sub /\ acted' = acted /\ Kind[s] = "ask" BY <1>e DEF AskReturns
    <2>3. sub'[r][s] = {} BY <1>1, <2>2
    <2>4. task'[r][s] = (IF ok THEN "ok" ELSE "failed") BY <1>2, <2>1 DEF Return
    <2>5. CASE log' = [log EXCEPT ![r] = Append(@, NodeCompleted(s, ok))] /\ UNCHANGED faults
      <3>1. Others /\ (Told(r, s)' => ok) BY <1>5, <2>5
      <3>2. task'[r][s] \notin Alive /\ (ok => task'[r][s] = "ok") BY <2>4 DEF Alive
      <3> QED BY <1>2, <2>2, <2>3, <2>5, <3>1, <3>2 DEF TaskTells
    <2>6. CASE Fault /\ UNCHANGED log BY <1>3, <2>2, <2>6, Unsaid
    <2> QED BY <2>1, <2>5, <2>6 DEF Emit
  <1>f. CASE AgentAnswers(r, s) BY <1>6, <1>f DEF AgentAnswers, handler
  <1>g. CASE AgentGivesUp(r, s) BY <1>3, <1>g, Unsaid DEF AgentGivesUp, stream
  <1>h. CASE TaskErrs(r, s)
    <2>1. /\ UNCHANGED <<stream, acted>>
          /\ UNCHANGED sub \/ (Kind[s] = "agent" /\ sub' = [sub EXCEPT ![r][s] = {Raw}])
      BY <1>h DEF TaskErrs
    <2>2. sub' = sub \/ (Kind[s] = "agent" /\ sub'[r][s] = {Raw}) BY <1>2, <2>1
    <2> QED BY <1>3, <2>1, <2>2, Unsaid DEF stream
  <1> QED BY <1>a, <1>b, <1>c, <1>d, <1>e, <1>f, <1>g, <1>h DEF Task

LEMMA TaskForks ==
  ASSUME TypeOK, LocalInv, ForkInv, NEW r \in Runs, NEW s \in Steps, Task(r, s)
  PROVE  ForkInv'
  <1>1. TaskTells(r, s) BY TaskStepTells
  <1>2. PICK v \in Alive \cup Over : task' = [task EXCEPT ![r][s] = v] BY TaskFacts
  <1>3. /\ task[r][s] \in Alive /\ UNCHANGED handler
        /\ \A q \in Runs : q # r => sub'[q] = sub[q]
        /\ \A t \in Steps : t # s => sub'[r][t] = sub[r][t]
    BY TaskFacts
  <1>4. /\ task'[r][s] = v /\ \A t \in Steps : t # s => task'[r][t] = task[r][t]
        /\ \A q \in Runs : q # r => task'[q] = task[q]
    BY <1>2 DEF TypeOK
  <1>5. task[r][s] # "ok" /\ task[r][s] # "none" /\ v # "none" BY <1>2, <1>3 DEF Alive, Over
  <1>6. s \notin frozen[r] BY <1>5 DEF LocalInv, Local, Spawned
  <1>7. \A q \in Runs, t \in Steps : (task[q][t] = "ok" => task'[q][t] = "ok") BY <1>4, <1>5
  <1>8. /\ mode' = mode /\ parent' = parent /\ frozen' = frozen /\ skipped' = skipped
        /\ output' = output /\ pending' = pending
    BY <1>3 DEF handler, decisions, results
  <1>9. faults \in Nat /\ faults' \in Nat /\ faults' >= faults BY <1>1 DEF TypeOK, TaskTells
  <1> SUFFICES ASSUME NEW p \in Runs PROVE (FrozenInv(p) /\ StreamInv(p) /\ pending[p] \in Seq(Closing))'
    BY DEF ForkInv
  <1>10. FrozenInv(p) /\ StreamInv(p) /\ pending[p] \in Seq(Closing) /\ frozen[p] \subseteq Steps
    BY DEF ForkInv, TypeOK
  <1>11. \A q \in Runs, t \in Steps : Told(q, t) => Told(q, t)'
    <2>1. ~Told(r, s) BY <1>5, <1>6 DEF ForkInv, StreamInv
    <2> QED BY <1>1, <2>1 DEF TaskTells
  <1>12. FrozenInv(p)'
    <2>1. \A t \in frozen[p] : Genuine(output[p][t], t)'
      BY <1>7, <1>8, <1>9, <1>10 DEF FrozenInv, Genuine
    <2>2. \A t \in frozen[p], q \in Runs : parent[p] = q => Told(q, t)' BY <1>10, <1>11 DEF FrozenInv
    <2>3. parent[p] # p => acted'[p] \cap (NoResume \cup frozen[p]) = {}
      BY <1>1, <1>6, <1>10 DEF TaskTells, FrozenInv, Shadowed
    <2> QED BY <1>8, <1>10, <2>1, <2>2, <2>3 DEF FrozenInv
  <1>13. StreamInv(p)'
    <2> SUFFICES ASSUME NEW t \in Steps
                 PROVE  /\ Told(p, t)' => /\ task'[p][t] = "ok" \/ t \in frozen'[p]
                                          /\ sub'[p][t] = {} \/ Genuine(sub[p][t], t)'
                        /\ task'[p][t] \in {"none"} \cup Alive /\ t \notin frozen'[p] =>
                              sub'[p][t] = {} \/ (Kind[t] = "agent" /\ sub'[p][t] = {Raw})
      BY DEF StreamInv
    <2>1. CASE p = r /\ t = s
      <3>1. task'[r][s] # "none" BY <1>4, <1>5
      <3>2. Told(r, s)' => task'[r][s] = "ok" /\ (sub'[r][s] = {} \/ Genuine(sub[r][s], s)')
        BY <1>1 DEF TaskTells, Genuine
      <3> QED BY <1>1, <2>1, <3>1, <3>2 DEF TaskTells
    <2>2. CASE p # r \/ t # s
      <3>1. sub'[p][t] = sub[p][t] /\ task'[p][t] = task[p][t] BY <1>3, <1>4, <2>2
      <3>2. Told(p, t)' => Told(p, t) BY <1>1, <2>2 DEF TaskTells
      <3>3. Genuine(sub[p][t], t) => Genuine(sub[p][t], t)' BY <1>7, <1>9, <3>1 DEF Genuine
      <3> QED BY <1>8, <1>10, <3>1, <3>2, <3>3 DEF StreamInv
    <2> QED BY <2>1, <2>2
  <1> QED BY <1>8, <1>10, <1>12, <1>13

------------------------------------------------------------------------------
(* Forks *)

(* The bootstrap writes that a frozen step ended well. *)
LEMMA ReplaySays ==
  ASSUME TypeOK, NEW r \in Runs, NEW s \in Steps, ReplayFrozen(r, s)
  PROVE  \A p \in Runs, t \in Steps : /\ (Told(p, t) => Told(p, t)')
                                      /\ (Told(p, t)' => Told(p, t) \/ (p = r /\ t = s))
  <1> DEFINE es == <<NodeStarted(s), NodeCompleted(s, TRUE)>>
  <1>1. log \in [Runs -> Seq(Entry)] /\ log' = [log EXCEPT ![r] = @ \o es] BY DEF TypeOK, ReplayFrozen
  <1>2. es \in Seq(Entry) /\ Len(es) = 2 /\ es[1] = NodeStarted(s) /\ es[2] = NodeCompleted(s, TRUE)
    <2>1. \A a, b \in Entry : <<a, b>> \in Seq(Entry) /\ Len(<<a, b>>) = 2 OBVIOUS
    <2>2. NodeStarted(s) \in Entry /\ NodeCompleted(s, TRUE) \in Entry BY Entries
    <2> QED BY <2>1, <2>2
  <1> HIDE DEF es
  <1>3. log[r] \in Seq(Entry) /\ log'[r] = log[r] \o es /\ \A p \in Runs : p # r => log'[p] = log[p] BY <1>1
  <1>4. PICK n \in Nat : n = Len(log[r]) BY <1>3
  <1>5. /\ DOMAIN log[r] = 1 .. n /\ DOMAIN log'[r] = 1 .. n + 2
        /\ \A i \in 1 .. n : log'[r][i] = log[r][i]
        /\ log'[r][n + 1] = es[1] /\ log'[r][n + 2] = es[2]
    <2>1. /\ Len(log[r] \o es) = Len(log[r]) + Len(es) /\ log[r] \o es \in Seq(Entry)
          /\ \A i \in 1 .. Len(log[r]) + Len(es) :
                (log[r] \o es)[i] = IF i <= Len(log[r]) THEN log[r][i] ELSE es[i - Len(log[r])]
      BY <1>2, <1>3, ConcatProperties
    <2>2. DOMAIN log[r] = 1 .. n /\ DOMAIN log'[r] = 1 .. n + 2 BY <1>2, <1>3, <1>4, <2>1
    <2>3. \A i \in 1 .. n + 2 : log'[r][i] = IF i <= n THEN log[r][i] ELSE es[i - n]
      BY <1>2, <1>3, <1>4, <2>1
    <2>4. \A i \in 1 .. n : log'[r][i] = log[r][i] BY <2>3
    <2>5. log'[r][n + 1] = es[1] /\ log'[r][n + 2] = es[2] BY <2>3
    <2> QED BY <2>2, <2>4, <2>5
  <1>d. DOMAIN log[r] \subseteq DOMAIN log'[r] BY <1>5
  <1>6. ASSUME NEW t \in Steps
        PROVE  (Told(r, t) => Told(r, t)') /\ (Told(r, t)' => Told(r, t) \/ t = s)
    <2>1. ASSUME Told(r, t) PROVE Told(r, t)'
      <3>1. PICK i \in DOMAIN log[r] : log[r][i] = NodeCompleted(t, TRUE) BY <2>1 DEF Told, Has
      <3>2. i \in DOMAIN log'[r] /\ log'[r][i] = NodeCompleted(t, TRUE) BY <1>5, <1>d, <3>1
      <3> QED BY <3>2 DEF Told, Has, NodeCompleted, Event
    <2>2. ASSUME Told(r, t)', t # s PROVE Told(r, t)
      <3>1. PICK i \in DOMAIN log'[r] : log'[r][i] = NodeCompleted(t, TRUE)
        BY <2>2 DEF Told, Has, NodeCompleted, Event
      <3>2. NodeStarted(s) # NodeCompleted(t, TRUE) /\ NodeCompleted(s, TRUE) # NodeCompleted(t, TRUE)
        BY <2>2 DEF NodeStarted, NodeCompleted, Event
      <3>3. i # n + 1 /\ i # n + 2 BY <1>2, <1>5, <3>1, <3>2
      <3>4. i \in 1 .. n BY <1>5, <3>1, <3>3
      <3> QED BY <1>5, <3>1, <3>4 DEF Told, Has
    <2> QED BY <2>1, <2>2
  <1>7. ASSUME NEW p \in Runs, p # r, NEW t \in Steps PROVE Told(p, t)' <=> Told(p, t)
    BY <1>3, <1>7 DEF Told, Has
  <1> QED BY <1>6, <1>7

LEMMA ReplayForks ==
  ASSUME TypeOK, LocalInv, ForkInv, NEW r \in Runs, NEW s \in Steps, ReplayFrozen(r, s)
  PROVE  ForkInv'
  <1>1. /\ pc[r] = "bootstrap" /\ s \in todo[r] /\ sub' = [sub EXCEPT ![r][s] = sub[parent[r]][s]]
        /\ UNCHANGED <<mode, parent, frozen, task, output, skipped, pending, acted, faults>>
    BY DEF ReplayFrozen, decisions, results
  <1>2. s \in frozen[r] BY <1>1 DEF LocalInv, Local, Started
  <1>3. PICK q \in Runs : q = parent[r] BY DEF TypeOK
  <1>4. sub[q][s] = {} \/ Genuine(sub[q][s], s)
    <2>1. Told(q, s) BY <1>2, <1>3 DEF ForkInv, FrozenInv
    <2> QED BY <2>1 DEF ForkInv, StreamInv
  <1>5. /\ sub'[r][s] = sub[q][s]
        /\ \A p \in Runs, t \in Steps : p # r \/ t # s => sub'[p][t] = sub[p][t]
    BY <1>1, <1>3 DEF TypeOK
  <1>6. \A p \in Runs, t \in Steps : Told(p, t) => Told(p, t)' BY ReplaySays
  <1>a. \A p \in Runs, t \in Steps : Told(p, t)' => (Told(p, t) \/ (p = r /\ t = s)) BY ReplaySays
  <1> SUFFICES ASSUME NEW p \in Runs PROVE (FrozenInv(p) /\ StreamInv(p) /\ pending[p] \in Seq(Closing))'
    BY DEF ForkInv
  <1>7. FrozenInv(p) /\ StreamInv(p) /\ pending[p] \in Seq(Closing) /\ frozen[p] \subseteq Steps
    BY DEF ForkInv, TypeOK
  <1>8. FrozenInv(p)'
    <2>1. \A t \in frozen[p] : Genuine(output[p][t], t)' BY <1>1, <1>7 DEF FrozenInv, Genuine
    <2>2. \A t \in frozen[p], u \in Runs : parent[p] = u => Told(u, t)' BY <1>6, <1>7 DEF FrozenInv
    <2> QED BY <1>1, <1>7, <2>1, <2>2 DEF FrozenInv
  <1>9. StreamInv(p)'
    <2> SUFFICES ASSUME NEW t \in Steps
                 PROVE  /\ Told(p, t)' => /\ task'[p][t] = "ok" \/ t \in frozen'[p]
                                          /\ sub'[p][t] = {} \/ Genuine(sub[p][t], t)'
                        /\ task'[p][t] \in {"none"} \cup Alive /\ t \notin frozen'[p] =>
                              sub'[p][t] = {} \/ (Kind[t] = "agent" /\ sub'[p][t] = {Raw})
      BY DEF StreamInv
    <2>1. CASE p = r /\ t = s BY <1>1, <1>2, <1>4, <1>5, <2>1 DEF Genuine
    <2>2. CASE p # r \/ t # s
      <3>1. sub'[p][t] = sub[p][t] /\ (Told(p, t)' => Told(p, t)) BY <1>5, <1>a, <2>2
      <3>2. Genuine(sub[p][t], t) => Genuine(sub[p][t], t)' BY <1>1, <3>1 DEF Genuine
      <3> QED BY <1>1, <1>7, <3>1, <3>2 DEF StreamInv
    <2> QED BY <2>1, <2>2
  <1> QED BY <1>1, <1>7, <1>8, <1>9

LEMMA ForkForks ==
  ASSUME TypeOK, LocalInv, ForkInv, NEW r \in Runs, NEW q \in Runs, NEW f \in Steps, Fork(r, q, f)
  PROVE  ForkInv'
  <1>1. /\ pc[r] = "unused" /\ q # r /\ parent'[r] = q /\ mode'[r] = "resume" /\ frozen'[r] \subseteq Steps
        /\ log'[r] = <<OfRun("requested", TRUE), OfRun("forked", TRUE), OfRun("started", TRUE)>>
    BY ForkFacts
  <1>2. TakenOver(r, q) BY ForkFacts
  <1>3. UNCHANGED <<placed, joining, task, skipped, halt, sub, acted, faults>> BY ForkFacts
  <1>4. \A p \in Runs : p # r => Same(p) BY ForkFacts
  <1>5. UNCHANGED pending BY DEF Fork
  <1>6. /\ acted[r] = {} /\ log[r] = << >> /\ frozen[r] = {} /\ \A t \in Steps : sub[r][t] = {}
        /\ skipped[r] = {} /\ \A t \in Steps : task[r][t] = "none"
    BY <1>1 DEF LocalInv, Local, Started, Early
  <1>7. \A p \in Runs, t \in Steps : Told(p, t)' <=> Told(p, t)
    <2>1. ASSUME NEW t \in Steps PROVE ~Told(r, t) /\ ~Told(r, t)'
      <3>1. \A k \in {"requested", "forked", "started"} : OfRun(k, TRUE) # NodeCompleted(t, TRUE)
        BY OtherEvents
      <3>2. \A i \in DOMAIN log'[r] : log'[r][i] # NodeCompleted(t, TRUE)
        <4>1. \A a, b, c, x : x \notin {a, b, c} => \A i \in DOMAIN <<a, b, c>> : <<a, b, c>>[i] # x
          OBVIOUS
        <4>2. NodeCompleted(t, TRUE) \notin
                {OfRun("requested", TRUE), OfRun("forked", TRUE), OfRun("started", TRUE)}
          BY <3>1
        <4> QED BY <1>1, <4>1, <4>2
      <3>3. ~Told(r, t)' BY <3>2 DEF Told, Has, NodeCompleted, Event
      <3>4. DOMAIN log[r] = {} BY <1>6
      <3> QED BY <3>3, <3>4 DEF Told, Has
    <2>2. ASSUME NEW p \in Runs, p # r, NEW t \in Steps PROVE Told(p, t)' <=> Told(p, t)
      BY <1>4, <2>2 DEF Same, Told, Has
    <2> QED BY <2>1, <2>2
  <1>8. ASSUME NEW p \in Runs PROVE FrozenInv(p)'
    <2>1. CASE p = r
      <3>1. \A t \in frozen'[r] : /\ output'[r][t] = sub[q][t] /\ sub[q][t] # {} /\ Told(q, t)
        BY <1>2 DEF TakenOver, Told
      <3>2. \A t \in frozen'[r] : Genuine(sub[q][t], t) BY <1>1, <3>1 DEF ForkInv, StreamInv
      <3>3. \A t \in frozen'[r] : Genuine(output[r][t], t)' BY <1>3, <3>1, <3>2 DEF Genuine
      <3>4. \A t \in frozen'[r], u \in Runs : u = q => Told(u, t)' BY <1>1, <1>7, <3>1
      <3>5. acted'[r] = {} /\ skipped'[r] = {} BY <1>3, <1>6
      <3> QED BY <1>1, <2>1, <3>3, <3>4, <3>5 DEF FrozenInv
    <2>2. CASE p # r
      <3>1. Same(p) /\ FrozenInv(p) /\ frozen[p] \subseteq Steps BY <1>4, <2>2 DEF ForkInv, TypeOK
      <3>2. \A t \in frozen[p] : Genuine(output[p][t], t)' BY <1>3, <3>1 DEF Same, FrozenInv, Genuine
      <3>3. \A t \in frozen[p], u \in Runs : parent[p] = u => Told(u, t)' BY <1>7, <3>1 DEF FrozenInv
      <3> QED BY <3>1, <3>2, <3>3 DEF Same, FrozenInv
    <2> QED BY <2>1, <2>2
  <1>9. ASSUME NEW p \in Runs PROVE StreamInv(p)'
    <2> SUFFICES ASSUME NEW t \in Steps
                 PROVE  /\ Told(p, t)' => /\ task'[p][t] = "ok" \/ t \in frozen'[p]
                                          /\ sub'[p][t] = {} \/ Genuine(sub[p][t], t)'
                        /\ task'[p][t] \in {"none"} \cup Alive /\ t \notin frozen'[p] =>
                              sub'[p][t] = {} \/ (Kind[t] = "agent" /\ sub'[p][t] = {Raw})
      BY DEF StreamInv
    <2>1. StreamInv(p) /\ (frozen'[p] = frozen[p] \/ p = r) BY <1>4 DEF ForkInv, Same
    <2>2. Told(p, t)' => Told(p, t) BY <1>7
    <2>3. Genuine(sub[p][t], t) => Genuine(sub[p][t], t)' BY <1>3 DEF Genuine
    <2> QED BY <1>3, <1>6, <2>1, <2>2, <2>3 DEF StreamInv
  <1> QED BY <1>5, <1>8, <1>9 DEF ForkInv

------------------------------------------------------------------------------

LEMMA ForkInit == Init => ForkInv
  <1> SUFFICES ASSUME Init, NEW r \in Runs PROVE FrozenInv(r) /\ StreamInv(r) /\ pending[r] \in Seq(Closing)
    BY DEF ForkInv
  <1>1. log[r] = << >> /\ DOMAIN log[r] = {} BY DEF Init
  <1>2. \A t \in Steps : ~Told(r, t) BY <1>1 DEF Told, Has
  <1>3. FrozenInv(r) BY DEF Init, FrozenInv
  <1>4. StreamInv(r) BY <1>2 DEF Init, StreamInv
  <1>5. pending[r] = << >> BY DEF Init
  <1> QED BY <1>3, <1>4, <1>5

LEMMA ForkStep ==
  ASSUME TypeOK, LocalInv, ForkInv, [Next]_vars
  PROVE  ForkInv'
  <1>1. CASE UNCHANGED vars
    <2>1. Calm BY <1>1, Unsaid, Calmly DEF vars
    <2> QED BY <2>1, CalmStays
  <1>2. CASE \E r \in Runs : Request(r) BY <1>2, CalmRequest, CalmStays
  <1>3. CASE \E r \in Runs : Handler(r) \/ Bootstrap(r) BY <1>3, CalmHandler, CalmStays
  <1>4. CASE \E r \in Runs : Kill(r) /\ (Fault \/ UNCHANGED faults) BY <1>4, CalmKill, CalmStays
  <1>5. CASE \E r \in Runs, s \in Steps : HandlerStep(r, s) \/ FrozenStep(r, s) BY <1>5, CalmHandlerStep, CalmStays, ReplayForks
  <1>6. CASE \E r \in Runs, s \in Steps : Task(r, s) BY <1>6, TaskForks
  <1>7. CASE \E r \in Runs, q \in Runs, f \in Steps : Fork(r, q, f) BY <1>7, ForkForks
  <1> QED BY <1>1, <1>2, <1>3, <1>4, <1>5, <1>6, <1>7 DEF Next, Die, Exit

(* The invariant of streams and forks. *)
THEOREM LineageInvariant == Spec => [](TypeOK /\ LocalInv /\ ForkInv)
  <1>1. Init => ForkInv BY ForkInit
  <1>2. TypeOK /\ LocalInv /\ ForkInv /\ [Next]_vars => ForkInv' BY ForkStep
  <1>3. Spec => [](TypeOK /\ LocalInv) BY WalkInvariant
  <1> QED BY <1>1, <1>2, <1>3, PTL DEF Spec

(* What a fork takes over is what a run that really did the step produced. *)
THEOREM FrozenOutputsAreGenuine == Spec => []FrozenIsGenuine
  <1>1. TypeOK /\ LocalInv /\ ForkInv => FrozenIsGenuine
    <2> SUFFICES ASSUME TypeOK, LocalInv, ForkInv, NEW r \in Runs, NEW s \in frozen[r]
                 PROVE  /\ task[r][s] = "none" /\ s \notin skipped[r]
                        /\ \/ \E q \in Runs \ {r} : output[r][s] = {q} /\ task[q][s] = "ok"
                           \/ output[r][s] = {Raw} /\ Kind[s] = "agent" /\ faults > 0
      BY DEF FrozenIsGenuine
    <2>1. s \in Steps BY DEF TypeOK
    <2>2. task[r][s] = "none" BY <2>1 DEF LocalInv, Local, Spawned
    <2>3. s \notin skipped[r] /\ Genuine(output[r][s], s) BY DEF ForkInv, FrozenInv
    <2> QED BY <2>2, <2>3 DEF Genuine
  <1> QED BY <1>1, LineageInvariant, PTL

(* No fork acts again for a step that is frozen or marked no_resume. *)
THEOREM ForksRepeatNoEffect == Spec => []NoEffectTwice
  <1>1. ForkInv => NoEffectTwice BY DEF ForkInv, FrozenInv, NoEffectTwice
  <1> QED BY <1>1, LineageInvariant, PTL

------------------------------------------------------------------------------
(* The end of a run, and what its stream tells of it. *)

RunEvents == {"completed", "resolved", "response", "run_completed"}

RunDone == {OfRun("run_completed", TRUE), OfRun("run_completed", FALSE)}

(* The stream of r has e, or the handler is about to write it. *)
Soon(r, e) == \E i \in DOMAIN pending[r] : pending[r][i] = e
Says(r, e) == Has(r, e) \/ Soon(r, e)

(* The handler has resolved the output of the run, or will not. *)
Late == {"sealing", "ok", "err", "completing", "closed", "dead"}

(* What a success stands for. *)
Earned(r) ==
    /\ \A s \in Steps : s \in frozen[r] \cup skipped[r] \/ task[r][s] = "ok"
    /\ Output # << >> => \E s \in Chosen(r) : output[r][s] # {}

(* Who is still at work. *)
Manned(r) == \A s \in Steps : task[r][s] \in Alive => s \in joining[r]
Idle(r) == joining[r] = {} /\ ~session[r]

(* Where a level is over, before the first one, and after the last. *)
Paced(r) ==
    /\ pc[r] \in {"join", "resolve", "sealing", "ok"} => todo[r] = {}
    /\ pc[r] \in {"unused", "requested", "bootstrap", "ok", "dead"} => Idle(r)
    /\ pc[r] \in {"err", "completing", "closed"} /\ todo[r] = {} => Idle(r)
Quiet(r) ==
    /\ Manned(r)
    /\ pc[r] \in {"resolve", "sealing", "ok"} => joining[r] = {}
    /\ Paced(r)
    /\ pc[r] \notin {"sealing", "completing"} => pending[r] = << >>
    /\ \A i \in DOMAIN pending[r] : pending[r][i].kind \in RunEvents

(* The flags of the handler and what it says of the run. *)
Flags(r) ==
    pc[r] # "dead" /\ overall[r] =>
        ~halt[r] /\ \A s \in Steps : task[r][s] = "failed" => s \in joining[r]
Verdict(r) ==
    /\ Flags(r)
    /\ \A ok \in BOOLEAN : Says(r, OfRun("completed", ok)) =>
          /\ pc[r] \in Late /\ joining[r] = {} /\ todo[r] = {}
          /\ pc[r] # "dead" => overall[r] = ok
          /\ pc[r] = "err" => ~ok
    /\ \A ok \in BOOLEAN : Says(r, OfRun("run_completed", ok)) =>
          /\ pc[r] \in Late /\ (mode[r] = "serve" => pc[r] \in {"completing", "closed", "dead"})
          /\ ~Says(r, OfRun("completed", ~ok))
          /\ todo[r] = {} \/ (~ok /\ mode[r] = "serve")
    /\ Says(r, OfRun("response", TRUE)) => pc[r] \in Late

(* How a success was come by. *)
Succeeds(r) ==
    \/ pc[r] \in {"sealing", "ok"} /\ overall[r]
    \/ Says(r, OfRun("run_completed", TRUE)) \/ Says(r, OfRun("response", TRUE))
Placing(r) ==
    /\ \A s \in placed[r] : s \in frozen[r] \cup skipped[r] \/ task[r][s] \in {"ok", "failed"}
    /\ pc[r] = "resolve" /\ ~halt[r] => placed[r] = Steps
Earning(r) ==
    /\ Placing(r)
    /\ Succeeds(r) => Earned(r)

(* One end of the run, in its stream or on the way to it. *)
Once(r) ==
    /\ AtMostOne(Positions(r, RunDone))
    /\ \A i, j \in DOMAIN pending[r] : pending[r][i] \in RunDone /\ pending[r][j] \in RunDone => i = j
    /\ \A e \in RunDone : Has(r, e) => \A d \in RunDone : ~Soon(r, d)

(* What the stream may have told of a step: only what has happened to it. *)
StartsOf(s) == {NodeStarted(s), Skip(s)}
EndsOf(s)   == {NodeCompleted(s, TRUE), NodeCompleted(s, FALSE)}
Entered(r, s) == s \in frozen[r] /\ (pc[r] = "bootstrap" => s \notin todo[r])
Begun(r, s)   == task[r][s] \notin {"none", "spawned"} \/ s \in skipped[r] \/ Entered(r, s)
Through(r, s) == \/ task[r][s] \in {"ok", "failed"} \/ Entered(r, s)
                 \/ task[r][s] = "error" /\ s \notin joining[r]
Nodes(r) ==
    \A s \in Steps :
        /\ \A e \in StartsOf(s) : Has(r, e) => Begun(r, s)
        /\ \A e \in EndsOf(s) : Has(r, e) => Through(r, s)
        /\ AtMostOne(Positions(r, StartsOf(s)))
        /\ AtMostOne(Positions(r, EndsOf(s)))

End(r) == Quiet(r) /\ Verdict(r) /\ Earning(r) /\ Once(r) /\ Nodes(r)

EndInv == \A r \in Runs : End(r)

------------------------------------------------------------------------------
(* How a stream grows *)

(* The events es are added to the stream of r. *)
Grows(r, es) == es \in Seq(Entry) /\ log'[r] = log[r] \o es

LEMMA Places ==
  ASSUME NEW S, NEW a \in Seq(S), NEW b \in Seq(S), NEW n \in Nat, NEW m \in Nat, n = Len(a), m = Len(b)
  PROVE  /\ DOMAIN a = 1..n /\ DOMAIN b = 1..m /\ DOMAIN (a \o b) = 1..(n + m)
         /\ \A i \in 1..n : i \in 1..(n + m) /\ (a \o b)[i] = a[i]
         /\ \A i \in 1..(n + m) : i \in 1..n \/ (i - n \in 1..m /\ (a \o b)[i] = b[i - n])
  <1>1. a \o b \in Seq(S) /\ Len(a \o b) = n + m BY ConcatProperties
  <1>2. DOMAIN a = 1..n /\ DOMAIN b = 1..m /\ DOMAIN (a \o b) = 1..(n + m) BY <1>1, LenProperties
  <1>3. \A i \in 1..Len(a) + Len(b) : (a \o b)[i] = IF i <= Len(a) THEN a[i] ELSE b[i - Len(a)]
    BY ConcatProperties
  <1>4. \A i \in 1..(n + m) : (a \o b)[i] = IF i <= n THEN a[i] ELSE b[i - n] BY ONLY <1>3, n = Len(a), m = Len(b)
  <1>5. \A i \in 1..n : i \in 1..(n + m) /\ i <= n BY SMT
  <1>6. \A i \in 1..(n + m) : i \in 1..n \/ (i - n \in 1..m /\ ~(i <= n)) BY SMT
  <1> QED BY ONLY <1>2, <1>4, <1>5, <1>6

LEMMA ConcatOnce ==
  ASSUME NEW S, NEW a \in Seq(S), NEW b \in Seq(S), NEW E,
         \A i, j \in DOMAIN a : a[i] \in E /\ a[j] \in E => i = j,
         \A i, j \in DOMAIN b : b[i] \in E /\ b[j] \in E => i = j,
         \A i \in DOMAIN a, j \in DOMAIN b : ~(a[i] \in E /\ b[j] \in E)
  PROVE  \A i, j \in DOMAIN (a \o b) : (a \o b)[i] \in E /\ (a \o b)[j] \in E => i = j
  <1>1. PICK n \in Nat : n = Len(a) BY LenProperties
  <1>2. PICK m \in Nat : m = Len(b) BY LenProperties
  <1>3. DOMAIN a = 1..n /\ DOMAIN b = 1..m /\ DOMAIN (a \o b) = 1..(n + m) BY <1>1, <1>2, Places
  <1>4. \A i \in 1..n : (a \o b)[i] = a[i] BY <1>1, <1>2, Places
  <1>6. \A i \in 1..(n + m) : i \in 1..n \/ (i - n \in 1..m /\ (a \o b)[i] = b[i - n])
    BY <1>1, <1>2, Places
  <1>7. /\ \A i, j \in 1..n : a[i] \in E /\ a[j] \in E => i = j
        /\ \A i, j \in 1..m : b[i] \in E /\ b[j] \in E => i = j
        /\ \A i \in 1..n, j \in 1..m : ~(a[i] \in E /\ b[j] \in E)
    BY <1>3
  <1>8. ASSUME NEW i \in 1..(n + m), NEW j \in 1..(n + m), (a \o b)[i] \in E, (a \o b)[j] \in E
        PROVE  i = j
    <2>1. CASE i \in 1..n /\ j \in 1..n BY ONLY <1>4, <1>7, <1>8, <2>1
    <2>2. CASE i \in 1..n /\ j \notin 1..n BY ONLY <1>4, <1>6, <1>7, <1>8, <2>2
    <2>3. CASE i \notin 1..n /\ j \in 1..n BY ONLY <1>4, <1>6, <1>7, <1>8, <2>3
    <2>4. CASE i \notin 1..n /\ j \notin 1..n
      <3>1. i - n = j - n BY ONLY <1>6, <1>7, <1>8, <2>4
      <3> QED BY <3>1
    <2> QED BY <2>1, <2>2, <2>3, <2>4
  <1> QED BY ONLY <1>3, <1>8

LEMMA GrowHas ==
  ASSUME TypeOK, NEW r \in Runs, NEW es, Grows(r, es), NEW x
  PROVE  Has(r, x)' <=> Has(r, x) \/ \E i \in DOMAIN es : es[i] = x
  <1>1. log[r] \in Seq(Entry) /\ es \in Seq(Entry) /\ log'[r] = log[r] \o es BY DEF TypeOK, Grows
  <1>2. Range(log'[r]) = Range(log[r]) \cup Range(es) BY ONLY <1>1, RangeConcatenation
  <1>3. Has(r, x)' <=> x \in Range(log'[r]) BY DEF Has, Range
  <1>4. Has(r, x) <=> x \in Range(log[r]) BY DEF Has, Range
  <1>5. (\E i \in DOMAIN es : es[i] = x) <=> x \in Range(es) BY DEF Range
  <1> QED BY ONLY <1>2, <1>3, <1>4, <1>5

LEMMA GrowOnce ==
  ASSUME TypeOK, NEW r \in Runs, NEW es, Grows(r, es), NEW E, AtMostOne(Positions(r, E)),
         \A i, j \in DOMAIN es : es[i] \in E /\ es[j] \in E => i = j,
         \A i \in DOMAIN es : es[i] \in E => \A x \in E : ~Has(r, x)
  PROVE  AtMostOne(Positions(r, E))'
  <1>1. log[r] \in Seq(Entry) /\ es \in Seq(Entry) /\ log'[r] = log[r] \o es BY DEF TypeOK, Grows
  <1>2. PICK a \in Seq(Entry) : a = log[r] BY <1>1
  <1>3. log'[r] = a \o es BY <1>1, <1>2
  <1>4. \A i, j \in DOMAIN a : a[i] \in E /\ a[j] \in E => i = j BY <1>2 DEF AtMostOne, Positions
  <1>5. \A i \in DOMAIN a, j \in DOMAIN es : ~(a[i] \in E /\ es[j] \in E) BY <1>2 DEF Has
  <1>6. \A i, j \in DOMAIN (a \o es) : (a \o es)[i] \in E /\ (a \o es)[j] \in E => i = j
    BY <1>1, <1>4, <1>5, ConcatOnce
  <1> QED BY ONLY <1>3, <1>6 DEF AtMostOne, Positions

(* An event that is emitted, or lost. *)
LEMMA GrowEmit ==
  ASSUME TypeOK, NEW r \in Runs, NEW e \in Entry,
         log' = [log EXCEPT ![r] = Append(@, e)] \/ log' = log
  PROVE  \E es \in {<< >>, <<e>>} : Grows(r, es)
  <1>1. log \in [Runs -> Seq(Entry)] /\ log[r] \in Seq(Entry) BY DEF TypeOK
  <1>2. << >> \in Seq(Entry) /\ <<e>> \in Seq(Entry) OBVIOUS
  <1>3. log[r] \o << >> = log[r] BY <1>1, ConcatEmptySeq
  <1>4. Append(log[r], e) = log[r] \o <<e>> BY <1>1, AppendIsConcat
  <1>5. CASE log' = log BY <1>2, <1>3, <1>5 DEF Grows
  <1>6. CASE log' = [log EXCEPT ![r] = Append(@, e)]
    <2>1. log'[r] = Append(log[r], e) BY <1>1, <1>6
    <2> QED BY <1>2, <1>4, <2>1 DEF Grows
  <1> QED BY <1>5, <1>6

(* What is not said of the run leaves what is said of it as it is. *)
RunUnsaid(r) ==
    /\ \A ok \in BOOLEAN :
          /\ Says(r, OfRun("completed", ok))' <=> Says(r, OfRun("completed", ok))
          /\ Says(r, OfRun("run_completed", ok))' <=> Says(r, OfRun("run_completed", ok))
          /\ Says(r, OfRun("response", ok))' <=> Says(r, OfRun("response", ok))
    /\ Once(r) => Once(r)'

LEMMA Mum ==
  ASSUME TypeOK, NEW r \in Runs, NEW es, Grows(r, es), \A i \in DOMAIN es : es[i].kind \notin RunEvents,
         pending'[r] = pending[r]
  PROVE  RunUnsaid(r)
  <1>1. \A k \in RunEvents, ok \in BOOLEAN : OfRun(k, ok).kind \in RunEvents BY DEF OfRun, Event
  <1>2. ASSUME NEW e, e.kind \in RunEvents PROVE Has(r, e)' <=> Has(r, e)
    <2>1. Has(r, e)' <=> Has(r, e) \/ \E i \in DOMAIN es : es[i] = e BY GrowHas
    <2> QED BY <2>1, <1>2
  <1>3. ASSUME NEW e PROVE Soon(r, e)' <=> Soon(r, e) BY DEF Soon
  <1>4. ASSUME NEW k \in RunEvents, NEW ok \in BOOLEAN PROVE Says(r, OfRun(k, ok))' <=> Says(r, OfRun(k, ok))
    BY <1>1, <1>2, <1>3 DEF Says
  <1>5. \A e \in RunDone : e.kind \in RunEvents BY <1>1 DEF RunDone, RunEvents
  <1>6. ASSUME Once(r) PROVE Once(r)'
    <2>1. AtMostOne(Positions(r, RunDone))' BY <1>5, <1>6, GrowOnce DEF Once
    <2>2. \A e \in RunDone : (Has(r, e)' <=> Has(r, e)) /\ (Soon(r, e)' <=> Soon(r, e))
      BY <1>2, <1>3, <1>5
    <2> QED BY <1>6, <2>1, <2>2 DEF Once
  <1> QED BY <1>4, <1>6 DEF RunUnsaid, RunEvents

(* A step undoes nothing of what has happened to the steps of r. *)
Forward(r) ==
    \A s \in Steps : (Begun(r, s) => Begun(r, s)') /\ (Through(r, s) => Through(r, s)')

(* An event about a step is told as the thing happens, and never before it. *)
LEMMA NodesGrow ==
  ASSUME TypeOK, NEW r \in Runs, NEW es, Grows(r, es), Nodes(r), Forward(r),
         \A s \in Steps, i \in DOMAIN es : es[i] \in StartsOf(s) => ~Begun(r, s) /\ Begun(r, s)',
         \A s \in Steps, i \in DOMAIN es : es[i] \in EndsOf(s) => ~Through(r, s) /\ Through(r, s)',
         \A s \in Steps, i, j \in DOMAIN es : es[i] \in StartsOf(s) /\ es[j] \in StartsOf(s) => i = j,
         \A s \in Steps, i, j \in DOMAIN es : es[i] \in EndsOf(s) /\ es[j] \in EndsOf(s) => i = j
  PROVE  Nodes(r)'
  <1> SUFFICES ASSUME NEW s \in Steps
               PROVE  /\ \A e \in StartsOf(s) : Has(r, e)' => Begun(r, s)'
                      /\ \A e \in EndsOf(s) : Has(r, e)' => Through(r, s)'
                      /\ AtMostOne(Positions(r, StartsOf(s)))'
                      /\ AtMostOne(Positions(r, EndsOf(s)))'
    BY DEF Nodes, StartsOf, EndsOf
  <1>1. ASSUME NEW e PROVE Has(r, e)' <=> Has(r, e) \/ \E i \in DOMAIN es : es[i] = e BY GrowHas
  <1>2. /\ \A e \in StartsOf(s) : Has(r, e) => Begun(r, s)
        /\ \A e \in EndsOf(s) : Has(r, e) => Through(r, s)
        /\ AtMostOne(Positions(r, StartsOf(s)))
        /\ AtMostOne(Positions(r, EndsOf(s)))
    BY DEF Nodes
  <1>3. \A e \in StartsOf(s) : Has(r, e)' => Begun(r, s)' BY <1>1, <1>2 DEF Forward
  <1>4. \A e \in EndsOf(s) : Has(r, e)' => Through(r, s)' BY <1>1, <1>2 DEF Forward
  <1>5. \A i \in DOMAIN es : es[i] \in StartsOf(s) => \A x \in StartsOf(s) : ~Has(r, x) BY <1>2
  <1>6. \A i \in DOMAIN es : es[i] \in EndsOf(s) => \A x \in EndsOf(s) : ~Has(r, x) BY <1>2
  <1>7. \A E : (E = StartsOf(s) \/ E = EndsOf(s)) => AtMostOne(Positions(r, E))'
    <2> SUFFICES ASSUME NEW E, E = StartsOf(s) \/ E = EndsOf(s) PROVE AtMostOne(Positions(r, E))' OBVIOUS
    <2>1. AtMostOne(Positions(r, E)) BY <1>2
    <2>2. \A i, j \in DOMAIN es : es[i] \in E /\ es[j] \in E => i = j OBVIOUS
    <2>3. \A i \in DOMAIN es : es[i] \in E => \A x \in E : ~Has(r, x) BY <1>5, <1>6
    <2> QED BY <2>1, <2>2, <2>3, GrowOnce
  <1> QED BY <1>3, <1>4, <1>7 DEF StartsOf, EndsOf

(* The kinds of event that tell of a step. *)
LEMMA NodeKinds ==
  ASSUME NEW s \in Steps, NEW e, e \in StartsOf(s) \cup EndsOf(s)
  PROVE  e.step = s /\ e.kind \in {"node_started", "skipped", "node_completed"}
  BY DEF StartsOf, EndsOf, NodeStarted, NodeCompleted, Skip, Event

(* Events that tell of no step. *)
LEMMA NodesUntold ==
  ASSUME TypeOK, NEW r \in Runs, NEW es, Grows(r, es), Nodes(r), Forward(r),
         \A i \in DOMAIN es : es[i].kind \notin {"node_started", "skipped", "node_completed"}
  PROVE  Nodes(r)'
  <1>1. \A s \in Steps, i \in DOMAIN es : es[i] \notin StartsOf(s) /\ es[i] \notin EndsOf(s)
    BY NodeKinds
  <1> QED BY <1>1, NodesGrow

------------------------------------------------------------------------------
(* Other runs *)

Untouched(q) ==
    Same(q) /\ overall'[q] = overall[q] /\ pending'[q] = pending[q] /\ session'[q] = session[q]

LEMMA EndFrame ==
  ASSUME NEW q \in Runs, End(q), Untouched(q)
  PROVE  End(q)'
  <1> USE DEF Untouched, Same
  <1>1. \A e : (Has(q, e)' <=> Has(q, e)) /\ (Soon(q, e)' <=> Soon(q, e)) BY DEF Has, Soon
  <1>2. \A e : Says(q, e)' <=> Says(q, e) BY <1>1 DEF Says
  <1>3. Quiet(q)' BY DEF End, Quiet, Manned, Paced, Idle
  <1>4. Verdict(q)' BY <1>2 DEF End, Verdict, Flags
  <1>5. Earned(q)' <=> Earned(q) BY DEF Earned, Chosen, Survivors
  <1>6. Earning(q)' BY <1>2, <1>5 DEF End, Earning, Placing, Succeeds
  <1>7. \A E : Positions(q, E)' = Positions(q, E) BY DEF Positions
  <1>8. Once(q)' BY <1>1, <1>7 DEF End, Once, AtMostOne, RunDone
  <1>9. \A s \in Steps : (Begun(q, s)' <=> Begun(q, s)) /\ (Through(q, s)' <=> Through(q, s))
    BY DEF Begun, Through, Entered
  <1>10. Nodes(q)' BY <1>1, <1>7, <1>9 DEF End, Nodes, AtMostOne, StartsOf, EndsOf
  <1> QED BY <1>3, <1>4, <1>6, <1>8, <1>10 DEF End

LEMMA OtherRuns ==
  ASSUME TypeOK, LocalInv, NEW r \in Runs, NEW q \in Runs, q # r,
         \/ Request(r) \/ Handler(r) \/ Bootstrap(r) \/ Kill(r)
         \/ \E s \in Steps : HandlerStep(r, s) \/ FrozenStep(r, s) \/ Task(r, s)
         \/ \E p \in Runs, f \in Steps : Fork(r, p, f)
  PROVE  Untouched(q)
  <1>t. /\ mode \in [Runs -> Modes] /\ parent \in [Runs -> Runs] /\ frozen \in [Runs -> SUBSET Steps]
        /\ DOMAIN pc = Runs /\ placed \in [Runs -> SUBSET Steps] /\ todo \in [Runs -> SUBSET Steps]
        /\ joining \in [Runs -> SUBSET Steps] /\ skipped \in [Runs -> SUBSET Steps]
        /\ DOMAIN task = Runs /\ DOMAIN output = Runs /\ DOMAIN sub = Runs
        /\ overall \in [Runs -> BOOLEAN] /\ halt \in [Runs -> BOOLEAN]
        /\ pending \in [Runs -> Seq(Entry)] /\ log \in [Runs -> Seq(Entry)]
        /\ acted \in [Runs -> SUBSET Steps] /\ session \in [Runs -> BOOLEAN]
    BY DEF TypeOK
  <1>f. ASSUME NEW p \in Runs, NEW f \in Steps, Fork(r, p, f) PROVE Same(q)
    <2>1. \A o \in Runs : o # r => Same(o) BY <1>f, ForkFacts
    <2> QED BY <2>1
  <1> USE DEF decisions, level, stream, results, Same, Untouched
  <1>1. CASE Request(r) BY <1>t, <1>1 DEF Request, Emit
  <1>2. CASE Kill(r) BY <1>t, <1>2 DEF Kill
  <1>3. CASE Handler(r)
    <2>1. CASE Begin(r) BY <1>t, <2>1 DEF Begin, Emit
    <2>2. CASE AllSpawned(r) BY <1>t, <2>2 DEF AllSpawned
    <2>3. CASE NextLevel(r) BY <1>t, <2>3 DEF NextLevel
    <2>4. CASE Break(r) BY <1>t, <2>4 DEF Break
    <2>5. CASE Resolve(r) BY <1>t, <2>5 DEF Resolve
    <2>6. CASE EmitPending(r) BY <1>t, <2>6 DEF EmitPending, Emit
    <2>7. CASE Finish(r) BY <1>t, <2>7 DEF Finish
    <2>8. CASE RouterCompletes(r) BY <1>t, <2>8 DEF RouterCompletes
    <2>9. CASE RouterDone(r) BY <1>t, <2>9 DEF RouterDone
    <2> QED BY <1>3, <2>1, <2>2, <2>3, <2>4, <2>5, <2>6, <2>7, <2>8, <2>9 DEF Handler
  <1>4. CASE Bootstrap(r)
    <2>1. CASE BootstrapFails(r) BY <1>t, <2>1 DEF BootstrapFails
    <2>2. CASE BootstrapDone(r) BY <1>t, <2>2 DEF BootstrapDone
    <2> QED BY <1>4, <2>1, <2>2 DEF Bootstrap
  <1>5. ASSUME NEW s \in Steps, HandlerStep(r, s) PROVE Untouched(q)
    <2>1. CASE SkipStep(r, s) BY <1>t, <2>1 DEF SkipStep, Emit
    <2>2. CASE WhenFails(r, s) BY <1>t, <2>2 DEF WhenFails
    <2>3. CASE Spawn(r, s) BY <1>t, <2>3 DEF Spawn
    <2>4. CASE JoinResult(r, s) BY <1>t, <2>4 DEF JoinResult
    <2>5. CASE JoinError(r, s) BY <1>t, <2>5 DEF JoinError, Emit
    <2> QED BY <1>5, <2>1, <2>2, <2>3, <2>4, <2>5 DEF HandlerStep
  <1>6. ASSUME NEW s \in Steps, FrozenStep(r, s) PROVE Untouched(q)
    <2>1. CASE PassFrozen(r, s) BY <1>t, <2>1 DEF PassFrozen
    <2>2. CASE ReplayFrozen(r, s) BY <1>t, <2>2 DEF ReplayFrozen
    <2> QED BY <1>6, <2>1, <2>2 DEF FrozenStep
  <1>7. ASSUME NEW s \in Steps, Task(r, s) PROVE Untouched(q)
    <2>1. /\ \E v : task' = [task EXCEPT ![r][s] = v]
          /\ UNCHANGED handler
          /\ log'[q] = log[q] /\ sub'[q] = sub[q] /\ acted'[q] = acted[q]
      BY <1>7, TaskFacts
    <2>2. task'[q] = task[q] BY <1>t, <2>1
    <2>3. session'[q] = session[q]
      BY <1>t, <1>7 DEF Task, StepStarts, ExecuteTool, RefuseCall, ToolReturns, AskReturns, AgentAnswers,
                        AgentGivesUp, TaskErrs
    <2> QED BY <2>1, <2>2, <2>3 DEF handler
  <1>8. ASSUME NEW p \in Runs, NEW f \in Steps, Fork(r, p, f) PROVE Untouched(q)
    <2>1. Same(q) BY <1>f, <1>8
    <2>2. UNCHANGED <<overall, pending, session>> BY <1>8 DEF Fork
    <2> QED BY <2>1, <2>2
  <1> QED BY <1>1, <1>2, <1>3, <1>4, <1>5, <1>6, <1>7, <1>8

------------------------------------------------------------------------------
(* Tasks *)

(* What the task of s makes of it, and what it writes as it does. *)
Works(r, s, v, es) ==
    /\ v \in {"running", "acted"} \cup Over
    /\ task' = [task EXCEPT ![r][s] = v]
    /\ Grows(r, es)
    /\ \/ es = << >>
       \/ es = <<NodeStarted(s)>> /\ task[r][s] = "spawned" /\ v = "running"
       \/ v \in {"ok", "failed"} /\ \E ok \in BOOLEAN : es = <<NodeCompleted(s, ok)>>

LEMMA TaskSays ==
  ASSUME TypeOK, NEW r \in Runs, NEW s \in Steps, Task(r, s)
  PROVE  \E v, es : Works(r, s, v, es)
  <1>1. log \in [Runs -> Seq(Entry)] /\ log[r] \in Seq(Entry) BY DEF TypeOK
  <1>2. task \in [Runs -> [Steps -> {"none", "killed"} \cup Alive \cup Over]] BY DEF TypeOK
  <1>3. NodeStarted(s) \in Entry /\ \A ok \in BOOLEAN : NodeCompleted(s, ok) \in Entry BY Entries
  <1>4. ASSUME log' = log PROVE Grows(r, << >>)
    <2>1. << >> \in Seq(Entry) /\ log[r] \o << >> = log[r] BY <1>1, ConcatEmptySeq
    <2> QED BY <1>4, <2>1 DEF Grows
  <1>5. ASSUME NEW v \in {"running", "acted"} \cup Over, task' = [task EXCEPT ![r][s] = v], log' = log
        PROVE  \E es : Works(r, s, v, es)
    <2>1. Works(r, s, v, << >>) BY <1>4, <1>5 DEF Works
    <2> QED BY <2>1
  <1>6. ASSUME NEW ok \in BOOLEAN, Return(r, s, ok),
               log' = log \/ log' = [log EXCEPT ![r] = Append(@, NodeCompleted(s, ok))]
        PROVE  \E v, es : Works(r, s, v, es)
    <2>1. PICK v \in {"ok", "failed"} : task' = [task EXCEPT ![r][s] = v] BY <1>6 DEF Return
    <2>2. PICK es \in {<< >>, <<NodeCompleted(s, ok)>>} : Grows(r, es)
      <3>1. NodeCompleted(s, ok) \in Entry BY <1>3
      <3> QED BY <1>6, <3>1, GrowEmit
    <2>3. Works(r, s, v, es) BY <2>1, <2>2 DEF Works, Over
    <2> QED BY <2>3
  <1>a. CASE StepStarts(r, s)
    <2>1. PICK es \in {<< >>, <<NodeStarted(s)>>} : Grows(r, es)
      <3>1. log' = log \/ log' = [log EXCEPT ![r] = Append(@, NodeStarted(s))]
        BY <1>a DEF StepStarts, Emit
      <3> QED BY <1>3, <3>1, GrowEmit
    <2>2. Works(r, s, "running", es) BY <1>a, <2>1 DEF StepStarts, Works
    <2> QED BY <2>2
  <1>b. CASE ExecuteTool(r, s)
    <2>1. log' = log /\ task[r][s] = "running" BY <1>b DEF ExecuteTool
    <2>2. \E v \in {"running", "acted"} : task' = [task EXCEPT ![r][s] = v]
      BY <1>b, <1>2 DEF ExecuteTool
    <2> QED BY <2>1, <2>2, <1>5
  <1>c. CASE RefuseCall(r, s)
    <2>1. log' = log /\ task' = [task EXCEPT ![r][s] = "running"] BY <1>c, <1>2 DEF RefuseCall
    <2> QED BY <2>1, <1>5
  <1>d. CASE ToolReturns(r, s) BY <1>d, <1>6 DEF ToolReturns, Conclude
  <1>e. CASE AskReturns(r, s) BY <1>e, <1>6 DEF AskReturns, Emit
  <1>f. CASE AgentAnswers(r, s) BY <1>f, <1>6 DEF AgentAnswers, Conclude
  <1>g. CASE AgentGivesUp(r, s) BY <1>g, <1>6 DEF AgentGivesUp, stream
  <1>h. CASE TaskErrs(r, s) BY <1>h, <1>5 DEF TaskErrs, stream, Over
  <1> QED BY <1>a, <1>b, <1>c, <1>d, <1>e, <1>f, <1>g, <1>h DEF Task

LEMMA EndTask ==
  ASSUME TypeOK, LocalInv, NEW r \in Runs, End(r), NEW s \in Steps, Task(r, s)
  PROVE  End(r)'
  <1>1. PICK v, es : Works(r, s, v, es) BY TaskSays
  <1>2. task[r][s] \in Alive /\ UNCHANGED handler BY TaskFacts
  <1>3. /\ task'[r][s] = v /\ v \in {"running", "acted"} \cup Over
        /\ \A t \in Steps : t # s => task'[r][t] = task[r][t]
    BY <1>1 DEF Works, TypeOK
  <1>4. /\ mode' = mode /\ frozen' = frozen /\ pc' = pc /\ placed' = placed /\ todo' = todo
        /\ joining' = joining /\ output' = output /\ skipped' = skipped /\ overall' = overall
        /\ halt' = halt /\ pending' = pending
    BY <1>2 DEF handler, decisions, level, results
  <1>5. s \in joining[r] /\ s \notin frozen[r] \cup skipped[r]
    BY <1>2 DEF End, Quiet, Manned, LocalInv, Local, Spawned, Alive
  <1>6. Grows(r, es) /\ \A i \in DOMAIN es : es[i] = es[1] /\ i = 1 /\ es[1].kind \notin RunEvents
    <2>1. \A k : DOMAIN <<k>> = {1} OBVIOUS
    <2>2. DOMAIN << >> = {} OBVIOUS
    <2>3. NodeStarted(s).kind = "node_started" /\ \A ok \in BOOLEAN : NodeCompleted(s, ok).kind = "node_completed"
      BY DEF NodeStarted, NodeCompleted, Event
    <2> QED BY <1>1, <2>1, <2>2, <2>3 DEF Works, RunEvents
  <1>7. RunUnsaid(r) BY <1>4, <1>6, Mum
  <1>8. Quiet(r)' BY <1>2, <1>3, <1>4, <1>5 DEF End, Quiet, Manned, Paced, Idle
  <1>9. Verdict(r)'
    <2>1. \A t \in Steps : task'[r][t] = "failed" => task[r][t] = "failed" \/ t \in joining[r]
      BY <1>3, <1>5
    <2> QED BY <2>1, <1>4, <1>7 DEF End, Verdict, Flags, RunUnsaid
  <1>10. Earning(r)'
    <2>1. Succeeds(r)' <=> Succeeds(r) BY <1>4, <1>7 DEF RunUnsaid, Succeeds
    <2>2. Earned(r) => FALSE BY <1>2, <1>5 DEF Earned, Alive
    <2>3. placed[r] \subseteq Steps BY DEF TypeOK
    <2> QED BY <2>1, <2>2, <2>3, <1>2, <1>3, <1>4, <1>5 DEF End, Earning, Placing, Alive
  <1>11. Once(r)' BY <1>7 DEF End, RunUnsaid
  <1>12. Nodes(r)'
    <2>1. ASSUME NEW t \in Steps, t # s PROVE (Begun(r, t) => Begun(r, t)') /\ (Through(r, t) => Through(r, t)')
      <3>1. task'[r][t] = task[r][t] BY <1>3, <2>1
      <3> QED BY <3>1, <1>4 DEF Begun, Through, Entered
    <2>2. Begun(r, s)' /\ ~Through(r, s)
      BY <1>2, <1>3, <1>4, <1>5 DEF Begun, Through, Entered, Over, Alive
    <2>3. Forward(r) BY <2>1, <2>2 DEF Forward
    <2>4. task[r][s] = "spawned" => ~Begun(r, s) BY <1>5 DEF Begun, Entered
    <2>5. v \in {"ok", "failed"} => Through(r, s)' BY <1>3 DEF Through
    <2>6. \A t \in Steps, ok \in BOOLEAN :
             /\ NodeStarted(s) \notin EndsOf(t)
             /\ NodeStarted(s) \in StartsOf(t) => t = s
             /\ NodeCompleted(s, ok) \notin StartsOf(t)
             /\ NodeCompleted(s, ok) \in EndsOf(t) => t = s
      BY DEF StartsOf, EndsOf, NodeStarted, NodeCompleted, Skip, Event
    <2>7. CASE es = << >>
      <3>1. DOMAIN es = {} BY <2>7
      <3> QED BY <1>6, <2>3, <3>1, NodesGrow DEF End
    <2>8. CASE es = <<NodeStarted(s)>> /\ task[r][s] = "spawned" /\ v = "running"
      <3>1. \A i \in DOMAIN es : es[i] = NodeStarted(s) /\ i = 1 BY <2>8, <1>6
      <3> QED BY <1>6, <2>2, <2>3, <2>4, <2>6, <2>8, <3>1, NodesGrow DEF End
    <2>9. CASE v \in {"ok", "failed"} /\ \E ok \in BOOLEAN : es = <<NodeCompleted(s, ok)>>
      <3>1. PICK ok \in BOOLEAN : \A i \in DOMAIN es : es[i] = NodeCompleted(s, ok) /\ i = 1 BY <2>9, <1>6
      <3>2. \A t \in Steps, i \in DOMAIN es : es[i] \notin StartsOf(t) /\ (es[i] \in EndsOf(t) => t = s)
        BY <2>6, <3>1
      <3>3. \A i, j \in DOMAIN es : i = j BY <3>1
      <3>4. Through(r, s)' /\ ~Through(r, s) BY <2>2, <2>5, <2>9
      <3>5. \A t \in Steps, i \in DOMAIN es : es[i] \in EndsOf(t) => ~Through(r, t) /\ Through(r, t)'
        BY <3>2, <3>4
      <3> QED BY <1>6, <2>3, <3>2, <3>3, <3>5, NodesGrow DEF End
    <2> QED BY <1>1, <2>7, <2>8, <2>9 DEF Works
  <1> QED BY <1>8, <1>9, <1>10, <1>11, <1>12 DEF End

------------------------------------------------------------------------------
(* Steps that come before the end of a run *)

(* Before it has resolved its output, a handler says nothing of how the run ends. *)
LEMMA BeforeTheEnd ==
  ASSUME TypeOK, NEW r \in Runs, End(r), pc[r] \notin Late, pc'[r] \notin {"sealing", "ok"},
         NEW es, Grows(r, es), \A i \in DOMAIN es : es[i].kind \notin RunEvents, pending'[r] = pending[r],
         Manned(r)', Paced(r)', pc'[r] = "resolve" => joining'[r] = {}, Flags(r)', Placing(r)', Nodes(r)'
  PROVE  End(r)'
  <1>1. RunUnsaid(r) BY Mum
  <1>2. \A ok \in BOOLEAN :
           /\ ~Says(r, OfRun("completed", ok))' /\ ~Says(r, OfRun("run_completed", ok))'
           /\ ~Says(r, OfRun("response", TRUE))'
    BY <1>1 DEF End, Verdict, RunUnsaid
  <1>3. Quiet(r)'
    <2>1. pending[r] = << >> BY DEF End, Quiet, Late
    <2>2. DOMAIN << >> = {} OBVIOUS
    <2> QED BY <2>1, <2>2 DEF Quiet
  <1>4. Verdict(r)' BY <1>2 DEF Verdict
  <1>5. Earning(r)' BY <1>2 DEF Earning, Succeeds
  <1>6. Once(r)' BY <1>1 DEF End, RunUnsaid
  <1> QED BY <1>3, <1>4, <1>5, <1>6 DEF End

(* One event at most, about the run but not about its end. *)
LEMMA Quietly ==
  ASSUME TypeOK, NEW r \in Runs, NEW k \in {"requested", "started"}, Nodes(r), Forward(r),
         log' = [log EXCEPT ![r] = Append(@, OfRun(k, TRUE))] \/ log' = log
  PROVE  /\ Nodes(r)'
         /\ \E es : Grows(r, es) /\ \A i \in DOMAIN es : es[i].kind \notin RunEvents
  <1>1. OfRun(k, TRUE) \in Entry /\ OfRun(k, TRUE).kind = k BY DEF OfRun, Event, Entry, Kinds
  <1>2. PICK es \in {<< >>, <<OfRun(k, TRUE)>>} : Grows(r, es) BY <1>1, GrowEmit
  <1>3. \A i \in DOMAIN es : es[i] = OfRun(k, TRUE)
    <2>1. \A e : \A i \in DOMAIN <<e>> : <<e>>[i] = e OBVIOUS
    <2>2. \A i \in DOMAIN << >> : FALSE OBVIOUS
    <2> QED BY ONLY <1>2, <2>1, <2>2, Zenon
  <1>4. \A i \in DOMAIN es : es[i].kind \notin {"node_started", "skipped", "node_completed"} BY <1>1, <1>3
  <1>5. \A i \in DOMAIN es : es[i].kind \notin RunEvents BY <1>1, <1>3 DEF RunEvents
  <1>6. Nodes(r)' BY <1>2, <1>4, NodesUntold
  <1> QED BY <1>2, <1>5, <1>6

LEMMA EndRequest ==
  ASSUME TypeOK, LocalInv, NEW r \in Runs, End(r), Request(r)
  PROVE  End(r)'
  <1>1. /\ pc[r] = "unused" /\ pc' = [pc EXCEPT ![r] = "requested"]
        /\ UNCHANGED <<frozen, level, task, results, pending>>
    BY DEF Request
  <1>2. pc'[r] = "requested" BY <1>1 DEF TypeOK
  <1>3. /\ frozen' = frozen /\ placed' = placed /\ todo' = todo /\ joining' = joining /\ task' = task
        /\ output' = output /\ skipped' = skipped /\ overall' = overall /\ halt' = halt
        /\ pending' = pending
    BY <1>1 DEF level, results
  <1>4. log' = [log EXCEPT ![r] = Append(@, OfRun("requested", TRUE))] \/ log' = log BY DEF Request, Emit
  <1>5. Forward(r) BY <1>1, <1>2, <1>3 DEF Forward, Begun, Through, Entered
  <1>6. /\ Nodes(r)'
        /\ \E es : Grows(r, es) /\ \A i \in DOMAIN es : es[i].kind \notin RunEvents
    BY <1>4, <1>5, Quietly DEF End
  <1>7. Manned(r)' BY <1>3 DEF End, Quiet, Manned
  <1>8. Flags(r)' BY <1>1, <1>3 DEF End, Verdict, Flags
  <1>9. Placing(r)' BY <1>2, <1>3 DEF End, Earning, Placing
  <1>10. pc[r] \notin Late /\ pc'[r] \notin {"sealing", "ok", "resolve"} BY <1>1, <1>2 DEF Late
  <1>11. Paced(r)'
    <2>1. session' = session BY DEF Request
    <2> QED BY <1>1, <1>2, <1>3, <2>1 DEF End, Quiet, Paced, Idle
  <1> QED BY <1>3, <1>6, <1>7, <1>8, <1>9, <1>10, <1>11, BeforeTheEnd

LEMMA EndFork ==
  ASSUME TypeOK, LocalInv, NEW r \in Runs, End(r), NEW q \in Runs, NEW f \in Steps, Fork(r, q, f)
  PROVE  End(r)'
  <1> DEFINE es == <<OfRun("requested", TRUE), OfRun("forked", TRUE), OfRun("started", TRUE)>>
  <1>1. /\ pc[r] = "unused" /\ pc'[r] = "bootstrap" /\ log'[r] = es
        /\ todo'[r] = frozen'[r] /\ UNCHANGED <<placed, joining, task, skipped, halt>>
    BY ForkFacts
  <1>2. UNCHANGED <<overall, pending>> BY DEF Fork
  <1>3. /\ placed[r] = {} /\ joining[r] = {} /\ log[r] = << >> /\ skipped[r] = {} /\ halt[r] = FALSE
        /\ \A s \in Steps : task[r][s] = "none"
    BY <1>1 DEF LocalInv, Local, Started, Early
  <1>4. Grows(r, es)
    <2>1. es \in Seq(Entry) BY DEF OfRun, Event, Entry, Kinds
    <2>2. << >> \o es = es BY <2>1, ConcatEmptySeq
    <2> QED BY <1>1, <1>3, <2>1, <2>2 DEF Grows
  <1>5. \A i \in DOMAIN es : es[i].kind \in {"requested", "forked", "started"}
    BY DEF OfRun, Event
  <1> HIDE DEF es
  <1>6. \A s \in Steps : ~Begun(r, s) /\ ~Through(r, s)
    <2>1. frozen[r] = {} BY <1>1 DEF LocalInv, Local, Started
    <2> QED BY <1>3, <2>1 DEF Begun, Through, Entered
  <1>7. Nodes(r)'
    <2>1. Forward(r) BY <1>6 DEF Forward
    <2> QED BY <1>4, <1>5, <2>1, NodesUntold DEF End
  <1>8. Manned(r)' BY <1>1, <1>3 DEF Manned, Alive
  <1>9. Flags(r)' BY <1>1, <1>3 DEF Flags
  <1>10. Placing(r)' BY <1>1, <1>3 DEF Placing
  <1>11. pc[r] \notin Late /\ pc'[r] \notin {"sealing", "ok", "resolve"} BY <1>1 DEF Late
  <1>12. \A i \in DOMAIN es : es[i].kind \notin RunEvents BY <1>5 DEF RunEvents
  <1>13. Paced(r)'
    <2>1. session' = session BY DEF Fork
    <2> QED BY <1>1, <2>1 DEF End, Quiet, Paced, Idle
  <1> QED BY <1>2, <1>4, <1>7, <1>8, <1>9, <1>10, <1>11, <1>12, <1>13, BeforeTheEnd

(* The steps taken over from the parent. *)
LEMMA EndFrozen ==
  ASSUME TypeOK, LocalInv, NEW r \in Runs, End(r), NEW s \in Steps, FrozenStep(r, s)
  PROVE  End(r)'
  <1>1. Started(r) BY DEF LocalInv, Local
  <1>2. /\ todo[r] \subseteq Steps /\ log[r] \in Seq(Entry) /\ todo'[r] = todo[r] \ {s}
        /\ UNCHANGED <<decisions, pc, placed, joining, task, results, pending>>
    BY DEF FrozenStep, PassFrozen, ReplayFrozen, TypeOK
  <1>3. /\ frozen' = frozen /\ pc' = pc /\ placed' = placed /\ joining' = joining /\ task' = task
        /\ skipped' = skipped /\ overall' = overall /\ halt' = halt /\ pending' = pending
    BY <1>2 DEF decisions, results
  <1>4. pc[r] \in {"dispatch", "bootstrap"} BY DEF FrozenStep, PassFrozen, ReplayFrozen, Considers
  <1>5. Manned(r)' /\ Flags(r)' /\ Placing(r)'
    BY <1>3 DEF End, Quiet, Manned, Verdict, Flags, Earning, Placing
  <1>6. Forward(r) BY <1>2, <1>3 DEF Forward, Begun, Through, Entered
  <1>7. pc[r] \notin Late /\ pc'[r] \notin {"sealing", "ok", "resolve"} BY <1>3, <1>4 DEF Late
  <1>p. Paced(r)'
    <2>1. session' = session BY DEF FrozenStep, PassFrozen, ReplayFrozen
    <2> QED BY <1>3, <1>4, <2>1 DEF End, Quiet, Paced, Idle
  <1>8. ASSUME NEW es, Grows(r, es), \A i \in DOMAIN es : es[i].kind \notin RunEvents, Nodes(r)'
        PROVE  End(r)'
    BY <1>3, <1>5, <1>7, <1>8, <1>p, BeforeTheEnd
  <1>9. CASE PassFrozen(r, s)
    <2>1. Grows(r, << >>)
      <3>1. log' = log BY <1>9 DEF PassFrozen, stream
      <3>2. log[r] \o << >> = log[r] /\ << >> \in Seq(Entry) BY <1>2, ConcatEmptySeq
      <3> QED BY <3>1, <3>2 DEF Grows
    <2>2. DOMAIN << >> = {} OBVIOUS
    <2>3. Nodes(r)' BY <1>6, <2>1, <2>2, NodesUntold DEF End
    <2> QED BY <1>8, <2>1, <2>2, <2>3
  <1>10. CASE ReplayFrozen(r, s)
    <2> DEFINE es == <<NodeStarted(s), NodeCompleted(s, TRUE)>>
    <2>1. pc[r] = "bootstrap" /\ s \in todo[r] /\ log'[r] = log[r] \o es BY <1>10 DEF ReplayFrozen, TypeOK
    <2>2. Grows(r, es)
      <3>1. NodeStarted(s) \in Entry /\ NodeCompleted(s, TRUE) \in Entry BY Entries
      <3>a. \A x, y \in Entry : <<x, y>> \in Seq(Entry) OBVIOUS
      <3>2. es \in Seq(Entry) BY <3>1, <3>a
      <3> QED BY <2>1, <3>2 DEF Grows
    <2>3. /\ DOMAIN es = {1, 2} /\ es[1] = NodeStarted(s) /\ es[2] = NodeCompleted(s, TRUE)
          /\ \A i \in DOMAIN es : es[i].kind \notin RunEvents
      BY DEF NodeStarted, NodeCompleted, Event, RunEvents
    <2> HIDE DEF es
    <2>4. s \in frozen[r] /\ task[r][s] = "none" /\ s \notin skipped[r]
      BY <1>1, <2>1 DEF Started, Early
    <2>5. ~Begun(r, s) /\ ~Through(r, s) BY <2>1, <2>4 DEF Begun, Through, Entered
    <2>6. Begun(r, s)' /\ Through(r, s)'
      <3>1. Entered(r, s)' BY <1>2, <1>3, <2>4 DEF Entered
      <3> QED BY <3>1 DEF Begun, Through
    <2>7. \A t \in Steps :
             /\ es[1] \notin EndsOf(t) /\ es[2] \notin StartsOf(t)
             /\ es[1] \in StartsOf(t) \/ es[2] \in EndsOf(t) => t = s
      BY <2>3 DEF StartsOf, EndsOf, NodeStarted, NodeCompleted, Skip, Event
    <2>8. \A t \in Steps, i \in DOMAIN es :
             /\ es[i] \in StartsOf(t) => i = 1 /\ t = s
             /\ es[i] \in EndsOf(t) => i = 2 /\ t = s
      BY <2>3, <2>7
    <2>9. Nodes(r)'
      <3>1. \A t \in Steps, i \in DOMAIN es : es[i] \in StartsOf(t) => ~Begun(r, t) /\ Begun(r, t)'
        BY <2>5, <2>6, <2>8
      <3>2. \A t \in Steps, i \in DOMAIN es : es[i] \in EndsOf(t) => ~Through(r, t) /\ Through(r, t)'
        BY <2>5, <2>6, <2>8
      <3>3. \A t \in Steps, i, j \in DOMAIN es : es[i] \in StartsOf(t) /\ es[j] \in StartsOf(t) => i = j
        BY <2>8
      <3>4. \A t \in Steps, i, j \in DOMAIN es : es[i] \in EndsOf(t) /\ es[j] \in EndsOf(t) => i = j
        BY <2>8
      <3> QED BY <1>6, <2>2, <3>1, <3>2, <3>3, <3>4, NodesGrow DEF End
    <2> QED BY <1>8, <2>2, <2>3, <2>9
  <1> QED BY <1>9, <1>10 DEF FrozenStep

(* A step of the level is skipped, spawned or joined. *)
LEMMA EndHandlerStep ==
  ASSUME TypeOK, LocalInv, NEW r \in Runs, End(r), NEW s \in Steps, HandlerStep(r, s)
  PROVE  End(r)'
  <1>1. Local(r) BY DEF LocalInv
  <1>2. /\ todo[r] \subseteq Steps /\ joining[r] \subseteq Steps /\ placed[r] \subseteq Steps
        /\ log[r] \in Seq(Entry)
    BY DEF TypeOK
  <1>3. Considers(r, s) => pc[r] = "dispatch" /\ s \in todo[r]
    <2>1. todo[r] \in SUBSET Steps BY <1>2
    <2> QED BY <2>1, FirstIn DEF Considers
  <1>4. Joins(r, s) => pc[r] = "join" /\ s \in joining[r]
    <2>1. joining[r] \in SUBSET Steps BY <1>2
    <2> QED BY <2>1, FirstIn DEF Joins
  <1>5. pc[r] \in {"dispatch", "join"} /\ pending' = pending /\ frozen' = frozen /\ placed' = placed
    BY <1>3, <1>4 DEF HandlerStep, SkipStep, WhenFails, Spawn, JoinResult, JoinError, decisions, level, results
  <1>6. pc'[r] \in {"dispatch", "join", "err"}
    BY <1>3, <1>4 DEF HandlerStep, SkipStep, WhenFails, Spawn, JoinResult, JoinError, TypeOK
  <1>7. pc[r] \notin Late /\ pc'[r] \notin {"sealing", "ok", "resolve"} BY <1>5, <1>6 DEF Late
  <1>p. Paced(r)'
    <2>1. CASE pc[r] = "dispatch" /\ pc'[r] = "dispatch" BY <2>1 DEF Paced
    <2>2. CASE pc[r] = "dispatch" /\ WhenFails(r, s)
      <3>1. s \in todo'[r] /\ pc'[r] = "err" BY <1>3, <2>2 DEF WhenFails, level, TypeOK
      <3> QED BY <3>1 DEF Paced
    <2>3. CASE pc[r] = "join" /\ pc'[r] = "join"
      <3>1. todo' = todo BY <1>3, <2>3 DEF HandlerStep, SkipStep, WhenFails, Spawn, JoinResult, JoinError
      <3> QED BY <2>3, <3>1 DEF End, Quiet, Paced
    <2> QED BY <1>3, <1>4, <2>1, <2>2, <2>3
         DEF HandlerStep, SkipStep, WhenFails, Spawn, JoinResult, JoinError
  <1>8. ASSUME NEW es, Grows(r, es), \A i \in DOMAIN es : es[i].kind \notin RunEvents, Nodes(r)',
               Manned(r)', Flags(r)',
               \A t \in Steps : task[r][t] \in {"ok", "failed"} => task'[r][t] \in {"ok", "failed"},
               skipped[r] \subseteq skipped'[r]
        PROVE  End(r)'
    <2>1. Placing(r)' BY <1>2, <1>5, <1>7, <1>8 DEF End, Earning, Placing
    <2> QED BY <1>5, <1>7, <1>8, <1>p, <2>1, BeforeTheEnd
  <1>9. ASSUME log' = log, Forward(r)
        PROVE  \E es : Grows(r, es) /\ Nodes(r)' /\ \A i \in DOMAIN es : es[i].kind \notin RunEvents
    <2>1. log[r] \o << >> = log[r] /\ << >> \in Seq(Entry) BY <1>2, ConcatEmptySeq
    <2>2. Grows(r, << >>) BY <1>9, <2>1 DEF Grows
    <2>3. DOMAIN << >> = {} OBVIOUS
    <2>4. Nodes(r)' BY <1>9, <2>2, <2>3, NodesUntold DEF End
    <2> QED BY <2>2, <2>3, <2>4
  (* The handler tells of s as it happens, or cannot. *)
  <1>10. ASSUME NEW e \in {Skip(s), NodeCompleted(s, FALSE)}, Emit(r, e), Forward(r),
                e = Skip(s) => ~Begun(r, s) /\ Begun(r, s)',
                e = NodeCompleted(s, FALSE) => ~Through(r, s) /\ Through(r, s)'
         PROVE  \E es : Grows(r, es) /\ Nodes(r)' /\ \A i \in DOMAIN es : es[i].kind \notin RunEvents
    <2>1. e \in Entry BY Entries
    <2>2. PICK es \in {<< >>, <<e>>} : Grows(r, es) BY <1>10, <2>1, GrowEmit DEF Emit
    <2>3. \A i \in DOMAIN es : es[i] = e /\ i = 1
      <3>1. \A x : \A i \in DOMAIN <<x>> : <<x>>[i] = x /\ i = 1 OBVIOUS
      <3>2. \A i \in DOMAIN << >> : FALSE OBVIOUS
      <3> QED BY ONLY <2>2, <3>1, <3>2, Zenon
    <2>4. e.kind \notin RunEvents BY <1>10 DEF Skip, NodeCompleted, Event, RunEvents
    <2>5. \A t \in Steps :
             /\ e \in StartsOf(t) => t = s /\ e = Skip(s)
             /\ e \in EndsOf(t) => t = s /\ e = NodeCompleted(s, FALSE)
      BY <1>10 DEF StartsOf, EndsOf, NodeStarted, NodeCompleted, Skip, Event
    <2>6. \A t \in Steps, i \in DOMAIN es : es[i] \in StartsOf(t) => ~Begun(r, t) /\ Begun(r, t)'
      BY <1>10, <2>3, <2>5
    <2>7. \A t \in Steps, i \in DOMAIN es : es[i] \in EndsOf(t) => ~Through(r, t) /\ Through(r, t)'
      BY <1>10, <2>3, <2>5
    <2>8. \A i, j \in DOMAIN es : i = j BY <2>3
    <2>9. Nodes(r)' BY <1>10, <2>2, <2>6, <2>7, <2>8, NodesGrow DEF End
    <2>10. \A i \in DOMAIN es : es[i].kind \notin RunEvents BY <2>3, <2>4
    <2> QED BY <2>2, <2>9, <2>10
  <1>a. CASE SkipStep(r, s)
    <2>1. /\ s \in todo[r] /\ pc[r] = "dispatch" /\ s \notin frozen[r] /\ Emit(r, Skip(s))
          /\ skipped'[r] = skipped[r] \cup {s} /\ todo'[r] = todo[r] \ {s}
          /\ pc' = pc /\ joining' = joining /\ task' = task /\ overall' = overall /\ halt' = halt
      BY <1>a, <1>3 DEF SkipStep, TypeOK
    <2>2. task[r][s] = "none" /\ s \notin skipped[r] BY <1>1, <2>1 DEF Local, LevelInv
    <2>3. ~Begun(r, s) /\ Begun(r, s)' BY <2>1, <2>2 DEF Begun, Entered
    <2>4. Forward(r) BY <1>5, <2>1 DEF Forward, Begun, Through, Entered
    <2>5. Skip(s) # NodeCompleted(s, FALSE) BY DEF Skip, NodeCompleted, Event
    <2>6. Manned(r)' /\ Flags(r)' BY <2>1 DEF End, Quiet, Manned, Verdict, Flags
    <2>7. \E es : Grows(r, es) /\ Nodes(r)' /\ \A i \in DOMAIN es : es[i].kind \notin RunEvents
      BY <1>10, <2>1, <2>3, <2>4, <2>5
    <2> QED BY <1>8, <2>1, <2>6, <2>7
  <1>b. CASE WhenFails(r, s)
    <2>1. /\ pc[r] = "dispatch" /\ pc'[r] = "err" /\ log' = log
          /\ UNCHANGED <<level, task, results>>
      BY <1>b, <1>3 DEF WhenFails, stream, TypeOK
    <2>2. todo' = todo /\ joining' = joining /\ task' = task /\ skipped' = skipped /\ overall' = overall
          /\ halt' = halt
      BY <2>1 DEF level, results
    <2>3. Forward(r) BY <1>5, <2>1, <2>2 DEF Forward, Begun, Through, Entered
    <2>4. Manned(r)' /\ Flags(r)' BY <2>1, <2>2 DEF End, Quiet, Manned, Verdict, Flags
    <2> QED BY <1>8, <1>9, <2>1, <2>2, <2>3, <2>4
  <1>c. CASE Spawn(r, s)
    <2>1. /\ s \in todo[r] /\ pc[r] = "dispatch" /\ s \notin frozen[r]
          /\ todo'[r] = todo[r] \ {s} /\ joining'[r] = joining[r] \cup {s}
          /\ task'[r][s] = "spawned" /\ \A t \in Steps : t # s => task'[r][t] = task[r][t]
          /\ pc' = pc /\ UNCHANGED <<results, stream>>
      BY <1>c, <1>3 DEF Spawn, TypeOK
    <2>2. skipped' = skipped /\ overall' = overall /\ halt' = halt /\ log' = log BY <2>1 DEF results, stream
    <2>3. task[r][s] = "none" /\ s \notin skipped[r] BY <1>1, <2>1 DEF Local, LevelInv
    <2>4. s \notin joining[r] BY <1>1, <2>3 DEF Local, Spawned
    <2>5. ~Begun(r, s) /\ ~Through(r, s) BY <2>1, <2>3 DEF Begun, Through, Entered
    <2>6. Forward(r)
      <3>1. ASSUME NEW t \in Steps PROVE (Begun(r, t) => Begun(r, t)') /\ (Through(r, t) => Through(r, t)')
        <4>1. CASE t = s BY <2>5, <4>1
        <4>2. CASE t # s
          <5>1. task'[r][t] = task[r][t] /\ (t \in joining'[r] <=> t \in joining[r]) BY <2>1, <4>2
          <5> QED BY <1>5, <2>1, <2>2, <5>1 DEF Begun, Through, Entered
        <4> QED BY <4>1, <4>2
      <3> QED BY <3>1 DEF Forward
    <2>7. Manned(r)' BY <2>1 DEF End, Quiet, Manned
    <2>8. Flags(r)' BY <2>1, <2>2 DEF End, Verdict, Flags
    <2>9. \A t \in Steps : task[r][t] \in {"ok", "failed"} => task'[r][t] \in {"ok", "failed"} BY <2>1, <2>3
    <2>10. skipped[r] \subseteq skipped'[r] BY <2>2
    <2> QED BY <1>8, <1>9, <2>2, <2>6, <2>7, <2>8, <2>9, <2>10
  <1>d. CASE JoinResult(r, s)
    <2>1. /\ s \in joining[r] /\ pc[r] = "join" /\ task[r][s] \in {"ok", "failed"}
          /\ overall'[r] = (overall[r] /\ task[r][s] = "ok")
          /\ halt'[r] = (halt[r] \/ (task[r][s] = "failed" /\ Kind[s] = "tool"))
          /\ joining'[r] = joining[r] \ {s}
          /\ pc' = pc /\ todo' = todo /\ task' = task /\ skipped' = skipped /\ log' = log
      BY <1>d, <1>4 DEF JoinResult, TypeOK, stream
    <2>2. Forward(r) BY <1>5, <2>1 DEF Forward, Begun, Through, Entered
    <2>3. Manned(r)' BY <2>1 DEF End, Quiet, Manned, Alive
    <2>4. Flags(r)' BY <2>1 DEF End, Verdict, Flags
    <2> QED BY <1>8, <1>9, <2>1, <2>2, <2>3, <2>4
  <1>e. CASE JoinError(r, s)
    <2>1. /\ s \in joining[r] /\ pc[r] = "join" /\ task[r][s] = "error" /\ Emit(r, NodeCompleted(s, FALSE))
          /\ overall'[r] = FALSE /\ joining'[r] = joining[r] \ {s}
          /\ pc' = pc /\ todo' = todo /\ task' = task /\ skipped' = skipped
      BY <1>e, <1>4 DEF JoinError, TypeOK
    <2>2. s \notin frozen[r] BY <1>1, <2>1 DEF Local, Spawned
    <2>3. ~Through(r, s) /\ Through(r, s)' BY <2>1, <2>2 DEF Through, Entered
    <2>4. Forward(r) BY <1>5, <2>1 DEF Forward, Begun, Through, Entered
    <2>5. Skip(s) # NodeCompleted(s, FALSE) BY DEF Skip, NodeCompleted, Event
    <2>6. Manned(r)' BY <2>1 DEF End, Quiet, Manned, Alive
    <2>7. Flags(r)' BY <2>1 DEF Flags
    <2>8. \E es : Grows(r, es) /\ Nodes(r)' /\ \A i \in DOMAIN es : es[i].kind \notin RunEvents
      BY <1>10, <2>1, <2>3, <2>4, <2>5
    <2> QED BY <1>8, <2>1, <2>6, <2>7, <2>8
  <1> QED BY <1>a, <1>b, <1>c, <1>d, <1>e DEF HandlerStep

(* The handler begins, and goes from one level to the next. *)
LEMMA EndLevels ==
  ASSUME TypeOK, LocalInv, NEW r \in Runs, End(r),
         Begin(r) \/ AllSpawned(r) \/ NextLevel(r) \/ Break(r) \/ Bootstrap(r)
  PROVE  End(r)'
  <1>1. Local(r) BY DEF LocalInv
  <1>2. pc[r] \in {"requested", "dispatch", "join", "bootstrap"}
    BY DEF Begin, AllSpawned, NextLevel, Break, Bootstrap, BootstrapFails, BootstrapDone, Joined
  <1>3. /\ pending' = pending /\ frozen' = frozen /\ joining' = joining /\ task' = task
        /\ skipped' = skipped /\ overall' = overall /\ halt' = halt
    BY DEF Begin, AllSpawned, NextLevel, Break, Bootstrap, BootstrapFails, BootstrapDone, decisions, level, results
  <1>4. pc'[r] \in {"dispatch", "join", "resolve", "err"}
    BY DEF Begin, AllSpawned, NextLevel, Break, Bootstrap, BootstrapFails, BootstrapDone, TypeOK
  <1>5. log' = [log EXCEPT ![r] = Append(@, OfRun("started", TRUE))] \/ log' = log
    BY DEF Begin, Emit, AllSpawned, NextLevel, Break, Bootstrap, BootstrapFails, BootstrapDone, stream
  <1>6. Forward(r)
    <2>1. ASSUME NEW s \in Steps, Entered(r, s) PROVE Entered(r, s)' BY <1>3, <1>4, <2>1 DEF Entered
    <2> QED BY <1>3, <2>1 DEF Forward, Begun, Through
  <1>7. /\ Nodes(r)'
        /\ \E es : Grows(r, es) /\ \A i \in DOMAIN es : es[i].kind \notin RunEvents
    BY <1>5, <1>6, Quietly DEF End
  <1>8. Manned(r)' BY <1>3 DEF End, Quiet, Manned
  <1>9. Flags(r)' BY <1>2, <1>3 DEF End, Verdict, Flags
  <1>10. pc[r] \notin Late /\ pc'[r] \notin {"sealing", "ok"} BY <1>2, <1>4 DEF Late
  <1>p. Paced(r)'
    <2>1. session' = session
      BY DEF Begin, AllSpawned, NextLevel, Break, Bootstrap, BootstrapFails, BootstrapDone
    <2>2. CASE pc'[r] = "dispatch" BY <2>2 DEF Paced
    <2>3. CASE AllSpawned(r) \/ Break(r) \/ NextLevel(r)
      <3>1. pc'[r] \in {"dispatch", "join", "resolve"} BY <2>3 DEF AllSpawned, Break, NextLevel, TypeOK
      <3>2. pc'[r] # "dispatch" => todo'[r] = {}
        <4>1. CASE AllSpawned(r) BY <4>1 DEF AllSpawned, level
        <4>2. CASE Break(r) BY <4>2 DEF Break, Joined, level, End, Quiet, Paced
        <4>3. CASE NextLevel(r)
          <5>1. PICK done \in {placed[r] \cup Level(r)} :
                   /\ todo' = [todo EXCEPT ![r] = LevelAfter(done)]
                   /\ pc' = [pc EXCEPT ![r] = IF done = Steps THEN "resolve" ELSE "dispatch"]
            BY <4>3 DEF NextLevel
          <5>2. todo'[r] = LevelAfter(done) /\ (pc'[r] # "dispatch" => done = Steps) BY <5>1 DEF TypeOK
          <5> QED BY <5>2 DEF LevelAfter
        <4> QED BY <2>3, <4>1, <4>2, <4>3
      <3> QED BY <3>1, <3>2 DEF Paced
    <2>4. CASE BootstrapFails(r)
      <3>1. pc[r] = "bootstrap" /\ pc'[r] = "err" BY <2>4 DEF BootstrapFails, TypeOK
      <3> QED BY <1>3, <2>1, <3>1 DEF End, Quiet, Paced, Idle
    <2>5. Begin(r) \/ BootstrapDone(r) => pc'[r] = "dispatch" BY DEF Begin, BootstrapDone, TypeOK
    <2> QED BY <2>2, <2>3, <2>4, <2>5 DEF Bootstrap
  <1>11. ASSUME Placing(r)', pc'[r] = "resolve" => joining'[r] = {} PROVE End(r)'
    BY <1>3, <1>7, <1>8, <1>9, <1>10, <1>11, <1>p, BeforeTheEnd
  <1>a. CASE NextLevel(r)
    <2>1. /\ pc[r] = "join" /\ joining[r] = {} /\ halt[r] = FALSE
      BY <1>a DEF NextLevel, Joined, TypeOK
    <2>2. PICK done \in {placed[r] \cup Level(r)} :
             /\ placed' = [placed EXCEPT ![r] = done]
             /\ pc' = [pc EXCEPT ![r] = IF done = Steps THEN "resolve" ELSE "dispatch"]
      BY <1>a DEF NextLevel
    <2>3. placed'[r] = placed[r] \cup Level(r) /\ (pc'[r] = "resolve" => placed'[r] = Steps)
      BY <2>2 DEF TypeOK
    <2>4. \A s \in Level(r) : s \in frozen[r] \cup skipped[r] \/ Settled(r, s)
      BY <1>1, <2>1 DEF Local, LevelInv
    <2>5. \A s \in Level(r) : s \in frozen[r] \cup skipped[r] \/ task[r][s] \in {"ok", "failed"}
      BY <2>1, <2>4 DEF Settled
    <2>6. Placing(r)' BY <1>3, <2>3, <2>5 DEF End, Earning, Placing
    <2> QED BY <1>3, <1>11, <2>1, <2>6
  <1>b. CASE Break(r)
    <2>1. joining[r] = {} /\ halt[r] /\ placed' = placed BY <1>b DEF Break, Joined, level
    <2>2. Placing(r)' BY <1>3, <2>1 DEF End, Earning, Placing
    <2> QED BY <1>3, <1>11, <2>1, <2>2
  <1>c. CASE Begin(r) \/ AllSpawned(r) \/ Bootstrap(r)
    <2>1. placed' = placed /\ pc'[r] # "resolve"
      BY <1>c DEF Begin, AllSpawned, Bootstrap, BootstrapFails, BootstrapDone, level, TypeOK
    <2>2. Placing(r)' BY <1>3, <2>1 DEF End, Earning, Placing
    <2> QED BY <1>11, <2>1, <2>2
  <1> QED BY <1>a, <1>b, <1>c

------------------------------------------------------------------------------
(* The end of a run *)

(* The stream stays as it is. *)
LEMMA Silent ==
  ASSUME TypeOK, NEW r \in Runs, log' = log
  PROVE  /\ \A e : Has(r, e)' <=> Has(r, e)
         /\ AtMostOne(Positions(r, RunDone)) => AtMostOne(Positions(r, RunDone))'
         /\ Nodes(r) /\ Forward(r) => Nodes(r)'
  <1>2. log[r] \in Seq(Entry) BY DEF TypeOK
  <1>3. log[r] \o << >> = log[r] /\ << >> \in Seq(Entry) BY <1>2, ConcatEmptySeq
  <1>4. Grows(r, << >>) BY <1>3 DEF Grows
  <1>5. DOMAIN << >> = {} OBVIOUS
  <1>6. \A e : Has(r, e)' <=> Has(r, e) BY DEF Has
  <1>7. AtMostOne(Positions(r, RunDone)) => AtMostOne(Positions(r, RunDone))' BY <1>4, <1>5, GrowOnce
  <1>8. Nodes(r) /\ Forward(r) => Nodes(r)' BY <1>4, <1>5, NodesUntold
  <1> QED BY <1>6, <1>7, <1>8

LEMMA EndKill ==
  ASSUME TypeOK, LocalInv, NEW r \in Runs, End(r), Kill(r)
  PROVE  End(r)'
  <1> DEFINE killed == [s \in Steps |-> IF task[r][s] \in Alive THEN "killed" ELSE task[r][s]]
  <1>1. /\ pc'[r] = "dead" /\ task'[r] = killed /\ joining'[r] = {} /\ pending'[r] = << >> /\ log' = log
        /\ todo'[r] = {} /\ session'[r] = FALSE
        /\ mode' = mode /\ frozen' = frozen /\ placed' = placed /\ output' = output /\ skipped' = skipped
    BY DEF Kill, TypeOK, decisions
  <1>2. \A s \in Steps : killed[s] = IF task[r][s] \in Alive THEN "killed" ELSE task[r][s] OBVIOUS
  <1> HIDE DEF killed
  <1>3. \A s \in Steps :
           /\ task'[r][s] \notin Alive
           /\ task[r][s] \notin Alive => task'[r][s] = task[r][s]
           /\ task[r][s] \in Alive => task'[r][s] = "killed"
    BY <1>1, <1>2 DEF Alive
  <1>4. DOMAIN << >> = {} OBVIOUS
  <1>5. \A e : (Has(r, e)' <=> Has(r, e)) /\ ~Soon(r, e)'
    <2>1. \A e : Has(r, e)' <=> Has(r, e) BY <1>1, Silent
    <2> QED BY <1>1, <1>4, <2>1 DEF Soon
  <1>6. \A e : Says(r, e)' => Says(r, e) BY <1>5 DEF Says
  <1>7. Quiet(r)' BY <1>1, <1>3, <1>4 DEF Quiet, Manned, Paced, Idle
  <1>8. Verdict(r)' BY <1>1, <1>6 DEF End, Verdict, Flags, Late
  <1>9. Earning(r)'
    <2>1. Earned(r) => Earned(r)' BY <1>1, <1>3 DEF Earned, Chosen, Survivors, Alive
    <2>2. Succeeds(r)' => Succeeds(r) BY <1>1, <1>6 DEF Succeeds
    <2>3. placed[r] \subseteq Steps BY DEF TypeOK
    <2>4. Placing(r)' BY <1>1, <1>3, <2>3 DEF End, Earning, Placing, Alive
    <2> QED BY <2>1, <2>2, <2>4 DEF End, Earning
  <1>10. Once(r)' BY <1>1, <1>4, <1>5, Silent DEF End, Once, RunDone
  <1>11. Forward(r) BY <1>1, <1>3 DEF Forward, Begun, Through, Entered, Alive
  <1>12. Nodes(r)' BY <1>1, <1>11, Silent DEF End
  <1> QED BY <1>7, <1>8, <1>9, <1>10, <1>12 DEF End

LEMMA EndFinish ==
  ASSUME TypeOK, NEW r \in Runs, End(r), Finish(r) \/ RouterDone(r)
  PROVE  End(r)'
  <1>1. /\ log' = log /\ pending' = pending /\ mode' = mode /\ frozen' = frozen /\ placed' = placed
        /\ todo' = todo /\ joining' = joining /\ task' = task /\ output' = output /\ skipped' = skipped
        /\ overall' = overall /\ halt' = halt /\ pending[r] = << >>
    BY DEF Finish, RouterDone, decisions, level, results, stream
  <1>2. \/ pc[r] = "sealing" /\ pc'[r] = (IF halt[r] THEN "err" ELSE "ok") /\ session'[r] = FALSE
        \/ pc[r] = "completing" /\ pc'[r] = "closed" /\ session' = session
    BY DEF Finish, RouterDone, TypeOK
  <1>3. \A e : (Has(r, e)' <=> Has(r, e)) /\ (Soon(r, e)' <=> Soon(r, e)) BY <1>1, Silent DEF Soon
  <1>4. \A e : Says(r, e)' <=> Says(r, e) BY <1>3 DEF Says
  <1>5. Quiet(r)' BY <1>1, <1>2 DEF End, Quiet, Manned, Paced, Idle
  <1>6. Verdict(r)'
    <2>1. Flags(r)' BY <1>1, <1>2 DEF End, Verdict, Flags
    <2>2. pc'[r] = "err" => ~overall[r] BY <1>2 DEF End, Verdict, Flags
    <2>3. pc'[r] \in Late /\ pc[r] # "dead" BY <1>2 DEF Late
    <2> QED BY <1>1, <1>2, <1>4, <2>1, <2>2, <2>3 DEF End, Verdict
  <1>7. Earning(r)'
    <2>1. Succeeds(r)' => Succeeds(r) BY <1>1, <1>2, <1>4 DEF Succeeds
    <2>2. Earned(r) => Earned(r)' BY <1>1 DEF Earned, Chosen, Survivors
    <2>3. Placing(r)' BY <1>1, <1>2 DEF End, Earning, Placing
    <2> QED BY <2>1, <2>2, <2>3 DEF End, Earning
  <1>8. Once(r)' BY <1>1, <1>3, Silent DEF End, Once, RunDone
  <1>9. Forward(r) BY <1>1, <1>2 DEF Forward, Begun, Through, Entered
  <1>10. Nodes(r)' BY <1>1, <1>9, Silent DEF End
  <1> QED BY <1>5, <1>6, <1>7, <1>8, <1>10 DEF End

LEMMA EndRouter ==
  ASSUME TypeOK, NEW r \in Runs, End(r), RouterCompletes(r)
  PROVE  End(r)'
  <1> DEFINE done == OfRun("run_completed", pc[r] = "ok" /\ overall[r])
  <1>1. /\ log' = log /\ mode' = mode /\ frozen' = frozen /\ placed' = placed
        /\ todo' = todo /\ joining' = joining /\ task' = task /\ output' = output /\ skipped' = skipped
        /\ overall' = overall /\ halt' = halt
    BY DEF RouterCompletes, decisions, level, results, stream
  <1>2. /\ mode[r] = "serve" /\ pc[r] \in {"ok", "err"} /\ pc'[r] = "completing" /\ pending'[r] = <<done>>
    BY DEF RouterCompletes, TypeOK
  <1>3. PICK won \in BOOLEAN : won = (pc[r] = "ok" /\ overall[r]) OBVIOUS
  <1>4. done = OfRun("run_completed", won) BY <1>3
  <1> HIDE DEF done
  <1>5. DOMAIN pending'[r] = {1} /\ pending'[r][1] = done BY <1>2
  <1>6. \A e : Has(r, e)' <=> Has(r, e) BY <1>1, Silent
  <1>7. \A e : Soon(r, e)' <=> e = done BY <1>5 DEF Soon
  <1>8. \A e : Says(r, e)' => Says(r, e) \/ e = done BY <1>6, <1>7 DEF Says
  <1>9. \A ok \in BOOLEAN : ~Has(r, OfRun("run_completed", ok)) BY <1>2 DEF End, Verdict, Says
  <1>10. \A ok \in BOOLEAN : OfRun("completed", ok) # done /\ OfRun("response", ok) # done
    BY <1>4 DEF OfRun, Event
  <1>11. \A ok \in BOOLEAN : OfRun("run_completed", ok) = done => ok = won BY <1>4 DEF OfRun, Event
  <1>12. Quiet(r)'
    <2>1. done.kind \in RunEvents BY <1>4 DEF OfRun, Event, RunEvents
    <2>2. session' = session BY DEF RouterCompletes
    <2> QED BY <1>1, <1>2, <1>5, <2>1, <2>2 DEF End, Quiet, Manned, Paced, Idle
  <1>13. Verdict(r)'
    <2>1. Flags(r)' BY <1>1, <1>2 DEF End, Verdict, Flags
    <2>2. ASSUME NEW ok \in BOOLEAN, Says(r, OfRun("completed", ok))'
          PROVE  /\ Says(r, OfRun("completed", ok)) /\ joining[r] = {} /\ todo[r] = {}
                 /\ overall[r] = ok /\ ok = won
      <3>1. Says(r, OfRun("completed", ok)) BY <1>8, <1>10, <2>2
      <3>2. joining[r] = {} /\ todo[r] = {} /\ overall[r] = ok /\ (pc[r] = "err" => ~ok)
        BY <1>2, <3>1 DEF End, Verdict
      <3> QED BY <1>2, <1>3, <3>1, <3>2
    <2>3. ASSUME NEW ok \in BOOLEAN, Says(r, OfRun("run_completed", ok))' PROVE ok = won
      BY <1>2, <1>8, <1>11, <2>3 DEF End, Verdict
    <2>4. ASSUME NEW ok \in BOOLEAN, Says(r, OfRun("run_completed", ok))'
          PROVE  ~Says(r, OfRun("completed", ~ok))'
      <3>1. ok = won BY <2>3, <2>4
      <3>2. (~ok) \in BOOLEAN /\ (~ok) # won BY <3>1
      <3> QED BY <2>2, <3>2
    <2>5. pc'[r] \in Late BY <1>2 DEF Late
    <2>6. todo[r] = {} \/ ~won BY <1>2, <1>3 DEF End, Quiet, Paced
    <2> QED BY <1>1, <1>2, <2>1, <2>2, <2>3, <2>4, <2>5, <2>6 DEF Verdict
  <1>14. Earning(r)'
    <2>1. Succeeds(r)' => Succeeds(r)
      <3>1. Says(r, OfRun("response", TRUE))' => Says(r, OfRun("response", TRUE)) BY <1>8, <1>10
      <3>2. Says(r, OfRun("run_completed", TRUE))' => Says(r, OfRun("run_completed", TRUE)) \/ won
        BY <1>8, <1>11
      <3> QED BY <1>2, <1>3, <3>1, <3>2 DEF Succeeds
    <2>2. Earned(r) => Earned(r)' BY <1>1 DEF Earned, Chosen, Survivors
    <2>3. Placing(r)' BY <1>1, <1>2 DEF End, Earning, Placing
    <2> QED BY <2>1, <2>2, <2>3 DEF End, Earning
  <1>15. Once(r)'
    <2>1. AtMostOne(Positions(r, RunDone))' BY <1>1, Silent DEF End, Once
    <2>2. \A e \in RunDone : ~Has(r, e)' BY <1>6, <1>9 DEF RunDone
    <2> QED BY <1>5, <2>1, <2>2 DEF Once, RunDone
  <1>16. Forward(r) BY <1>1, <1>2 DEF Forward, Begun, Through, Entered
  <1>17. Nodes(r)' BY <1>1, <1>16, Silent DEF End
  <1> QED BY <1>12, <1>13, <1>14, <1>15, <1>17 DEF End

LEMMA EndEmit ==
  ASSUME TypeOK, NEW r \in Runs, End(r), EmitPending(r)
  PROVE  End(r)'
  <1> DEFINE h == Head(pending[r])
  <1>1. /\ mode' = mode /\ frozen' = frozen /\ pc' = pc /\ placed' = placed /\ todo' = todo
        /\ joining' = joining /\ task' = task /\ output' = output /\ skipped' = skipped
        /\ overall' = overall /\ halt' = halt /\ session' = session
    BY DEF EmitPending, decisions, level, results
  <1>2. /\ pc[r] \in {"sealing", "completing"} /\ pending[r] # << >> /\ Emit(r, h)
        /\ pending'[r] = Tail(pending[r]) /\ pending[r] \in Seq(Entry)
    BY DEF EmitPending, TypeOK
  <1>3. PICK n \in Nat : n = Len(pending[r]) BY <1>2
  <1>4. /\ h \in Entry /\ DOMAIN pending[r] = 1..n /\ h = pending[r][1] /\ 1 \in 1..n
        /\ DOMAIN pending'[r] = 1..(n - 1)
        /\ \A i \in 1..(n - 1) : pending'[r][i] = pending[r][i + 1]
    <2>1. h \in Entry /\ Len(Tail(pending[r])) = n - 1 /\ Tail(pending[r]) \in Seq(Entry)
      BY <1>2, <1>3, HeadTailProperties
    <2>2. \A i \in 1..(n - 1) : Tail(pending[r])[i] = pending[r][i + 1]
      BY <1>2, <1>3, <2>1, HeadTailProperties
    <2>3. n # 0 BY <1>2, <1>3, EmptySeq
    <2> QED BY <1>2, <1>3, <2>1, <2>2, <2>3
  <1>5. \A i \in 1..(n - 1) : i + 1 \in 1..n /\ i + 1 # 1 OBVIOUS
  <1>6. PICK es \in {<< >>, <<h>>} : Grows(r, es)
    <2>1. log' = [log EXCEPT ![r] = Append(@, h)] \/ log' = log BY <1>2 DEF Emit
    <2> QED BY <1>4, <2>1, GrowEmit
  <1> HIDE DEF h
  <1>7. \A i \in DOMAIN es : es[i] = h /\ i = 1
    <2>1. \A x : \A i \in DOMAIN <<x>> : <<x>>[i] = x /\ i = 1 OBVIOUS
    <2>2. \A i \in DOMAIN << >> : FALSE OBVIOUS
    <2> QED BY ONLY <1>6, <2>1, <2>2, Zenon
  <1>8. ASSUME NEW e, Has(r, e)' PROVE Has(r, e) \/ e = h
    <2>1. Has(r, e)' <=> Has(r, e) \/ \E i \in DOMAIN es : es[i] = e BY <1>6, GrowHas
    <2> QED BY <1>7, <1>8, <2>1
  <1>9. ASSUME NEW e, Soon(r, e)' PROVE \E i \in 1..n : i # 1 /\ pending[r][i] = e
    <2>1. PICK i \in 1..(n - 1) : pending'[r][i] = e BY <1>4, <1>9 DEF Soon
    <2>2. i + 1 \in 1..n /\ i + 1 # 1 /\ pending[r][i + 1] = e BY <1>4, <1>5, <2>1
    <2> QED BY <2>2
  <1>10. Soon(r, h) BY <1>4 DEF Soon
  <1>11. ASSUME NEW e, Says(r, e)' PROVE Says(r, e)
    <2>1. CASE Has(r, e)' BY <1>8, <1>10, <2>1 DEF Says
    <2>2. CASE Soon(r, e)' BY <1>4, <1>9, <2>2 DEF Says, Soon
    <2> QED BY <1>11, <2>1, <2>2 DEF Says
  <1>12. Quiet(r)'
    <2>1. \A i \in DOMAIN pending'[r] : pending'[r][i].kind \in RunEvents
      BY <1>4, <1>5 DEF End, Quiet
    <2> QED BY <1>1, <1>2, <2>1 DEF End, Quiet, Manned, Paced, Idle
  <1>13. Verdict(r)'
    <2>1. Flags(r)' BY <1>1 DEF End, Verdict, Flags
    <2> QED BY <1>1, <1>11, <2>1 DEF End, Verdict
  <1>14. Earning(r)'
    <2>1. Succeeds(r)' => Succeeds(r) BY <1>1, <1>11 DEF Succeeds
    <2>2. Earned(r) => Earned(r)' BY <1>1 DEF Earned, Chosen, Survivors
    <2>3. Placing(r)' BY <1>1 DEF End, Earning, Placing
    <2> QED BY <2>1, <2>2, <2>3 DEF End, Earning
  <1>15. Once(r)'
    <2>1. \A i, j \in 1..n : pending[r][i] \in RunDone /\ pending[r][j] \in RunDone => i = j
      BY <1>4 DEF End, Once
    <2>2. h \in RunDone => \A e \in RunDone : ~Has(r, e) BY <1>10 DEF End, Once
    <2>3. AtMostOne(Positions(r, RunDone))'
      BY <1>6, <1>7, <2>2, GrowOnce DEF End, Once
    <2>4. \A i, j \in DOMAIN pending'[r] : pending'[r][i] \in RunDone /\ pending'[r][j] \in RunDone => i = j
      <3> SUFFICES ASSUME NEW i \in 1..(n - 1), NEW j \in 1..(n - 1),
                          pending'[r][i] \in RunDone, pending'[r][j] \in RunDone
                   PROVE  i = j
        BY <1>4
      <3>1. i + 1 = j + 1 BY <1>4, <1>5, <2>1
      <3> QED BY <3>1
    <2>5. ASSUME NEW e \in RunDone, Has(r, e)', NEW d \in RunDone, Soon(r, d)' PROVE FALSE
      <3>1. PICK i \in 1..n : i # 1 /\ pending[r][i] = d BY <1>9, <2>5
      <3>2. Soon(r, d) BY <1>4, <3>1 DEF Soon
      <3>3. ~Has(r, e) BY <3>2, <2>5 DEF End, Once
      <3>4. h \in RunDone BY <1>8, <2>5, <3>3
      <3>5. pending[r][1] \in RunDone /\ pending[r][i] \in RunDone /\ 1 \in 1..n BY <1>4, <2>5, <3>1, <3>4
      <3> QED BY <2>1, <3>1, <3>5
    <2> QED BY <2>3, <2>4, <2>5 DEF Once, RunDone
  <1>16. Nodes(r)'
    <2>1. h.kind \in RunEvents BY <1>4 DEF End, Quiet
    <2>2. \A i \in DOMAIN es : es[i].kind \notin {"node_started", "skipped", "node_completed"}
      BY <1>7, <2>1 DEF RunEvents
    <2>3. Forward(r) BY <1>1 DEF Forward, Begun, Through, Entered
    <2> QED BY <1>6, <2>2, <2>3, NodesUntold DEF End
  <1> QED BY <1>12, <1>13, <1>14, <1>15, <1>16 DEF End

(* What the handler has to say when it has resolved the output of the run. *)
Tidings == {e \in Entry : e.kind \in {"completed", "resolved", "response"}}

LEMMA ResolveSays ==
  ASSUME TypeOK, NEW r \in Runs, Resolve(r), NEW won \in BOOLEAN, won = (overall[r] /\ ~NoneLeft(r))
  PROVE  /\ \A i \in DOMAIN pending'[r] : pending'[r][i].kind \in RunEvents
         /\ \A ok \in BOOLEAN : Soon(r, OfRun("completed", ok))' => ok = won
         /\ Soon(r, OfRun("response", TRUE))' => won
         /\ \A ok \in BOOLEAN : Soon(r, OfRun("run_completed", ok))' => ok = won /\ mode[r] # "serve"
         /\ \A i, j \in DOMAIN pending'[r] :
               pending'[r][i] \in RunDone /\ pending'[r][j] \in RunDone => i = j
  <1> DEFINE a == <<OfRun("completed", won)>>
             b == When(Chosen(r) # {}, OfRun("resolved", TRUE))
             c == When(won /\ FinalOutput(r) # {}, OfRun("response", TRUE))
             d == When(mode[r] # "serve", OfRun("run_completed", won))
             front == a \o b \o c
  <1>1. pending'[r] = front \o d BY DEF Resolve, TypeOK
  <1>2. \A ok \in BOOLEAN :
           /\ OfRun("completed", ok) \in Tidings /\ OfRun("resolved", ok) \in Tidings
           /\ OfRun("response", ok) \in Tidings /\ OfRun("run_completed", ok) \in Entry
    BY DEF OfRun, Event, Tidings, Entry, Kinds
  <1>3. \A S : \A e \in S, p \in BOOLEAN : When(p, e) \in Seq(S) /\ <<e>> \in Seq(S)
    <2> SUFFICES ASSUME NEW S, NEW e \in S, NEW p \in BOOLEAN PROVE When(p, e) \in Seq(S) /\ <<e>> \in Seq(S)
      OBVIOUS
    <2>1. <<e>> \in Seq(S) /\ << >> \in Seq(S) OBVIOUS
    <2> QED BY <2>1 DEF When
  <1>4. a \in Seq(Tidings) /\ b \in Seq(Tidings) /\ c \in Seq(Tidings) /\ d \in Seq(Entry)
    <2>1. OfRun("completed", won) \in Tidings /\ OfRun("run_completed", won) \in Entry BY <1>2
    <2>2. OfRun("resolved", TRUE) \in Tidings /\ OfRun("response", TRUE) \in Tidings BY <1>2
    <2>3. a \in Seq(Tidings) BY <2>1, <1>3
    <2>4. b \in Seq(Tidings) BY <2>2, <1>3
    <2>5. c \in Seq(Tidings) BY <2>2, <1>3
    <2>6. d \in Seq(Entry) BY <2>1, <1>3
    <2> QED BY <2>3, <2>4, <2>5, <2>6
  <1>5. \A p, e : Range(When(p, e)) \subseteq {e} /\ (Range(When(p, e)) # {} => p) BY DEF When, Range
  <1>6. Range(a) = {OfRun("completed", won)} BY DEF Range
  <1>7. /\ Range(b) \subseteq {OfRun("resolved", TRUE)}
        /\ Range(c) \subseteq {OfRun("response", TRUE)} /\ (Range(c) # {} => won)
        /\ Range(d) \subseteq {OfRun("run_completed", won)} /\ (Range(d) # {} => mode[r] # "serve")
    BY <1>5
  <1>8. \A i, j \in DOMAIN d : i = j BY DEF When
  <1> HIDE DEF a, b, c, d
  <1>9. a \o b \in Seq(Tidings) /\ Range(a \o b) = Range(a) \cup Range(b)
    BY ONLY <1>4, ConcatProperties, RangeConcatenation
  <1>10. front \in Seq(Tidings) /\ Range(front) = Range(a) \cup Range(b) \cup Range(c)
    <2>1. (a \o b) \o c \in Seq(Tidings) BY ONLY <1>4, <1>9, ConcatProperties
    <2>2. a \o b \in Seq(Tidings) /\ c \in Seq(Tidings) BY ONLY <1>4, <1>9
    <2>3. \A x, y \in Seq(Tidings) : Range(x \o y) = Range(x) \cup Range(y) BY ONLY RangeConcatenation
    <2>4. Range((a \o b) \o c) = Range(a \o b) \cup Range(c) BY ONLY <2>2, <2>3
    <2> QED BY ONLY <1>9, <2>1, <2>4
  <1> HIDE DEF front
  <1>11. front \in Seq(Entry)
    <2>1. Tidings \subseteq Entry BY DEF Tidings
    <2> QED BY ONLY <1>10, <2>1, SeqMonotonic
  <1>12. Range(front \o d) = Range(front) \cup Range(d) BY ONLY <1>4, <1>11, RangeConcatenation
  <1>13. \A e : Soon(r, e)' <=> e \in Range(front \o d) BY <1>1 DEF Soon, Range
  <1>14. ASSUME NEW e, Soon(r, e)'
         PROVE  \/ e = OfRun("completed", won) \/ e = OfRun("resolved", TRUE)
                \/ e = OfRun("response", TRUE) /\ won
                \/ e = OfRun("run_completed", won) /\ mode[r] # "serve"
    <2>1. e \in Range(a) \cup Range(b) \cup Range(c) \cup Range(d) BY <1>10, <1>12, <1>13, <1>14
    <2> QED BY <1>6, <1>7, <2>1
  <1>15. \A ok, p \in BOOLEAN :
           /\ OfRun("completed", ok) = OfRun("completed", p) => ok = p
           /\ OfRun("run_completed", ok) = OfRun("run_completed", p) => ok = p
           /\ OfRun("completed", ok) \notin {OfRun("resolved", p), OfRun("response", p), OfRun("run_completed", p)}
           /\ OfRun("response", ok) \notin {OfRun("resolved", p), OfRun("run_completed", p)}
           /\ OfRun("run_completed", ok) # OfRun("resolved", p)
    BY DEF OfRun, Event
  <1>16. ASSUME NEW ok \in BOOLEAN, Soon(r, OfRun("completed", ok))' PROVE ok = won
    BY <1>14, <1>15, <1>16
  <1>17. Soon(r, OfRun("response", TRUE))' => won BY <1>14, <1>15
  <1>18. ASSUME NEW ok \in BOOLEAN, Soon(r, OfRun("run_completed", ok))' PROVE ok = won /\ mode[r] # "serve"
    BY <1>14, <1>15, <1>18
  <1>19. ASSUME NEW i \in DOMAIN pending'[r] PROVE pending'[r][i].kind \in RunEvents
    <2>1. PICK e : e = pending'[r][i] OBVIOUS
    <2>2. Soon(r, e)' BY <2>1 DEF Soon
    <2>3. \A ok \in BOOLEAN, k \in RunEvents : OfRun(k, ok).kind \in RunEvents BY DEF OfRun, Event
    <2>4. e.kind \in RunEvents BY <1>14, <2>2, <2>3 DEF RunEvents
    <2> QED BY <2>1, <2>4
  <1>20. \A i, j \in DOMAIN pending'[r] : pending'[r][i] \in RunDone /\ pending'[r][j] \in RunDone => i = j
    <2>1. \A i \in DOMAIN front : front[i] \notin RunDone
      <3>1. \A i \in DOMAIN front : front[i] \in Range(front) BY DEF Range
      <3>2. Range(front) \subseteq {OfRun("completed", won), OfRun("resolved", TRUE), OfRun("response", TRUE)}
        BY <1>6, <1>7, <1>10
      <3> QED BY <1>15, <3>1, <3>2 DEF RunDone
    <2>2. \A i, j \in DOMAIN (front \o d) : (front \o d)[i] \in RunDone /\ (front \o d)[j] \in RunDone => i = j
      BY <1>4, <1>8, <1>11, <2>1, ConcatOnce
    <2> QED BY <1>1, <2>2
  <1> QED BY <1>16, <1>17, <1>18, <1>19, <1>20

(* A run that succeeds has come through all its levels. *)
LEMMA ResolveEarns ==
  ASSUME TypeOK, LocalInv, NEW r \in Runs, End(r), pc[r] = "resolve", overall[r], ~NoneLeft(r)
  PROVE  Earned(r)
  <1>1. joining[r] = {} BY DEF End, Quiet
  <1>2. ~halt[r] /\ \A s \in Steps : task[r][s] # "failed" BY <1>1 DEF End, Verdict, Flags
  <1>3. placed[r] = Steps BY <1>2 DEF End, Earning, Placing
  <1>4. \A s \in Steps : s \in frozen[r] \cup skipped[r] \/ task[r][s] = "ok"
    BY <1>2, <1>3 DEF End, Earning, Placing
  <1>5. ASSUME Output # << >> PROVE \E s \in Chosen(r) : output[r][s] # {}
    <2>1. Survivors(r) # {} BY <1>5 DEF NoneLeft
    <2>2. Output \in Seq(Steps) BY PipelineAssumption
    <2>3. DOMAIN Output \subseteq Nat BY <2>2
    <2>4. Survivors(r) \in SUBSET Nat BY <2>3 DEF Survivors
    <2>5. First(Survivors(r)) \in Survivors(r) BY <2>1, <2>4, FirstOf
    <2> DEFINE s == Output[First(Survivors(r))]
    <2>6. First(Survivors(r)) \in DOMAIN Output /\ s \notin skipped[r] BY <2>5 DEF Survivors
    <2>7. s \in Steps BY <2>2, <2>6
    <2>8. Chosen(r) = {s} BY <2>1 DEF Chosen
    <2> HIDE DEF s
    <2>9. output[r][s] # {} BY <1>3, <2>6, <2>7 DEF LocalInv, Local, PlacedDone
    <2> QED BY <2>8, <2>9
  <1> QED BY <1>4, <1>5 DEF Earned

LEMMA EndResolve ==
  ASSUME TypeOK, LocalInv, NEW r \in Runs, End(r), Resolve(r)
  PROVE  End(r)'
  <1>1. PICK won \in BOOLEAN : won = (overall[r] /\ ~NoneLeft(r)) BY DEF TypeOK
  <1>2. /\ log' = log /\ mode' = mode /\ frozen' = frozen /\ placed' = placed /\ todo' = todo
        /\ joining' = joining /\ task' = task /\ output' = output /\ skipped' = skipped
    BY DEF Resolve, decisions, level, stream
  <1>3. /\ pc[r] = "resolve" /\ pc'[r] = "sealing" /\ overall'[r] = won
        /\ halt'[r] = (halt[r] \/ NoneLeft(r))
    BY <1>1 DEF Resolve, TypeOK
  <1>4. joining[r] = {} BY <1>3 DEF End, Quiet
  <1>5. /\ \A i \in DOMAIN pending'[r] : pending'[r][i].kind \in RunEvents
        /\ \A ok \in BOOLEAN : Soon(r, OfRun("completed", ok))' => ok = won
        /\ Soon(r, OfRun("response", TRUE))' => won
        /\ \A ok \in BOOLEAN : Soon(r, OfRun("run_completed", ok))' => ok = won /\ mode[r] # "serve"
        /\ \A i, j \in DOMAIN pending'[r] :
              pending'[r][i] \in RunDone /\ pending'[r][j] \in RunDone => i = j
    BY <1>1, ResolveSays
  <1>6. \A ok \in BOOLEAN :
           /\ ~Has(r, OfRun("completed", ok)) /\ ~Has(r, OfRun("run_completed", ok))
           /\ ~Has(r, OfRun("response", TRUE))
    BY <1>3 DEF End, Verdict, Says, Late
  <1>7. \A e : Has(r, e)' <=> Has(r, e) BY <1>2, Silent
  <1>8. /\ \A ok \in BOOLEAN : Says(r, OfRun("completed", ok))' => ok = won
        /\ Says(r, OfRun("response", TRUE))' => won
        /\ \A ok \in BOOLEAN : Says(r, OfRun("run_completed", ok))' => ok = won /\ mode[r] # "serve"
    BY <1>5, <1>6, <1>7 DEF Says
  <1>t. todo[r] = {} BY <1>3 DEF End, Quiet, Paced
  <1>9. Quiet(r)' BY <1>2, <1>3, <1>4, <1>5, <1>t DEF End, Quiet, Manned, Paced
  <1>10. Verdict(r)'
    <2>1. Flags(r)' BY <1>1, <1>2, <1>3 DEF End, Verdict, Flags
    <2>2. ASSUME NEW ok \in BOOLEAN, Says(r, OfRun("run_completed", ok))'
          PROVE  ~Says(r, OfRun("completed", ~ok))'
      <3>1. (~ok) \in BOOLEAN /\ (~ok) # won BY <1>8, <2>2
      <3> QED BY <1>8, <3>1
    <2>3. pc'[r] \in Late BY <1>3 DEF Late
    <2> QED BY <1>2, <1>3, <1>4, <1>8, <1>t, <2>1, <2>2, <2>3 DEF Verdict
  <1>11. Earning(r)'
    <2>1. Succeeds(r)' => won BY <1>3, <1>8 DEF Succeeds
    <2>2. won => Earned(r) BY <1>1, <1>3, ResolveEarns
    <2>3. Earned(r) => Earned(r)' BY <1>2 DEF Earned, Chosen, Survivors
    <2>4. Placing(r)' BY <1>2, <1>3 DEF End, Earning, Placing
    <2> QED BY <2>1, <2>2, <2>3, <2>4 DEF Earning
  <1>12. Once(r)'
    <2>1. AtMostOne(Positions(r, RunDone))' BY <1>2, Silent DEF End, Once
    <2>2. \A e \in RunDone : ~Has(r, e)' BY <1>6, <1>7 DEF RunDone
    <2> QED BY <1>5, <2>1, <2>2 DEF Once, RunDone
  <1>13. Forward(r) BY <1>2, <1>3 DEF Forward, Begun, Through, Entered
  <1>14. Nodes(r)' BY <1>2, <1>13, Silent DEF End
  <1> QED BY <1>9, <1>10, <1>11, <1>12, <1>14 DEF End

LEMMA EndStep ==
  ASSUME TypeOK, LocalInv, EndInv, [Next]_vars
  PROVE  EndInv'
  <1>0. CASE UNCHANGED vars
    <2>1. \A q \in Runs : Untouched(q) BY <1>0 DEF vars, Untouched, Same
    <2> QED BY <2>1, EndFrame DEF EndInv
  <1>1. ASSUME NEW r \in Runs, End(r)', \A q \in Runs : q # r => Untouched(q) PROVE EndInv'
    <2>1. \A q \in Runs : q # r => End(q)' BY <1>1, EndFrame DEF EndInv
    <2> QED BY <1>1, <2>1 DEF EndInv
  <1>2. ASSUME NEW r \in Runs,
               \/ Request(r) \/ Handler(r) \/ Bootstrap(r) \/ Kill(r)
               \/ \E s \in Steps : HandlerStep(r, s) \/ FrozenStep(r, s) \/ Task(r, s)
               \/ \E p \in Runs, f \in Steps : Fork(r, p, f)
        PROVE  EndInv'
    <2>1. End(r) BY DEF EndInv
    <2>2. \A q \in Runs : q # r => Untouched(q) BY <1>2, OtherRuns
    <2>3. ASSUME End(r)' PROVE EndInv' BY <1>1, <2>2, <2>3
    <2>4. CASE Request(r) BY <2>1, <2>3, <2>4, EndRequest
    <2>5. CASE Handler(r)
      <3>1. CASE Begin(r) \/ AllSpawned(r) \/ NextLevel(r) \/ Break(r) BY <2>1, <2>3, <3>1, EndLevels
      <3>2. CASE Resolve(r) BY <2>1, <2>3, <3>2, EndResolve
      <3>3. CASE EmitPending(r) BY <2>1, <2>3, <3>3, EndEmit
      <3>4. CASE Finish(r) \/ RouterDone(r) BY <2>1, <2>3, <3>4, EndFinish
      <3>5. CASE RouterCompletes(r) BY <2>1, <2>3, <3>5, EndRouter
      <3> QED BY <2>5, <3>1, <3>2, <3>3, <3>4, <3>5 DEF Handler
    <2>6. CASE Bootstrap(r) BY <2>1, <2>3, <2>6, EndLevels
    <2>7. CASE Kill(r) BY <2>1, <2>3, <2>7, EndKill
    <2>8. CASE \E s \in Steps : HandlerStep(r, s) BY <2>1, <2>3, <2>8, EndHandlerStep
    <2>9. CASE \E s \in Steps : FrozenStep(r, s) BY <2>1, <2>3, <2>9, EndFrozen
    <2>10. CASE \E s \in Steps : Task(r, s) BY <2>1, <2>3, <2>10, EndTask
    <2>11. CASE \E p \in Runs, f \in Steps : Fork(r, p, f) BY <2>1, <2>3, <2>11, EndFork
    <2> QED BY <1>2, <2>4, <2>5, <2>6, <2>7, <2>8, <2>9, <2>10, <2>11
  <1> QED BY <1>0, <1>2 DEF Next, Die, Exit

LEMMA EndInit == Init => EndInv
  <1> SUFFICES ASSUME Init, NEW r \in Runs PROVE End(r) BY DEF EndInv
  <1>1. /\ pc[r] = "unused" /\ log[r] = << >> /\ pending[r] = << >> /\ joining[r] = {} /\ placed[r] = {}
        /\ halt[r] = FALSE /\ session[r] = FALSE /\ \A s \in Steps : task[r][s] = "none"
    BY DEF Init
  <1>2. DOMAIN << >> = {} OBVIOUS
  <1>3. \A e : ~Has(r, e) /\ ~Soon(r, e) BY <1>1, <1>2 DEF Has, Soon
  <1>4. \A E : AtMostOne(Positions(r, E)) BY <1>1, <1>2 DEF AtMostOne, Positions
  <1>5. Quiet(r) BY <1>1, <1>2 DEF Quiet, Manned, Alive, Paced, Idle
  <1>6. Verdict(r) BY <1>1, <1>3 DEF Verdict, Flags, Says
  <1>7. Earning(r) BY <1>1, <1>3 DEF Earning, Placing, Succeeds, Says
  <1>8. Once(r) BY <1>1, <1>2, <1>3, <1>4 DEF Once
  <1>9. Nodes(r) BY <1>3, <1>4 DEF Nodes
  <1> QED BY <1>5, <1>6, <1>7, <1>8, <1>9 DEF End

(* How a run ends and what its stream may have told by then, the invariant of *)
(* the three theorems below.                                                  *)
THEOREM EndInvariant == Spec => []EndInv
  <1>1. Init => EndInv BY EndInit
  <1>2. TypeOK /\ LocalInv /\ EndInv /\ [Next]_vars => EndInv' BY EndStep
  <1> QED BY <1>1, <1>2, WalkInvariant, PTL DEF Spec

(* Once handle() has returned, or the stream records the run as completed, by    *)
(* WorkflowCompleted or by the router's PipelineCompleted, no task of the run is *)
(* left and its shell session is closed; a run cut off in the middle of a level  *)
(* gets no WorkflowCompleted and no PipelineCompleted that says it succeeded.    *)
THEOREM QuietWhenOver == Spec => []NothingOutlives
  <1>1. EndInv => NothingOutlives
    <2> SUFFICES ASSUME EndInv, NEW r \in Runs
                 PROVE  IF Cut(r)
                        THEN \A ok \in BOOLEAN :
                                ~Has(r, OfRun("completed", ok)) /\ ~Has(r, OfRun("run_completed", TRUE))
                        ELSE /\ Recorded(r) \/ pc[r] \in Ended => \A s \in Steps : task[r][s] \notin Alive
                             /\ pc[r] \in Ended \cup {"completing"} => ~session[r]
      BY DEF NothingOutlives
    <2>1. Manned(r) /\ Quiet(r) /\ Verdict(r) BY DEF EndInv, End, Quiet
    <2>2. \A ok \in BOOLEAN : Has(r, OfRun("completed", ok)) => joining[r] = {} /\ todo[r] = {}
      BY <2>1 DEF Verdict, Says
    <2>3. \A ok \in BOOLEAN : Has(r, OfRun("run_completed", ok)) =>
             pc[r] \in Late /\ (todo[r] = {} \/ (~ok /\ mode[r] = "serve"))
             /\ (mode[r] = "serve" => pc[r] \in {"completing", "closed", "dead"})
      BY <2>1 DEF Verdict, Says
    <2>4. CASE Cut(r) BY <2>2, <2>3, <2>4 DEF Cut
    <2>5. CASE ~Cut(r)
      <3>1. pc[r] \in Ended \cup {"completing"} => Idle(r)
        BY <2>1, <2>5 DEF Cut, Ended, Quiet, Paced
      <3>2. Recorded(r) => joining[r] = {}
        <4>1. ASSUME NEW ok \in BOOLEAN, Has(r, OfRun("run_completed", ok)) PROVE joining[r] = {}
          <5>1. pc[r] = "sealing" => joining[r] = {} BY <2>1 DEF Quiet
          <5> QED BY <2>3, <3>1, <4>1, <5>1 DEF Late, Ended, Idle
        <4> QED BY <2>2, <4>1 DEF Recorded
      <3> QED BY <2>1, <2>5, <3>1, <3>2 DEF Idle, Manned
    <2> QED BY <2>4, <2>5
  <1> QED BY <1>1, EndInvariant, PTL

(* A run that says it succeeded, or answers, has every step done, frozen or *)
(* skipped, and the output that resolve_final_output chose.                 *)
THEOREM SuccessIsEarned == Spec => []SuccessEarned
  <1>1. EndInv => SuccessEarned
    BY DEF EndInv, End, Earning, Succeeds, Says, Earned, SuccessEarned
  <1> QED BY <1>1, EndInvariant, PTL

(* Tasks, handler and bootstrap together tell of every step at most one start *)
(* or skip and at most one end, and of at most one end of the run, which its  *)
(* events agree upon.                                                         *)
THEOREM EverythingToldOnce == Spec => []ToldOnce
  <1>1. EndInv => ToldOnce
    <2> SUFFICES ASSUME EndInv, NEW r \in Runs
                 PROVE  /\ \A s \in Steps :
                              /\ AtMostOne(Positions(r, StartsOf(s)))
                              /\ AtMostOne(Positions(r, EndsOf(s)))
                        /\ AtMostOne(Positions(r, RunDone))
                        /\ \A ok \in BOOLEAN :
                              Has(r, OfRun("run_completed", ok)) => ~Has(r, OfRun("completed", ~ok))
      BY DEF ToldOnce, StartsOf, EndsOf, RunDone
    <2>1. Verdict(r) /\ Once(r) /\ Nodes(r) BY DEF EndInv, End
    <2> QED BY <2>1 DEF Verdict, Says, Once, Nodes
  <1> QED BY <1>1, EndInvariant, PTL
================================================================================
