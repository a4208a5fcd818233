-------------------------------- MODULE RunViews --------------------------------
(***************************************************************************)
(* The zymi.runs.* tools of `zymi mcp serve` (cli/mcp_observability.rs)    *)
(* and the list of runs they share with `zymi runs` (cli/runs_data.rs):    *)
(* what is told of runs that go on while their streams are read one after  *)
(* the other.                                                              *)
(*                                                                         *)
(* The store is one log; an event is of a run's own stream (step None) or  *)
(* of the stream of one of its steps.  A text is a value, Empty or None.   *)
(***************************************************************************)
EXTENDS Integers, Sequences, SequencesExt, FiniteSets, FiniteSetsExt

CONSTANTS
    Runs, Steps, Deps,  \* Deps: step -> the steps it depends on
    Tasks,      \* the runs of task-augmented calls, recorded before they start
    Texts,      \* what a model may answer and a tool return
    Page,       \* 256
    Limit,      \* events a client asks for at a time
    MaxLog

None == "none"
Empty == "empty"

VARIABLES
    log,      \* << [run, step, kind, node, good, text] >>
    session,  \* session_runs
    query,    \* [tool, run, step, phase]: the call being handled
    since,    \* the length of the log when zymi.runs.list began
    got,      \* run -> the status read for it, None before
    page,     \* zymi.runs.events: the cursor and the events collected
    read,     \* zymi.runs.step_io: the length of the log at each of its reads
    heard,    \* the events the client has been given while it pages through a run
    answer    \* the last answer: [tool, ...]

vars == <<log, session, query, since, got, page, read, heard, answer>>

Idle == [tool |-> None, run |-> None, step |-> None, phase |-> 0]
NoPage == [cursor |-> 0, out |-> << >>]
(* at: the length of the log that the answer is of.                        *)
Nothing == [tool |-> None, at |-> 0, runs |-> << >>, limit |-> 0, run |-> None, step |-> None,
            status |-> None, current |-> None, note |-> None, output |-> None, prior |-> << >>]

Init ==
    /\ log = << >> /\ session = {}
    /\ query = Idle /\ since = 0
    /\ got = [r \in Runs |-> None]
    /\ page = NoPage /\ read = << >> /\ heard = << >>
    /\ answer = Nothing
-----------------------------------------------------------------------------
(* The runs, as run_pipeline.rs writes them.                               *)
Event(r, s, k, n, g, x) == [run |-> r, step |-> s, kind |-> k, node |-> n, good |-> g, text |-> x]
UpTo(n) == SubSeq(log, 1, n)
Of(l, r, s) == SelectSeq(l, LAMBDA e : e.run = r /\ e.step = s)
Has(l, r, k, n) == \E i \in DOMAIN l : l[i].run = r /\ l[i].step = None /\ l[i].kind = k /\ l[i].node = n
Open(l, r) == {s \in Steps : Has(l, r, "started", s) /\ ~Has(l, r, "completed", s)}
Over(l, r, s) == Has(l, r, "completed", s) \/ Has(l, r, "skipped", s)
Ended(l, r) == Has(l, r, "done", None)

Write(e) ==
    /\ Len(log) < MaxLog
    /\ log' = Append(log, e)
    /\ UNCHANGED <<query, since, got, page, read, heard, answer>>

Request ==
    \E r \in Runs :
        /\ ~Has(log, r, "requested", None)
        /\ Write(Event(r, None, "requested", None, TRUE, None))
        /\ session' = IF r \in Tasks THEN session \cup {r} ELSE session

Running(r) == Has(log, r, "requested", None) /\ ~Ended(log, r)

StepStarts ==
    \E r \in Runs, s \in Steps :
        /\ Running(r) /\ ~Has(log, r, "started", s) /\ ~Over(log, r, s)
        /\ \A d \in Deps[s] : Over(log, r, d)
        /\ \/ Write(Event(r, None, "started", s, TRUE, None))
           \/ Deps[s] # {} /\ Write(Event(r, None, "skipped", s, TRUE, None))
        /\ UNCHANGED session

StepSpeaks ==
    \E r \in Runs : \E s \in Open(log, r) :
        /\ Running(r)
        /\ \E k \in {"llm", "tool"}, x \in Texts :
              /\ k = "tool" => x # Empty
              /\ Write(Event(r, s, k, None, TRUE, x))
        /\ UNCHANGED session

StepEnds ==
    \E r \in Runs : \E s \in Open(log, r) :
        /\ Running(r) /\ Of(log, r, s) # << >> /\ Last(Of(log, r, s)).kind = "llm"
        /\ Write(Event(r, None, "completed", s, TRUE, None))
        /\ UNCHANGED session

RunEnds ==
    \E r \in Runs, g \in BOOLEAN :
        /\ Running(r) /\ Open(log, r) = {}
        /\ Write(Event(r, None, "done", None, g, None))
        /\ UNCHANGED session

(* The run of a call without a task is recorded once it is over.           *)
Recorded ==
    \E r \in Runs \ session :
        /\ Ended(log, r)
        /\ session' = session \cup {r}
        /\ UNCHANGED <<log, query, since, got, page, read, heard, answer>>
-----------------------------------------------------------------------------
Status(l, r) ==
    IF ~Ended(l, r) THEN "running"
    ELSE IF \E i \in DOMAIN l : l[i].run = r /\ l[i].kind = "done" /\ l[i].good THEN "ok" ELSE "failed"

Busy == <<log, session>>

(* run_list: list_streams, then every stream in turn.                      *)
ListBegins ==
    /\ query = Idle
    /\ query' = [Idle EXCEPT !.tool = "list"] /\ since' = Len(log)
    /\ heard' = << >> /\ answer' = Nothing
    /\ UNCHANGED <<Busy, got, page, read>>

ListReads ==
    \E r \in Runs :
        /\ query.tool = "list" /\ got[r] = None /\ Has(UpTo(since), r, "requested", None)
        /\ got' = [got EXCEPT ![r] = Status(log, r)]
        /\ UNCHANGED <<Busy, query, since, page, read, heard, answer>>

At(r) == Min({i \in DOMAIN log : log[i].run = r})
NewestFirst(S) == SetToSortSeq(S, LAMBDA a, b : At(a) > At(b))
Truncated(s, n) == IF Len(s) > n THEN SubSeq(s, 1, n) ELSE s

\* a slip: the list is cut before the status is looked at
Chosen_cut(S, want, n) == SelectSeq(Truncated(NewestFirst(S \cap session), n), LAMBDA r : want = None \/ got[r] = want)

Chosen(S, want, n) ==
    Truncated(NewestFirst({r \in S \cap session : want = None \/ got[r] = want}), n)

ListAnswers ==
    /\ query.tool = "list" /\ \A r \in Runs : Has(UpTo(since), r, "requested", None) => got[r] # None
    /\ \E want \in {None, "running", "ok", "failed"}, n \in 1..Cardinality(Runs) :
          answer' = [Nothing EXCEPT !.tool = "list", !.at = since, !.status = want, !.limit = n,
                                    !.runs = Chosen({r \in Runs : got[r] # None}, want, n)]
    /\ query' = Idle /\ since' = 0 /\ got' = [r \in Runs |-> None]
    /\ UNCHANGED <<Busy, page, read, heard>>

\* a slip: the first node that was started and is not completed
CurrentStep_stale(l, r) ==
    LET own == SelectSeq(l, LAMBDA e : e.run = r /\ e.step = None /\ e.kind = "started") IN
    IF own = << >> THEN None ELSE own[1].node

(* current_step: the node started last, unless it is completed.            *)
CurrentStep(l, r) ==
    LET own == SelectSeq(l, LAMBDA e : e.run = r /\ e.step = None /\ e.kind = "started") IN
    IF Ended(l, r) \/ own = << >> \/ Has(l, r, "completed", Last(own).node) THEN None ELSE Last(own).node

Get ==
    \E r \in Runs :
        /\ query = Idle
        /\ answer' = IF r \notin session \/ ~Has(log, r, "requested", None)
                     THEN [Nothing EXCEPT !.tool = "refused", !.run = r]
                     ELSE [Nothing EXCEPT !.tool = "get", !.at = Len(log), !.run = r, !.status = Status(log, r), !.current = CurrentStep(log, r)]
        /\ heard' = << >>
        /\ UNCHANGED <<Busy, query, since, got, page, read>>

(* run_events, from the last event the client was given.                   *)
EventsBegin ==
    \E r \in Runs \cap session :
        /\ query = Idle /\ \A i \in DOMAIN heard : heard[i][2].run = r
        /\ query' = [Idle EXCEPT !.tool = "events", !.run = r]
        /\ page' = [cursor |-> IF heard = << >> THEN 0 ELSE Last(heard)[1], out |-> << >>]
        /\ answer' = Nothing
        /\ UNCHANGED <<Busy, since, got, read, heard>>

EventsPage ==
    LET last == IF page.cursor + Page > Len(log) THEN Len(log) ELSE page.cursor + Page
        own == SelectSeq([i \in 1..last - page.cursor |-> <<page.cursor + i, log[page.cursor + i]>>],
                         LAMBDA t : t[2].run = query.run)
        out == Truncated(page.out \o own, Limit)
        full == Len(page.out \o own) >= Limit
    IN /\ query.tool = "events"
       /\ IF full \/ last - page.cursor < Page
          THEN /\ heard' = heard \o out
               /\ answer' = [Nothing EXCEPT !.tool = "events", !.run = query.run]
               /\ query' = Idle /\ page' = NoPage
          ELSE /\ page' = [cursor |-> last, out |-> out]
               /\ UNCHANGED <<query, heard, answer>>
       /\ UNCHANGED <<Busy, since, got, read>>

(* run_step_io: the step's stream, the run's, and those of every step.     *)
StepIoReads ==
    /\ \/ \E r \in Runs \cap session, s \in Steps :
            /\ query = Idle
            /\ query' = [tool |-> "step_io", run |-> r, step |-> s, phase |-> 1] /\ read' = << Len(log) >>
       \/ /\ query.tool = "step_io" /\ query.phase < 3
          /\ query' = [query EXCEPT !.phase = @ + 1] /\ read' = Append(read, Len(log))
    /\ heard' = << >> /\ answer' = Nothing
    /\ UNCHANGED <<Busy, since, got, page>>

(* step_output: the last answer that is not empty, or a tool's result.     *)
Output(events) ==
    LET said == {i \in DOMAIN events : events[i].text # Empty} IN
    IF said = {} THEN None ELSE events[Max(said)].text

StepIoAnswers ==
    LET own == Of(UpTo(read[1]), query.run, query.step) IN
    /\ query.tool = "step_io" /\ query.phase = 3
    /\ answer' = [Nothing EXCEPT !.tool = "step_io", !.run = query.run, !.step = query.step,
          !.note = IF own # << >> THEN None
                   ELSE IF Has(UpTo(read[2]), query.run, "skipped", query.step) THEN "skipped" ELSE "not yet",
          !.output = Output(own),
          !.prior = IF own = << >> THEN << >>
                    ELSE [d \in Steps |-> Output(Of(UpTo(read[3]), query.run, d))]]
    /\ query' = Idle /\ read' = << >>
    /\ UNCHANGED <<Busy, since, got, page, heard>>

Next ==
    \/ Request \/ StepStarts \/ StepSpeaks \/ StepEnds \/ RunEnds \/ Recorded
    \/ ListBegins \/ ListReads \/ ListAnswers \/ Get
    \/ EventsBegin \/ EventsPage \/ StepIoReads \/ StepIoAnswers

Spec == Init /\ [][Next]_vars
-----------------------------------------------------------------------------
TypeOK ==
    /\ session \subseteq Runs
    /\ query.phase \in 0..3 /\ Len(read) = query.phase
    /\ since <= Len(log) /\ Len(page.out) <= Limit
    /\ \A r \in Runs : got[r] \in {None, "running", "ok", "failed"}

Final(r, d) == Output(Of(log, r, d))
Told == UpTo(answer.at)

(* However the runs go on between its reads: a list leaves out, below its  *)
(* limit, no run that had ended so when it was asked for, and names none   *)
(* that has not; the step it calls current was under way; paging through   *)
(* the events of a run gives each of them once and in order; and a prompt  *)
(* is rebuilt from the outputs its step was given.                         *)
ViewsSound ==
    /\ answer.tool = "list" /\ answer.status \in {"ok", "failed"} =>
          /\ \A i \in DOMAIN answer.runs : Status(log, answer.runs[i]) = answer.status
          /\ Len(answer.runs) < answer.limit =>
                \A r \in Tasks : Ended(Told, r) /\ Status(log, r) = answer.status => r \in ToSet(answer.runs)
    /\ answer.tool = "get" /\ answer.current # None => answer.current \in Open(Told, answer.run)
    /\ heard # << >> =>
          LET all == SelectSeq([i \in DOMAIN log |-> <<i, log[i]>>], LAMBDA t : t[2].run = heard[1][2].run)
          IN IsPrefix(heard, all)
    /\ answer.tool = "step_io" /\ answer.note = None =>
          \A d \in Deps[answer.step] : answer.prior[d] = Final(answer.run, d)

(* cli/mcp_observability.rs:488 "Last started workflow node not yet        *)
(* completed": while a step of the run is under way, one is named.         *)
CurrentStepSeen ==
    answer.tool = "get" /\ answer.status = "running" /\ Open(Told, answer.run) # {} => answer.current # None
=============================================================================
