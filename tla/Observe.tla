-------------------------------- MODULE Observe --------------------------------
(***************************************************************************)
(* `zymi observe` (cli/observe/): the list of runs, the graph of the       *)
(* selected one and its events, reloaded every two seconds while other     *)
(* processes write; and the popup that forks a run at the selected node    *)
(* and waits for a task of its own.                                        *)
(*                                                                         *)
(* A run is its position in the store, oldest first; runs are listed       *)
(* newest first, so a list is its length.  Cursors count from 0.           *)
(***************************************************************************)
EXTENDS Integers, Sequences, SequencesExt, FiniteSets, FiniteSetsExt, TLC

CONSTANTS
    Steps,        \* << [id, deps] >>: the steps of the pipeline file
    Loadable,     \* the runs whose pipeline file can be read
    Happen,       \* [kind, node, ok]: the events a run may append
    MaxRuns, MaxEvents,
    Window, Grow  \* EVENTS_WINDOW, EVENTS_WINDOW_GROW

None == "none"

VARIABLES
    store,    \* << [parent, step, log] >>; parent 0 of a run that is no fork
    known, cursor,            \* the runs listed, run_cursor
    shown,    \* [run, log]: the events loaded; run 0 for none
    at, expanded, top, earlier,  \* event_cursor, expanded_events, event_window_top, on_load_earlier
    node,     \* graph_cursor
    focus, frozen, quit,
    prompt,   \* [state, parent, step, opened, tail, made]
    forks     \* [parent, step, run, ended]: the tasks, until their result is applied

list == <<known, cursor>>
panel == <<shown, at, expanded, top, earlier, node>>
vars == <<store, known, cursor, shown, at, expanded, top, earlier, node, focus, frozen, quit, prompt, forks>>

NoPrompt == [state |-> None, parent |-> 0, step |-> None, opened |-> 0, tail |-> 0, made |-> 0]
Selected(n, c) == IF n = 0 THEN 0 ELSE n - c
Less(a, b) == IF a > b THEN a - b ELSE 0

Init ==
    /\ store \in {<< >>, << [parent |-> 0, step |-> None, log |-> << >>] >>}
    /\ known = Len(store) /\ cursor = 0
    /\ shown = [run |-> known, log |-> << >>]
    /\ at = 0 /\ expanded = {} /\ top = 0 /\ earlier = FALSE
    /\ node = 0
    /\ focus = "runs" /\ frozen = FALSE /\ quit = FALSE
    /\ prompt = NoPrompt /\ forks = {}
-----------------------------------------------------------------------------
(* Other processes.                                                        *)
StartRun ==
    /\ Len(store) < MaxRuns
    /\ \E p \in 0..Len(store), s \in {None} \cup {Steps[n].id : n \in DOMAIN Steps} :
        /\ (p = 0) = (s = None)
        /\ store' = Append(store, [parent |-> p, step |-> s, log |-> << >>])
    /\ UNCHANGED <<list, panel, focus, frozen, quit, prompt, forks>>

AppendEvent ==
    /\ \E r \in DOMAIN store, e \in Happen :
        /\ Len(store[r].log) < MaxEvents
        /\ store' = [store EXCEPT ![r].log = Append(@, e)]
    /\ UNCHANGED <<list, panel, focus, frozen, quit, prompt, forks>>
-----------------------------------------------------------------------------
(* Graph::build; linear_fallback when the file cannot be read.             *)
Started(log) == SelectSeq(log, LAMBDA e : e.kind = "started")
FirstSeen(log) ==
    LET s == Started(log)
        firsts == {i \in DOMAIN s : \A j \in 1..i - 1 : s[j].node # s[i].node}
    IN [k \in 1..Cardinality(firsts) |->
           LET i == CHOOSE i \in firsts : Cardinality({j \in firsts : j <= i}) = k
           IN s[i].node]
Nodes == IF shown.run = 0 THEN << >>
         ELSE IF shown.run \in Loadable THEN [n \in DOMAIN Steps |-> Steps[n].id]
         ELSE FirstSeen(shown.log)

Status(id) ==
    LET told == SelectSeq(shown.log, LAMBDA e : e.node = id) IN
    IF told = << >> THEN "pending"
    ELSE IF Last(told).kind = "started" THEN "running" ELSE IF Last(told).ok THEN "ok" ELSE "failed"

(* assign_ranks: passes over the steps, each with what the last one left.  *)
RankOf(s, ranks) == IF s.deps = {} THEN 0
                    ELSE 1 + Max({IF d \in DOMAIN ranks THEN ranks[d] ELSE 0 : d \in s.deps})
Pass(ranks) == FoldLeft(LAMBDA r, s : (s.id :> RankOf(s, r)) @@ r, ranks, Steps)
Ranks == FoldLeft(LAMBDA r, n : Pass(r), << >>, Steps \o << 0 >>)

\* a slip: the cursor keeps its place in a list that has grown
ReloadRuns_index(n) == known' = n /\ cursor' = cursor

(* reload_runs: the cursor follows its run.                                *)
ReloadRuns(n) ==
    /\ known' = n
    /\ cursor' = IF known = 0 THEN 0 ELSE n - Selected(known, cursor)

(* load_selected_run: back to the newest event and the first node.         *)
LoadRun(r) ==
    IF r = 0
    THEN shown' = [run |-> 0, log |-> << >>] /\ UNCHANGED <<at, expanded, top, earlier, node>>
    ELSE /\ shown' = [run |-> r, log |-> store[r].log]
         /\ expanded' = {} /\ earlier' = FALSE /\ node' = 0
         /\ top' = Less(Len(store[r].log), Window)
         /\ at' = Less(Len(store[r].log), 1)

Reload == ReloadRuns(Len(store)) /\ LoadRun(Selected(known', cursor'))

Tick ==
    /\ ~quit /\ ~frozen
    /\ Reload
    /\ UNCHANGED <<store, focus, frozen, quit, prompt, forks>>

Key == ~quit /\ prompt.state = None

KeyReload == Key /\ Reload /\ UNCHANGED <<store, focus, frozen, quit, prompt, forks>>

KeyQuit == Key /\ quit' = TRUE /\ UNCHANGED <<store, list, panel, focus, frozen, prompt, forks>>

KeyFreeze == Key /\ frozen' = ~frozen /\ UNCHANGED <<store, list, panel, focus, quit, prompt, forks>>

KeyTab ==
    /\ Key
    /\ focus' \in {"runs", "graph", "events"} \ {focus}
    /\ UNCHANGED <<store, list, panel, frozen, quit, prompt, forks>>

ClampStep(c, d, len) == IF len = 0 THEN 0 ELSE IF c + d < 0 THEN 0 ELSE IF c + d > len - 1 THEN len - 1 ELSE c + d

MoveRun ==
    /\ Key /\ focus = "runs"
    /\ \E d \in {-1, 0, 1} : cursor' = ClampStep(cursor, d, known)
    /\ LoadRun(Selected(known, cursor'))
    /\ UNCHANGED <<store, known, focus, frozen, quit, prompt, forks>>

MoveNode ==
    /\ Key /\ focus = "graph"
    /\ \E d \in {-1, 1} : node' = ClampStep(node, d, Len(Nodes))
    /\ UNCHANGED <<store, list, shown, at, expanded, top, earlier, focus, frozen, quit, prompt, forks>>

EventUp ==
    /\ Key /\ focus = "events" /\ shown.log # << >> /\ ~earlier
    /\ IF at <= top THEN earlier' = (top > 0) /\ UNCHANGED at
       ELSE at' = at - 1 /\ UNCHANGED earlier
    /\ UNCHANGED <<store, list, shown, expanded, top, node, focus, frozen, quit, prompt, forks>>

EventDown ==
    /\ Key /\ focus = "events" /\ shown.log # << >>
    /\ earlier' = FALSE
    /\ at' = IF earlier THEN top ELSE IF at + 1 > Len(shown.log) - 1 THEN Len(shown.log) - 1 ELSE at + 1
    /\ UNCHANGED <<store, list, shown, expanded, top, node, focus, frozen, quit, prompt, forks>>

(* Enter on an event, or on the row that loads earlier ones.               *)
Toggle ==
    /\ Key /\ focus = "events" /\ ~earlier
    /\ expanded' = IF at \in expanded THEN expanded \ {at} ELSE expanded \cup {at}
    /\ UNCHANGED <<store, list, shown, at, top, earlier, node, focus, frozen, quit, prompt, forks>>

LoadEarlier ==
    /\ Key /\ focus = "events" /\ earlier
    /\ top' = Less(top, Grow)
    /\ earlier' = (top' > 0)
    /\ at' = IF top' = 0 /\ top > 0 THEN 0 ELSE at
    /\ UNCHANGED <<store, list, shown, expanded, node, focus, frozen, quit, prompt, forks>>

(* Enter on a node: its first event, wherever the window is.               *)
FocusEvent ==
    LET starts == {i \in DOMAIN shown.log : shown.log[i].kind = "started" /\ shown.log[i].node = Nodes[node + 1]} IN
    /\ Key /\ focus = "graph" /\ node < Len(Nodes) /\ starts # {}
    /\ at' = Min(starts) - 1 /\ focus' = "events"
    /\ UNCHANGED <<store, list, shown, expanded, top, earlier, node, frozen, quit, prompt, forks>>
-----------------------------------------------------------------------------
OpenPrompt ==
    /\ Key /\ known > 0 /\ node < Len(Nodes)
    /\ prompt' = [NoPrompt EXCEPT !.state = "confirm", !.parent = Selected(known, cursor),
                                  !.step = Nodes[node + 1], !.opened = Len(store)]
    /\ UNCHANGED <<store, list, panel, focus, frozen, quit, forks>>

Confirm ==
    /\ ~quit /\ prompt.state = "confirm"
    /\ prompt' = [prompt EXCEPT !.state = "running"]
    /\ forks' = forks \cup {[parent |-> prompt.parent, step |-> prompt.step, run |-> 0, ended |-> None]}
    /\ UNCHANGED <<store, list, panel, focus, frozen, quit>>

\* a slip: Esc closes the popup while the fork is under way
Dismissable_any == {"confirm", "running", "failed"}

Dismissable == {"confirm", "failed"}

Dismiss ==
    /\ ~quit /\ prompt.state \in Dismissable
    /\ prompt' = NoPrompt
    /\ UNCHANGED <<store, list, panel, focus, frozen, quit, forks>>

(* Enter or Esc after the fork: on to the new run.                         *)
GoToFork ==
    /\ ~quit /\ prompt.state = "done"
    /\ cursor' = IF prompt.made <= known THEN known - prompt.made ELSE cursor
    /\ LoadRun(Selected(known, cursor'))
    /\ prompt' = NoPrompt
    /\ UNCHANGED <<store, known, focus, frozen, quit, forks>>

(* spawn_fork: the task opens a runtime of its own on the store.           *)
ForkStarts ==
    \E f \in forks :
        /\ ~quit /\ f.run = 0 /\ f.ended = None /\ Len(store) < MaxRuns
        /\ store' = Append(store, [parent |-> f.parent, step |-> f.step, log |-> << >>])
        /\ forks' = (forks \ {f}) \cup {[f EXCEPT !.run = Len(store) + 1]}
        /\ UNCHANGED <<list, panel, focus, frozen, quit, prompt>>

ForkEnds ==
    \E f \in forks :
        /\ ~quit /\ f.ended = None
        /\ \E ended \in {"failed"} \cup (IF f.run > 0 THEN {"ok"} ELSE {}) :
              forks' = (forks \ {f}) \cup {[f EXCEPT !.ended = ended]}
        /\ UNCHANGED <<store, list, panel, focus, frozen, quit, prompt>>

ApplyResult ==
    \E f \in forks :
        /\ ~quit /\ f.ended # None
        /\ forks' = forks \ {f}
        /\ ReloadRuns(Len(store))
        /\ prompt' = IF prompt.state = "running" /\ prompt.parent = f.parent /\ prompt.step = f.step
                     THEN IF f.ended = "ok" THEN [prompt EXCEPT !.state = "done", !.made = f.run]
                          ELSE [prompt EXCEPT !.state = "failed"]
                     ELSE prompt
        /\ UNCHANGED <<store, panel, focus, frozen, quit>>

(* poll_fork_tail: the newest run forked at the same place since the popup *)
(* was opened; the first one found stays.                                  *)
PollTail ==
    LET found == {r \in prompt.opened + 1..Len(store) : store[r].parent = prompt.parent /\ store[r].step = prompt.step} IN
    /\ ~quit /\ prompt.state = "running" /\ prompt.tail = 0 /\ found # {}
    /\ prompt' = [prompt EXCEPT !.tail = Max(found)]
    /\ UNCHANGED <<store, list, panel, focus, frozen, quit, forks>>

Next ==
    \/ StartRun \/ AppendEvent \/ Tick
    \/ KeyReload \/ KeyQuit \/ KeyFreeze \/ KeyTab \/ MoveRun \/ MoveNode
    \/ EventUp \/ EventDown \/ Toggle \/ LoadEarlier \/ FocusEvent
    \/ OpenPrompt \/ Confirm \/ Dismiss \/ GoToFork
    \/ ForkStarts \/ ForkEnds \/ ApplyResult \/ PollTail

Spec == Init /\ [][Next]_vars
-----------------------------------------------------------------------------
TypeOK ==
    /\ known \in 0..Len(store) /\ cursor \in 0..known
    /\ shown.run \in 0..Len(store)
    /\ at \in 0..MaxEvents /\ top \in 0..MaxEvents
    /\ prompt.state \in {None, "confirm", "running", "done", "failed"}
    /\ \A id \in ToSet(Nodes) : Status(id) \in {"pending", "running", "ok", "failed"}

(* Whatever is reloaded under it, the screen is of one piece: the events   *)
(* and the graph are the selected run's, the cursors are on it, a node is  *)
(* drawn below its dependencies; and a popup that waits has its one fork   *)
(* under way, and leads to the run it made.                                *)
ObserveSound ==
    /\ shown.run = Selected(known, cursor)
    /\ known > 0 => cursor < known
    /\ node < Len(Nodes) \/ node = 0
    /\ at < Len(shown.log) \/ at = 0
    /\ top < Len(shown.log) \/ top = 0
    /\ earlier => top > 0
    /\ \A n \in DOMAIN Steps : \A d \in Steps[n].deps : Ranks[d] < Ranks[Steps[n].id]
    /\ Cardinality(forks) <= 1
    /\ (prompt.state = "running") = (forks # {})
    /\ prompt.state = "done" => store[prompt.made].parent = prompt.parent /\ store[prompt.made].step = prompt.step

(* "Stream id of the forked run": the events the popup follows are those   *)
(* of the fork it started.                                                 *)
TailIsOwnFork ==
    prompt.state = "done" /\ prompt.tail # 0 => prompt.tail = prompt.made

(* The selected event is one that is drawn.                                *)
CursorDrawn == earlier \/ shown.log = << >> \/ at >= top
=============================================================================
