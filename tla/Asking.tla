-------------------------------- MODULE Asking --------------------------------
(***************************************************************************)
(* The `ask:` step of `zymi run` (reasoning.rs): a run publishes its       *)
(* question and waits for the answer with its id; a channel of the process *)
(* prompts on the terminal.  The approval channel (approval.rs) prompts on *)
(* the same terminal.  When a process starts, the questions nobody         *)
(* answered are put to its channels again, or closed when they are old.    *)
(*                                                                         *)
(* Approvals has the approvals' own life; here they only share stdin.      *)
(***************************************************************************)
EXTENDS Naturals, Sequences, SequencesExt, FiniteSets

CONSTANTS
    Asks,        \* questions
    Approvals,   \* approvals asked for on the terminal
    Elsewhere,   \* the questions and approvals routed to a channel this program does not run
    MaxStarts,   \* processes, one after the other
    MaxLost      \* what one process may lose, at most

None == "none"
Ids == Asks \cup Approvals
KindOf(i) == IF i \in Asks THEN "ask" ELSE "approval"
Kinds == {"ask", "approval"}

VARIABLES
    starts,     \* processes started so far
    up,         \* the process runs
    waits,      \* id -> "new", "waiting", its outcome, or "gone" with its process
    requested,  \* the requests in the store
    decided,    \* the answers in the store, <<id, whose line it is, or who closed it>>
    old,        \* the requests older than the time-out
    inbox,      \* channel -> the requests its subscription holds
    queue,      \* channel -> the tasks that wait for its lock, in turn
    open,       \* channel -> the request whose prompt is open, or None
    shown,      \* the prompts on the screen that no line has been read for, in order
    lines,      \* channel -> the line its prompt has read: the request the human meant
    closed,     \* stdin is at its end
    lost        \* what this process could not do, <<id, by>>: an answer it could not
                \* store, or what its replay has left open

vars == <<starts, up, waits, requested, decided, old, inbox, queue, open, shown, lines, closed, lost>>

Nobody == [k \in Kinds |-> None]
Empty == [k \in Kinds |-> << >>]
Unmet == {i \in requested : ~\E by \in Ids \cup {None, "timeout", "eof", "restart"} : <<i, by>> \in decided}

Init ==
    /\ starts = 0 /\ up = FALSE
    /\ waits = [i \in Ids |-> "new"]
    /\ requested = {} /\ decided = {} /\ old = {}
    /\ inbox = Empty /\ queue = Empty /\ open = Nobody
    /\ shown = << >> /\ lines = Nobody
    /\ closed = FALSE
    /\ lost = {}

(* A publish whose error is only logged: the request is closed in the      *)
(* store, or all goes on as if it were.                                    *)
Close(i, by) ==
    \/ decided' = decided \cup {<<i, by>>} /\ UNCHANGED lost
    \/ Cardinality(lost) < MaxLost /\ lost' = lost \cup {<<i, by>>} /\ UNCHANGED decided

Redelivered(k) == {q \in [1..Cardinality({i \in Unmet \ old : i \notin Elsewhere /\ KindOf(i) = k}) -> Ids] :
                     /\ \A n, m \in DOMAIN q : n # m => q[n] # q[m]
                     /\ \A n \in DOMAIN q : q[n] \in (Unmet \ old) \ Elsewhere /\ KindOf(q[n]) = k}

(* start_approval_channels and start_reasoning_channels: each channel      *)
(* subscribes, then replay_unfulfilled walks the whole store; the replay   *)
(* of a kind may fail to read it, and any answer to an old request may     *)
(* fail to be stored, which is only logged.                                *)
Start ==
    /\ ~up /\ starts < MaxStarts
    /\ up' = TRUE /\ starts' = starts + 1
    /\ \E skipped \in SUBSET Kinds, unsealed \in SUBSET (Unmet \cap old) :
          LET left == unsealed \cup {i \in Unmet : KindOf(i) \in skipped} IN
          /\ Cardinality(left) <= MaxLost
          /\ lost' = {<<i, "restart">> : i \in left}
          /\ decided' = decided \cup {<<i, "restart">> : i \in (Unmet \cap old) \ left}
          /\ \E a \in Redelivered("ask"), p \in Redelivered("approval") :
                inbox' = [k \in Kinds |-> IF k \in skipped THEN << >> ELSE IF k = "ask" THEN a ELSE p]
    /\ closed' = FALSE
    /\ UNCHANGED <<waits, requested, old, queue, open, shown, lines>>

Crash ==
    /\ up
    /\ up' = FALSE
    /\ waits' = [i \in Ids |-> IF waits[i] = "waiting" THEN "gone" ELSE waits[i]]
    /\ inbox' = Empty /\ queue' = Empty /\ open' = Nobody
    /\ shown' = << >> /\ lines' = Nobody
    /\ UNCHANGED <<starts, requested, decided, old, closed, lost>>

(* request_reasoning_via_bus: subscribes, publishes, waits. *)
Request(i) ==
    /\ up /\ waits[i] = "new"
    /\ waits' = [waits EXCEPT ![i] = "waiting"]
    /\ requested' = requested \cup {i}
    /\ inbox' = IF i \in Elsewhere THEN inbox ELSE [inbox EXCEPT ![KindOf(i)] = Append(@, i)]
    /\ UNCHANGED <<starts, up, decided, old, queue, open, shown, lines, closed, lost>>

PublishFails(i) ==
    /\ up /\ waits[i] = "new"
    /\ waits' = [waits EXCEPT ![i] = "failed"]
    /\ UNCHANGED <<starts, up, requested, decided, old, inbox, queue, open, shown, lines, closed, lost>>

\* a slip: any answer of the run's correlation ends the wait
Hear_any(i) ==
    /\ up /\ waits[i] = "waiting"
    /\ \E d \in decided :
          /\ KindOf(d[1]) = KindOf(i)
          /\ waits' = [waits EXCEPT ![i] = IF d[2] \in Ids THEN d[2] ELSE "failed"]
    /\ UNCHANGED <<starts, up, requested, decided, old, inbox, queue, open, shown, lines, closed, lost>>

Hear(i) ==
    /\ up /\ waits[i] = "waiting"
    /\ \E d \in decided :
          /\ d[1] = i
          /\ waits' = [waits EXCEPT ![i] = IF d[2] \in Ids THEN d[2] ELSE "failed"]
    /\ UNCHANGED <<starts, up, requested, decided, old, inbox, queue, open, shown, lines, closed, lost>>

(* The time-out closes the request in the store: synthesize_failure.       *)
(* Start calls a request old after the same time.                          *)
TimeOut(i) ==
    /\ up /\ waits[i] = "waiting"
    /\ waits' = [waits EXCEPT ![i] = "failed"]
    /\ Close(i, "timeout")
    /\ old' = old \cup {i}
    /\ UNCHANGED <<starts, up, requested, inbox, queue, open, shown, lines, closed>>

Ages(i) ==
    /\ i \in requested \ old /\ ~up
    /\ old' = old \cup {i}
    /\ UNCHANGED <<starts, up, waits, requested, decided, inbox, queue, open, shown, lines, closed, lost>>
-----------------------------------------------------------------------------
(* The channel's listener: a task for each request. *)
Listen(k) ==
    /\ up /\ inbox[k] # << >>
    /\ inbox' = [inbox EXCEPT ![k] = Tail(@)]
    /\ queue' = [queue EXCEPT ![k] = Append(@, Head(inbox[k]))]
    /\ UNCHANGED <<starts, up, waits, requested, decided, old, open, shown, lines, closed, lost>>

\* a slip: no lock around the prompt
Prompt_unlocked(k) ==
    /\ up /\ queue[k] # << >>
    /\ queue' = [queue EXCEPT ![k] = Tail(@)]
    /\ open' = [open EXCEPT ![k] = Head(queue[k])]
    /\ shown' = Append(shown, Head(queue[k]))
    /\ UNCHANGED <<starts, up, waits, requested, decided, old, inbox, lines, closed, lost>>

(* The task that has the channel's lock prints its prompt and reads a line *)
(* of stdin; a request already closed is prompted for all the same.        *)
Prompt(k) ==
    /\ up /\ queue[k] # << >> /\ open[k] = None
    /\ queue' = [queue EXCEPT ![k] = Tail(@)]
    /\ open' = [open EXCEPT ![k] = Head(queue[k])]
    /\ shown' = Append(shown, Head(queue[k]))
    /\ UNCHANGED <<starts, up, waits, requested, decided, old, inbox, lines, closed, lost>>

Meant(k) == IF shown = << >> THEN open[k] ELSE shown[Len(shown)]

(* The human answers the prompt that is last on the screen; the line goes  *)
(* to whichever prompt holds stdin.                                        *)
Type(k) ==
    /\ up /\ open[k] # None /\ lines[k] = None /\ ~closed
    /\ lines' = [lines EXCEPT ![k] = Meant(k)]
    /\ shown' = RemoveFirst(shown, Meant(k))
    /\ UNCHANGED <<starts, up, waits, requested, decided, old, inbox, queue, open, closed, lost>>

CloseStdin ==
    /\ up /\ ~closed
    /\ closed' = TRUE
    /\ UNCHANGED <<starts, up, waits, requested, decided, old, inbox, queue, open, shown, lines, lost>>

(* The end of stdin is an answer too: the request fails closed.  The       *)
(* prompt is over, whether the answer could be stored or not.              *)
Answer(k) ==
    /\ up /\ open[k] # None /\ (closed \/ lines[k] # None)
    /\ Close(open[k], IF lines[k] # None THEN lines[k] ELSE "eof")
    /\ open' = [open EXCEPT ![k] = None]
    /\ lines' = [lines EXCEPT ![k] = None]
    /\ shown' = RemoveFirst(shown, open[k])
    /\ UNCHANGED <<starts, up, waits, requested, old, inbox, queue, closed>>

Next ==
    \/ Start \/ Crash \/ CloseStdin
    \/ \E i \in Ids : Request(i) \/ PublishFails(i) \/ Hear(i) \/ TimeOut(i) \/ Ages(i)
    \/ \E k \in Kinds : Listen(k) \/ Prompt(k) \/ Type(k) \/ Answer(k)

Spec == Init /\ [][Next]_vars
-----------------------------------------------------------------------------
Dropped == {l[1] : l \in lost}
Listed(q) == {q[n] : n \in DOMAIN q}
UnderWay(i) == i \in Listed(inbox[KindOf(i)]) \cup Listed(queue[KindOf(i)]) \cup {open[KindOf(i)]}

TypeOK ==
    /\ starts \in 0..MaxStarts /\ up \in BOOLEAN /\ closed \in BOOLEAN
    /\ \A i \in Ids : waits[i] \in Ids \cup {"new", "waiting", "failed", "gone"}
    /\ old \subseteq requested /\ {d[1] : d \in decided} \subseteq requested
    /\ \A k \in Kinds : \A i \in Listed(inbox[k]) \cup Listed(queue[k]) : KindOf(i) = k
    /\ Dropped \subseteq requested

(* Across crashes and restarts, a request that is still open has a prompt  *)
(* on its way in the process that runs, unless this very process failed to *)
(* store an answer to it or to replay it: what an earlier one lost is made *)
(* up for.  A run goes on with an answer in the store to its own request,  *)
(* and a wait that fails has closed its request, with the same exception.  *)
(* The line taken for an answer was never meant for another prompt of the  *)
(* same channel; the other channel's may be (OwnLine).                     *)
AskSound ==
    \A i \in Ids :
        /\ up /\ i \in Unmet \ Dropped /\ i \notin Elsewhere => UnderWay(i)
        /\ waits[i] \in Ids => <<i, waits[i]>> \in decided
        /\ waits[i] = "failed" /\ i \in requested => i \notin Unmet \ Dropped
        /\ \A by \in Ids : <<i, by>> \in decided => by = i \/ KindOf(by) # KindOf(i)

(* "serialised across requests so concurrent steps don't garble the        *)
(* prompt": the line a prompt reads is the one typed in answer to it.      *)
OwnLine == \A d \in decided : d[2] \in Ids => d[2] = d[1]
=============================================================================
