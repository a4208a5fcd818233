-------------------------------- MODULE Poller --------------------------------
(***************************************************************************)
(* The http_poll connector (connectors/http_poll.rs) and the table of      *)
(* cursors (connectors/cursor_store.rs): every interval a process asks an  *)
(* API for the items after its cursor, publishes a message and a pipeline  *)
(* request for each, and then moves the cursor past the whole batch, in    *)
(* memory and in the table.  Processes that serve one project share the    *)
(* table; each reads it once, when it starts.                              *)
(*                                                                         *)
(* The API is the world's: it answers a cursor with the oldest items that  *)
(* the cursor has not passed, at most Batch of them.  An item is its       *)
(* numeric id.  Text of an item, headers and templates are left out.       *)
(***************************************************************************)
EXTENDS Naturals, FiniteSets, FiniteSetsExt

CONSTANTS
    Processes,   \* processes that run the connector
    Ids,         \* ids of the items, below 100
    Ignored,     \* the ids that the filter, or a missing field, leaves out
    Batch,       \* items in one response, at most
    PlusOne,     \* cursor.plus_one
    Persist,     \* cursor.persist
    MaxStarts    \* bound on the starts of a process

None == 0

VARIABLES
    arrived,   \* the items the API has
    saved,     \* the connector's row of connector_cursors
    life,      \* process -> "down", "waiting", "publishing", "asking", "panicked"
    starts,    \* process -> how often it was started
    cursor,    \* process -> its cursor in memory
    items,     \* process -> the items of the response
    todo,      \* process -> those not yet published
    fired,     \* process -> id -> messages published for it since the start
    told,      \* ids for which a message was ever published
    lost       \* ids whose message or request could not be published

vars == <<arrived, saved, life, starts, cursor, items, todo, fired, told, lost>>

(* cursor_value and cursor_is_greater: numbers are compared as numbers.    *)
CursorValue(i) == IF PlusOne THEN i + 1 ELSE i

\* a slip: the cursors are compared as text
CursorIsGreater_text(a, b) ==
    LET Digit1(n) == IF n >= 10 THEN n \div 10 ELSE n
        Digit2(n) == IF n >= 10 THEN 1 + (n % 10) ELSE 0
    IN Digit1(a) > Digit1(b) \/ (Digit1(a) = Digit1(b) /\ Digit2(a) > Digit2(b))

CursorIsGreater(a, b) == a > b

(* The greatest cursor over all items of a response, the ignored ones too. *)
NextCursor(S) ==
    LET Values == {CursorValue(i) : i \in S}
    IN CHOOSE v \in Values : \A w \in Values \ {v} : CursorIsGreater(v, w)

(* What the API answers: the cursor it is sent is its own notion of what   *)
(* was seen, `offset` (Telegram) with plus_one, `after` without.           *)
Passed(i, c) == c # None /\ (IF PlusOne THEN i < c ELSE i <= c)
Answer(c) ==
    LET open == {i \in arrived : ~Passed(i, c)}
    IN {i \in open : Cardinality({j \in open : j < i}) < Batch}

(* passes_filter, and the fields an item must have.                        *)
PassesFilter(i) == i \notin Ignored

(* The row of the connector: what get may find, what set may leave.        *)
Get == IF Persist THEN {saved, None} ELSE {None}
Set(c) == saved' \in (IF Persist THEN {c, saved} ELSE {saved})
-----------------------------------------------------------------------------
Init ==
    /\ arrived = {}
    /\ saved = None
    /\ life = [p \in Processes |-> "down"]
    /\ starts = [p \in Processes |-> 0]
    /\ cursor = [p \in Processes |-> None]
    /\ items = [p \in Processes |-> {}]
    /\ todo = [p \in Processes |-> {}]
    /\ fired = [p \in Processes |-> [i \in Ids |-> 0]]
    /\ told = {}
    /\ lost = {}

(* The world adds items in the order of their ids. *)
Arrive ==
    /\ arrived # Ids
    /\ arrived' = arrived \cup {Min(Ids \ arrived)}
    /\ UNCHANGED <<saved, life, starts, cursor, items, todo, fired, told, lost>>

(* The loop begins: the cursor is loaded, or None if that fails. *)
Start(p) ==
    /\ life[p] = "down" /\ starts[p] < MaxStarts
    /\ life' = [life EXCEPT ![p] = "waiting"]
    /\ starts' = [starts EXCEPT ![p] = @ + 1]
    /\ \E c \in Get : cursor' = [cursor EXCEPT ![p] = c]
    /\ fired' = [fired EXCEPT ![p] = [i \in Ids |-> 0]]
    /\ UNCHANGED <<arrived, saved, items, todo, told, lost>>

(* A tick: poll_once sends the request. No item: the cursor stays.         *)
PollOnce(p) ==
    /\ life[p] = "waiting"
    /\ Answer(cursor[p]) # {}
    /\ items' = [items EXCEPT ![p] = Answer(cursor[p])]
    /\ todo' = [todo EXCEPT ![p] = {i \in Answer(cursor[p]) : PassesFilter(i)}]
    /\ life' = [life EXCEPT ![p] = "publishing"]
    /\ UNCHANGED <<arrived, saved, starts, cursor, fired, told, lost>>

(* An answer with an error status: its body is cut for the log line.       *)
(* Cutting it inside a character panics, and the task is gone.             *)
PollPanics(p) ==
    /\ life[p] = "waiting"
    /\ life' = [life EXCEPT ![p] = "panicked"]
    /\ UNCHANGED <<arrived, saved, starts, cursor, items, todo, fired, told, lost>>

(* The next item's message; a failure is only logged.                      *)
PublishMessage(p) ==
    LET i == Min(todo[p]) IN
    /\ life[p] = "publishing" /\ todo[p] # {}
    /\ life' = [life EXCEPT ![p] = "asking"]
    /\ \/ /\ fired' = [fired EXCEPT ![p][i] = @ + 1]
          /\ told' = told \cup {i}
          /\ UNCHANGED lost
       \/ lost' = lost \cup {i} /\ UNCHANGED <<fired, told>>
    /\ UNCHANGED <<arrived, saved, starts, cursor, items, todo>>

(* And its pipeline request, whatever became of the message.               *)
PublishRequest(p) ==
    LET i == Min(todo[p]) IN
    /\ life[p] = "asking"
    /\ life' = [life EXCEPT ![p] = "publishing"]
    /\ todo' = [todo EXCEPT ![p] = @ \ {i}]
    /\ \/ UNCHANGED lost
       \/ lost' = lost \cup {i}
    /\ UNCHANGED <<arrived, saved, starts, cursor, items, fired, told>>

\* a slip: the cursor is saved while there are items to publish
Save_early(p) ==
    /\ life[p] = "publishing"
    /\ saved # NextCursor(items[p])
    /\ saved' = NextCursor(items[p])
    /\ cursor' = [cursor EXCEPT ![p] = NextCursor(items[p])]
    /\ UNCHANGED <<arrived, life, starts, items, todo, fired, told, lost>>

(* store.set, the last writer wins; a failure to save is only logged.      *)
Save(p) ==
    /\ life[p] = "publishing" /\ todo[p] = {}
    /\ Set(NextCursor(items[p]))
    /\ cursor' = [cursor EXCEPT ![p] = NextCursor(items[p])]
    /\ life' = [life EXCEPT ![p] = "waiting"]
    /\ items' = [items EXCEPT ![p] = {}]
    /\ UNCHANGED <<arrived, starts, todo, fired, told, lost>>

(* Shutdown is seen between ticks, a crash comes at any time.              *)
Down(p) ==
    /\ life[p] # "down"
    /\ life' = [life EXCEPT ![p] = "down"]
    /\ items' = [items EXCEPT ![p] = {}]
    /\ todo' = [todo EXCEPT ![p] = {}]
    /\ UNCHANGED <<arrived, saved, starts, cursor, fired, told, lost>>

Next ==
    \/ Arrive
    \/ \E p \in Processes :
          \/ Start(p) \/ PollOnce(p) \/ PollPanics(p)
          \/ PublishMessage(p) \/ PublishRequest(p) \/ Save(p) \/ Down(p)

Spec == Init /\ [][Next]_vars
-----------------------------------------------------------------------------
TypeOK ==
    /\ arrived \subseteq Ids
    /\ saved \in {None} \cup {CursorValue(i) : i \in Ids}
    /\ \A p \in Processes :
          /\ life[p] \in {"down", "waiting", "publishing", "asking", "panicked"}
          /\ cursor[p] \in {None} \cup {CursorValue(i) : i \in Ids}
          /\ todo[p] \subseteq items[p] /\ items[p] \subseteq arrived
          /\ life[p] = "asking" => todo[p] # {}
    /\ told \cup lost \subseteq Ids \ Ignored

(* No message is lost to a cursor: whatever a cursor has passed, the saved *)
(* one or one in memory, was published by some process, or its publication *)
(* failed, or it was to be ignored.  A crash, another process's cursor and *)
(* a failed save only lead to publishing again.                            *)
NothingSkipped ==
    \A i \in arrived \ Ignored :
        (Passed(i, saved) \/ \E p \in Processes : Passed(i, cursor[p]))
            => i \in lost \cup told

(* While it runs a process publishes an item once.                         *)
OncePerLife == \A p \in Processes, i \in Ids : fired[p][i] <= 1

(* "Multi-process `zymi serve` against shared Postgres sees one cursor --  *)
(* no double-fire" (docs/connectors.md).                                   *)
NoDoubleFire ==
    \A i \in Ids, p, q \in Processes : fired[p][i] > 0 /\ fired[q][i] > 0 => p = q
=============================================================================
