------------------------------- MODULE StoreScan -------------------------------
(***************************************************************************)
(* What is pending is never kept in memory: the HTTP channel (webhook.rs), *)
(* the Telegram callback and the replays at start-up (approval.rs,         *)
(* reasoning.rs) each walk the whole store, a page at a time, while others *)
(* append to it.  On PostgreSQL a position may be given out before a       *)
(* smaller one is committed.                                               *)
(***************************************************************************)
EXTENDS Naturals, FiniteSets

CONSTANTS
    Ids,        \* approvals
    Scanners,   \* walks of the store: requests of HTTP, callbacks, replays
    Kinds,      \* of the walks: "list", "decide", "callback", "replay"
    Page,       \* events of a page: 1024
    MaxSeq,     \* positions of the store
    InOrder     \* positions are committed in order (SQLite)

None == "none"
Free == [kind |-> None, id |-> None]
Requested(i) == [kind |-> "requested", id |-> i]
Decided(i) == [kind |-> "decided", id |-> i]
Other == [kind |-> "other", id |-> None]

VARIABLES
    log,    \* position -> the event committed there, or Free
    scan    \* s -> [pc, kind, from, target, requested, decided, before]: a walk; `before` is
            \* the log when it began, which only the properties read

vars == <<log, scan>>

Positions == 1..MaxSeq
Holds(l, e) == \E n \in Positions : l[n] = e
Idle == [pc |-> "idle", kind |-> None, from |-> 0, target |-> None, requested |-> {}, decided |-> {},
         before |-> [n \in Positions |-> Free]]

Init ==
    /\ log = [n \in Positions |-> Free]
    /\ scan = [s \in Scanners |-> Idle]

(* An event is committed: a request, somebody's answer to one, or another. *)
Append ==
    \E n \in Positions, e \in {Requested(i) : i \in Ids} \cup {Decided(i) : i \in Ids} \cup {Other} :
        /\ log[n] = Free
        /\ InOrder => \A m \in 1..n - 1 : log[m] # Free
        /\ e.kind = "requested" => ~Holds(log, e)
        /\ e.kind = "decided" => \E m \in 1..n - 1 : log[m] = Requested(e.id)
        /\ log' = [log EXCEPT ![n] = e]
        /\ UNCHANGED scan
-----------------------------------------------------------------------------
(* tail(from, Page), which read_all agrees with: the first events after    *)
(* the position, in order.                                                 *)
After(n) == {m \in Positions : m > n /\ log[m] # Free}
PageFrom(n) == {m \in After(n) : Cardinality({k \in After(n) : k <= m}) <= Page}
LastOf(p) == CHOOSE m \in p : \A k \in p : k <= m

Begin(s) ==
    \E k \in Kinds, i \in Ids :
        /\ scan[s].pc = "idle"
        /\ k \in {"list", "replay"} => i = CHOOSE j \in Ids : TRUE
        /\ scan' = [scan EXCEPT ![s] = [Idle EXCEPT !.pc = "walk", !.kind = k, !.target = i, !.before = log]]
        /\ UNCHANGED log

Collect(s, p) ==
    [scan[s] EXCEPT !.requested = @ \cup {log[m].id : m \in {k \in p : log[k].kind = "requested"}},
                    !.decided = @ \cup {log[m].id : m \in {k \in p : log[k].kind = "decided"}}]

Finished(s) == IF scan[s].kind = "decide" THEN "correlate" ELSE "done"

\* a slip: the next page leaves out the event after the last
Walk_skips(s) ==
    LET p == PageFrom(scan[s].from) IN
    /\ scan[s].pc = "walk"
    /\ scan' = [scan EXCEPT ![s] = IF Cardinality(p) < Page THEN [Collect(s, p) EXCEPT !.pc = Finished(s)]
                                   ELSE [Collect(s, p) EXCEPT !.from = LastOf(p) + 1]]
    /\ UNCHANGED log

(* A page that is not full is the last. *)
Walk(s) ==
    LET p == PageFrom(scan[s].from) IN
    /\ scan[s].pc = "walk"
    /\ scan' = [scan EXCEPT ![s] = IF Cardinality(p) < Page THEN [Collect(s, p) EXCEPT !.pc = Finished(s)]
                                   ELSE [Collect(s, p) EXCEPT !.from = LastOf(p)]]
    /\ UNCHANGED log

Pending(s) == scan[s].requested \ scan[s].decided

(* decide_approval: an approval that is not pending is not found; for one  *)
(* that is, correlation_id_for walks again, to the request.                *)
Correlate(s) ==
    /\ scan[s].pc = "correlate"
    /\ scan' = [scan EXCEPT ![s].pc =
                   IF scan[s].target \in Pending(s) /\ Holds(log, Requested(scan[s].target))
                   THEN "publish" ELSE "not found"]
    /\ UNCHANGED log

(* telegram_callback_handler: a callback for nothing known is not found,   *)
(* one for an approval already decided is ignored.                         *)
Conclude(s) ==
    /\ scan[s].pc = "done"
    /\ scan' = [scan EXCEPT ![s].pc =
                   IF scan[s].kind = "list" \/ (scan[s].kind = "replay" /\ Pending(s) = {}) THEN "reported"
                   ELSE IF scan[s].kind = "replay" THEN "sealing"
                   ELSE IF scan[s].target \notin scan[s].requested THEN "not found"
                   ELSE IF scan[s].target \in scan[s].decided THEN "ignored" ELSE "publish"]
    /\ UNCHANGED log

Publishes(s, i) ==
    \E n \in Positions :
        /\ log[n] = Free /\ \A m \in Positions : m >= n => log[m] = Free
        /\ log' = [log EXCEPT ![n] = Decided(i)]

Publish(s) ==
    /\ scan[s].pc = "publish"
    /\ Publishes(s, scan[s].target)
    /\ scan' = [scan EXCEPT ![s].pc = "published"]

(* The replay closes what is old and hands out the rest again, one by one. *)
Seal(s) ==
    \E i \in Pending(s) :
        /\ scan[s].pc = "sealing"
        /\ scan' = [scan EXCEPT ![s].requested = @ \ {i},
                                ![s].pc = IF Pending(s) = {i} THEN "published" ELSE "sealing"]
        /\ Publishes(s, i) \/ UNCHANGED log

Next ==
    \/ Append
    \/ \E s \in Scanners : Begin(s) \/ Walk(s) \/ Correlate(s) \/ Conclude(s) \/ Publish(s) \/ Seal(s)

Spec == Init /\ [][Next]_vars
-----------------------------------------------------------------------------
TypeOK ==
    /\ \A s \in Scanners :
          /\ scan[s].pc \in {"idle", "walk", "correlate", "done", "reported", "sealing", "publish", "published",
                             "not found", "ignored"}
          /\ scan[s].requested \cup scan[s].decided \subseteq Ids
    /\ \A n \in Positions : log[n].kind = "decided" => \E m \in 1..n - 1 : log[m] = Requested(log[n].id)

(* However pages and appends fall, a walk has seen what was in the store   *)
(* when it began: it answers or closes no request decided before that, and *)
(* it finds every request that was there and is still open.                *)
Over(s) == scan[s].pc \notin {"idle", "walk", "published"}

ScanComplete ==
    \A s \in Scanners : Over(s) =>
        \A i \in Ids :
            /\ Holds(scan[s].before, Decided(i)) => i \notin Pending(s)
            /\ scan[s].pc # "sealing" /\ Holds(scan[s].before, Requested(i)) /\ ~Holds(log, Decided(i))
                  => i \in Pending(s)
=============================================================================
