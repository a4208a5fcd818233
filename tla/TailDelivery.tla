----------------------------- MODULE TailDelivery -----------------------------
(***************************************************************************)
(* How an event reaches the subscribers of one process: EventBus           *)
(* (events/bus.rs) and StoreTailWatcher (events/store/watcher.rs) over a   *)
(* store that other processes write too.                                   *)
(*                                                                         *)
(* publish appends the event, notes its id in a ring of recent local ids   *)
(* and sends it to the subscribers.  The watcher polls the store from a    *)
(* cursor and sends what it finds, except for ids in the ring: those it    *)
(* takes for echoes of the process's own publishes.  publish and the       *)
(* watcher interleave at every await.                                      *)
(***************************************************************************)
EXTENDS Integers, Sequences, FiniteSets

CONSTANTS
    Local, Remote,    \* events published by this process / by the others
    Old,              \* events in the store when the process starts, in id order
    Subs,             \* subscribers of this process
    Capacity,         \* Capacity[s]: channel capacity of subscriber s
    Wants,            \* Wants[s]: the events that pass s's correlation filter
    RingCapacity,     \* RECENT_LOCAL_CAPACITY
    BatchSize, MaxBatches,   \* TailWatcherPolicy
    Serial,           \* TRUE: one write transaction at a time, ids without gaps (SQLite);
                      \* FALSE: ids drawn from a sequence, rows commit in any order (Postgres)
    CursorErrors      \* whether reading the initial cursor may fail

OldEvents == {Old[i] : i \in DOMAIN Old}
Events == Local \cup Remote \cup OldEvents

ASSUME EventsAssumption ==
    /\ Local \cap Remote = {}
    /\ Old \in Seq(OldEvents)
    /\ OldEvents \cap (Local \cup Remote) = {}
    /\ \A i, j \in DOMAIN Old : Old[i] = Old[j] => i = j
ASSUME PolicyAssumption ==
    /\ RingCapacity \in Nat \ {0}
    /\ BatchSize \in Nat \ {0}
    /\ MaxBatches \in Nat \ {0}
    /\ Capacity \in [Subs -> Nat \ {0}]
    /\ Wants \in [Subs -> SUBSET Events]
    /\ Serial \in BOOLEAN
    /\ CursorErrors \in BOOLEAN

VARIABLES
    rows,      \* rows[id]: the events table, by global id
    pc,        \* pc[e]: how far publish(e) is
    ring,      \* recent_local: ids of the last RingCapacity local events, oldest first
    sub,       \* sub[s]: whether s is subscribed
    got,       \* got[s]: everything that entered s's channel, in order
    taken,     \* taken[s]: how much of it s has received
    dropped,   \* dropped[s]: history: events try_send refused because the channel was full
    wpc,       \* the watcher's program counter
    last_seen, \* its cursor
    batch,     \* ids of the rows of the last tail() not handled yet
    received,  \* how many rows that tail() returned
    burst,     \* burst_batches
    start,     \* history: the initial cursor
    seen       \* history: ids the watcher has handled

table   == <<rows, pc>>
channel == <<sub, got, taken, dropped>>
watcher == <<wpc, last_seen, batch, received, burst, start, seen>>
vars == <<rows, pc, ring, sub, got, taken, dropped,
          wpc, last_seen, batch, received, burst, start, seen>>

------------------------------------------------------------------------------

Visible == {i \in DOMAIN rows : rows[i].state = "visible"}
Open    == {i \in DOMAIN rows : rows[i].state = "open"}
IdOf(e) == CHOOSE i \in DOMAIN rows : rows[i].event = e
Smallest(S) == CHOOSE i \in S : \A j \in S : i <= j
current_global_seq == IF Visible = {} THEN 0 ELSE CHOOSE i \in Visible : \A j \in Visible : j <= i

Init ==
    /\ rows = [i \in DOMAIN Old |-> [event |-> Old[i], state |-> "visible"]]
    /\ pc = [e \in Events |-> IF e \in OldEvents THEN "done" ELSE "new"]
    /\ ring = << >>
    /\ sub = [s \in Subs |-> "off"]
    /\ got = [s \in Subs |-> << >>]
    /\ taken = [s \in Subs |-> 0]
    /\ dropped = [s \in Subs |-> {}]
    /\ wpc = "start"
    /\ last_seen = 0
    /\ batch = {}
    /\ received = 0
    /\ burst = 0
    /\ start = 0
    /\ seen = {}

------------------------------------------------------------------------------
(* Operations with a bug, for mutation runs. *)

Free(s) == Len(got[s]) - taken[s] < Capacity[s]

Poll_reversed ==                        \* ORDER BY id DESC LIMIT: newest rows first
    LET after == {i \in Visible : i > last_seen}
        found == {i \in after : Cardinality({j \in after : i <= j}) <= BatchSize}
    IN  /\ wpc = "poll"
        /\ batch' = found
        /\ received' = Cardinality(found)
        /\ wpc' = IF found = {} THEN "sleep" ELSE "batch"
        /\ UNCHANGED <<last_seen, burst, start, seen, rows, pc, ring, channel>>

Consider_no_cursor ==                   \* the cursor only moves at the end of a short batch
    LET i == Smallest(batch)
    IN  /\ wpc = "batch"
        /\ batch # {}
        /\ last_seen' = IF received < BatchSize THEN i ELSE last_seen
        /\ seen' = seen \cup {i}
        /\ wpc' = "fanout"
        /\ UNCHANGED <<batch, received, burst, start, rows, pc, ring, channel>>

ReadCursor_first_row ==                 \* the watcher starts from the first row
    /\ wpc = "start"
    /\ last_seen' = 0
    /\ start' = 0
    /\ wpc' = "poll"
    /\ UNCHANGED <<batch, received, burst, seen, rows, pc, ring, channel>>

------------------------------------------------------------------------------
(* The store, as the bus and the watcher see it. *)

(* append inserts the row: the id is drawn, the row not yet visible. *)
InsertRow(e) ==
    /\ pc[e] = "new"
    /\ Serial => Open = {}
    /\ rows' = Append(rows, [event |-> e, state |-> "open"])
    /\ pc' = [pc EXCEPT ![e] = "open"]
    /\ UNCHANGED <<ring, channel, watcher>>

(* The transaction commits: append returns Ok. *)
CommitRow(e) ==
    /\ pc[e] = "open"
    /\ rows' = [rows EXCEPT ![IdOf(e)].state = "visible"]
    /\ pc' = [pc EXCEPT ![e] = IF e \in Local THEN "visible" ELSE "done"]
    /\ UNCHANGED <<ring, channel, watcher>>

(* It does not: publish returns the error.  SQLite hands the id out again, a *)
(* Postgres sequence leaves a hole.                                          *)
AbortRow(e) ==
    /\ pc[e] = "open"
    /\ rows' = IF Serial THEN SubSeq(rows, 1, Len(rows) - 1)
               ELSE [rows EXCEPT ![IdOf(e)].state = "aborted"]
    /\ pc' = [pc EXCEPT ![e] = "failed"]
    /\ UNCHANGED <<ring, channel, watcher>>

------------------------------------------------------------------------------
(* EventBus *)

(* RecentLocal::record *)
RecordInRing(e) ==
    /\ e \in Local
    /\ pc[e] = "visible"
    /\ ring' = LET longer == Append(ring, e)
               IN  IF Len(longer) > RingCapacity THEN Tail(longer) ELSE longer
    /\ pc' = [pc EXCEPT ![e] = "recorded"]
    /\ UNCHANGED <<rows, channel, watcher>>

contains_any(e) == ring # << >>         \* with a bug: anything is taken for an echo

contains(e) == \E i \in DOMAIN ring : ring[i] = e

(* try_send to every subscriber whose filter accepts the event. *)
Reaches(s, e) == sub[s] = "on" /\ e \in Wants[s]
Send(e) ==
    /\ got' = [s \in Subs |-> IF Reaches(s, e) /\ Free(s) THEN Append(got[s], e) ELSE got[s]]
    /\ dropped' = [s \in Subs |-> IF Reaches(s, e) /\ ~Free(s) THEN dropped[s] \cup {e}
                                  ELSE dropped[s]]
    /\ UNCHANGED <<sub, taken>>

(* The fan-out of publish. *)
FanOut(e) ==
    /\ pc[e] = "recorded"
    /\ Send(e)
    /\ pc' = [pc EXCEPT ![e] = "done"]
    /\ UNCHANGED <<rows, ring, watcher>>

(* subscribe, subscribe_correlation *)
Subscribe(s) ==
    /\ sub[s] = "off"
    /\ sub' = [sub EXCEPT ![s] = "on"]
    /\ UNCHANGED <<table, ring, got, taken, dropped, watcher>>

(* The receiver is dropped; sends to it fail from now on. *)
CloseReceiver(s) ==
    /\ sub[s] = "on"
    /\ sub' = [sub EXCEPT ![s] = "closed"]
    /\ UNCHANGED <<table, ring, got, taken, dropped, watcher>>

(* recv *)
Receive(s) ==
    /\ sub[s] = "on"
    /\ taken[s] < Len(got[s])
    /\ taken' = [taken EXCEPT ![s] = @ + 1]
    /\ UNCHANGED <<table, ring, sub, got, dropped, watcher>>

------------------------------------------------------------------------------
(* StoreTailWatcher *)

(* The cursor is read in the spawned task, some time after spawn returned. *)
ReadCursor ==
    /\ wpc = "start"
    /\ last_seen' = current_global_seq
    /\ start' = current_global_seq
    /\ wpc' = "poll"
    /\ UNCHANGED <<batch, received, burst, seen, table, ring, channel>>

(* ... and taken to be 0 if that fails. *)
ReadCursorFails ==
    /\ CursorErrors
    /\ wpc = "start"
    /\ last_seen' = 0
    /\ start' = 0
    /\ wpc' = "poll"
    /\ UNCHANGED <<batch, received, burst, seen, table, ring, channel>>

(* tail: the BatchSize lowest visible ids above the cursor. *)
Tailed ==
    LET after == {i \in Visible : i > last_seen}
    IN  {i \in after : Cardinality({j \in after : j <= i}) <= BatchSize}

Poll ==
    /\ wpc = "poll"
    /\ batch' = Tailed
    /\ received' = Cardinality(Tailed)
    /\ wpc' = IF Tailed = {} THEN "sleep" ELSE "batch"
    /\ UNCHANGED <<last_seen, burst, start, seen, table, ring, channel>>

PollFails ==
    /\ wpc = "poll"
    /\ wpc' = "sleep"
    /\ UNCHANGED <<last_seen, batch, received, burst, start, seen, table, ring, channel>>

(* The next row of the batch: the cursor moves, then redeliver looks in the ring. *)
Consider ==
    LET i == Smallest(batch)
    IN  /\ wpc = "batch"
        /\ batch # {}
        /\ last_seen' = i
        /\ seen' = seen \cup {i}
        /\ IF contains(rows[i].event)
             THEN batch' = batch \ {i} /\ UNCHANGED wpc
             ELSE wpc' = "fanout" /\ UNCHANGED batch
        /\ UNCHANGED <<received, burst, start, table, ring, channel>>

(* With a bug: redeliver notes the remote event in the ring of local ones. *)
Redeliver_recorded ==
    LET i == Smallest(batch)
    IN  /\ wpc = "fanout"
        /\ Send(rows[i].event)
        /\ ring' = Append(ring, rows[i].event)
        /\ batch' = batch \ {i}
        /\ wpc' = "batch"
        /\ UNCHANGED <<last_seen, received, burst, start, seen, table>>

(* The fan-out of redeliver: the ring is no longer locked. *)
Redeliver ==
    LET i == Smallest(batch)
    IN  /\ wpc = "fanout"
        /\ Send(rows[i].event)
        /\ batch' = batch \ {i}
        /\ wpc' = "batch"
        /\ UNCHANGED <<last_seen, received, burst, start, seen, table, ring>>

(* After the batch: a short one ends the burst, as does the cap. *)
EndBatch ==
    /\ wpc = "batch"
    /\ batch = {}
    /\ IF received < BatchSize
         THEN wpc' = "sleep" /\ UNCHANGED burst
         ELSE /\ burst' = burst + 1
              /\ wpc' = IF burst + 1 >= MaxBatches THEN "sleep" ELSE "poll"
    /\ UNCHANGED <<last_seen, batch, received, start, seen, table, ring, channel>>

(* poll_interval is over. *)
Wake ==
    /\ wpc = "sleep"
    /\ wpc' = "poll"
    /\ burst' = 0
    /\ UNCHANGED <<last_seen, batch, received, start, seen, table, ring, channel>>

(* stop, or the handle is dropped: seen before a tail() or while asleep. *)
Cancel ==
    /\ wpc \in {"poll", "sleep"}
    /\ wpc' = "stopped"
    /\ UNCHANGED <<last_seen, batch, received, burst, start, seen, table, ring, channel>>

------------------------------------------------------------------------------

Publish(e) == InsertRow(e) \/ CommitRow(e) \/ AbortRow(e) \/ RecordInRing(e) \/ FanOut(e)
Subscriber(s) == Subscribe(s) \/ CloseReceiver(s) \/ Receive(s)
WatcherStep == Poll \/ Consider \/ Redeliver \/ EndBatch \/ Wake

Next ==
    \/ \E e \in Events : Publish(e)
    \/ \E s \in Subs : Subscriber(s)
    \/ ReadCursor \/ ReadCursorFails
    \/ WatcherStep \/ PollFails \/ Cancel

(* The runtime polls its tasks; an append neither hangs nor starts by itself; *)
(* tail() does not fail for ever.                                             *)
Fairness ==
    /\ \A e \in Local \cup Remote :
          /\ WF_vars(CommitRow(e) \/ AbortRow(e))
          /\ WF_vars(RecordInRing(e) \/ FanOut(e))
    /\ WF_vars(ReadCursor)
    /\ SF_vars(Poll)
    /\ WF_vars(Consider \/ Redeliver \/ EndBatch \/ Wake)

Spec == Init /\ [][Next]_vars
FairSpec == Spec /\ Fairness

------------------------------------------------------------------------------
(* Properties *)

(* Every variable keeps its type. *)
TypeOK ==
    /\ rows \in Seq([event : Events, state : {"open", "visible", "aborted"}])
    /\ pc \in [Events -> {"new", "open", "visible", "recorded", "done", "failed"}]
    /\ ring \in Seq(Local)
    /\ sub \in [Subs -> {"off", "on", "closed"}]
    /\ got \in [Subs -> Seq(Events)]
    /\ taken \in [Subs -> Nat]
    /\ dropped \in [Subs -> SUBSET Events]
    /\ wpc \in {"start", "poll", "batch", "fanout", "sleep", "stopped"}
    /\ last_seen \in Nat /\ start \in Nat /\ received \in Nat /\ burst \in Nat
    /\ batch \in SUBSET Nat
    /\ seen \in SUBSET Nat

(* The cursor never passes a row the watcher has not handled: nothing another *)
(* process commits after the watcher has started is missed.                   *)
NothingSkipped == \A i \in Visible : start < i /\ i <= last_seen => i \in seen

(* The inductive invariant behind NothingSkipped.  The table: an event has one    *)
(* row, invisible exactly while its append is open; with serial writes only the   *)
(* last row can be.  The watcher: cursor and batch name visible rows, the batch   *)
(* lies ahead of the cursor, and with serial writes what it leaves out lies       *)
(* further ahead still.                                                           *)
OneRowPerEvent ==
    /\ \A i, j \in DOMAIN rows : rows[i].event = rows[j].event => i = j
    /\ \A i \in DOMAIN rows : pc[rows[i].event] # "new"
OpenRows == \A e \in Events : pc[e] = "open" => \E i \in Open : rows[i].event = e
OnlyLastIsOpen == Serial => \A i \in DOMAIN rows : i \in Visible \/ (i = Len(rows) /\ i \in Open)
CursorInTable ==
    /\ last_seen = 0 \/ last_seen \in Visible
    /\ start <= last_seen
    /\ batch \subseteq Visible
    /\ wpc \in {"start", "poll", "sleep", "stopped"} => batch = {}
    /\ wpc = "start" => last_seen = 0
BatchAhead ==
    /\ wpc = "batch" => \A i \in batch : i > last_seen
    /\ wpc = "fanout" => last_seen \in batch /\ \A i \in batch : i >= last_seen
RestBeyond ==
    Serial => \A i \in Visible \ batch, j \in batch : i > last_seen => i > j
CursorInv ==
    /\ OneRowPerEvent /\ OpenRows /\ OnlyLastIsOpen
    /\ CursorInTable /\ BatchAhead /\ RestBeyond
    /\ Serial => NothingSkipped

Copies(s, e) == Cardinality({k \in DOMAIN got[s] : got[s][k] = e})

(* Whatever the interleaving of publish and watcher, and however small the ring, *)
(* no subscriber is given a remote event twice or a local event three times.     *)
DeliveryBound ==
    \A s \in Subs, e \in Events : Copies(s, e) <= IF e \in Local THEN 2 ELSE 1

(* Events of other processes arrive in the order of their ids, whatever the *)
(* channel had to drop in between.                                          *)
RemoteInOrder ==
    \A s \in Subs : \A j, k \in DOMAIN got[s] :
        j < k /\ got[s][j] \in Remote /\ got[s][k] \in Remote
            => IdOf(got[s][j]) < IdOf(got[s][k])

(* What was in the store when the process started is not delivered again: only *)
(* events written after that are.                                              *)
OldStaysOld == \A s \in Subs : \A k \in DOMAIN got[s] : got[s][k] \notin OldEvents

(* Every subscriber that was there when publishing began gets the event, or had *)
(* a full channel when its turn came, unless the append failed, the subscriber  *)
(* or the watcher stopped.                                                      *)
Delivered(s, e) == (\E k \in DOMAIN got[s] : got[s][k] = e) \/ e \in dropped[s]
AtLeastOnce ==
    \A s \in Subs, e \in Local \cup Remote :
        (pc[e] = "open" /\ Reaches(s, e) /\ wpc # "start") ~>
            (Delivered(s, e) \/ pc[e] = "failed" \/ sub[s] = "closed"
                \/ (e \in Remote /\ wpc = "stopped"))
=============================================================================
