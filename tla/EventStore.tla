------------------------------ MODULE EventStore ------------------------------
(***************************************************************************)
(* The SQLite event store (events/store/sqlite.rs) as several processes    *)
(* see it through connections of their own to one database file.           *)
(*                                                                         *)
(* append is one BEGIN IMMEDIATE transaction: the steps between BEGIN and  *)
(* COMMIT are separate actions, any of them may fail, and the process may  *)
(* die between any two.  The connection sits behind a mutex, so one        *)
(* process does one append or one verify_chain at a time.  verify (cli and *)
(* backend) reads rows and heads with separate SELECTs and no transaction  *)
(* around them, so other processes commit in between.                      *)
(*                                                                         *)
(* The append runs on a blocking thread: its caller may be gone when it    *)
(* ends.  A caller that has not heard of success may append the same event *)
(* again; UNIQUE(event_id) is what keeps it from being stored twice.       *)
(***************************************************************************)
EXTENDS HashChain

CONSTANTS
    Procs,            \* processes holding a connection
    Verifiers,        \* those of them that run verify
    OldStores,        \* database contents at open, [rows : ..., last_id : ...]
    Written, Edited,  \* data of a row as appended / after an outside edit
    CommitFailures,   \* what a failing COMMIT may do to the transaction
    MaxDamage         \* bound on outside edits and losses of rows

(* Rows written by releases before 0.8: sequence numbers without gaps, a legacy *)
(* prefix with empty hashes, then v1 rows chained from an empty root.           *)
OldRow(rows, i) ==
    LET prior == IF i = 1 THEN NoHash ELSE rows[i - 1].hash
    IN  /\ rows[i].sequence = i
        /\ rows[i].data = Written
        /\ rows[i].prev_hash = prior
        /\ \/ rows[i].hash = NoHash /\ prior = NoHash
           \/ rows[i].hash = compute_hash_v1(rows[i].event_id, Written, prior)

OldStoreOK(st) ==
    /\ st.rows \in [Streams -> Seq(Row)]
    /\ st.last_id \in Nat
    /\ \A s \in Streams : \A i \in DOMAIN st.rows[s] :
          /\ OldRow(st.rows[s], i)
          /\ st.rows[s][i].id \in 1 .. st.last_id
    /\ \A s, t \in Streams : \A i \in DOMAIN st.rows[s], j \in DOMAIN st.rows[t] :
          (st.rows[s][i].id = st.rows[t][j].id \/ st.rows[s][i].event_id = st.rows[t][j].event_id)
              => s = t /\ i = j
    /\ \A s \in Streams : \A i, j \in DOMAIN st.rows[s] :
          i < j => st.rows[s][i].id < st.rows[s][j].id

ASSUME DataAssumption == {Written, Edited} \subseteq Data /\ Written # Edited
ASSUME OldStoresAssumption == \A st \in OldStores : OldStoreOK(st)
ASSUME FailureAssumption == CommitFailures \subseteq {"rolled_back", "left_open"}
ASSUME VerifiersAssumption == Verifiers \subseteq Procs
ASSUME DamageAssumption == MaxDamage \in Nat
ASSUME InhabitedAssumption == Streams # {} /\ Events # {}

VARIABLES
    events,   \* events[s]: the committed rows of stream s, in sequence order
    heads,    \* stream_heads
    last_id,  \* sqlite_sequence: the last AUTOINCREMENT id handed out
    conn,     \* the append in progress on each process's connection
    scan,     \* the `zymi verify` in progress in each process
    reply,    \* what the callers of append(e) know of it, all tries together
    damage    \* history: rows changed behind the store's back

vars == <<events, heads, last_id, conn, scan, reply, damage>>

------------------------------------------------------------------------------

AnyStream == CHOOSE s \in Streams : TRUE
BlankRow  == [event_id |-> CHOOSE e \in Events : TRUE, sequence |-> 0, data |-> Written,
              prev_hash |-> NoHash, hash |-> NoHash, id |-> 0]

Idle == [pc |-> "idle", stream |-> AnyStream, row |-> BlankRow]
NoScan == [phase |-> "none", todo |-> {}, stream |-> AnyStream, rows |-> << >>,
           all_ok |-> TRUE, lost |-> {}, edited |-> {}]

Stored(e) == \E s \in Streams : \E i \in DOMAIN events[s] : events[s][i].event_id = e

(* An open write transaction, one left behind by a failed COMMIT included. *)
Holding(p)  == conn[p].pc \notin {"idle", "committed"}
WriteLocked == \E p \in Procs : Holding(p)

StoredIn(rows, e) == \E s \in Streams : \E i \in DOMAIN rows[s] : rows[s][i].event_id = e

Init ==
    /\ \E st \in OldStores :
          /\ events = st.rows
          /\ last_id = st.last_id
          /\ reply = [e \in Events |-> IF StoredIn(st.rows, e) THEN "ok" ELSE "none"]
    /\ heads = [s \in Streams |-> NoHead]
    /\ conn = [p \in Procs |-> Idle]
    /\ scan = [p \in Procs |-> NoScan]
    /\ damage = [count |-> 0, lost |-> {}]

------------------------------------------------------------------------------
(* Helpers of append. *)

InFlight(e) == \E p \in Procs : conn[p].pc \notin {"idle", "left_open"} /\ conn[p].row.event_id = e

(* Nobody who appended e has heard that it is stored, and nobody is waiting. *)
Wanted(e) == reply[e] \in {"none", "err", "unknown"} /\ ~InFlight(e)

(* An append that fails says that the event is not stored, unless an earlier *)
(* one may have stored it.                                                   *)
Failed(e) == [reply EXCEPT ![e] = IF @ = "unknown" THEN @ ELSE "err"]

(* History: an append to a stream that had lost rows writes a head that agrees *)
(* with what is left.                                                         *)
NoteAppend(s) ==
    /\ damage' = [damage EXCEPT !.lost = @ \ {s}]
    /\ scan' = [p \in Procs |-> [scan[p] EXCEPT !.lost = @ \ {s}]]

------------------------------------------------------------------------------
(* Operations with a bug, for mutation runs: substituted for the operation they *)
(* are named after, each must break a property.                                 *)

next_seq_minus(s) == IF events[s] = << >> THEN 0 - 1 ELSE events[s][Len(events[s])].sequence - 1

next_seq(s) == IF events[s] = << >> THEN 1 ELSE events[s][Len(events[s])].sequence + 1
prev_hash(s) == IF events[s] = << >> THEN NoHash ELSE events[s][Len(events[s])].hash

Begin_deferred(p, s, e) ==                        \* BEGIN instead of BEGIN IMMEDIATE
    /\ conn[p].pc = "idle"
    /\ scan[p].phase # "walk"
    /\ Wanted(e)
    /\ conn' = [conn EXCEPT ![p] = [pc |-> "begun", stream |-> s,
                                    row |-> [BlankRow EXCEPT !.event_id = e]]]
    /\ UNCHANGED <<events, heads, last_id, scan, reply, damage>>

BeginFails_ignored(p, e) ==                       \* the error of BEGIN is dropped
    /\ conn[p].pc \in {"idle", "left_open"}
    /\ Wanted(e) /\ WriteLocked
    /\ reply' = [reply EXCEPT ![e] = "ok"]
    /\ UNCHANGED <<events, heads, last_id, conn, scan, damage>>

Commit_head_once(p) ==                            \* ON CONFLICT DO NOTHING
    LET s == conn[p].stream
        r == conn[p].row
    IN  /\ conn[p].pc = "headed"
        /\ events' = [events EXCEPT ![s] = Append(@, r)]
        /\ heads' = [heads EXCEPT ![s] = IF @ # NoHead THEN @ ELSE
                        [last_sequence |-> r.sequence, last_hash |-> r.hash]]
        /\ last_id' = r.id
        /\ conn' = [conn EXCEPT ![p].pc = "committed"]
        /\ NoteAppend(s)
        /\ UNCHANGED reply

InsertRow_twice(p) ==                             \* event_id is not UNIQUE
    LET s == conn[p].stream
        e == conn[p].row.event_id
    IN  /\ conn[p].pc = "begun"
        /\ conn' = [conn EXCEPT
             ![p].pc = "inserted",
             ![p].row = [event_id |-> e, sequence |-> next_seq(s), data |-> Written,
                         prev_hash |-> prev_hash(s),
                         hash |-> compute_hash_v2(e, next_seq(s), Written, prev_hash(s)),
                         id |-> last_id + 1]]
        /\ UNCHANGED <<events, heads, last_id, scan, reply, damage>>

StepFails_no_rollback(p) ==
    /\ conn[p].pc \in {"begun", "inserted"}
    /\ reply' = Failed(conn[p].row.event_id)
    /\ conn' = [conn EXCEPT ![p].pc = "abandoned"]
    /\ UNCHANGED <<events, heads, last_id, scan, damage>>

CommitFails_ignored(p) ==                         \* let _ = conn.execute_batch("COMMIT")
    /\ conn[p].pc = "headed"
    /\ reply' = [reply EXCEPT ![conn[p].row.event_id] = "ok"]
    /\ conn' = [conn EXCEPT ![p] = Idle]
    /\ UNCHANGED <<events, heads, last_id, scan, damage>>

ListHeads_skipped(p) ==                           \* head_stream_ids is not consulted
    /\ conn[p].pc = "idle"
    /\ scan[p].phase = "listed"
    /\ scan' = [scan EXCEPT ![p].phase = "next"]
    /\ UNCHANGED <<events, heads, last_id, conn, reply, damage>>

------------------------------------------------------------------------------
(* append *)

(* BEGIN IMMEDIATE takes the database's write lock. *)
Begin(p, s, e) ==
    /\ conn[p].pc = "idle"
    /\ scan[p].phase # "walk"             \* verify_chain holds the connection's mutex
    /\ Wanted(e)
    /\ ~WriteLocked
    /\ conn' = [conn EXCEPT ![p] = [pc |-> "begun", stream |-> s,
                                    row |-> [BlankRow EXCEPT !.event_id = e]]]
    /\ reply' = [reply EXCEPT ![e] = IF @ = "err" THEN "none" ELSE @]
    /\ UNCHANGED <<events, heads, last_id, scan, damage>>

(* BEGIN fails: busy_timeout ran out while another process held the lock, or *)
(* this connection is still inside a transaction.  The `?` returns at once,  *)
(* before the code that would roll back.                                     *)
BeginFails(p, e) ==
    /\ conn[p].pc \in {"idle", "left_open"}
    /\ scan[p].phase # "walk"
    /\ Wanted(e)
    /\ WriteLocked
    /\ reply' = Failed(e)
    /\ UNCHANGED <<events, heads, last_id, conn, scan, damage>>

(* MAX(sequence) + 1 and the hash of the last row, then the INSERT. *)
InsertRow(p) ==
    LET s == conn[p].stream
        e == conn[p].row.event_id
    IN  /\ conn[p].pc = "begun"
        /\ ~Stored(e)
        /\ conn' = [conn EXCEPT
             ![p].pc = "inserted",
             ![p].row = [event_id |-> e, sequence |-> next_seq(s), data |-> Written,
                         prev_hash |-> prev_hash(s),
                         hash |-> compute_hash_v2(e, next_seq(s), Written, prev_hash(s)),
                         id |-> last_id + 1]]
        /\ UNCHANGED <<events, heads, last_id, scan, reply, damage>>

(* UNIQUE(event_id) refuses the INSERT of an event an earlier try has stored: *)
(* ROLLBACK, and the error names the constraint.                              *)
InsertRefused(p) ==
    LET e == conn[p].row.event_id
    IN  /\ conn[p].pc = "begun"
        /\ Stored(e)
        /\ reply' = [reply EXCEPT ![e] = "refused"]
        /\ conn' = [conn EXCEPT ![p] = Idle]
        /\ UNCHANGED <<events, heads, last_id, scan, damage>>

(* The stream_heads upsert, still inside the transaction. *)
UpsertHead(p) ==
    /\ conn[p].pc = "inserted"
    /\ conn' = [conn EXCEPT ![p].pc = "headed"]
    /\ UNCHANGED <<events, heads, last_id, scan, reply, damage>>

(* COMMIT makes the row, the head and the AUTOINCREMENT counter visible at once. *)
Commit(p) ==
    LET s == conn[p].stream
        r == conn[p].row
    IN  /\ conn[p].pc = "headed"
        /\ events' = [events EXCEPT ![s] = Append(@, r)]
        /\ heads' = [heads EXCEPT ![s] = [last_sequence |-> r.sequence, last_hash |-> r.hash]]
        /\ last_id' = r.id
        /\ conn' = [conn EXCEPT ![p].pc = "committed"]
        /\ NoteAppend(s)
        /\ UNCHANGED reply

(* append returns Ok(seq), unless its caller was dropped while the blocking *)
(* thread went on.                                                          *)
Return(p) ==
    /\ conn[p].pc = "committed"
    /\ \E heard \in {"ok", "unknown"} : reply' = [reply EXCEPT ![conn[p].row.event_id] = heard]
    /\ conn' = [conn EXCEPT ![p] = Idle]
    /\ UNCHANGED <<events, heads, last_id, scan, damage>>

(* The query, the INSERT or the upsert fails: ROLLBACK and return the error. *)
StepFails(p) ==
    /\ conn[p].pc \in {"begun", "inserted"}
    /\ reply' = Failed(conn[p].row.event_id)
    /\ conn' = [conn EXCEPT ![p] = Idle]
    /\ UNCHANGED <<events, heads, last_id, scan, damage>>

(* COMMIT fails: the error is returned with no ROLLBACK.  SQLite has either *)
(* rolled back by itself (I/O error, disk full) or left the transaction     *)
(* open (SQLITE_BUSY).                                                      *)
CommitFails(p) ==
    /\ conn[p].pc = "headed"
    /\ reply' = Failed(conn[p].row.event_id)
    /\ \/ /\ "rolled_back" \in CommitFailures
          /\ conn' = [conn EXCEPT ![p] = Idle]
       \/ /\ "left_open" \in CommitFailures
          /\ conn' = [conn EXCEPT ![p].pc = "left_open"]
    /\ UNCHANGED <<events, heads, last_id, scan, damage>>

(* The process dies and comes back: SQLite discards its open transaction, and *)
(* nobody is left to hear the reply.                                          *)
Crash(p) ==
    /\ conn[p] # Idle \/ scan[p] # NoScan
    /\ reply' = IF conn[p].pc \in {"idle", "left_open"} THEN reply
                ELSE [reply EXCEPT ![conn[p].row.event_id] = "unknown"]
    /\ conn' = [conn EXCEPT ![p] = Idle]
    /\ scan' = [scan EXCEPT ![p] = NoScan]
    /\ UNCHANGED <<events, heads, last_id, damage>>

------------------------------------------------------------------------------
(* zymi verify: cli/verify.rs exec.  The command has a connection of its own, *)
(* which is never the one a failed COMMIT left inside a transaction.          *)

CanRead(p) == conn[p].pc = "idle"

EditedStreams ==
    {s \in Streams : \E i \in Hashed(events[s]) : events[s][i].data = Edited}

(* list_streams.  lost and edited note, for the properties, what had happened *)
(* to the streams by the time the command started.                            *)
ListStreams(p) ==
    /\ CanRead(p)
    /\ scan[p].phase = "none"
    /\ scan' = [scan EXCEPT ![p] = [NoScan EXCEPT !.phase = "listed",
                                     !.todo = {s \in Streams : events[s] # << >>},
                                     !.lost = damage.lost,
                                     !.edited = EditedStreams]]
    /\ UNCHANGED <<events, heads, last_id, conn, reply, damage>>

(* head_stream_ids: streams with a head but no rows are verified too. *)
ListHeads(p) ==
    /\ CanRead(p)
    /\ scan[p].phase = "listed"
    /\ scan' = [scan EXCEPT ![p].phase = "next",
                            ![p].todo = @ \cup {s \in Streams : heads[s] # NoHead}]
    /\ UNCHANGED <<events, heads, last_id, conn, reply, damage>>

(* First SELECT of verify_chain: all rows of the stream, one snapshot. *)
WalkRows(p) ==
    /\ CanRead(p)
    /\ scan[p].phase = "next"
    /\ \E s \in scan[p].todo :
          scan' = [scan EXCEPT ![p].phase = "walk", ![p].stream = s, ![p].rows = events[s],
                               ![p].todo = @ \ {s}]
    /\ UNCHANGED <<events, heads, last_id, conn, reply, damage>>

(* Second SELECT: the head as it is by then, and the verdict on the stream. *)
CheckHead(p) ==
    /\ scan[p].phase = "walk"
    /\ scan' = [scan EXCEPT
         ![p].phase = "next",
         ![p].rows = << >>,
         ![p].all_ok = @ /\ verify_chain(scan[p].rows, heads[scan[p].stream]) = "ok"]
    /\ UNCHANGED <<events, heads, last_id, conn, reply, damage>>

(* All streams done: the command exits with its verdict. *)
FinishVerify(p) ==
    /\ scan[p].phase = "next"
    /\ scan[p].todo = {}
    /\ scan' = [scan EXCEPT ![p].phase = "done", ![p].stream = AnyStream]
    /\ UNCHANGED <<events, heads, last_id, conn, reply, damage>>

ExitVerify(p) ==
    /\ scan[p].phase = "done"
    /\ scan' = [scan EXCEPT ![p] = NoScan]
    /\ UNCHANGED <<events, heads, last_id, conn, reply, damage>>

------------------------------------------------------------------------------
(* Rows changed outside the store, by hand or by a partial restore.  Such a *)
(* write takes the same write lock.                                         *)

CanDamage == ~WriteLocked /\ damage.count < MaxDamage

(* The tail of a stream from row n on, or the whole stream, disappears. *)
LoseRows(s, n) ==
    /\ CanDamage
    /\ n \in DOMAIN events[s]
    /\ events' = [events EXCEPT ![s] = SubSeq(@, 1, n - 1)]
    /\ damage' = [damage EXCEPT !.count = @ + 1,
                                !.lost = IF heads[s] # NoHead THEN @ \cup {s} ELSE @]
    /\ scan' = [p \in Procs |-> [scan[p] EXCEPT !.edited = @ \ {s}]]
    /\ UNCHANGED <<heads, last_id, conn, reply>>

(* The data column of one row is edited in place. *)
EditRow(s, n) ==
    /\ CanDamage
    /\ n \in DOMAIN events[s]
    /\ events[s][n].data = Written
    /\ events' = [events EXCEPT ![s][n].data = Edited]
    /\ damage' = [damage EXCEPT !.count = @ + 1]
    /\ UNCHANGED <<heads, last_id, conn, scan, reply>>

------------------------------------------------------------------------------

AppendStep(p) ==
    \/ \E s \in Streams, e \in Events : Begin(p, s, e)
    \/ \E e \in Events : BeginFails(p, e)
    \/ InsertRow(p) \/ InsertRefused(p) \/ UpsertHead(p) \/ Commit(p) \/ Return(p)
    \/ StepFails(p) \/ CommitFails(p)

VerifyStep(p) ==
    \/ ListStreams(p) \/ ListHeads(p) \/ WalkRows(p)
    \/ CheckHead(p) \/ FinishVerify(p) \/ ExitVerify(p)

Next ==
    \/ \E p \in Procs : AppendStep(p) \/ Crash(p)
    \/ \E p \in Verifiers : VerifyStep(p)

Damage == \E s \in Streams : \E n \in DOMAIN events[s] : LoseRows(s, n) \/ EditRow(s, n)

(* A connection inside a transaction goes on until append returns. *)
Progress(p) == InsertRow(p) \/ InsertRefused(p) \/ UpsertHead(p) \/ Commit(p) \/ Return(p)
                   \/ StepFails(p) \/ CommitFails(p)
Fairness == \A p \in Procs : WF_vars(Progress(p)) /\ WF_vars(CheckHead(p))

Spec == Init /\ [][Next]_vars
FairSpec == Spec /\ Fairness
DamageSpec == Init /\ [][Next \/ Damage]_vars
FairDamageSpec == DamageSpec /\ Fairness
------------------------------------------------------------------------------
(* Properties *)

Conn == [pc : {"idle", "begun", "inserted", "headed", "committed", "left_open"},
         stream : Streams, row : Row]
Scan == [phase : {"none", "listed", "next", "walk", "done"},
         todo : SUBSET Streams, stream : Streams, rows : Seq(Row), all_ok : BOOLEAN,
         lost : SUBSET Streams, edited : SUBSET Streams]
Reply == {"none", "ok", "err", "unknown", "refused"}

(* Every variable keeps its type; a staged row is always a row of the table. *)
TypeOK ==
    /\ events \in [Streams -> Seq(Row)]
    /\ heads \in [Streams -> Head_]
    /\ last_id \in Nat
    /\ conn \in [Procs -> Conn]
    /\ scan \in [Procs -> Scan]
    /\ reply \in [Events -> Reply]
    /\ damage \in [count : Nat, lost : SUBSET Streams]

(* One writer: at most one process is inside a write transaction. *)
OneWriter == \A p, q \in Procs : Holding(p) /\ Holding(q) => p = q

PriorHash(rows, i) == IF i = 1 THEN NoHash ELSE rows[i - 1].hash

(* Concurrent appends neither fork a stream nor leave a gap: whatever processes *)
(* wrote it, its sequence numbers are 1, 2, 3, ..., every row carries the hash  *)
(* of the row before it, and its own hash is the recomputed one (or empty, for  *)
(* a legacy row that no hashed row precedes).                                   *)
ChainIntact ==
    \A s \in Streams : \A i \in DOMAIN events[s] :
        LET r == events[s][i]
        IN  /\ r.sequence = i
            /\ r.prev_hash = PriorHash(events[s], i)
            /\ \/ r.hash = NoHash /\ r.prev_hash = NoHash
               \/ r.hash # NoHash /\ r.hash = recompute_hash(r)

(* The head written in the transaction of the row never runs ahead of or       *)
(* behind the rows: a crash or a failed step between the INSERT and the upsert *)
(* leaves both or neither.                                                     *)
HeadMatches ==
    \A s \in Streams : heads[s] # NoHead =>
        /\ events[s] # << >>
        /\ heads[s] = [last_sequence |-> Len(events[s]),
                       last_hash |-> events[s][Len(events[s])].hash]

(* An event is stored at most once, in one stream, although a caller that did  *)
(* not hear of success, because its process died or it was dropped while the   *)
(* append went on, appends it again.                                           *)
StoredOnce ==
    \A s, t \in Streams : \A i \in DOMAIN events[s], j \in DOMAIN events[t] :
        events[s][i].event_id = events[t][j].event_id => s = t /\ i = j

(* append tells the truth: an event whose publisher got Ok is in the store, so  *)
(* is one that is refused as a duplicate, and one whose tries all got an error  *)
(* is not, until it is appended again, although the error path of COMMIT leaves *)
(* the transaction alone.                                                       *)
ReplyIsTrue ==
    \A e \in Events :
        (reply[e] \in {"ok", "refused"} => Stored(e)) /\ (reply[e] = "err" => ~Stored(e))

IdsBounded == \A s \in Streams : \A i \in DOMAIN events[s] : events[s][i].id \in 1 .. last_id

(* What an append has done so far: nothing is visible before COMMIT, and the *)
(* staged row still continues the stream as it is, because of the lock.      *)
AppendInv(c) ==
    LET r == c.row
        s == c.stream
    IN  /\ c.pc \in {"begun", "inserted", "headed", "committed"} =>
              reply[r.event_id] \in {"none", "unknown"}
        /\ c.pc \in {"inserted", "headed"} => ~Stored(r.event_id)
        /\ c.pc = "committed" => Stored(r.event_id)
        /\ c.pc \in {"inserted", "headed"} =>
              /\ r.sequence = next_seq(s)
              /\ r.data = Written
              /\ r.prev_hash = prev_hash(s)
              /\ r.hash = compute_hash_v2(r.event_id, r.sequence, r.data, r.prev_hash)
              /\ r.id = last_id + 1

AppendsInFlight == \A p \in Procs : AppendInv(conn[p])

OneAppendPerEvent ==
    \A p, q \in Procs :
        /\ conn[p].pc # "idle" /\ conn[q].pc # "idle"
        /\ conn[p].row.event_id = conn[q].row.event_id
        => p = q

(* A stored event nobody has been told about is one whose append is about to *)
(* return.                                                                   *)
NoneForgotten ==
    \A e \in Events : Stored(e) /\ reply[e] = "none" =>
        \E p \in Procs : conn[p].pc = "committed" /\ conn[p].row.event_id = e

(* The inductive invariant behind the theorems of EventStoreProofs: what the *)
(* tables hold, and what the transactions in flight may rely on.             *)
TablesInv == ChainIntact /\ HeadMatches /\ StoredOnce /\ IdsBounded
WritersInv == OneWriter /\ AppendsInFlight /\ OneAppendPerEvent /\ ReplyIsTrue /\ NoneForgotten
IInv == TypeOK /\ TablesInv /\ WritersInv

(* The global id, which the tail watcher uses as its cursor: a row that becomes *)
(* visible has a greater id than every row visible before it.  Readers that     *)
(* have passed an id have missed nothing below it.                              *)
CommitsInIdOrder ==
    [][\A s, t \in Streams :
         \A i \in DOMAIN events'[s], j \in DOMAIN events[t] :
            i \notin DOMAIN events[s] => events'[s][i].id > events[t][j].id]_vars

(* A write lock that is held for good is that of a COMMIT that failed and left *)
(* its transaction open: append has no ROLLBACK there.  Every other way an     *)
(* append ends gives the lock back, so its failure does not stop the others.   *)
LockReleased == []<>(\A p \in Procs : Holding(p) => conn[p].pc = "left_open")

(* zymi verify does not report an undamaged store as broken. *)
NoFalseAlarm ==
    \A p \in Procs : scan[p].phase = "done" /\ damage.count = 0 => scan[p].all_ok

(* zymi verify fails when, before it started, a stream with a head had lost rows *)
(* (its tail, or all of them) and nothing was appended to it since, or a hashed  *)
(* row had been edited.                                                          *)
VerifyCatchesDamage ==
    \A p \in Procs : scan[p].phase = "done" /\ scan[p].all_ok =>
        scan[p].lost = {} /\ scan[p].edited = {}

------------------------------------------------------------------------------
(* The store implements the abstract event log. *)

EventIds(rows) == [s \in Streams |-> [i \in DOMAIN rows[s] |-> rows[s][i].event_id]]

Log == INSTANCE EventLog WITH
         log <- EventIds(events),
         OldLogs <- {EventIds(st.rows) : st \in OldStores}

LogRefinement == Log!LogSpec
=============================================================================
