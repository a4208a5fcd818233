------------------------------ MODULE PgStore --------------------------------
(***************************************************************************)
(* The PostgreSQL event store (events/store/postgres.rs): tasks append     *)
(* through the connections of a pool, each append one transaction at READ  *)
(* COMMITTED whose statements interleave with those of the others.         *)
(* Numbering and chaining rest on an advisory lock of the stream; the      *)
(* unique index on (stream, sequence) is behind it.  Verify reads the rows *)
(* and the head with two statements and no transaction.                    *)
(*                                                                         *)
(* A caller may hear an error, or be gone, while its COMMIT is still on    *)
(* its way: the server may commit after that.  An event whose append gave  *)
(* an error may be appended again, and UNIQUE(event_id) keeps it from      *)
(* being stored twice.                                                     *)
(***************************************************************************)
EXTENDS Naturals, Sequences, SequencesExt, FiniteSets

CONSTANTS
    Tasks,   \* tasks that append or read
    Streams, Events,
    Pool,    \* connections of the pool; 8 in the code
    LockOf,  \* hashtextextended of a stream: streams may share a key
    MaxId    \* bound on the ids drawn, and so on retries

NoHash == << >>
Free == [pc |-> "free", stream |-> "", event |-> "", sequence |-> 0, prev_hash |-> NoHash, id |-> 0]
NoHead == [sequence |-> 0, hash |-> NoHash]
NoView == [stream |-> "", rows |-> << >>, kind |-> "none", answer |-> 0]

VARIABLES
    rows,     \* rows[s]: committed rows of s, in the order of their sequence
    heads,    \* stream_heads
    last_id,  \* of the BIGSERIAL: not given back by a rollback
    tx,       \* tx[t]: the connection and transaction of an append
    told,     \* what the caller of append(e) knows
    scan,     \* verify_chain between its statements
    view      \* what a reader was answered: read_stream, then a number

vars == <<rows, heads, last_id, tx, told, scan, view>>

compute_hash(event, sequence, prev) == Append(prev, << event, sequence >>)

Init ==
    /\ rows = [s \in Streams |-> << >>]
    /\ heads = [s \in Streams |-> NoHead]
    /\ last_id = 0
    /\ tx = [t \in Tasks |-> Free]
    /\ told = [e \in Events |-> "none"]
    /\ scan = [stream |-> "", rows |-> << >>, verdict |-> "none"]
    /\ view = NoView
-----------------------------------------------------------------------------
(* Of what its caller has given up the slot in the pool is free again.     *)
Busy == {t \in Tasks : tx[t].pc \notin {"free", "orphan"}}
Connection == Cardinality(Busy) + (IF scan.verdict = "reading" THEN 1 ELSE 0) < Pool

(* pool.get() and BEGIN, of an event nobody is appending.                  *)
Begin(t, s, e) ==
    /\ tx[t].pc = "free" /\ Connection
    /\ told[e] \in {"none", "error"} /\ \A u \in Busy : tx[u].event # e
    /\ tx' = [tx EXCEPT ![t] = [Free EXCEPT !.pc = "begun", !.stream = s, !.event = e]]
    /\ UNCHANGED <<rows, heads, last_id, told, scan, view>>

Pending == {"inserted", "headed", "orphan"}    \* the row is there and not committed
Locked(s) == \E t \in Tasks : tx[t].pc \in {"locked", "read"} \cup Pending /\ LockOf[tx[t].stream] = LockOf[s]

\* a slip: the append does not wait for the lock
Lock_none(t) ==
    /\ tx[t].pc = "begun"
    /\ tx' = [tx EXCEPT ![t].pc = "locked"]
    /\ UNCHANGED <<rows, heads, last_id, told, scan, view>>

(* pg_advisory_xact_lock waits for who holds the key.                      *)
Lock(t) ==
    /\ tx[t].pc = "begun" /\ ~Locked(tx[t].stream)
    /\ tx' = [tx EXCEPT ![t].pc = "locked"]
    /\ UNCHANGED <<rows, heads, last_id, told, scan, view>>

(* One statement, so one snapshot: MAX(sequence) + 1 and the last hash.    *)
NextSeq(s) == IF rows[s] = << >> THEN 1 ELSE Last(rows[s]).sequence + 1
PrevHash(s) == IF rows[s] = << >> THEN NoHash ELSE Last(rows[s]).hash
ReadTail(t) ==
    LET s == tx[t].stream IN
    /\ tx[t].pc = "locked"
    /\ tx' = [tx EXCEPT ![t].pc = "read", ![t].sequence = NextSeq(s), ![t].prev_hash = PrevHash(s)]
    /\ UNCHANGED <<rows, heads, last_id, told, scan, view>>

Stored(e) == \E s \in Streams : \E i \in DOMAIN rows[s] : rows[s][i].event = e

SameKey(x, y) == x.event = y.event \/ (x.stream = y.stream /\ x.sequence = y.sequence)
Taken(t) == \E i \in DOMAIN rows[tx[t].stream] : rows[tx[t].stream][i].sequence = tx[t].sequence
AheadOf(t) == {u \in Tasks \ {t} : tx[u].pc \in Pending /\ SameKey(tx[u], tx[t])}

(* The INSERT draws an id; a row of the same slot or the same event that   *)
(* is not committed makes it wait, one that is makes it fail.              *)
InsertRow(t) ==
    LET e == tx[t].event IN
    /\ tx[t].pc = "read" /\ AheadOf(t) = {} /\ last_id < MaxId
    /\ last_id' = last_id + 1
    /\ IF Taken(t) \/ Stored(e)
       THEN /\ tx' = [tx EXCEPT ![t] = Free]
            /\ told' = [told EXCEPT ![e] = IF Stored(e) THEN "refused" ELSE "conflict"]
       ELSE tx' = [tx EXCEPT ![t].pc = "inserted", ![t].id = last_id + 1] /\ UNCHANGED told
    /\ UNCHANGED <<rows, heads, scan, view>>

UpsertHead(t) ==
    /\ tx[t].pc = "inserted"
    /\ tx' = [tx EXCEPT ![t].pc = "headed"]
    /\ UNCHANGED <<rows, heads, last_id, told, scan, view>>

Row(x) == [event |-> x.event, sequence |-> x.sequence, prev_hash |-> x.prev_hash,
           hash |-> compute_hash(x.event, x.sequence, x.prev_hash), id |-> x.id]

\* a slip: the head is left as the stream's first append wrote it
Committed_once(x) ==
    /\ rows' = [rows EXCEPT ![x.stream] = Append(@, Row(x))]
    /\ heads' = [heads EXCEPT ![x.stream] = IF @ = NoHead THEN [sequence |-> x.sequence, hash |-> Row(x).hash] ELSE @]

Committed(x) ==
    /\ rows' = [rows EXCEPT ![x.stream] = Append(@, Row(x))]
    /\ heads' = [heads EXCEPT ![x.stream] = [sequence |-> x.sequence, hash |-> Row(x).hash]]

(* COMMIT at the server: the row is visible, the lock free, and the answer *)
(* on its way back, if anybody is left to hear it.                         *)
Commit(t) ==
    /\ tx[t].pc \in {"headed", "orphan"}
    /\ Committed(tx[t])
    /\ tx' = [tx EXCEPT ![t] = IF @.pc = "orphan" THEN Free ELSE [@ EXCEPT !.pc = "committed"]]
    /\ UNCHANGED <<last_id, told, scan, view>>

(* The answer arrives, or is lost with the connection or the task.         *)
Answer(t) ==
    /\ tx[t].pc = "committed"
    /\ tx' = [tx EXCEPT ![t] = Free]
    /\ \E answer \in {"ok", "error"} : told' = [told EXCEPT ![tx[t].event] = answer]
    /\ UNCHANGED <<rows, heads, last_id, scan, view>>

(* COMMIT is sent, and the connection drops or the task is aborted before  *)
(* the server has come to it: it may still commit.                         *)
Abandon(t) ==
    /\ tx[t].pc = "headed"
    /\ tx' = [tx EXCEPT ![t].pc = "orphan"]
    /\ told' = [told EXCEPT ![tx[t].event] = "error"]
    /\ UNCHANGED <<rows, heads, last_id, scan, view>>

(* A statement fails, or the Transaction is dropped before its COMMIT, or  *)
(* that never arrives: the server rolls back.                              *)
RollBack(t) ==
    /\ tx[t].pc \notin {"free", "committed"}
    /\ tx' = [tx EXCEPT ![t] = Free]
    /\ told' = [told EXCEPT ![tx[t].event] = "error"]
    /\ UNCHANGED <<rows, heads, last_id, scan, view>>
-----------------------------------------------------------------------------
(* verify_chain: the walk, then the head.                                  *)
WholeChain(rs) ==
    \A i \in DOMAIN rs :
        /\ rs[i].prev_hash = (IF i = 1 THEN NoHash ELSE rs[i - 1].hash)
        /\ rs[i].hash = compute_hash(rs[i].event, rs[i].sequence, rs[i].prev_hash)
Tip(rs) == IF rs = << >> THEN NoHead ELSE [sequence |-> Last(rs).sequence, hash |-> Last(rs).hash]

VerifyRows(s) ==
    /\ scan.verdict # "reading" /\ Connection
    /\ scan' = [stream |-> s, rows |-> rows[s], verdict |-> IF WholeChain(rows[s]) THEN "reading" ELSE "broken"]
    /\ UNCHANGED <<rows, heads, last_id, tx, told, view>>

VerifyHead ==
    /\ scan.verdict = "reading"
    /\ scan' = [scan EXCEPT !.verdict = IF heads[scan.stream] \in {NoHead, Tip(scan.rows)} THEN "verified" ELSE "truncated"]
    /\ UNCHANGED <<rows, heads, last_id, tx, told, view>>

(* read_stream, then count, last_sequence or list_streams.                 *)
ReadStream(s) ==
    /\ Connection
    /\ view' = [NoView EXCEPT !.stream = s, !.rows = rows[s]]
    /\ UNCHANGED <<rows, heads, last_id, tx, told, scan>>

Ask(kind) ==
    /\ Connection /\ view.stream # ""
    /\ view' = [view EXCEPT !.kind = kind,
                  !.answer = IF kind = "last_sequence" THEN NextSeq(view.stream) - 1 ELSE Len(rows[view.stream])]
    /\ UNCHANGED <<rows, heads, last_id, tx, told, scan>>

Next ==
    \/ \E t \in Tasks, s \in Streams, e \in Events : Begin(t, s, e)
    \/ \E t \in Tasks : Lock(t) \/ ReadTail(t) \/ InsertRow(t) \/ UpsertHead(t) \/ Commit(t) \/ Answer(t)
                     \/ Abandon(t) \/ RollBack(t)
    \/ \E s \in Streams : VerifyRows(s) \/ ReadStream(s)
    \/ VerifyHead
    \/ \E kind \in {"count", "last_sequence"} : Ask(kind)

Spec == Init /\ [][Next]_vars
-----------------------------------------------------------------------------
TypeOK ==
    /\ told \in [Events -> {"none", "ok", "error", "conflict", "refused"}]
    /\ Cardinality(Busy) <= Pool
    /\ \A s \in Streams : Len(rows[s]) <= last_id
    /\ scan.verdict \in {"none", "reading", "verified", "broken", "truncated"}

(* Each stream is one unbroken chain that its head ends, whatever tasks    *)
(* appended at once; no append finds its sequence number taken, one that   *)
(* was acknowledged, or refused as a duplicate, is stored, and what a      *)
(* reader was told stays a beginning of the stream, with numbers that      *)
(* agree.                                                                  *)
PgSound ==
    /\ \A s \in Streams :
          /\ WholeChain(rows[s]) /\ heads[s] = Tip(rows[s])
          /\ \A i \in DOMAIN rows[s] : rows[s][i].sequence = i
          /\ \A i, j \in DOMAIN rows[s] : i < j => rows[s][i].id < rows[s][j].id
    /\ \A e \in Events : told[e] # "conflict" /\ (told[e] \in {"ok", "refused"} => Stored(e))
    /\ scan.verdict # "broken"
    /\ view.stream # "" =>
          /\ IsPrefix(view.rows, rows[view.stream])
          /\ view.kind # "none" => view.answer \in Len(view.rows)..Len(rows[view.stream])

(* The store implements the abstract event log.  An error tells the caller *)
(* nothing of the row: COMMIT may have been done, or be done later.        *)
EventIds(table) == [s \in Streams |-> [i \in DOMAIN table[s] |-> table[s][i].event]]
Heard(answers) == [e \in Events |-> IF answers[e] = "error" THEN "unknown" ELSE answers[e]]
NoRows == [s \in Streams |-> << >>]

Log == INSTANCE EventLog WITH
         log <- EventIds(rows), reply <- Heard(told), OldLogs <- {EventIds(NoRows)}

LogRefinement == Log!LogSpec

(* postgres.rs:373, "Stream truncated": verify reports a loss only where   *)
(* there is one.                                                           *)
NoFalseAlarm == scan.verdict # "truncated"
=============================================================================
