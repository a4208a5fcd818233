------------------------------ MODULE HashChain ------------------------------
(***************************************************************************)
(* The per-stream hash chain of the event store and the walk that checks   *)
(* it: events/store/event_store.rs and verify_chain of the backends.       *)
(*                                                                         *)
(* SHA-256 is taken to be collision free.  A digest is then as good as the *)
(* list of things it commits to, so a digest here IS that list: hashing an *)
(* event on top of prev_hash appends one link to prev_hash.  The empty     *)
(* list is the empty string of a row written before the chain existed.     *)
(***************************************************************************)
EXTENDS Integers, Sequences

CONSTANTS
    Streams,    \* stream ids
    Events,     \* event ids (UUIDs)
    Data        \* what the data column of a row can hold

Link   == [version : {"v1", "v2"}, event_id : Events, sequence : Nat, data : Data]
Digest == Seq(Link)
NoHash == << >>

Row == [event_id : Events, sequence : Nat, data : Data,
        prev_hash : Digest, hash : Digest, id : Nat]

Head_  == [last_sequence : Nat, last_hash : Digest]
NoHead == [last_sequence |-> 0, last_hash |-> NoHash]   \* no stream_heads row

(* v1 (0.7.x) leaves the sequence out; v2 covers it (ADR-0040). *)
compute_hash_v1(event_id, data, prev_hash) ==
    Append(prev_hash, [version |-> "v1", event_id |-> event_id, sequence |-> 0, data |-> data])

compute_hash_v2(event_id, sequence, data, prev_hash) ==
    Append(prev_hash, [version |-> "v2", event_id |-> event_id,
                       sequence |-> sequence, data |-> data])

(* For a mutation run: v1 rows recomputed as if they were v2. *)
recompute_hash_v2_only(row) ==
    compute_hash_v2(row.event_id, row.sequence, row.data, row.prev_hash)

(* The version tag of the stored hash picks the formula.  Legacy rows, whose *)
(* stored hash is empty, are never recomputed.                               *)
recompute_hash(row) ==
    IF row.hash[Len(row.hash)].version = "v2"
      THEN compute_hash_v2(row.event_id, row.sequence, row.data, row.prev_hash)
      ELSE compute_hash_v1(row.event_id, row.data, row.prev_hash)

Greatest(S) == CHOOSE m \in S : \A n \in S : n <= m

(* The positions verify_chain does not skip as legacy. *)
Hashed(rows) == {i \in DOMAIN rows : rows[i].hash # NoHash}

(* The value of expected_prev_hash when the walk arrives at row i: legacy rows *)
(* leave it alone.                                                             *)
expected_prev_hash(rows, i) ==
    LET before == {j \in Hashed(rows) : j < i}
    IN  IF before = {} THEN NoHash ELSE rows[Greatest(before)].hash

RowVerifies(rows, i) ==
    /\ rows[i].prev_hash = expected_prev_hash(rows, i)
    /\ recompute_hash(rows[i]) = rows[i].hash

(* verify_chain of one stream, given the rows one SELECT returned and the head *)
(* a second SELECT returned.                                                   *)
verify_chain(rows, head) ==
    LET hashed == Hashed(rows)
        last   == rows[Greatest(hashed)]
    IN  IF \E i \in hashed : ~RowVerifies(rows, i)          THEN "broken"
        ELSE IF head = NoHead                               THEN "ok"
        ELSE IF hashed = {}                                 THEN "truncated"
        ELSE IF /\ last.sequence = head.last_sequence
                /\ last.hash = head.last_hash               THEN "ok"
        ELSE "truncated"
=============================================================================
