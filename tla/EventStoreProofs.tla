--------------------------- MODULE EventStoreProofs ---------------------------
(***************************************************************************)
(* Theorems about the SQLite event store for any set of streams, events    *)
(* and processes and any database contents a release before 0.8 left.      *)
(***************************************************************************)
EXTENDS EventStore, SequenceTheorems, WellFoundedInduction, TLAPS

LEMMA BlankRowType == BlankRow \in Row /\ AnyStream \in Streams
  BY InhabitedAssumption, DataAssumption DEF BlankRow, AnyStream, Row, Digest, NoHash

LEMMA IdleType == Idle \in Conn /\ Idle.pc = "idle"
  BY BlankRowType DEF Idle, Conn

LEMMA NoScanType == NoScan \in Scan
  BY BlankRowType DEF NoScan, Scan

(* The digest of a new event is a digest, and never the empty one. *)
LEMMA DigestType ==
  ASSUME NEW e \in Events, NEW n \in Nat, NEW d \in Data, NEW h \in Digest
  PROVE  /\ compute_hash_v2(e, n, d, h) \in Digest
         /\ compute_hash_v2(e, n, d, h) # NoHash
         /\ compute_hash_v1(e, d, h) \in Digest
         /\ compute_hash_v1(e, d, h) # NoHash
  <1>1. [version |-> "v2", event_id |-> e, sequence |-> n, data |-> d] \in Link
    BY DEF Link
  <1>2. [version |-> "v1", event_id |-> e, sequence |-> 0, data |-> d] \in Link
    BY DEF Link
  <1>3. ASSUME NEW x \in Link PROVE Append(h, x) \in Seq(Link) /\ Append(h, x) # << >>
    BY AppendProperties DEF Digest
  <1> QED BY <1>1, <1>2, <1>3 DEF compute_hash_v1, compute_hash_v2, Digest, NoHash

LEMMA LastRowType ==
  ASSUME TypeOK, NEW s \in Streams
  PROVE  next_seq(s) \in Nat /\ prev_hash(s) \in Digest
  <1>1. CASE events[s] = << >>
    BY <1>1 DEF next_seq, prev_hash, Digest, NoHash
  <1>2. CASE events[s] # << >>
    <2>1. events[s] \in Seq(Row) BY DEF TypeOK
    <2>2. Len(events[s]) \in DOMAIN events[s] BY <1>2, <2>1
    <2>3. events[s][Len(events[s])] \in Row BY <2>1, <2>2
    <2> QED BY <1>2, <2>3 DEF next_seq, prev_hash, Row
  <1> QED BY <1>1, <1>2

(* Changing one field of one process's record keeps the type of the function. *)
LEMMA ConnFields ==
  ASSUME TypeOK, NEW p \in Procs
  PROVE  /\ conn[p] \in Conn /\ conn[p].row \in Row /\ conn[p].stream \in Streams
         /\ conn[p].row.event_id \in Events
         /\ \A pc \in {"idle", "begun", "inserted", "headed", "committed", "left_open"} :
               [conn EXCEPT ![p].pc = pc] \in [Procs -> Conn]
  BY DEF TypeOK, Conn, Row

(* verify only reads. *)
LEMMA VerifyOnlyReads ==
  ASSUME NEW p \in Procs, VerifyStep(p)
  PROVE  UNCHANGED <<events, heads, last_id, conn, reply, damage>>
  BY DEF VerifyStep, ListStreams, ListHeads, WalkRows, CheckHead, FinishVerify, ExitVerify

LEMMA VerifyType ==
  ASSUME TypeOK, NEW p \in Procs, VerifyStep(p)
  PROVE  scan' \in [Procs -> Scan]
  <1>1. scan \in [Procs -> Scan] /\ scan[p] \in Scan BY DEF TypeOK
  <1>2. ASSUME ListStreams(p) PROVE scan' \in [Procs -> Scan]
    BY <1>1, <1>2, NoScanType DEF ListStreams, Scan, EditedStreams, TypeOK
  <1>3. ASSUME ListHeads(p) PROVE scan' \in [Procs -> Scan]
    BY <1>1, <1>3 DEF ListHeads, Scan
  <1>4. ASSUME WalkRows(p) PROVE scan' \in [Procs -> Scan]
    <2>1. PICK s \in scan[p].todo :
            scan' = [scan EXCEPT ![p].phase = "walk", ![p].stream = s, ![p].rows = events[s],
                                 ![p].todo = @ \ {s}]
      BY <1>4 DEF WalkRows
    <2>2. s \in Streams BY <1>1 DEF Scan
    <2>3. events[s] \in Seq(Row) BY <2>2 DEF TypeOK
    <2>4. [scan[p] EXCEPT !.phase = "walk", !.stream = s, !.rows = events[s],
                          !.todo = @ \ {s}] \in Scan
      BY <1>1, <2>2, <2>3 DEF Scan
    <2> QED BY <1>1, <2>1, <2>4
  <1>5. ASSUME CheckHead(p) PROVE scan' \in [Procs -> Scan]
    <2> DEFINE ok == scan[p].all_ok /\ verify_chain(scan[p].rows, heads[scan[p].stream]) = "ok"
               new == [scan[p] EXCEPT !.phase = "next", !.rows = << >>, !.all_ok = ok]
    <2>1. << >> \in Seq(Row) OBVIOUS
    <2>2. ok \in BOOLEAN OBVIOUS
    <2>3. scan' = [scan EXCEPT ![p] = new] BY <1>1, <1>5 DEF CheckHead
    <2>4. new \in Scan
      <3> HIDE DEF ok
      <3> QED BY <1>1, <2>1, <2>2 DEF Scan
    <2> HIDE DEF new
    <2> QED BY <1>1, <2>3, <2>4
  <1>6. ASSUME FinishVerify(p) PROVE scan' \in [Procs -> Scan]
    BY <1>1, <1>6, BlankRowType DEF FinishVerify, Scan
  <1>7. ASSUME ExitVerify(p) PROVE scan' \in [Procs -> Scan]
    BY <1>1, <1>7, NoScanType DEF ExitVerify
  <1> QED BY <1>2, <1>3, <1>4, <1>5, <1>6, <1>7 DEF VerifyStep

(* The row InsertRow stages. *)
LEMMA StagedRow ==
  ASSUME TypeOK, NEW p \in Procs, InsertRow(p)
  PROVE  \E r \in Row : /\ conn' = [conn EXCEPT ![p].pc = "inserted", ![p].row = r]
                        /\ r.event_id = conn[p].row.event_id
                        /\ r.sequence = next_seq(conn[p].stream)
                        /\ r.data = Written
                        /\ r.prev_hash = prev_hash(conn[p].stream)
                        /\ r.hash = compute_hash_v2(r.event_id, r.sequence, r.data, r.prev_hash)
                        /\ r.id = last_id + 1
  <1> DEFINE s == conn[p].stream
             e == conn[p].row.event_id
             h == compute_hash_v2(e, next_seq(s), Written, prev_hash(s))
             r == [event_id |-> e, sequence |-> next_seq(s), data |-> Written,
                   prev_hash |-> prev_hash(s), hash |-> h, id |-> last_id + 1]
  <1>1. s \in Streams /\ e \in Events BY ConnFields
  <1>2. next_seq(s) \in Nat /\ prev_hash(s) \in Digest BY <1>1, LastRowType
  <1>3. h \in Digest BY <1>1, <1>2, DigestType, DataAssumption
  <1>4. last_id + 1 \in Nat BY DEF TypeOK
  <1>5. r \in Row
    <2> HIDE DEF h, s, e
    <2> QED BY <1>1, <1>2, <1>3, <1>4, DataAssumption DEF Row
  <1>6. conn' = [conn EXCEPT ![p].pc = "inserted", ![p].row = r] BY DEF InsertRow
  <1> WITNESS r \in Row
  <1> QED BY <1>6

LEMMA InitTyped == Init => TypeOK
  <1> SUFFICES ASSUME Init PROVE TypeOK OBVIOUS
  <1>1. PICK st \in OldStores :
          /\ events = st.rows
          /\ last_id = st.last_id
          /\ reply = [e \in Events |-> IF StoredIn(st.rows, e) THEN "ok" ELSE "none"]
    BY DEF Init
  <1>2. OldStoreOK(st) BY OldStoresAssumption
  <1>3. events \in [Streams -> Seq(Row)] /\ last_id \in Nat
    BY <1>1, <1>2 DEF OldStoreOK
  <1>4. NoHead \in Head_ BY DEF NoHead, Head_, Digest, NoHash
  <1>5. reply \in [Events -> Reply] BY <1>1 DEF Reply
  <1> QED BY <1>3, <1>4, <1>5, IdleType, NoScanType DEF Init, TypeOK

LEMMA TypeStep == TypeOK /\ [Next]_vars => TypeOK'
  <1> SUFFICES ASSUME TypeOK, [Next]_vars PROVE TypeOK' OBVIOUS
  <1>0. CASE UNCHANGED vars BY <1>0 DEF vars, TypeOK
  <1>1. ASSUME NEW p \in Procs, NEW s \in Streams, NEW e \in Events, Begin(p, s, e)
        PROVE  TypeOK'
    <2>1. [BlankRow EXCEPT !.event_id = e] \in Row BY BlankRowType DEF Row
    <2>2. [pc |-> "begun", stream |-> s, row |-> [BlankRow EXCEPT !.event_id = e]] \in Conn
      BY <2>1 DEF Conn
    <2>3. conn' \in [Procs -> Conn] BY <1>1, <2>2 DEF Begin, TypeOK
    <2>4. reply' \in [Events -> Reply] BY <1>1 DEF Begin, TypeOK, Reply
    <2> QED BY <1>1, <2>3, <2>4 DEF Begin, TypeOK
  <1>2. ASSUME NEW p \in Procs, NEW e \in Events, BeginFails(p, e) PROVE TypeOK'
    BY <1>2 DEF BeginFails, Failed, TypeOK, Reply
  <1>3. ASSUME NEW p \in Procs, InsertRow(p) PROVE TypeOK'
    <2>1. PICK r \in Row : conn' = [conn EXCEPT ![p].pc = "inserted", ![p].row = r]
      BY <1>3, StagedRow
    <2>2. conn[p] \in Conn BY ConnFields
    <2>3. [conn[p] EXCEPT !.pc = "inserted", !.row = r] \in Conn BY <2>2 DEF Conn
    <2>4. conn' = [conn EXCEPT ![p] = [conn[p] EXCEPT !.pc = "inserted", !.row = r]]
      BY <2>1 DEF TypeOK
    <2>5. conn' \in [Procs -> Conn] BY <2>3, <2>4 DEF TypeOK
    <2> QED BY <1>3, <2>5 DEF InsertRow, TypeOK
  <1>4. ASSUME NEW p \in Procs, UpsertHead(p) PROVE TypeOK'
    BY <1>4, ConnFields DEF UpsertHead, TypeOK
  <1>5. ASSUME NEW p \in Procs, Commit(p) PROVE TypeOK'
    <2>1. conn[p].row \in Row /\ conn[p].stream \in Streams BY ConnFields
    <2>2. Append(events[conn[p].stream], conn[p].row) \in Seq(Row)
      BY <2>1, AppendProperties DEF TypeOK
    <2>3. [last_sequence |-> conn[p].row.sequence, last_hash |-> conn[p].row.hash] \in Head_
      BY <2>1 DEF Row, Head_
    <2>4. conn[p].row.id \in Nat BY <2>1 DEF Row
    <2>5. scan' \in [Procs -> Scan]
      <3>1. ASSUME NEW q \in Procs
            PROVE  [scan[q] EXCEPT !.lost = @ \ {conn[p].stream}] \in Scan
        BY DEF Scan, TypeOK
      <3> QED BY <1>5, <3>1 DEF Commit, NoteAppend
    <2>6. damage' \in [count : Nat, lost : SUBSET Streams]
      BY <1>5 DEF Commit, NoteAppend, TypeOK
    <2>7. conn' \in [Procs -> Conn] BY <1>5, ConnFields DEF Commit
    <2>8. events' \in [Streams -> Seq(Row)] BY <1>5, <2>1, <2>2 DEF Commit, TypeOK
    <2>9. heads' \in [Streams -> Head_] BY <1>5, <2>3 DEF Commit, TypeOK
    <2> QED BY <1>5, <2>4, <2>5, <2>6, <2>7, <2>8, <2>9 DEF Commit, TypeOK
  <1>6. ASSUME NEW p \in Procs, Return(p) PROVE TypeOK'
    BY <1>6, IdleType DEF Return, TypeOK, Reply
  <1>7. ASSUME NEW p \in Procs, StepFails(p) PROVE TypeOK'
    BY <1>7, IdleType DEF StepFails, Failed, TypeOK, Reply
  <1>71. ASSUME NEW p \in Procs, InsertRefused(p) PROVE TypeOK'
    BY <1>71, IdleType DEF InsertRefused, TypeOK, Reply
  <1>8. ASSUME NEW p \in Procs, CommitFails(p) PROVE TypeOK'
    <2>1. conn' \in [Procs -> Conn]
      <3>1. CASE conn' = [conn EXCEPT ![p] = Idle] BY <3>1, IdleType DEF TypeOK
      <3>2. CASE conn' = [conn EXCEPT ![p].pc = "left_open"] BY <3>2, ConnFields
      <3> QED BY <1>8, <3>1, <3>2 DEF CommitFails
    <2>2. reply' \in [Events -> Reply] BY <1>8 DEF CommitFails, Failed, TypeOK, Reply
    <2> QED BY <1>8, <2>1, <2>2 DEF CommitFails, TypeOK
  <1>9. ASSUME NEW p \in Procs, Crash(p) PROVE TypeOK'
    BY <1>9, IdleType, NoScanType DEF Crash, TypeOK, Reply
  <1>10. ASSUME NEW p \in Procs, VerifyStep(p) PROVE TypeOK'
    BY <1>10, VerifyType, VerifyOnlyReads DEF TypeOK
  <1> QED
    BY <1>0, <1>1, <1>2, <1>3, <1>4, <1>5, <1>6, <1>7, <1>71, <1>8, <1>9, <1>10,
       VerifiersAssumption DEF Next, AppendStep

(* Every variable keeps its type: in particular a staged row is always a row. *)
THEOREM TypeCorrect == Spec => []TypeOK
  BY InitTyped, TypeStep, PTL DEF Spec

------------------------------------------------------------------------------
(* What the tables hold. *)

(* A hash of either version recomputes to itself. *)
LEMMA Recomputes ==
  ASSUME NEW r \in Row,
         \/ r.hash = compute_hash_v2(r.event_id, r.sequence, r.data, r.prev_hash)
         \/ r.hash = compute_hash_v1(r.event_id, r.data, r.prev_hash)
  PROVE  r.hash # NoHash /\ r.hash = recompute_hash(r)
  <1>1. /\ r.event_id \in Events /\ r.sequence \in Nat
        /\ r.data \in Data /\ r.prev_hash \in Seq(Link)
    BY DEF Row, Digest
  <1>2. r.hash # NoHash BY <1>1, DigestType DEF Digest
  <1>3. ASSUME NEW x \in Link
        PROVE  LET h == Append(r.prev_hash, x) IN h[Len(h)] = x
    BY <1>1, AppendProperties
  <1>4. CASE r.hash = compute_hash_v2(r.event_id, r.sequence, r.data, r.prev_hash)
    <2> DEFINE x == [version |-> "v2", event_id |-> r.event_id,
                     sequence |-> r.sequence, data |-> r.data]
    <2>1. x \in Link BY <1>1 DEF Link
    <2>2. r.hash[Len(r.hash)].version = "v2" BY <1>3, <1>4, <2>1 DEF compute_hash_v2
    <2> QED BY <1>2, <1>4, <2>2 DEF recompute_hash
  <1>5. CASE r.hash = compute_hash_v1(r.event_id, r.data, r.prev_hash)
    <2> DEFINE x == [version |-> "v1", event_id |-> r.event_id,
                     sequence |-> 0, data |-> r.data]
    <2>1. x \in Link BY <1>1 DEF Link
    <2>2. r.hash[Len(r.hash)].version = "v1" BY <1>3, <1>5, <2>1 DEF compute_hash_v1
    <2> QED BY <1>2, <1>5, <2>2 DEF recompute_hash
  <1> QED BY <1>4, <1>5

LEMMA InitTables == Init => TablesInv
  <1> SUFFICES ASSUME Init PROVE TablesInv OBVIOUS
  <1>1. PICK st \in OldStores : events = st.rows /\ last_id = st.last_id
    BY DEF Init
  <1>2. OldStoreOK(st) BY OldStoresAssumption
  <1>3. heads = [s \in Streams |-> NoHead] BY DEF Init
  <1>4. ChainIntact
    <2> SUFFICES ASSUME NEW s \in Streams, NEW i \in DOMAIN events[s]
                 PROVE  LET r == events[s][i]
                        IN  /\ r.sequence = i
                            /\ r.prev_hash = PriorHash(events[s], i)
                            /\ \/ r.hash = NoHash /\ r.prev_hash = NoHash
                               \/ r.hash # NoHash /\ r.hash = recompute_hash(r)
      BY DEF ChainIntact
    <2>1. OldRow(events[s], i) BY <1>1, <1>2 DEF OldStoreOK
    <2>2. events[s][i] \in Row BY <1>1, <1>2 DEF OldStoreOK
    <2>3. /\ events[s][i].sequence = i
          /\ events[s][i].prev_hash = PriorHash(events[s], i)
          /\ \/ events[s][i].hash = NoHash /\ events[s][i].prev_hash = NoHash
             \/ events[s][i].hash = compute_hash_v1(events[s][i].event_id, events[s][i].data,
                                                    events[s][i].prev_hash)
      BY <2>1 DEF OldRow, PriorHash
    <2> QED BY <2>2, <2>3, Recomputes
  <1>5. HeadMatches BY <1>3 DEF HeadMatches
  <1>6. StoredOnce BY <1>1, <1>2 DEF StoredOnce, OldStoreOK
  <1>7. IdsBounded BY <1>1, <1>2 DEF IdsBounded, OldStoreOK
  <1> QED BY <1>4, <1>5, <1>6, <1>7 DEF TablesInv

LEMMA TablesUntouched ==
  ASSUME TablesInv, UNCHANGED <<events, heads, last_id>>
  PROVE  TablesInv'
  BY DEF TablesInv, ChainIntact, HeadMatches, StoredOnce, IdsBounded

(* Committing a row staged on the stream as it is extends every table soundly. *)
LEMMA CommitTables ==
  ASSUME IInv, NEW p \in Procs, Commit(p)
  PROVE  TablesInv'
  <1> DEFINE s == conn[p].stream
             r == conn[p].row
             n == Len(events[s])
  <1>1. s \in Streams /\ r \in Row BY ConnFields DEF IInv
  <1>2. /\ r.sequence = next_seq(s) /\ r.data = Written /\ r.prev_hash = prev_hash(s)
        /\ r.hash = compute_hash_v2(r.event_id, r.sequence, r.data, r.prev_hash)
        /\ r.id = last_id + 1
        /\ ~Stored(r.event_id)
    BY DEF Commit, IInv, WritersInv, AppendsInFlight, AppendInv
  <1>3. events \in [Streams -> Seq(Row)] /\ heads \in [Streams -> Head_] /\ last_id \in Nat
    BY DEF IInv, TypeOK
  <1>4. /\ events' = [events EXCEPT ![s] = Append(events[s], r)]
        /\ heads' = [heads EXCEPT ![s] = [last_sequence |-> r.sequence, last_hash |-> r.hash]]
        /\ last_id' = r.id
    BY DEF Commit
  <1>5. /\ events[s] \in Seq(Row) /\ n \in Nat
        /\ events'[s] = Append(events[s], r)
        /\ Len(events'[s]) = n + 1
        /\ DOMAIN events[s] = 1 .. n
        /\ DOMAIN events'[s] = 1 .. n + 1
        /\ events'[s][n + 1] = r
        /\ \A i \in 1 .. n : events'[s][i] = events[s][i]
    <2> HIDE DEF s, r
    <2> QED BY <1>1, <1>3, <1>4, AppendProperties
  <1>6. \A t \in Streams : t # s => events'[t] = events[t] /\ heads'[t] = heads[t]
    BY <1>1, <1>3, <1>4
  <1>7. r.hash # NoHash /\ r.hash = recompute_hash(r) BY <1>1, <1>2, Recomputes
  <1>8. ChainIntact /\ HeadMatches /\ StoredOnce /\ IdsBounded BY DEF IInv, TablesInv
  <1>9. r.sequence = n + 1 /\ r.prev_hash = PriorHash(events'[s], n + 1)
    <2>1. CASE n = 0
      <3>1. events[s] = << >> BY <2>1, <1>5
      <3> QED BY <2>1, <3>1, <1>2 DEF next_seq, prev_hash, PriorHash
    <2>2. CASE n # 0
      <3>1. n \in 1 .. n /\ events[s] # << >> BY <2>2, <1>5
      <3>2. events[s][n].sequence = n BY <3>1, <1>1, <1>5, <1>8 DEF ChainIntact
      <3>3. events'[s][n + 1 - 1] = events[s][n] BY <3>1, <1>5
      <3> HIDE DEF s, r
      <3> QED BY <2>2, <3>1, <3>2, <3>3, <1>2, <1>5 DEF next_seq, prev_hash, PriorHash, n
    <2> QED BY <2>1, <2>2
  <1> HIDE DEF s, r, n
  <1>10. ChainIntact'
    <2> SUFFICES ASSUME NEW t \in Streams, NEW i \in DOMAIN events'[t]
                 PROVE  /\ events'[t][i].sequence = i
                        /\ events'[t][i].prev_hash = PriorHash(events'[t], i)
                        /\ \/ events'[t][i].hash = NoHash /\ events'[t][i].prev_hash = NoHash
                           \/ /\ events'[t][i].hash # NoHash
                              /\ events'[t][i].hash = recompute_hash(events'[t][i])
      BY DEF ChainIntact
    <2>1. CASE t # s BY <2>1, <1>6, <1>8 DEF ChainIntact
    <2>2. CASE t = s /\ i = n + 1 BY <2>2, <1>5, <1>7, <1>9
    <2>3. CASE t = s /\ i # n + 1
      <3>1. i \in 1 .. n BY <2>3, <1>5
      <3>2. events'[s][i] = events[s][i] BY <3>1, <1>5
      <3>3. i # 1 => i - 1 \in 1 .. n BY <3>1, <1>5
      <3>4. PriorHash(events'[s], i) = PriorHash(events[s], i)
        BY <3>1, <3>3, <1>5 DEF PriorHash
      <3> QED BY <2>3, <3>1, <3>2, <3>4, <1>1, <1>5, <1>8 DEF ChainIntact
    <2> QED BY <2>1, <2>2, <2>3
  <1>11. HeadMatches'
    <2> SUFFICES ASSUME NEW t \in Streams, heads'[t] # NoHead
                 PROVE  /\ events'[t] # << >>
                        /\ heads'[t] = [last_sequence |-> Len(events'[t]),
                                        last_hash |-> events'[t][Len(events'[t])].hash]
      BY DEF HeadMatches
    <2>1. CASE t # s BY <2>1, <1>6, <1>8 DEF HeadMatches
    <2>2. CASE t = s
      <3>1. heads'[s] = [last_sequence |-> n + 1, last_hash |-> r.hash] BY <1>1, <1>3, <1>4, <1>9
      <3>2. events'[s] # << >> BY <1>5
      <3> QED BY <2>2, <3>1, <3>2, <1>5
    <2> QED BY <2>1, <2>2
  <1>12. StoredOnce'
    <2> SUFFICES ASSUME NEW t \in Streams, NEW u \in Streams,
                        NEW i \in DOMAIN events'[t], NEW j \in DOMAIN events'[u],
                        events'[t][i].event_id = events'[u][j].event_id
                 PROVE  t = u /\ i = j
      BY DEF StoredOnce
    <2>1. ASSUME NEW v \in Streams, NEW k \in DOMAIN events'[v]
          PROVE  \/ v = s /\ k = n + 1
                 \/ k \in DOMAIN events[v] /\ events'[v][k] = events[v][k]
      BY <1>5, <1>6
    <2>2. \A v \in Streams : \A k \in DOMAIN events[v] : events[v][k].event_id # r.event_id
      BY <1>2 DEF Stored
    <2>3. events'[s][n + 1].event_id = r.event_id BY <1>5
    <2> QED BY <2>1, <2>2, <2>3, <1>8 DEF StoredOnce
  <1>13. IdsBounded'
    <2> SUFFICES ASSUME NEW t \in Streams, NEW i \in DOMAIN events'[t]
                 PROVE  events'[t][i].id \in 1 .. last_id'
      BY DEF IdsBounded
    <2>1. CASE t = s /\ i = n + 1 BY <2>1, <1>2, <1>3, <1>4, <1>5
    <2>2. CASE ~(t = s /\ i = n + 1)
      <3>1. i \in DOMAIN events[t] /\ events'[t][i] = events[t][i] BY <2>2, <1>5, <1>6
      <3>2. events[t][i].id \in 1 .. last_id BY <3>1, <1>8 DEF IdsBounded
      <3> QED BY <3>1, <3>2, <1>2, <1>3, <1>4
    <2> QED BY <2>1, <2>2
  <1> QED BY <1>10, <1>11, <1>12, <1>13 DEF TablesInv

------------------------------------------------------------------------------
(* What the transactions in flight may rely on. *)

LEMMA InitWriters == Init => WritersInv
  <1> SUFFICES ASSUME Init PROVE WritersInv OBVIOUS
  <1>1. \A p \in Procs : conn[p].pc = "idle" BY IdleType DEF Init
  <1>2. PICK st \in OldStores :
          /\ events = st.rows
          /\ reply = [e \in Events |-> IF StoredIn(st.rows, e) THEN "ok" ELSE "none"]
    BY DEF Init
  <1>3. \A e \in Events : StoredIn(st.rows, e) <=> Stored(e) BY <1>2 DEF StoredIn, Stored
  <1>4. ReplyIsTrue /\ NoneForgotten BY <1>2, <1>3 DEF ReplyIsTrue, NoneForgotten
  <1> QED BY <1>1, <1>4
       DEF WritersInv, OneWriter, Holding, AppendsInFlight, AppendInv, OneAppendPerEvent

(* An action that gives one process's connection the record c and leaves the *)
(* tables alone preserves what the other connections rely on.                *)
LEMMA WritersAfter ==
  ASSUME IInv, NEW p \in Procs, NEW c \in Conn,
         reply' \in [Events -> Reply],
         conn' = [conn EXCEPT ![p] = c],
         UNCHANGED <<events, last_id>>,
         (* the replies of the other processes' events are as they were *)
         \A q \in Procs : q # p /\ conn[q].pc \notin {"idle", "left_open"} =>
             reply'[conn[q].row.event_id] = reply[conn[q].row.event_id],
         (* the lock is kept, or taken when it was free *)
         c.pc \in {"begun", "inserted", "headed", "left_open"} =>
             Holding(p) \/ ~WriteLocked,
         (* the event is the one in flight, or new *)
         c.pc # "idle" =>
             \A q \in Procs : q # p /\ conn[q].pc # "idle" => conn[q].row.event_id # c.row.event_id,
         (* what this process itself has done so far *)
         c.pc \in {"begun", "inserted", "headed", "committed"} =>
             reply'[c.row.event_id] \in {"none", "unknown"},
         c.pc \in {"inserted", "headed"} => ~Stored(c.row.event_id),
         c.pc = "committed" => Stored(c.row.event_id),
         c.pc \in {"inserted", "headed"} =>
             /\ c.row.sequence = next_seq(c.stream)
             /\ c.row.data = Written
             /\ c.row.prev_hash = prev_hash(c.stream)
             /\ c.row.hash = compute_hash_v2(c.row.event_id, c.row.sequence,
                                             c.row.data, c.row.prev_hash)
             /\ c.row.id = last_id + 1,
         (* replies given tell the truth, and one that is taken back was an error *)
         \A e \in Events : \/ reply'[e] = reply[e] \/ reply'[e] = "unknown"
                           \/ reply'[e] \in {"ok", "refused"} /\ Stored(e)
                           \/ reply'[e] = "err" /\ ~Stored(e)
                           \/ reply'[e] = "none" /\ reply[e] = "err",
         conn[p].pc = "committed" => reply'[conn[p].row.event_id] # "none"
  PROVE  WritersInv'
  <1>1. conn \in [Procs -> Conn] /\ reply \in [Events -> Reply] BY DEF IInv, TypeOK
  <1>2. conn'[p] = c /\ \A q \in Procs : q # p => conn'[q] = conn[q] BY <1>1
  <1>3. \A e : Stored(e)' <=> Stored(e) BY DEF Stored
  <1>4. \A s \in Streams : next_seq(s)' = next_seq(s) /\ prev_hash(s)' = prev_hash(s)
    BY DEF next_seq, prev_hash
  <1>5. \A q \in Procs : conn[q].row.event_id \in Events BY <1>1 DEF Conn, Row
  <1>6. OneWriter /\ AppendsInFlight /\ OneAppendPerEvent /\ ReplyIsTrue /\ NoneForgotten
    BY DEF IInv, WritersInv
  <1>7. OneWriter' BY <1>2, <1>6 DEF OneWriter, Holding, WriteLocked, Conn
  <1>8. OneAppendPerEvent' BY <1>2, <1>6 DEF OneAppendPerEvent
  <1>9. AppendsInFlight'
    <2> SUFFICES ASSUME NEW q \in Procs PROVE AppendInv(conn[q])' BY DEF AppendsInFlight
    <2>1. CASE q = p
      BY <2>1, <1>2 DEF AppendInv, Stored, next_seq, prev_hash
    <2>2. CASE q # p
      <3>1. AppendInv(conn[q]) BY <1>6 DEF AppendsInFlight
      <3>2. conn'[q] = conn[q] BY <2>2, <1>2
      <3>3. conn[q].pc \notin {"idle", "left_open"} =>
              reply'[conn[q].row.event_id] = reply[conn[q].row.event_id]
        BY <2>2
      <3> QED BY <3>1, <3>2, <3>3 DEF AppendInv, Stored, next_seq, prev_hash
    <2> QED BY <2>1, <2>2
  <1>10. ReplyIsTrue' BY <1>3, <1>6 DEF ReplyIsTrue
  <1>11. NoneForgotten'
    <2> SUFFICES ASSUME NEW e \in Events, Stored(e), reply'[e] = "none"
                 PROVE  \E q \in Procs : conn'[q].pc = "committed" /\ conn'[q].row.event_id = e
      BY <1>3 DEF NoneForgotten
    <2>1. reply[e] = "none" BY <1>6 DEF ReplyIsTrue
    <2>2. PICK q \in Procs : conn[q].pc = "committed" /\ conn[q].row.event_id = e
      BY <2>1, <1>6 DEF NoneForgotten
    <2> QED BY <2>2, <1>2
  <1> QED BY <1>7, <1>8, <1>9, <1>10, <1>11 DEF WritersInv

LEMMA AppendWriters ==
  ASSUME IInv, NEW p \in Procs,
         \/ \E s \in Streams, e \in Events : Begin(p, s, e)
         \/ \E e \in Events : BeginFails(p, e)
         \/ InsertRow(p) \/ InsertRefused(p) \/ UpsertHead(p) \/ Return(p)
         \/ StepFails(p) \/ CommitFails(p) \/ Crash(p)
  PROVE  WritersInv'
  <1>1. /\ conn \in [Procs -> Conn] /\ reply \in [Events -> Reply]
        /\ conn[p] \in Conn /\ conn[p].row \in Row /\ conn[p].row.event_id \in Events
    BY ConnFields DEF IInv, TypeOK
  <1>2. /\ AppendsInFlight /\ OneAppendPerEvent /\ OneWriter
        /\ AppendInv(conn[p])
    BY DEF IInv, WritersInv, AppendsInFlight
  <1>3. \A q \in Procs : q # p /\ conn[q].pc # "idle" /\ conn[p].pc # "idle" =>
            conn[q].row.event_id # conn[p].row.event_id
    BY <1>2 DEF OneAppendPerEvent
  <1>4. \A q \in Procs : conn[q].row.event_id \in Events BY <1>1 DEF Conn, Row
  <1>5. ASSUME NEW s \in Streams, NEW e \in Events, Begin(p, s, e) PROVE WritersInv'
    <2> DEFINE c == [pc |-> "begun", stream |-> s, row |-> [BlankRow EXCEPT !.event_id = e]]
    <2>1. [BlankRow EXCEPT !.event_id = e] \in Row /\ c.row.event_id = e
      BY BlankRowType DEF Row
    <2>2. c \in Conn /\ c.pc = "begun" BY <2>1 DEF Conn
    <2>3. conn' = [conn EXCEPT ![p] = c] /\ UNCHANGED <<events, last_id>>
      BY <1>5 DEF Begin
    <2>4. /\ conn[p].pc = "idle" /\ ~WriteLocked
          /\ reply[e] \in {"none", "err", "unknown"}
          /\ reply' = [reply EXCEPT ![e] = IF reply[e] = "err" THEN "none" ELSE reply[e]]
      BY <1>5 DEF Begin, Wanted
    <2>5. \A q \in Procs : conn[q].pc # "idle" => conn[q].row.event_id # e
      BY <1>5, <2>4 DEF Begin, Wanted, InFlight, WriteLocked, Holding
    <2>6. /\ reply' \in [Events -> Reply] /\ reply'[e] \in {"none", "unknown"}
          /\ \A x \in Events : x # e => reply'[x] = reply[x]
          /\ reply'[e] = reply[e] \/ (reply'[e] = "none" /\ reply[e] = "err")
      BY <1>1, <2>4 DEF Reply
    <2>7. /\ \A x \in Events : reply'[x] = reply[x] \/ (reply'[x] = "none" /\ reply[x] = "err")
          /\ \A q \in Procs : conn[q].pc # "idle" =>
                reply'[conn[q].row.event_id] = reply[conn[q].row.event_id]
      BY <1>4, <2>5, <2>6
    <2> HIDE DEF c
    <2> QED BY <1>1, <2>1, <2>2, <2>3, <2>4, <2>5, <2>6, <2>7, WritersAfter
  <1>6. ASSUME NEW e \in Events, BeginFails(p, e) PROVE WritersInv'
    <2>1. /\ conn' = [conn EXCEPT ![p] = conn[p]]
          /\ reply' = Failed(e) /\ UNCHANGED <<events, last_id>>
      BY <1>1, <1>6 DEF BeginFails
    <2>2. conn[p].pc \in {"idle", "left_open"} /\ reply[e] \in {"none", "err", "unknown"}
      BY <1>6 DEF BeginFails, Wanted
    <2>3. \A q \in Procs : conn[q].pc \notin {"idle", "left_open"} => conn[q].row.event_id # e
      BY <1>6 DEF BeginFails, Wanted, InFlight
    <2>4. reply[e] # "unknown" => ~Stored(e)
      BY <2>2, <2>3 DEF IInv, WritersInv, NoneForgotten, ReplyIsTrue
    <2>5. /\ reply' \in [Events -> Reply]
          /\ reply[e] = "unknown" => reply'[e] = reply[e]
          /\ reply[e] # "unknown" => reply'[e] = "err"
          /\ \A x \in Events : x # e => reply'[x] = reply[x]
      BY <1>1, <2>1 DEF Reply, Failed
    <2>6. conn[p].pc = "left_open" => Holding(p) BY DEF Holding
    <2>7. \A x \in Events : reply'[x] = reply[x] \/ (reply'[x] = "err" /\ ~Stored(x))
      BY <2>4, <2>5
    <2> QED BY <1>1, <1>3, <1>4, <2>1, <2>2, <2>3, <2>5, <2>6, <2>7, WritersAfter
  <1>7. ASSUME InsertRow(p) PROVE WritersInv'
    <2>1. PICK r \in Row : /\ conn' = [conn EXCEPT ![p].pc = "inserted", ![p].row = r]
                           /\ r.event_id = conn[p].row.event_id
                           /\ r.sequence = next_seq(conn[p].stream)
                           /\ r.data = Written
                           /\ r.prev_hash = prev_hash(conn[p].stream)
                           /\ r.hash = compute_hash_v2(r.event_id, r.sequence, r.data, r.prev_hash)
                           /\ r.id = last_id + 1
      BY <1>7, StagedRow DEF IInv
    <2> DEFINE c == [conn[p] EXCEPT !.pc = "inserted", !.row = r]
    <2>2. c \in Conn /\ c.pc = "inserted" /\ c.row = r /\ c.stream = conn[p].stream
      BY <1>1 DEF Conn
    <2>3. conn' = [conn EXCEPT ![p] = c] BY <1>1, <2>1
    <2>4. conn[p].pc = "begun" /\ reply' = reply /\ UNCHANGED <<events, last_id>>
      BY <1>7 DEF InsertRow
    <2>5. reply[r.event_id] \in {"none", "unknown"} /\ ~Stored(r.event_id)
      BY <1>2, <1>7, <2>1, <2>4 DEF AppendInv, InsertRow
    <2>6. Holding(p) BY <2>4 DEF Holding
    <2>7. reply' \in [Events -> Reply] BY <1>1, <2>4
    <2>8. /\ c.row.sequence = next_seq(c.stream)
          /\ c.row.data = Written
          /\ c.row.prev_hash = prev_hash(c.stream)
          /\ c.row.hash = compute_hash_v2(c.row.event_id, c.row.sequence, c.row.data, c.row.prev_hash)
          /\ c.row.id = last_id + 1
          /\ c.row.event_id = conn[p].row.event_id
      BY <2>1, <2>2
    <2> HIDE DEF c
    <2> QED BY <1>1, <1>3, <1>4, <2>7, <2>8, <2>2, <2>3, <2>4, <2>5, <2>6, WritersAfter
  <1>8. ASSUME UpsertHead(p) PROVE WritersInv'
    <2> DEFINE c == [conn[p] EXCEPT !.pc = "headed"]
    <2>1. c \in Conn /\ c.pc = "headed" /\ c.row = conn[p].row /\ c.stream = conn[p].stream
      BY <1>1 DEF Conn
    <2>2. conn' = [conn EXCEPT ![p] = c] BY <1>1, <1>8 DEF UpsertHead
    <2>3. conn[p].pc = "inserted" /\ reply' = reply /\ UNCHANGED <<events, last_id>>
      BY <1>8 DEF UpsertHead
    <2>4. Holding(p) BY <2>3 DEF Holding
    <2> HIDE DEF c
    <2> QED BY <1>1, <1>2, <1>3, <2>1, <2>2, <2>3, <2>4, WritersAfter DEF AppendInv
  <1>9. ASSUME Return(p) \/ InsertRefused(p) PROVE WritersInv'
    <2>1. /\ conn' = [conn EXCEPT ![p] = Idle] /\ conn[p].pc \in {"begun", "committed"}
          /\ UNCHANGED <<events, last_id>>
      BY <1>9 DEF Return, InsertRefused
    <2>2. Stored(conn[p].row.event_id) BY <1>2, <1>9 DEF AppendInv, Return, InsertRefused
    <2>3. PICK told \in {"ok", "unknown", "refused"} :
            reply' = [reply EXCEPT ![conn[p].row.event_id] = told]
      BY <1>9 DEF Return, InsertRefused
    <2>4. /\ reply' \in [Events -> Reply]
          /\ reply'[conn[p].row.event_id] = told
          /\ \A x \in Events : x # conn[p].row.event_id => reply'[x] = reply[x]
      BY <1>1, <2>3 DEF Reply
    <2> QED BY <1>1, <1>3, <1>4, <2>1, <2>2, <2>4, IdleType, WritersAfter
  (* A failure says that the event is not stored, where that is known. *)
  <1>91. ASSUME reply' = Failed(conn[p].row.event_id), conn[p].pc \in {"begun", "inserted", "headed"}
         PROVE  /\ reply' \in [Events -> Reply]
                /\ \A x \in Events : reply'[x] = reply[x] \/ (reply'[x] = "err" /\ ~Stored(x))
                /\ \A x \in Events : x # conn[p].row.event_id => reply'[x] = reply[x]
    <2> DEFINE e == conn[p].row.event_id
    <2>1. reply[e] \in {"none", "unknown"} BY <1>2, <1>91 DEF AppendInv
    <2>2. \A q \in Procs : conn[q].pc = "committed" => conn[q].row.event_id # e
      BY <1>2, <1>91 DEF OneAppendPerEvent
    <2>3. reply[e] = "none" => ~Stored(e)
      BY <1>1, <2>2 DEF IInv, WritersInv, NoneForgotten
    <2>4. /\ reply' \in [Events -> Reply]
          /\ reply[e] = "unknown" => reply'[e] = reply[e]
          /\ reply[e] = "none" => reply'[e] = "err"
          /\ \A x \in Events : x # e => reply'[x] = reply[x]
      BY <1>1, <1>91 DEF Reply, Failed
    <2> QED BY <2>1, <2>3, <2>4
  <1>10. ASSUME \/ StepFails(p)
                \/ CommitFails(p) /\ conn' = [conn EXCEPT ![p] = Idle]
         PROVE  WritersInv'
    <2>1. /\ conn' = [conn EXCEPT ![p] = Idle]
          /\ conn[p].pc \in {"begun", "inserted", "headed"}
          /\ reply' = Failed(conn[p].row.event_id)
          /\ UNCHANGED <<events, last_id>>
      BY <1>10 DEF StepFails, CommitFails
    <2> QED BY <1>1, <1>3, <1>4, <1>91, <2>1, IdleType, WritersAfter
  <1>11. ASSUME CommitFails(p), conn' = [conn EXCEPT ![p].pc = "left_open"] PROVE WritersInv'
    <2> DEFINE c == [conn[p] EXCEPT !.pc = "left_open"]
    <2>1. c \in Conn /\ c.pc = "left_open" /\ c.row = conn[p].row BY <1>1 DEF Conn
    <2>2. conn' = [conn EXCEPT ![p] = c] BY <1>1, <1>11
    <2>3. /\ conn[p].pc = "headed" /\ UNCHANGED <<events, last_id>>
          /\ reply' = Failed(conn[p].row.event_id)
      BY <1>11 DEF CommitFails
    <2>4. Holding(p) BY <2>3 DEF Holding
    <2>5. /\ reply' \in [Events -> Reply]
          /\ \A x \in Events : reply'[x] = reply[x] \/ (reply'[x] = "err" /\ ~Stored(x))
          /\ \A x \in Events : x # conn[p].row.event_id => reply'[x] = reply[x]
      BY <1>91, <2>3
    <2>6. \A q \in Procs : q # p /\ conn[q].pc # "idle" =>
            /\ conn[q].row.event_id # c.row.event_id
            /\ reply'[conn[q].row.event_id] = reply[conn[q].row.event_id]
      BY <1>3, <1>4, <2>1, <2>3, <2>5
    <2> HIDE DEF c
    <2> QED BY <2>1, <2>2, <2>3, <2>4, <2>5, <2>6, WritersAfter
  <1>12. ASSUME Crash(p) PROVE WritersInv'
    <2>1. /\ conn' = [conn EXCEPT ![p] = Idle] /\ UNCHANGED <<events, last_id>>
          /\ reply' = IF conn[p].pc \in {"idle", "left_open"} THEN reply
                      ELSE [reply EXCEPT ![conn[p].row.event_id] = "unknown"]
      BY <1>12 DEF Crash
    <2>2. /\ reply' \in [Events -> Reply]
          /\ \A x \in Events : reply'[x] = reply[x] \/ reply'[x] = "unknown"
          /\ \A x \in Events : x # conn[p].row.event_id => reply'[x] = reply[x]
          /\ conn[p].pc = "committed" => reply'[conn[p].row.event_id] = "unknown"
          /\ conn[p].pc = "idle" => reply' = reply
      BY <1>1, <2>1 DEF Reply
    <2> QED BY <1>1, <1>3, <1>4, <2>1, <2>2, IdleType, WritersAfter
  <1>13. CommitFails(p) => \/ conn' = [conn EXCEPT ![p] = Idle]
                           \/ conn' = [conn EXCEPT ![p].pc = "left_open"]
    BY DEF CommitFails
  <1> QED BY <1>5, <1>6, <1>7, <1>8, <1>9, <1>10, <1>11, <1>12, <1>13

(* COMMIT: the row becomes visible, and the lock goes. *)
LEMMA CommitWriters ==
  ASSUME IInv, NEW p \in Procs, Commit(p)
  PROVE  WritersInv'
  <1> DEFINE s == conn[p].stream
             r == conn[p].row
             c == [conn[p] EXCEPT !.pc = "committed"]
  <1>1. /\ conn \in [Procs -> Conn] /\ events \in [Streams -> Seq(Row)]
        /\ s \in Streams /\ r \in Row /\ conn[p] \in Conn
    BY ConnFields DEF IInv, TypeOK
  <1>2. /\ conn[p].pc = "headed" /\ reply' = reply
        /\ conn' = [conn EXCEPT ![p] = c]
        /\ events' = [events EXCEPT ![s] = Append(events[s], r)]
    BY <1>1 DEF Commit
  <1>3. c.pc = "committed" /\ c.row = r /\ conn[p].row = r BY <1>1 DEF Conn
  <1>4. conn'[p] = c /\ \A q \in Procs : q # p => conn'[q] = conn[q]
    <2> HIDE DEF c
    <2> QED BY <1>1, <1>2
  <1>5. OneWriter /\ AppendsInFlight /\ OneAppendPerEvent /\ ReplyIsTrue /\ NoneForgotten
    BY DEF IInv, WritersInv
  <1>6. reply[r.event_id] \in {"none", "unknown"} /\ ~Stored(r.event_id)
    BY <1>2, <1>5 DEF AppendsInFlight, AppendInv
  <1>7. \A q \in Procs : q # p => conn[q].pc \in {"idle", "committed"}
    BY <1>1, <1>2, <1>5 DEF OneWriter, Holding, Conn
  <1> HIDE DEF s, r, c
  <1>8. \A e : Stored(e)' <=> Stored(e) \/ e = r.event_id
    <2>1. /\ DOMAIN events[s] = 1 .. Len(events[s]) /\ Len(events[s]) \in Nat
          /\ DOMAIN events'[s] = 1 .. Len(events[s]) + 1
          /\ events'[s][Len(events[s]) + 1] = r
          /\ \A i \in DOMAIN events[s] : events'[s][i] = events[s][i]
      BY <1>1, <1>2, AppendProperties
    <2>2. \A t \in Streams : t # s => events'[t] = events[t] BY <1>1, <1>2
    <2>3. ASSUME NEW e, Stored(e)' PROVE Stored(e) \/ e = r.event_id
      <3>0. PICK t \in Streams : \E i \in DOMAIN events'[t] : events'[t][i].event_id = e
        BY <2>3 DEF Stored
      <3>1. PICK i \in DOMAIN events'[t] : events'[t][i].event_id = e BY <3>0
      <3>2. \/ i \in DOMAIN events[t] /\ events'[t][i] = events[t][i]
            \/ events'[t][i] = r
        BY <2>1, <2>2
      <3> QED BY <3>1, <3>2 DEF Stored
    <2>4. ASSUME NEW e, Stored(e) PROVE Stored(e)'
      <3>0. PICK t \in Streams : \E i \in DOMAIN events[t] : events[t][i].event_id = e
        BY <2>4 DEF Stored
      <3>1. PICK i \in DOMAIN events[t] : events[t][i].event_id = e BY <3>0
      <3>2. i \in DOMAIN events'[t] /\ events'[t][i] = events[t][i] BY <2>1, <2>2
      <3> QED BY <3>1, <3>2 DEF Stored
    <2>5. ASSUME NEW e, e = r.event_id PROVE Stored(e)'
      <3>1. Len(events[s]) + 1 \in DOMAIN events'[s] BY <2>1
      <3>2. events'[s][Len(events[s]) + 1].event_id = r.event_id BY <2>1
      <3>3. \E i \in DOMAIN events'[s] : events'[s][i].event_id = e BY <2>5, <3>1, <3>2
      <3> QED BY <1>1, <3>3 DEF Stored
    <2> QED BY <2>3, <2>4, <2>5
  <1>9. OneWriter' BY <1>3, <1>4, <1>7 DEF OneWriter, Holding
  <1>10. AppendsInFlight'
    <2> SUFFICES ASSUME NEW q \in Procs PROVE AppendInv(conn[q])' BY DEF AppendsInFlight
    <2>1. CASE q = p BY <2>1, <1>2, <1>3, <1>4, <1>6, <1>8 DEF AppendInv
    <2>2. CASE q # p
      <3>1. conn'[q] = conn[q] /\ conn[q].pc \in {"idle", "committed"} BY <2>2, <1>4, <1>7
      <3>2. AppendInv(conn[q]) BY <1>5 DEF AppendsInFlight
      <3> QED BY <3>1, <3>2, <1>2, <1>8 DEF AppendInv
    <2> QED BY <2>1, <2>2
  <1>11. OneAppendPerEvent'
    BY <1>2, <1>3, <1>4, <1>5 DEF OneAppendPerEvent
  <1>12. ReplyIsTrue' BY <1>2, <1>5, <1>6, <1>8 DEF ReplyIsTrue
  <1>13. NoneForgotten'
    <2> SUFFICES ASSUME NEW e \in Events, Stored(e)', reply'[e] = "none"
                 PROVE  \E q \in Procs : conn'[q].pc = "committed" /\ conn'[q].row.event_id = e
      BY DEF NoneForgotten
    <2>1. CASE e = r.event_id BY <2>1, <1>3, <1>4
    <2>2. CASE e # r.event_id
      <3>1. PICK q \in Procs : conn[q].pc = "committed" /\ conn[q].row.event_id = e
        BY <2>2, <1>2, <1>5, <1>8 DEF NoneForgotten
      <3>2. q # p BY <3>1, <1>2
      <3> QED BY <3>1, <3>2, <1>4
    <2> QED BY <2>1, <2>2
  <1> QED BY <1>9, <1>10, <1>11, <1>12, <1>13 DEF WritersInv

LEMMA WritersUntouched ==
  ASSUME WritersInv, UNCHANGED <<events, last_id, conn, reply>>
  PROVE  WritersInv'
  BY DEF WritersInv, OneWriter, Holding, AppendsInFlight, AppendInv, OneAppendPerEvent,
         ReplyIsTrue, NoneForgotten, Stored, next_seq, prev_hash

LEMMA InvariantStep == IInv /\ [Next]_vars => (TablesInv /\ WritersInv)'
  <1> SUFFICES ASSUME IInv, [Next]_vars PROVE TablesInv' /\ WritersInv' OBVIOUS
  <1>1. CASE UNCHANGED vars
    BY <1>1, TablesUntouched, WritersUntouched DEF vars, IInv
  <1>2. ASSUME NEW p \in Procs, Commit(p) PROVE TablesInv' /\ WritersInv'
    BY <1>2, CommitTables, CommitWriters
  <1>3. ASSUME NEW p \in Procs,
               \/ \E s \in Streams, e \in Events : Begin(p, s, e)
               \/ \E e \in Events : BeginFails(p, e)
               \/ InsertRow(p) \/ InsertRefused(p) \/ UpsertHead(p) \/ Return(p)
               \/ StepFails(p) \/ CommitFails(p) \/ Crash(p)
        PROVE  TablesInv' /\ WritersInv'
    <2>1. UNCHANGED <<events, heads, last_id>>
      BY <1>3 DEF Begin, BeginFails, InsertRow, InsertRefused, UpsertHead, Return, StepFails,
                  CommitFails, Crash
    <2>2. TablesInv BY DEF IInv
    <2>3. TablesInv' BY <2>1, <2>2, TablesUntouched
    <2> QED BY <1>3, <2>3, AppendWriters
  <1>4. ASSUME NEW p \in Procs, VerifyStep(p) PROVE TablesInv' /\ WritersInv'
    <2>1. UNCHANGED <<events, heads, last_id, conn, reply>> BY <1>4, VerifyOnlyReads
    <2> QED BY <2>1, TablesUntouched, WritersUntouched DEF IInv
  <1> QED BY <1>1, <1>2, <1>3, <1>4, VerifiersAssumption DEF Next, AppendStep

(* The inductive invariant holds of every reachable state. *)
THEOREM Invariant == Spec => []IInv
  <1>1. Init => TablesInv /\ WritersInv BY InitTables, InitWriters
  <1>2. IInv <=> TypeOK /\ TablesInv /\ WritersInv BY DEF IInv
  <1> QED BY <1>1, <1>2, InvariantStep, TypeCorrect, PTL DEF Spec

(* Whatever the interleaving and wherever a step fails or a process dies: the *)
(* stream is one unforked chain 1, 2, 3, ...                                  *)
THEOREM ChainsStayIntact == Spec => []ChainIntact
  <1>1. IInv => ChainIntact BY DEF IInv, TablesInv
  <1> QED BY <1>1, Invariant, PTL

(* ... its head is that of its last row ... *)
THEOREM HeadsStayMatched == Spec => []HeadMatches
  <1>1. IInv => HeadMatches BY DEF IInv, TablesInv
  <1> QED BY <1>1, Invariant, PTL

(* ... no event is stored twice, however often callers that did not hear of   *)
(* success append it ...                                                      *)
THEOREM NothingIsStoredTwice == Spec => []StoredOnce
  <1>1. IInv => StoredOnce BY DEF IInv, TablesInv
  <1> QED BY <1>1, Invariant, PTL

(* ... and what append returned is what happened. *)
THEOREM RepliesAreTrue == Spec => []ReplyIsTrue
  <1>1. IInv => ReplyIsTrue BY DEF IInv, WritersInv
  <1> QED BY <1>1, Invariant, PTL

------------------------------------------------------------------------------
(* What a step may do. *)

LEMMA OnlyCommitWrites ==
  ASSUME [Next]_vars
  PROVE  UNCHANGED <<events, last_id>> \/ \E p \in Procs : Commit(p)
  <1>1. CASE UNCHANGED vars BY <1>1 DEF vars
  <1>2. ASSUME NEW p \in Procs, AppendStep(p), ~Commit(p) PROVE UNCHANGED <<events, last_id>>
    BY <1>2 DEF AppendStep, Begin, BeginFails, InsertRow, InsertRefused, UpsertHead, Return,
                StepFails, CommitFails
  <1>3. ASSUME NEW p \in Procs, Crash(p) PROVE UNCHANGED <<events, last_id>>
    BY <1>3 DEF Crash
  <1>4. ASSUME NEW p \in Procs, VerifyStep(p) PROVE UNCHANGED <<events, last_id>>
    BY <1>4, VerifyOnlyReads
  <1> QED BY <1>1, <1>2, <1>3, <1>4, VerifiersAssumption DEF Next

(* A row that becomes visible has a greater id than every row already visible, *)
(* whichever process and stream it comes from.                                 *)
THEOREM RowsAppearInIdOrder == Spec => CommitsInIdOrder
  <1> DEFINE Ordered ==
        \A s, t \in Streams :
          \A i \in DOMAIN events'[s], j \in DOMAIN events[t] :
            i \notin DOMAIN events[s] => events'[s][i].id > events[t][j].id
  <1>1. IInv /\ [Next]_vars => [Ordered]_vars
    <2> SUFFICES ASSUME IInv, [Next]_vars PROVE Ordered OBVIOUS
    <2>1. CASE UNCHANGED <<events, last_id>> BY <2>1
    <2>2. ASSUME NEW p \in Procs, Commit(p) PROVE Ordered
      <3> DEFINE s == conn[p].stream
                 r == conn[p].row
      <3>1. /\ s \in Streams /\ r \in Row
            /\ events \in [Streams -> Seq(Row)] /\ last_id \in Nat
        BY ConnFields DEF IInv, TypeOK
      <3>2. r.id = last_id + 1
        BY <2>2 DEF Commit, IInv, WritersInv, AppendsInFlight, AppendInv
      <3>3. events' = [events EXCEPT ![s] = Append(events[s], r)] BY <2>2 DEF Commit
      <3> HIDE DEF s, r
      <3>4. /\ DOMAIN events[s] = 1 .. Len(events[s]) /\ Len(events[s]) \in Nat
            /\ DOMAIN events'[s] = 1 .. Len(events[s]) + 1
            /\ events'[s][Len(events[s]) + 1] = r
        BY <3>1, <3>3, AppendProperties
      <3>5. \A t \in Streams : t # s => events'[t] = events[t] BY <3>1, <3>3
      <3>6. \A t \in Streams : \A j \in DOMAIN events[t] : events[t][j].id \in 1 .. last_id
        BY DEF IInv, TablesInv, IdsBounded
      <3> SUFFICES ASSUME NEW u \in Streams, NEW t \in Streams,
                          NEW i \in DOMAIN events'[u], NEW j \in DOMAIN events[t],
                          i \notin DOMAIN events[u]
                   PROVE  events'[u][i].id > events[t][j].id
        OBVIOUS
      <3>7. u = s /\ i = Len(events[s]) + 1 BY <3>4, <3>5
      <3>8. events[t][j].id \in 1 .. last_id BY <3>6
      <3> QED BY <3>1, <3>2, <3>4, <3>7, <3>8
    <2> QED BY <2>1, <2>2, OnlyCommitWrites
  <1> QED BY <1>1, Invariant, PTL DEF Spec, CommitsInIdOrder

------------------------------------------------------------------------------
(* The store implements the abstract log. *)

LEMMA LoggedIsStored ==
  ASSUME TypeOK
  PROVE  \A e : Log!Logged(e) <=> Stored(e)
  BY DEF Log!Logged, Stored, EventIds, TypeOK

LEMMA CommitIsWrite ==
  ASSUME IInv, NEW p \in Procs, Commit(p)
  PROVE  Log!LogNext
  <1> DEFINE s == conn[p].stream
             r == conn[p].row
             log == EventIds(events)
  <1>1. /\ s \in Streams /\ r \in Row /\ r.event_id \in Events
        /\ events \in [Streams -> Seq(Row)]
    BY ConnFields DEF IInv, TypeOK
  <1>2. /\ events' = [events EXCEPT ![s] = Append(events[s], r)]
        /\ reply' = reply
        /\ reply[r.event_id] \in {"none", "unknown"} /\ ~Stored(r.event_id)
    BY DEF Commit, IInv, WritersInv, AppendsInFlight, AppendInv
  <1>3. ~Log!Logged(r.event_id) BY <1>2, LoggedIsStored DEF IInv
  <1> HIDE DEF s, r
  <1>4. /\ events[s] \in Seq(Row)
        /\ DOMAIN events[s] = 1 .. Len(events[s]) /\ Len(events[s]) \in Nat
        /\ DOMAIN events'[s] = 1 .. Len(events[s]) + 1
        /\ events'[s][Len(events[s]) + 1] = r
        /\ \A i \in 1 .. Len(events[s]) : events'[s][i] = events[s][i]
    BY <1>1, <1>2, AppendProperties
  <1>5. EventIds(events)' = [EventIds(events) EXCEPT ![s] = Append(@, r.event_id)]
    <2> DEFINE ids(rows) == [i \in DOMAIN rows |-> rows[i].event_id]
    <2>1. ids(events[s]) \in Seq(Events) /\ Len(ids(events[s])) = Len(events[s])
      <3>1. \A i \in 1 .. Len(events[s]) : events[s][i] \in Row BY <1>4
      <3>2. \A i \in 1 .. Len(events[s]) : events[s][i].event_id \in Events BY <3>1 DEF Row
      <3> QED BY <1>4, <3>2
    <2>2. ids(events'[s]) = Append(ids(events[s]), r.event_id)
      <3> DEFINE n == Len(events[s])
                 a == Append(ids(events[s]), r.event_id)
      <3>1. /\ a \in Seq(Events) /\ Len(a) = n + 1 /\ a[n + 1] = r.event_id
            /\ \A i \in 1 .. n : a[i] = events[s][i].event_id
        <4> HIDE DEF ids
        <4>1. /\ Append(ids(events[s]), r.event_id) \in Seq(Events)
              /\ Len(Append(ids(events[s]), r.event_id)) = n + 1
              /\ Append(ids(events[s]), r.event_id)[n + 1] = r.event_id
              /\ \A i \in 1 .. n : Append(ids(events[s]), r.event_id)[i] = ids(events[s])[i]
          BY <1>1, <2>1, AppendProperties
        <4>2. \A i \in 1 .. n : ids(events[s])[i] = events[s][i].event_id BY <1>4 DEF ids
        <4> QED BY <4>1, <4>2
      <3> HIDE DEF a
      <3>2. DOMAIN a = 1 .. n + 1 /\ a = [i \in DOMAIN a |-> a[i]] BY <3>1, <1>4
      <3>3. \A i \in 1 .. n + 1 : a[i] = events'[s][i].event_id BY <3>1, <1>4
      <3>4. ids(events'[s]) = a BY <3>2, <3>3, <1>4
      <3> QED BY <3>4 DEF a
    <2>3. \A t \in Streams : t # s => events'[t] = events[t] BY <1>1, <1>2
    <2>4. /\ EventIds(events)' = [t \in Streams |-> ids(events'[t])]
          /\ EventIds(events) = [t \in Streams |-> ids(events[t])]
      BY DEF EventIds
    <2> HIDE DEF ids
    <2>5. [t \in Streams |-> ids(events'[t])]
            = [[t \in Streams |-> ids(events[t])] EXCEPT ![s] = Append(@, r.event_id)]
      BY <1>1, <2>2, <2>3
    <2> QED BY <2>4, <2>5
  <1>6. Log!Write(s, r.event_id) BY <1>2, <1>3, <1>5 DEF Log!Write
  <1> QED BY <1>1, <1>6 DEF Log!LogNext

LEMMA InitRefines == Init => Log!LogInit
  <1> SUFFICES ASSUME Init PROVE Log!LogInit OBVIOUS
  <1>1. PICK st \in OldStores :
          /\ events = st.rows
          /\ reply = [e \in Events |-> IF StoredIn(st.rows, e) THEN "ok" ELSE "none"]
    BY DEF Init
  <1>2. EventIds(events) \in {EventIds(x.rows) : x \in OldStores} BY <1>1
  <1>3. \A e : Log!Logged(e) <=> StoredIn(st.rows, e)
    BY <1>1 DEF Log!Logged, EventIds, StoredIn
  <1> QED BY <1>1, <1>2, <1>3 DEF Log!LogInit

(* Only the reply of one event changes, and truthfully. *)
LEMMA ReplyRefines ==
  ASSUME IInv, NEW p \in Procs, UNCHANGED events,
         \/ \E s \in Streams, e \in Events : Begin(p, s, e)
         \/ \E e \in Events : BeginFails(p, e)
         \/ InsertRefused(p) \/ Return(p) \/ StepFails(p) \/ CommitFails(p) \/ Crash(p)
  PROVE  [Log!LogNext]_<<EventIds(events), reply>>
  <1> DEFINE e == conn[p].row.event_id
  <1>1. e \in Events /\ reply \in [Events -> Reply] BY ConnFields DEF IInv, TypeOK
  <1>2. /\ AppendInv(conn[p]) /\ NoneForgotten /\ OneAppendPerEvent
    BY DEF IInv, WritersInv, AppendsInFlight
  <1>3. \A x : Log!Logged(x) <=> Stored(x) BY LoggedIsStored DEF IInv
  <1>4. EventIds(events)' = EventIds(events) BY DEF EventIds
  <1>5. ASSUME NEW s \in Streams, NEW x \in Events, Begin(p, s, x)
        PROVE  Log!Retry(x) \/ reply' = reply
    <2>1. CASE reply[x] = "err" BY <1>4, <1>5, <2>1 DEF Begin, Log!Retry
    <2>2. CASE reply[x] # "err" BY <1>1, <1>5, <2>2 DEF Begin
    <2> QED BY <2>1, <2>2
  <1>6. ASSUME NEW x \in Events, BeginFails(p, x) PROVE Log!Refuse(x) \/ reply' = reply
    <2>1. reply' = Failed(x) /\ ~InFlight(x) /\ reply[x] \in {"none", "err", "unknown"}
      BY <1>6 DEF BeginFails, Wanted
    <2>2. CASE reply[x] = "none"
      <3>1. ~Stored(x) BY <1>2, <2>1, <2>2 DEF NoneForgotten, InFlight
      <3> QED BY <1>1, <1>3, <1>4, <2>1, <2>2, <3>1 DEF Log!Refuse, Failed
    <2>3. CASE reply[x] # "none" BY <1>1, <2>1, <2>3 DEF Failed
    <2> QED BY <2>2, <2>3
  <1>7. ASSUME InsertRefused(p) PROVE Log!Duplicate(e)
    <2>1. conn[p].pc = "begun" /\ Stored(e) /\ reply' = [reply EXCEPT ![e] = "refused"]
      BY <1>7 DEF InsertRefused
    <2>2. reply[e] \in {"none", "unknown"} BY <1>2, <2>1 DEF AppendInv
    <2>3. reply[e] # "none" BY <1>1, <1>2, <2>1 DEF NoneForgotten, OneAppendPerEvent
    <2> QED BY <1>3, <1>4, <2>1, <2>2, <2>3 DEF Log!Duplicate
  <1>8. ASSUME Return(p) PROVE Log!Acknowledge(e) \/ Log!Lose(e) \/ reply' = reply
    <2>1. /\ Stored(e) /\ reply[e] \in {"none", "unknown"}
      BY <1>2, <1>8 DEF Return, AppendInv
    <2>2. CASE reply' = [reply EXCEPT ![e] = "ok"]
      BY <1>3, <1>4, <2>1, <2>2 DEF Log!Acknowledge
    <2>3. CASE reply' = [reply EXCEPT ![e] = "unknown"] /\ reply[e] = "none"
      BY <1>4, <2>3 DEF Log!Lose
    <2>4. CASE reply' = [reply EXCEPT ![e] = "unknown"] /\ reply[e] = "unknown"
      BY <1>1, <2>4
    <2> QED BY <1>8, <2>1, <2>2, <2>3, <2>4 DEF Return
  <1>9. ASSUME StepFails(p) \/ CommitFails(p) PROVE Log!Refuse(e) \/ reply' = reply
    <2>1. conn[p].pc \in {"begun", "inserted", "headed"} /\ reply' = Failed(e)
      BY <1>9 DEF StepFails, CommitFails
    <2>2. reply[e] \in {"none", "unknown"} BY <1>2, <2>1 DEF AppendInv
    <2>3. CASE reply[e] = "none"
      <3>1. ~Stored(e) BY <1>1, <1>2, <2>1, <2>3 DEF NoneForgotten, OneAppendPerEvent
      <3> QED BY <1>1, <1>3, <1>4, <2>1, <2>3, <3>1 DEF Log!Refuse, Failed
    <2>4. CASE reply[e] = "unknown" BY <1>1, <2>1, <2>4 DEF Failed
    <2> QED BY <2>2, <2>3, <2>4
  <1>10. ASSUME Crash(p) PROVE Log!Lose(e) \/ reply' = reply
    <2>1. CASE conn[p].pc \in {"idle", "left_open"} BY <1>10, <2>1 DEF Crash
    <2>2. CASE conn[p].pc \notin {"idle", "left_open"}
      <3>1. conn[p].pc \in {"begun", "inserted", "headed", "committed"}
        BY <2>2, ConnFields DEF IInv, Conn
      <3>2. reply[e] \in {"none", "unknown"} BY <1>2, <3>1 DEF AppendInv
      <3>3. reply' = [reply EXCEPT ![e] = "unknown"] BY <1>10, <2>2 DEF Crash
      <3>4. CASE reply[e] = "none" BY <1>4, <3>3, <3>4 DEF Log!Lose
      <3>5. CASE reply[e] = "unknown" BY <1>1, <3>3, <3>5
      <3> QED BY <3>2, <3>4, <3>5
    <2> QED BY <2>1, <2>2
  <1> HIDE DEF e
  <1> QED BY <1>1, <1>4, <1>5, <1>6, <1>7, <1>8, <1>9, <1>10 DEF Log!LogNext

(* Seen from outside, the transactions, hashes, heads and ids come down to an *)
(* append-only log that answers truthfully.                                   *)
THEOREM StoreImplementsLog == Spec => LogRefinement
  <1>1. IInv /\ [Next]_vars => [Log!LogNext]_<<EventIds(events), reply>>
    <2> SUFFICES ASSUME IInv, [Next]_vars PROVE [Log!LogNext]_<<EventIds(events), reply>>
      OBVIOUS
    <2>1. CASE UNCHANGED <<events, reply>> BY <2>1 DEF EventIds
    <2>2. ASSUME NEW p \in Procs, Commit(p) PROVE Log!LogNext BY <2>2, CommitIsWrite
    <2>3. ASSUME NEW p \in Procs,
                 \/ \E s \in Streams, e \in Events : Begin(p, s, e)
                 \/ \E e \in Events : BeginFails(p, e)
                 \/ InsertRefused(p) \/ Return(p) \/ StepFails(p) \/ CommitFails(p) \/ Crash(p)
          PROVE  [Log!LogNext]_<<EventIds(events), reply>>
      <3>1. UNCHANGED events
        BY <2>3 DEF Begin, BeginFails, InsertRefused, Return, StepFails, CommitFails, Crash
      <3> QED BY <2>3, <3>1, ReplyRefines
    <2>4. ASSUME NEW p \in Procs, InsertRow(p) \/ UpsertHead(p)
          PROVE  UNCHANGED <<events, reply>>
      BY <2>4 DEF InsertRow, UpsertHead
    <2>5. ASSUME NEW p \in Procs, VerifyStep(p) PROVE UNCHANGED <<events, reply>>
      BY <2>5, VerifyOnlyReads
    <2>6. UNCHANGED vars => UNCHANGED <<events, reply>> BY DEF vars
    <2> QED BY <2>1, <2>2, <2>3, <2>4, <2>5, <2>6, VerifiersAssumption DEF Next, AppendStep
  <1> QED BY <1>1, InitRefines, Invariant, PTL
       DEF Spec, LogRefinement, Log!LogSpec, Log!logVars

------------------------------------------------------------------------------
(* `zymi verify` while rows are lost and edited behind the store's back: for  *)
(* any number of processes appending and verifying at once a tampered store   *)
(* is reported, and a store nobody else has open is never reported for        *)
(* nothing.                                                                   *)

(* The last link of a row's hash covers the data as it was appended. *)
Committed(row) == row.hash # NoHash => row.hash[Len(row.hash)].data = Written

(* What survives any loss and any edit: rows are still numbered 1, 2, 3, ... *)
(* and their hashes still speak of what was written.                         *)
Numbered ==
    \A s \in Streams : \A i \in DOMAIN events[s] :
        events[s][i].sequence = i /\ Committed(events[s][i])

(* A row staged by an append is numbered after what is left of the stream. *)
StagedOn(c) ==
    c.pc \in {"inserted", "headed"} =>
        /\ c.row.sequence = Len(events[c.stream]) + 1
        /\ c.row.hash # NoHash
        /\ Committed(c.row)
Staged == \A p \in Procs : StagedOn(conn[p])

(* A head is never behind its rows, and is ahead of them while a loss stands. *)
HeadsAhead ==
    \A s \in Streams :
        /\ heads[s] # NoHead => Len(events[s]) <= heads[s].last_sequence
        /\ s \in damage.lost =>
              heads[s] # NoHead /\ Len(events[s]) < heads[s].last_sequence

(* The streams the command must report, and the evidence it holds about the  *)
(* one it is walking: a loss shows against the head, which nobody has        *)
(* written since, and an edit shows in the rows alone.                       *)
Suspects(k) == k.lost \cup k.edited
Condemned(k) ==
    /\ k.stream \in k.lost =>
         /\ heads[k.stream] # NoHead
         /\ \A i \in DOMAIN k.rows : k.rows[i].sequence < heads[k.stream].last_sequence
    /\ k.stream \in k.edited => \E i \in Hashed(k.rows) : ~RowVerifies(k.rows, i)

(* Until the verdict is "not ok", every suspect is still to be walked. *)
ScanInv(k) ==
    /\ k.lost \subseteq damage.lost
    /\ k.edited \subseteq EditedStreams
    /\ k.phase = "listed" => k.edited \subseteq k.todo
    /\ k.phase = "next" /\ k.all_ok => Suspects(k) \subseteq k.todo
    /\ k.phase = "walk" => Condemned(k)
    /\ k.phase = "walk" /\ k.all_ok => Suspects(k) \subseteq k.todo \cup {k.stream}
    /\ k.phase = "done" /\ k.all_ok => Suspects(k) = {}
Scans == \A p \in Procs : ScanInv(scan[p])

(* The inductive invariant behind AlarmIsRaised. *)
AlarmInv == TypeOK /\ OneWriter /\ Numbered /\ Staged /\ HeadsAhead /\ Scans

------------------------------------------------------------------------------
(* Rows, hashes and verdicts. *)

LEMMA NextSeqIs ==
  ASSUME TypeOK, Numbered, NEW s \in Streams
  PROVE  next_seq(s) = Len(events[s]) + 1
  <1>1. events[s] \in Seq(Row) BY DEF TypeOK
  <1>2. CASE events[s] = << >> BY <1>2 DEF next_seq
  <1>3. CASE events[s] # << >>
    <2>1. Len(events[s]) \in DOMAIN events[s] BY <1>1, <1>3
    <2>2. events[s][Len(events[s])].sequence = Len(events[s]) BY <2>1 DEF Numbered
    <2> QED BY <1>3, <2>2 DEF next_seq
  <1> QED BY <1>2, <1>3

(* The last link of a digest is about the data it was computed from. *)
LEMMA DigestCovers ==
  ASSUME NEW e \in Events, NEW n \in Nat, NEW d \in Data, NEW h \in Digest
  PROVE  /\ compute_hash_v2(e, n, d, h)[Len(compute_hash_v2(e, n, d, h))].data = d
         /\ compute_hash_v1(e, d, h)[Len(compute_hash_v1(e, d, h))].data = d
  <1> DEFINE x == [version |-> "v2", event_id |-> e, sequence |-> n, data |-> d]
             y == [version |-> "v1", event_id |-> e, sequence |-> 0, data |-> d]
  <1>1. x \in Link /\ y \in Link BY DEF Link
  <1>2. \A z \in Link : Append(h, z)[Len(Append(h, z))] = z
    BY AppendProperties DEF Digest
  <1>3. x.data = d /\ y.data = d OBVIOUS
  <1> HIDE DEF x, y
  <1>4. /\ Append(h, x)[Len(Append(h, x))].data = d
        /\ Append(h, y)[Len(Append(h, y))].data = d
    BY <1>1, <1>2, <1>3
  <1> QED BY <1>4 DEF compute_hash_v1, compute_hash_v2, x, y

(* A hashed row whose data was edited does not verify. *)
LEMMA EditShows ==
  ASSUME NEW rows \in Seq(Row), NEW i \in Hashed(rows),
         Committed(rows[i]), rows[i].data = Edited
  PROVE  ~RowVerifies(rows, i)
  <1>1. rows[i] \in Row /\ rows[i].hash # NoHash BY DEF Hashed
  <1> DEFINE r == rows[i]
  <1>2. /\ r.event_id \in Events /\ r.sequence \in Nat
        /\ r.data \in Data /\ r.prev_hash \in Digest
    BY <1>1 DEF Row
  <1>3. recompute_hash(r)[Len(recompute_hash(r))].data = r.data
    BY <1>2, DigestCovers DEF recompute_hash
  <1>4. r.hash[Len(r.hash)].data = Written BY <1>1 DEF Committed
  <1>5. Edited # Written BY DataAssumption
  <1> QED BY <1>3, <1>4, <1>5 DEF RowVerifies

LEMMA GreatestIn ==
  ASSUME NEW n \in Nat, NEW S \in SUBSET (1 .. n), S # {}
  PROVE  Greatest(S) \in S /\ \A j \in S : j <= Greatest(S)
  <1> DEFINE T == {n - x : x \in S}
             R == OpToRel(<, Nat)
  <1>1. PICK x0 \in S : TRUE OBVIOUS
  <1>2. T \in SUBSET Nat /\ T # {}
    <2>1. n - x0 \in T BY <1>1
    <2> QED BY <2>1
  <1>3. \A j \in S : n - j \in T OBVIOUS
  <1>4. \A m \in T : \E i \in S : m = n - i OBVIOUS
  <1>5. IsWellFoundedOn(R, Nat) BY NatLessThanWellFounded
  <1>6. \A x, y \in Nat : <<x, y>> \in R <=> x < y BY DEF OpToRel
  <1> HIDE DEF T, R
  <1>7. PICK m \in T : \A y \in T : ~(<<y, m>> \in R) BY <1>2, <1>5, WFMin
  <1>8. PICK i \in S : m = n - i BY <1>4
  <1>9. ASSUME NEW j \in S PROVE j <= i
    <2>1. n - j \in T /\ n - j \in Nat /\ m \in Nat BY <1>2, <1>3
    <2>2. ~(n - j < m) BY <1>6, <1>7, <2>1
    <2> QED BY <1>8, <2>2
  <1> QED BY <1>9 DEF Greatest

LEMMA HashedIn ==
  ASSUME NEW rows \in Seq(Row)
  PROVE  /\ Len(rows) \in Nat /\ DOMAIN rows = 1 .. Len(rows)
         /\ Hashed(rows) \in SUBSET (1 .. Len(rows))
  BY DEF Hashed

(* Rows that all come before the head do not verify. *)
LEMMA LossShows ==
  ASSUME NEW rows \in Seq(Row), NEW head \in Head_, head # NoHead,
         \A i \in DOMAIN rows : rows[i].sequence < head.last_sequence
  PROVE  verify_chain(rows, head) # "ok"
  <1> DEFINE hashed == Hashed(rows)
             last == rows[Greatest(hashed)]
  <1>1. CASE hashed = {} BY <1>1 DEF verify_chain
  <1>2. CASE hashed # {}
    <2>1. Greatest(hashed) \in DOMAIN rows BY <1>2, HashedIn, GreatestIn
    <2>2. last.sequence < head.last_sequence BY <2>1
    <2>3. last.sequence \in Nat /\ head.last_sequence \in Nat
      <3>1. last \in Row BY <2>1
      <3> HIDE DEF last
      <3> QED BY <3>1 DEF Row, Head_
    <2>4. last.sequence # head.last_sequence BY <2>2, <2>3
    <2> QED BY <2>4 DEF verify_chain
  <1> QED BY <1>1, <1>2

LEMMA CondemnedFails ==
  ASSUME TypeOK, NEW k \in Scan, Condemned(k), k.stream \in Suspects(k)
  PROVE  verify_chain(k.rows, heads[k.stream]) # "ok"
  <1>1. k.rows \in Seq(Row) /\ k.stream \in Streams /\ heads[k.stream] \in Head_
    BY DEF Scan, TypeOK
  <1>2. CASE k.stream \in k.lost BY <1>1, <1>2, LossShows DEF Condemned
  <1>3. CASE k.stream \in k.edited BY <1>3 DEF Condemned, verify_chain
  <1> QED BY <1>2, <1>3 DEF Suspects

------------------------------------------------------------------------------
(* Steps of append. *)

(* An action that gives one process's connection the record c and leaves the *)
(* tables alone keeps the single writer and the staged rows.                 *)
LEMMA StagedAfter ==
  ASSUME AlarmInv, NEW p \in Procs, NEW c \in Conn,
         conn' = [conn EXCEPT ![p] = c], events' = events,
         c.pc \in {"begun", "inserted", "headed", "left_open"} => Holding(p) \/ ~WriteLocked,
         StagedOn(c)
  PROVE  OneWriter' /\ Staged'
  <1>1. conn'[p] = c /\ \A q \in Procs : q # p => conn'[q] = conn[q]
    BY DEF AlarmInv, TypeOK
  <1>2. OneWriter /\ Staged BY DEF AlarmInv
  <1>3. OneWriter' BY <1>1, <1>2 DEF OneWriter, Holding, WriteLocked, Conn
  <1>4. ASSUME NEW q \in Procs PROVE StagedOn(conn[q])'
    <2>1. CASE q = p BY <2>1, <1>1 DEF StagedOn
    <2>2. CASE q # p BY <2>2, <1>1, <1>2 DEF StagedOn, Staged
    <2> QED BY <2>1, <2>2
  <1> QED BY <1>3, <1>4 DEF Staged

LEMMA AppendStaged ==
  ASSUME AlarmInv, NEW p \in Procs,
         \/ \E s \in Streams, e \in Events : Begin(p, s, e)
         \/ \E e \in Events : BeginFails(p, e)
         \/ InsertRow(p) \/ InsertRefused(p) \/ UpsertHead(p) \/ Return(p)
         \/ StepFails(p) \/ CommitFails(p) \/ Crash(p)
  PROVE  OneWriter' /\ Staged'
  <1>1. /\ TypeOK /\ conn \in [Procs -> Conn] /\ conn[p] \in Conn
        /\ conn[p].row \in Row /\ conn[p].stream \in Streams
        /\ StagedOn(conn[p]) /\ OneWriter /\ Staged /\ Numbered
    BY ConnFields DEF AlarmInv, TypeOK, Staged
  <1>2. StagedOn(Idle) BY IdleType DEF StagedOn
  <1>3. ASSUME events' = events, conn' = [conn EXCEPT ![p] = Idle]
        PROVE  OneWriter' /\ Staged'
    BY <1>2, <1>3, IdleType, StagedAfter
  <1>4. ASSUME NEW s \in Streams, NEW e \in Events, Begin(p, s, e)
        PROVE  OneWriter' /\ Staged'
    <2> DEFINE c == [pc |-> "begun", stream |-> s, row |-> [BlankRow EXCEPT !.event_id = e]]
    <2>1. [BlankRow EXCEPT !.event_id = e] \in Row BY BlankRowType DEF Row
    <2>2. c \in Conn /\ c.pc = "begun" BY <2>1 DEF Conn
    <2>3. conn' = [conn EXCEPT ![p] = c] /\ events' = events /\ ~WriteLocked
      BY <1>4 DEF Begin
    <2> HIDE DEF c
    <2>4. StagedOn(c) BY <2>2 DEF StagedOn
    <2> QED BY <2>2, <2>3, <2>4, StagedAfter
  <1>5. ASSUME NEW e \in Events, BeginFails(p, e) PROVE OneWriter' /\ Staged'
    <2>1. UNCHANGED <<events, conn>> BY <1>5 DEF BeginFails
    <2> QED BY <1>1, <2>1 DEF OneWriter, Holding, Staged, StagedOn
  <1>6. ASSUME InsertRow(p) PROVE OneWriter' /\ Staged'
    <2>1. PICK r \in Row :
            /\ conn' = [conn EXCEPT ![p].pc = "inserted", ![p].row = r]
            /\ r.sequence = next_seq(conn[p].stream)
            /\ r.data = Written
            /\ r.hash = compute_hash_v2(r.event_id, r.sequence, r.data, r.prev_hash)
      BY <1>1, <1>6, StagedRow
    <2> DEFINE c == [conn[p] EXCEPT !.pc = "inserted", !.row = r]
    <2>2. c \in Conn /\ c.row = r /\ c.stream = conn[p].stream BY <1>1 DEF Conn
    <2>3. conn' = [conn EXCEPT ![p] = c] BY <1>1, <2>1
    <2>4. events' = events /\ Holding(p) BY <1>6 DEF InsertRow, Holding
    <2>5. /\ r.event_id \in Events /\ r.sequence \in Nat
          /\ r.data \in Data /\ r.prev_hash \in Digest
      BY DEF Row
    <2>6. r.hash # NoHash BY <2>1, <2>5, DigestType
    <2>7. r.hash[Len(r.hash)].data = Written BY <2>1, <2>5, DigestCovers
    <2>8. r.sequence = Len(events[conn[p].stream]) + 1 BY <1>1, <2>1, NextSeqIs
    <2> HIDE DEF c
    <2>9. StagedOn(c) BY <2>2, <2>6, <2>7, <2>8 DEF StagedOn, Committed
    <2> QED BY <2>2, <2>3, <2>4, <2>9, StagedAfter
  <1>7. ASSUME UpsertHead(p) PROVE OneWriter' /\ Staged'
    <2> DEFINE c == [conn[p] EXCEPT !.pc = "headed"]
    <2>1. c \in Conn /\ c.row = conn[p].row /\ c.stream = conn[p].stream BY <1>1 DEF Conn
    <2>2. conn' = [conn EXCEPT ![p] = c] /\ events' = events /\ Holding(p)
      BY <1>1, <1>7 DEF UpsertHead, Holding
    <2>3. conn[p].pc = "inserted" BY <1>7 DEF UpsertHead
    <2> HIDE DEF c
    <2>4. StagedOn(c) BY <1>1, <2>1, <2>3 DEF StagedOn
    <2> QED BY <2>1, <2>2, <2>4, StagedAfter
  <1>8. ASSUME CommitFails(p) PROVE OneWriter' /\ Staged'
    <2>1. events' = events /\ Holding(p) BY <1>8 DEF CommitFails, Holding
    <2>2. CASE conn' = [conn EXCEPT ![p] = Idle] BY <1>3, <2>1, <2>2
    <2>3. CASE conn' = [conn EXCEPT ![p].pc = "left_open"]
      <3> DEFINE c == [conn[p] EXCEPT !.pc = "left_open"]
      <3>1. c \in Conn /\ c.pc = "left_open" BY <1>1 DEF Conn
      <3>2. conn' = [conn EXCEPT ![p] = c] BY <1>1, <2>3
      <3> HIDE DEF c
      <3>3. StagedOn(c) BY <3>1 DEF StagedOn
      <3> QED BY <2>1, <3>1, <3>2, <3>3, StagedAfter
    <2> QED BY <1>8, <2>2, <2>3 DEF CommitFails
  <1>9. ASSUME Return(p) \/ InsertRefused(p) \/ StepFails(p) \/ Crash(p) PROVE OneWriter' /\ Staged'
    BY <1>3, <1>9 DEF Return, InsertRefused, StepFails, Crash
  <1> QED BY <1>4, <1>5, <1>6, <1>7, <1>8, <1>9

(* The row a commit adds carries the next number and a hash of what was *)
(* written, and the head it writes is level with it.                    *)
LEMMA CommitAlarm ==
  ASSUME AlarmInv, NEW p \in Procs, Commit(p)
  PROVE  /\ OneWriter' /\ Staged' /\ Numbered' /\ HeadsAhead'
         /\ EditedStreams \subseteq EditedStreams'
  <1> DEFINE s == conn[p].stream
             r == conn[p].row
             n == Len(events[s])
  <1>1. /\ s \in Streams /\ r \in Row /\ conn \in [Procs -> Conn]
        /\ events \in [Streams -> Seq(Row)] /\ heads \in [Streams -> Head_]
    BY ConnFields DEF AlarmInv, TypeOK
  <1>2. r.sequence = n + 1 /\ r.hash # NoHash /\ Committed(r) /\ Holding(p)
    BY DEF AlarmInv, Staged, StagedOn, Commit, Holding
  <1>3. /\ events' = [events EXCEPT ![s] = Append(events[s], r)]
        /\ heads' = [heads EXCEPT ![s] = [last_sequence |-> r.sequence, last_hash |-> r.hash]]
        /\ conn' = [conn EXCEPT ![p].pc = "committed"]
        /\ damage'.lost = damage.lost \ {s}
    BY DEF Commit, NoteAppend, AlarmInv, TypeOK
  <1>4. OneWriter /\ Staged /\ Numbered /\ HeadsAhead BY DEF AlarmInv
  <1>5. conn'[p].pc = "committed" /\ \A q \in Procs : q # p => conn'[q] = conn[q]
    BY <1>1, <1>3 DEF Conn
  <1>6. \A q \in Procs : q # p => conn[q].pc \notin {"inserted", "headed"}
    BY <1>2, <1>4 DEF OneWriter, Holding
  <1>7. OneWriter' BY <1>4, <1>5 DEF OneWriter, Holding
  <1>8. Staged' BY <1>5, <1>6 DEF Staged, StagedOn
  <1> HIDE DEF s, r, n
  <1>9. /\ n \in Nat /\ DOMAIN events[s] = 1 .. n
        /\ DOMAIN events'[s] = 1 .. n + 1 /\ Len(events'[s]) = n + 1
        /\ events'[s][n + 1] = r
        /\ \A i \in 1 .. n : events'[s][i] = events[s][i]
    BY <1>1, <1>3, AppendProperties DEF n
  <1>10. \A t \in Streams : t # s => events'[t] = events[t] /\ heads'[t] = heads[t]
    BY <1>1, <1>3
  <1>11. Numbered'
    <2> SUFFICES ASSUME NEW t \in Streams, NEW i \in DOMAIN events'[t]
                 PROVE  events'[t][i].sequence = i /\ Committed(events'[t][i])
      BY DEF Numbered, Committed
    <2>1. CASE t = s /\ i = n + 1 BY <2>1, <1>2, <1>9
    <2>2. CASE ~(t = s /\ i = n + 1)
      <3>1. i \in DOMAIN events[t] /\ events'[t][i] = events[t][i] BY <2>2, <1>9, <1>10
      <3> QED BY <3>1, <1>4 DEF Numbered
    <2> QED BY <2>1, <2>2
  <1>12. HeadsAhead'
    <2> SUFFICES ASSUME NEW t \in Streams
                 PROVE  /\ heads'[t] # NoHead => Len(events'[t]) <= heads'[t].last_sequence
                        /\ t \in damage'.lost =>
                             heads'[t] # NoHead /\ Len(events'[t]) < heads'[t].last_sequence
      BY DEF HeadsAhead
    <2>1. CASE t = s
      <3>1. heads'[s].last_sequence = n + 1 BY <1>1, <1>2, <1>3
      <3> QED BY <2>1, <3>1, <1>3, <1>9
    <2>2. CASE t # s BY <2>2, <1>3, <1>4, <1>10 DEF HeadsAhead
    <2> QED BY <2>1, <2>2
  <1>13. ASSUME NEW t \in EditedStreams PROVE t \in EditedStreams'
    <2>1. t \in Streams BY <1>13 DEF EditedStreams
    <2>2. PICK i \in Hashed(events[t]) : events[t][i].data = Edited
      BY <1>13 DEF EditedStreams
    <2>3. i \in DOMAIN events'[t] /\ events'[t][i] = events[t][i]
      BY <2>1, <2>2, <1>9, <1>10 DEF Hashed
    <2>4. i \in Hashed(events'[t]) BY <2>2, <2>3 DEF Hashed
    <2> QED BY <2>1, <2>2, <2>3, <2>4 DEF EditedStreams
  <1> QED BY <1>7, <1>8, <1>11, <1>12, <1>13

------------------------------------------------------------------------------
(* Steps of verify. *)

(* Whatever else happens, a scan stands still and its suspects only become *)
(* fewer; a head it may hold against a stream is the one it knows.         *)
LEMMA ScanShrinks ==
  ASSUME NEW q \in Procs, ScanInv(scan[q]),
         scan'[q].phase = scan[q].phase, scan'[q].todo = scan[q].todo,
         scan'[q].stream = scan[q].stream, scan'[q].rows = scan[q].rows,
         scan'[q].all_ok = scan[q].all_ok,
         scan'[q].lost \subseteq scan[q].lost \cap damage'.lost,
         scan'[q].edited \subseteq scan[q].edited \cap EditedStreams',
         scan[q].stream \in scan'[q].lost => heads'[scan[q].stream] = heads[scan[q].stream]
  PROVE  ScanInv(scan[q])'
  <1>1. scan[q].phase = "walk" => Condemned(scan[q])'
    BY DEF ScanInv, Condemned
  <1> QED BY <1>1 DEF ScanInv, Suspects

LEMMA ScansUntouched ==
  ASSUME Scans, UNCHANGED <<events, heads, scan, damage>>
  PROVE  Scans'
  BY DEF Scans, ScanInv, Condemned, EditedStreams, Suspects

LEMMA NoScanInv == ScanInv(NoScan)
  BY DEF ScanInv, NoScan

LEMMA VerifyScans ==
  ASSUME AlarmInv, NEW p \in Procs, VerifyStep(p)
  PROVE  Scans'
  <1> DEFINE k == scan[p]
  <1>1. /\ TypeOK /\ scan \in [Procs -> Scan] /\ k \in Scan /\ ScanInv(k) /\ Scans
        /\ Numbered /\ HeadsAhead
        /\ events \in [Streams -> Seq(Row)] /\ damage.lost \subseteq Streams
    BY DEF AlarmInv, TypeOK, Scans
  <1>2. UNCHANGED <<events, heads, damage>> BY VerifyOnlyReads
  <1>3. EditedStreams' = EditedStreams BY <1>2 DEF EditedStreams
  <1>4. ASSUME NEW new \in Scan, scan' = [scan EXCEPT ![p] = new], ScanInv(new)
        PROVE  Scans'
    <2>1. scan'[p] = new /\ \A q \in Procs : q # p => scan'[q] = scan[q] BY <1>1, <1>4
    <2>2. ASSUME NEW q \in Procs PROVE ScanInv(scan[q])'
      <3>1. CASE q = p BY <3>1, <2>1, <1>2, <1>3, <1>4 DEF ScanInv, Condemned
      <3>2. CASE q # p
        <4>1. ScanInv(scan[q]) BY <1>1 DEF Scans
        <4> QED BY <4>1, <3>2, <2>1, <1>2, <1>3 DEF ScanInv, Condemned
      <3> QED BY <3>1, <3>2
    <2> QED BY <2>2 DEF Scans
  <1> HIDE DEF k
  <1>5. CASE ListStreams(p)
    <2> DEFINE new == [NoScan EXCEPT !.phase = "listed",
                                     !.todo = {s \in Streams : events[s] # << >>},
                                     !.lost = damage.lost,
                                     !.edited = EditedStreams]
    <2>1. EditedStreams \subseteq {s \in Streams : events[s] # << >>}
      BY <1>1 DEF EditedStreams, Hashed
    <2>2. scan' = [scan EXCEPT ![p] = new] BY <1>5 DEF ListStreams
    <2>3. /\ new.phase = "listed" /\ new.todo = {s \in Streams : events[s] # << >>}
          /\ new.lost = damage.lost /\ new.edited = EditedStreams
      BY DEF NoScan
    <2>4. new \in Scan
      <3>1. EditedStreams \subseteq Streams BY DEF EditedStreams
      <3>2. {s \in Streams : events[s] # << >>} \subseteq Streams OBVIOUS
      <3> QED BY <3>1, <3>2, <1>1, NoScanType DEF Scan
    <2> HIDE DEF new
    <2>5. ScanInv(new) BY <2>1, <2>3 DEF ScanInv
    <2> QED BY <2>2, <2>4, <2>5, <1>4
  <1>6. CASE ListHeads(p)
    <2> DEFINE headed == {s \in Streams : heads[s] # NoHead}
               new == [k EXCEPT !.phase = "next", !.todo = k.todo \cup headed]
    <2>1. scan' = [scan EXCEPT ![p] = new] /\ k.phase = "listed"
      BY <1>1, <1>6 DEF ListHeads, k
    <2>2. damage.lost \subseteq headed BY <1>1 DEF HeadsAhead
    <2> HIDE DEF headed
    <2>3. headed \subseteq Streams BY DEF headed
    <2>4. /\ new \in Scan /\ new.phase = "next" /\ new.todo = k.todo \cup headed
          /\ new.lost = k.lost /\ new.edited = k.edited
      BY <1>1, <2>3 DEF Scan
    <2> HIDE DEF new
    <2>5. ScanInv(new) BY <1>1, <2>1, <2>2, <2>4 DEF ScanInv, Suspects
    <2> QED BY <2>1, <2>4, <2>5, <1>4
  <1>7. CASE WalkRows(p)
    <2>1. PICK s \in k.todo :
            scan' = [scan EXCEPT ![p].phase = "walk", ![p].stream = s, ![p].rows = events[s],
                                 ![p].todo = @ \ {s}]
      BY <1>7 DEF WalkRows, k
    <2> DEFINE new == [k EXCEPT !.phase = "walk", !.stream = s, !.rows = events[s],
                                !.todo = k.todo \ {s}]
    <2>2. s \in Streams /\ events[s] \in Seq(Row) /\ k.phase = "next"
      BY <1>1, <1>7 DEF Scan, WalkRows, k
    <2>3. scan' = [scan EXCEPT ![p] = new] BY <1>1, <2>1 DEF k
    <2>4. /\ new \in Scan /\ new.phase = "walk" /\ new.stream = s /\ new.rows = events[s]
          /\ new.todo = k.todo \ {s} /\ new.lost = k.lost /\ new.edited = k.edited
          /\ new.all_ok = k.all_ok
      BY <1>1, <2>2 DEF Scan
    <2> HIDE DEF new
    <2>5. ASSUME s \in k.lost
          PROVE  heads[s] # NoHead
                 /\ \A i \in DOMAIN events[s] : events[s][i].sequence < heads[s].last_sequence
      <3>1. s \in damage.lost BY <1>1, <2>5 DEF ScanInv
      <3>2. heads[s] # NoHead /\ Len(events[s]) < heads[s].last_sequence
        BY <1>1, <2>2, <3>1 DEF HeadsAhead
      <3>3. heads[s].last_sequence \in Nat BY <1>1, <2>2 DEF TypeOK, Head_
      <3>4. \A i \in DOMAIN events[s] : events[s][i].sequence = i /\ i \in 1 .. Len(events[s])
        BY <1>1, <2>2 DEF Numbered
      <3> QED BY <2>2, <3>2, <3>3, <3>4
    <2>6. ASSUME s \in k.edited PROVE \E i \in Hashed(events[s]) : ~RowVerifies(events[s], i)
      <3>1. s \in EditedStreams BY <1>1, <2>6 DEF ScanInv
      <3>2. PICK i \in Hashed(events[s]) : events[s][i].data = Edited
        BY <3>1 DEF EditedStreams
      <3>3. Committed(events[s][i]) BY <1>1, <2>2, <3>2 DEF Numbered, Hashed
      <3> QED BY <2>2, <3>2, <3>3, EditShows
    <2>7. Condemned(new) BY <2>4, <2>5, <2>6 DEF Condemned
    <2>8. ScanInv(new) BY <1>1, <2>2, <2>4, <2>7 DEF ScanInv, Suspects
    <2> QED BY <2>3, <2>4, <2>8, <1>4
  <1>8. CASE CheckHead(p)
    <2> DEFINE ok == k.all_ok /\ verify_chain(k.rows, heads[k.stream]) = "ok"
               new == [k EXCEPT !.phase = "next", !.rows = << >>, !.all_ok = ok]
    <2>1. scan' = [scan EXCEPT ![p] = new] /\ k.phase = "walk"
      BY <1>1, <1>8 DEF CheckHead, k
    <2>2. ok \in BOOLEAN /\ << >> \in Seq(Row) OBVIOUS
    <2>3. ok => k.all_ok /\ k.stream \notin Suspects(k)
      BY <1>1, <2>1, CondemnedFails DEF ScanInv
    <2> HIDE DEF ok
    <2>4. /\ new \in Scan /\ new.phase = "next" /\ new.all_ok = ok
          /\ new.todo = k.todo /\ new.lost = k.lost /\ new.edited = k.edited
      BY <1>1, <2>2 DEF Scan
    <2> HIDE DEF new
    <2>5. ScanInv(new) BY <1>1, <2>1, <2>3, <2>4 DEF ScanInv, Suspects
    <2> QED BY <2>1, <2>4, <2>5, <1>4
  <1>9. CASE FinishVerify(p)
    <2> DEFINE new == [k EXCEPT !.phase = "done", !.stream = AnyStream]
    <2>1. /\ scan' = [scan EXCEPT ![p] = new]
          /\ k.phase = "next" /\ k.todo = {}
      BY <1>1, <1>9 DEF FinishVerify, k
    <2>2. /\ new \in Scan /\ new.phase = "done" /\ new.all_ok = k.all_ok
          /\ new.lost = k.lost /\ new.edited = k.edited
      BY <1>1, BlankRowType DEF Scan
    <2> HIDE DEF new
    <2>3. ScanInv(new) BY <1>1, <2>1, <2>2 DEF ScanInv, Suspects
    <2> QED BY <2>1, <2>2, <2>3, <1>4
  <1>10. CASE ExitVerify(p)
    BY <1>4, <1>10, NoScanType, NoScanInv DEF ExitVerify
  <1> QED BY <1>5, <1>6, <1>7, <1>8, <1>9, <1>10 DEF VerifyStep

------------------------------------------------------------------------------
(* Losses and edits. *)

LEMMA LossIs ==
  ASSUME TypeOK, NEW s \in Streams, NEW n \in DOMAIN events[s], LoseRows(s, n)
  PROVE  /\ n - 1 \in Nat /\ n - 1 < Len(events[s])
         /\ events'[s] \in Seq(Row) /\ Len(events'[s]) = n - 1
         /\ \A i \in DOMAIN events'[s] : i \in DOMAIN events[s] /\ events'[s][i] = events[s][i]
         /\ events' \in [Streams -> Seq(Row)]
         /\ \A t \in Streams : t # s => events'[t] = events[t]
  <1>1. events[s] \in Seq(Row) /\ events \in [Streams -> Seq(Row)] BY DEF TypeOK
  <1>2. n \in 1 .. Len(events[s]) /\ n - 1 \in Nat /\ n - 1 < Len(events[s]) BY <1>1
  <1> DEFINE left == SubSeq(events[s], 1, n - 1)
  <1>3. events' = [events EXCEPT ![s] = left] BY DEF LoseRows
  <1>4. /\ left \in Seq(Row) /\ Len(left) = n - 1
        /\ \A i \in 1 .. n - 1 : left[i] = events[s][i]
    BY <1>1, <1>2
  <1> HIDE DEF left
  <1>5. \A i \in DOMAIN left : i \in DOMAIN events[s] /\ left[i] = events[s][i]
    BY <1>1, <1>2, <1>4
  <1> QED BY <1>1, <1>2, <1>3, <1>4, <1>5

LEMMA EditIs ==
  ASSUME TypeOK, NEW s \in Streams, NEW n \in DOMAIN events[s], EditRow(s, n)
  PROVE  /\ events' \in [Streams -> Seq(Row)]
         /\ \A t \in Streams :
              /\ Len(events'[t]) = Len(events[t]) /\ DOMAIN events'[t] = DOMAIN events[t]
              /\ \A i \in DOMAIN events[t] :
                   /\ events'[t][i].sequence = events[t][i].sequence
                   /\ events'[t][i].hash = events[t][i].hash
                   /\ events[t][i].data = Edited => events'[t][i].data = Edited
  <1>1. events[s] \in Seq(Row) /\ events[s][n] \in Row /\ n \in 1 .. Len(events[s])
        /\ events \in [Streams -> Seq(Row)]
    BY DEF TypeOK
  <1> DEFINE row == [events[s][n] EXCEPT !.data = Edited]
             rows == [events[s] EXCEPT ![n] = row]
  <1>2. /\ row \in Row /\ row.sequence = events[s][n].sequence
        /\ row.hash = events[s][n].hash /\ row.data = Edited
    BY <1>1, DataAssumption DEF Row
  <1>3. events' = [events EXCEPT ![s] = rows] BY <1>1 DEF EditRow
  <1> HIDE DEF row
  <1>4. /\ rows \in Seq(Row) /\ Len(rows) = Len(events[s]) /\ DOMAIN rows = DOMAIN events[s]
        /\ rows[n] = row /\ \A i \in DOMAIN events[s] : i # n => rows[i] = events[s][i]
    BY <1>1, <1>2
  <1> HIDE DEF rows
  <1>5. events' \in [Streams -> Seq(Row)] /\ events'[s] = rows
        /\ \A t \in Streams : t # s => events'[t] = events[t]
    BY <1>1, <1>3, <1>4
  <1>6. \A i \in DOMAIN events[s] :
           /\ rows[i].sequence = events[s][i].sequence
           /\ rows[i].hash = events[s][i].hash
           /\ events[s][i].data = Edited => rows[i].data = Edited
    BY <1>2, <1>4
  <1> QED BY <1>4, <1>5, <1>6

LEMMA DamageType ==
  ASSUME TypeOK, Damage
  PROVE  TypeOK'
  <1>1. ASSUME NEW s \in Streams, NEW n \in DOMAIN events[s], LoseRows(s, n) PROVE TypeOK'
    <2>1. events' \in [Streams -> Seq(Row)] BY <1>1, LossIs
    <2>2. damage' \in [count : Nat, lost : SUBSET Streams]
      <3> DEFINE gone == IF heads[s] # NoHead THEN damage.lost \cup {s} ELSE damage.lost
      <3>1. damage' = [damage EXCEPT !.count = damage.count + 1, !.lost = gone]
        BY <1>1 DEF LoseRows
      <3>2. gone \in SUBSET Streams /\ damage.count + 1 \in Nat BY DEF TypeOK
      <3> HIDE DEF gone
      <3> QED BY <3>1, <3>2 DEF TypeOK
    <2>3. ASSUME NEW q \in Procs PROVE [scan[q] EXCEPT !.edited = @ \ {s}] \in Scan
      <3>1. scan[q] \in Scan BY DEF TypeOK
      <3> QED BY <3>1 DEF Scan
    <2>4. scan' \in [Procs -> Scan] BY <1>1, <2>3 DEF LoseRows
    <2> QED BY <1>1, <2>1, <2>2, <2>4 DEF LoseRows, TypeOK
  <1>2. ASSUME NEW s \in Streams, NEW n \in DOMAIN events[s], EditRow(s, n) PROVE TypeOK'
    <2>1. events' \in [Streams -> Seq(Row)] BY <1>2, EditIs
    <2>2. damage' \in [count : Nat, lost : SUBSET Streams]
      <3>1. damage' = [damage EXCEPT !.count = damage.count + 1] BY <1>2 DEF EditRow
      <3>2. damage.count + 1 \in Nat BY DEF TypeOK
      <3> QED BY <3>1, <3>2 DEF TypeOK
    <2> QED BY <1>2, <2>1, <2>2 DEF EditRow, TypeOK
  <1> QED BY <1>1, <1>2 DEF Damage

(* Nothing is staged while rows are touched: the writer would hold the lock. *)
LEMMA DamageStaged ==
  ASSUME OneWriter, ~WriteLocked, conn' = conn
  PROVE  OneWriter' /\ Staged'
  BY DEF OneWriter, WriteLocked, Holding, Staged, StagedOn

LEMMA LossAlarm ==
  ASSUME AlarmInv, NEW s \in Streams, NEW n \in DOMAIN events[s], LoseRows(s, n)
  PROVE  OneWriter' /\ Staged' /\ Numbered' /\ HeadsAhead' /\ Scans'
  <1>1. TypeOK /\ OneWriter /\ Numbered /\ HeadsAhead /\ Scans BY DEF AlarmInv
  <1>2. OneWriter' /\ Staged'
    <2>1. conn' = conn /\ ~WriteLocked BY DEF LoseRows, CanDamage
    <2> QED BY <1>1, <2>1, DamageStaged
  <1>3. /\ n - 1 \in Nat /\ n - 1 < Len(events[s]) /\ Len(events'[s]) = n - 1
        /\ \A i \in DOMAIN events'[s] : i \in DOMAIN events[s] /\ events'[s][i] = events[s][i]
        /\ \A t \in Streams : t # s => events'[t] = events[t]
    BY <1>1, LossIs
  <1>4. Numbered' BY <1>1, <1>3 DEF Numbered, Committed
  <1>5. heads' = heads /\ damage'.lost = IF heads[s] # NoHead THEN damage.lost \cup {s}
                                         ELSE damage.lost
    BY DEF LoseRows, AlarmInv, TypeOK
  <1>6. HeadsAhead'
    <2> SUFFICES ASSUME NEW t \in Streams
                 PROVE  /\ heads[t] # NoHead => Len(events'[t]) <= heads[t].last_sequence
                        /\ t \in damage'.lost =>
                             heads[t] # NoHead /\ Len(events'[t]) < heads[t].last_sequence
      BY <1>5 DEF HeadsAhead
    <2>1. CASE t = s
      <3>1. heads[s] # NoHead => Len(events[s]) <= heads[s].last_sequence
        BY <1>1 DEF HeadsAhead
      <3>2. heads[s].last_sequence \in Nat /\ Len(events[s]) \in Nat
        BY <1>1 DEF TypeOK, Head_
      <3>3. heads[s] = NoHead => s \notin damage.lost BY <1>1 DEF HeadsAhead
      <3> QED BY <2>1, <3>1, <3>2, <3>3, <1>3, <1>5
    <2>2. CASE t # s BY <2>2, <1>1, <1>3, <1>5 DEF HeadsAhead
    <2> QED BY <2>1, <2>2
  <1>7. ASSUME NEW q \in Procs PROVE ScanInv(scan[q])'
    <2>1. scan[q] \in Scan /\ ScanInv(scan[q]) BY <1>1 DEF TypeOK, Scans
    <2>2. scan'[q] = [scan[q] EXCEPT !.edited = @ \ {s}] BY DEF LoseRows
    <2>3. /\ scan'[q].phase = scan[q].phase /\ scan'[q].todo = scan[q].todo
          /\ scan'[q].stream = scan[q].stream /\ scan'[q].rows = scan[q].rows
          /\ scan'[q].all_ok = scan[q].all_ok /\ scan'[q].lost = scan[q].lost
          /\ scan'[q].edited = scan[q].edited \ {s}
      BY <2>1, <2>2 DEF Scan
    <2>4. scan[q].lost \subseteq damage.lost /\ scan[q].edited \subseteq EditedStreams
      BY <2>1 DEF ScanInv
    <2>5. EditedStreams \ {s} \subseteq EditedStreams' BY <1>3 DEF EditedStreams
    <2> QED BY <2>1, <2>3, <2>4, <2>5, <1>5, ScanShrinks
  <1> QED BY <1>2, <1>4, <1>6, <1>7 DEF Scans

LEMMA EditAlarm ==
  ASSUME AlarmInv, NEW s \in Streams, NEW n \in DOMAIN events[s], EditRow(s, n)
  PROVE  OneWriter' /\ Staged' /\ Numbered' /\ HeadsAhead' /\ Scans'
  <1>1. TypeOK /\ OneWriter /\ Numbered /\ HeadsAhead /\ Scans BY DEF AlarmInv
  <1>2. OneWriter' /\ Staged'
    <2>1. conn' = conn /\ ~WriteLocked BY DEF EditRow, CanDamage
    <2> QED BY <1>1, <2>1, DamageStaged
  <1>3. \A t \in Streams :
           /\ Len(events'[t]) = Len(events[t]) /\ DOMAIN events'[t] = DOMAIN events[t]
           /\ \A i \in DOMAIN events[t] :
                /\ events'[t][i].sequence = events[t][i].sequence
                /\ events'[t][i].hash = events[t][i].hash
                /\ events[t][i].data = Edited => events'[t][i].data = Edited
    BY <1>1, EditIs
  <1>4. Numbered' BY <1>1, <1>3 DEF Numbered, Committed
  <1>5. heads' = heads /\ scan' = scan /\ damage'.lost = damage.lost
    BY DEF EditRow, AlarmInv, TypeOK
  <1>6. HeadsAhead' BY <1>1, <1>3, <1>5 DEF HeadsAhead
  <1>7. ASSUME NEW t \in EditedStreams PROVE t \in EditedStreams'
    <2>1. PICK i \in Hashed(events[t]) : t \in Streams /\ events[t][i].data = Edited
      BY <1>7 DEF EditedStreams
    <2>2. i \in Hashed(events'[t]) /\ events'[t][i].data = Edited BY <1>3, <2>1 DEF Hashed
    <2> QED BY <2>1, <2>2 DEF EditedStreams
  <1>8. ASSUME NEW q \in Procs PROVE ScanInv(scan[q])'
    <2>1. ScanInv(scan[q]) BY <1>1 DEF Scans
    <2>2. scan[q].lost \subseteq damage.lost /\ scan[q].edited \subseteq EditedStreams
      BY <2>1 DEF ScanInv
    <2> QED BY <1>5, <1>7, <2>1, <2>2, ScanShrinks
  <1> QED BY <1>2, <1>4, <1>6, <1>8 DEF Scans

------------------------------------------------------------------------------
(* Damage is reported. *)

LEMMA InitAlarm == Init => AlarmInv
  <1> SUFFICES ASSUME Init PROVE AlarmInv OBVIOUS
  <1>1. TypeOK BY InitTyped
  <1>2. PICK st \in OldStores : events = st.rows BY DEF Init
  <1>3. OldStoreOK(st) BY OldStoresAssumption
  <1>4. /\ heads = [s \in Streams |-> NoHead] /\ damage.lost = {}
        /\ \A p \in Procs : conn[p].pc = "idle" /\ scan[p] = NoScan
    BY IdleType DEF Init
  <1>5. Numbered
    <2> SUFFICES ASSUME NEW s \in Streams, NEW i \in DOMAIN events[s]
                 PROVE  events[s][i].sequence = i /\ Committed(events[s][i])
      BY DEF Numbered
    <2>1. OldRow(events[s], i) BY <1>2, <1>3 DEF OldStoreOK
    <2>2. events[s][i] \in Row BY <1>1 DEF TypeOK
    <2> DEFINE r == events[s][i]
    <2>3. /\ r.sequence = i
          /\ r.hash = NoHash \/ r.hash = compute_hash_v1(r.event_id, Written, r.prev_hash)
      BY <2>1 DEF OldRow
    <2> HIDE DEF r
    <2>4. r.event_id \in Events /\ r.prev_hash \in Digest BY <2>2 DEF Row, r
    <2> DEFINE h == compute_hash_v1(r.event_id, Written, r.prev_hash)
    <2>5. h[Len(h)].data = Written
      <3>1. Written \in Data /\ 0 \in Nat BY DataAssumption
      <3> QED BY <2>4, <3>1, DigestCovers
    <2> HIDE DEF h
    <2>6. Committed(r)
      <3>1. r.hash = NoHash \/ r.hash = h BY <2>3 DEF h
      <3> QED BY <2>5, <3>1 DEF Committed
    <2> QED BY <2>3, <2>6 DEF r
  <1>6. OneWriter /\ Staged BY <1>4 DEF OneWriter, Holding, Staged, StagedOn
  <1>7. HeadsAhead BY <1>4 DEF HeadsAhead
  <1>8. Scans
    <2>1. \A p \in Procs : ScanInv(scan[p]) BY <1>4, NoScanInv
    <2> QED BY <2>1 DEF Scans
  <1> QED BY <1>1, <1>5, <1>6, <1>7, <1>8 DEF AlarmInv

LEMMA CrashScans ==
  ASSUME AlarmInv, NEW p \in Procs, Crash(p)
  PROVE  Scans'
  <1>1. scan \in [Procs -> Scan] /\ Scans BY DEF AlarmInv, TypeOK
  <1>2. UNCHANGED <<events, heads, damage>> /\ scan' = [scan EXCEPT ![p] = NoScan]
    BY DEF Crash
  <1>3. scan'[p] = NoScan /\ \A q \in Procs : q # p => scan'[q] = scan[q] BY <1>1, <1>2
  <1>4. EditedStreams' = EditedStreams BY <1>2 DEF EditedStreams
  <1>5. ASSUME NEW q \in Procs PROVE ScanInv(scan[q])'
    <2>1. CASE q = p BY <2>1, <1>3 DEF ScanInv, NoScan
    <2>2. CASE q # p
      <3>1. ScanInv(scan[q]) BY <1>1 DEF Scans
      <3> QED BY <3>1, <2>2, <1>2, <1>3, <1>4 DEF ScanInv, Condemned
    <2> QED BY <2>1, <2>2
  <1> QED BY <1>5 DEF Scans

LEMMA CommitScans ==
  ASSUME AlarmInv, NEW p \in Procs, Commit(p), EditedStreams \subseteq EditedStreams'
  PROVE  Scans'
  <1> DEFINE s == conn[p].stream
  <1>1. /\ scan \in [Procs -> Scan] /\ Scans /\ heads \in [Streams -> Head_]
        /\ s \in Streams
    BY ConnFields DEF AlarmInv, TypeOK
  <1>2. /\ damage'.lost = damage.lost \ {s}
        /\ scan' = [q \in Procs |-> [scan[q] EXCEPT !.lost = @ \ {s}]]
        /\ \A t \in Streams : t # s => heads'[t] = heads[t]
    BY <1>1 DEF Commit, NoteAppend, AlarmInv, TypeOK
  <1> HIDE DEF s
  <1>3. ASSUME NEW q \in Procs PROVE ScanInv(scan[q])'
    <2>1. scan[q] \in Scan /\ ScanInv(scan[q]) BY <1>1 DEF Scans
    <2>2. scan'[q] = [scan[q] EXCEPT !.lost = @ \ {s}] BY <1>2
    <2>3. /\ scan'[q].phase = scan[q].phase /\ scan'[q].todo = scan[q].todo
          /\ scan'[q].stream = scan[q].stream /\ scan'[q].rows = scan[q].rows
          /\ scan'[q].all_ok = scan[q].all_ok /\ scan'[q].edited = scan[q].edited
          /\ scan'[q].lost = scan[q].lost \ {s} /\ scan[q].stream \in Streams
      BY <2>1, <2>2 DEF Scan
    <2>4. scan[q].lost \subseteq damage.lost /\ scan[q].edited \subseteq EditedStreams
      BY <2>1 DEF ScanInv
    <2> QED BY <1>2, <2>1, <2>3, <2>4, ScanShrinks
  <1> QED BY <1>3 DEF Scans

LEMMA AlarmStep == AlarmInv /\ [Next \/ Damage]_vars => AlarmInv'
  <1> SUFFICES ASSUME AlarmInv, [Next \/ Damage]_vars PROVE AlarmInv' OBVIOUS
  <1> DEFINE Rest == OneWriter /\ Staged /\ Numbered /\ HeadsAhead /\ Scans
  <1>1. TypeOK' BY TypeStep, DamageType DEF AlarmInv
  <1>2. TypeOK /\ Rest BY DEF AlarmInv
  <1>3. CASE UNCHANGED vars
    <2>1. UNCHANGED <<events, heads, conn, scan, damage>> BY <1>3 DEF vars
    <2>2. Scans' BY <1>2, <2>1, ScansUntouched
    <2>3. OneWriter' /\ Staged' /\ Numbered' /\ HeadsAhead'
      BY <1>2, <2>1 DEF OneWriter, Holding, Staged, StagedOn, Numbered, HeadsAhead
    <2> QED BY <1>1, <2>2, <2>3 DEF AlarmInv
  <1>4. ASSUME NEW p \in Procs,
               \/ \E s \in Streams, e \in Events : Begin(p, s, e)
               \/ \E e \in Events : BeginFails(p, e)
               \/ InsertRow(p) \/ InsertRefused(p) \/ UpsertHead(p) \/ Return(p)
               \/ StepFails(p) \/ CommitFails(p)
        PROVE  AlarmInv'
    <2>1. UNCHANGED <<events, heads, scan, damage>>
      BY <1>4 DEF Begin, BeginFails, InsertRow, InsertRefused, UpsertHead, Return, StepFails, CommitFails
    <2>2. Scans' BY <1>2, <2>1, ScansUntouched
    <2>3. Numbered' /\ HeadsAhead' BY <1>2, <2>1 DEF Numbered, HeadsAhead
    <2>4. OneWriter' /\ Staged' BY <1>4, AppendStaged
    <2> QED BY <1>1, <2>2, <2>3, <2>4 DEF AlarmInv
  <1>5. ASSUME NEW p \in Procs, Crash(p) PROVE AlarmInv'
    <2>1. UNCHANGED <<events, heads, damage>> BY <1>5 DEF Crash
    <2>2. Numbered' /\ HeadsAhead' BY <1>2, <2>1 DEF Numbered, HeadsAhead
    <2>3. OneWriter' /\ Staged' /\ Scans' BY <1>5, AppendStaged, CrashScans
    <2> QED BY <1>1, <2>2, <2>3 DEF AlarmInv
  <1>6. ASSUME NEW p \in Procs, Commit(p) PROVE AlarmInv'
    BY <1>1, <1>6, CommitAlarm, CommitScans DEF AlarmInv
  <1>7. ASSUME NEW p \in Procs, VerifyStep(p) PROVE AlarmInv'
    <2>1. UNCHANGED <<events, heads, conn, damage>> BY <1>7, VerifyOnlyReads
    <2>2. OneWriter' /\ Staged' /\ Numbered' /\ HeadsAhead'
      BY <1>2, <2>1 DEF OneWriter, Holding, Staged, StagedOn, Numbered, HeadsAhead
    <2> QED BY <1>1, <1>7, <2>2, VerifyScans DEF AlarmInv
  <1>8. ASSUME Damage PROVE AlarmInv'
    BY <1>1, <1>8, LossAlarm, EditAlarm DEF Damage, AlarmInv
  <1> QED BY <1>3, <1>4, <1>5, <1>6, <1>7, <1>8, VerifiersAssumption DEF Next, AppendStep

(* Whoever appends, verifies, dies or tampers, in whatever order: a scan that *)
(* has not failed yet still has every damaged stream before it.               *)
THEOREM AlarmInvariant == DamageSpec => []AlarmInv
  BY InitAlarm, AlarmStep, PTL DEF DamageSpec

(* verify fails if, when it started, a stream was short of rows its head knows *)
(* of (and nothing was appended to it since) or a hashed row had been edited,  *)
(* while other processes go on appending, losing rows and dying between its    *)
(* SELECTs.                                                                    *)
THEOREM AlarmIsRaised == DamageSpec => []VerifyCatchesDamage
  <1>1. AlarmInv => VerifyCatchesDamage
    BY DEF AlarmInv, Scans, ScanInv, Suspects, VerifyCatchesDamage
  <1> QED BY <1>1, AlarmInvariant, PTL

------------------------------------------------------------------------------
(* No alarm without damage, in a store no other process has open. *)

(* The head of a stream was written by an append, which hashes its row. *)
HeadsHashed == \A s \in Streams : heads[s] # NoHead => heads[s].last_hash # NoHash

(* What verify has seen so far is in order, and the rows it walks are the *)
(* rows there are: the connection it would take to add one is its own.    *)
Calm(p) ==
    /\ scan[p].all_ok
    /\ scan[p].phase = "walk" =>
         conn[p].pc = "idle" /\ scan[p].rows = events[scan[p].stream]

Undamaged == TablesInv /\ WritersInv /\ HeadsHashed /\ \A p \in Procs : Calm(p)
CalmInv == TypeOK /\ (damage.count = 0 => Undamaged)

(* In an intact chain a legacy row has none but legacy rows before it, so the *)
(* last hashed row before a hashed one is its neighbour.                      *)
LEMMA ExpectedIsPrior ==
  ASSUME TypeOK, ChainIntact, NEW s \in Streams, NEW i \in Hashed(events[s])
  PROVE  expected_prev_hash(events[s], i) = PriorHash(events[s], i)
  <1> DEFINE rows == events[s]
             before == {j \in Hashed(rows) : j < i}
             g == Greatest(before)
  <1>1. rows \in Seq(Row) /\ i \in 1 .. Len(rows) /\ Len(rows) \in Nat
    BY HashedIn DEF TypeOK, Hashed
  <1>2. before \in SUBSET (1 .. Len(rows)) BY <1>1, HashedIn
  <1>3. \A j \in 1 .. Len(rows) :
          /\ rows[j].prev_hash = PriorHash(rows, j)
          /\ rows[j].hash = NoHash => rows[j].prev_hash = NoHash
    BY <1>1 DEF ChainIntact
  <1>4. CASE before = {}
    <2>1. expected_prev_hash(rows, i) = NoHash BY <1>4 DEF expected_prev_hash
    <2>2. CASE i = 1 BY <2>1, <2>2 DEF PriorHash
    <2>3. CASE i # 1
      <3>1. i - 1 \in 1 .. Len(rows) /\ i - 1 < i BY <1>1, <2>3
      <3>2. rows[i - 1].hash = NoHash BY <1>1, <1>4, <3>1 DEF Hashed
      <3> QED BY <2>1, <2>3, <3>2 DEF PriorHash
    <2> QED BY <2>2, <2>3
  <1>5. CASE before # {}
    <2>1. g \in before /\ \A j \in before : j <= g BY <1>1, <1>2, <1>5, GreatestIn
    <2>2. expected_prev_hash(rows, i) = rows[g].hash BY <1>5 DEF expected_prev_hash
    <2> HIDE DEF g
    <2>3. g \in 1 .. Len(rows) /\ g < i /\ rows[g].hash # NoHash
      BY <1>2, <2>1 DEF Hashed
    <2>4. g = i - 1
      <3> SUFFICES ASSUME g # i - 1 PROVE FALSE OBVIOUS
      <3>1. g + 1 \in 1 .. Len(rows) /\ g + 1 < i /\ g + 1 # 1 /\ ~(g + 1 <= g) /\ g + 1 - 1 = g
        BY <1>1, <2>3
      <3>2. g + 1 \notin before BY <2>1, <3>1
      <3>3. rows[g + 1].hash = NoHash BY <1>1, <3>1, <3>2 DEF Hashed
      <3>4. PriorHash(rows, g + 1) = NoHash BY <1>3, <3>1, <3>3
      <3> QED BY <2>3, <3>1, <3>4 DEF PriorHash
    <2>5. i # 1 BY <1>1, <2>3
    <2> QED BY <2>2, <2>4, <2>5 DEF PriorHash
  <1> QED BY <1>4, <1>5

(* verify_chain accepts an intact chain under a matching head. *)
LEMMA IntactVerifies ==
  ASSUME TypeOK, ChainIntact, HeadMatches, HeadsHashed, NEW s \in Streams
  PROVE  verify_chain(events[s], heads[s]) = "ok"
  <1> DEFINE rows == events[s]
             hashed == Hashed(rows)
  <1>1. rows \in Seq(Row) BY DEF TypeOK
  <1>2. /\ Len(rows) \in Nat /\ DOMAIN rows = 1 .. Len(rows)
        /\ hashed \in SUBSET (1 .. Len(rows))
    BY <1>1, HashedIn
  <1>3. \A i \in hashed : RowVerifies(rows, i)
    <2> SUFFICES ASSUME NEW i \in hashed PROVE RowVerifies(rows, i) OBVIOUS
    <2>1. expected_prev_hash(rows, i) = PriorHash(rows, i) BY ExpectedIsPrior
    <2>2. /\ rows[i].prev_hash = PriorHash(rows, i)
          /\ rows[i].hash = recompute_hash(rows[i])
      BY <1>2 DEF ChainIntact, Hashed
    <2> QED BY <2>1, <2>2 DEF RowVerifies
  <1>4. CASE heads[s] = NoHead BY <1>3, <1>4 DEF verify_chain
  <1>5. CASE heads[s] # NoHead
    <2> DEFINE n == Len(rows)
    <2>1. /\ rows # << >> /\ heads[s].last_sequence = n
          /\ heads[s].last_hash = rows[n].hash /\ rows[n].hash # NoHash
      <3>1. /\ rows # << >>
            /\ heads[s] = [last_sequence |-> Len(rows), last_hash |-> rows[Len(rows)].hash]
        BY <1>5 DEF HeadMatches
      <3>2. heads[s].last_hash # NoHash BY <1>5 DEF HeadsHashed
      <3> QED BY <3>1, <3>2
    <2>2. n \in 1 .. n BY <1>1, <1>2, <2>1
    <2>3. n \in hashed BY <1>2, <2>1, <2>2 DEF Hashed
    <2>4. Greatest(hashed) \in hashed /\ n <= Greatest(hashed)
      BY <1>2, <2>3, GreatestIn
    <2>5. Greatest(hashed) = n BY <1>2, <2>4
    <2>6. rows[n].sequence = n BY <1>2, <2>2 DEF ChainIntact
    <2> HIDE DEF hashed, n
    <2> QED BY <1>3, <2>1, <2>3, <2>5, <2>6 DEF verify_chain, hashed
  <1> QED BY <1>4, <1>5

LEMMA HeadsHashedStep ==
  ASSUME IInv, HeadsHashed, [Next]_vars
  PROVE  HeadsHashed'
  <1>1. CASE UNCHANGED heads BY <1>1 DEF HeadsHashed
  <1>2. ASSUME NEW p \in Procs, Commit(p) PROVE HeadsHashed'
    <2> DEFINE r == conn[p].row
    <2>1. /\ r \in Row /\ conn[p].stream \in Streams /\ heads \in [Streams -> Head_]
      BY ConnFields DEF IInv, TypeOK
    <2>2. r.hash = compute_hash_v2(r.event_id, r.sequence, r.data, r.prev_hash)
      BY <1>2 DEF Commit, IInv, WritersInv, AppendsInFlight, AppendInv
    <2>3. heads' = [heads EXCEPT ![conn[p].stream] =
                       [last_sequence |-> r.sequence, last_hash |-> r.hash]]
      BY <1>2 DEF Commit
    <2> HIDE DEF r
    <2>4. /\ r.event_id \in Events /\ r.sequence \in Nat
          /\ r.data \in Data /\ r.prev_hash \in Digest
      BY <2>1 DEF Row
    <2>5. r.hash # NoHash BY <2>2, <2>4, DigestType
    <2> QED BY <2>1, <2>3, <2>5 DEF HeadsHashed
  <1>3. ASSUME NEW p \in Procs, AppendStep(p), ~Commit(p) PROVE UNCHANGED heads
    BY <1>3 DEF AppendStep, Begin, BeginFails, InsertRow, InsertRefused, UpsertHead, Return,
                StepFails, CommitFails
  <1>4. ASSUME NEW p \in Procs, Crash(p) PROVE UNCHANGED heads BY <1>4 DEF Crash
  <1>5. ASSUME NEW p \in Procs, VerifyStep(p) PROVE UNCHANGED heads
    BY <1>5, VerifyOnlyReads
  <1>6. UNCHANGED vars => UNCHANGED heads BY DEF vars
  <1> QED BY <1>1, <1>2, <1>3, <1>4, <1>5, <1>6, VerifiersAssumption DEF Next

(* The verdict of a command that has the store to itself stays good. *)
LEMMA CalmStep ==
  ASSUME NEW p \in Procs, IInv, HeadsHashed, Calm(p),
         AppendStep(p) \/ Crash(p) \/ VerifyStep(p)
  PROVE  Calm(p)'
  <1> DEFINE k == scan[p]
  <1>1. /\ scan \in [Procs -> Scan] /\ k \in Scan /\ conn \in [Procs -> Conn]
        /\ events \in [Streams -> Seq(Row)]
    BY DEF IInv, TypeOK
  <1>2. NoScan.all_ok = TRUE /\ NoScan.phase = "none" BY DEF NoScan
  <1>3. CASE Crash(p) BY <1>1, <1>2, <1>3 DEF Crash, Calm
  <1>4. CASE AppendStep(p)
    <2>1. CASE \E e \in Events : BeginFails(p, e)
      <3>1. UNCHANGED <<events, conn, scan>> BY <2>1 DEF BeginFails
      <3> QED BY <3>1 DEF Calm
    <2>2. CASE ~ \E e \in Events : BeginFails(p, e)
      <3>1. k.phase # "walk"
        BY <1>4, <2>2 DEF AppendStep, Begin, InsertRow, InsertRefused, UpsertHead, Commit, Return, StepFails,
                          CommitFails, Calm
      <3>2. scan'[p].phase = k.phase /\ scan'[p].all_ok = k.all_ok
        <4>1. CASE Commit(p)
          <5> DEFINE s == conn[p].stream
          <5>1. scan'[p] = [k EXCEPT !.lost = k.lost \ {s}]
            BY <4>1 DEF Commit, NoteAppend
          <5> HIDE DEF s, k
          <5> QED BY <1>1, <5>1 DEF Scan
        <4>2. CASE ~Commit(p)
          <5>1. scan' = scan
            BY <1>4, <2>2, <4>2 DEF AppendStep, Begin, InsertRow, InsertRefused, UpsertHead, Return, StepFails,
                                    CommitFails
          <5> QED BY <5>1
        <4> QED BY <4>1, <4>2
      <3> QED BY <3>1, <3>2 DEF Calm
    <2> QED BY <2>1, <2>2
  <1>5. CASE VerifyStep(p)
    <2>1. UNCHANGED <<events, conn>> BY <1>5, VerifyOnlyReads
    <2>2. CASE ListStreams(p)
      <3>1. scan'[p].phase = "listed" /\ scan'[p].all_ok
        BY <1>1, <2>2 DEF ListStreams, NoScan
      <3> QED BY <3>1 DEF Calm
    <2>3. CASE ListHeads(p) \/ FinishVerify(p)
      <3>1. scan'[p].phase \in {"next", "done"} /\ scan'[p].all_ok = k.all_ok
        BY <1>1, <2>3 DEF ListHeads, FinishVerify, Scan
      <3> QED BY <3>1 DEF Calm
    <2>4. CASE WalkRows(p)
      <3>1. PICK s \in k.todo :
              scan' = [scan EXCEPT ![p].phase = "walk", ![p].stream = s, ![p].rows = events[s],
                                   ![p].todo = @ \ {s}]
        BY <2>4 DEF WalkRows
      <3>2. /\ scan'[p].stream = s /\ scan'[p].rows = events[s]
            /\ scan'[p].all_ok = k.all_ok
        BY <1>1, <3>1 DEF Scan
      <3>3. conn[p].pc = "idle" BY <2>4 DEF WalkRows, CanRead
      <3> QED BY <2>1, <3>2, <3>3 DEF Calm
    <2>5. CASE CheckHead(p)
      <3>1. k.phase = "walk" /\ k.rows = events[k.stream] /\ k.stream \in Streams /\ k.all_ok
        BY <1>1, <2>5 DEF CheckHead, Calm, Scan
      <3>2. verify_chain(k.rows, heads[k.stream]) = "ok"
        BY <3>1, IntactVerifies DEF IInv, TablesInv
      <3>3. /\ scan'[p].phase = "next"
            /\ scan'[p].all_ok = (k.all_ok /\ verify_chain(k.rows, heads[k.stream]) = "ok")
        BY <1>1, <2>5 DEF CheckHead, Scan
      <3> QED BY <3>1, <3>2, <3>3 DEF Calm
    <2>6. CASE ExitVerify(p)
      <3>1. scan'[p] = NoScan BY <1>1, <2>6 DEF ExitVerify
      <3> QED BY <1>2, <3>1 DEF Calm
    <2> QED BY <1>5, <2>2, <2>3, <2>4, <2>5, <2>6 DEF VerifyStep
  <1> QED BY <1>3, <1>4, <1>5

LEMMA OnlyDamageCounts ==
  ASSUME TypeOK, [Next \/ Damage]_vars, damage'.count = 0
  PROVE  damage.count = 0 /\ [Next]_vars
  <1>1. ASSUME Damage PROVE FALSE
    <2>1. PICK s \in Streams : \E n \in DOMAIN events[s] : LoseRows(s, n) \/ EditRow(s, n)
      BY <1>1 DEF Damage
    <2>2. damage.count \in Nat /\ damage'.count = damage.count + 1
      BY <2>1 DEF TypeOK, LoseRows, EditRow
    <2> QED BY <2>2
  <1>2. ASSUME NEW p \in Procs, AppendStep(p) \/ Crash(p) \/ VerifyStep(p)
        PROVE  damage'.count = damage.count
    <2>1. CASE Commit(p) BY <2>1 DEF Commit, NoteAppend, TypeOK
    <2>2. CASE ~Commit(p)
      <3>1. damage' = damage
        BY <1>2, <2>2, VerifyOnlyReads
           DEF AppendStep, Begin, BeginFails, InsertRow, InsertRefused, UpsertHead, Return,
               StepFails, CommitFails, Crash
      <3> QED BY <3>1
    <2> QED BY <2>1, <2>2
  <1>3. Next => damage'.count = damage.count BY <1>2, VerifiersAssumption DEF Next
  <1>4. UNCHANGED vars => damage' = damage BY DEF vars
  <1> QED BY <1>1, <1>3, <1>4

(* verify never reports an undamaged store that no other process has open, *)
(* whatever steps of its own failed and however often it died.             *)
THEOREM AloneNoFalseAlarm ==
  ASSUME NEW only, Procs = {only}
  PROVE  DamageSpec => []NoFalseAlarm
  <1>1. Init => CalmInv
    <2> SUFFICES ASSUME Init PROVE CalmInv OBVIOUS
    <2>1. TypeOK /\ TablesInv /\ WritersInv BY InitTyped, InitTables, InitWriters
    <2>2. HeadsHashed BY DEF Init, HeadsHashed
    <2>3. \A p \in Procs : Calm(p) BY DEF Init, Calm, NoScan
    <2> QED BY <2>1, <2>2, <2>3 DEF CalmInv, Undamaged
  <1>2. CalmInv /\ [Next \/ Damage]_vars => CalmInv'
    <2> SUFFICES ASSUME CalmInv, [Next \/ Damage]_vars PROVE CalmInv' OBVIOUS
    <2>1. TypeOK /\ TypeOK' BY TypeStep, DamageType DEF CalmInv
    <2> SUFFICES ASSUME damage'.count = 0 PROVE Undamaged' BY <2>1 DEF CalmInv
    <2>2. damage.count = 0 /\ [Next]_vars BY <2>1, OnlyDamageCounts
    <2>3. IInv /\ HeadsHashed /\ \A p \in Procs : Calm(p)
      BY <2>2 DEF CalmInv, Undamaged, IInv
    <2>4. TablesInv' /\ WritersInv' BY <2>2, <2>3, InvariantStep
    <2>5. HeadsHashed' BY <2>2, <2>3, HeadsHashedStep
    <2>6. ASSUME NEW p \in Procs PROVE Calm(p)'
      <3>1. CASE UNCHANGED vars
        <4>1. UNCHANGED <<events, conn, scan>> BY <3>1 DEF vars
        <4> QED BY <2>3, <4>1 DEF Calm
      <3>2. CASE Next
        <4>1. AppendStep(p) \/ Crash(p) \/ VerifyStep(p)
          BY <3>2, VerifiersAssumption DEF Next
        <4> QED BY <2>3, <4>1, CalmStep
      <3> QED BY <2>2, <3>1, <3>2
    <2> QED BY <2>4, <2>5, <2>6 DEF Undamaged
  <1>3. CalmInv => NoFalseAlarm BY DEF CalmInv, Undamaged, Calm, NoFalseAlarm
  <1> QED BY <1>1, <1>2, <1>3, PTL DEF DamageSpec
=============================================================================
