----------------------------- MODULE PgStoreProofs -----------------------------
(***************************************************************************)
(* Theorems about the PostgreSQL store, for any number of tasks, streams,  *)
(* events and connections, and any hash of streams to advisory locks.      *)
(***************************************************************************)
EXTENDS PgStore, SequenceTheorems, TLAPS

Pcs == {"free", "begun", "locked", "read", "inserted", "headed", "orphan", "committed"}
Told == {"none", "ok", "error", "conflict", "refused"}
Hash == Seq(Events \X Nat)
RowT == [event : Events, sequence : Nat, prev_hash : Hash, hash : Hash, id : Nat]
HeadT == [sequence : Nat, hash : Hash]
TxT == [pc : Pcs, stream : Streams \cup {""}, event : Events \cup {""}, sequence : Nat,
        prev_hash : Hash, id : Nat]
ScanT == [stream : Streams \cup {""}, rows : Seq(RowT),
          verdict : {"none", "reading", "verified", "broken", "truncated"}]
ViewT == [stream : Streams \cup {""}, rows : Seq(RowT),
          kind : {"none", "count", "last_sequence"}, answer : Nat]

Typed ==
    /\ rows \in [Streams -> Seq(RowT)]
    /\ heads \in [Streams -> HeadT]
    /\ last_id \in Nat
    /\ tx \in [Tasks -> TxT]
    /\ told \in [Events -> Told]
    /\ scan \in ScanT
    /\ view \in ViewT

(* A stream is numbered 1, 2, 3, ..., chained, and ended by its head; its ids *)
(* grow, and have all been drawn.                                             *)
Chain(s) ==
    /\ \A i \in 1..Len(rows[s]) :
          /\ rows[s][i].sequence = i
          /\ rows[s][i].prev_hash = (IF i = 1 THEN NoHash ELSE rows[s][i - 1].hash)
          /\ rows[s][i].hash = compute_hash(rows[s][i].event, i, rows[s][i].prev_hash)
          /\ rows[s][i].id <= last_id
    /\ \A i, j \in 1..Len(rows[s]) : i < j => rows[s][i].id < rows[s][j].id
    /\ heads[s] = Tip(rows[s])
Chains == \A s \in Streams : Chain(s)

(* Of the appends in progress one at most holds the lock of a key, has a row *)
(* of an event that is not committed, or has a caller who waits; ...         *)
Holding == {"locked", "read"} \cup Pending
Waited(x) == x.pc \notin {"free", "orphan"}
Apart ==
    \A t, u \in Tasks : t # u =>
        /\ Waited(tx[t]) /\ Waited(tx[u]) => tx[t].event # tx[u].event
        /\ tx[t].pc \in Pending /\ tx[u].pc \in Pending => tx[t].event # tx[u].event
        /\ tx[t].pc \in Holding /\ tx[u].pc \in Holding =>
              LockOf[tx[t].stream] # LockOf[tx[u].stream]

(* ... so what it has read is still the end of the stream, and its event is *)
(* nowhere else.                                                            *)
Continues(x) ==
    /\ x.pc # "free" => x.stream \in Streams /\ x.event \in Events /\ told[x.event] \in {"none", "error"}
    /\ x.pc \in {"read"} \cup Pending =>
          x.sequence = Len(rows[x.stream]) + 1 /\ x.prev_hash = PrevHash(x.stream)
    /\ x.pc \in Pending =>
          /\ x.id <= last_id
          /\ \A i \in 1..Len(rows[x.stream]) : rows[x.stream][i].id < x.id
          /\ ~Stored(x.event)
    /\ x.pc = "orphan" => told[x.event] = "error"
    /\ x.pc = "committed" => Stored(x.event)
InProgress == \A t \in Tasks : Continues(tx[t])

Answered == \A e \in Events : told[e] # "conflict" /\ (told[e] \in {"ok", "refused"} => Stored(e))

(* Nobody knows yet only of events that are not stored or about to be told. *)
Fresh ==
    \A e \in Events : told[e] = "none" /\ Stored(e) =>
        \E t \in Tasks : tx[t].pc = "committed" /\ tx[t].event = e

(* What a reader was given is still how the stream begins. *)
Read ==
    /\ scan.verdict # "broken"
    /\ view.stream # "" =>
          /\ Len(view.rows) <= Len(rows[view.stream])
          /\ \A i \in 1..Len(view.rows) : view.rows[i] = rows[view.stream][i]
          /\ view.kind # "none" => view.answer \in Len(view.rows)..Len(rows[view.stream])

(* The inductive invariant. *)
PgInv == Typed /\ Chains /\ Apart /\ InProgress /\ Answered /\ Fresh /\ Read

------------------------------------------------------------------------------
(* Streams. *)

LEMMA RowsType ==
  ASSUME Typed, NEW s \in Streams
  PROVE  /\ rows[s] \in Seq(RowT) /\ Len(rows[s]) \in Nat /\ DOMAIN rows[s] = 1..Len(rows[s])
         /\ \A i \in 1..Len(rows[s]) : rows[s][i] \in RowT
         /\ rows[s] = << >> <=> Len(rows[s]) = 0
  <1>1. rows[s] \in Seq(RowT) BY DEF Typed
  <1>2. Len(rows[s]) \in Nat /\ DOMAIN rows[s] = 1..Len(rows[s]) BY <1>1, LenProperties
  <1>3. \A i \in 1..Len(rows[s]) : rows[s][i] \in RowT BY <1>1, ElementOfSeq
  <1>4. rows[s] = << >> <=> Len(rows[s]) = 0 BY <1>1, EmptySeq
  <1> QED BY <1>1, <1>2, <1>3, <1>4

(* What ReadTail reads: the next number and the hash at the end. *)
LEMMA TailIs ==
  ASSUME Typed, Chains, NEW s \in Streams
  PROVE  /\ NextSeq(s) = Len(rows[s]) + 1 /\ NextSeq(s) \in Nat
         /\ PrevHash(s) = (IF Len(rows[s]) = 0 THEN NoHash ELSE rows[s][Len(rows[s])].hash)
         /\ PrevHash(s) \in Hash
  <1>1. /\ Len(rows[s]) \in Nat /\ rows[s] = << >> <=> Len(rows[s]) = 0
        /\ \A i \in 1..Len(rows[s]) : rows[s][i] \in RowT
    BY RowsType
  <1>2. CASE Len(rows[s]) = 0
    <2>1. NoHash \in Hash BY DEF NoHash, Hash
    <2> QED BY <1>1, <1>2, <2>1 DEF NextSeq, PrevHash
  <1>3. CASE Len(rows[s]) # 0
    <2>1. Len(rows[s]) \in 1..Len(rows[s]) BY <1>1, <1>3
    <2>2. Last(rows[s]) = rows[s][Len(rows[s])] BY DEF Last
    <2>3. rows[s][Len(rows[s])].sequence = Len(rows[s]) BY <2>1 DEF Chains, Chain
    <2>4. rows[s][Len(rows[s])].hash \in Hash BY <1>1, <2>1 DEF RowT
    <2> QED BY <1>1, <1>3, <2>2, <2>3, <2>4 DEF NextSeq, PrevHash
  <1> QED BY <1>2, <1>3

LEMMA ChainsAreWhole ==
  ASSUME Typed, Chains, NEW s \in Streams
  PROVE  WholeChain(rows[s])
  <1>1. DOMAIN rows[s] = 1..Len(rows[s]) BY RowsType
  <1> QED BY <1>1 DEF Chains, Chain, WholeChain

(* A step that commits nothing. *)
LEMMA NothingStored ==
  ASSUME PgInv, UNCHANGED <<rows, heads>>, last_id' \in Nat, last_id <= last_id'
  PROVE  Chains'
  <1>1. \A s \in Streams : \A i \in 1..Len(rows[s]) : rows[s][i].id \in Nat
    BY RowsType DEF PgInv, RowT
  <1>2. last_id \in Nat BY DEF PgInv, Typed
  <1> QED BY <1>1, <1>2 DEF PgInv, Chains, Chain

(* One append moves, holds a lock only if it held it before, and its row is *)
(* the only one of its event.                                               *)
LEMMA OneMoves ==
  ASSUME PgInv, NEW t \in Tasks, NEW x \in TxT, tx[t].pc # "committed", tx' = [tx EXCEPT ![t] = x],
         UNCHANGED <<rows, heads, told>>, last_id' \in Nat, last_id <= last_id', Continues(x)',
         Waited(x) => \A u \in Tasks \ {t} : Waited(tx[u]) => tx[u].event # x.event,
         x.pc \in Pending => \A u \in Tasks \ {t} : tx[u].pc \in Pending => tx[u].event # x.event,
         x.pc \in Holding => \A u \in Tasks \ {t} : tx[u].pc \in Holding =>
                                LockOf[tx[u].stream] # LockOf[x.stream]
  PROVE  /\ tx' \in [Tasks -> TxT] /\ Chains' /\ Apart' /\ InProgress'
         /\ Answered' /\ Fresh'
  <1>1. tx \in [Tasks -> TxT] /\ last_id \in Nat BY DEF PgInv, Typed
  <1>2. tx' \in [Tasks -> TxT] /\ tx'[t] = x /\ \A u \in Tasks : u # t => tx'[u] = tx[u]
    BY <1>1
  <1>3. Chains' BY <1>1, NothingStored
  <1>4. Apart' BY <1>2 DEF PgInv, Apart, Waited
  <1>5. ASSUME NEW u \in Tasks, u # t PROVE Continues(tx[u])'
    <2>1. tx'[u] = tx[u] /\ Continues(tx[u]) /\ tx[u].id \in Nat
      BY <1>1, <1>2, <1>5 DEF PgInv, InProgress, TxT
    <2> QED BY <1>1, <2>1 DEF Continues, PrevHash, Stored
  <1>6. InProgress' BY <1>2, <1>5 DEF InProgress
  <1>7. Answered' BY DEF PgInv, Answered, Stored
  <1>8. Fresh'
    <2>1. \A u \in Tasks : tx[u].pc = "committed" => tx'[u] = tx[u] BY <1>2
    <2> QED BY <2>1 DEF PgInv, Fresh, Stored
  <1> QED BY <1>2, <1>3, <1>4, <1>6, <1>7, <1>8

(* The rest of the invariant where nothing is stored and nobody reads. *)
LEMMA NobodyReads ==
  ASSUME PgInv, UNCHANGED <<rows, scan, view>>
  PROVE  Read' /\ rows' \in [Streams -> Seq(RowT)] /\ scan' \in ScanT /\ view' \in ViewT
  BY DEF PgInv, Read, Typed

------------------------------------------------------------------------------
(* Appends. *)

LEMMA FreeType == Free \in TxT /\ Free.pc = "free"
  BY DEF Free, TxT, Pcs, NoHash, Hash

LEMMA BeginKeeps ==
  ASSUME PgInv, NEW t \in Tasks, NEW s \in Streams, NEW e \in Events, Begin(t, s, e)
  PROVE  PgInv'
  <1>1. PICK x \in TxT : /\ x = [Free EXCEPT !.pc = "begun", !.stream = s, !.event = e]
                         /\ x.pc = "begun" /\ x.stream = s /\ x.event = e
    <2> DEFINE y == [Free EXCEPT !.pc = "begun", !.stream = s, !.event = e]
    <2>1. y = [Free EXCEPT !.pc = "begun", !.stream = s, !.event = e] OBVIOUS
    <2> HIDE DEF y
    <2>2. /\ y \in TxT /\ y.pc = "begun" /\ y.stream = s /\ y.event = e
      <3>1. s \in Streams /\ e \in Events OBVIOUS
      <3> QED BY ONLY <2>1, <3>1, FreeType DEF TxT, Pcs
    <2> QED BY <2>1, <2>2
  <1>3. Typed /\ last_id \in Nat BY DEF PgInv, Typed
  <1>2. /\ UNCHANGED <<rows, heads, last_id, told, scan, view>> /\ tx' = [tx EXCEPT ![t] = x]
        /\ last_id' \in Nat /\ last_id <= last_id'
        /\ told[e] \in {"none", "error"} /\ tx[t].pc = "free"
        /\ \A u \in Tasks : Waited(tx[u]) => tx[u].event # e
    BY <1>1, <1>3 DEF Begin, Busy, Waited
  <1>5. x.pc \notin Holding /\ x.pc \notin Pending BY <1>1 DEF Holding, Pending
  <1>4. Continues(x)' BY <1>1, <1>2, <1>5 DEF Continues
  <1>6. tx' \in [Tasks -> TxT] /\ Chains' /\ Apart' /\ InProgress' /\ Answered' /\ Fresh'
    BY <1>1, <1>2, <1>3, <1>4, <1>5, OneMoves
  <1>7. Read' BY <1>2, NobodyReads
  <1>8. Typed' BY <1>2, <1>3, <1>6 DEF Typed
  <1> QED BY <1>6, <1>7, <1>8 DEF PgInv

(* An append goes on with its stream and its event. *)
LEMMA GoesOn ==
  ASSUME PgInv, NEW t \in Tasks, NEW x \in TxT, tx' = [tx EXCEPT ![t] = x],
         tx[t].pc \notin {"free", "orphan", "committed"},
         x.stream = tx[t].stream, x.event = tx[t].event,
         UNCHANGED <<rows, heads, told, scan, view>>, last_id' \in Nat, last_id <= last_id',
         Continues(x)',
         x.pc \in Pending => \/ tx[t].pc \in Pending
                             \/ \A u \in Tasks \ {t} : tx[u].pc \in Pending => tx[u].event # x.event,
         x.pc \in Holding => \/ tx[t].pc \in Holding
                             \/ ~Locked(tx[t].stream)
  PROVE  PgInv'
  <1>1. Typed BY DEF PgInv
  <1>2. \A u \in Tasks \ {t} : Waited(tx[u]) => tx[u].event # x.event
    BY DEF PgInv, Apart, Waited
  <1>3. x.pc \in Holding => \A u \in Tasks \ {t} : tx[u].pc \in Holding =>
                                LockOf[tx[u].stream] # LockOf[x.stream]
    BY DEF PgInv, Apart, Locked, Holding
  <1>7. x.pc \in Pending => \A u \in Tasks \ {t} : tx[u].pc \in Pending => tx[u].event # x.event
    BY DEF PgInv, Apart
  <1>4. tx' \in [Tasks -> TxT] /\ Chains' /\ Apart' /\ InProgress' /\ Answered' /\ Fresh'
    BY <1>2, <1>3, <1>7, OneMoves
  <1>5. Read' BY NobodyReads
  <1>6. Typed' BY <1>1, <1>4 DEF Typed
  <1> QED BY <1>4, <1>5, <1>6 DEF PgInv

LEMMA PcMoves ==
  ASSUME NEW x \in TxT, NEW p \in Pcs, NEW y, y = [x EXCEPT !.pc = p]
  PROVE  /\ y \in TxT /\ y.pc = p /\ y.stream = x.stream /\ y.event = x.event
         /\ y.sequence = x.sequence /\ y.prev_hash = x.prev_hash /\ y.id = x.id
  BY DEF TxT

LEMMA LockKeeps ==
  ASSUME PgInv, NEW t \in Tasks, Lock(t)
  PROVE  PgInv'
  <1>1. Typed /\ InProgress /\ tx \in [Tasks -> TxT] /\ last_id \in Nat BY DEF PgInv, Typed
  <1>2. /\ tx[t].pc = "begun" /\ ~Locked(tx[t].stream) /\ tx[t] \in TxT /\ Continues(tx[t])
        /\ UNCHANGED <<rows, heads, told, scan, view>> /\ last_id' \in Nat /\ last_id <= last_id'
    BY <1>1 DEF Lock, InProgress
  <1>3. PICK x \in TxT : /\ x = [tx[t] EXCEPT !.pc = "locked"] /\ x.pc = "locked"
                         /\ x.stream = tx[t].stream /\ x.event = tx[t].event
    <2> DEFINE y == [tx[t] EXCEPT !.pc = "locked"]
    <2>1. y = [tx[t] EXCEPT !.pc = "locked"] OBVIOUS
    <2> HIDE DEF y
    <2>2. /\ y \in TxT /\ y.pc = "locked" /\ y.stream = tx[t].stream
          /\ y.event = tx[t].event
      BY <1>2, <2>1, PcMoves DEF Pcs
    <2> QED BY <2>1, <2>2
  <1>4. tx' = [tx EXCEPT ![t] = x] BY <1>1, <1>3 DEF Lock
  <1>6. x.pc \notin Pending BY <1>3 DEF Pending
  <1>5. Continues(x)' BY <1>2, <1>3, <1>6 DEF Continues
  <1> QED BY <1>1, <1>2, <1>3, <1>4, <1>5, <1>6, GoesOn

LEMMA ReadTailKeeps ==
  ASSUME PgInv, NEW t \in Tasks, ReadTail(t)
  PROVE  PgInv'
  <1>1. /\ Typed /\ Chains /\ InProgress /\ tx \in [Tasks -> TxT] /\ last_id \in Nat
    BY DEF PgInv, Typed
  <1>2. /\ tx[t].pc = "locked" /\ tx[t] \in TxT /\ Continues(tx[t])
        /\ UNCHANGED <<rows, heads, told, scan, view>> /\ last_id' \in Nat /\ last_id <= last_id'
    BY <1>1 DEF ReadTail, InProgress
  <1>3. PICK s \in Streams : s = tx[t].stream BY <1>2 DEF Continues
  <1>4. PICK x \in TxT : /\ x = [tx[t] EXCEPT !.pc = "read", !.sequence = NextSeq(s),
                                              !.prev_hash = PrevHash(s)]
                         /\ x.pc = "read" /\ x.stream = s /\ x.event = tx[t].event
                         /\ x.sequence = NextSeq(s) /\ x.prev_hash = PrevHash(s)
    <2> DEFINE y == [tx[t] EXCEPT !.pc = "read", !.sequence = NextSeq(s), !.prev_hash = PrevHash(s)]
    <2>1. y = [tx[t] EXCEPT !.pc = "read", !.sequence = NextSeq(s), !.prev_hash = PrevHash(s)] OBVIOUS
    <2> HIDE DEF y
    <2>2. /\ y \in TxT /\ y.pc = "read" /\ y.stream = s /\ y.event = tx[t].event
          /\ y.sequence = NextSeq(s) /\ y.prev_hash = PrevHash(s)
      <3>1. NextSeq(s) \in Nat /\ PrevHash(s) \in Hash BY <1>1, TailIs
      <3> QED BY ONLY <1>2, <1>3, <2>1, <3>1 DEF TxT, Pcs
    <2> QED BY <2>1, <2>2
  <1>5. tx' = [tx EXCEPT ![t] = x] BY <1>1, <1>3, <1>4 DEF ReadTail
  <1>6. Continues(x)'
    <2>1. x.sequence = Len(rows[s]) + 1 /\ PrevHash(s)' = PrevHash(s)
      BY <1>1, <1>2, <1>4, TailIs DEF PrevHash
    <2>2. x.pc \notin Pending BY <1>4 DEF Pending
    <2> QED BY <1>2, <1>3, <1>4, <2>1, <2>2 DEF Continues, PrevHash
  <1>7. tx[t].pc \in Holding /\ x.pc \notin Pending BY <1>2, <1>4 DEF Holding, Pending
  <1> QED BY <1>1, <1>2, <1>3, <1>4, <1>5, <1>6, <1>7, GoesOn

(* An append is over for its caller, who hears of it; nothing is stored by     *)
(* that, and at most an uncommitted row stays behind.                          *)
LEMMA EndsKeep ==
  ASSUME PgInv, NEW t \in Tasks, NEW x \in TxT, NEW a \in {"ok", "error", "refused"},
         tx[t].pc # "free", a # "error" => Stored(tx[t].event),
         tx' = [tx EXCEPT ![t] = x], told' = [told EXCEPT ![tx[t].event] = a],
         ~Waited(x), Continues(x)',
         x.pc # "free" => tx[t].pc \in Pending /\ x.event = tx[t].event /\ x.stream = tx[t].stream,
         UNCHANGED <<rows, heads, scan, view>>, last_id' \in Nat, last_id <= last_id'
  PROVE  PgInv'
  <1>1. /\ Typed /\ Apart /\ InProgress /\ Answered /\ tx \in [Tasks -> TxT] /\ last_id \in Nat
    BY DEF PgInv, Typed
  <1>2. Continues(tx[t]) BY <1>1 DEF InProgress
  <1>3. PICK e \in Events : e = tx[t].event BY <1>2 DEF Continues
  <1>4. told' = [told EXCEPT ![e] = a] BY <1>3
  <1>5. told' \in [Events -> Told] /\ told'[e] = a
        /\ \A d \in Events : d # e => told'[d] = told[d]
    BY <1>1, <1>4 DEF Typed, Told
  <1>6. tx' \in [Tasks -> TxT] /\ tx'[t] = x /\ \A u \in Tasks : u # t => tx'[u] = tx[u]
    BY <1>1
  <1>7. Chains' BY <1>1, NothingStored
  <1>8. Apart'
    <2>1. x.pc # "free" => tx[t].pc \in Holding BY DEF Holding
    <2>2. x.pc = "free" => x.pc \notin Pending /\ x.pc \notin Holding BY DEF Pending, Holding
    <2> QED BY <1>1, <1>6, <2>1, <2>2 DEF Apart
  <1>9. InProgress'
    <2>1. Continues(tx[t])' BY <1>6 DEF Continues
    <2>2. ASSUME NEW u \in Tasks, u # t PROVE Continues(tx[u])'
      <3>1. tx'[u] = tx[u] /\ Continues(tx[u]) /\ tx[u].id \in Nat
        BY <1>1, <1>6, <2>2 DEF InProgress, TxT
      <3>2. Stored(e) /\ tx[u].event = e => tx[u].pc \notin Pending BY <3>1 DEF Continues
      <3>3. ASSUME tx[u].pc # "free", tx[u].event = e PROVE a = "error"
        <4>1. CASE Waited(tx[u])
          <5>1. ~Waited(tx[t]) BY <1>1, <1>3, <2>2, <3>3, <4>1 DEF Apart
          <5>2. tx[t].pc = "orphan" BY <5>1 DEF Waited
          <5>3. ~Stored(e) BY <1>2, <1>3, <5>2 DEF Continues, Pending
          <5> QED BY <1>3, <5>3
        <4>2. CASE ~Waited(tx[u])
          <5>1. tx[u].pc \in Pending BY <3>3, <4>2 DEF Waited, Pending
          <5> QED BY <1>3, <3>2, <3>3, <5>1
        <4> QED BY <4>1, <4>2
      <3>4. tx[u].pc # "free" => /\ told'[tx[u].event] \in {"none", "error"}
                                /\ (tx[u].pc = "orphan" => told'[tx[u].event] = "error")
        BY <1>5, <3>1, <3>3 DEF Continues
      <3>5. tx[u].pc \in Pending => tx[u].id <= last_id' BY <1>1, <3>1 DEF Continues
      <3>6. /\ rows' = rows /\ \A s \in Streams : PrevHash(s)' = PrevHash(s)
            /\ \A d \in Events : Stored(d)' <=> Stored(d)
        BY DEF PrevHash, Stored
      <3>7. CASE tx[u].pc = "free" BY <3>1, <3>7 DEF Continues, Pending
      <3>8. CASE tx[u].pc # "free"
        <4>1. PICK s \in Streams, d \in Events : s = tx[u].stream /\ d = tx[u].event
          BY <3>1, <3>8 DEF Continues
        <4> QED BY <3>1, <3>4, <3>5, <3>6, <4>1 DEF Continues
      <3> QED BY <3>7, <3>8
    <2> QED BY <2>1, <2>2 DEF InProgress
  <1>10. Answered'
    <2>2. \A d \in Events : Stored(d)' <=> Stored(d) BY DEF Stored
    <2> QED BY <1>1, <1>3, <1>5, <2>2 DEF Answered
  <1>11. Read' BY NobodyReads
  <1>13. Fresh'
    <2>1. Fresh BY DEF PgInv
    <2>2. ASSUME NEW d \in Events, told'[d] = "none", Stored(d)'
          PROVE  \E u \in Tasks : tx'[u].pc = "committed" /\ tx'[u].event = d
      <3>1. d # e /\ told[d] = "none" /\ Stored(d) BY <1>5, <2>2 DEF Stored
      <3>2. PICK u \in Tasks : tx[u].pc = "committed" /\ tx[u].event = d
        BY <2>1, <3>1 DEF Fresh
      <3> QED BY <1>3, <1>6, <3>1, <3>2
    <2> QED BY <2>2 DEF Fresh
  <1>12. Typed' BY <1>1, <1>5, <1>6 DEF Typed
  <1> QED BY <1>7, <1>8, <1>9, <1>10, <1>11, <1>12, <1>13 DEF PgInv

(* An event that is stored was appended before, with an error. *)
LEMMA StoredIsRetried ==
  ASSUME PgInv, NEW t \in Tasks, InsertRow(t), Stored(tx[t].event)
  PROVE  told[tx[t].event] = "error"
  <1>1. tx[t].pc = "read" /\ Continues(tx[t]) BY DEF InsertRow, PgInv, InProgress
  <1>2. PICK e \in Events : e = tx[t].event /\ told[e] \in {"none", "error"} BY <1>1 DEF Continues
  <1>3. ASSUME told[e] = "none" PROVE FALSE
    <2>1. PICK u \in Tasks : tx[u].pc = "committed" /\ tx[u].event = e
      BY <1>2, <1>3 DEF PgInv, Fresh
    <2> QED BY <1>1, <1>2, <2>1 DEF PgInv, Apart, Waited
  <1> QED BY <1>2, <1>3

(* The slot is free: who holds the lock has read the end of the stream. *)
LEMMA SlotIsFree ==
  ASSUME PgInv, NEW t \in Tasks, InsertRow(t)
  PROVE  ~Taken(t)
  <1>1. Typed /\ Chains /\ Continues(tx[t]) /\ tx[t].pc = "read"
    BY DEF PgInv, InProgress, InsertRow
  <1>2. PICK s \in Streams : s = tx[t].stream BY <1>1 DEF Continues
  <1>3. tx[t].sequence = Len(rows[s]) + 1 BY <1>1, <1>2 DEF Continues
  <1>4. Len(rows[s]) \in Nat /\ DOMAIN rows[s] = 1..Len(rows[s]) BY <1>1, RowsType
  <1>5. \A i \in DOMAIN rows[s] : rows[s][i].sequence = i BY <1>1, <1>4 DEF Chains, Chain
  <1> QED BY <1>2, <1>3, <1>4, <1>5 DEF Taken

LEMMA RefusedKeeps ==
  ASSUME PgInv, NEW t \in Tasks, InsertRow(t), Stored(tx[t].event)
  PROVE  PgInv'
  <1>1. /\ tx[t].pc = "read" /\ tx' = [tx EXCEPT ![t] = Free] /\ last_id' = last_id + 1
        /\ told' = [told EXCEPT ![tx[t].event] = "refused"] /\ UNCHANGED <<rows, heads, scan, view>>
    BY DEF InsertRow
  <1>2. last_id \in Nat /\ last_id' \in Nat /\ last_id <= last_id' BY <1>1 DEF PgInv, Typed
  <1>3. Continues(Free)' /\ ~Waited(Free) BY FreeType DEF Continues, Pending, Waited
  <1> QED BY <1>1, <1>2, <1>3, FreeType, EndsKeep

LEMMA InsertRowKeeps ==
  ASSUME PgInv, NEW t \in Tasks, InsertRow(t), ~Stored(tx[t].event)
  PROVE  PgInv'
  <1>1. /\ Typed /\ Chains /\ InProgress /\ tx \in [Tasks -> TxT] /\ last_id \in Nat
    BY DEF PgInv, Typed
  <1>2. /\ tx[t].pc = "read" /\ tx[t] \in TxT /\ Continues(tx[t])
        /\ UNCHANGED <<rows, heads, scan, view>> /\ last_id' = last_id + 1
    BY <1>1 DEF InsertRow, InProgress
  <1>3. PICK s \in Streams : s = tx[t].stream BY <1>2 DEF Continues
  <1>4. ~Taken(t) BY SlotIsFree
  <1>5. PICK x \in TxT : /\ x = [tx[t] EXCEPT !.pc = "inserted", !.id = last_id + 1]
                         /\ x.pc = "inserted" /\ x.stream = s /\ x.event = tx[t].event
                         /\ x.sequence = tx[t].sequence /\ x.prev_hash = tx[t].prev_hash
                         /\ x.id = last_id + 1
    <2> DEFINE y == [tx[t] EXCEPT !.pc = "inserted", !.id = last_id + 1]
    <2>1. y = [tx[t] EXCEPT !.pc = "inserted", !.id = last_id + 1] OBVIOUS
    <2> HIDE DEF y
    <2>2. /\ y \in TxT /\ y.pc = "inserted" /\ y.stream = s /\ y.event = tx[t].event
          /\ y.sequence = tx[t].sequence /\ y.prev_hash = tx[t].prev_hash
          /\ y.id = last_id + 1
      <3>1. last_id + 1 \in Nat BY <1>1
      <3> QED BY ONLY <1>2, <1>3, <2>1, <3>1 DEF TxT, Pcs
    <2> QED BY <2>1, <2>2
  <1>6. tx' = [tx EXCEPT ![t] = x] /\ told' = told BY <1>1, <1>4, <1>5 DEF InsertRow
  <1>7. Continues(x)'
    <2>1. \A i \in 1..Len(rows[s]) : rows[s][i].id < last_id + 1
      BY <1>1, RowsType DEF Chains, Chain, RowT
    <2> QED BY <1>1, <1>2, <1>3, <1>5, <1>6, <2>1 DEF Continues, PrevHash, Stored, Pending
  <1>8. tx[t].pc \in Holding /\ tx[t].pc \notin {"free", "orphan", "committed"} BY <1>2 DEF Holding
  <1>9. last_id' \in Nat /\ last_id <= last_id' BY <1>1, <1>2
  <1>10. \A u \in Tasks \ {t} : tx[u].pc \in Pending => tx[u].event # x.event
    BY <1>5 DEF InsertRow, AheadOf, SameKey
  <1> QED BY <1>2, <1>3, <1>5, <1>6, <1>7, <1>8, <1>9, <1>10, GoesOn

LEMMA UpsertHeadKeeps ==
  ASSUME PgInv, NEW t \in Tasks, UpsertHead(t)
  PROVE  PgInv'
  <1>1. Typed /\ InProgress /\ tx \in [Tasks -> TxT] /\ last_id \in Nat BY DEF PgInv, Typed
  <1>2. /\ tx[t].pc = "inserted" /\ tx[t] \in TxT /\ Continues(tx[t])
        /\ UNCHANGED <<rows, heads, told, scan, view>> /\ last_id' \in Nat /\ last_id <= last_id'
    BY <1>1 DEF UpsertHead, InProgress
  <1>3. PICK x \in TxT : /\ x = [tx[t] EXCEPT !.pc = "headed"] /\ x.pc = "headed"
                         /\ x.stream = tx[t].stream /\ x.event = tx[t].event
                         /\ x.sequence = tx[t].sequence /\ x.prev_hash = tx[t].prev_hash
                         /\ x.id = tx[t].id
    <2> DEFINE y == [tx[t] EXCEPT !.pc = "headed"]
    <2>1. y = [tx[t] EXCEPT !.pc = "headed"] OBVIOUS
    <2> HIDE DEF y
    <2>2. /\ y \in TxT /\ y.pc = "headed" /\ y.stream = tx[t].stream
          /\ y.event = tx[t].event /\ y.sequence = tx[t].sequence
          /\ y.prev_hash = tx[t].prev_hash /\ y.id = tx[t].id
      BY <1>2, <2>1, PcMoves DEF Pcs
    <2> QED BY <2>1, <2>2
  <1>4. tx' = [tx EXCEPT ![t] = x] BY <1>1, <1>3 DEF UpsertHead
  <1>5. Continues(x)'
    <2>1. tx[t].id \in Nat BY <1>2 DEF TxT
    <2> QED BY <1>1, <1>2, <1>3, <2>1 DEF Continues, PrevHash, Stored, Pending
  <1>6. tx[t].pc \in Holding /\ tx[t].pc \in Pending BY <1>2 DEF Holding, Pending
  <1> QED BY <1>1, <1>2, <1>3, <1>4, <1>5, <1>6, GoesOn

(* What COMMIT makes visible: one row at the end of its stream. *)
LEMMA CommitIs ==
  ASSUME PgInv, NEW t \in Tasks, Commit(t)
  PROVE  \E s \in Streams, e \in Events, n \in Nat, k \in RowT, rs \in Seq(RowT) :
            /\ s = tx[t].stream /\ e = tx[t].event /\ n = Len(rows[s]) /\ rs = Append(rows[s], k)
            /\ k = Row(tx[t]) /\ k.event = e /\ k.sequence = n + 1 /\ k.prev_hash = PrevHash(s)
            /\ k.hash = compute_hash(e, n + 1, k.prev_hash) /\ k.id = tx[t].id
            /\ Len(rs) = n + 1 /\ \A i \in 1..n : rs[i] = rows[s][i]
            /\ DOMAIN rs = 1..(n + 1) /\ rs[n + 1] = k /\ rs # << >>
            /\ rows' \in [Streams -> Seq(RowT)] /\ rows'[s] = rs
            /\ \A d \in Streams : d # s => rows'[d] = rows[d]
  <1>1. /\ Typed /\ Chains /\ InProgress /\ tx \in [Tasks -> TxT]
    BY DEF PgInv, Typed
  <1>2. /\ tx[t].pc \in Pending /\ tx[t] \in TxT /\ Continues(tx[t])
    BY <1>1 DEF Commit, InProgress, Pending
  <1>3. PICK s \in Streams, e \in Events : s = tx[t].stream /\ e = tx[t].event
    BY <1>2 DEF Continues, Pending
  <1>4. PICK n \in Nat : n = Len(rows[s]) BY <1>1, RowsType
  <1>5. PICK k \in RowT :
          /\ k = Row(tx[t]) /\ k.event = e /\ k.sequence = n + 1 /\ k.prev_hash = PrevHash(s)
          /\ k.hash = compute_hash(e, n + 1, k.prev_hash) /\ k.id = tx[t].id
    <2> DEFINE k == Row(tx[t])
    <2>1. tx[t].sequence = n + 1 /\ tx[t].prev_hash = PrevHash(s)
      BY <1>2, <1>3, <1>4 DEF Continues
    <2>2. tx[t].id \in Nat /\ n + 1 \in Nat /\ PrevHash(s) \in Hash
      <3>1. tx[t].id \in Nat BY <1>2 DEF TxT
      <3>2. PrevHash(s) \in Hash BY <1>1, TailIs
      <3> QED BY <3>1, <3>2
    <2>3. compute_hash(e, n + 1, PrevHash(s)) \in Hash
      <3>1. << e, n + 1 >> \in Events \X Nat OBVIOUS
      <3> QED BY <2>2, <3>1, AppendProperties DEF compute_hash, Hash
    <2>4. k = [event |-> e, sequence |-> n + 1, prev_hash |-> PrevHash(s),
               hash |-> compute_hash(e, n + 1, PrevHash(s)), id |-> tx[t].id]
      BY <1>3, <2>1 DEF Row
    <2> HIDE DEF k
    <2>5. k \in RowT BY <2>2, <2>3, <2>4 DEF RowT
    <2>6. /\ k.event = e /\ k.sequence = n + 1 /\ k.prev_hash = PrevHash(s)
          /\ k.hash = compute_hash(e, n + 1, PrevHash(s)) /\ k.id = tx[t].id
      BY <2>4
    <2> QED BY <2>5, <2>6 DEF k
  <1>6. PICK rs \in Seq(RowT) : rs = Append(rows[s], k) BY <1>1, RowsType, AppendProperties
  <1>7. /\ Len(rs) = n + 1 /\ \A i \in 1..n : rs[i] = rows[s][i]
        /\ DOMAIN rs = 1..(n + 1) /\ rs[n + 1] = k /\ rs # << >>
    <2>1. rows[s] \in Seq(RowT) BY <1>1, RowsType
    <2>2. /\ Len(rs) = n + 1 /\ rs[n + 1] = k /\ rs # << >>
          /\ \A i \in 1..n : rs[i] = rows[s][i]
      BY <1>4, <1>6, <2>1, AppendProperties
    <2>3. DOMAIN rs = 1..(n + 1) BY <2>2, LenProperties
    <2> QED BY <2>2, <2>3
  <1>8. /\ rows' \in [Streams -> Seq(RowT)] /\ rows'[s] = rs
        /\ \A d \in Streams : d # s => rows'[d] = rows[d]
    <2>1. rows' = [rows EXCEPT ![s] = rs] BY <1>1, <1>3, <1>5, <1>6 DEF Commit, Committed, Typed
    <2> QED BY <1>1, <2>1 DEF Typed
  <1> QED BY <1>3, <1>4, <1>5, <1>6, <1>7, <1>8

(* The row an append commits continues its stream, and nobody else is at work *)
(* on that stream beyond the lock.                                            *)
LEMMA CommitKeeps ==
  ASSUME PgInv, NEW t \in Tasks, Commit(t)
  PROVE  PgInv'
  <1>1. /\ Typed /\ Chains /\ Apart /\ InProgress /\ Answered /\ Read
        /\ tx \in [Tasks -> TxT] /\ last_id \in Nat
    BY DEF PgInv, Typed
  <1>2. /\ tx[t].pc \in {"headed", "orphan"} /\ tx[t].pc \in Pending
        /\ tx[t] \in TxT /\ Continues(tx[t])
        /\ UNCHANGED <<last_id, told, scan, view>>
    BY <1>1 DEF Commit, InProgress, Pending
  <1>3. PICK s \in Streams, e \in Events, n \in Nat, k \in RowT, rs \in Seq(RowT) :
            /\ s = tx[t].stream /\ e = tx[t].event /\ n = Len(rows[s]) /\ rs = Append(rows[s], k)
            /\ k = Row(tx[t]) /\ k.event = e /\ k.sequence = n + 1 /\ k.prev_hash = PrevHash(s)
            /\ k.hash = compute_hash(e, n + 1, k.prev_hash) /\ k.id = tx[t].id
            /\ Len(rs) = n + 1 /\ \A i \in 1..n : rs[i] = rows[s][i]
            /\ DOMAIN rs = 1..(n + 1) /\ rs[n + 1] = k /\ rs # << >>
            /\ rows' \in [Streams -> Seq(RowT)] /\ rows'[s] = rs
            /\ \A d \in Streams : d # s => rows'[d] = rows[d]
    BY CommitIs
  <1>4. n = Len(rows[s]) BY <1>3
  <1>5. /\ k = Row(tx[t]) /\ k.event = e /\ k.sequence = n + 1 /\ k.prev_hash = PrevHash(s)
        /\ k.hash = compute_hash(e, n + 1, k.prev_hash) /\ k.id = tx[t].id
    BY <1>3
  <1>7. /\ Len(rs) = n + 1 /\ \A i \in 1..n : rs[i] = rows[s][i]
        /\ DOMAIN rs = 1..(n + 1) /\ rs[n + 1] = k /\ rs # << >>
    BY <1>3
  <1>8. /\ rows' \in [Streams -> Seq(RowT)] /\ rows'[s] = rs
        /\ \A d \in Streams : d # s => rows'[d] = rows[d]
    BY <1>3
  <1>9. /\ heads' \in [Streams -> HeadT] /\ heads'[s] = [sequence |-> n + 1, hash |-> k.hash]
        /\ \A d \in Streams : d # s => heads'[d] = heads[d]
    <2>1. [sequence |-> n + 1, hash |-> k.hash] \in HeadT BY <1>4, <1>5 DEF RowT, HeadT
    <2>2. tx[t].sequence = n + 1 BY <1>2, <1>3, <1>4 DEF Continues
    <2>3. heads' = [heads EXCEPT ![s] = [sequence |-> n + 1, hash |-> k.hash]]
      BY <1>3, <1>5, <2>2 DEF Commit, Committed
    <2> QED BY <1>1, <2>1, <2>3 DEF Typed
  <1>10. PICK x \in TxT : /\ tx' = [tx EXCEPT ![t] = x]
                          /\ IF tx[t].pc = "orphan" THEN x = Free
                             ELSE x.pc = "committed" /\ x.stream = s /\ x.event = e
    <2>1. CASE tx[t].pc = "orphan" BY <1>1, <2>1, FreeType DEF Commit
    <2>2. CASE tx[t].pc # "orphan"
      <3> DEFINE y == [tx[t] EXCEPT !.pc = "committed"]
      <3>1. y = [tx[t] EXCEPT !.pc = "committed"] OBVIOUS
      <3> HIDE DEF y
      <3>2. y \in TxT /\ y.pc = "committed" /\ y.stream = tx[t].stream /\ y.event = tx[t].event
        BY <1>2, <3>1, PcMoves DEF Pcs
      <3>3. s = tx[t].stream /\ e = tx[t].event BY <1>3
      <3>4. tx' = [tx EXCEPT ![t] = y] BY <1>1, <2>2, <3>1 DEF Commit
      <3> QED BY <2>2, <3>2, <3>3, <3>4
    <2> QED BY <2>1, <2>2
  <1>12. tx' \in [Tasks -> TxT] /\ tx'[t] = x /\ \A u \in Tasks : u # t => tx'[u] = tx[u]
    BY <1>1, <1>10
  <1>11. x.pc \in {"free", "committed"} /\ x.pc \notin Holding /\ x.pc \notin Pending
    BY <1>10, FreeType DEF Holding, Pending
  <1>13. Chains'
    <2>1. ASSUME NEW d \in Streams, d # s PROVE Chain(d)'
      <3>1. rows'[d] = rows[d] /\ heads'[d] = heads[d] /\ last_id' = last_id /\ Chain(d)
        BY <1>1, <1>2, <1>8, <1>9, <2>1 DEF Chains
      <3> QED BY <3>1 DEF Chain
    <2>2. Chain(s)'
      <3>1. Chain(s) /\ Len(rows[s]) = n BY <1>1, <1>4 DEF Chains
      <3>2. \A i \in 1..(n + 1) : i \in 1..n \/ i = n + 1 BY <1>4
      <3>3. ASSUME NEW i \in 1..n
            PROVE  /\ rs[i].sequence = i
                   /\ rs[i].prev_hash = (IF i = 1 THEN NoHash ELSE rs[i - 1].hash)
                   /\ rs[i].hash = compute_hash(rs[i].event, i, rs[i].prev_hash)
                   /\ rs[i].id <= last_id
        <4>1. rs[i] = rows[s][i] /\ (i # 1 => i - 1 \in 1..n /\ rs[i - 1] = rows[s][i - 1])
          BY <1>4, <1>7
        <4> QED BY <3>1, <4>1 DEF Chain
      <3>4. /\ k.prev_hash = (IF n + 1 = 1 THEN NoHash ELSE rs[n].hash)
            /\ k.id <= last_id
        <4>1. k.prev_hash = (IF n = 0 THEN NoHash ELSE rows[s][n].hash)
          BY <1>1, <1>4, <1>5, TailIs
        <4>2. n # 0 => n \in 1..n BY <1>4
        <4>3. k.id <= last_id BY <1>2, <1>5 DEF Continues
        <4> QED BY <1>4, <1>7, <4>1, <4>2, <4>3
      <3>5. ASSUME NEW i \in 1..(n + 1), NEW j \in 1..(n + 1), i < j PROVE rs[i].id < rs[j].id
        <4>1. i \in 1..n BY <1>4, <3>5
        <4>2. CASE j \in 1..n BY <1>7, <3>1, <3>5, <4>1, <4>2 DEF Chain
        <4>3. CASE j = n + 1
          <5>1. rows[s][i].id < tx[t].id BY <1>2, <1>3, <1>4, <4>1 DEF Continues
          <5> QED BY <1>5, <1>7, <4>1, <4>3, <5>1
        <4> QED BY <3>2, <4>2, <4>3
      <3>6. heads'[s] = Tip(rs)
        <4>1. Last(rs) = k BY <1>7 DEF Last
        <4> QED BY <1>5, <1>7, <1>9, <4>1 DEF Tip
      <3>7. ASSUME NEW i \in 1..(n + 1)
            PROVE  /\ rs[i].sequence = i
                   /\ rs[i].prev_hash = (IF i = 1 THEN NoHash ELSE rs[i - 1].hash)
                   /\ rs[i].hash = compute_hash(rs[i].event, i, rs[i].prev_hash)
                   /\ rs[i].id <= last_id
        <4>1. CASE i \in 1..n BY <3>3, <4>1
        <4>2. CASE i = n + 1
          <5>1. i - 1 = n BY <1>4, <4>2
          <5> QED BY <1>5, <1>7, <3>4, <4>2, <5>1
        <4> QED BY <3>2, <4>1, <4>2
      <3> QED BY <1>2, <1>7, <1>8, <3>5, <3>6, <3>7 DEF Chain
    <2> QED BY <2>1, <2>2 DEF Chains
  <1>14. Apart'
    <2>1. Waited(x) => x.event = tx[t].event /\ Waited(tx[t])
      BY <1>2, <1>3, <1>10, FreeType DEF Waited
    <2>2. tx'[t] = x /\ \A u \in Tasks : u # t => tx'[u] = tx[u] BY <1>12
    <2> QED BY ONLY <1>1, <1>11, <2>1, <2>2 DEF Apart, Waited
  <1>15. Stored(e)' /\ \A d \in Events : d # e => (Stored(d)' <=> Stored(d))
    <2>1. Stored(e)' BY <1>4, <1>5, <1>7, <1>8 DEF Stored
    <2>2. ASSUME NEW d \in Events, Stored(d) PROVE Stored(d)'
      <3>1. PICK z \in Streams : \E i \in DOMAIN rows[z] : rows[z][i].event = d
        BY <2>2 DEF Stored
      <3>2. PICK i \in DOMAIN rows[z] : rows[z][i].event = d BY <3>1
      <3>3. CASE z # s BY <1>8, <3>2, <3>3 DEF Stored
      <3>4. CASE z = s
        <4>1. i \in 1..n BY <1>1, <1>4, <3>2, <3>4, RowsType
        <4>2. i \in DOMAIN rs /\ rs[i] = rows[s][i] BY <1>4, <1>7, <4>1
        <4> QED BY <1>8, <3>2, <3>4, <4>2 DEF Stored
      <3> QED BY <3>3, <3>4
    <2>3. ASSUME NEW d \in Events, d # e, Stored(d)' PROVE Stored(d)
      <3>1. PICK z \in Streams : \E i \in DOMAIN rows'[z] : rows'[z][i].event = d
        BY <2>3 DEF Stored
      <3>2. PICK i \in DOMAIN rows'[z] : rows'[z][i].event = d BY <3>1
      <3>3. CASE z # s BY <1>8, <3>2, <3>3 DEF Stored
      <3>4. CASE z = s
        <4>1. i \in 1..(n + 1) /\ rs[i].event = d BY <1>7, <1>8, <3>2, <3>4
        <4>2. i # n + 1 BY <1>5, <1>7, <2>3, <4>1
        <4>3. i \in 1..n BY <1>4, <4>1, <4>2
        <4>4. i \in DOMAIN rows[s] /\ rows[s][i].event = d
          BY <1>1, <1>4, <1>7, <4>1, <4>3, RowsType
        <4> QED BY <4>4 DEF Stored
      <3> QED BY <3>3, <3>4
    <2> QED BY <2>1, <2>2, <2>3
  <1>16. InProgress'
    <2>1. Continues(tx[t])'
      <3>1. told'[e] \in {"none", "error"} /\ Stored(e)' BY <1>2, <1>3, <1>15 DEF Continues, Pending
      <3> QED BY <1>10, <1>11, <1>12, <3>1, FreeType DEF Continues, Pending
    <2>2. ASSUME NEW u \in Tasks, u # t PROVE Continues(tx[u])'
      <3>1. tx'[u] = tx[u] /\ Continues(tx[u]) BY <1>1, <1>12, <2>2 DEF InProgress
      <3>2. tx[u].pc \in Pending => tx[u].event # e BY <1>1, <1>2, <1>3, <2>2 DEF Apart
      <3>3. tx[u].pc \in {"read"} \cup Pending => tx[u].stream # s
        BY <1>1, <1>2, <1>3, <2>2 DEF Apart, Holding
      <3>4. /\ tx[u].pc \in Pending => ~Stored(tx[u].event)'
            /\ tx[u].pc = "committed" => Stored(tx[u].event)'
        BY <1>15, <3>1, <3>2 DEF Continues, Pending
      <3>5. tx[u].pc \in {"read"} \cup Pending =>
              tx[u].stream \in Streams /\ rows'[tx[u].stream] = rows[tx[u].stream]
        BY <1>8, <3>1, <3>3 DEF Continues, Pending
      <3> QED BY <1>2, <3>1, <3>4, <3>5 DEF Continues, PrevHash
    <2> QED BY <2>1, <2>2 DEF InProgress
  <1>19. Answered' BY <1>1, <1>2, <1>15 DEF Answered
  <1>20. Fresh'
    <2>1. Fresh BY DEF PgInv
    <2>2. \A u \in Tasks : tx[u].pc = "committed" => tx'[u] = tx[u] BY <1>2, <1>12
    <2>3. told' = told /\ (told[e] = "none" => tx'[t].pc = "committed" /\ tx'[t].event = e)
      BY <1>2, <1>3, <1>10, <1>12 DEF Continues
    <2> QED BY ONLY <1>15, <2>1, <2>2, <2>3 DEF Fresh
  <1>17. Read'
    <2>1. CASE view.stream \notin Streams \/ view.stream # s
      <3>1. view.stream # "" => view.stream \in Streams BY <1>1 DEF Typed, ViewT
      <3>2. view.stream # "" => rows'[view.stream] = rows[view.stream] BY <1>8, <2>1, <3>1
      <3> QED BY <1>1, <1>2, <3>2 DEF Read
    <2>2. CASE view.stream = s
      <3>1. Len(view.rows) \in Nat /\ view.answer \in Nat
        BY <1>1, LenProperties DEF Typed, ViewT
      <3>2. CASE s = "" BY <1>1, <1>2, <2>2, <3>2 DEF Read
      <3>3. CASE s # ""
        <4>1. /\ Len(view.rows) <= n
              /\ \A i \in 1..Len(view.rows) : view.rows[i] = rows[s][i]
              /\ view.kind # "none" => view.answer \in Len(view.rows)..n
          BY <1>1, <1>4, <2>2, <3>3 DEF Read
        <4>2. /\ Len(view.rows) <= n + 1
              /\ view.kind # "none" => view.answer \in Len(view.rows)..(n + 1)
          BY <1>4, <3>1, <4>1
        <4>3. \A i \in 1..Len(view.rows) : view.rows[i] = rs[i]
          BY <1>4, <1>7, <3>1, <4>1
        <4> QED BY <1>1, <1>2, <1>7, <1>8, <2>2, <4>2, <4>3 DEF Read
      <3> QED BY <3>2, <3>3
    <2> QED BY <2>1, <2>2
  <1>18. Typed' BY <1>1, <1>2, <1>8, <1>9, <1>12 DEF Typed
  <1> QED BY <1>13, <1>14, <1>16, <1>17, <1>18, <1>19, <1>20 DEF PgInv

LEMMA AnswerKeeps ==
  ASSUME PgInv, NEW t \in Tasks, Answer(t)
  PROVE  PgInv'
  <1>1. PICK a \in {"ok", "error"} : told' = [told EXCEPT ![tx[t].event] = a] BY DEF Answer
  <1>2. tx[t].pc = "committed" /\ tx[t].pc # "free" /\ Free.pc \notin Pending
        /\ Free.pc \notin {"committed", "orphan"} /\ last_id \in Nat
    BY FreeType DEF Answer, Pending, PgInv, Typed
  <1>3. Stored(tx[t].event) BY <1>2 DEF PgInv, InProgress, Continues
  <1>4. Continues(Free)' BY FreeType, <1>2 DEF Continues
  <1>5. last_id' = last_id /\ last_id <= last_id' BY <1>2 DEF Answer
  <1> QED BY <1>1, <1>2, <1>3, <1>4, <1>5, FreeType, EndsKeep DEF Answer, Waited

(* What is rolled back leaves nothing but its id. *)
LEMMA RollBackKeeps ==
  ASSUME PgInv, NEW t \in Tasks, RollBack(t)
  PROVE  PgInv'
  <1>2. tx[t].pc # "free" /\ Free.pc \notin Pending /\ Free.pc = "free" /\ last_id \in Nat
    BY FreeType DEF RollBack, Pending, PgInv, Typed
  <1>4. Continues(Free)' BY <1>2 DEF Continues
  <1>5. last_id' = last_id /\ last_id <= last_id' BY <1>2 DEF RollBack
  <1> QED BY <1>2, <1>4, <1>5, FreeType, EndsKeep DEF RollBack, Waited

(* A COMMIT its caller does not wait for leaves all as it was. *)
LEMMA AbandonKeeps ==
  ASSUME PgInv, NEW t \in Tasks, Abandon(t)
  PROVE  PgInv'
  <1>1. /\ Typed /\ tx[t] \in TxT /\ Continues(tx[t]) /\ tx[t].pc = "headed" /\ last_id \in Nat
        /\ told' = [told EXCEPT ![tx[t].event] = "error"] /\ last_id' = last_id
        /\ UNCHANGED <<rows, heads, scan, view>>
    BY DEF PgInv, Typed, InProgress, Abandon
  <1>2. PICK e \in Events : e = tx[t].event BY <1>1 DEF Continues
  <1>3. PICK x \in TxT : /\ x = [tx[t] EXCEPT !.pc = "orphan"] /\ x.pc = "orphan"
                         /\ x.stream = tx[t].stream /\ x.event = tx[t].event
                         /\ x.sequence = tx[t].sequence /\ x.prev_hash = tx[t].prev_hash
                         /\ x.id = tx[t].id
    <2> DEFINE y == [tx[t] EXCEPT !.pc = "orphan"]
    <2>1. y = [tx[t] EXCEPT !.pc = "orphan"] OBVIOUS
    <2> HIDE DEF y
    <2>2. /\ y \in TxT /\ y.pc = "orphan" /\ y.stream = tx[t].stream
          /\ y.event = tx[t].event /\ y.sequence = tx[t].sequence
          /\ y.prev_hash = tx[t].prev_hash /\ y.id = tx[t].id
      BY <1>1, <2>1, PcMoves DEF Pcs
    <2> QED BY <2>1, <2>2
  <1>4. tx' = [tx EXCEPT ![t] = x] BY <1>1, <1>3 DEF Abandon, Typed
  <1>5. told'[e] = "error" BY <1>1, <1>2 DEF Typed
  <1>6. Continues(x)' BY <1>1, <1>2, <1>3, <1>5 DEF Continues, PrevHash, Stored, Pending
  <1>7. x.pc # "committed" /\ tx[t].pc # "free" /\ (x.pc # "free" => tx[t].pc \in Pending)
        /\ last_id <= last_id' /\ last_id' \in Nat /\ ~Waited(x)
    BY <1>1, <1>3 DEF Pending, Waited
  <1> QED BY <1>1, <1>3, <1>4, <1>6, <1>7, EndsKeep

------------------------------------------------------------------------------
(* Readers. *)

(* A reader changes what it knows and nothing else. *)
LEMMA ReadersKeep ==
  ASSUME PgInv, UNCHANGED <<rows, heads, last_id, tx, told>>,
         scan' \in ScanT, view' \in ViewT, Read'
  PROVE  PgInv'
  <1>1. Typed' BY DEF PgInv, Typed
  <1>2. last_id' \in Nat /\ last_id <= last_id' BY DEF PgInv, Typed
  <1>3. Chains' BY <1>2, NothingStored
  <1>4. Apart' /\ Answered' /\ Fresh' BY DEF PgInv, Apart, Answered, Fresh, Stored
  <1>5. InProgress' BY DEF PgInv, InProgress, Continues, PrevHash, Stored
  <1> QED BY <1>1, <1>3, <1>4, <1>5 DEF PgInv

LEMMA VerifyKeeps ==
  ASSUME PgInv, VerifyHead \/ \E s \in Streams : VerifyRows(s)
  PROVE  PgInv'
  <1>1. Typed /\ Chains /\ Read BY DEF PgInv
  <1>2. UNCHANGED <<rows, heads, last_id, tx, told, view>> BY DEF VerifyHead, VerifyRows
  <1>3. view' \in ViewT BY <1>1, <1>2 DEF Typed
  <1>4. scan' \in ScanT /\ scan'.verdict # "broken"
    <2>1. ASSUME NEW s \in Streams, VerifyRows(s) PROVE scan' \in ScanT /\ scan'.verdict # "broken"
      <3>1. WholeChain(rows[s]) /\ rows[s] \in Seq(RowT) BY <1>1, RowsType, ChainsAreWhole
      <3>2. scan' = [stream |-> s, rows |-> rows[s], verdict |-> "reading"]
        BY <2>1, <3>1 DEF VerifyRows
      <3> QED BY <3>1, <3>2 DEF ScanT
    <2>2. ASSUME VerifyHead PROVE scan' \in ScanT /\ scan'.verdict # "broken"
      <3>1. PICK v \in {"verified", "truncated"} : scan' = [scan EXCEPT !.verdict = v]
        BY <2>2 DEF VerifyHead
      <3>2. scan \in ScanT BY <1>1 DEF Typed
      <3> QED BY <3>1, <3>2 DEF ScanT
    <2> QED BY <2>1, <2>2
  <1>5. Read' BY <1>1, <1>2, <1>4 DEF Read
  <1> QED BY <1>2, <1>3, <1>4, <1>5, ReadersKeep

LEMMA ReadStreamKeeps ==
  ASSUME PgInv, NEW s \in Streams, ReadStream(s)
  PROVE  PgInv'
  <1>1. Typed /\ Read BY DEF PgInv
  <1>2. UNCHANGED <<rows, heads, last_id, tx, told, scan>> BY DEF ReadStream
  <1>3. rows[s] \in Seq(RowT) /\ Len(rows[s]) \in Nat BY <1>1, RowsType
  <1>4. view' = [stream |-> s, rows |-> rows[s], kind |-> "none", answer |-> 0]
    BY DEF ReadStream, NoView
  <1>5. view' \in ViewT BY <1>3, <1>4 DEF ViewT
  <1>6. Read'
    <2>1. /\ view'.stream = s /\ view'.rows = rows[s] /\ view'.kind = "none"
          /\ rows' = rows /\ scan'.verdict # "broken"
      BY <1>1, <1>2, <1>4 DEF Read
    <2>2. Len(view'.rows) <= Len(rows'[s]) BY <1>3, <2>1
    <2> QED BY ONLY <2>1, <2>2 DEF Read
  <1>7. scan' \in ScanT BY <1>1, <1>2 DEF Typed
  <1> QED BY <1>2, <1>5, <1>6, <1>7, ReadersKeep

LEMMA AskKeeps ==
  ASSUME PgInv, NEW kind \in {"count", "last_sequence"}, Ask(kind)
  PROVE  PgInv'
  <1>1. Typed /\ Chains /\ Read BY DEF PgInv
  <1>2. UNCHANGED <<rows, heads, last_id, tx, told, scan>> BY DEF Ask
  <1>3. PICK s \in Streams : s = view.stream /\ s # "" BY <1>1 DEF Ask, Typed, ViewT
  <1>4. PICK n \in Nat : n = Len(rows[s]) BY <1>1, RowsType
  <1>5. view' = [view EXCEPT !.kind = kind, !.answer = n]
    <2>1. NextSeq(s) - 1 = n BY <1>1, <1>4, TailIs
    <2> QED BY <1>3, <1>4, <2>1 DEF Ask
  <1>6. view \in ViewT /\ Len(view.rows) \in Nat BY <1>1, LenProperties DEF Typed, ViewT
  <1>7. /\ view' \in ViewT /\ view'.stream = s /\ view'.rows = view.rows /\ view'.answer = n
    BY <1>3, <1>5, <1>6 DEF ViewT
  <1>8. Read'
    <2>1. /\ Len(view.rows) <= n
          /\ \A i \in 1..Len(view.rows) : view.rows[i] = rows[s][i]
          /\ scan.verdict # "broken"
      BY <1>1, <1>3, <1>4 DEF Read
    <2>2. n \in Len(view.rows)..n BY <1>6, <2>1
    <2>3. /\ view'.stream = s /\ view'.rows = view.rows /\ view'.answer = n
          /\ rows' = rows /\ scan' = scan /\ n = Len(rows[s])
      BY <1>2, <1>4, <1>7
    <2> QED BY ONLY <2>1, <2>2, <2>3 DEF Read
  <1>9. scan' \in ScanT BY <1>1, <1>2 DEF Typed
  <1> QED BY <1>2, <1>7, <1>8, <1>9, ReadersKeep

------------------------------------------------------------------------------
(* The theorems. *)

LEMMA InitPg == Init => PgInv
  <1> SUFFICES ASSUME Init PROVE PgInv OBVIOUS
  <1>1. << >> \in Seq(RowT) /\ Len(<< >>) = 0 /\ NoHash \in Hash BY DEF NoHash, Hash
  <1>2. NoHead \in HeadT BY <1>1 DEF NoHead, HeadT
  <1>3. scan \in ScanT /\ scan.verdict = "none" BY <1>1 DEF Init, ScanT
  <1>4. view \in ViewT /\ view.stream = "" BY <1>1 DEF Init, NoView, ViewT
  <1>5. Typed BY <1>1, <1>2, <1>3, <1>4, FreeType DEF Init, Typed, Told
  <1>6. Chains
    <2> SUFFICES ASSUME NEW s \in Streams PROVE Chain(s) BY DEF Chains
    <2>1. rows[s] = << >> /\ heads[s] = NoHead /\ Len(rows[s]) = 0 BY <1>1 DEF Init
    <2> QED BY <2>1 DEF Chain, Tip
  <1>7. Apart /\ InProgress BY FreeType DEF Init, Apart, InProgress, Continues, Holding, Pending, Waited
  <1>8. Answered /\ Read BY <1>3, <1>4 DEF Init, Answered, Read
  <1>9. Fresh
    <2>1. \A s \in Streams : rows[s] = << >> /\ DOMAIN rows[s] = {}
      <3>1. \A s \in Streams : rows[s] = << >> /\ DOMAIN rows[s] = 1..Len(rows[s])
        BY <1>5, RowsType DEF Init
      <3> QED BY <1>1, <3>1
    <2> QED BY <2>1 DEF Fresh, Stored
  <1> QED BY <1>5, <1>6, <1>7, <1>8, <1>9 DEF PgInv

LEMMA PgStep == PgInv /\ [Next]_vars => PgInv'
  <1> SUFFICES ASSUME PgInv, [Next]_vars PROVE PgInv' OBVIOUS
  <1>1. CASE UNCHANGED vars
    <2>1. UNCHANGED <<rows, heads, last_id, tx, told, scan, view>> BY <1>1 DEF vars
    <2> QED BY <2>1, NobodyReads, ReadersKeep
  <1>2. ASSUME NEW t \in Tasks, NEW s \in Streams, NEW e \in Events, Begin(t, s, e) PROVE PgInv'
    BY <1>2, BeginKeeps
  <1>3. ASSUME NEW t \in Tasks,
               Lock(t) \/ ReadTail(t) \/ InsertRow(t) \/ UpsertHead(t) \/ Commit(t)
               \/ Answer(t) \/ Abandon(t) \/ RollBack(t)
        PROVE  PgInv'
    BY <1>3, LockKeeps, ReadTailKeeps, InsertRowKeeps, RefusedKeeps, UpsertHeadKeeps, CommitKeeps,
       AnswerKeeps, AbandonKeeps, RollBackKeeps
  <1>4. ASSUME NEW s \in Streams, VerifyRows(s) \/ ReadStream(s) PROVE PgInv'
    BY <1>4, VerifyKeeps, ReadStreamKeeps
  <1>5. CASE VerifyHead BY <1>5, VerifyKeeps
  <1>6. ASSUME NEW kind \in {"count", "last_sequence"}, Ask(kind) PROVE PgInv'
    BY <1>6, AskKeeps
  <1> QED BY <1>1, <1>2, <1>3, <1>4, <1>5, <1>6 DEF Next

(* What tasks have read under the advisory lock stays true until they commit, *)
(* at READ COMMITTED and whatever streams share a lock.                       *)
THEOREM PgInvariant == Spec => []PgInv
  BY InitPg, PgStep, PTL DEF Spec

(* The PostgreSQL store keeps every stream one chain that its head ends, never *)
(* runs into its unique index, stores what it acknowledges, and answers        *)
(* readers with beginnings of streams.                                         *)
THEOREM StoreIsSound == Spec => []PgSound
  <1>1. PgInv => PgSound
    <2> SUFFICES ASSUME PgInv PROVE PgSound OBVIOUS
    <2>1. Typed /\ Chains /\ Answered /\ Read BY DEF PgInv
    <2>2. ASSUME NEW s \in Streams
          PROVE  /\ WholeChain(rows[s]) /\ heads[s] = Tip(rows[s])
                 /\ \A i \in DOMAIN rows[s] : rows[s][i].sequence = i
                 /\ \A i, j \in DOMAIN rows[s] : i < j => rows[s][i].id < rows[s][j].id
      <3>1. DOMAIN rows[s] = 1..Len(rows[s]) BY <2>1, RowsType
      <3> QED BY <2>1, <3>1, ChainsAreWhole DEF Chains, Chain
    <2>3. ASSUME view.stream # ""
          PROVE  /\ IsPrefix(view.rows, rows[view.stream])
                 /\ view.kind # "none" => view.answer \in Len(view.rows)..Len(rows[view.stream])
      <3>1. PICK s \in Streams : s = view.stream BY <2>1, <2>3 DEF Typed, ViewT
      <3>2. PICK v \in Seq(RowT) : v = view.rows BY <2>1 DEF Typed, ViewT
      <3>3. PICK rs \in Seq(RowT) : rs = rows[s] BY <2>1, RowsType
      <3>4. PICK n \in Nat : n = Len(v) BY LenProperties
      <3>5. n <= Len(rs) /\ \A i \in 1..n : v[i] = rs[i]
        BY <2>1, <2>3, <3>1, <3>2, <3>3, <3>4 DEF Read
      <3>6. \A i \in 1..n : v[i] \in RowT /\ rs[i] \in RowT BY <3>4, <3>5, ElementOfSeq
      <3>7. /\ SubSeq(v, 1, n) \in Seq(RowT) /\ Len(SubSeq(v, 1, n)) = n
            /\ \A i \in 1..n : SubSeq(v, 1, n)[i] = v[i]
        <4>1. 1 \in Int /\ n \in Int /\ n - 1 + 1 = n /\ (~(1 <= n) => n = 0) BY <3>4
        <4>2. \A i \in 1..n : 1 + i - 1 = i OBVIOUS
        <4> QED BY <3>6, <4>1, <4>2, SubSeqProperties
      <3>8. /\ SubSeq(rs, 1, n) \in Seq(RowT) /\ Len(SubSeq(rs, 1, n)) = n
            /\ \A i \in 1..n : SubSeq(rs, 1, n)[i] = rs[i]
        <4>1. 1 \in Int /\ n \in Int /\ n - 1 + 1 = n /\ (~(1 <= n) => n = 0) BY <3>4
        <4>2. \A i \in 1..n : 1 + i - 1 = i OBVIOUS
        <4> QED BY <3>6, <4>1, <4>2, SubSeqProperties
      <3>9. SubSeq(v, 1, n) = SubSeq(rs, 1, n) BY <3>5, <3>7, <3>8, SeqEqual
      <3>10. IsPrefix(v, rs) BY <3>4, <3>5, <3>9 DEF IsPrefix
      <3> QED BY <2>1, <2>3, <3>1, <3>2, <3>3, <3>10 DEF Read
    <2> QED BY <2>1, <2>2, <2>3 DEF PgSound, Answered, Read
  <1> QED BY <1>1, PgInvariant, PTL

------------------------------------------------------------------------------
(* The store implements the abstract event log. *)

LEMMA LoggedIsStored == ASSUME NEW e \in Events PROVE Log!Logged(e) <=> Stored(e)
  BY DEF Log!Logged, Stored, EventIds

(* COMMIT writes its event, which no stream had. *)
LEMMA CommitIsWrite ==
  ASSUME PgInv, NEW t \in Tasks, Commit(t)
  PROVE  Log!LogNext
  <1>0. PICK s \in Streams, e \in Events, n \in Nat, k \in RowT, rs \in Seq(RowT) :
            /\ s = tx[t].stream /\ e = tx[t].event /\ n = Len(rows[s]) /\ rs = Append(rows[s], k)
            /\ k = Row(tx[t]) /\ k.event = e /\ k.sequence = n + 1 /\ k.prev_hash = PrevHash(s)
            /\ k.hash = compute_hash(e, n + 1, k.prev_hash) /\ k.id = tx[t].id
            /\ Len(rs) = n + 1 /\ \A i \in 1..n : rs[i] = rows[s][i]
            /\ DOMAIN rs = 1..(n + 1) /\ rs[n + 1] = k /\ rs # << >>
            /\ rows' \in [Streams -> Seq(RowT)] /\ rows'[s] = rs
            /\ \A d \in Streams : d # s => rows'[d] = rows[d]
    BY CommitIs
  <1>1. /\ e = tx[t].event /\ n = Len(rows[s]) /\ k.event = e
        /\ \A i \in 1..n : rs[i] = rows[s][i]
        /\ DOMAIN rs = 1..(n + 1) /\ rs[n + 1] = k
    BY <1>0
  <1>10. rows'[s] = rs /\ \A d \in Streams : d # s => rows'[d] = rows[d]
    BY <1>0
  <1>2. Typed /\ Continues(tx[t]) /\ tx[t].pc \in Pending /\ tx[t].pc # "free" /\ told' = told
    BY DEF PgInv, InProgress, Commit, Pending
  <1>3. told[e] \in {"none", "error"} /\ ~Stored(e) BY <1>1, <1>2 DEF Continues
  <1>4. /\ DOMAIN rows[s] = 1..n
        /\ \A i \in 1..n : rows[s][i] \in RowT
    BY <1>1, <1>2, RowsType
  <1> DEFINE ids(table) == [i \in DOMAIN table |-> table[i].event]
  <1>5. ids(rs) = Append(ids(rows[s]), e)
    <2>1. \A i \in 1..n : rows[s][i].event \in Events BY <1>4 DEF RowT
    <2>2. ids(rows[s]) = [i \in 1..n |-> rows[s][i].event] BY <1>4
    <2> HIDE DEF ids
    <2>3. PICK v \in Seq(Events) : v = ids(rows[s])
      <3>1. ids(rows[s]) \in [1..n -> Events] BY <2>1, <2>2
      <3> QED BY <3>1
    <2>4. DOMAIN v = 1..n /\ Len(v) = n
      <3>1. DOMAIN v = 1..n BY <2>2, <2>3
      <3> QED BY <3>1, LenProperties
    <2>5. PICK w \in Seq(Events) : w = Append(v, e) BY AppendProperties
    <2>6. Len(w) = n + 1 /\ w[n + 1] = e /\ \A i \in 1..n : w[i] = v[i]
      BY <2>4, <2>5, AppendProperties
    <2>7. \A i \in 1..n : v[i] = rows[s][i].event BY <2>2, <2>3
    <2>8. \A i \in 1..(n + 1) : w[i] = rs[i].event
      <3>1. \A i \in 1..(n + 1) : i \in 1..n \/ i = n + 1 OBVIOUS
      <3>2. \A i \in 1..n : w[i] = rs[i].event BY <1>1, <2>6, <2>7
      <3>3. w[n + 1] = rs[n + 1].event BY <1>1, <2>6
      <3> QED BY <3>1, <3>2, <3>3
    <2>9. DOMAIN w = 1..(n + 1) /\ w = [i \in DOMAIN w |-> w[i]] BY <2>6, LenProperties
    <2>10. ids(rs) = [i \in 1..(n + 1) |-> rs[i].event] BY <1>1 DEF ids
    <2>11. ids(rs) = w BY ONLY <2>8, <2>9, <2>10
    <2> QED BY <2>3, <2>5, <2>11
  <1>6. /\ EventIds(rows)' = [d \in Streams |-> ids(rows'[d])]
        /\ EventIds(rows) = [d \in Streams |-> ids(rows[d])]
    BY DEF EventIds
  <1> HIDE DEF ids
  <1>7. EventIds(rows)' = [EventIds(rows) EXCEPT ![s] = Append(@, e)]
    <2>1. [EventIds(rows) EXCEPT ![s] = Append(@, e)]
            = [d \in Streams |-> IF d = s THEN Append(ids(rows[d]), e) ELSE ids(rows[d])]
      BY ONLY <1>6
    <2>2. \A d \in Streams :
             ids(rows'[d]) = IF d = s THEN Append(ids(rows[d]), e) ELSE ids(rows[d])
      BY ONLY <1>5, <1>10
    <2> QED BY ONLY <1>6, <2>1, <2>2
  <1>8. Heard(told)' = Heard(told) /\ Heard(told)[e] \in {"none", "unknown"}
    BY <1>2, <1>3 DEF Heard
  <1>9. Log!Write(s, e) BY <1>3, <1>7, <1>8, LoggedIsStored DEF Log!Write
  <1> QED BY <1>9 DEF Log!LogNext

(* The end of an append tells its caller Ok of a stored event, that it is *)
(* stored already, or nothing.                                            *)
LEMMA EndIsReply ==
  ASSUME PgInv, NEW t \in Tasks, NEW a \in {"ok", "error", "refused"}, tx[t].pc # "free",
         rows' = rows, told' = [told EXCEPT ![tx[t].event] = a],
         a # "error" => Stored(tx[t].event), a = "refused" => told[tx[t].event] = "error"
  PROVE  Log!LogNext \/ UNCHANGED Log!logVars
  <1>1. Typed /\ Continues(tx[t]) BY DEF PgInv, InProgress
  <1>2. PICK e \in Events : e = tx[t].event /\ told[e] \in {"none", "error"} BY <1>1 DEF Continues
  <1>4. EventIds(rows)' = EventIds(rows) BY DEF EventIds
  <1>5. /\ Heard(told)[e] = IF told[e] = "none" THEN "none" ELSE "unknown"
        /\ Heard(told)' = [Heard(told) EXCEPT ![e] = IF a = "error" THEN "unknown" ELSE a]
    <2>1. told \in [Events -> Told] BY <1>1 DEF Typed
    <2>2. told'[e] = a /\ \A d \in Events : d # e => told'[d] = told[d] BY <1>2, <2>1
    <2> QED BY <1>2, <2>2 DEF Heard
  <1>6. CASE a = "ok"
    <2>1. Stored(e) BY <1>2, <1>6
    <2>2. Log!Acknowledge(e) BY <1>2, <1>4, <1>5, <1>6, <2>1, LoggedIsStored DEF Log!Acknowledge
    <2> QED BY <2>2 DEF Log!LogNext
  <1>7. CASE a = "refused"
    <2>1. Stored(e) /\ told[e] = "error" BY <1>2, <1>7
    <2>2. Log!Duplicate(e) BY <1>4, <1>5, <1>7, <2>1, LoggedIsStored DEF Log!Duplicate
    <2> QED BY <2>2 DEF Log!LogNext
  <1>8. CASE a = "error" /\ told[e] = "none"
    <2>1. Log!Lose(e) BY <1>4, <1>5, <1>8 DEF Log!Lose
    <2> QED BY <2>1 DEF Log!LogNext
  <1>9. CASE a = "error" /\ told[e] = "error"
    <2>1. Heard(told)' = Heard(told)
      <3>1. Heard(told)[e] = "unknown" BY <1>5, <1>9
      <3>2. Heard(told) = [d \in Events |-> Heard(told)[d]] BY DEF Heard
      <3> QED BY <1>5, <1>9, <3>1, <3>2
    <2> QED BY <1>4, <2>1 DEF Log!logVars
  <1> QED BY <1>2, <1>6, <1>7, <1>8, <1>9

LEMMA InitRefines == Init => Log!LogInit
  <1> SUFFICES ASSUME Init PROVE Log!LogInit OBVIOUS
  <1>1. rows = NoRows /\ \A e \in Events : told[e] = "none" BY DEF Init, NoRows
  <1>2. PgInv BY InitPg
  <1>3. \A e \in Events : ~Log!Logged(e)
    <2>1. \A t \in Tasks : tx[t].pc # "committed" BY FreeType DEF Init
    <2>2. \A e \in Events : ~Stored(e) BY <1>1, <1>2, <2>1 DEF PgInv, Fresh
    <2> QED BY <2>2, LoggedIsStored
  <1>4. Heard(told) = [e \in Events |-> IF Log!Logged(e) THEN "ok" ELSE "none"]
    BY <1>1, <1>3 DEF Heard
  <1>5. EventIds(rows) \in {EventIds(NoRows)} BY <1>1
  <1> QED BY <1>4, <1>5 DEF Log!LogInit

(* Seen from outside, the pool, the locks and the transactions come down to   *)
(* the log that the SQLite store implements as well.                          *)
THEOREM PgStoreImplementsLog == Spec => LogRefinement
  <1>1. PgInv /\ [Next]_vars => [Log!LogNext]_(Log!logVars)
    <2> SUFFICES ASSUME PgInv, [Next]_vars PROVE [Log!LogNext]_(Log!logVars) OBVIOUS
    <2>1. CASE UNCHANGED <<rows, told>> BY <2>1 DEF EventIds, Heard, Log!logVars
    <2>2. UNCHANGED vars => UNCHANGED <<rows, told>> BY DEF vars
    <2>3. ASSUME NEW t \in Tasks, Commit(t) PROVE Log!LogNext BY <2>3, CommitIsWrite
    <2>4. ASSUME NEW t \in Tasks, Answer(t) \/ Abandon(t) \/ RollBack(t)
          PROVE  Log!LogNext \/ UNCHANGED Log!logVars
      <3>1. /\ tx[t].pc # "free" /\ rows' = rows
            /\ Answer(t) => tx[t].pc = "committed" /\ Stored(tx[t].event)
        BY <2>4 DEF Answer, Abandon, RollBack, PgInv, InProgress, Continues
      <3>2. PICK a \in {"ok", "error"} : /\ told' = [told EXCEPT ![tx[t].event] = a]
                                         /\ a # "error" => Answer(t)
        BY <2>4 DEF Answer, Abandon, RollBack
      <3> QED BY <3>1, <3>2, EndIsReply
    <2>5. ASSUME NEW t \in Tasks, InsertRow(t)
          PROVE  UNCHANGED <<rows, told>> \/ Log!LogNext \/ UNCHANGED Log!logVars
      <3>1. CASE ~Stored(tx[t].event)
        <4>1. ~Taken(t) BY <2>5, SlotIsFree
        <4> QED BY <2>5, <3>1, <4>1 DEF InsertRow
      <3>2. CASE Stored(tx[t].event)
        <4>1. /\ tx[t].pc # "free" /\ rows' = rows
              /\ told' = [told EXCEPT ![tx[t].event] = "refused"]
          BY <2>5, <3>2 DEF InsertRow
        <4> QED BY <2>5, <3>2, <4>1, StoredIsRetried, EndIsReply
      <3> QED BY <3>1, <3>2
    <2>6. ASSUME NEW t \in Tasks,
                 \/ \E s \in Streams, e \in Events : Begin(t, s, e)
                 \/ Lock(t) \/ ReadTail(t) \/ UpsertHead(t)
          PROVE  UNCHANGED <<rows, told>>
      BY <2>6 DEF Begin, Lock, ReadTail, UpsertHead
    <2>7. ASSUME \/ VerifyHead \/ \E s \in Streams : VerifyRows(s) \/ ReadStream(s)
                 \/ \E kind \in {"count", "last_sequence"} : Ask(kind)
          PROVE  UNCHANGED <<rows, told>>
      BY <2>7 DEF VerifyHead, VerifyRows, ReadStream, Ask
    <2> QED BY <2>1, <2>2, <2>3, <2>4, <2>5, <2>6, <2>7 DEF Next
  <1> QED BY <1>1, InitRefines, PgInvariant, PTL DEF Spec, LogRefinement, Log!LogSpec
=============================================================================
