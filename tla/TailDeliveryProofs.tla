-------------------------- MODULE TailDeliveryProofs --------------------------
(***************************************************************************)
(* Theorems about the bus and the tail watcher, for any events,            *)
(* subscribers, capacities, batch sizes and ring size.                     *)
(***************************************************************************)
EXTENDS TailDelivery, FiniteSetTheorems, WellFoundedInduction, SequenceTheorems, TLAPS

RowT == [event : Events, state : {"open", "visible", "aborted"}]

LEMMA VisibleFinite ==
  ASSUME TypeOK
  PROVE  /\ rows \in Seq(RowT) /\ DOMAIN rows = 1 .. Len(rows) /\ Len(rows) \in Nat
         /\ Visible \in SUBSET (1 .. Len(rows))
         /\ IsFiniteSet(Visible)
  <1>1. rows \in Seq(RowT) BY DEF TypeOK, RowT
  <1>2. DOMAIN rows = 1 .. Len(rows) /\ Len(rows) \in Nat BY <1>1
  <1>3. Visible \in SUBSET (1 .. Len(rows)) BY <1>2 DEF Visible
  <1>4. IsFiniteSet(1 .. Len(rows)) BY <1>2, FS_Interval
  <1> QED BY <1>1, <1>2, <1>3, <1>4, FS_Subset

(* A set of naturals that is not empty has a least element. *)
LEMMA NatMin ==
  ASSUME NEW S \in SUBSET Nat, S # {}
  PROVE  \E m \in S : \A k \in S : m <= k
  <1> DEFINE R == OpToRel(<, Nat)
  <1>1. IsWellFoundedOn(R, Nat) BY NatLessThanWellFounded
  <1>2. \A x, y \in Nat : <<x, y>> \in R <=> x < y BY DEF OpToRel
  <1> HIDE DEF R
  <1>3. PICK m \in S : \A y \in S : ~(<<y, m>> \in R) BY <1>1, WFMin
  <1>4. ASSUME NEW k \in S PROVE m <= k
    <2>1. k \in Nat /\ m \in Nat OBVIOUS
    <2>2. ~(<<k, m>> \in R) BY <1>3
    <2>3. ~(k < m) BY <1>2, <2>1, <2>2
    <2> QED BY <2>1, <2>3
  <1> QED BY <1>4

LEMMA SmallestOf ==
  ASSUME NEW S \in SUBSET Nat, S # {}
  PROVE  Smallest(S) \in S /\ \A j \in S : Smallest(S) <= j
  BY NatMin DEF Smallest

LEMMA GreatestOf ==
  ASSUME NEW n \in Nat, NEW S \in SUBSET (1 .. n), S # {}
  PROVE  \E i \in S : \A j \in S : j <= i
  <1> DEFINE T == {n - x : x \in S}
  <1>0. PICK x0 \in S : TRUE OBVIOUS
  <1>1. T \in SUBSET Nat /\ T # {}
    <2>1. n - x0 \in T BY <1>0
    <2>2. \A x \in S : n - x \in Nat OBVIOUS
    <2> QED BY <2>1, <2>2
  <1>2. \A j \in S : n - j \in T OBVIOUS
  <1>3. \A m \in T : \E i \in S : m = n - i OBVIOUS
  <1> HIDE DEF T
  <1>4. PICK m \in T : \A k \in T : m <= k BY <1>1, NatMin
  <1>5. PICK i \in S : m = n - i BY <1>3
  <1>6. \A j \in S : n - i <= n - j BY <1>2, <1>4, <1>5
  <1>7. \A j \in S : j <= i BY <1>6
  <1> QED BY <1>7

LEMMA CurrentSeq ==
  ASSUME TypeOK
  PROVE  current_global_seq \in Nat /\ (current_global_seq = 0 \/ current_global_seq \in Visible)
  <1>1. CASE Visible = {} BY <1>1 DEF current_global_seq
  <1>2. CASE Visible # {}
    <2>1. \E i \in Visible : \A j \in Visible : j <= i BY <1>2, VisibleFinite, GreatestOf
    <2>2. current_global_seq \in Visible BY <1>2, <2>1 DEF current_global_seq
    <2> QED BY <2>2, VisibleFinite
  <1> QED BY <1>1, <1>2

(* One tail() takes the rows above the cursor from the lowest id on. *)
LEMMA TailedIsPrefix ==
  ASSUME TypeOK
  PROVE  /\ Tailed \subseteq Visible
         /\ \A i \in Tailed : i > last_seen
         /\ \A i \in Visible \ Tailed, j \in Tailed : i > last_seen => i > j
         /\ Cardinality(Tailed) \in Nat
  <1> DEFINE after == {i \in Visible : i > last_seen}
             upto(i) == {j \in after : j <= i}
  <1>1. after \subseteq Visible /\ after \subseteq Nat BY VisibleFinite
  <1>2. IsFiniteSet(after) BY <1>1, VisibleFinite, FS_Subset
  <1>3. Tailed = {i \in after : Cardinality(upto(i)) <= BatchSize} BY DEF Tailed
  <1>4. \A i \in after : upto(i) \subseteq after OBVIOUS
  <1>5. \A i \in after : IsFiniteSet(upto(i)) /\ Cardinality(upto(i)) \in Nat
    BY <1>2, <1>4, FS_Subset, FS_CardinalityType
  <1>6. \A i, j \in after : i <= j => Cardinality(upto(i)) <= Cardinality(upto(j))
    <2> SUFFICES ASSUME NEW i \in after, NEW j \in after, i <= j
                 PROVE  Cardinality(upto(i)) <= Cardinality(upto(j))
      OBVIOUS
    <2>1. upto(i) \subseteq upto(j) BY <1>1
    <2> HIDE DEF upto
    <2> QED BY <1>5, <2>1, FS_Subset
  <1>7. BatchSize \in Nat BY PolicyAssumption
  <1> HIDE DEF upto
  <1>8. ASSUME NEW i \in Visible \ Tailed, NEW j \in Tailed, i > last_seen PROVE i > j
    <2>1. i \in after /\ j \in after BY <1>3, <1>8
    <2>2. Cardinality(upto(j)) <= BatchSize /\ ~(Cardinality(upto(i)) <= BatchSize)
      BY <1>3, <1>8, <2>1
    <2>3. ~(i <= j) BY <1>5, <1>6, <1>7, <2>1, <2>2
    <2> QED BY <1>1, <2>1, <2>3
  <1>9. Tailed \subseteq after BY <1>3
  <1>10. IsFiniteSet(Tailed) BY <1>2, <1>9, FS_Subset
  <1> QED BY <1>8, <1>9, <1>10, FS_CardinalityType

LEMMA SendType ==
  ASSUME TypeOK, NEW e \in Events, Send(e)
  PROVE  got' \in [Subs -> Seq(Events)] /\ dropped' \in [Subs -> SUBSET Events]
  <1>1. \A s \in Subs : Append(got[s], e) \in Seq(Events) BY AppendProperties DEF TypeOK
  <1> QED BY <1>1 DEF Send, TypeOK

LEMMA InitType == Init => TypeOK
  <1> SUFFICES ASSUME Init PROVE TypeOK OBVIOUS
  <1>1. Old \in Seq(OldEvents) BY EventsAssumption
  <1>2. \A i \in 1 .. Len(Old) : Old[i] \in Events BY <1>1 DEF Events
  <1>3. rows = [i \in 1 .. Len(Old) |-> [event |-> Old[i], state |-> "visible"]]
    BY <1>1 DEF Init
  <1>4. rows \in Seq(RowT)
    <2>1. \A i \in 1 .. Len(Old) : [event |-> Old[i], state |-> "visible"] \in RowT
      BY <1>2 DEF RowT
    <2>2. Len(Old) \in Nat BY <1>1
    <2> QED BY <1>3, <2>1, <2>2
  <1>5. << >> \in Seq(Local) /\ << >> \in Seq(Events) OBVIOUS
  <1> QED BY <1>4, <1>5 DEF Init, RowT, TypeOK

Pcs == {"new", "open", "visible", "recorded", "done", "failed"}

(* What an append does to the table. *)
LEMMA TableType ==
  ASSUME TypeOK, NEW e \in Events, InsertRow(e) \/ CommitRow(e) \/ AbortRow(e)
  PROVE  rows' \in Seq(RowT) /\ pc' \in [Events -> Pcs]
  <1>1. rows \in Seq(RowT) /\ DOMAIN rows = 1 .. Len(rows) /\ Len(rows) \in Nat
    BY VisibleFinite
  <1>2. pc \in [Events -> Pcs] BY DEF TypeOK, Pcs
  <1>3. ASSUME NEW st \in {"visible", "aborted"}, rows' = [rows EXCEPT ![IdOf(e)].state = st]
        PROVE  rows' \in Seq(RowT)
    <2> DEFINE f(i) == IF i = IdOf(e) THEN [rows[i] EXCEPT !.state = st] ELSE rows[i]
    <2>1. rows' = [i \in 1 .. Len(rows) |-> f(i)] BY <1>1, <1>3
    <2>2. \A i \in 1 .. Len(rows) : rows[i] \in RowT BY <1>1
    <2>3. \A i \in 1 .. Len(rows) : f(i) \in RowT BY <2>2 DEF RowT
    <2> HIDE DEF f
    <2> QED BY <1>1, <2>1, <2>3
  <1>4. CASE InsertRow(e)
    <2>1. [event |-> e, state |-> "open"] \in RowT BY DEF RowT
    <2> QED BY <1>1, <1>2, <1>4, <2>1, AppendProperties DEF InsertRow, Pcs
  <1>5. CASE CommitRow(e)
    <2>1. rows' \in Seq(RowT) BY <1>3, <1>5 DEF CommitRow
    <2> QED BY <1>2, <1>5, <2>1 DEF CommitRow, Pcs
  <1>6. CASE AbortRow(e)
    <2>1. CASE Serial
      <3>1. rows' = SubSeq(rows, 1, Len(rows) - 1) BY <1>6, <2>1 DEF AbortRow
      <3>2. \A i \in 1 .. Len(rows) - 1 : rows[i] \in RowT BY <1>1
      <3>3. rows' \in Seq(RowT) BY <1>1, <3>1, <3>2, SubSeqProperties
      <3> QED BY <1>2, <1>6, <3>3 DEF AbortRow, Pcs
    <2>2. CASE ~Serial
      <3>1. rows' \in Seq(RowT) BY <1>3, <1>6, <2>2 DEF AbortRow
      <3> QED BY <1>2, <1>6, <3>1 DEF AbortRow, Pcs
    <2> QED BY <2>1, <2>2
  <1> QED BY <1>4, <1>5, <1>6

LEMMA TypeStep ==
  ASSUME TypeOK, CursorInv, [Next]_vars
  PROVE  TypeOK'
  <1>0. CASE UNCHANGED vars BY <1>0 DEF vars, TypeOK
  <1>1. ASSUME NEW e \in Events, InsertRow(e) \/ CommitRow(e) \/ AbortRow(e) PROVE TypeOK'
    <2>1. UNCHANGED <<ring, channel, watcher>> BY <1>1 DEF InsertRow, CommitRow, AbortRow
    <2> QED BY <1>1, <2>1, TableType DEF TypeOK, channel, watcher, RowT, Pcs
  <1>2. ASSUME NEW e \in Events, RecordInRing(e) PROVE TypeOK'
    <2>1. ring \in Seq(Local) /\ e \in Local BY <1>2 DEF RecordInRing, TypeOK
    <2>2. Append(ring, e) \in Seq(Local) /\ Append(ring, e) # << >>
      BY <2>1, AppendProperties
    <2>3. Tail(Append(ring, e)) \in Seq(Local) BY <2>2, HeadTailProperties
    <2>4. ring' \in Seq(Local) BY <1>2, <2>2, <2>3 DEF RecordInRing
    <2>5. pc' \in [Events -> Pcs] BY <1>2 DEF RecordInRing, TypeOK, Pcs
    <2> QED BY <1>2, <2>4, <2>5 DEF RecordInRing, channel, watcher, TypeOK, Pcs
  <1>3. ASSUME NEW e \in Events, FanOut(e) PROVE TypeOK'
    <2>1. pc' \in [Events -> Pcs] BY <1>3 DEF FanOut, TypeOK, Pcs
    <2>2. got' \in [Subs -> Seq(Events)] /\ dropped' \in [Subs -> SUBSET Events]
      BY <1>3, SendType DEF FanOut
    <2> QED BY <1>3, <2>1, <2>2 DEF FanOut, Send, watcher, TypeOK, Pcs
  <1>4. ASSUME NEW s \in Subs, Subscribe(s) PROVE TypeOK'
    BY <1>4 DEF Subscribe, table, watcher, TypeOK
  <1>5. ASSUME NEW s \in Subs, CloseReceiver(s) PROVE TypeOK'
    BY <1>5 DEF CloseReceiver, table, watcher, TypeOK
  <1>6. ASSUME NEW s \in Subs, Receive(s) PROVE TypeOK'
    <2>1. taken' \in [Subs -> Nat] BY <1>6 DEF Receive, TypeOK
    <2> QED BY <1>6, <2>1 DEF Receive, table, watcher, TypeOK
  <1>7. ASSUME ReadCursor PROVE TypeOK'
    BY <1>7, CurrentSeq DEF ReadCursor, table, channel, TypeOK
  <1>8. ASSUME ReadCursorFails PROVE TypeOK'
    BY <1>8 DEF ReadCursorFails, table, channel, TypeOK
  <1>9. ASSUME Poll PROVE TypeOK'
    <2>1. Tailed \subseteq Nat /\ Cardinality(Tailed) \in Nat BY TailedIsPrefix, VisibleFinite
    <2> QED BY <1>9, <2>1 DEF Poll, table, channel, TypeOK
  <1>10. ASSUME PollFails PROVE TypeOK' BY <1>10 DEF PollFails, table, channel, TypeOK
  <1>11. ASSUME Consider PROVE TypeOK'
    <2>1. Smallest(batch) \in Nat BY <1>11, SmallestOf DEF Consider, TypeOK
    <2> QED BY <1>11, <2>1 DEF Consider, table, channel, TypeOK
  <1>12. ASSUME Redeliver PROVE TypeOK'
    <2>1. batch # {} /\ batch \in SUBSET Nat /\ batch \subseteq Visible
      BY <1>12 DEF Redeliver, CursorInv, BatchAhead, CursorInTable, TypeOK
    <2>2. Smallest(batch) \in Visible BY <2>1, SmallestOf
    <2>3. rows[Smallest(batch)].event \in Events
      <3>1. rows[Smallest(batch)] \in RowT BY <2>2, VisibleFinite
      <3> QED BY <3>1 DEF RowT
    <2>4. Send(rows[Smallest(batch)].event) BY <1>12 DEF Redeliver
    <2>5. got' \in [Subs -> Seq(Events)] /\ dropped' \in [Subs -> SUBSET Events]
      BY <2>3, <2>4, SendType
    <2> QED BY <1>12, <2>5 DEF Redeliver, Send, table, TypeOK
  <1>13. ASSUME EndBatch PROVE TypeOK' BY <1>13 DEF EndBatch, table, channel, TypeOK
  <1>14. ASSUME Wake PROVE TypeOK' BY <1>14 DEF Wake, table, channel, TypeOK
  <1>15. ASSUME Cancel PROVE TypeOK' BY <1>15 DEF Cancel, table, channel, TypeOK
  <1> QED
    BY <1>0, <1>1, <1>2, <1>3, <1>4, <1>5, <1>6, <1>7, <1>8, <1>9, <1>10, <1>11, <1>12,
       <1>13, <1>14, <1>15 DEF Next, Publish, Subscriber, WatcherStep

------------------------------------------------------------------------------

LEMMA InitCursor == Init => CursorInv
  <1> SUFFICES ASSUME Init PROVE CursorInv OBVIOUS
  <1>1. /\ rows = [i \in DOMAIN Old |-> [event |-> Old[i], state |-> "visible"]]
        /\ pc = [e \in Events |-> IF e \in OldEvents THEN "done" ELSE "new"]
    BY DEF Init
  <1>2. \A i \in DOMAIN Old : Old[i] \in OldEvents /\ Old[i] \in Events BY DEF OldEvents, Events
  <1>3. \A i \in DOMAIN rows : i \in Visible BY <1>1 DEF Visible
  <1>4. OneRowPerEvent BY <1>1, <1>2, EventsAssumption DEF OneRowPerEvent
  <1>5. OpenRows BY <1>1 DEF OpenRows
  <1>6. OnlyLastIsOpen BY <1>3 DEF OnlyLastIsOpen
  <1>7. CursorInTable /\ BatchAhead /\ RestBeyond
    BY DEF Init, CursorInTable, BatchAhead, RestBeyond
  <1>8. NothingSkipped
    <2>1. Visible \subseteq Nat BY VisibleFinite, InitType
    <2>2. start = 0 /\ last_seen = 0 BY DEF Init
    <2> QED BY <2>1, <2>2 DEF NothingSkipped
  <1> QED BY <1>4, <1>5, <1>6, <1>7, <1>8 DEF CursorInv

(* What the watcher relies on survives when the visible rows stay as they are, or *)
(* grow by one beyond all of them.                                                *)
LEMMA WatcherKept ==
  ASSUME TypeOK, CursorInTable, BatchAhead, RestBeyond, Serial => NothingSkipped,
         UNCHANGED watcher,
         NEW N, Visible' = Visible \cup N,
         Serial => \A i \in N : i \in Nat /\ \A j \in Visible : j # i => i > j,
         N \cap Visible = {},
         N \subseteq Nat \ {0}
  PROVE  CursorInTable' /\ BatchAhead' /\ RestBeyond' /\ (Serial => NothingSkipped)'
  <1>1. UNCHANGED <<wpc, last_seen, batch, start, seen>> BY DEF watcher
  <1>2. Visible \subseteq Nat BY VisibleFinite
  <1>3. CursorInTable' BY <1>1 DEF CursorInTable
  <1>4. BatchAhead' BY <1>1 DEF BatchAhead
  <1>5. RestBeyond'
    <2> SUFFICES ASSUME Serial, NEW i \in Visible' \ batch, NEW j \in batch, i > last_seen
                 PROVE  i > j
      BY <1>1 DEF RestBeyond
    <2>1. CASE i \in Visible BY <2>1 DEF RestBeyond
    <2>2. CASE i \in N BY <2>2 DEF CursorInTable
    <2> QED BY <2>1, <2>2
  <1>6. ASSUME Serial PROVE NothingSkipped'
    <2> SUFFICES ASSUME NEW i \in Visible', start < i, i <= last_seen PROVE i \in seen
      BY <1>1 DEF NothingSkipped
    <2>1. CASE i \in Visible BY <1>6, <2>1 DEF NothingSkipped
    <2>2. CASE i \in N
      <3>1. i # last_seen /\ i > 0 BY <2>2 DEF CursorInTable
      <3>2. i > last_seen BY <1>6, <2>2, <3>1 DEF CursorInTable
      <3> QED BY <1>2, <2>2, <3>2 DEF TypeOK
    <2> QED BY <2>1, <2>2
  <1> QED BY <1>3, <1>4, <1>5, <1>6

(* ... and when they do not change at all. *)
LEMMA WatcherSame ==
  ASSUME TypeOK, CursorInv, UNCHANGED watcher, Visible' = Visible
  PROVE  CursorInTable' /\ BatchAhead' /\ RestBeyond' /\ (Serial => NothingSkipped)'
  <1> DEFINE N == {}
  <1>1. /\ Visible' = Visible \cup N /\ N \cap Visible = {} /\ N \subseteq Nat \ {0}
        /\ (Serial => \A i \in N : i \in Nat /\ \A j \in Visible : j # i => i > j)
    OBVIOUS
  <1> HIDE DEF N
  <1> QED BY <1>1, WatcherKept DEF CursorInv

(* The three ends of an append. *)
LEMMA TableCursor ==
  ASSUME TypeOK, CursorInv, NEW e \in Events, InsertRow(e) \/ CommitRow(e) \/ AbortRow(e)
  PROVE  CursorInv'
  <1> DEFINE n == Len(rows)
  <1>1. /\ rows \in Seq(RowT) /\ DOMAIN rows = 1 .. n /\ n \in Nat
        /\ \A i \in 1 .. n : rows[i] \in RowT
        /\ pc \in [Events -> Pcs]
    BY VisibleFinite DEF TypeOK, Pcs
  <1> HIDE DEF n
  <1>0. \A i \in 1 .. n : rows[i].event \in Events BY <1>1 DEF RowT
  <1>2. /\ OneRowPerEvent /\ OpenRows /\ OnlyLastIsOpen
        /\ CursorInTable /\ BatchAhead /\ RestBeyond
        /\ Serial => NothingSkipped
    BY DEF CursorInv
  <1>3. UNCHANGED watcher BY DEF InsertRow, CommitRow, AbortRow
  <1>4. /\ Visible = {i \in 1 .. n : rows[i].state = "visible"}
        /\ Open = {i \in 1 .. n : rows[i].state = "open"}
    BY <1>1 DEF Visible, Open
  <1>5. CASE InsertRow(e)
    <2>1. /\ pc[e] = "new" /\ pc' = [pc EXCEPT ![e] = "open"] /\ (Serial => Open = {})
          /\ rows' = Append(rows, [event |-> e, state |-> "open"])
      BY <1>5 DEF InsertRow
    <2>2. [event |-> e, state |-> "open"] \in RowT BY DEF RowT
    <2>3. /\ DOMAIN rows' = 1 .. n + 1 /\ Len(rows') = n + 1
          /\ rows'[n + 1].event = e /\ rows'[n + 1].state = "open"
          /\ \A i \in 1 .. n : rows'[i] = rows[i]
      BY <1>1, <2>1, <2>2, AppendProperties
    <2>4. Visible' = Visible /\ Open' = Open \cup {n + 1}
      BY <1>1, <1>4, <2>3 DEF Visible, Open
    <2>5. \A i \in 1 .. n : rows[i].event # e
      <3>1. \A i \in 1 .. n : pc[rows[i].event] # "new" BY <1>1, <1>2 DEF OneRowPerEvent
      <3> QED BY <2>1, <3>1
    <2>6. OneRowPerEvent'
      <3>1. \A i \in 1 .. n : pc[rows[i].event] # "new" BY <1>1, <1>2 DEF OneRowPerEvent
      <3>2. ASSUME NEW i \in 1 .. n PROVE pc'[rows'[i].event] # "new"
        <4>1. rows'[i].event = rows[i].event BY <2>3
        <4>2. rows[i].event \in Events /\ rows[i].event # e BY <1>0, <2>5
        <4>3. pc'[rows[i].event] = pc[rows[i].event] BY <1>1, <2>1, <4>2
        <4> QED BY <3>1, <4>1, <4>3
      <3>3. pc'[rows'[n + 1].event] # "new"
        <4>1. pc'[e] = "open" BY <1>1, <2>1
        <4> QED BY <2>3, <4>1
      <3>4. \A i \in 1 .. n + 1 : i = n + 1 \/ i \in 1 .. n BY <1>1
      <3> QED BY <1>1, <1>2, <2>3, <2>5, <3>2, <3>3, <3>4 DEF OneRowPerEvent
    <2>7. OpenRows'
      <3>1. n + 1 \in Open' /\ \A i \in Open : i \in Open' /\ rows'[i] = rows[i]
        BY <1>4, <2>3, <2>4
      <3>2. ASSUME NEW x \in Events, pc'[x] = "open" PROVE \E i \in Open' : rows'[i].event = x
        <4>1. CASE x = e BY <2>3, <3>1, <4>1
        <4>2. CASE x # e
          <5>1. pc[x] = "open" BY <1>1, <2>1, <3>2, <4>2
          <5>2. PICK i \in Open : rows[i].event = x BY <1>2, <5>1 DEF OpenRows
          <5> QED BY <3>1, <5>2
        <4> QED BY <4>1, <4>2
      <3> QED BY <3>2 DEF OpenRows
    <2>8. OnlyLastIsOpen'
      <3>1. Serial => \A i \in 1 .. n : i \in Visible BY <1>1, <1>2, <2>1 DEF OnlyLastIsOpen
      <3> QED BY <1>1, <2>3, <2>4, <3>1 DEF OnlyLastIsOpen
    <2>9. CursorInTable' /\ BatchAhead' /\ RestBeyond' /\ (Serial => NothingSkipped)'
      BY <1>3, <2>4, WatcherSame
    <2> QED BY <2>6, <2>7, <2>8, <2>9 DEF CursorInv
  <1>6. ASSUME pc[e] = "open"
        PROVE  /\ IdOf(e) \in Open /\ rows[IdOf(e)].event = e
               /\ \A i \in 1 .. n : rows[i].event = e => i = IdOf(e)
               /\ Serial => IdOf(e) = n /\ \A i \in 1 .. n : i # n => i \in Visible
    <2>1. PICK k \in Open : rows[k].event = e BY <1>2, <1>6 DEF OpenRows
    <2>2. \A i \in 1 .. n : rows[i].event = e => i = k BY <1>1, <1>2, <1>4, <2>1 DEF OneRowPerEvent
    <2>3. IdOf(e) = k BY <1>1, <1>4, <2>1, <2>2 DEF IdOf
    <2>4. k \notin Visible BY <1>4, <2>1
    <2> QED BY <1>1, <1>2, <1>4, <2>1, <2>2, <2>3, <2>4 DEF OnlyLastIsOpen
  (* CommitRow, and AbortRow when ids are not handed out again *)
  <1>7. ASSUME NEW st \in {"visible", "aborted"}, NEW to \in Pcs \ {"new", "open"},
               pc[e] = "open", pc' = [pc EXCEPT ![e] = to],
               rows' = [rows EXCEPT ![IdOf(e)].state = st],
               Serial => st = "visible"
        PROVE  CursorInv'
    <2> DEFINE k == IdOf(e)
    <2>1. /\ k \in Open /\ rows[k].event = e
          /\ \A i \in 1 .. n : rows[i].event = e => i = k
          /\ Serial => k = n /\ \A i \in 1 .. n : i # n => i \in Visible
      BY <1>6, <1>7
    <2> HIDE DEF k
    <2>2. rows' = [rows EXCEPT ![k].state = st] BY <1>7 DEF k
    <2>3. k \in 1 .. n BY <1>4, <2>1
    <2>4. /\ DOMAIN rows' = 1 .. n
          /\ \A i \in 1 .. n : i # k => rows'[i] = rows[i]
          /\ rows'[k].event = e /\ rows'[k].state = st
      <3>1. rows'[k] = [rows[k] EXCEPT !.state = st] BY <1>1, <2>2, <2>3
      <3>2. rows[k] \in RowT BY <1>1, <2>3
      <3> QED BY <1>1, <2>1, <2>2, <2>3, <3>1, <3>2 DEF RowT
    <2>5. Len(rows') = n
      <3>1. rows' = [i \in 1 .. n |-> IF i = k THEN [rows[k] EXCEPT !.state = st] ELSE rows[i]]
        BY <1>1, <2>2, <2>3
      <3> QED BY <1>1, <2>4, <3>1
    <2>6. /\ Visible' = Visible \cup (IF st = "visible" THEN {k} ELSE {})
          /\ Open' = Open \ {k}
      BY <1>4, <2>1, <2>3, <2>4 DEF Visible, Open
    <2>7. OneRowPerEvent'
      <3>1. \A i \in 1 .. n : rows'[i].event = rows[i].event BY <2>1, <2>4
      <3>2. \A i \in 1 .. n : rows[i].event \in Events /\ pc[rows[i].event] # "new"
        BY <1>1, <1>2 DEF OneRowPerEvent, RowT
      <3>3. \A i \in 1 .. n : pc'[rows[i].event] # "new" BY <1>1, <1>7, <3>2
      <3> QED BY <1>1, <1>2, <2>4, <3>1, <3>3 DEF OneRowPerEvent
    <2>8. OpenRows'
      <3> SUFFICES ASSUME NEW x \in Events, pc'[x] = "open"
                   PROVE  \E i \in Open' : rows'[i].event = x
        BY DEF OpenRows
      <3>1. x # e /\ pc[x] = "open" BY <1>1, <1>7
      <3>2. PICK i \in Open : rows[i].event = x BY <1>2, <3>1 DEF OpenRows
      <3>3. i # k /\ i \in 1 .. n BY <1>4, <2>1, <3>1, <3>2
      <3> QED BY <2>4, <2>6, <3>2, <3>3
    <2>9. OnlyLastIsOpen' BY <1>1, <1>7, <2>1, <2>4, <2>5, <2>6 DEF OnlyLastIsOpen
    <2> DEFINE N == IF st = "visible" THEN {k} ELSE {}
    <2>10. /\ N \cap Visible = {} /\ N \subseteq Nat \ {0}
           /\ Serial => \A i \in N : i \in Nat /\ \A j \in Visible : j # i => i > j
      BY <1>1, <1>4, <2>1, <2>3
    <2> HIDE DEF N
    <2>11. Visible' = Visible \cup N BY <2>6 DEF N
    <2> QED BY <1>2, <1>3, <2>7, <2>8, <2>9, <2>10, <2>11, WatcherKept DEF CursorInv
  <1>8. CASE CommitRow(e)
    <2> DEFINE to == IF e \in Local THEN "visible" ELSE "done"
    <2>1. to \in Pcs \ {"new", "open"} BY DEF Pcs
    <2>2. /\ pc[e] = "open" /\ pc' = [pc EXCEPT ![e] = to]
          /\ rows' = [rows EXCEPT ![IdOf(e)].state = "visible"]
      BY <1>8 DEF CommitRow
    <2> HIDE DEF to
    <2> QED BY <1>7, <2>1, <2>2
  <1>9. CASE AbortRow(e) /\ ~Serial
    BY <1>7, <1>9 DEF AbortRow, Pcs
  <1>10. CASE AbortRow(e) /\ Serial
    <2>1. /\ pc[e] = "open" /\ pc' = [pc EXCEPT ![e] = "failed"]
          /\ rows' = SubSeq(rows, 1, n - 1)
      BY <1>10 DEF AbortRow, n
    <2>2. n \in Open /\ rows[n].event = e /\ (\A i \in 1 .. n : i # n => i \in Visible)
      BY <1>6, <1>10, <2>1
    <2>3. n \in 1 .. n BY <1>4, <2>2
    <2>4. /\ rows' \in Seq(RowT) /\ Len(rows') = n - 1
          /\ \A i \in 1 .. n - 1 : rows'[i] = rows[i]
      <3>1. \A i \in 1 .. n - 1 : rows[i] \in RowT BY <1>1
      <3> QED BY <1>1, <2>1, <2>3, <3>1, SubSeqProperties
    <2>5. DOMAIN rows' = 1 .. n - 1 BY <2>4
    <2>6. Visible' = Visible /\ Open' = {}
      <3>1. n \notin Visible BY <1>4, <2>2
      <3>2. \A i \in 1 .. n - 1 : i \in Visible BY <1>1, <2>2
      <3>3. 1 .. n = (1 .. n - 1) \cup {n} BY <1>1, <2>3
      <3> QED BY <1>1, <1>4, <2>4, <2>5, <3>1, <3>2, <3>3 DEF Visible, Open
    <2>7. OneRowPerEvent'
      <3>1. \A i \in 1 .. n - 1 : i \in 1 .. n BY <1>1
      <3>2. \A i \in 1 .. n - 1 : rows[i].event \in Events /\ pc[rows[i].event] # "new"
        BY <1>1, <1>2, <3>1 DEF OneRowPerEvent, RowT
      <3> QED BY <1>1, <1>2, <2>1, <2>4, <2>5, <3>1, <3>2 DEF OneRowPerEvent
    <2>8. OpenRows'
      <3>1. \A x \in Events : pc[x] = "open" => x = e
        <4> SUFFICES ASSUME NEW x \in Events, pc[x] = "open" PROVE x = e OBVIOUS
        <4>1. PICK i \in Open : rows[i].event = x BY <1>2 DEF OpenRows
        <4>2. i = n BY <1>4, <2>2, <4>1
        <4> QED BY <2>2, <4>1, <4>2
      <3> QED BY <1>1, <2>1, <3>1 DEF OpenRows
    <2>9. OnlyLastIsOpen'
      <3>1. \A i \in 1 .. n - 1 : i \in Visible BY <1>1, <2>2
      <3> QED BY <2>5, <2>6, <3>1 DEF OnlyLastIsOpen
    <2>10. CursorInTable' /\ BatchAhead' /\ RestBeyond' /\ (Serial => NothingSkipped)'
      BY <1>3, <2>6, WatcherSame
    <2> QED BY <2>7, <2>8, <2>9, <2>10 DEF CursorInv
  <1> QED BY <1>5, <1>8, <1>9, <1>10

(* The bus publishes and subscribers come and go without touching the table or *)
(* the watcher.                                                                *)
LEMMA BusCursor ==
  ASSUME TypeOK, CursorInv, UNCHANGED <<rows, watcher>>,
         \/ UNCHANGED pc
         \/ \E x \in Events, to \in Pcs \ {"new", "open"} : pc' = [pc EXCEPT ![x] = to]
  PROVE  CursorInv'
  <1>1. Visible' = Visible /\ Open' = Open BY DEF Visible, Open
  <1>2. pc \in [Events -> Pcs] BY DEF TypeOK, Pcs
  <1>3. \A y \in Events : pc'[y] \in {"new", "open"} => pc'[y] = pc[y] BY <1>2
  <1>4. OneRowPerEvent'
    <2>1. \A i \in DOMAIN rows : rows[i].event \in Events
      <3>1. \A i \in DOMAIN rows : rows[i] \in RowT BY VisibleFinite
      <3> QED BY <3>1 DEF RowT
    <2>2. \A i \in DOMAIN rows : pc'[rows[i].event] # "new"
      BY <1>3, <2>1 DEF CursorInv, OneRowPerEvent
    <2> QED BY <2>2 DEF CursorInv, OneRowPerEvent
  <1>5. OpenRows' BY <1>1, <1>3 DEF CursorInv, OpenRows
  <1>6. OnlyLastIsOpen' BY <1>1 DEF CursorInv, OnlyLastIsOpen
  <1>7. CursorInTable' /\ BatchAhead' /\ RestBeyond' /\ (Serial => NothingSkipped)'
    BY <1>1, WatcherSame
  <1> QED BY <1>4, <1>5, <1>6, <1>7 DEF CursorInv

(* Every step of the watcher. *)
LEMMA WatcherCursor ==
  ASSUME TypeOK, CursorInv, UNCHANGED table,
         \/ ReadCursor \/ ReadCursorFails \/ WatcherStep \/ PollFails \/ Cancel
  PROVE  CursorInv'
  <1>1. Visible' = Visible /\ Open' = Open BY DEF Visible, Open, table
  <1>2. OneRowPerEvent' /\ OpenRows' /\ OnlyLastIsOpen'
    BY <1>1 DEF table, CursorInv, OneRowPerEvent, OpenRows, OnlyLastIsOpen
  <1>3. CursorInTable /\ BatchAhead /\ RestBeyond /\ (Serial => NothingSkipped) BY DEF CursorInv
  <1>4. Visible \subseteq Nat \ {0} /\ Visible \subseteq Nat BY VisibleFinite
  <1>5. last_seen \in Nat /\ start \in Nat BY DEF TypeOK
  <1> SUFFICES CursorInTable' /\ BatchAhead' /\ RestBeyond' /\ (Serial => NothingSkipped)'
    BY <1>2 DEF CursorInv
  <1>6. CASE ReadCursor
    <2>1. /\ wpc = "start" /\ wpc' = "poll" /\ batch' = batch /\ seen' = seen
          /\ last_seen' = current_global_seq /\ start' = current_global_seq
      BY <1>6 DEF ReadCursor
    <2>2. batch = {} BY <1>3, <2>1 DEF CursorInTable
    <2>3. current_global_seq \in Nat /\ (current_global_seq = 0 \/ current_global_seq \in Visible)
      BY CurrentSeq
    <2>4. CursorInTable' BY <1>1, <2>1, <2>2, <2>3 DEF CursorInTable
    <2>5. BatchAhead' BY <2>1 DEF BatchAhead
    <2>6. RestBeyond' BY <2>1, <2>2 DEF RestBeyond
    <2>7. NothingSkipped' BY <1>1, <1>4, <2>1, <2>3 DEF NothingSkipped
    <2> QED BY <2>4, <2>5, <2>6, <2>7
  <1>7. CASE ReadCursorFails
    <2>1. /\ wpc = "start" /\ wpc' = "poll" /\ batch' = batch /\ seen' = seen
          /\ last_seen' = 0 /\ start' = 0
      BY <1>7 DEF ReadCursorFails
    <2>2. batch = {} BY <1>3, <2>1 DEF CursorInTable
    <2>4. CursorInTable' BY <1>1, <2>1, <2>2 DEF CursorInTable
    <2>5. BatchAhead' BY <2>1 DEF BatchAhead
    <2>6. RestBeyond' BY <2>1, <2>2 DEF RestBeyond
    <2>7. NothingSkipped' BY <1>1, <1>4, <2>1 DEF NothingSkipped
    <2> QED BY <2>4, <2>5, <2>6, <2>7
  <1>8. CASE Poll
    <2>1. /\ wpc = "poll" /\ batch' = Tailed /\ wpc' = IF Tailed = {} THEN "sleep" ELSE "batch"
          /\ UNCHANGED <<last_seen, start, seen>>
      BY <1>8 DEF Poll
    <2>2. /\ Tailed \subseteq Visible /\ \A i \in Tailed : i > last_seen
          /\ \A i \in Visible \ Tailed, j \in Tailed : i > last_seen => i > j
      BY TailedIsPrefix
    <2> HIDE DEF Tailed
    <2>4. CursorInTable' BY <1>1, <1>3, <2>1, <2>2 DEF CursorInTable
    <2>5. BatchAhead' BY <2>1, <2>2 DEF BatchAhead
    <2>6. RestBeyond' BY <1>1, <2>1, <2>2 DEF RestBeyond
    <2>7. (Serial => NothingSkipped)' BY <1>1, <1>3, <2>1 DEF NothingSkipped
    <2> QED BY <2>4, <2>5, <2>6, <2>7
  <1>9. CASE Consider
    <2> DEFINE i == Smallest(batch)
    <2>1. /\ wpc = "batch" /\ batch # {} /\ last_seen' = i /\ seen' = seen \cup {i}
          /\ UNCHANGED start
          /\ \/ batch' = batch \ {i} /\ wpc' = "batch"
             \/ batch' = batch /\ wpc' = "fanout"
      BY <1>9 DEF Consider
    <2>2. batch \in SUBSET Nat BY DEF TypeOK
    <2>3. i \in batch /\ \A j \in batch : i <= j BY <2>1, <2>2, SmallestOf
    <2> HIDE DEF i
    <2>4. i > last_seen /\ i \in Visible /\ i \in Nat /\ batch \subseteq Visible
      BY <1>3, <1>4, <2>1, <2>3 DEF BatchAhead, CursorInTable
    <2>5. CursorInTable'
      <3>1. batch' \subseteq Visible /\ wpc' \in {"batch", "fanout"} BY <2>1, <2>4
      <3>2. start <= i BY <1>3, <1>5, <2>4 DEF CursorInTable
      <3> QED BY <1>1, <2>1, <2>4, <3>1, <3>2 DEF CursorInTable
    <2>6. BatchAhead'
      <3>1. CASE batch' = batch \ {i} /\ wpc' = "batch"
        <4>1. \A j \in batch' : j > i BY <2>2, <2>3, <3>1
        <4> QED BY <2>1, <3>1, <4>1 DEF BatchAhead
      <3>2. CASE batch' = batch /\ wpc' = "fanout"
        <4>1. \A j \in batch' : j >= i BY <2>2, <2>3, <3>2
        <4> QED BY <2>1, <2>3, <3>2, <4>1 DEF BatchAhead
      <3> QED BY <2>1, <3>1, <3>2
    <2>7. RestBeyond'
      <3> SUFFICES ASSUME Serial, NEW k \in Visible \ batch', NEW j \in batch', k > i PROVE k > j
        BY <1>1, <2>1 DEF RestBeyond
      <3>1. k \in Visible \ batch /\ j \in batch BY <1>4, <2>1, <2>4
      <3>2. k > last_seen BY <1>4, <1>5, <2>4, <3>1
      <3> QED BY <1>3, <3>1, <3>2 DEF RestBeyond
    <2>8. ASSUME Serial PROVE NothingSkipped'
      <3> SUFFICES ASSUME NEW k \in Visible, start < k, k <= i, k # i PROVE k \in seen
        BY <1>1, <2>1 DEF NothingSkipped
      <3>1. CASE k <= last_seen BY <1>3, <2>8, <3>1 DEF NothingSkipped
      <3>2. CASE k > last_seen
        <4>1. k \notin batch BY <1>4, <2>2, <2>3, <2>4
        <4>2. k > i BY <1>3, <2>3, <2>8, <3>2, <4>1 DEF RestBeyond
        <4> QED BY <1>4, <2>4, <4>2
      <3> QED BY <1>4, <1>5, <3>1, <3>2
    <2> QED BY <2>5, <2>6, <2>7, <2>8
  <1>10. CASE Redeliver
    <2> DEFINE i == Smallest(batch)
    <2>1. /\ wpc = "fanout" /\ batch' = batch \ {i} /\ wpc' = "batch"
          /\ UNCHANGED <<last_seen, start, seen>>
      BY <1>10 DEF Redeliver
    <2>2. batch \in SUBSET Nat BY DEF TypeOK
    <2>3. last_seen \in batch /\ \A j \in batch : j >= last_seen BY <1>3, <2>1 DEF BatchAhead
    <2>4. i \in batch /\ \A j \in batch : i <= j BY <2>2, <2>3, SmallestOf
    <2> HIDE DEF i
    <2>5. i = last_seen BY <2>2, <2>3, <2>4
    <2>6. CursorInTable' BY <1>1, <1>3, <2>1 DEF CursorInTable
    <2>7. BatchAhead' BY <1>5, <2>1, <2>2, <2>3, <2>5 DEF BatchAhead
    <2>8. RestBeyond'
      <3> SUFFICES ASSUME Serial, NEW k \in Visible \ batch', NEW j \in batch', k > last_seen
                   PROVE k > j
        BY <1>1, <2>1 DEF RestBeyond
      <3>1. k \in Visible \ batch /\ j \in batch BY <1>4, <1>5, <2>1, <2>5
      <3> QED BY <1>3, <3>1 DEF RestBeyond
    <2>9. (Serial => NothingSkipped)' BY <1>1, <1>3, <2>1 DEF NothingSkipped
    <2> QED BY <2>6, <2>7, <2>8, <2>9
  <1>11. CASE EndBatch
    <2>1. /\ wpc = "batch" /\ batch = {} /\ wpc' \in {"sleep", "poll"}
          /\ UNCHANGED <<last_seen, start, seen, batch>>
      BY <1>11 DEF EndBatch
    <2> QED BY <1>1, <1>3, <2>1 DEF CursorInTable, BatchAhead, RestBeyond, NothingSkipped
  <1>12. CASE Wake \/ PollFails \/ Cancel
    <2>1. /\ wpc \in {"sleep", "poll"} /\ wpc' \in {"sleep", "poll", "stopped"}
          /\ UNCHANGED <<last_seen, start, seen, batch>>
      BY <1>12 DEF Wake, PollFails, Cancel
    <2> QED BY <1>1, <1>3, <2>1 DEF CursorInTable, BatchAhead, RestBeyond, NothingSkipped
  <1> QED
    BY <1>6, <1>7, <1>8, <1>9, <1>10, <1>11, <1>12 DEF WatcherStep

LEMMA CursorStep ==
  ASSUME TypeOK, CursorInv, [Next]_vars
  PROVE  CursorInv'
  <1>1. CASE UNCHANGED vars BY <1>1, BusCursor DEF vars, watcher
  <1>2. ASSUME NEW e \in Events, Publish(e) PROVE CursorInv'
    <2>1. CASE InsertRow(e) \/ CommitRow(e) \/ AbortRow(e) BY <2>1, TableCursor
    <2>2. CASE RecordInRing(e)
      <3>1. UNCHANGED <<rows, watcher>> /\ pc' = [pc EXCEPT ![e] = "recorded"]
        BY <2>2 DEF RecordInRing
      <3>2. "recorded" \in Pcs \ {"new", "open"} BY DEF Pcs
      <3> QED BY <3>1, <3>2, BusCursor
    <2>3. CASE FanOut(e)
      <3>1. UNCHANGED <<rows, watcher>> /\ pc' = [pc EXCEPT ![e] = "done"] BY <2>3 DEF FanOut
      <3>2. "done" \in Pcs \ {"new", "open"} BY DEF Pcs
      <3> QED BY <3>1, <3>2, BusCursor
    <2> QED BY <1>2, <2>1, <2>2, <2>3 DEF Publish
  <1>3. ASSUME NEW s \in Subs, Subscriber(s) PROVE CursorInv'
    <2>1. UNCHANGED <<rows, watcher>> /\ UNCHANGED pc
      BY <1>3 DEF Subscriber, Subscribe, CloseReceiver, Receive, table
    <2> QED BY <2>1, BusCursor
  <1>4. CASE ReadCursor \/ ReadCursorFails \/ WatcherStep \/ PollFails \/ Cancel
    <2>1. UNCHANGED table
      BY <1>4 DEF ReadCursor, ReadCursorFails, WatcherStep, Poll, Consider, Redeliver, EndBatch,
                  Wake, PollFails, Cancel
    <2> QED BY <1>4, <2>1, WatcherCursor
  <1> QED BY <1>1, <1>2, <1>3, <1>4 DEF Next

(* Every variable of the bus and the watcher keeps its type. *)
THEOREM TypeCorrect == Spec => []TypeOK
  <1>1. TypeOK /\ CursorInv /\ [Next]_vars => (TypeOK /\ CursorInv)' BY TypeStep, CursorStep
  <1> QED BY <1>1, InitType, InitCursor, PTL DEF Spec

(* The invariant behind NothingSkipped, on either store. *)
THEOREM CursorInvariant == Spec => []CursorInv
  <1>1. TypeOK /\ CursorInv /\ [Next]_vars => (TypeOK /\ CursorInv)' BY TypeStep, CursorStep
  <1> QED BY <1>1, InitType, InitCursor, PTL DEF Spec

(* On SQLite, where one write transaction runs at a time, the watcher misses no *)
(* event, whatever the batch size, the burst cap and the errors of tail().      *)
THEOREM NoEventIsSkipped ==
  ASSUME Serial
  PROVE  Spec => []NothingSkipped
  <1>1. CursorInv => NothingSkipped BY DEF CursorInv
  <1> QED BY <1>1, CursorInvariant, PTL

------------------------------------------------------------------------------
(* How often, and in which order, events are delivered. *)

(* The watcher is done with e: its row is behind the cursor, or at the cursor and *)
(* no longer being sent.                                                          *)
Handled(e) ==
    \E i \in DOMAIN rows : rows[i].event = e /\ (i < last_seen \/ (i = last_seen /\ wpc # "fanout"))

(* publish is done with e. *)
Fanned(e) == e \in Local /\ pc[e] = "done"

OnlyLocalFans == \A e \in Events : pc[e] \in {"visible", "recorded"} => e \in Local

(* Each of the two delivers an event once. *)
Fed ==
    \A s \in Subs, e \in Events :
        Copies(s, e) <= (IF Handled(e) THEN 1 ELSE 0) + (IF Fanned(e) THEN 1 ELSE 0)

DeliveryInv == OnlyLocalFans /\ Fed

LEMMA CopiesNat ==
  ASSUME TypeOK, NEW s \in Subs, NEW x
  PROVE  Copies(s, x) \in Nat
  <1> DEFINE K == {k \in DOMAIN got[s] : got[s][k] = x}
  <1>1. got[s] \in Seq(Events) /\ DOMAIN got[s] = 1 .. Len(got[s]) /\ Len(got[s]) \in Nat BY DEF TypeOK
  <1>2. K \subseteq 1 .. Len(got[s]) BY <1>1
  <1>3. Copies(s, x) = Cardinality(K) BY DEF Copies
  <1> HIDE DEF K
  <1>4. IsFiniteSet(1 .. Len(got[s]))
    <2>1. 1 \in Int /\ Len(got[s]) \in Int BY <1>1
    <2> QED BY ONLY <2>1, FS_Interval
  <1>5. IsFiniteSet(K) BY <1>2, <1>4, FS_Subset
  <1> QED BY <1>3, <1>5, FS_CardinalityType

LEMMA CopiesSend ==
  ASSUME TypeOK, NEW e \in Events, Send(e), NEW s \in Subs, NEW x \in Events
  PROVE  /\ Copies(s, x) \in Nat /\ Copies(s, x)' \in Nat
         /\ Copies(s, x)' <= Copies(s, x) + (IF x = e THEN 1 ELSE 0)
  <1> DEFINE K == {k \in DOMAIN got[s] : got[s][k] = x}
             n == Len(got[s])
  <1>1. got[s] \in Seq(Events) /\ n \in Nat /\ DOMAIN got[s] = 1 .. n BY DEF TypeOK
  <1>2. K \subseteq 1 .. n BY <1>1
  <1>3. IsFiniteSet(K) /\ Cardinality(K) \in Nat
    <2> HIDE DEF K, n
    <2>1. 1 \in Int /\ n \in Int BY <1>1
    <2>2. IsFiniteSet(1 .. n) BY ONLY <2>1, FS_Interval
    <2> QED BY <1>2, <2>2, FS_Subset, FS_CardinalityType
  <1>4. Copies(s, x) = Cardinality(K) BY DEF Copies
  <1>5. Copies(s, x)' = Cardinality(K') BY DEF Copies
  <1>6. got'[s] = got[s] \/ got'[s] = Append(got[s], e) BY DEF Send
  <1>7. CASE got'[s] = got[s]
    <2>1. K' = K BY <1>7
    <2> HIDE DEF K
    <2> QED BY <1>3, <1>4, <1>5, <2>1
  <1>8. CASE got'[s] = Append(got[s], e)
    <2>1. /\ DOMAIN got'[s] = 1 .. n + 1 /\ got'[s][n + 1] = e
          /\ \A k \in 1 .. n : got'[s][k] = got[s][k]
      BY <1>1, <1>8, AppendProperties
    <2>2. K' = IF x = e THEN K \cup {n + 1} ELSE K
      <3>1. 1 .. n + 1 = (1 .. n) \cup {n + 1} BY <1>1
      <3>2. n + 1 \notin 1 .. n BY <1>1
      <3> HIDE DEF n
      <3> QED BY <1>1, <2>1, <3>1, <3>2
    <2>3. n + 1 \notin K BY <1>1
    <2> HIDE DEF K
    <2>4. Cardinality(K \cup {n + 1}) = Cardinality(K) + 1 BY <1>3, <2>3, FS_AddElement
    <2> QED BY <1>3, <1>4, <1>5, <2>2, <2>4
  <1> QED BY <1>6, <1>7, <1>8

LEMMA RowOf ==
  ASSUME OneRowPerEvent, NEW i \in DOMAIN rows
  PROVE  IdOf(rows[i].event) = i
  BY DEF OneRowPerEvent, IdOf

(* The row of an append that is open. *)
LEMMA OpenRow ==
  ASSUME TypeOK, CursorInv, NEW e \in Events, pc[e] = "open"
  PROVE  /\ IdOf(e) \in Open /\ IdOf(e) \notin Visible /\ IdOf(e) \in DOMAIN rows
         /\ rows[IdOf(e)].event = e
         /\ Serial => IdOf(e) = Len(rows)
  <1>1. PICK k \in Open : rows[k].event = e BY DEF CursorInv, OpenRows
  <1>2. k \in DOMAIN rows /\ k \notin Visible BY DEF Open, Visible
  <1>3. IdOf(e) = k BY <1>1, <1>2, RowOf DEF CursorInv
  <1> QED BY <1>1, <1>2, <1>3 DEF CursorInv, OnlyLastIsOpen

(* What an append leaves of the rows there are: the visible ones, and all up to *)
(* the cursor.                                                                  *)
LEMMA RowsKept ==
  ASSUME TypeOK, CursorInv, NEW e \in Events, InsertRow(e) \/ CommitRow(e) \/ AbortRow(e)
  PROVE  /\ \A i \in Visible : i \in Visible' /\ rows'[i].event = rows[i].event
         /\ \A i \in DOMAIN rows : i <= last_seen =>
               i \in DOMAIN rows' /\ rows'[i].event = rows[i].event
  <1> DEFINE n == Len(rows)
  <1>1. /\ rows \in Seq(RowT) /\ DOMAIN rows = 1 .. n /\ n \in Nat
        /\ Visible \in SUBSET (1 .. n)
    BY VisibleFinite
  <1>2. \A i \in 1 .. n : rows[i] \in RowT BY <1>1
  <1>3. CASE InsertRow(e)
    <2>1. [event |-> e, state |-> "open"] \in RowT BY DEF RowT
    <2>2. DOMAIN rows' = 1 .. n + 1 /\ \A i \in 1 .. n : rows'[i] = rows[i]
      BY <1>1, <1>3, <2>1, AppendProperties DEF InsertRow
    <2> QED BY <1>1, <2>2 DEF Visible
  <1>4. ASSUME NEW st \in {"visible", "aborted"}, pc[e] = "open",
               rows' = [rows EXCEPT ![IdOf(e)].state = st]
        PROVE  \A i \in 1 .. n : /\ i \in DOMAIN rows' /\ rows'[i].event = rows[i].event
                                 /\ i \in Visible => i \in Visible'
    <2> DEFINE k == IdOf(e)
    <2>1. k \in 1 .. n /\ k \notin Visible BY <1>1, <1>4, OpenRow
    <2>2. rows' = [rows EXCEPT ![k].state = st] BY <1>4
    <2> HIDE DEF k
    <2>3. DOMAIN rows' = 1 .. n /\ \A i \in 1 .. n : i # k => rows'[i] = rows[i]
      BY <1>1, <2>2
    <2>4. rows'[k] = [rows[k] EXCEPT !.state = st] BY <1>1, <2>1, <2>2
    <2>5. rows'[k].event = rows[k].event BY <1>2, <2>1, <2>4 DEF RowT
    <2> QED BY <2>1, <2>3, <2>5 DEF Visible
  <1>5. CASE CommitRow(e) BY <1>1, <1>4, <1>5 DEF CommitRow
  <1>6. CASE AbortRow(e) /\ ~Serial BY <1>1, <1>4, <1>6 DEF AbortRow
  <1>7. CASE AbortRow(e) /\ Serial
    <2>1. pc[e] = "open" /\ rows' = SubSeq(rows, 1, n - 1) BY <1>7 DEF AbortRow
    <2>2. n \notin Visible /\ n \in 1 .. n BY <1>1, <1>7, <2>1, OpenRow
    <2>3. DOMAIN rows' = 1 .. n - 1 /\ \A i \in 1 .. n - 1 : rows'[i] = rows[i]
      BY <1>1, <1>2, <2>1, <2>2, SubSeqProperties
    <2>4. last_seen \in Nat /\ (last_seen = 0 \/ last_seen \in Visible)
      BY DEF TypeOK, CursorInv, CursorInTable
    <2>5. last_seen < n BY <1>1, <2>2, <2>4
    <2> QED BY <1>1, <2>2, <2>3, <2>4, <2>5 DEF Visible
  <1> QED BY <1>1, <1>3, <1>5, <1>6, <1>7, <1>4

(* What the watcher is done with it stays done with, under the same id. *)
LEMMA HandledKept ==
  ASSUME TypeOK, CursorInv, [Next]_vars, NEW e \in Events, Handled(e)
  PROVE  Handled(e)' /\ IdOf(e)' = IdOf(e)
  <1>1. PICK i \in DOMAIN rows : rows[i].event = e /\ (i < last_seen \/ (i = last_seen /\ wpc # "fanout"))
    BY DEF Handled
  <1>2. IdOf(e) = i BY <1>1, RowOf DEF CursorInv
  <1>3. last_seen \in Nat /\ i \in Nat \ {0} /\ OneRowPerEvent' /\ wpc # "start"
    BY <1>1, VisibleFinite, CursorStep DEF TypeOK, CursorInv, CursorInTable
  <1>4. ASSUME i \in DOMAIN rows', rows'[i].event = e,
               \/ i < last_seen'
               \/ i = last_seen' /\ wpc' # "fanout"
        PROVE  Handled(e)' /\ IdOf(e)' = IdOf(e)
    <2>1. Handled(e)' BY <1>4 DEF Handled
    <2>2. IdOf(e)' = i BY <1>3, <1>4 DEF OneRowPerEvent, IdOf
    <2> QED BY <1>2, <2>1, <2>2
  <1>5. ASSUME NEW x \in Events, InsertRow(x) \/ CommitRow(x) \/ AbortRow(x) PROVE Handled(e)' /\ IdOf(e)' = IdOf(e)
    <2>1. last_seen' = last_seen /\ wpc' = wpc BY <1>5 DEF InsertRow, CommitRow, AbortRow, watcher
    <2>2. i \in DOMAIN rows' /\ rows'[i].event = e BY <1>1, <1>3, <1>5, RowsKept
    <2> QED BY <1>1, <1>4, <2>1, <2>2
  <1>6. CASE UNCHANGED <<rows, last_seen, wpc>> BY <1>1, <1>4, <1>6
  <1>7. CASE Consider
    <2>1. wpc = "batch" /\ batch # {} /\ last_seen' = Smallest(batch) /\ rows' = rows
      BY <1>7 DEF Consider, table
    <2>2. Smallest(batch) \in batch BY <2>1, SmallestOf DEF TypeOK
    <2>3. Smallest(batch) > last_seen /\ Smallest(batch) \in Nat
      BY <2>1, <2>2 DEF TypeOK, CursorInv, BatchAhead
    <2> QED BY <1>1, <1>3, <1>4, <2>1, <2>3
  <1>8. CASE Redeliver
    <2>1. wpc' # "fanout" /\ rows' = rows /\ last_seen' = last_seen BY <1>8 DEF Redeliver, table
    <2> QED BY <1>1, <1>4, <2>1
  <1>9. CASE Poll \/ EndBatch \/ Wake \/ PollFails \/ Cancel
    <2>1. rows' = rows /\ last_seen' = last_seen /\ wpc' # "fanout"
      BY <1>9 DEF Poll, EndBatch, Wake, PollFails, Cancel, table
    <2> QED BY <1>1, <1>4, <2>1
  <1>10. ~ReadCursor /\ ~ReadCursorFails BY <1>3 DEF ReadCursor, ReadCursorFails
  <1>11. ASSUME NEW x \in Events, RecordInRing(x) \/ FanOut(x) PROVE UNCHANGED <<rows, last_seen, wpc>>
    BY <1>11 DEF RecordInRing, FanOut, watcher
  <1>12. ASSUME NEW s \in Subs, Subscriber(s) PROVE UNCHANGED <<rows, last_seen, wpc>>
    BY <1>12 DEF Subscriber, Subscribe, CloseReceiver, Receive, table, watcher
  <1>13. CASE UNCHANGED vars BY <1>6, <1>13 DEF vars
  <1> QED BY <1>5, <1>6, <1>7, <1>8, <1>9, <1>10, <1>11, <1>12, <1>13 DEF Next, Publish, WatcherStep

(* As publish is. *)
LEMMA FannedKept ==
  ASSUME TypeOK, [Next]_vars, NEW e \in Events, Fanned(e)
  PROVE  Fanned(e)'
  <1>1. e \in Local /\ pc[e] = "done" /\ pc \in [Events -> Pcs] BY DEF Fanned, TypeOK, Pcs
  <1>2. ASSUME NEW x \in Events, Publish(x) PROVE pc'[e] = "done"
    BY <1>1, <1>2 DEF Publish, InsertRow, CommitRow, AbortRow, RecordInRing, FanOut
  <1>3. ASSUME NEW s \in Subs, Subscriber(s) PROVE pc' = pc
    BY <1>3 DEF Subscriber, Subscribe, CloseReceiver, Receive, table
  <1>4. CASE ReadCursor \/ ReadCursorFails \/ WatcherStep \/ PollFails \/ Cancel
    BY <1>1, <1>4 DEF ReadCursor, ReadCursorFails, WatcherStep, Poll, Consider, Redeliver, EndBatch, Wake,
                      PollFails, Cancel, table, Fanned
  <1>5. CASE UNCHANGED vars BY <1>1, <1>5 DEF vars, Fanned
  <1> QED BY <1>1, <1>2, <1>3, <1>4, <1>5 DEF Next, Fanned

(* The event the watcher is about to send is the one at the cursor. *)
LEMMA AtCursor ==
  ASSUME TypeOK, CursorInv, Redeliver
  PROVE  /\ Smallest(batch) = last_seen /\ last_seen \in Visible
         /\ \E x \in Events : /\ rows[last_seen].event = x /\ IdOf(x) = last_seen
                             /\ Send(x) /\ ~Handled(x) /\ Handled(x)'
  <1>1. /\ wpc = "fanout" /\ wpc' = "batch" /\ UNCHANGED <<rows, last_seen>>
        /\ batch \in SUBSET Nat /\ batch \subseteq Visible /\ Send(rows[Smallest(batch)].event)
    BY DEF Redeliver, table, TypeOK, CursorInv, CursorInTable
  <1>2. last_seen \in batch /\ \A i \in batch : i >= last_seen BY <1>1 DEF CursorInv, BatchAhead
  <1>3. Smallest(batch) \in batch /\ Smallest(batch) <= last_seen BY <1>1, <1>2, SmallestOf
  <1>4. Smallest(batch) = last_seen
    <2>1. Smallest(batch) \in Nat /\ last_seen \in Nat BY <1>1, <1>2, <1>3
    <2>2. last_seen <= Smallest(batch) BY <1>2, <1>3
    <2> QED BY <1>3, <2>1, <2>2
  <1>5. last_seen \in DOMAIN rows /\ last_seen \in Nat BY <1>1, <1>2, VisibleFinite
  <1> DEFINE x == rows[last_seen].event
  <1>6. rows[last_seen] \in RowT BY <1>5, VisibleFinite
  <1>7. x \in Events BY <1>6 DEF RowT
  <1>8. \A i \in DOMAIN rows : rows[i].event = x => i = last_seen
    BY <1>5 DEF CursorInv, OneRowPerEvent
  <1>9. ~Handled(x) BY <1>1, <1>5, <1>8 DEF Handled
  <1>10. \A y : y = x => Handled(y)' BY <1>1, <1>5 DEF Handled
  <1>11. last_seen \in Visible /\ Send(x) BY <1>1, <1>2, <1>4
  <1>i. IdOf(x) = last_seen BY <1>5, RowOf DEF CursorInv
  <1> HIDE DEF x
  <1>12. \E y \in Events : x = y /\ IdOf(y) = last_seen /\ Send(y) /\ ~Handled(y) /\ Handled(y)'
    BY <1>7, <1>9, <1>10, <1>11, <1>i
  <1> QED BY <1>4, <1>11, <1>12 DEF x

(* The two ways to a subscriber. *)
LEMMA GotChanges ==
  ASSUME [Next]_vars
  PROVE  got' = got \/ (\E x \in Events : FanOut(x)) \/ Redeliver
  BY DEF Next, Publish, Subscriber, WatcherStep, InsertRow, CommitRow, AbortRow, RecordInRing, Subscribe,
         CloseReceiver, Receive, ReadCursor, ReadCursorFails, Poll, Consider, EndBatch, Wake, PollFails,
         Cancel, channel, vars

LEMMA StepDelivery ==
  ASSUME TypeOK, CursorInv, DeliveryInv, [Next]_vars
  PROVE  DeliveryInv'
  <1>1. OnlyLocalFans'
    <2>1. pc \in [Events -> Pcs] BY DEF TypeOK, Pcs
    <2>2. ASSUME NEW x \in Events, Publish(x) PROVE OnlyLocalFans'
      BY <2>1, <2>2 DEF Publish, InsertRow, CommitRow, AbortRow, RecordInRing, FanOut, OnlyLocalFans, DeliveryInv
    <2>3. CASE pc' = pc BY <2>3 DEF OnlyLocalFans, DeliveryInv
    <2>4. \A s \in Subs : Subscriber(s) => pc' = pc
      BY DEF Subscriber, Subscribe, CloseReceiver, Receive, table
    <2>5. ReadCursor \/ ReadCursorFails \/ WatcherStep \/ PollFails \/ Cancel \/ UNCHANGED vars => pc' = pc
      BY DEF ReadCursor, ReadCursorFails, WatcherStep, Poll, Consider, Redeliver, EndBatch, Wake,
             PollFails, Cancel, table, vars
    <2> QED BY <2>2, <2>3, <2>4, <2>5 DEF Next
  <1>2. \A e \in Events : Handled(e) => Handled(e)' BY HandledKept
  <1>3. \A e \in Events : Fanned(e) => Fanned(e)' BY FannedKept
  <1>4. ASSUME got' = got PROVE Fed'
    <2>1. \A s \in Subs, e \in Events : Copies(s, e)' = Copies(s, e) BY <1>4 DEF Copies
    <2> HIDE DEF Handled, Fanned, Copies
    <2>2. ASSUME NEW s \in Subs, NEW e \in Events
          PROVE  Copies(s, e)' <= (IF Handled(e)' THEN 1 ELSE 0) + (IF Fanned(e)' THEN 1 ELSE 0)
      <3>1. Copies(s, e) <= (IF Handled(e) THEN 1 ELSE 0) + (IF Fanned(e) THEN 1 ELSE 0)
        BY DEF DeliveryInv, Fed
      <3>2. Copies(s, e) \in Nat BY CopiesNat
      <3> QED BY <1>2, <1>3, <2>1, <3>1, <3>2
    <2> QED BY <2>2 DEF Fed
  <1>5. ASSUME NEW x \in Events, Send(x),
               \/ ~Handled(x) /\ Handled(x)'
               \/ ~Fanned(x) /\ Fanned(x)'
        PROVE  Fed'
    <2> SUFFICES ASSUME NEW s \in Subs, NEW e \in Events
                 PROVE  Copies(s, e)' <= (IF Handled(e)' THEN 1 ELSE 0) + (IF Fanned(e)' THEN 1 ELSE 0)
      BY DEF Fed
    <2>1. Copies(s, e) <= (IF Handled(e) THEN 1 ELSE 0) + (IF Fanned(e) THEN 1 ELSE 0)
      BY DEF DeliveryInv, Fed
    <2>2. /\ Copies(s, e) \in Nat /\ Copies(s, e)' \in Nat
          /\ Copies(s, e)' <= Copies(s, e) + (IF e = x THEN 1 ELSE 0)
      BY <1>5, CopiesSend
    <2>3. (Handled(e) => Handled(e)') /\ (Fanned(e) => Fanned(e)') BY <1>2, <1>3
    <2> HIDE DEF Handled, Fanned, Copies
    <2>4. CASE e # x BY <2>1, <2>2, <2>3, <2>4
    <2>5. CASE e = x BY <1>5, <2>1, <2>2, <2>3, <2>5
    <2> QED BY <2>4, <2>5
  <1>6. ASSUME NEW x \in Events, FanOut(x) PROVE Fed'
    <2>1. pc[x] = "recorded" /\ Send(x) /\ pc' = [pc EXCEPT ![x] = "done"] BY <1>6 DEF FanOut
    <2>2. x \in Local /\ pc'[x] = "done" BY <2>1 DEF DeliveryInv, OnlyLocalFans, TypeOK
    <2>3. ~Fanned(x) /\ Fanned(x)' BY <2>1, <2>2 DEF Fanned
    <2> QED BY <1>5, <2>1, <2>3
  <1>7. ASSUME Redeliver PROVE Fed'
    <2>1. PICK x \in Events : Send(x) /\ ~Handled(x) /\ Handled(x)' BY <1>7, AtCursor
    <2> QED BY <1>5, <2>1
  <1> QED BY <1>1, <1>4, <1>6, <1>7, GotChanges DEF DeliveryInv

LEMMA InitDelivery == Init => DeliveryInv
  <1> SUFFICES ASSUME Init PROVE DeliveryInv OBVIOUS
  <1>1. OnlyLocalFans BY DEF Init, OnlyLocalFans
  <1>2. ASSUME NEW s \in Subs, NEW e \in Events PROVE Copies(s, e) = 0
    <2>1. {k \in DOMAIN got[s] : got[s][k] = e} = {} BY DEF Init
    <2> QED BY <2>1, FS_EmptySet DEF Copies
  <1> QED BY <1>1, <1>2 DEF DeliveryInv, Fed

(* On either store, however publish and the watcher interleave and however small  *)
(* the ring is, no subscriber gets a remote event twice or a local one three      *)
(* times: each of the two ways to a subscriber carries an event once.             *)
THEOREM DeliveredAtMostTwice == Spec => []DeliveryBound
  <1>1. TypeOK /\ CursorInv /\ DeliveryInv /\ [Next]_vars => DeliveryInv' BY StepDelivery
  <1>2. TypeOK /\ DeliveryInv => DeliveryBound
    <2> SUFFICES ASSUME TypeOK, DeliveryInv, NEW s \in Subs, NEW e \in Events
                 PROVE  Copies(s, e) <= IF e \in Local THEN 2 ELSE 1
      BY DEF DeliveryBound
    <2>1. Copies(s, e) <= (IF Handled(e) THEN 1 ELSE 0) + (IF Fanned(e) THEN 1 ELSE 0)
      BY DEF DeliveryInv, Fed
    <2>2. e \notin Local => ~Fanned(e) BY DEF Fanned
    <2>3. Copies(s, e) \in Nat BY CopiesNat
    <2> QED BY <2>1, <2>2, <2>3
  <1> QED BY <1>1, <1>2, InitDelivery, TypeCorrect, CursorInvariant, PTL DEF Spec

(* The order of remote events. *)
RemoteHandled ==
    \A s \in Subs, e \in Remote : (\E k \in DOMAIN got[s] : got[s][k] = e) => Handled(e)

LEMMA StepOrder ==
  ASSUME TypeOK, CursorInv, DeliveryInv, RemoteHandled, RemoteInOrder, [Next]_vars
  PROVE  RemoteHandled' /\ RemoteInOrder'
  <1>1. \A e \in Events : Handled(e) => Handled(e)' /\ IdOf(e)' = IdOf(e) BY HandledKept
  <1>2. Remote \subseteq Events BY DEF Events
  <1>a. ASSUME NEW x \in Events, Send(x),
               \/ x \notin Remote
               \/ Handled(x)' /\ \A e \in Events : Handled(e) => IdOf(e)' < IdOf(x)'
        PROVE  RemoteHandled' /\ RemoteInOrder'
    <2> SUFFICES ASSUME NEW s \in Subs
                 PROVE  /\ \A e \in Remote : (\E k \in DOMAIN got'[s] : got'[s][k] = e) => Handled(e)'
                        /\ \A j, k \in DOMAIN got'[s] : \A e, f \in Remote :
                              j < k /\ got'[s][j] = e /\ got'[s][k] = f => IdOf(e)' < IdOf(f)'
      BY DEF RemoteHandled, RemoteInOrder
    <2> DEFINE n == Len(got[s])
    <2>1. got[s] \in Seq(Events) /\ n \in Nat /\ DOMAIN got[s] = 1 .. n BY DEF TypeOK
    <2>2. \A e \in Remote : (\E k \in DOMAIN got[s] : got[s][k] = e) => Handled(e) BY DEF RemoteHandled
    <2>3. \A j, k \in DOMAIN got[s] : \A e, f \in Remote :
             j < k /\ got[s][j] = e /\ got[s][k] = f => IdOf(e) < IdOf(f)
      BY DEF RemoteInOrder
    <2>4. got'[s] = got[s] \/ got'[s] = Append(got[s], x) BY <1>a DEF Send
    <2> HIDE DEF Handled, IdOf
    <2>5. CASE got'[s] = got[s] BY <1>1, <1>2, <2>2, <2>3, <2>5
    <2>6. CASE got'[s] = Append(got[s], x)
      <3>1. /\ DOMAIN got'[s] = 1 .. n + 1 /\ got'[s][n + 1] = x
            /\ \A k \in 1 .. n : got'[s][k] = got[s][k]
        BY <2>1, <2>6, AppendProperties
      <3>2. ASSUME NEW e \in Remote, NEW k \in DOMAIN got'[s], got'[s][k] = e PROVE Handled(e)'
        <4>1. CASE k \in 1 .. n BY <1>1, <1>2, <2>1, <2>2, <3>1, <3>2, <4>1
        <4>2. CASE k = n + 1 BY <1>a, <3>1, <3>2, <4>2
        <4> QED BY <2>1, <3>1, <4>1, <4>2
      <3>3. ASSUME NEW j \in DOMAIN got'[s], NEW k \in DOMAIN got'[s], NEW e \in Remote, NEW f \in Remote,
                   j < k, got'[s][j] = e, got'[s][k] = f
            PROVE  IdOf(e)' < IdOf(f)'
        <4>1. j \in 1 .. n /\ got[s][j] = e BY <2>1, <3>1, <3>3
        <4>2. Handled(e) /\ IdOf(e)' = IdOf(e) BY <1>1, <1>2, <2>1, <2>2, <4>1
        <4>3. CASE k \in 1 .. n
          <5>1. got[s][k] = f BY <3>1, <3>3, <4>3
          <5>2. IdOf(f)' = IdOf(f) BY <1>1, <1>2, <2>1, <2>2, <4>3, <5>1
          <5>3. IdOf(e) < IdOf(f) BY <2>1, <2>3, <3>3, <4>1, <4>3, <5>1
          <5> QED BY <4>2, <5>2, <5>3
        <4>4. CASE k = n + 1 BY <1>2, <1>a, <3>1, <3>3, <4>2, <4>4
        <4> QED BY <2>1, <3>1, <4>3, <4>4
      <3> QED BY <3>2, <3>3
    <2> QED BY <2>4, <2>5, <2>6
  <1>3. CASE got' = got
    <2>1. RemoteHandled' BY <1>1, <1>2, <1>3 DEF RemoteHandled
    <2>2. ASSUME NEW s \in Subs, NEW j \in DOMAIN got[s], NEW k \in DOMAIN got[s],
                 NEW e \in Remote, NEW f \in Remote, j < k, got[s][j] = e, got[s][k] = f
          PROVE  IdOf(e)' < IdOf(f)'
      <3>1. IdOf(e) < IdOf(f) BY <2>2 DEF RemoteInOrder
      <3>2. Handled(e) /\ Handled(f) BY <2>2 DEF RemoteHandled
      <3> QED BY <1>1, <1>2, <3>1, <3>2
    <2> QED BY <1>3, <2>1, <2>2 DEF RemoteInOrder
  <1>4. ASSUME NEW x \in Events, FanOut(x) PROVE RemoteHandled' /\ RemoteInOrder'
    <2>1. pc[x] = "recorded" /\ Send(x) BY <1>4 DEF FanOut
    <2>2. x \notin Remote BY <2>1, EventsAssumption DEF DeliveryInv, OnlyLocalFans
    <2> QED BY <1>a, <2>1, <2>2
  <1>5. CASE Redeliver
    <2>1. PICK x \in Events : IdOf(x) = last_seen /\ Send(x) /\ Handled(x)' BY <1>5, AtCursor
    <2>2. wpc = "fanout" /\ rows' = rows BY <1>5 DEF Redeliver, table
    <2>3. \A e : IdOf(e)' = IdOf(e) BY <2>2 DEF IdOf
    <2>4. ASSUME NEW e \in Events, Handled(e) PROVE IdOf(e) < last_seen
      <3>1. PICK i \in DOMAIN rows : rows[i].event = e /\ i < last_seen BY <2>2, <2>4 DEF Handled
      <3> QED BY <3>1, RowOf DEF CursorInv
    <2> QED BY <1>a, <2>1, <2>3, <2>4
  <1>6. \/ got' = got
        \/ \E x \in Events : FanOut(x)
        \/ Redeliver
    BY GotChanges
  <1> QED BY <1>3, <1>4, <1>5, <1>6

(* On either store, a subscriber gets the events of other processes in the order  *)
(* of their ids, whatever it had to miss in between.                              *)
THEOREM RemoteEventsInOrder == Spec => []RemoteInOrder
  <1>1. Init => RemoteHandled /\ RemoteInOrder BY DEF Init, RemoteHandled, RemoteInOrder
  <1>2. TypeOK /\ CursorInv /\ DeliveryInv /\ [Next]_vars => DeliveryInv' BY StepDelivery
  <1>3. TypeOK /\ CursorInv /\ DeliveryInv /\ RemoteHandled /\ RemoteInOrder /\ [Next]_vars
          => RemoteHandled' /\ RemoteInOrder'
    BY StepOrder
  <1> QED BY <1>1, <1>2, <1>3, InitDelivery, TypeCorrect, CursorInvariant, PTL DEF Spec

------------------------------------------------------------------------------
(* What was there before the start. *)

LEMMA LastSeq ==
  ASSUME TypeOK
  PROVE  \A j \in Visible : j <= current_global_seq
  <1>1. CASE Visible = {} BY <1>1
  <1>2. CASE Visible # {}
    <2>1. \E i \in Visible : \A j \in Visible : j <= i BY <1>2, VisibleFinite, GreatestOf
    <2> QED BY <1>2, <2>1 DEF current_global_seq
  <1> QED BY <1>1, <1>2

(* The old rows stay, the cursor starts behind them, and only rows beyond the *)
(* start are sent.                                                            *)
StartInv ==
    /\ \A i \in DOMAIN Old : i \in Visible /\ rows[i].event = Old[i]
    /\ wpc # "start" => \A i \in DOMAIN Old : i <= start
    /\ wpc = "fanout" => start < last_seen
    /\ OldStaysOld

LEMMA StepStart ==
  ASSUME ~CursorErrors, TypeOK, CursorInv, DeliveryInv, StartInv, [Next]_vars
  PROVE  StartInv'
  <1>1. \A i \in DOMAIN Old : i \in Visible' /\ rows'[i].event = Old[i]
    <2>1. ASSUME NEW x \in Events, InsertRow(x) \/ CommitRow(x) \/ AbortRow(x)
          PROVE  \A i \in DOMAIN Old : i \in Visible' /\ rows'[i].event = Old[i]
      BY <2>1, RowsKept DEF StartInv
    <2>2. CASE rows' = rows BY <2>2 DEF StartInv, Visible
    <2>3. \/ rows' = rows
          \/ \E x \in Events : InsertRow(x) \/ CommitRow(x) \/ AbortRow(x)
      BY DEF Next, Publish, Subscriber, WatcherStep, RecordInRing, FanOut, Subscribe, CloseReceiver, Receive,
             ReadCursor, ReadCursorFails, Poll, Consider, Redeliver, EndBatch, Wake, PollFails, Cancel,
             table, vars
    <2> QED BY <2>1, <2>2, <2>3
  <1>2. wpc' # "start" => \A i \in DOMAIN Old : i <= start'
    <2>1. CASE ReadCursor BY <2>1, LastSeq DEF ReadCursor, StartInv
    <2>2. ~ReadCursorFails BY DEF ReadCursorFails
    <2>3. ~ReadCursor => start' = start /\ (wpc' # "start" => wpc # "start")
      BY <2>2 DEF Next, Publish, InsertRow, CommitRow, AbortRow, Subscriber, WatcherStep, RecordInRing, FanOut,
                  Subscribe, CloseReceiver, Receive, Poll, Consider, Redeliver, EndBatch, Wake,
                  PollFails, Cancel, watcher, vars
    <2> QED BY <2>1, <2>3 DEF StartInv
  <1>3. wpc' = "fanout" => start' < last_seen'
    <2>1. CASE Consider
      <3>1. wpc = "batch" /\ batch # {} /\ last_seen' = Smallest(batch) /\ start' = start
        BY <2>1 DEF Consider
      <3>2. Smallest(batch) \in batch /\ batch \in SUBSET Nat BY <3>1, SmallestOf DEF TypeOK
      <3>3. Smallest(batch) > last_seen /\ start <= last_seen /\ Smallest(batch) \in Nat
            /\ start \in Nat /\ last_seen \in Nat
        BY <3>1, <3>2 DEF CursorInv, BatchAhead, CursorInTable, TypeOK
      <3> QED BY <3>1, <3>3
    <2>2. ~Consider => wpc' # "fanout" \/ (wpc' = wpc /\ UNCHANGED <<start, last_seen>>)
      BY DEF Next, Publish, InsertRow, CommitRow, AbortRow, Subscriber, WatcherStep, RecordInRing, FanOut,
             Subscribe, CloseReceiver, Receive, ReadCursor, ReadCursorFails, Poll, Redeliver, EndBatch, Wake,
             PollFails, Cancel, watcher, vars
    <2> QED BY <2>1, <2>2 DEF StartInv
  <1>4. OldStaysOld'
    <2>1. ASSUME NEW x \in Events, Send(x), x \notin OldEvents PROVE OldStaysOld'
      <3> SUFFICES ASSUME NEW s \in Subs, NEW k \in DOMAIN got'[s] PROVE got'[s][k] \notin OldEvents
        BY DEF OldStaysOld
      <3>1. got[s] \in Seq(Events) /\ Len(got[s]) \in Nat /\ DOMAIN got[s] = 1 .. Len(got[s]) BY DEF TypeOK
      <3>2. got'[s] = got[s] \/ got'[s] = Append(got[s], x) BY <2>1 DEF Send
      <3>3. (k \in DOMAIN got[s] /\ got'[s][k] = got[s][k]) \/ got'[s][k] = x
        BY <3>1, <3>2, AppendProperties
      <3> QED BY <2>1, <3>3 DEF StartInv, OldStaysOld
    <2>2. CASE got' = got BY <2>2 DEF StartInv, OldStaysOld
    <2>3. ASSUME NEW x \in Events, FanOut(x) PROVE OldStaysOld'
      <3>1. pc[x] = "recorded" /\ Send(x) BY <2>3 DEF FanOut
      <3>2. x \notin OldEvents BY <3>1, EventsAssumption DEF DeliveryInv, OnlyLocalFans
      <3> QED BY <2>1, <3>1, <3>2
    <2>4. CASE Redeliver
      <3>1. PICK x \in Events : rows[last_seen].event = x /\ IdOf(x) = last_seen /\ Send(x)
        BY <2>4, AtCursor
      <3>2. wpc = "fanout" BY <2>4 DEF Redeliver
      <3>3. start < last_seen /\ start \in Nat /\ last_seen \in Nat BY <3>2 DEF StartInv, TypeOK
      <3>4. ASSUME NEW i \in DOMAIN Old, x = Old[i] PROVE FALSE
        <4>1. i \in DOMAIN rows /\ rows[i].event = x BY <3>4 DEF StartInv, Visible
        <4>2. i = last_seen BY <3>1, <4>1, RowOf DEF CursorInv
        <4>3. i <= start BY <3>2 DEF StartInv
        <4> QED BY <3>3, <4>2, <4>3
      <3>5. x \notin OldEvents BY <3>4 DEF OldEvents
      <3> QED BY <2>1, <3>1, <3>5
    <2> QED BY <2>2, <2>3, <2>4, GotChanges
  <1> QED BY <1>1, <1>2, <1>3, <1>4 DEF StartInv

(* A watcher that could read its cursor when it started never delivers an event   *)
(* that was in the store before.                                                  *)
THEOREM HistoryStaysUnsaid ==
  ASSUME ~CursorErrors
  PROVE  Spec => []OldStaysOld
  <1>1. Init => StartInv
    <2> SUFFICES ASSUME Init PROVE StartInv OBVIOUS
    <2>1. \A i \in DOMAIN Old : i \in DOMAIN rows /\ rows[i].event = Old[i] /\ rows[i].state = "visible"
      BY DEF Init
    <2>2. OldStaysOld BY DEF Init, OldStaysOld
    <2> QED BY <2>1, <2>2 DEF Init, StartInv, Visible
  <1>2. TypeOK /\ CursorInv /\ DeliveryInv /\ [Next]_vars => DeliveryInv' BY StepDelivery
  <1>3. TypeOK /\ CursorInv /\ DeliveryInv /\ StartInv /\ [Next]_vars => StartInv' BY StepStart
  <1>4. StartInv => OldStaysOld BY DEF StartInv
  <1> QED BY <1>1, <1>2, <1>3, <1>4, InitDelivery, TypeCorrect, CursorInvariant, PTL DEF Spec
=============================================================================
