------------------------------ MODULE ComponentProofs ------------------------------
(***************************************************************************)
(* What nine of the smaller components promise, proved of each alone: the   *)
(* workflow memory (AgentMemory), the walks over the store (StoreScan),    *)
(* the http_poll connector (Poller), submitted messages (Submit), the      *)
(* questions asked at a terminal (Asking), serve (Serve), the pool of      *)
(* shells (ShellPool), the traces service (Services) and the outbound      *)
(* sinks (Sinks).                                                          *)
(*                                                                         *)
(* Each is instantiated with the constants and variables of its own names; *)
(* a theorem is about one of the specifications, and none about two.       *)
(***************************************************************************)
EXTENDS Naturals, FiniteSetTheorems, FunctionTheorems, SequenceTheorems, WellFoundedInduction, TLAPS

CONSTANTS
    Tasks, Keys, MaxOps,                                                \* AgentMemory
    Ids, Scanners, Kinds, Page, MaxSeq, InOrder,                        \* StoreScan
    Processes, Ignored, Batch, PlusOne, Persist, MaxStarts,             \* Poller, with Ids
    Callers, Capacity, MaxProgress,                                     \* Submit
    Asks, Approvals, Elsewhere, MaxLost,                                \* Asking, with MaxStarts
    Projects, Feeders, Handlers, Corrs, Wanted, MaxLog, MaxTicks,       \* Serve, with Capacity
    Workers, Streams, MaxSessions, MaxShells, MaxCalls,                 \* ShellPool
    Steps, CorrOf, BatchSize, MaxEvents,                                \* Services, with Capacity
    SinkConfigs, Hints                                                  \* Sinks, with Kinds,
                                                                        \* Capacity and MaxEvents

VARIABLES
    log, shown, op, done, ops,                                          \* AgentMemory
    scan,                                                               \* StoreScan, with log
    arrived, saved, life, starts, cursor, items, todo, fired, told, lost, \* Poller
    call, inbox, registry, worker, senders,                             \* Submit
    up, waits, requested, decided, old, queue, open, lines, closed,     \* Asking, with starts,
                                                                        \* inbox, shown and lost
    project, phase, feeder, handler, run, missed,                       \* Serve, with log and inbox
    sessions, process, home, calls,                                     \* ShellPool, with call
    step, events, service, trace_map, active_generation, span_map,      \* Services, with inbox
    batch, sent,                                                        \* and lost
    task, handled, untold, cancelled                                    \* Sinks, with log and queue

-----------------------------------------------------------------------------
(* Numbers.                                                                  *)
LEMMA LeastOf ==
  ASSUME NEW S \in SUBSET Nat, S # {}
  PROVE  \E m \in S : \A k \in S : m <= k
  <1> DEFINE R == OpToRel(<, Nat)
  <1>1. IsWellFoundedOn(R, Nat) BY NatLessThanWellFounded
  <1>2. \A x, y \in Nat : <<x, y>> \in R <=> x < y BY DEF OpToRel
  <1> HIDE DEF R
  <1>3. PICK m \in S : \A y \in S : ~(<<y, m>> \in R) BY <1>1, WFMin
  <1>4. ASSUME NEW k \in S PROVE m <= k
    <2>1. k \in Nat /\ m \in Nat OBVIOUS
    <2>2. ~(k < m) BY <1>2, <1>3, <2>1
    <2> QED BY <2>1, <2>2
  <1> QED BY <1>4

LEMMA GreatestOf ==
  ASSUME NEW n \in Nat, NEW S \in SUBSET (0..n), S # {}
  PROVE  \E m \in S : \A k \in S : k <= m
  <1> DEFINE T == {n - k : k \in S}
  <1>1. T \in SUBSET Nat /\ T # {}
    <2>1. ASSUME NEW k \in S PROVE n - k \in Nat
      <3>1. k \in 0..n OBVIOUS
      <3> QED BY <3>1
    <2> QED BY <2>1
  <1>2. \A k \in S : n - k \in T OBVIOUS
  <1>3. \A t \in T : \E k \in S : t = n - k OBVIOUS
  <1> HIDE DEF T
  <1>4. PICK t \in T : \A u \in T : t <= u BY <1>1, LeastOf
  <1>5. PICK m \in S : t = n - m BY <1>3
  <1>6. ASSUME NEW k \in S PROVE k <= m
    <2>1. n - k \in T /\ k \in 0..n /\ m \in 0..n BY <1>2
    <2>2. n - m <= n - k BY <1>4, <1>5, <2>1
    <2> QED BY <2>1, <2>2
  <1> QED BY <1>6

-----------------------------------------------------------------------------
(* The workflow memory of a run.                                            *)
Memory == INSTANCE AgentMemory

MemoryEntry == [key : Keys, kind : Memory!Kinds, prev : {Memory!Absent, Memory!Placeholder}, after : SUBSET Nat]
MemoryOp == [pc : {"idle", "publish", "apply"}, kind : Memory!Kinds, key : Keys \cup {Memory!Idle.key},
             prev : {Memory!Absent, Memory!Placeholder}, after : SUBSET Nat, event : Nat,
             reply : {"none", "ok", "error", "not_found"}]

MemoryTyped ==
    /\ log \in Seq(MemoryEntry)
    /\ shown \in [Keys -> Nat]
    /\ op \in [Tasks -> MemoryOp]
    /\ done \subseteq 1..Len(log)

(* An operation has noted what had returned when it began; its event is    *)
(* nobody else's and has not been applied.                                 *)
OpInv(t) ==
    /\ op[t].pc # "idle" => op[t].key \in Keys /\ op[t].after \subseteq done
    /\ op[t].pc = "apply" =>
          /\ op[t].event \in 1..Len(log) /\ op[t].event \notin done
          /\ log[op[t].event].key = op[t].key

OwnEvent ==
    \A t, u \in Tasks :
        t # u /\ op[t].pc = "apply" /\ op[u].pc = "apply" => op[t].event # op[u].event

(* What an event notes of its past had returned, and so was applied before. *)
Noted == \A e \in 1..Len(log) : log[e].after \subseteq done

Applied ==
    /\ \A k \in Keys : shown[k] # 0 => shown[k] \in done /\ log[shown[k]].key = k
    /\ \A e \in done : shown[log[e].key] # 0 /\ shown[log[e].key] \notin log[e].after

MemoryInv == MemoryTyped /\ (\A t \in Tasks : OpInv(t)) /\ OwnEvent /\ Noted /\ Applied

LEMMA IdleOp ==
  ASSUME NEW r \in {"none", "ok", "error", "not_found"}
  PROVE  [Memory!Idle EXCEPT !.reply = r] \in MemoryOp /\ [Memory!Idle EXCEPT !.reply = r].pc = "idle"
  BY DEF Memory!Idle, MemoryOp, Memory!Kinds, Memory!Absent

LEMMA BeginKeeps ==
  ASSUME MemoryInv, NEW t \in Tasks, NEW kind \in Memory!Kinds, NEW k \in Keys, Memory!Begin(t, kind, k)
  PROVE  MemoryInv'
  <1>1. /\ MemoryTyped /\ \A u \in Tasks : OpInv(u) /\ UNCHANGED <<log, shown, done>>
        /\ OwnEvent /\ Noted /\ Applied
    BY DEF MemoryInv, Memory!Begin
  <1>2. done \subseteq Nat BY <1>1, LenProperties DEF MemoryTyped
  <1>3. PICK x \in MemoryOp :
          /\ op' = [op EXCEPT ![t] = x]
          /\ x.pc = "idle" \/ (x.pc = "publish" /\ x.key = k /\ x.after = done)
    <2>1. CASE kind = "delete" /\ ~Memory!Present(k)
      <3>1. op' = [op EXCEPT ![t] = [Memory!Idle EXCEPT !.reply = "not_found"]] BY <2>1 DEF Memory!Begin
      <3> QED BY <3>1, IdleOp
    <2>2. CASE ~(kind = "delete" /\ ~Memory!Present(k))
      <3> DEFINE y == [Memory!Idle EXCEPT !.pc = "publish", !.kind = kind, !.key = k,
                                   !.prev = Memory!SeqFor(k), !.after = done]
      <3>1. op' = [op EXCEPT ![t] = y] BY <2>2 DEF Memory!Begin
      <3>2. Memory!SeqFor(k) \in {Memory!Absent, Memory!Placeholder} BY DEF Memory!SeqFor
      <3>3. y \in MemoryOp /\ y.pc = "publish" /\ y.key = k /\ y.after = done
        BY <1>2, <3>2 DEF Memory!Idle, MemoryOp
      <3> HIDE DEF y
      <3> QED BY <3>1, <3>3
    <2> QED BY <2>1, <2>2
  <1>4. op' \in [Tasks -> MemoryOp] /\ op'[t] = x /\ \A u \in Tasks : u # t => op'[u] = op[u]
    BY <1>1, <1>3 DEF MemoryTyped
  <1>5. MemoryTyped' BY <1>1, <1>4 DEF MemoryTyped
  <1>6. ASSUME NEW u \in Tasks PROVE OpInv(u)'
    <2>1. CASE u = t BY <1>1, <1>3, <1>4, <2>1 DEF OpInv
    <2>2. CASE u # t BY <1>1, <1>4, <2>2 DEF OpInv
    <2> QED BY <2>1, <2>2
  <1>7. OwnEvent' BY <1>1, <1>3, <1>4 DEF OwnEvent
  <1>8. Noted' /\ Applied' BY <1>1 DEF Noted, Applied
  <1> QED BY <1>5, <1>6, <1>7, <1>8 DEF MemoryInv

LEMMA PublishKeeps ==
  ASSUME MemoryInv, NEW t \in Tasks, Memory!Publish(t) PROVE MemoryInv'
  <1>1. /\ MemoryTyped /\ \A u \in Tasks : OpInv(u) /\ UNCHANGED <<shown, done>>
        /\ OwnEvent /\ Noted /\ Applied
    BY DEF MemoryInv, Memory!Publish
  <1>2. op[t].pc = "publish" /\ op[t] \in MemoryOp /\ op[t].key \in Keys /\ op[t].after \subseteq done
    BY <1>1 DEF Memory!Publish, MemoryTyped, OpInv
  <1>3. PICK n \in Nat : n = Len(log) BY <1>1, LenProperties DEF MemoryTyped
  <1>4. PICK e \in MemoryEntry : log' = Append(log, e) /\ e.key = op[t].key /\ e.after = op[t].after
    BY <1>2 DEF Memory!Publish, MemoryEntry, MemoryOp
  <1>5. /\ log' \in Seq(MemoryEntry) /\ Len(log') = n + 1 /\ log'[n + 1] = e
        /\ \A i \in 1..n : log'[i] = log[i]
    BY <1>1, <1>3, <1>4, AppendProperties DEF MemoryTyped
  <1>6. PICK x \in MemoryOp :
          /\ op' = [op EXCEPT ![t] = x]
          /\ x.pc = "apply" /\ x.key = op[t].key /\ x.after = op[t].after /\ x.event = n + 1
    <2> DEFINE y == [op[t] EXCEPT !.pc = "apply", !.event = n + 1]
    <2>1. op' = [op EXCEPT ![t] = y] BY <1>1, <1>3 DEF Memory!Publish, MemoryTyped
    <2>2. y = [op[t] EXCEPT !.pc = "apply", !.event = n + 1] OBVIOUS
    <2> HIDE DEF y
    <2>3. PICK m \in Nat : m = n + 1 BY <1>3
    <2>4. y = [op[t] EXCEPT !.pc = "apply", !.event = m] BY <2>2, <2>3
    <2>5. y \in MemoryOp /\ y.pc = "apply" /\ y.key = op[t].key /\ y.after = op[t].after /\ y.event = m
      BY ONLY <1>2, <2>4, m \in Nat DEF MemoryOp
    <2> QED BY <2>1, <2>3, <2>5
  <1>7. op' \in [Tasks -> MemoryOp] /\ op'[t] = x /\ \A u \in Tasks : u # t => op'[u] = op[u]
    BY <1>1, <1>6 DEF MemoryTyped
  <1>8. done \subseteq 1..n /\ \A i \in 1..n : i \in 1..(n + 1)
    BY <1>1, <1>3 DEF MemoryTyped
  <1>9. MemoryTyped' BY <1>1, <1>5, <1>7, <1>8 DEF MemoryTyped
  <1>10. ASSUME NEW u \in Tasks PROVE OpInv(u)'
    <2>1. CASE u = t
      <3>1. n + 1 \in 1..(n + 1) /\ n + 1 \notin done BY <1>3, <1>8
      <3> QED BY <1>1, <1>2, <1>4, <1>5, <1>6, <1>7, <2>1, <3>1 DEF OpInv
    <2>2. CASE u # t
      <3>1. op'[u] = op[u] /\ OpInv(u) BY <1>1, <1>7, <2>2
      <3> QED BY <1>1, <1>3, <1>5, <1>8, <3>1 DEF OpInv
    <2> QED BY <2>1, <2>2
  <1>11. OwnEvent'
    <2>1. \A u \in Tasks : op[u].pc = "apply" => op[u].event # n + 1
      BY <1>1, <1>3 DEF OpInv
    <2> QED BY <1>1, <1>6, <1>7, <2>1 DEF OwnEvent
  <1>12. Noted'
    <2>1. \A i \in 1..(n + 1) : i \in 1..n \/ i = n + 1 BY <1>3
    <2> QED BY <1>1, <1>2, <1>3, <1>4, <1>5, <2>1 DEF Noted
  <1>13. Applied'
    <2>1. \A i \in done : log'[i] = log[i] BY <1>5, <1>8
    <2>2. \A k \in Keys : shown[k] # 0 => shown[k] \in done /\ log'[shown[k]].key = k
      BY <1>1, <2>1 DEF Applied
    <2>3. \A i \in done : shown[log'[i].key] # 0 /\ shown[log'[i].key] \notin log'[i].after
      BY <1>1, <2>1 DEF Applied
    <2> QED BY <1>1, <2>2, <2>3 DEF Applied
  <1> QED BY <1>9, <1>10, <1>11, <1>12, <1>13 DEF MemoryInv

LEMMA PublishFailsKeeps ==
  ASSUME MemoryInv, NEW t \in Tasks, Memory!PublishFails(t) PROVE MemoryInv'
  <1>1. /\ MemoryTyped /\ \A u \in Tasks : OpInv(u) /\ UNCHANGED <<log, shown, done>>
        /\ OwnEvent /\ Noted /\ Applied
    BY DEF MemoryInv, Memory!PublishFails
  <1>2. PICK x \in MemoryOp : op' = [op EXCEPT ![t] = x] /\ x.pc = "idle"
    BY IdleOp DEF Memory!PublishFails
  <1>3. op' \in [Tasks -> MemoryOp] /\ op'[t] = x /\ \A u \in Tasks : u # t => op'[u] = op[u]
    BY <1>1, <1>2 DEF MemoryTyped
  <1>4. MemoryTyped' BY <1>1, <1>3 DEF MemoryTyped
  <1>5. \A u \in Tasks : OpInv(u)' BY <1>1, <1>2, <1>3 DEF OpInv
  <1>6. OwnEvent' BY <1>1, <1>2, <1>3 DEF OwnEvent
  <1>7. Noted' /\ Applied' BY <1>1 DEF Noted, Applied
  <1> QED BY <1>4, <1>5, <1>6, <1>7 DEF MemoryInv

LEMMA ApplyKeeps ==
  ASSUME MemoryInv, NEW t \in Tasks, Memory!Apply(t) PROVE MemoryInv'
  <1>1. /\ MemoryTyped /\ \A u \in Tasks : OpInv(u) /\ UNCHANGED log
        /\ OwnEvent /\ Noted /\ Applied
    BY DEF MemoryInv, Memory!Apply
  <1>2. op[t].pc = "apply" BY DEF Memory!Apply
  <1>3. PICK k \in Keys, e \in 1..Len(log) :
          /\ k = op[t].key /\ e = op[t].event /\ e \notin done /\ log[e].key = k
    BY <1>1, <1>2 DEF OpInv
  <1>4. Len(log) \in Nat /\ e \in Nat /\ e # 0 BY <1>1, LenProperties DEF MemoryTyped
  <1>5. PICK x \in MemoryOp : op' = [op EXCEPT ![t] = x] /\ x.pc = "idle"
    BY IdleOp DEF Memory!Apply
  <1>6. op' \in [Tasks -> MemoryOp] /\ op'[t] = x /\ \A u \in Tasks : u # t => op'[u] = op[u]
    BY <1>1, <1>5 DEF MemoryTyped
  <1>7. /\ shown' \in [Keys -> Nat] /\ shown'[k] = e /\ \A l \in Keys : l # k => shown'[l] = shown[l]
        /\ done' = done \cup {e}
    BY <1>1, <1>3, <1>4 DEF MemoryTyped, Memory!Apply
  <1>8. MemoryTyped' BY <1>1, <1>6, <1>7 DEF MemoryTyped
  <1>9. ASSUME NEW u \in Tasks PROVE OpInv(u)'
    <2>1. CASE u = t BY <1>5, <1>6, <2>1 DEF OpInv
    <2>2. CASE u # t
      <3>1. op[u].pc = "apply" => op[u].event # e BY <1>1, <1>2, <1>3, <2>2 DEF OwnEvent
      <3>2. op'[u] = op[u] /\ OpInv(u) BY <1>1, <1>6, <2>2
      <3> QED BY <1>1, <1>7, <3>1, <3>2 DEF OpInv
    <2> QED BY <2>1, <2>2
  <1>10. OwnEvent' BY <1>1, <1>5, <1>6 DEF OwnEvent
  <1>11. Noted' BY <1>1, <1>7 DEF Noted
  <1>12. Applied'
    <2>1. ASSUME NEW l \in Keys, shown'[l] # 0 PROVE shown'[l] \in done' /\ log'[shown'[l]].key = l
      BY <1>1, <1>3, <1>7, <2>1 DEF Applied
    <2>2. ASSUME NEW f \in done'
          PROVE  shown'[log'[f].key] # 0 /\ shown'[log'[f].key] \notin log'[f].after
      <3>1. f \in 1..Len(log) BY <1>1, <1>3, <1>7, <2>2 DEF MemoryTyped
      <3>2. log[f] \in MemoryEntry BY <1>1, <3>1, ElementOfSeq DEF MemoryTyped
      <3>3. PICK l \in Keys : l = log[f].key BY <3>2 DEF MemoryEntry
      <3>4. log[f].after \subseteq done BY <1>1, <3>1 DEF Noted
      <3>5. CASE l = k BY <1>1, <1>3, <1>4, <1>7, <3>3, <3>4, <3>5
      <3>6. CASE l # k
        <4>1. f \in done BY <1>3, <1>7, <2>2, <3>3, <3>6
        <4> QED BY <1>1, <1>7, <3>3, <3>6, <4>1 DEF Applied
      <3> QED BY <3>5, <3>6
    <2> QED BY <2>1, <2>2 DEF Applied
  <1> QED BY <1>8, <1>9, <1>10, <1>11, <1>12 DEF MemoryInv

LEMMA InitMemory == Memory!Init => MemoryInv
  <1> SUFFICES ASSUME Memory!Init PROVE MemoryInv OBVIOUS
  <1>1. << >> \in Seq(MemoryEntry) /\ Len(<< >>) = 0 OBVIOUS
  <1>2. Memory!Idle \in MemoryOp /\ Memory!Idle.pc = "idle" BY DEF Memory!Idle, MemoryOp, Memory!Kinds, Memory!Absent
  <1>3. MemoryTyped BY <1>1, <1>2 DEF Memory!Init, MemoryTyped
  <1> QED BY <1>1, <1>2, <1>3 DEF Memory!Init, MemoryInv, OpInv, OwnEvent, Noted, Applied

(* Whatever the steps of a level interleave: an event is applied by its    *)
(* own operation alone, what it noted of its past had returned, and each   *)
(* key shows an event that was applied.                                    *)
THEOREM MemoryInvariant == Memory!Spec => []MemoryInv
  <1>1. MemoryInv /\ [Memory!Next]_Memory!vars => MemoryInv'
    <2> SUFFICES ASSUME MemoryInv, [Memory!Next]_Memory!vars PROVE MemoryInv' OBVIOUS
    <2>1. CASE UNCHANGED Memory!vars
      BY <2>1 DEF Memory!vars, MemoryInv, MemoryTyped, OpInv, OwnEvent, Noted, Applied
    <2>2. ASSUME NEW t \in Tasks, NEW kind \in Memory!Kinds, NEW k \in Keys, Memory!Begin(t, kind, k)
          PROVE  MemoryInv'
      BY <2>2, BeginKeeps
    <2>3. ASSUME NEW t \in Tasks, Memory!Publish(t) \/ Memory!PublishFails(t) \/ Memory!Apply(t) PROVE MemoryInv'
      BY <2>3, PublishKeeps, PublishFailsKeeps, ApplyKeeps
    <2> QED BY <2>1, <2>2, <2>3 DEF Memory!Next
  <1> QED BY <1>1, InitMemory, PTL DEF Memory!Spec

(* A read after a write has returned shows that write, or one that had not *)
(* returned when it began.                                                 *)
THEOREM ReadsAreRecent == Memory!Spec => []Memory!MemoryIsRecent
  <1>1. MemoryInv => Memory!MemoryIsRecent
    <2> SUFFICES ASSUME MemoryInv PROVE Memory!MemoryIsRecent OBVIOUS
    <2>1. MemoryTyped /\ Applied BY DEF MemoryInv
    <2>2. done \subseteq DOMAIN log BY <2>1, LenProperties DEF MemoryTyped
    <2> QED BY <2>1, <2>2 DEF Applied, Memory!MemoryIsRecent
  <1> QED BY <1>1, MemoryInvariant, PTL

-----------------------------------------------------------------------------
(* Walks over a store that grows meanwhile.                                  *)
Walks == INSTANCE StoreScan

(* A page holds something, and the store is as long as it is. *)
ScanBounds == Page \in Nat \ {0} /\ MaxSeq \in Nat

LogEntry == {Walks!Free, Walks!Other} \cup {Walks!Requested(i) : i \in Ids} \cup {Walks!Decided(i) : i \in Ids}
ScanT == [pc : {"idle", "walk", "correlate", "done", "reported", "sealing", "publish", "published",
                "not found", "ignored"},
          kind : Kinds \cup {Walks!None}, from : Nat, target : Ids \cup {Walks!None},
          requested : SUBSET Ids, decided : SUBSET Ids, before : [Walks!Positions -> LogEntry]]

(* What x has collected of the requests, or the answers, at position n. *)
SawRequest(x, n) == \A i \in Ids : x.before[n] = Walks!Requested(i) => i \in x.requested
SawAnswer(x, n) == \A i \in Ids : x.before[n] = Walks!Decided(i) => i \in x.decided

WalkInv(x) ==
    /\ x.pc # "idle" => \A n \in Walks!Positions : x.before[n] # Walks!Free => log[n] = x.before[n]
    /\ x.pc = "walk" => \A n \in Walks!Positions : n <= x.from => SawRequest(x, n) /\ SawAnswer(x, n)
    /\ x.pc \notin {"idle", "walk"} => \A n \in Walks!Positions : SawAnswer(x, n)
    /\ x.pc \notin {"idle", "walk", "sealing", "published"} => \A n \in Walks!Positions : SawRequest(x, n)
    /\ x.pc # "idle" => x.target \in Ids
    /\ \A i \in x.decided : Walks!Holds(log, Walks!Decided(i))

ScanTyped == log \in [Walks!Positions -> LogEntry] /\ scan \in [Scanners -> ScanT]
ScanInv == ScanTyped /\ \A s \in Scanners : WalkInv(scan[s])

LEMMA Entries ==
  ASSUME NEW e \in LogEntry
  PROVE  /\ e.kind = "requested" => e.id \in Ids /\ e = Walks!Requested(e.id)
         /\ e.kind = "decided" => e.id \in Ids /\ e = Walks!Decided(e.id)
         /\ \A i \in Ids : /\ e = Walks!Requested(i) => e.kind = "requested" /\ e.id = i /\ e # Walks!Free
                           /\ e = Walks!Decided(i) => e.kind = "decided" /\ e.id = i /\ e # Walks!Free
  BY DEF LogEntry, Walks!Requested, Walks!Decided, Walks!Free, Walks!Other, Walks!None

LEMMA CardinalityIs == ASSUME NEW S PROVE Walks!Cardinality(S) = Cardinality(S)
  BY DEF Walks!Cardinality, Cardinality

(* A page that is not full holds all there is after the position; a full   *)
(* one all there is up to its last event.                                  *)
LEMMA PageIs ==
  ASSUME ScanBounds, NEW f \in Nat, NEW p, p = Walks!PageFrom(f)
  PROVE  /\ p \subseteq Walks!After(f)
         /\ Cardinality(p) < Page => p = Walks!After(f)
         /\ ~(Cardinality(p) < Page) =>
               /\ Walks!LastOf(p) \in p /\ Walks!LastOf(p) \in Nat
               /\ \A m \in Walks!After(f) : m <= Walks!LastOf(p) => m \in p
  <1> DEFINE a == Walks!After(f)
             upto(m) == {k \in a : k <= m}
  <1>1. a \subseteq 1..MaxSeq /\ a \in SUBSET Nat BY DEF Walks!After, Walks!Positions
  <1>2. p = {m \in a : Cardinality(upto(m)) <= Page}
    <2>1. p = {m \in Walks!After(f) : Cardinality({k \in Walks!After(f) : k <= m}) <= Page}
      BY CardinalityIs DEF Walks!PageFrom
    <2> QED BY <2>1
  <1> HIDE DEF a
  <1>3. IsFiniteSet(a)
    <2>1. IsFiniteSet(1..MaxSeq) BY FS_Interval DEF ScanBounds
    <2> QED BY <1>1, <2>1, FS_Subset
  <1>4. \A m \in a : upto(m) \in SUBSET a OBVIOUS
  <1>5. \A m \in a : IsFiniteSet(upto(m)) /\ Cardinality(upto(m)) \in Nat
    BY <1>3, <1>4, FS_Subset, FS_CardinalityType
  <1>6. ASSUME NEW m \in a, NEW k \in a, k <= m PROVE Cardinality(upto(k)) <= Cardinality(upto(m))
    <2>1. upto(k) \in SUBSET upto(m)
      <3>1. \A j \in a : j \in Nat /\ (j <= k => j <= m) BY <1>1, <1>6
      <3> QED BY <3>1
    <2> QED BY <1>5, <2>1, FS_Subset
  <1> HIDE DEF upto
  <1>7. \A m \in p, k \in a : k <= m => k \in p
    <2> SUFFICES ASSUME NEW m \in p, NEW k \in a, k <= m PROVE k \in p OBVIOUS
    <2>1. m \in a /\ Cardinality(upto(m)) <= Page BY <1>2
    <2>2. Cardinality(upto(k)) <= Page BY <1>5, <1>6, <2>1 DEF ScanBounds
    <2> QED BY <1>2, <2>2
  <1>8. IsFiniteSet(p) /\ Cardinality(p) \in Nat BY <1>2, <1>3, FS_Subset, FS_CardinalityType
  <1>9. ASSUME Cardinality(p) < Page PROVE p = a
    <2> SUFFICES ASSUME a \ p # {} PROVE FALSE BY <1>2
    <2>1. PICK m \in a \ p : \A k \in a \ p : m <= k BY <1>1, LeastOf
    <2>2. upto(m) = p \cup {m}
      <3>1. \A k \in p : k <= m
        <4> SUFFICES ASSUME NEW k \in p, ~(k <= m) PROVE FALSE OBVIOUS
        <4>1. k \in Nat /\ m \in Nat /\ m <= k BY <1>1, <1>2
        <4> QED BY <1>7, <2>1, <4>1
      <3>2. \A k \in a : k <= m /\ k \notin p => k = m
        <4> SUFFICES ASSUME NEW k \in a, k <= m, k \notin p PROVE k = m OBVIOUS
        <4>1. k \in Nat /\ m \in Nat /\ m <= k BY <1>1, <2>1
        <4> QED BY <4>1
      <3>3. m <= m BY <1>1
      <3> QED BY <1>2, <3>1, <3>2, <3>3 DEF upto
    <2>3. Cardinality(upto(m)) = Cardinality(p) + 1
      <3>1. m \notin p BY <2>1
      <3>2. PICK s : s = p OBVIOUS
      <3>3. Cardinality(s \cup {m}) = Cardinality(s) + 1
        <4>1. IsFiniteSet(s) /\ m \notin s BY <1>8, <3>1, <3>2
        <4>2. Cardinality(s \cup {m}) = IF m \in s THEN Cardinality(s) ELSE Cardinality(s) + 1
          BY <4>1, FS_AddElement
        <4> QED BY <4>1, <4>2
      <3> QED BY <2>2, <3>2, <3>3
    <2>4. Cardinality(upto(m)) <= Page BY <1>8, <1>9, <2>3 DEF ScanBounds
    <2> QED BY <1>2, <2>1, <2>4
  <1>10. ASSUME ~(Cardinality(p) < Page)
         PROVE  /\ Walks!LastOf(p) \in p /\ Walks!LastOf(p) \in Nat
                /\ \A m \in a : m <= Walks!LastOf(p) => m \in p
    <2>1. p # {} BY <1>10, FS_EmptySet DEF ScanBounds
    <2>2. p \in SUBSET (0..MaxSeq)
      <3>1. \A k \in 1..MaxSeq : k \in 0..MaxSeq BY DEF ScanBounds
      <3> QED BY <1>1, <1>2, <3>1
    <2>3. PICK m \in p : \A k \in p : k <= m BY <2>1, <2>2, GreatestOf DEF ScanBounds
    <2>4. Walks!LastOf(p) \in p BY <2>3 DEF Walks!LastOf
    <2> QED BY <1>1, <1>2, <1>7, <2>4
  <1> QED BY <1>2, <1>9, <1>10 DEF a

(* A free position that is filled takes nothing from what a walk has seen. *)
LEMMA Filled ==
  ASSUME log \in [Walks!Positions -> LogEntry], NEW n \in Walks!Positions, log[n] = Walks!Free,
         NEW e \in LogEntry, log' = [log EXCEPT ![n] = e]
  PROVE  /\ log' \in [Walks!Positions -> LogEntry]
         /\ \A x \in ScanT : WalkInv(x) => WalkInv(x)'
  <1>1. log' \in [Walks!Positions -> LogEntry] OBVIOUS
  <1>2. \A m \in Walks!Positions : log[m] # Walks!Free => log'[m] = log[m] OBVIOUS
  <1>3. ASSUME NEW i \in Ids, Walks!Holds(log, Walks!Decided(i))
        PROVE  Walks!Holds(log', Walks!Decided(i))
    <2>1. Walks!Decided(i) # Walks!Free BY DEF Walks!Decided, Walks!Free, Walks!None
    <2> QED BY <1>2, <1>3, <2>1 DEF Walks!Holds
  <1>4. ASSUME NEW x \in ScanT, WalkInv(x) PROVE WalkInv(x)'
    <2>1. x.decided \subseteq Ids BY DEF ScanT
    <2>2. \A i \in x.decided : Walks!Holds(log', Walks!Decided(i)) BY <1>3, <1>4, <2>1 DEF WalkInv
    <2>3. x.pc # "idle" => \A m \in Walks!Positions : x.before[m] # Walks!Free => log'[m] = x.before[m]
      BY <1>2, <1>4 DEF WalkInv
    <2> QED BY <1>4, <2>2, <2>3 DEF WalkInv
  <1> QED BY <1>1, <1>4

(* A walk that goes on to x. *)
LEMMA WalkStep ==
  ASSUME ScanInv, NEW s \in Scanners, NEW x \in ScanT, scan' = [scan EXCEPT ![s] = x],
         log' \in [Walks!Positions -> LogEntry], \A y \in ScanT : WalkInv(y) => WalkInv(y)',
         WalkInv(x)
  PROVE  ScanInv'
  <1>1. scan \in [Scanners -> ScanT] /\ \A r \in Scanners : WalkInv(scan[r])
    BY DEF ScanInv, ScanTyped
  <1>2. scan' \in [Scanners -> ScanT] /\ scan'[s] = x /\ \A r \in Scanners : r # s => scan'[r] = scan[r]
    BY <1>1
  <1>3. ASSUME NEW r \in Scanners PROVE WalkInv(scan[r])'
    <2>1. PICK y \in ScanT : y = scan'[r] /\ WalkInv(y) BY <1>1, <1>2
    <2>2. WalkInv(y)' BY <2>1
    <2> QED BY <2>1, <2>2 DEF WalkInv, SawRequest, SawAnswer
  <1> QED BY <1>2, <1>3 DEF ScanInv, ScanTyped

LEMMA AppendKeeps ==
  ASSUME ScanInv, Walks!Append PROVE ScanInv'
  <1>1. PICK n \in Walks!Positions, e \in LogEntry :
          log[n] = Walks!Free /\ log' = [log EXCEPT ![n] = e] /\ UNCHANGED scan
    BY DEF Walks!Append, LogEntry
  <1>2. scan \in [Scanners -> ScanT] /\ \A r \in Scanners : WalkInv(scan[r])
    BY DEF ScanInv, ScanTyped
  <1>3. /\ log' \in [Walks!Positions -> LogEntry]
        /\ \A x \in ScanT : WalkInv(x) => WalkInv(x)'
    BY <1>1, Filled DEF ScanInv, ScanTyped
  <1>4. ASSUME NEW r \in Scanners PROVE WalkInv(scan[r])'
    <2>1. PICK y \in ScanT : y = scan'[r] /\ WalkInv(y) BY <1>1, <1>2
    <2>2. WalkInv(y)' BY <1>3, <2>1
    <2> QED BY <2>1, <2>2 DEF WalkInv, SawRequest, SawAnswer
  <1> QED BY <1>1, <1>2, <1>3, <1>4 DEF ScanInv, ScanTyped

LEMMA SameLog ==
  ASSUME ScanInv, UNCHANGED log
  PROVE  /\ log' \in [Walks!Positions -> LogEntry]
         /\ \A x \in ScanT : WalkInv(x) => WalkInv(x)'
  BY DEF ScanInv, ScanTyped, WalkInv

LEMMA BeginWalkKeeps ==
  ASSUME ScanBounds, ScanInv, NEW s \in Scanners, Walks!Begin(s) PROVE ScanInv'
  <1> DEFINE y(k, i) == [Walks!Idle EXCEPT !.pc = "walk", !.kind = k, !.target = i, !.before = log]
  <1>1. PICK k \in Kinds, i \in Ids : scan' = [scan EXCEPT ![s] = y(k, i)] /\ UNCHANGED log
    BY DEF Walks!Begin
  <1>2. log \in [Walks!Positions -> LogEntry] BY DEF ScanInv, ScanTyped
  <1>3. y(k, i) \in ScanT BY <1>2 DEF ScanT, Walks!Idle, Walks!None
  <1>4. /\ y(k, i).pc = "walk" /\ y(k, i).from = 0 /\ y(k, i).target = i /\ y(k, i).decided = {}
        /\ y(k, i).before = log
    BY DEF Walks!Idle
  <1> HIDE DEF y
  <1>5. \A n \in Walks!Positions : ~(n <= 0) BY DEF Walks!Positions, ScanBounds
  <1>6. WalkInv(y(k, i)) BY <1>4, <1>5 DEF WalkInv
  <1> QED BY <1>1, <1>3, <1>6, SameLog, WalkStep

(* Collect takes in what the page holds. *)
LEMMA Collected ==
  ASSUME ScanBounds, ScanInv, NEW s \in Scanners, NEW p \in SUBSET Walks!Positions,
         NEW y, y = Walks!Collect(s, p)
  PROVE  /\ y \in ScanT /\ y.pc = scan[s].pc /\ y.before = scan[s].before /\ y.target = scan[s].target
         /\ y.from = scan[s].from
         /\ scan[s].requested \subseteq y.requested /\ scan[s].decided \subseteq y.decided
         /\ \A m \in p, i \in Ids : /\ log[m] = Walks!Requested(i) => i \in y.requested
                                    /\ log[m] = Walks!Decided(i) => i \in y.decided
         /\ \A i \in y.decided : i \in scan[s].decided \/ Walks!Holds(log, Walks!Decided(i))
  <1> DEFINE r == {log[m].id : m \in {k \in p : log[k].kind = "requested"}}
             d == {log[m].id : m \in {k \in p : log[k].kind = "decided"}}
  <1>1. scan[s] \in ScanT /\ \A m \in p : log[m] \in LogEntry BY DEF ScanInv, ScanTyped
  <1>2. r \subseteq Ids /\ d \subseteq Ids BY <1>1, Entries
  <1>3. \A m \in p, i \in Ids : /\ log[m] = Walks!Requested(i) => i \in r
                                /\ log[m] = Walks!Decided(i) => i \in d
    BY <1>1, Entries
  <1>4. \A i \in d : Walks!Holds(log, Walks!Decided(i)) BY <1>1, Entries DEF Walks!Holds
  <1>5. y = [scan[s] EXCEPT !.requested = @ \cup r, !.decided = @ \cup d] BY DEF Walks!Collect
  <1> HIDE DEF r, d
  <1>6. /\ y \in ScanT /\ y.pc = scan[s].pc /\ y.before = scan[s].before /\ y.target = scan[s].target
        /\ y.from = scan[s].from /\ y.requested = scan[s].requested \cup r
        /\ y.decided = scan[s].decided \cup d
    BY ONLY <1>1, <1>2, <1>5 DEF ScanT
  <1> QED BY <1>3, <1>4, <1>6

LEMMA WalkOnKeeps ==
  ASSUME ScanBounds, ScanInv, NEW s \in Scanners, Walks!Walk(s) PROVE ScanInv'
  <1>1. PICK f \in Nat : f = scan[s].from BY DEF ScanInv, ScanTyped, ScanT
  <1>2. PICK p : p = Walks!PageFrom(f) OBVIOUS
  <1>3. p \in SUBSET Walks!Positions BY <1>2, PageIs DEF Walks!After
  <1>4. PICK y : y = Walks!Collect(s, p) OBVIOUS
  <1>5. /\ y \in ScanT /\ y.pc = scan[s].pc /\ y.before = scan[s].before /\ y.target = scan[s].target
        /\ y.from = f
        /\ scan[s].requested \subseteq y.requested /\ scan[s].decided \subseteq y.decided
        /\ \A m \in p, i \in Ids : /\ log[m] = Walks!Requested(i) => i \in y.requested
                                   /\ log[m] = Walks!Decided(i) => i \in y.decided
        /\ \A i \in y.decided : i \in scan[s].decided \/ Walks!Holds(log, Walks!Decided(i))
    BY <1>1, <1>3, <1>4, Collected
  <1>6. scan[s].pc = "walk" /\ WalkInv(scan[s]) /\ UNCHANGED log BY DEF Walks!Walk, ScanInv
  <1>7. \A n \in Walks!Positions : y.before[n] # Walks!Free => log[n] = y.before[n]
    BY <1>5, <1>6 DEF WalkInv
  <1>8. \A i \in y.decided : Walks!Holds(log, Walks!Decided(i)) BY <1>5, <1>6 DEF WalkInv
  <1>9. y.target \in Ids BY <1>5, <1>6 DEF WalkInv
  <1>10. ASSUME NEW n \in Walks!Positions, n <= f \/ n \in p PROVE SawRequest(y, n) /\ SawAnswer(y, n)
    <2>1. CASE n <= f
      <3>1. SawRequest(scan[s], n) /\ SawAnswer(scan[s], n) BY <1>1, <1>6, <2>1 DEF WalkInv
      <3> QED BY <1>5, <3>1 DEF SawRequest, SawAnswer
    <2>2. CASE n \in p
      <3>1. \A i \in Ids : Walks!Requested(i) # Walks!Free /\ Walks!Decided(i) # Walks!Free
        BY DEF Walks!Requested, Walks!Decided, Walks!Free, Walks!None
      <3> QED BY <1>5, <1>7, <2>2, <3>1 DEF SawRequest, SawAnswer
    <2> QED BY <1>10, <2>1, <2>2
  <1>11. \A n \in Walks!Positions : y.before[n] # Walks!Free /\ ~(n <= f) => n \in Walks!After(f)
    <2> SUFFICES ASSUME NEW n \in Walks!Positions, y.before[n] # Walks!Free, ~(n <= f)
                 PROVE  n \in Walks!After(f)
      OBVIOUS
    <2>1. n > f BY DEF Walks!Positions
    <2> QED BY <1>7, <2>1 DEF Walks!After
  <1>12. \A n \in Walks!Positions : y.before[n] = Walks!Free => SawRequest(y, n) /\ SawAnswer(y, n)
    BY DEF SawRequest, SawAnswer, Walks!Requested, Walks!Decided, Walks!Free, Walks!None
  <1>13. CASE Cardinality(p) < Page
    <2>1. PICK g \in {"correlate", "done"} : scan' = [scan EXCEPT ![s] = [y EXCEPT !.pc = g]]
      BY <1>1, <1>2, <1>4, <1>13, CardinalityIs DEF Walks!Walk, Walks!Finished
    <2>2. PICK x : x = [y EXCEPT !.pc = g] OBVIOUS
    <2>3. /\ x \in ScanT /\ x.pc = g /\ x.before = y.before /\ x.target = y.target
          /\ x.requested = y.requested /\ x.decided = y.decided
      BY ONLY <1>5, <2>2, g \in {"correlate", "done"} DEF ScanT
    <2>4. \A n \in Walks!Positions : SawRequest(y, n) /\ SawAnswer(y, n)
      BY <1>2, <1>10, <1>11, <1>12, <1>13, PageIs
    <2>5. WalkInv(x) BY <1>7, <1>8, <1>9, <2>3, <2>4 DEF WalkInv, SawRequest, SawAnswer
    <2> QED BY <1>6, <2>1, <2>2, <2>3, <2>5, SameLog, WalkStep
  <1>14. CASE ~(Cardinality(p) < Page)
    <2>1. PICK l \in Nat : l = Walks!LastOf(p) /\ l \in p /\ \A m \in Walks!After(f) : m <= l => m \in p
      BY <1>2, <1>14, PageIs
    <2>2. scan' = [scan EXCEPT ![s] = [y EXCEPT !.from = l]]
      BY <1>1, <1>2, <1>4, <1>14, <2>1, CardinalityIs DEF Walks!Walk
    <2>3. PICK x : x = [y EXCEPT !.from = l] OBVIOUS
    <2>4. /\ x \in ScanT /\ x.pc = "walk" /\ x.from = l /\ x.before = y.before /\ x.target = y.target
          /\ x.requested = y.requested /\ x.decided = y.decided
      BY ONLY <1>5, <1>6, <2>3, l \in Nat DEF ScanT
    <2>5. ASSUME NEW n \in Walks!Positions, n <= l PROVE SawRequest(y, n) /\ SawAnswer(y, n)
      BY <1>10, <1>11, <1>12, <2>1, <2>5
    <2>6. WalkInv(x) BY <1>7, <1>8, <1>9, <2>4, <2>5 DEF WalkInv, SawRequest, SawAnswer
    <2> QED BY <1>6, <2>2, <2>3, <2>4, <2>6, SameLog, WalkStep
  <1> QED BY <1>13, <1>14

(* A walk that is over has everything, and keeps it as it goes on. *)
LEMMA OnwardsKeeps ==
  ASSUME ScanInv, NEW s \in Scanners, Walks!Correlate(s) \/ Walks!Conclude(s) PROVE ScanInv'
  <1>1. PICK g \in {"reported", "sealing", "not found", "ignored", "publish"} :
          scan' = [scan EXCEPT ![s].pc = g] /\ UNCHANGED log
    BY DEF Walks!Correlate, Walks!Conclude
  <1>2. /\ scan[s] \in ScanT /\ WalkInv(scan[s]) /\ scan[s].pc \in {"correlate", "done"}
        /\ scan \in [Scanners -> ScanT]
    BY DEF Walks!Correlate, Walks!Conclude, ScanInv, ScanTyped
  <1>3. PICK x : x = [scan[s] EXCEPT !.pc = g] OBVIOUS
  <1>4. scan' = [scan EXCEPT ![s] = x] BY <1>1, <1>2, <1>3
  <1>5. /\ x \in ScanT /\ x.pc = g /\ x.before = scan[s].before /\ x.target = scan[s].target
        /\ x.requested = scan[s].requested /\ x.decided = scan[s].decided
    BY ONLY <1>2, <1>3, g \in {"reported", "sealing", "not found", "ignored", "publish"} DEF ScanT
  <1>6. WalkInv(x) BY <1>2, <1>5 DEF WalkInv, SawRequest, SawAnswer
  <1> QED BY <1>1, <1>4, <1>5, <1>6, SameLog, WalkStep

LEMMA Published ==
  ASSUME ScanInv, NEW s \in Scanners, NEW i \in Ids, Walks!Publishes(s, i)
  PROVE  /\ log' \in [Walks!Positions -> LogEntry]
         /\ \A x \in ScanT : WalkInv(x) => WalkInv(x)'
  <1>1. PICK n \in Walks!Positions : log[n] = Walks!Free /\ log' = [log EXCEPT ![n] = Walks!Decided(i)]
    BY DEF Walks!Publishes
  <1>2. Walks!Decided(i) \in LogEntry BY DEF LogEntry
  <1> QED BY <1>1, <1>2, Filled DEF ScanInv, ScanTyped

LEMMA PublishAnswerKeeps ==
  ASSUME ScanInv, NEW s \in Scanners, Walks!Publish(s) PROVE ScanInv'
  <1>1. /\ scan[s] \in ScanT /\ WalkInv(scan[s]) /\ scan[s].pc = "publish"
        /\ scan \in [Scanners -> ScanT]
    BY DEF Walks!Publish, ScanInv, ScanTyped
  <1>2. PICK i \in Ids : i = scan[s].target BY <1>1 DEF WalkInv
  <1>3. Walks!Publishes(s, i) BY <1>2 DEF Walks!Publish
  <1>4. PICK x : x = [scan[s] EXCEPT !.pc = "published"] OBVIOUS
  <1>5. scan' = [scan EXCEPT ![s] = x] BY <1>1, <1>4 DEF Walks!Publish
  <1>6. /\ x \in ScanT /\ x.pc = "published" /\ x.before = scan[s].before /\ x.target = scan[s].target
        /\ x.requested = scan[s].requested /\ x.decided = scan[s].decided
    BY ONLY <1>1, <1>4 DEF ScanT
  <1>7. WalkInv(x) BY <1>1, <1>6 DEF WalkInv, SawRequest, SawAnswer
  <1> QED BY <1>3, <1>5, <1>6, <1>7, Published, WalkStep

LEMMA SealKeeps ==
  ASSUME ScanInv, NEW s \in Scanners, Walks!Seal(s) PROVE ScanInv'
  <1>1. /\ scan[s] \in ScanT /\ WalkInv(scan[s]) /\ scan[s].pc = "sealing"
        /\ scan \in [Scanners -> ScanT]
    BY DEF Walks!Seal, ScanInv, ScanTyped
  <1>2. PICK i \in Ids, g \in {"sealing", "published"} :
          /\ scan' = [scan EXCEPT ![s].requested = @ \ {i}, ![s].pc = g]
          /\ Walks!Publishes(s, i) \/ UNCHANGED log
    BY <1>1 DEF Walks!Seal, Walks!Pending, ScanT
  <1>3. PICK x : x = [scan[s] EXCEPT !.requested = @ \ {i}, !.pc = g] OBVIOUS
  <1>4. scan' = [scan EXCEPT ![s] = x] BY <1>1, <1>2, <1>3
  <1>5. /\ x \in ScanT /\ x.pc = g /\ x.before = scan[s].before /\ x.target = scan[s].target
        /\ x.decided = scan[s].decided
    BY ONLY <1>1, <1>3, g \in {"sealing", "published"} DEF ScanT
  <1>6. WalkInv(x) BY <1>1, <1>5 DEF WalkInv, SawRequest, SawAnswer
  <1> QED BY <1>2, <1>4, <1>5, <1>6, Published, SameLog, WalkStep

LEMMA InitScan == ASSUME Walks!Init PROVE ScanInv
  <1>1. Walks!Idle \in ScanT /\ Walks!Idle.pc = "idle" /\ Walks!Idle.decided = {}
    BY DEF Walks!Idle, ScanT, LogEntry, Walks!None
  <1>2. ScanTyped BY <1>1 DEF Walks!Init, ScanTyped, LogEntry
  <1> QED BY <1>1, <1>2 DEF Walks!Init, ScanInv, WalkInv

(* However pages and appends interleave, a walk has all that lay before    *)
(* its position when it began.                                             *)
THEOREM ScanInvariant == ASSUME ScanBounds PROVE Walks!Spec => []ScanInv
  <1>1. ScanInv /\ [Walks!Next]_(Walks!vars) => ScanInv'
    <2> SUFFICES ASSUME ScanInv, [Walks!Next]_(Walks!vars) PROVE ScanInv' OBVIOUS
    <2>1. CASE UNCHANGED Walks!vars
      BY <2>1 DEF Walks!vars, ScanInv, ScanTyped, WalkInv, SawRequest, SawAnswer
    <2>2. CASE Walks!Append BY <2>2, AppendKeeps
    <2>3. ASSUME NEW s \in Scanners,
                 \/ Walks!Begin(s) \/ Walks!Walk(s) \/ Walks!Correlate(s)
                 \/ Walks!Conclude(s) \/ Walks!Publish(s) \/ Walks!Seal(s)
          PROVE  ScanInv'
      BY <2>3, ScanBounds, BeginWalkKeeps, WalkOnKeeps, OnwardsKeeps, PublishAnswerKeeps, SealKeeps
    <2> QED BY <2>1, <2>2, <2>3 DEF Walks!Next
  <1> QED BY <1>1, InitScan, PTL DEF Walks!Spec

(* A walk answers or closes nothing that was decided before it began, and  *)
(* finds each request of that time that is still open: the list of the     *)
(* commands, the answer of the webhook and the replay of serve.            *)
THEOREM WalksAreComplete == ASSUME ScanBounds PROVE Walks!Spec => []Walks!ScanComplete
  <1>1. ScanInv => Walks!ScanComplete
    <2> SUFFICES ASSUME ScanInv, NEW s \in Scanners, Walks!Over(s), NEW i \in Ids
                 PROVE  /\ Walks!Holds(scan[s].before, Walks!Decided(i)) => i \notin Walks!Pending(s)
                        /\ scan[s].pc # "sealing" /\ Walks!Holds(scan[s].before, Walks!Requested(i))
                             /\ ~Walks!Holds(log, Walks!Decided(i)) => i \in Walks!Pending(s)
      BY DEF Walks!ScanComplete
    <2>1. WalkInv(scan[s]) /\ scan[s].pc \notin {"idle", "walk", "published"} BY DEF ScanInv, Walks!Over
    <2>2. \A n \in Walks!Positions : SawAnswer(scan[s], n) BY <2>1 DEF WalkInv
    <2>3. scan[s].pc # "sealing" => \A n \in Walks!Positions : SawRequest(scan[s], n)
      BY <2>1 DEF WalkInv
    <2>4. i \in scan[s].decided => Walks!Holds(log, Walks!Decided(i)) BY <2>1 DEF WalkInv
    <2> QED BY <2>2, <2>3, <2>4 DEF Walks!Pending, Walks!Holds, SawAnswer, SawRequest
  <1> QED BY <1>1, ScanInvariant, PTL

-----------------------------------------------------------------------------
(* The http_poll connector and its cursors.                                  *)
Poll == INSTANCE Poller

(* The ids of the items are bounded, and none is 0, which stands for no     *)
(* cursor.                                                                  *)
PollBounds == Batch \in Nat /\ \E n \in Nat : Ids \subseteq 1..n

Cursors == {Poll!None} \cup {Poll!CursorValue(i) : i \in Ids}
Lives == {"down", "waiting", "publishing", "asking", "panicked"}

PollTyped ==
    /\ arrived \subseteq Ids
    /\ saved \in Cursors
    /\ life \in [Processes -> Lives]
    /\ cursor \in [Processes -> Cursors]
    /\ items \in [Processes -> SUBSET Ids]
    /\ todo \in [Processes -> SUBSET Ids]
    /\ fired \in [Processes -> [Ids -> Nat]]

(* Items arrive in the order of their ids, and a cursor passes only what    *)
(* has arrived.                                                             *)
CursorInv(c) == \A i \in Ids : Poll!Passed(i, c) => i \in arrived /\ (i \notin Ignored => i \in told \cup lost)
InOrderOfIds == \A i \in arrived, j \in Ids : j <= i => j \in arrived

Busy(p) == life[p] \in {"publishing", "asking"}

(* The items under way are the first ones the cursor has not passed, and    *)
(* what is no longer to be done was published, or lost.                     *)
BatchInv(p) ==
    Busy(p) =>
        /\ items[p] # {} /\ items[p] \subseteq arrived /\ todo[p] \subseteq items[p]
        /\ \A i \in items[p] : ~Poll!Passed(i, cursor[p])
        /\ \A m \in items[p], i \in arrived : i <= m => i \in items[p] \/ Poll!Passed(i, cursor[p])
        /\ \A i \in items[p] \ Ignored : i \in todo[p] \/ i \in told \cup lost
        /\ life[p] = "asking" => todo[p] # {} /\ Poll!Min(todo[p]) \in told \cup lost

(* What was published in this life is behind the cursor, or done in the     *)
(* batch under way.                                                         *)
FiredInv(p) ==
    \A i \in Ids :
        /\ fired[p][i] <= 1
        /\ life[p] \notin {"down", "panicked"} /\ fired[p][i] # 0 =>
              \/ Poll!Passed(i, cursor[p])
              \/ /\ Busy(p) /\ i \in items[p]
                 /\ i \notin todo[p] \/ (life[p] = "asking" /\ i = Poll!Min(todo[p]))

PollInv ==
    /\ PollTyped /\ InOrderOfIds /\ CursorInv(saved)
    /\ \A p \in Processes : CursorInv(cursor[p]) /\ BatchInv(p) /\ FiredInv(p)

LEMMA PassedBy ==
  ASSUME PollBounds
  PROVE  /\ \A i \in Ids : ~Poll!Passed(i, Poll!None)
         /\ \A i, m \in Ids : Poll!Passed(i, Poll!CursorValue(m)) <=> i <= m
  <1>1. \A i \in Ids : i \in Nat /\ i # 0 BY DEF PollBounds
  <1> QED BY <1>1 DEF Poll!Passed, Poll!CursorValue, Poll!None

LEMMA FirstOf ==
  ASSUME PollBounds, NEW S \in SUBSET Ids, S # {}
  PROVE  Poll!Min(S) \in S /\ \A k \in S : Poll!Min(S) <= k
  <1>1. S \in SUBSET Nat BY DEF PollBounds
  <1>2. \E m \in S : \A k \in S : m <= k BY <1>1, LeastOf
  <1> QED BY <1>2 DEF Poll!Min

LEMMA NextIs ==
  ASSUME PollBounds, NEW S \in SUBSET Ids, S # {}
  PROVE  \E m \in S : Poll!NextCursor(S) = Poll!CursorValue(m) /\ \A k \in S : k <= m
  <1>1. PICK n \in Nat : Ids \subseteq 1..n BY DEF PollBounds
  <1>2. \A i \in Ids : i \in Nat /\ i \in 0..n BY <1>1
  <1>3. S \in SUBSET (0..n) BY <1>2
  <1>4. PICK g \in S : \A k \in S : k <= g BY <1>3, GreatestOf
  <1> DEFINE V == {Poll!CursorValue(i) : i \in S}
             b == CHOOSE v \in V : \A w \in V \ {v} : Poll!CursorIsGreater(v, w)
  <1>5. Poll!NextCursor(S) = b BY DEF Poll!NextCursor
  <1>6. \A i, k \in S : /\ Poll!CursorValue(i) = Poll!CursorValue(k) <=> i = k
                        /\ Poll!CursorIsGreater(Poll!CursorValue(i), Poll!CursorValue(k)) <=> i > k
    BY <1>2 DEF Poll!CursorValue, Poll!CursorIsGreater
  <1>7. \E v \in V : \A w \in V \ {v} : Poll!CursorIsGreater(v, w)
    <2>1. \A k \in S : k # g => g > k BY <1>2, <1>4
    <2> QED BY <1>6, <2>1
  <1>8. b \in V /\ \A w \in V \ {b} : Poll!CursorIsGreater(b, w) BY <1>7
  <1> HIDE DEF b
  <1>9. PICK m \in S : b = Poll!CursorValue(m) BY <1>8
  <1>10. ASSUME NEW k \in S PROVE k <= m
    <2>1. b = Poll!CursorValue(k) \/ Poll!CursorIsGreater(b, Poll!CursorValue(k)) BY <1>8
    <2>2. k = m \/ m > k BY <1>6, <1>9, <2>1
    <2> QED BY <1>2, <2>2
  <1> QED BY <1>5, <1>9, <1>10

LEMMA AnswerIs ==
  ASSUME PollBounds, arrived \subseteq Ids, NEW c, NEW a, a = Poll!Answer(c)
  PROVE  /\ a \subseteq arrived /\ \A i \in a : ~Poll!Passed(i, c)
         /\ \A m \in a, i \in arrived : i <= m => i \in a \/ Poll!Passed(i, c)
  <1> DEFINE askable == {i \in arrived : ~Poll!Passed(i, c)}
             below(i) == {j \in askable : j < i}
  <1>1. a = {i \in askable : Cardinality(below(i)) < Batch}
    <2>1. \A S : Poll!Cardinality(S) = Cardinality(S) BY DEF Poll!Cardinality, Cardinality
    <2> QED BY <2>1 DEF Poll!Answer
  <1>2. PICK n \in Nat : Ids \subseteq 1..n BY DEF PollBounds
  <1>3. \A i \in Ids : i \in Nat BY <1>2
  <1>4. \A i : below(i) \in SUBSET (1..n) BY <1>2
  <1>5. \A i : IsFiniteSet(below(i)) /\ Cardinality(below(i)) \in Nat
    <2>1. IsFiniteSet(1..n) BY FS_Interval
    <2> QED BY <1>4, <2>1, FS_Subset, FS_CardinalityType
  <1>6. ASSUME NEW m \in a, NEW i \in askable, i <= m PROVE i \in a
    <2>1. below(i) \in SUBSET below(m) BY <1>1, <1>3, <1>6
    <2>2. Cardinality(below(i)) <= Cardinality(below(m)) BY <1>5, <2>1, FS_Subset
    <2>3. Cardinality(below(m)) < Batch BY <1>1
    <2>4. PICK x, y \in Nat : x = Cardinality(below(i)) /\ y = Cardinality(below(m)) BY <1>5
    <2>5. x < Batch BY <2>2, <2>3, <2>4 DEF PollBounds
    <2> QED BY <1>1, <2>4, <2>5
  <1> QED BY <1>1, <1>6

(* Steps that leave p's batch alone.                                        *)
LEMMA SameProcess ==
  ASSUME NEW q \in Processes,
         UNCHANGED <<life[q], cursor[q], items[q], todo[q], fired[q]>>,
         arrived \subseteq Ids, InOrderOfIds, PollBounds, items[q] \subseteq Ids,
         arrived' = arrived \/ \E n \in Ids \ arrived : arrived' = arrived \cup {n},
         told \subseteq told', lost \subseteq lost',
         CursorInv(cursor[q]), BatchInv(q), FiredInv(q)
  PROVE  CursorInv(cursor[q])' /\ BatchInv(q)' /\ FiredInv(q)'
  <1>1. PICK c, I, D : c = cursor[q] /\ I = items[q] /\ D = todo[q] OBVIOUS
  <1>2. cursor'[q] = c /\ items'[q] = I /\ todo'[q] = D /\ life'[q] = life[q] /\ fired'[q] = fired[q]
    BY <1>1
  <1>3. arrived \subseteq arrived' OBVIOUS
  <1>4. CursorInv(cursor[q])' BY <1>1, <1>2, <1>3 DEF CursorInv
  <1>5. ASSUME Busy(q), NEW m \in I, NEW i \in arrived', i <= m
        PROVE  i \in I \/ Poll!Passed(i, c)
    <2>1. m \in arrived BY <1>1, <1>5 DEF BatchInv
    <2>2. i \in arrived
      <3>1. i \in Ids BY <1>5
      <3> QED BY <1>5, <2>1, <3>1 DEF InOrderOfIds
    <2> QED BY <1>1, <1>5, <2>2 DEF BatchInv
  <1>6. BatchInv(q)' BY <1>1, <1>2, <1>3, <1>5 DEF BatchInv, Busy
  <1>7. FiredInv(q)' BY <1>1, <1>2 DEF FiredInv, Busy
  <1> QED BY <1>4, <1>6, <1>7

LEMMA ArriveKeeps == ASSUME PollBounds, PollInv, Poll!Arrive PROVE PollInv'
  <1>1. PollTyped /\ InOrderOfIds BY DEF PollInv
  <1>2. Ids \ arrived # {} BY <1>1 DEF Poll!Arrive, PollTyped
  <1>3. PICK n \in Ids \ arrived : arrived' = arrived \cup {n} /\ \A k \in Ids \ arrived : n <= k
    BY <1>2, FirstOf DEF Poll!Arrive
  <1>4. UNCHANGED <<saved, life, starts, cursor, items, todo, fired, told, lost>> BY DEF Poll!Arrive
  <1>5. PollTyped' BY <1>1, <1>3, <1>4 DEF PollTyped
  <1>6. InOrderOfIds'
    <2>1. \A i \in Ids : i \in Nat BY DEF PollBounds
    <2>2. ASSUME NEW j \in Ids, j <= n PROVE j \in arrived'
      <3>1. j \notin arrived => n <= j BY <1>3
      <3> QED BY <1>3, <2>1, <2>2, <3>1
    <2> QED BY <1>1, <1>3, <2>2 DEF InOrderOfIds
  <1>7. CursorInv(saved)' BY <1>3, <1>4 DEF PollInv, CursorInv
  <1>8. \A p \in Processes : CursorInv(cursor[p])' /\ BatchInv(p)' /\ FiredInv(p)'
    BY <1>1, <1>3, <1>4, SameProcess DEF PollInv, PollTyped
  <1> QED BY <1>5, <1>6, <1>7, <1>8 DEF PollInv

(* A process that does not take the step.                                   *)
LEMMA OtherProcesses ==
  ASSUME PollBounds, PollInv, NEW p \in Processes, NEW q \in Processes, q # p,
         UNCHANGED <<arrived, life[q], cursor[q], items[q], todo[q], fired[q]>>,
         told \subseteq told', lost \subseteq lost'
  PROVE  CursorInv(cursor[q])' /\ BatchInv(q)' /\ FiredInv(q)'
  BY SameProcess DEF PollInv, PollTyped

LEMMA StartKeeps == ASSUME PollBounds, PollInv, NEW p \in Processes, Poll!Start(p) PROVE PollInv'
  <1>1. PollTyped /\ UNCHANGED <<arrived, saved, items, todo, told, lost>> BY DEF PollInv, Poll!Start
  <1>2. PICK c \in {saved, Poll!None} : cursor' = [cursor EXCEPT ![p] = c]
    BY DEF Poll!Start, Poll!Get
  <1>3. /\ life'[p] = "waiting" /\ cursor'[p] = c /\ fired'[p] = [i \in Ids |-> 0]
        /\ \A q \in Processes : q # p => UNCHANGED <<life[q], cursor[q], fired[q]>>
    BY <1>1, <1>2 DEF Poll!Start, PollTyped
  <1>4. PollTyped'
    <2>1. c \in Cursors BY <1>1 DEF PollTyped, Cursors
    <2> QED BY <1>1, <1>2, <2>1 DEF Poll!Start, PollTyped, Lives
  <1>5. CursorInv(c)
    <2>1. CursorInv(saved) BY DEF PollInv
    <2>2. CursorInv(Poll!None) BY PassedBy DEF CursorInv
    <2> QED BY <2>1, <2>2
  <1>6. CursorInv(cursor[p])' BY <1>1, <1>3, <1>5 DEF CursorInv
  <1>7. BatchInv(p)' BY <1>3 DEF BatchInv, Busy
  <1>8. FiredInv(p)' BY <1>3 DEF FiredInv
  <1>9. \A q \in Processes : q # p => CursorInv(cursor[q])' /\ BatchInv(q)' /\ FiredInv(q)'
    BY <1>1, <1>3, OtherProcesses
  <1>10. InOrderOfIds' /\ CursorInv(saved)' BY <1>1 DEF PollInv, InOrderOfIds, CursorInv
  <1> QED BY <1>4, <1>6, <1>7, <1>8, <1>9, <1>10 DEF PollInv

LEMMA PollOnceKeeps == ASSUME PollBounds, PollInv, NEW p \in Processes, Poll!PollOnce(p) PROVE PollInv'
  <1>1. /\ PollTyped /\ UNCHANGED <<arrived, saved, cursor, fired, told, lost>>
        /\ life[p] = "waiting" /\ CursorInv(cursor[p]) /\ FiredInv(p) /\ arrived \subseteq Ids
    BY DEF PollInv, Poll!PollOnce, PollTyped
  <1>2. PICK c : c = cursor[p] OBVIOUS
  <1>3. PICK a : a = Poll!Answer(c) OBVIOUS
  <1>4. PICK d : d = {i \in a : Poll!PassesFilter(i)} OBVIOUS
  <1>5. /\ a # {} /\ items' = [items EXCEPT ![p] = a] /\ todo' = [todo EXCEPT ![p] = d]
        /\ life' = [life EXCEPT ![p] = "publishing"]
    BY <1>2, <1>3, <1>4 DEF Poll!PollOnce
  <1>6. /\ a \subseteq arrived /\ \A i \in a : ~Poll!Passed(i, c)
        /\ \A m \in a, i \in arrived : i <= m => i \in a \/ Poll!Passed(i, c)
    BY <1>1, <1>3, AnswerIs
  <1>7. d \subseteq a /\ \A i \in a \ Ignored : i \in d BY <1>4 DEF Poll!PassesFilter
  <1>8. /\ life'[p] = "publishing" /\ items'[p] = a /\ todo'[p] = d /\ cursor'[p] = c
        /\ \A q \in Processes : q # p => UNCHANGED <<life[q], items[q], todo[q]>>
    BY <1>1, <1>2, <1>5 DEF PollTyped
  <1>9. PollTyped' BY <1>1, <1>5, <1>6, <1>7 DEF PollTyped, Lives
  <1>10. CursorInv(cursor[p])' BY <1>1 DEF CursorInv
  <1>11. BatchInv(p)' BY <1>1, <1>5, <1>6, <1>7, <1>8 DEF BatchInv
  <1>12. FiredInv(p)' BY <1>1, <1>8 DEF FiredInv, Busy
  <1>13. \A q \in Processes : q # p => CursorInv(cursor[q])' /\ BatchInv(q)' /\ FiredInv(q)'
    BY <1>1, <1>8, OtherProcesses
  <1>14. InOrderOfIds' /\ CursorInv(saved)' BY <1>1 DEF PollInv, InOrderOfIds, CursorInv
  <1> QED BY <1>9, <1>10, <1>11, <1>12, <1>13, <1>14 DEF PollInv

(* A task that panics or goes down has no batch.                            *)
LEMMA GoneKeeps ==
  ASSUME PollBounds, PollInv, NEW p \in Processes, Poll!PollPanics(p) \/ Poll!Down(p) PROVE PollInv'
  <1>1. PollTyped /\ UNCHANGED <<arrived, saved, cursor, fired, told, lost>>
    BY DEF PollInv, Poll!PollPanics, Poll!Down
  <1>2. PICK l \in {"down", "panicked"} : life' = [life EXCEPT ![p] = l]
    BY DEF Poll!PollPanics, Poll!Down
  <1>3. /\ life'[p] \in {"down", "panicked"}
        /\ \A q \in Processes : q # p => UNCHANGED <<life[q], items[q], todo[q]>>
    BY <1>1, <1>2 DEF PollTyped, Poll!PollPanics, Poll!Down
  <1>4. PollTyped' BY <1>1, <1>2 DEF PollTyped, Lives, Poll!PollPanics, Poll!Down
  <1>5. CursorInv(cursor[p])' BY <1>1 DEF CursorInv, PollInv
  <1>6. BatchInv(p)' BY <1>3 DEF BatchInv, Busy
  <1>7. FiredInv(p)' BY <1>1, <1>3 DEF FiredInv, PollInv
  <1>8. \A q \in Processes : q # p => CursorInv(cursor[q])' /\ BatchInv(q)' /\ FiredInv(q)'
    BY <1>1, <1>3, OtherProcesses
  <1>9. InOrderOfIds' /\ CursorInv(saved)' BY <1>1 DEF PollInv, InOrderOfIds, CursorInv
  <1> QED BY <1>4, <1>5, <1>6, <1>7, <1>8, <1>9 DEF PollInv

LEMMA PublishMessageKeeps ==
  ASSUME PollBounds, PollInv, NEW p \in Processes, Poll!PublishMessage(p) PROVE PollInv'
  <1>1. /\ PollTyped /\ UNCHANGED <<arrived, saved, cursor, items, todo>>
        /\ life[p] = "publishing" /\ todo[p] # {} /\ CursorInv(cursor[p]) /\ BatchInv(p) /\ FiredInv(p)
    BY DEF PollInv, Poll!PublishMessage
  <1>2. todo[p] \in SUBSET Ids BY <1>1 DEF PollTyped
  <1>3. PICK i \in todo[p] : i = Poll!Min(todo[p]) BY <1>1, <1>2, FirstOf
  <1>4. /\ life' = [life EXCEPT ![p] = "asking"]
        /\ \/ fired' = [fired EXCEPT ![p][i] = @ + 1] /\ told' = told \cup {i} /\ lost' = lost
           \/ lost' = lost \cup {i} /\ fired' = fired /\ told' = told
    BY <1>3 DEF Poll!PublishMessage
  <1>5. told \subseteq told' /\ lost \subseteq lost' /\ i \in told' \cup lost' BY <1>4
  <1>6. i \in Ids /\ i \in items[p] /\ ~Poll!Passed(i, cursor[p]) /\ fired[p][i] = 0
    <2>1. i \in Ids /\ i \in items[p] /\ ~Poll!Passed(i, cursor[p]) BY <1>1, <1>2, <1>3 DEF BatchInv, Busy
    <2>2. fired[p][i] = 0 BY <1>1, <1>3, <2>1 DEF FiredInv
    <2> QED BY <2>1, <2>2
  <1>7. /\ life'[p] = "asking" /\ fired' \in [Processes -> [Ids -> Nat]]
        /\ \A j \in Ids : j # i => fired'[p][j] = fired[p][j]
        /\ fired'[p][i] \in {0, 1}
        /\ \A q \in Processes : q # p => UNCHANGED <<life[q], fired[q]>>
    <2>1. life'[p] = "asking" /\ \A q \in Processes : q # p => life'[q] = life[q]
      BY <1>1, <1>4 DEF PollTyped
    <2>2. fired \in [Processes -> [Ids -> Nat]] BY <1>1 DEF PollTyped
    <2>3. CASE fired' = fired BY <1>6, <2>1, <2>2, <2>3
    <2>4. CASE fired' = [fired EXCEPT ![p][i] = @ + 1]
      <3>1. PICK f \in [Ids -> Nat] : f = [fired[p] EXCEPT ![i] = @ + 1]
        <4>1. fired[p] \in [Ids -> Nat] /\ fired[p][i] + 1 \in Nat BY <1>6, <2>2
        <4> QED BY <1>6, <4>1
      <3>2. f[i] = 1 /\ \A j \in Ids : j # i => f[j] = fired[p][j] BY <1>6, <2>2, <3>1
      <3>3. fired' = [fired EXCEPT ![p] = f] BY <2>2, <2>4, <3>1
      <3>4. fired'[p] = f /\ \A q \in Processes : q # p => fired'[q] = fired[q] BY <2>2, <3>3
      <3>5. fired' \in [Processes -> [Ids -> Nat]] BY <2>2, <3>3
      <3> QED BY <2>1, <3>2, <3>4, <3>5
    <2> QED BY <1>4, <2>3, <2>4
  <1>8. PollTyped' BY <1>1, <1>4, <1>7 DEF PollTyped, Lives
  <1>9. CursorInv(cursor[p])' BY <1>1, <1>5 DEF CursorInv
  <1>10. BatchInv(p)' BY <1>1, <1>3, <1>5, <1>7 DEF BatchInv, Busy
  <1>11. FiredInv(p)'
    <2>1. ASSUME NEW j \in Ids, j # i
          PROVE  /\ fired'[p][j] <= 1
                 /\ fired'[p][j] # 0 => Poll!Passed(j, cursor[p]) \/ (j \in items[p] /\ j \notin todo[p])
      BY <1>1, <1>7, <2>1 DEF FiredInv
    <2> QED BY <1>1, <1>3, <1>6, <1>7, <2>1 DEF FiredInv, Busy
  <1>12. \A q \in Processes : q # p => CursorInv(cursor[q])' /\ BatchInv(q)' /\ FiredInv(q)'
    BY <1>1, <1>5, <1>7, OtherProcesses
  <1>13. InOrderOfIds' /\ CursorInv(saved)' BY <1>1, <1>5 DEF PollInv, InOrderOfIds, CursorInv
  <1> QED BY <1>8, <1>9, <1>10, <1>11, <1>12, <1>13 DEF PollInv

LEMMA PublishRequestKeeps ==
  ASSUME PollBounds, PollInv, NEW p \in Processes, Poll!PublishRequest(p) PROVE PollInv'
  <1>1. /\ PollTyped /\ UNCHANGED <<arrived, saved, cursor, items, fired, told>>
        /\ life[p] = "asking" /\ CursorInv(cursor[p]) /\ BatchInv(p) /\ FiredInv(p)
    BY DEF PollInv, Poll!PublishRequest
  <1>2. todo[p] \in SUBSET Ids /\ todo[p] # {} BY <1>1 DEF PollTyped, BatchInv, Busy
  <1>3. PICK i \in todo[p] : i = Poll!Min(todo[p]) BY <1>2, FirstOf
  <1>4. /\ life' = [life EXCEPT ![p] = "publishing"] /\ todo' = [todo EXCEPT ![p] = @ \ {i}]
        /\ lost \subseteq lost'
    BY <1>3 DEF Poll!PublishRequest
  <1>5. /\ life'[p] = "publishing" /\ todo'[p] = todo[p] \ {i}
        /\ \A q \in Processes : q # p => UNCHANGED <<life[q], todo[q]>>
    BY <1>1, <1>4 DEF PollTyped
  <1>6. i \in told \cup lost BY <1>1, <1>3 DEF BatchInv, Busy
  <1>7. PollTyped' BY <1>1, <1>2, <1>4 DEF PollTyped, Lives
  <1>8. CursorInv(cursor[p])' BY <1>1, <1>4 DEF CursorInv
  <1>9. BatchInv(p)' BY <1>1, <1>4, <1>5, <1>6 DEF BatchInv, Busy
  <1>10. FiredInv(p)' BY <1>1, <1>3, <1>5 DEF FiredInv, Busy
  <1>11. \A q \in Processes : q # p => CursorInv(cursor[q])' /\ BatchInv(q)' /\ FiredInv(q)'
    BY <1>1, <1>4, <1>5, OtherProcesses
  <1>12. InOrderOfIds' /\ CursorInv(saved)' BY <1>1, <1>4 DEF PollInv, InOrderOfIds, CursorInv
  <1> QED BY <1>7, <1>8, <1>9, <1>10, <1>11, <1>12 DEF PollInv

LEMMA SaveKeeps == ASSUME PollBounds, PollInv, NEW p \in Processes, Poll!Save(p) PROVE PollInv'
  <1>1. /\ PollTyped /\ UNCHANGED <<arrived, todo, fired, told, lost>>
        /\ life[p] = "publishing" /\ todo[p] = {} /\ CursorInv(cursor[p]) /\ BatchInv(p) /\ FiredInv(p)
    BY DEF PollInv, Poll!Save
  <1>2. /\ items[p] \in SUBSET Ids /\ items[p] # {} /\ items[p] \subseteq arrived
        /\ \A i \in items[p] : ~Poll!Passed(i, cursor[p])
        /\ \A m \in items[p], i \in arrived : i <= m => i \in items[p] \/ Poll!Passed(i, cursor[p])
        /\ \A i \in items[p] \ Ignored : i \in told \cup lost
    BY <1>1 DEF PollTyped, BatchInv, Busy
  <1>3. PICK m \in items[p] : Poll!NextCursor(items[p]) = Poll!CursorValue(m) /\ \A k \in items[p] : k <= m
    BY <1>2, NextIs
  <1>4. PICK c : c = Poll!CursorValue(m) OBVIOUS
  <1>5. /\ cursor' = [cursor EXCEPT ![p] = c] /\ saved' \in {c, saved}
        /\ life' = [life EXCEPT ![p] = "waiting"] /\ items' = [items EXCEPT ![p] = {}]
    BY <1>3, <1>4 DEF Poll!Save, Poll!Set
  <1>6. m \in Ids /\ \A i \in Ids : Poll!Passed(i, c) <=> i <= m BY <1>2, <1>4, PassedBy
  <1>7. CursorInv(c)
    <2> SUFFICES ASSUME NEW i \in Ids, i <= m
                 PROVE  i \in arrived /\ (i \notin Ignored => i \in told \cup lost)
      BY <1>6 DEF CursorInv
    <2>1. i \in arrived BY <1>2 DEF PollInv, InOrderOfIds
    <2>2. i \in items[p] \/ Poll!Passed(i, cursor[p]) BY <1>2, <2>1
    <2> QED BY <1>1, <1>2, <2>1, <2>2 DEF CursorInv
  <1>8. \A i \in Ids : Poll!Passed(i, cursor[p]) => i <= m
    <2> SUFFICES ASSUME NEW i \in Ids, Poll!Passed(i, cursor[p]), ~(i <= m) PROVE FALSE OBVIOUS
    <2>1. \A k \in Ids : k \in Nat BY DEF PollBounds
    <2>2. PICK k \in Ids : cursor[p] = Poll!CursorValue(k)
      <3>1. cursor[p] \in Cursors BY <1>1 DEF PollTyped
      <3>2. cursor[p] # Poll!None BY PassedBy
      <3> QED BY <3>1, <3>2 DEF Cursors
    <2>3. i <= k BY <2>2, PassedBy
    <2>4. m <= k BY <1>6, <2>1, <2>3
    <2>5. Poll!Passed(m, cursor[p]) BY <1>6, <2>2, <2>4, PassedBy
    <2> QED BY <1>2, <2>5
  <1>9. /\ life'[p] = "waiting" /\ cursor'[p] = c
        /\ \A q \in Processes : q # p => UNCHANGED <<life[q], cursor[q], items[q]>>
    BY <1>1, <1>5 DEF PollTyped
  <1>10. PollTyped' BY <1>1, <1>4, <1>5, <1>6 DEF PollTyped, Lives, Cursors
  <1>11. CursorInv(c)' BY <1>1, <1>7 DEF CursorInv
  <1>12. CursorInv(cursor[p])' BY <1>9, <1>11 DEF CursorInv
  <1>13. CursorInv(saved)'
    <2>1. CASE saved' = c BY <1>11, <2>1 DEF CursorInv
    <2>2. CASE saved' = saved BY <1>1, <2>2 DEF CursorInv, PollInv
    <2> QED BY <1>5, <2>1, <2>2
  <1>14. BatchInv(p)' BY <1>9 DEF BatchInv, Busy
  <1>15. FiredInv(p)'
    <2> SUFFICES ASSUME NEW i \in Ids
                 PROVE  fired[p][i] <= 1 /\ (fired[p][i] # 0 => Poll!Passed(i, c))
      BY <1>1, <1>9 DEF FiredInv
    <2>1. fired[p][i] <= 1 BY <1>1 DEF FiredInv
    <2>2. fired[p][i] # 0 => Poll!Passed(i, cursor[p]) \/ i \in items[p] BY <1>1 DEF FiredInv
    <2> QED BY <1>3, <1>6, <1>8, <2>1, <2>2
  <1>16. \A q \in Processes : q # p => CursorInv(cursor[q])' /\ BatchInv(q)' /\ FiredInv(q)'
    BY <1>1, <1>9, OtherProcesses
  <1>17. InOrderOfIds' BY <1>1 DEF PollInv, InOrderOfIds
  <1> QED BY <1>10, <1>12, <1>13, <1>14, <1>15, <1>16, <1>17 DEF PollInv

LEMMA InitPoll == ASSUME PollBounds, Poll!Init PROVE PollInv
  <1>1. PollTyped BY DEF Poll!Init, PollTyped, Cursors, Lives
  <1>2. CursorInv(saved) /\ \A p \in Processes : CursorInv(cursor[p])
    BY PassedBy DEF Poll!Init, CursorInv
  <1>3. \A p \in Processes : BatchInv(p) /\ FiredInv(p) BY DEF Poll!Init, BatchInv, FiredInv, Busy
  <1>4. InOrderOfIds BY DEF Poll!Init, InOrderOfIds
  <1> QED BY <1>1, <1>2, <1>3, <1>4 DEF PollInv

(* Cursors pass only what was published, lost or ignored, and what a        *)
(* process published in this life it will not be given again.               *)
THEOREM PollInvariant == ASSUME PollBounds PROVE Poll!Spec => []PollInv
  <1>1. PollInv /\ [Poll!Next]_(Poll!vars) => PollInv'
    <2> SUFFICES ASSUME PollInv, [Poll!Next]_(Poll!vars) PROVE PollInv' OBVIOUS
    <2>1. CASE UNCHANGED Poll!vars
      BY <2>1 DEF Poll!vars, PollInv, PollTyped, InOrderOfIds, CursorInv, BatchInv, FiredInv, Busy
    <2>2. CASE Poll!Arrive BY <2>2, ArriveKeeps
    <2>3. ASSUME NEW p \in Processes,
                 \/ Poll!Start(p) \/ Poll!PollOnce(p) \/ Poll!PollPanics(p)
                 \/ Poll!PublishMessage(p) \/ Poll!PublishRequest(p) \/ Poll!Save(p) \/ Poll!Down(p)
          PROVE  PollInv'
      BY <2>3, StartKeeps, PollOnceKeeps, GoneKeeps, PublishMessageKeeps, PublishRequestKeeps, SaveKeeps
    <2> QED BY <2>1, <2>2, <2>3 DEF Poll!Next
  <1> QED BY <1>1, InitPoll, PTL DEF Poll!Spec

(* No item is lost to a cursor, and none is published twice in one life.    *)
THEOREM CursorsSkipNothing ==
  ASSUME PollBounds PROVE Poll!Spec => [](Poll!NothingSkipped /\ Poll!OncePerLife)
  <1>1. PollInv => Poll!NothingSkipped /\ Poll!OncePerLife
    <2> SUFFICES ASSUME PollInv PROVE Poll!NothingSkipped /\ Poll!OncePerLife OBVIOUS
    <2>1. arrived \subseteq Ids BY DEF PollInv, PollTyped
    <2>2. CursorInv(saved) /\ \A p \in Processes : CursorInv(cursor[p]) /\ FiredInv(p) BY DEF PollInv
    <2>3. Poll!NothingSkipped BY <2>1, <2>2 DEF Poll!NothingSkipped, CursorInv
    <2>4. Poll!OncePerLife BY <2>2 DEF Poll!OncePerLife, FiredInv
    <2> QED BY <2>3, <2>4
  <1> QED BY <1>1, PollInvariant, PTL

-----------------------------------------------------------------------------
(* Messages submitted, and their answers.                                    *)
Submitted == INSTANCE Submit

(* A subscription holds an event.                                            *)
QueueHolds == Capacity \in Nat \ {0}

Heard == {"message", "progress", "response"}
CallT == [pc : {"begin", "subscribe", "publish", "waiting", "returned"},
          mode : {"wait", "stream", "forget"},
          result : {"none", "submitted", "publish_failed", "answer", "timeout", "bus_closed"}]
WorkerT == [pc : {"none", "running", "answered", "silent"}, published : Nat]

SubmitTyped ==
    /\ call \in [Callers -> CallT] /\ inbox \in [Callers -> Seq(Heard)] /\ registry \subseteq Callers
    /\ worker \in [Callers -> WorkerT] /\ senders \in [Callers -> Nat]

(* While a run goes on, its caller's queue holds no more than the run has    *)
(* published; and an answer that found room is there.                        *)
QueueInv(c) ==
    call[c].pc = "waiting" =>
        /\ worker[c].pc = "running" => Len(inbox[c]) <= 1 + worker[c].published
        /\ worker[c].pc = "answered" /\ 1 + worker[c].published < Capacity =>
              \E i \in 1..Len(inbox[c]) : inbox[c][i] = "response"

(* No run and no event comes before the message, and there is one sender of  *)
(* a stream, in the registry or taken.                                       *)
CallerInv(c) ==
    /\ call[c].pc \in {"begin", "subscribe", "publish"} =>
          worker[c].pc = "none" /\ inbox[c] = << >> /\ senders[c] = 0
    /\ call[c].pc = "begin" => c \notin registry
    /\ c \in registry => call[c].mode = "stream" /\ senders[c] = 0
    /\ senders[c] > 0 => call[c].mode = "stream" /\ senders[c] = 1
    /\ call[c].result # "none" => call[c].pc = "returned"
    /\ call[c].result \notin {"none", "answer"} => c \notin registry
    /\ call[c].result = "answer" => worker[c].pc = "answered"
    /\ \A i \in 1..Len(inbox[c]) : inbox[c][i] = "response" => worker[c].pc = "answered"
    /\ Len(inbox[c]) <= Capacity
    /\ QueueInv(c)

SubmitInv == SubmitTyped /\ \A c \in Callers : CallerInv(c)

Becomes(x, y, g, r) == x \in CallT /\ x.pc = g /\ x.mode = y.mode /\ x.result = r

LEMMA CallGoes ==
  ASSUME NEW y \in CallT, NEW g \in {"subscribe", "publish", "waiting", "returned"}
  PROVE  Becomes([y EXCEPT !.pc = g], y, g, y.result)
  BY DEF CallT, Becomes

LEMMA CallReturns ==
  ASSUME NEW y \in CallT,
         NEW r \in {"submitted", "publish_failed", "answer", "timeout", "bus_closed"}
  PROVE  Becomes([y EXCEPT !.pc = "returned", !.result = r], y, "returned", r)
  BY DEF CallT, Becomes

(* A step of one caller, or of its run.                                      *)
LEMMA OneCaller ==
  ASSUME SubmitInv, NEW c \in Callers, SubmitTyped', CallerInv(c)',
         \A d \in Callers : d # c =>
            /\ UNCHANGED <<call[d], inbox[d], worker[d], senders[d]>>
            /\ d \in registry <=> d \in registry'
  PROVE  SubmitInv'
  <1>1. ASSUME NEW d \in Callers, d # c PROVE CallerInv(d)'
    <2>1. CallerInv(d) /\ UNCHANGED <<call[d], inbox[d], worker[d], senders[d]>>
          /\ (d \in registry <=> d \in registry')
      BY <1>1 DEF SubmitInv
    <2> QED BY <2>1 DEF CallerInv, QueueInv
  <1> QED BY <1>1 DEF SubmitInv

(* What goes into a queue is heard, and takes its room.                      *)
LEMMA Queued ==
  ASSUME NEW q \in Seq(Heard), NEW e \in Heard
  PROVE  /\ Append(q, e) \in Seq(Heard) /\ Len(Append(q, e)) = Len(q) + 1 /\ Len(q) \in Nat
         /\ \A i \in 1..Len(Append(q, e)) : Append(q, e)[i] = e \/ (i \in 1..Len(q) /\ Append(q, e)[i] = q[i])
         /\ Append(q, e)[Len(q) + 1] = e
  <1>1. /\ Append(q, e) \in Seq(Heard) /\ Len(Append(q, e)) = Len(q) + 1 /\ Len(q) \in Nat
        /\ Append(q, e)[Len(q) + 1] = e
    BY AppendProperties, LenProperties
  <1>2. ASSUME NEW i \in 1..(Len(q) + 1)
        PROVE  Append(q, e)[i] = e \/ (i \in 1..Len(q) /\ Append(q, e)[i] = q[i])
    <2>1. i = Len(q) + 1 \/ i \in 1..Len(q) BY <1>1
    <2> QED BY <2>1, AppendProperties
  <1> QED BY <1>1, <1>2

LEMMA BeforeKeeps ==
  ASSUME QueueHolds, SubmitInv, NEW c \in Callers,
         Submitted!Register(c) \/ Submitted!Subscribe(c) \/ Submitted!PublishFails(c)
  PROVE  SubmitInv'
  <1>1. /\ SubmitTyped /\ CallerInv(c) /\ UNCHANGED <<inbox, worker, senders>>
        /\ call[c].pc \in {"begin", "subscribe", "publish"}
    BY DEF SubmitInv, Submitted!Register, Submitted!Subscribe, Submitted!PublishFails
  <1>2. PICK x \in CallT :
          /\ call' = [call EXCEPT ![c] = x] /\ x.mode = call[c].mode
          /\ \/ x.pc = "subscribe" /\ x.result = call[c].result /\ call[c].mode = "stream"
                /\ registry' = registry \cup {c}
             \/ x.pc = "publish" /\ x.result = call[c].result /\ registry' = registry
             \/ x.pc = "returned" /\ x.result = "publish_failed" /\ registry' = registry \ {c}
    <2>1. call[c] \in CallT /\ call \in [Callers -> CallT] BY <1>1 DEF SubmitTyped
    <2>2. CASE Submitted!Register(c)
      <3>1. call' = [call EXCEPT ![c] = [call[c] EXCEPT !.pc = "subscribe"]]
            /\ registry' = registry \cup {c} /\ call[c].mode = "stream"
        BY <2>1, <2>2 DEF Submitted!Register, Submitted!Go
      <3>2. Becomes([call[c] EXCEPT !.pc = "subscribe"], call[c], "subscribe", call[c].result)
        BY <2>1, CallGoes
      <3> QED BY <3>1, <3>2 DEF Becomes
    <2>3. CASE Submitted!Subscribe(c)
      <3>1. call' = [call EXCEPT ![c] = [call[c] EXCEPT !.pc = "publish"]] /\ registry' = registry
        BY <2>1, <2>3 DEF Submitted!Subscribe, Submitted!Go
      <3>2. Becomes([call[c] EXCEPT !.pc = "publish"], call[c], "publish", call[c].result)
        BY <2>1, CallGoes
      <3> QED BY <3>1, <3>2 DEF Becomes
    <2>4. CASE Submitted!PublishFails(c)
      <3>1. call' = [call EXCEPT ![c] = [call[c] EXCEPT !.pc = "returned", !.result = "publish_failed"]]
            /\ registry' = registry \ {c}
        BY <2>1, <2>4 DEF Submitted!PublishFails, Submitted!Return
      <3>2. Becomes([call[c] EXCEPT !.pc = "returned", !.result = "publish_failed"], call[c],
                    "returned", "publish_failed")
        BY <2>1, CallReturns
      <3> QED BY <3>1, <3>2 DEF Becomes
    <2> QED BY <2>2, <2>3, <2>4
  <1>3. call' \in [Callers -> CallT] /\ call'[c] = x /\ \A d \in Callers : d # c => call'[d] = call[d]
    BY <1>1, <1>2 DEF SubmitTyped
  <1>4. registry' \subseteq Callers /\ \A d \in Callers : d # c => (d \in registry <=> d \in registry')
    BY <1>1, <1>2 DEF SubmitTyped
  <1>5. SubmitTyped' BY <1>1, <1>3, <1>4 DEF SubmitTyped
  <1>6. call[c].result = "none" BY <1>1 DEF CallerInv
  <1>7. CallerInv(c)' BY <1>1, <1>2, <1>3, <1>6 DEF CallerInv, QueueInv
  <1> QED BY <1>1, <1>3, <1>4, <1>5, <1>7, OneCaller

LEMMA SubmitKeeps ==
  ASSUME QueueHolds, SubmitInv, NEW c \in Callers, Submitted!Publish(c) PROVE SubmitInv'
  <1>1. /\ SubmitTyped /\ CallerInv(c) /\ UNCHANGED <<registry, senders>>
        /\ \/ call[c].pc = "publish"
           \/ call[c].pc = "begin" /\ call[c].mode = "forget"
        /\ call[c].result = "none" /\ inbox[c] = << >> /\ senders[c] = 0
    BY DEF SubmitInv, Submitted!Publish, CallerInv
  <1>2. /\ call[c] \in CallT /\ call \in [Callers -> CallT] /\ worker[c] \in WorkerT
        /\ worker \in [Callers -> WorkerT] /\ inbox \in [Callers -> Seq(Heard)]
    BY <1>1 DEF SubmitTyped
  <1>3. /\ worker' \in [Callers -> WorkerT] /\ worker'[c].pc = "running"
        /\ \A d \in Callers : d # c => worker'[d] = worker[d]
    <2>1. worker' = [worker EXCEPT ![c] = [worker[c] EXCEPT !.pc = "running"]]
      BY <1>2 DEF Submitted!Publish
    <2> QED BY <1>2, <2>1 DEF WorkerT
  <1>4. CASE call[c].mode = "forget"
    <2>1. PICK x \in CallT :
            call' = [call EXCEPT ![c] = x] /\ x.pc = "returned" /\ x.result = "submitted" /\ x.mode = "forget"
      <3>1. call' = [call EXCEPT ![c] = [call[c] EXCEPT !.pc = "returned", !.result = "submitted"]]
        BY <1>2, <1>4 DEF Submitted!Publish, Submitted!Return
      <3>2. Becomes([call[c] EXCEPT !.pc = "returned", !.result = "submitted"], call[c],
                    "returned", "submitted")
        BY <1>2, CallReturns
      <3> QED BY <1>4, <3>1, <3>2 DEF Becomes
    <2>2. UNCHANGED inbox BY <1>4 DEF Submitted!Publish
    <2>3. call' \in [Callers -> CallT] /\ call'[c] = x /\ \A d \in Callers : d # c => call'[d] = call[d]
      BY <1>2, <2>1
    <2>4. SubmitTyped' BY <1>1, <1>3, <2>2, <2>3 DEF SubmitTyped
    <2>5. c \notin registry BY <1>1, <1>4 DEF CallerInv
    <2>6. CallerInv(c)' BY <1>1, <2>1, <2>2, <2>3, <2>5 DEF CallerInv, QueueHolds, QueueInv
    <2> QED BY <1>1, <1>3, <2>2, <2>3, <2>4, <2>6, OneCaller
  <1>5. CASE call[c].mode # "forget"
    <2>1. PICK x \in CallT :
            call' = [call EXCEPT ![c] = x] /\ x.pc = "waiting" /\ x.result = "none" /\ x.mode = call[c].mode
      <3>1. call' = [call EXCEPT ![c] = [call[c] EXCEPT !.pc = "waiting"]]
        BY <1>2, <1>5 DEF Submitted!Publish, Submitted!Go
      <3>2. Becomes([call[c] EXCEPT !.pc = "waiting"], call[c], "waiting", call[c].result)
        BY <1>2, CallGoes
      <3> QED BY <1>1, <3>1, <3>2 DEF Becomes
    <2>2. call' \in [Callers -> CallT] /\ call'[c] = x /\ \A d \in Callers : d # c => call'[d] = call[d]
      BY <1>2, <2>1
    <2>3. PICK q \in Seq(Heard) : q = Append(inbox[c], "message") /\ Len(q) = 1
                                  /\ \A i \in 1..Len(q) : q[i] # "response"
      <3>1. << >> \in Seq(Heard) /\ "message" \in Heard /\ Len(<< >>) = 0 BY DEF Heard
      <3>2. PICK q : q = Append(<< >>, "message") OBVIOUS
      <3>3. q \in Seq(Heard) /\ Len(q) = 1 BY <3>1, <3>2, Queued
      <3>4. \A i \in 1..Len(q) : q[i] = "message" \/ i \in 1..0 BY <3>1, <3>2, Queued
      <3>5. \A i \in 1..Len(q) : q[i] # "response" BY <3>4
      <3>6. q = Append(inbox[c], "message") BY <1>1, <3>2
      <3> QED BY <3>3, <3>5, <3>6
    <2>4. inbox' = [inbox EXCEPT ![c] = q] BY <1>2, <1>5, <2>3 DEF Submitted!Publish
    <2>5. inbox' \in [Callers -> Seq(Heard)] /\ inbox'[c] = q
          /\ \A d \in Callers : d # c => inbox'[d] = inbox[d]
      BY <1>2, <2>4
    <2>6. SubmitTyped' BY <1>1, <1>3, <2>2, <2>5 DEF SubmitTyped
    <2>7. QueueInv(c)'
      <3>1. 1 <= 1 + worker'[c].published
        <4>1. worker'[c].published \in Nat BY <1>3 DEF WorkerT
        <4> QED BY <4>1
      <3>2. worker'[c].pc # "answered" BY <1>3
      <3> QED BY <2>3, <2>5, <3>1, <3>2 DEF QueueInv
    <2>8. CallerInv(c)' BY <1>1, <2>1, <2>2, <2>3, <2>5, <2>7 DEF CallerInv, QueueHolds
    <2> QED BY <1>1, <1>3, <2>2, <2>5, <2>6, <2>8, OneCaller
  <1> QED BY <1>4, <1>5

LEMMA TakeKeeps ==
  ASSUME SubmitInv, NEW c \in Callers, Submitted!Take(c) PROVE SubmitInv'
  <1>1. /\ SubmitTyped /\ CallerInv(c) /\ UNCHANGED <<call, inbox, worker>>
        /\ worker[c].pc = "running" /\ c \in registry /\ registry' = registry \ {c}
        /\ senders' = [senders EXCEPT ![c] = @ + 1]
    BY DEF SubmitInv, Submitted!Take
  <1>2. call[c].mode = "stream" /\ senders[c] = 0 /\ call[c].pc \notin {"begin", "subscribe", "publish"}
    BY <1>1 DEF CallerInv
  <1>3. /\ senders' \in [Callers -> Nat] /\ senders'[c] = 1
        /\ \A d \in Callers : d # c => senders'[d] = senders[d]
    BY <1>1, <1>2 DEF SubmitTyped
  <1>4. SubmitTyped' BY <1>1, <1>3 DEF SubmitTyped
  <1>5. CallerInv(c)' BY <1>1, <1>2, <1>3 DEF CallerInv, QueueInv
  <1> QED BY <1>1, <1>3, <1>4, <1>5, OneCaller

LEMMA RunKeeps ==
  ASSUME QueueHolds, SubmitInv, NEW c \in Callers, Submitted!Progress(c) \/ Submitted!Respond(c)
  PROVE  SubmitInv'
  <1>1. /\ SubmitTyped /\ CallerInv(c) /\ UNCHANGED <<call, registry, senders>>
        /\ worker[c].pc = "running"
    BY DEF SubmitInv, Submitted!Progress, Submitted!Respond
  <1>2. call[c].pc \notin {"begin", "subscribe", "publish"} /\ call[c].result # "answer"
    BY <1>1 DEF CallerInv
  <1>3. worker[c] \in WorkerT /\ worker \in [Callers -> WorkerT] /\ inbox \in [Callers -> Seq(Heard)]
    BY <1>1 DEF SubmitTyped
  <1>4. PICK w \in WorkerT, e \in Heard :
          /\ worker' = [worker EXCEPT ![c] = w]
          /\ \/ inbox' = inbox
             \/ inbox' = [inbox EXCEPT ![c] = Append(@, e)] /\ Len(inbox[c]) < Capacity
          /\ w.pc \in {"running", "answered", "silent"} /\ (e = "response" => w.pc = "answered")
          /\ \/ w.pc = "running" /\ w.published = worker[c].published + 1
             \/ w.pc # "running" /\ w.published = worker[c].published
          /\ w.pc = "answered" /\ call[c].pc = "waiting" =>
                \/ inbox' = inbox /\ ~(Len(inbox[c]) < Capacity)
                \/ e = "response" /\ inbox' = [inbox EXCEPT ![c] = Append(@, e)]
    <2>1. CASE Submitted!Progress(c)
      <3>1. worker' = [worker EXCEPT ![c] = [worker[c] EXCEPT !.published = @ + 1]]
        BY <1>3, <2>1 DEF Submitted!Progress
      <3>2. [worker[c] EXCEPT !.published = @ + 1] \in WorkerT
            /\ [worker[c] EXCEPT !.published = @ + 1].pc = "running"
            /\ [worker[c] EXCEPT !.published = @ + 1].published = worker[c].published + 1
        <4>1. worker[c].published \in Nat BY <1>3 DEF WorkerT
        <4>2. PICK n \in Nat : n = worker[c].published + 1 BY <4>1
        <4>3. PICK w : w = [worker[c] EXCEPT !.published = n] OBVIOUS
        <4>4. w \in WorkerT /\ w.pc = worker[c].pc /\ w.published = n BY <1>3, <4>3 DEF WorkerT
        <4> QED BY <1>1, <4>2, <4>3, <4>4
      <3> QED BY <2>1, <3>1, <3>2 DEF Submitted!Progress, Submitted!Deliver, Heard
    <2>2. CASE Submitted!Respond(c)
      <3>1. \/ worker' = [worker EXCEPT ![c] = [worker[c] EXCEPT !.pc = "answered"]]
               /\ Submitted!Deliver(c, "response")
            \/ worker' = [worker EXCEPT ![c] = [worker[c] EXCEPT !.pc = "silent"]] /\ UNCHANGED inbox
        BY <1>3, <2>2 DEF Submitted!Respond
      <3>2. \A g \in {"answered", "silent"} :
              /\ [worker[c] EXCEPT !.pc = g] \in WorkerT /\ [worker[c] EXCEPT !.pc = g].pc = g
              /\ [worker[c] EXCEPT !.pc = g].published = worker[c].published
        BY <1>3 DEF WorkerT
      <3>3. "response" \in Heard /\ "progress" \in Heard BY DEF Heard
      <3>4. CASE worker' = [worker EXCEPT ![c] = [worker[c] EXCEPT !.pc = "answered"]]
                 /\ Submitted!Deliver(c, "response")
        BY <3>2, <3>3, <3>4 DEF Submitted!Deliver
      <3>5. CASE worker' = [worker EXCEPT ![c] = [worker[c] EXCEPT !.pc = "silent"]] /\ UNCHANGED inbox
        BY <3>2, <3>3, <3>5
      <3> QED BY <3>1, <3>4, <3>5
    <2> QED BY <2>1, <2>2
  <1>5. /\ worker' \in [Callers -> WorkerT] /\ worker'[c] = w
        /\ \A d \in Callers : d # c => worker'[d] = worker[d]
    BY <1>3, <1>4
  <1>6. /\ inbox' \in [Callers -> Seq(Heard)]
        /\ \A d \in Callers : d # c => inbox'[d] = inbox[d]
        /\ \A i \in 1..Len(inbox'[c]) : inbox'[c][i] = "response" => w.pc = "answered"
        /\ Len(inbox'[c]) <= Capacity
    <2>1. Len(inbox[c]) \in Nat /\ Len(inbox[c]) <= Capacity
          /\ \A i \in 1..Len(inbox[c]) : inbox[c][i] # "response"
      BY <1>1, <1>3, LenProperties DEF CallerInv
    <2>2. CASE inbox' = inbox BY <1>3, <2>1, <2>2
    <2>3. CASE inbox' = [inbox EXCEPT ![c] = Append(@, e)] /\ Len(inbox[c]) < Capacity
      <3>1. PICK q : q = Append(inbox[c], e) OBVIOUS
      <3>2. /\ q \in Seq(Heard) /\ Len(q) = Len(inbox[c]) + 1
            /\ \A i \in 1..Len(q) : q[i] = e \/ (i \in 1..Len(inbox[c]) /\ q[i] = inbox[c][i])
        BY <1>3, <3>1, Queued
      <3>3. inbox' = [inbox EXCEPT ![c] = q] BY <2>3, <3>1
      <3>4. Len(q) <= Capacity BY <2>1, <2>3, <3>2 DEF QueueHolds
      <3>5. inbox'[c] = q BY <1>3, <3>3
      <3>6. \A i \in 1..Len(q) : q[i] = "response" => w.pc = "answered" BY <1>4, <2>1, <3>2
      <3> QED BY <1>3, <3>2, <3>3, <3>4, <3>5, <3>6
    <2> QED BY <1>4, <2>2, <2>3
  <1>7. SubmitTyped' BY <1>1, <1>5, <1>6 DEF SubmitTyped
  <1>8. QueueInv(c)'
    <2> SUFFICES ASSUME call[c].pc = "waiting"
                 PROVE  /\ w.pc = "running" => Len(inbox'[c]) <= 1 + w.published
                        /\ w.pc = "answered" /\ 1 + w.published < Capacity =>
                              \E i \in 1..Len(inbox'[c]) : inbox'[c][i] = "response"
      BY <1>1, <1>5 DEF QueueInv
    <2>1. PICK n, m, k \in Nat : n = Len(inbox[c]) /\ m = worker[c].published /\ k = w.published
      BY <1>3, LenProperties DEF WorkerT
    <2>2. n <= 1 + m BY <1>1, <2>1 DEF CallerInv, QueueInv
    <2>3. (k = m + 1 /\ w.pc # "answered") \/ k = m BY <1>4, <2>1
    <2>4. CASE inbox' = inbox
      <3>1. n <= 1 + k BY <2>2, <2>3
      <3>2. w.pc = "answered" => Capacity <= n
        <4>1. w.pc = "answered" => ~(n < Capacity)
          <5>1. ASSUME w.pc = "answered", inbox' = [inbox EXCEPT ![c] = Append(@, e)] PROVE FALSE
            <6>1. inbox'[c] = Append(inbox[c], e) BY <1>3, <5>1
            <6>2. Len(inbox'[c]) = Len(inbox[c]) + 1 /\ Len(inbox[c]) \in Nat BY <1>3, <6>1, Queued
            <6> QED BY <2>4, <6>2
          <5> QED BY <1>4, <2>1, <5>1
        <4> QED BY <2>1, <4>1 DEF QueueHolds
      <3>3. ~(w.pc = "answered" /\ 1 + k < Capacity) BY <2>2, <2>3, <3>1, <3>2 DEF QueueHolds
      <3> QED BY <2>1, <2>4, <3>1, <3>3
    <2>5. CASE inbox' = [inbox EXCEPT ![c] = Append(@, e)] /\ inbox' # inbox
      <3>1. PICK q : q = Append(inbox[c], e) OBVIOUS
      <3>2. Len(q) = n + 1 /\ q[n + 1] = e BY <1>3, <2>1, <3>1, Queued
      <3>3. inbox'[c] = q BY <1>3, <2>5, <3>1
      <3>4. CASE w.pc = "answered"
        <4>1. e = "response" /\ k = m BY <1>4, <2>1, <2>3, <2>5, <3>4
        <4>2. n + 1 \in 1..(n + 1) BY <2>1
        <4>3. 1 + k < Capacity => \E i \in 1..Len(q) : q[i] = "response" BY <3>2, <4>1, <4>2
        <4> QED BY <2>1, <3>2, <3>3, <3>4, <4>3
      <3>5. CASE w.pc # "answered"
        <4>1. w.pc = "running" => k = m + 1 BY <1>4, <2>1, <2>5
        <4>2. w.pc = "running" => n + 1 <= 1 + k BY <2>1, <2>2, <4>1
        <4> QED BY <2>1, <3>2, <3>3, <3>5, <4>2
      <3> QED BY <3>4, <3>5
    <2> QED BY <1>4, <2>4, <2>5
  <1>9. CallerInv(c)' BY <1>1, <1>2, <1>5, <1>6, <1>8 DEF CallerInv
  <1> QED BY <1>1, <1>5, <1>6, <1>7, <1>9, OneCaller

LEMMA AfterKeeps ==
  ASSUME QueueHolds, SubmitInv, NEW c \in Callers, Submitted!Receive(c) \/ Submitted!GiveUp(c)
  PROVE  SubmitInv'
  <1>1. /\ SubmitTyped /\ CallerInv(c) /\ UNCHANGED <<worker, senders>> /\ call[c].pc = "waiting"
        /\ call[c].result = "none"
    BY DEF SubmitInv, Submitted!Receive, Submitted!GiveUp, CallerInv
  <1>2. call[c] \in CallT /\ call \in [Callers -> CallT] /\ inbox \in [Callers -> Seq(Heard)]
    BY <1>1 DEF SubmitTyped
  <1>3. \A r \in {"answer", "timeout", "bus_closed"} : Submitted!Return(c, r) =>
           \E x \in CallT : /\ call' = [call EXCEPT ![c] = x]
                            /\ x.pc = "returned" /\ x.result = r /\ x.mode = call[c].mode
    <2> SUFFICES ASSUME NEW r \in {"answer", "timeout", "bus_closed"}, Submitted!Return(c, r)
                 PROVE  \E x \in CallT : /\ call' = [call EXCEPT ![c] = x]
                                         /\ x.pc = "returned" /\ x.result = r /\ x.mode = call[c].mode
      OBVIOUS
    <2>1. call' = [call EXCEPT ![c] = [call[c] EXCEPT !.pc = "returned", !.result = r]]
      BY <1>2 DEF Submitted!Return
    <2>2. Becomes([call[c] EXCEPT !.pc = "returned", !.result = r], call[c], "returned", r)
      BY <1>2, CallReturns
    <2> QED BY <2>1, <2>2 DEF Becomes
  <1>4. CASE Submitted!Receive(c)
    <2>1. inbox[c] # << >> /\ registry' = registry /\ inbox' = [inbox EXCEPT ![c] = Tail(@)]
      BY <1>4 DEF Submitted!Receive
    <2>2. PICK q : q = Tail(inbox[c]) OBVIOUS
    <2>3. /\ q \in Seq(Heard) /\ Len(q) = Len(inbox[c]) - 1 /\ \A i \in 1..Len(q) : q[i] = inbox[c][i + 1]
          /\ Head(inbox[c]) = inbox[c][1] /\ Len(inbox[c]) \in Nat \ {0}
      BY <1>2, <2>1, <2>2, HeadTailProperties, LenProperties, EmptySeq
    <2>4. inbox' \in [Callers -> Seq(Heard)] /\ inbox'[c] = q
          /\ \A d \in Callers : d # c => inbox'[d] = inbox[d]
      BY <1>2, <2>1, <2>2, <2>3
    <2>5. PICK n \in Nat \ {0} : n = Len(inbox[c]) BY <2>3
    <2>6. \A i \in 1..Len(q) : q[i] = "response" => worker[c].pc = "answered"
      <3>1. \A i \in 1..(n - 1) : i + 1 \in 1..n OBVIOUS
      <3> QED BY <1>1, <2>3, <2>5, <3>1 DEF CallerInv
    <2>7. Len(q) <= Capacity
      <3>1. n <= Capacity BY <1>1, <2>5 DEF CallerInv
      <3>2. n - 1 <= Capacity BY <3>1 DEF QueueHolds
      <3> QED BY <2>3, <2>5, <3>2
    <2>8. CASE Head(inbox[c]) = "response"
      <3>1. PICK x \in CallT : /\ call' = [call EXCEPT ![c] = x]
                               /\ x.pc = "returned" /\ x.result = "answer" /\ x.mode = call[c].mode
        BY <1>3, <1>4, <2>8 DEF Submitted!Receive
      <3>2. call' \in [Callers -> CallT] /\ call'[c] = x /\ \A d \in Callers : d # c => call'[d] = call[d]
        BY <1>2, <3>1
      <3>3. worker[c].pc = "answered"
        <4>1. 1 \in 1..Len(inbox[c]) BY <2>3
        <4> QED BY <1>1, <2>3, <2>8, <4>1 DEF CallerInv
      <3>4. SubmitTyped' BY <1>1, <2>1, <2>4, <3>2 DEF SubmitTyped
      <3>5. CallerInv(c)' BY <1>1, <2>1, <2>4, <2>6, <2>7, <3>1, <3>2, <3>3 DEF CallerInv, QueueInv
      <3> QED BY <1>1, <2>1, <2>4, <3>2, <3>4, <3>5, OneCaller
    <2>9. CASE Head(inbox[c]) # "response"
      <3>1. UNCHANGED call BY <1>4, <2>9 DEF Submitted!Receive
      <3>2. SubmitTyped' BY <1>1, <2>1, <2>4, <3>1 DEF SubmitTyped
      <3>3. QueueInv(c)'
        <4>1. QueueInv(c) BY <1>1 DEF CallerInv
        <4>2. worker[c].published \in Nat BY <1>1 DEF SubmitTyped, WorkerT
        <4>3. worker[c].pc = "running" => Len(q) <= 1 + worker[c].published
          BY <1>1, <2>3, <2>5, <4>1, <4>2 DEF QueueInv
        <4>4. ASSUME NEW i \in 1..Len(inbox[c]), inbox[c][i] = "response"
              PROVE  \E j \in 1..Len(q) : q[j] = "response"
          <5>1. i # 1 BY <2>3, <2>9, <4>4
          <5>2. i - 1 \in 1..(n - 1) /\ i = (i - 1) + 1 BY <2>5, <4>4, <5>1
          <5>3. PICK j \in 1..(n - 1) : i = j + 1 BY <5>2
          <5>4. j \in 1..Len(q) BY <2>3, <2>5
          <5> QED BY <2>3, <4>4, <5>3, <5>4
        <4> QED BY <1>1, <2>4, <3>1, <4>1, <4>3, <4>4 DEF QueueInv
      <3>4. CallerInv(c)' BY <1>1, <2>1, <2>4, <2>6, <2>7, <3>1, <3>3 DEF CallerInv
      <3> QED BY <1>1, <2>1, <2>4, <3>1, <3>2, <3>4, OneCaller
    <2> QED BY <2>8, <2>9
  <1>5. CASE Submitted!GiveUp(c)
    <2>1. PICK r \in {"timeout", "bus_closed"} : Submitted!Return(c, r) BY <1>5 DEF Submitted!GiveUp
    <2>2. PICK x \in CallT : /\ call' = [call EXCEPT ![c] = x]
                             /\ x.pc = "returned" /\ x.result = r /\ x.mode = call[c].mode
      BY <1>3, <2>1
    <2>3. registry' = registry \ {c} /\ inbox' = [inbox EXCEPT ![c] = << >>] BY <1>5 DEF Submitted!GiveUp
    <2>4. call' \in [Callers -> CallT] /\ call'[c] = x /\ \A d \in Callers : d # c => call'[d] = call[d]
      BY <1>2, <2>2
    <2>5. inbox' \in [Callers -> Seq(Heard)] /\ inbox'[c] = << >>
          /\ \A d \in Callers : d # c => inbox'[d] = inbox[d]
      BY <1>2, <2>3, EmptySeq
    <2>6. registry' \subseteq Callers BY <1>1, <2>3 DEF SubmitTyped
    <2>7. SubmitTyped' BY <1>1, <2>4, <2>5, <2>6 DEF SubmitTyped
    <2>8. Len(<< >>) = 0 OBVIOUS
    <2>9. CallerInv(c)' BY <1>1, <2>1, <2>2, <2>3, <2>4, <2>5, <2>8 DEF CallerInv, QueueHolds, QueueInv
    <2> QED BY <1>1, <2>3, <2>4, <2>5, <2>7, <2>9, OneCaller
  <1> QED BY <1>4, <1>5

LEMMA InitSubmit == ASSUME QueueHolds, Submitted!Init PROVE SubmitInv
  <1>1. PICK m \in [Callers -> {"wait", "stream", "forget"}] :
          call = [c \in Callers |-> [pc |-> "begin", mode |-> m[c], result |-> "none"]]
    BY DEF Submitted!Init
  <1>2. << >> \in Seq(Heard) /\ Len(<< >>) = 0 OBVIOUS
  <1>3. SubmitTyped BY <1>1, <1>2 DEF Submitted!Init, SubmitTyped, CallT, WorkerT
  <1>4. \A c \in Callers : CallerInv(c)
    BY <1>1, <1>2 DEF Submitted!Init, CallerInv, QueueHolds, QueueInv
  <1> QED BY <1>3, <1>4 DEF SubmitInv

(* A caller's queue, its sender and its run belong together all the way.     *)
THEOREM SubmitInvariant == ASSUME QueueHolds PROVE Submitted!Spec => []SubmitInv
  <1>1. SubmitInv /\ [Submitted!Next]_(Submitted!vars) => SubmitInv'
    <2> SUFFICES ASSUME SubmitInv, [Submitted!Next]_(Submitted!vars) PROVE SubmitInv' OBVIOUS
    <2>1. CASE UNCHANGED Submitted!vars
      BY <2>1 DEF Submitted!vars, SubmitInv, SubmitTyped, CallerInv, QueueInv
    <2>2. ASSUME NEW c \in Callers,
                 Submitted!Step(c) \/ Submitted!Take(c) \/ Submitted!Progress(c) \/ Submitted!Respond(c)
          PROVE  SubmitInv'
      BY <2>2, BeforeKeeps, SubmitKeeps, TakeKeeps, RunKeeps, AfterKeeps DEF Submitted!Step
    <2> QED BY <2>1, <2>2 DEF Submitted!Next
  <1> QED BY <1>1, InitSubmit, PTL DEF Submitted!Spec

(* An answer is that of the caller's own run, it is in the queue of a caller *)
(* that still waits unless the message and the run's progress could fill     *)
(* that queue, and a failed call leaves no sender behind.                    *)
THEOREM CallersGetTheirAnswer ==
  ASSUME QueueHolds PROVE Submitted!Spec => [](Submitted!SubmitSound /\ Submitted!TypeOK)
  <1>1. SubmitInv => Submitted!SubmitSound /\ Submitted!TypeOK
    <2> SUFFICES ASSUME SubmitInv PROVE Submitted!SubmitSound /\ Submitted!TypeOK OBVIOUS
    <2>1. SubmitTyped /\ \A c \in Callers : CallerInv(c) BY DEF SubmitInv
    <2>2. Submitted!SubmitSound BY <2>1 DEF Submitted!SubmitSound, CallerInv, QueueInv
    <2>3. ASSUME NEW c \in Callers
          PROVE  /\ call[c].pc \in {"begin", "subscribe", "publish", "waiting", "returned"}
                 /\ Len(inbox[c]) <= Capacity /\ senders[c] \in 0..1
      <3>1. call[c] \in CallT /\ senders[c] \in Nat /\ CallerInv(c) BY <2>1 DEF SubmitTyped
      <3>2. senders[c] \in 0..1 BY <3>1 DEF CallerInv
      <3> QED BY <3>1, <3>2 DEF CallerInv, CallT
    <2>4. Submitted!TypeOK BY <2>1, <2>3 DEF Submitted!TypeOK, SubmitTyped
    <2> QED BY <2>2, <2>4
  <1> QED BY <1>1, SubmitInvariant, PTL

-----------------------------------------------------------------------------
(* The questions asked at a terminal.                                        *)
Terminal == INSTANCE Asking

(* The requests are finitely many, and no request is called like an outcome. *)
AskIds ==
    /\ IsFiniteSet(Terminal!Ids)
    /\ Terminal!Ids \cap {"none", "timeout", "eof", "restart", "new", "waiting", "failed", "gone"} = {}

By == Terminal!Ids \cup {Terminal!None, "timeout", "eof", "restart"}
Answered(i) == \E by \in By : <<i, by>> \in decided
Left(i) == \E by \in By : <<i, by>> \in lost

AskTyped ==
    /\ waits \in [Terminal!Ids -> Terminal!Ids \cup {"new", "waiting", "failed", "gone"}]
    /\ requested \subseteq Terminal!Ids /\ decided \subseteq Terminal!Ids \X By
    /\ lost \subseteq Terminal!Ids \X By
    /\ inbox \in [Terminal!Kinds -> Seq(Terminal!Ids)] /\ queue \in [Terminal!Kinds -> Seq(Terminal!Ids)]
    /\ open \in [Terminal!Kinds -> Terminal!Ids \cup {Terminal!None}]
    /\ lines \in [Terminal!Kinds -> Terminal!Ids \cup {Terminal!None}]
    /\ shown \in Seq(Terminal!Ids)

(* A wait ends with the answer in the store, or with its request closed, or  *)
(* left open by this process and so old that the next one will close it.     *)
WaitInv(i) ==
    /\ waits[i] = "new" => i \notin requested
    /\ waits[i] \in Terminal!Ids => <<i, waits[i]>> \in decided
    /\ waits[i] = "failed" /\ i \in requested => Answered(i) \/ (Left(i) /\ i \in old)

(* What is open and belongs here has its prompt on the way, or was left so.  *)
OnTheWay(i) ==
    up /\ i \in requested /\ i \notin Elsewhere => Answered(i) \/ Left(i) \/ Terminal!UnderWay(i)

PromptInv == AskTyped /\ \A i \in Terminal!Ids : WaitInv(i) /\ OnTheWay(i)

LEMMA UnmetIs == ASSUME NEW i PROVE i \in Terminal!Unmet <=> i \in requested /\ ~Answered(i)
  BY DEF Terminal!Unmet, Answered, By

LEMMA DroppedIs ==
  ASSUME AskTyped, NEW i PROVE i \in Terminal!Dropped <=> Left(i)
  <1>1. \A l \in lost : l = <<l[1], l[2]>> /\ l[2] \in By BY DEF AskTyped
  <1>2. ASSUME i \in Terminal!Dropped PROVE Left(i)
    <2>1. PICK l \in lost : i = l[1] BY <1>2 DEF Terminal!Dropped
    <2> QED BY <1>1, <2>1 DEF Left
  <1>3. ASSUME Left(i) PROVE i \in Terminal!Dropped
    <2>1. PICK by \in By : <<i, by>> \in lost BY <1>3 DEF Left
    <2>2. i = <<i, by>>[1] OBVIOUS
    <2> QED BY <2>1, <2>2 DEF Terminal!Dropped
  <1> QED BY <1>2, <1>3

LEMMA KindIs == ASSUME NEW i PROVE Terminal!KindOf(i) \in Terminal!Kinds
  BY DEF Terminal!KindOf, Terminal!Kinds

LEMMA PromptRemoved ==
  ASSUME NEW S, NEW s \in Seq(S), NEW e PROVE Terminal!RemoveFirst(s, e) \in Seq(S)
  <1>1. PICK n \in Nat : n = Len(s) BY LenProperties
  <1>2. ASSUME NEW j \in 1..n PROVE Terminal!RemoveAt(s, j) \in Seq(S)
    <2>1. PICK a, b \in Int : a = j - 1 /\ b = j + 1 /\ (a >= 1 => a <= n) /\ b >= 1 OBVIOUS
    <2>2. SubSeq(s, 1, a) \in Seq(S)
      <3>1. \A i \in 1..a : s[i] \in S BY <1>1, <2>1, ElementOfSeq
      <3> QED BY <2>1, <3>1, SubSeqProperties
    <2>3. SubSeq(s, b, n) \in Seq(S)
      <3>1. \A i \in b..n : s[i] \in S BY <1>1, <2>1, ElementOfSeq
      <3> QED BY <2>1, <3>1, SubSeqProperties
    <2> QED BY <1>1, <2>1, <2>2, <2>3, ConcatProperties DEF Terminal!RemoveAt
  <1>3. CASE \E i \in 1..n : s[i] = e
    <2> DEFINE I == {i \in 1..n : s[i] = e}
    <2>1. I \in SUBSET Nat /\ I # {} BY <1>3
    <2>2. \E m \in I : \A k \in I : m <= k BY <2>1, LeastOf
    <2>3. Terminal!Min(I) \in 1..n BY <2>2 DEF Terminal!Min
    <2>4. Terminal!RemoveFirst(s, e) = Terminal!RemoveAt(s, Terminal!Min(I))
      BY <1>1, <1>3, <2>1 DEF Terminal!RemoveFirst, Terminal!SelectInSeq
    <2> QED BY <1>2, <2>3, <2>4
  <1>4. CASE ~(\E i \in 1..n : s[i] = e) BY <1>1, <1>4 DEF Terminal!RemoveFirst
  <1> QED BY <1>3, <1>4

(* Start hands out all that is open: a list of as many different requests    *)
(* as there are holds each of them.                                          *)
LEMMA HandedOut ==
  ASSUME AskIds, AskTyped, NEW k, NEW q \in Terminal!Redelivered(k),
         NEW i \in Terminal!Unmet \ old, i \notin Elsewhere, Terminal!KindOf(i) = k
  PROVE  i \in Terminal!Listed(q)
  <1> DEFINE T == {j \in Terminal!Unmet \ old : j \notin Elsewhere /\ Terminal!KindOf(j) = k}
             N == Cardinality(T)
  <1>1. T \in SUBSET Terminal!Ids BY DEF Terminal!Unmet, AskTyped
  <1>2. IsFiniteSet(T) /\ N \in Nat BY <1>1, FS_Subset, FS_CardinalityType DEF AskIds
  <1>3. /\ q \in [1..N -> Terminal!Ids] /\ \A n, m \in DOMAIN q : n # m => q[n] # q[m]
        /\ \A n \in DOMAIN q : q[n] \in T
    <2>1. \A S : Terminal!Cardinality(S) = Cardinality(S) BY DEF Terminal!Cardinality, Cardinality
    <2> QED BY <2>1 DEF Terminal!Redelivered
  <1>4. i \in T OBVIOUS
  <1> HIDE DEF T
  <1>5. Cardinality(1..N) = N BY <1>2, FS_Interval
  <1> HIDE DEF N
  <1>6. q \in Injection(1..N, T) BY <1>3 DEF Injection, IsInjective
  <1>7. q \in Surjection(1..N, T) BY <1>2, <1>5, <1>6, FS_Injection DEF N
  <1>8. \E n \in 1..N : q[n] = i BY <1>4, <1>7 DEF Surjection
  <1> QED BY <1>3, <1>8 DEF Terminal!Listed

LEMMA StartAsksKeeps == ASSUME AskIds, PromptInv, Terminal!Start PROVE PromptInv'
  <1>1. /\ AskTyped /\ \A i \in Terminal!Ids : WaitInv(i)
        /\ UNCHANGED <<waits, requested, old, queue, open, shown, lines>>
    BY DEF PromptInv, Terminal!Start
  <1>2. PICK skipped \in SUBSET Terminal!Kinds, left \in SUBSET Terminal!Unmet,
             a \in Terminal!Redelivered("ask"), p \in Terminal!Redelivered("approval") :
          /\ \A i \in Terminal!Unmet : Terminal!KindOf(i) \in skipped => i \in left
          /\ lost' = {<<i, "restart">> : i \in left}
          /\ decided' = decided \cup {<<i, "restart">> : i \in (Terminal!Unmet \cap old) \ left}
          /\ inbox' = [k \in Terminal!Kinds |->
                        IF k \in skipped THEN << >> ELSE IF k = "ask" THEN a ELSE p]
    <2>1. PICK skipped \in SUBSET Terminal!Kinds, unsealed \in SUBSET (Terminal!Unmet \cap old) :
            LET left == unsealed \cup {i \in Terminal!Unmet : Terminal!KindOf(i) \in skipped} IN
            /\ lost' = {<<i, "restart">> : i \in left}
            /\ decided' = decided \cup {<<i, "restart">> : i \in (Terminal!Unmet \cap old) \ left}
            /\ \E a \in Terminal!Redelivered("ask"), p \in Terminal!Redelivered("approval") :
                  inbox' = [k \in Terminal!Kinds |->
                              IF k \in skipped THEN << >> ELSE IF k = "ask" THEN a ELSE p]
      BY DEF Terminal!Start
    <2>2. PICK L : L = unsealed \cup {i \in Terminal!Unmet : Terminal!KindOf(i) \in skipped} OBVIOUS
    <2>3. /\ lost' = {<<i, "restart">> : i \in L}
          /\ decided' = decided \cup {<<i, "restart">> : i \in (Terminal!Unmet \cap old) \ L}
          /\ \E a \in Terminal!Redelivered("ask"), p \in Terminal!Redelivered("approval") :
                inbox' = [k \in Terminal!Kinds |->
                            IF k \in skipped THEN << >> ELSE IF k = "ask" THEN a ELSE p]
      BY <2>1, <2>2
    <2>4. PICK a \in Terminal!Redelivered("ask"), p \in Terminal!Redelivered("approval") :
            inbox' = [k \in Terminal!Kinds |->
                        IF k \in skipped THEN << >> ELSE IF k = "ask" THEN a ELSE p]
      BY <2>3
    <2>5. L \in SUBSET Terminal!Unmet BY <2>2
    <2>6. \A i \in Terminal!Unmet : Terminal!KindOf(i) \in skipped => i \in L BY <2>2
    <2> WITNESS skipped \in SUBSET Terminal!Kinds, L \in SUBSET Terminal!Unmet,
                a \in Terminal!Redelivered("ask"), p \in Terminal!Redelivered("approval")
    <2> QED BY <2>3, <2>4, <2>6
  <1>3. \A k, q : q \in Terminal!Redelivered(k) => q \in Seq(Terminal!Ids)
    <2> SUFFICES ASSUME NEW k, NEW q \in Terminal!Redelivered(k) PROVE q \in Seq(Terminal!Ids) OBVIOUS
    <2> DEFINE T == {i \in Terminal!Unmet \ old : i \notin Elsewhere /\ Terminal!KindOf(i) = k}
    <2>1. T \in SUBSET Terminal!Ids BY <1>1 DEF Terminal!Unmet, AskTyped
    <2>2. \A S : Terminal!Cardinality(S) = Cardinality(S) BY DEF Terminal!Cardinality, Cardinality
    <2>3. Terminal!Cardinality(T) \in Nat BY <2>1, <2>2, FS_Subset, FS_CardinalityType DEF AskIds
    <2>4. q \in [1..Terminal!Cardinality(T) -> Terminal!Ids] BY DEF Terminal!Redelivered
    <2>5. PICK n \in Nat : q \in [1..n -> Terminal!Ids] BY <2>3, <2>4
    <2> QED BY <2>5
  <1>4. /\ decided' \subseteq Terminal!Ids \X By /\ lost' \subseteq Terminal!Ids \X By
        /\ decided \subseteq decided'
    BY <1>1, <1>2 DEF Terminal!Unmet, AskTyped, By
  <1>5. AskTyped'
    <2>1. << >> \in Seq(Terminal!Ids) OBVIOUS
    <2>2. inbox' \in [Terminal!Kinds -> Seq(Terminal!Ids)] BY <1>2, <1>3, <2>1
    <2>3. By' = By BY DEF By
    <2> QED BY <1>1, <1>4, <2>2, <2>3 DEF AskTyped
  <1>6. ASSUME NEW i \in Terminal!Ids, Answered(i) PROVE Answered(i)'
    BY <1>4, <1>6 DEF Answered, By
  <1>7. ASSUME NEW i \in Terminal!Unmet PROVE (i \in left => Left(i)') /\ (i \in old /\ i \notin left => Answered(i)')
    <2>1. "restart" \in By BY DEF By
    <2>2. i \in left => <<i, "restart">> \in lost' BY <1>2
    <2>3. i \in old /\ i \notin left => <<i, "restart">> \in decided' BY <1>2
    <2>4. By' = By BY DEF By
    <2>5. i \in left => Left(i)' BY <2>1, <2>2, <2>4 DEF Left
    <2>6. i \in old /\ i \notin left => Answered(i)' BY <2>1, <2>3, <2>4 DEF Answered
    <2> QED BY <2>5, <2>6
  <1>8. ASSUME NEW i \in Terminal!Ids PROVE WaitInv(i)'
    <2>1. waits[i] = "failed" /\ i \in requested /\ ~Answered(i) => i \in Terminal!Unmet /\ i \in old
      BY <1>1, UnmetIs DEF WaitInv
    <2>2. ASSUME waits[i] = "failed", i \in requested PROVE Answered(i)' \/ (Left(i)' /\ i \in old)
      <3>1. CASE Answered(i) BY <1>6, <3>1
      <3>2. CASE ~Answered(i)
        <4>1. i \in Terminal!Unmet /\ i \in old BY <2>1, <2>2, <3>2
        <4> QED BY <1>7, <4>1
      <3> QED BY <3>1, <3>2
    <2> QED BY <1>1, <1>4, <2>2 DEF WaitInv
  <1>9. ASSUME NEW i \in Terminal!Ids PROVE OnTheWay(i)'
    <2> SUFFICES ASSUME i \in requested, i \notin Elsewhere, ~Answered(i)', ~Left(i)' PROVE Terminal!UnderWay(i)'
      BY <1>1 DEF OnTheWay
    <2>1. i \in Terminal!Unmet BY <1>6, UnmetIs
    <2>2. i \notin left /\ i \notin old BY <1>7, <2>1
    <2>3. Terminal!KindOf(i) \notin skipped BY <1>2, <2>1, <2>2
    <2>4. CASE Terminal!KindOf(i) = "ask"
      <3>1. i \in Terminal!Listed(a) BY <1>1, <2>1, <2>2, <2>4, HandedOut
      <3> QED BY <1>2, <2>3, <2>4, <3>1 DEF Terminal!UnderWay, Terminal!Kinds
    <2>5. CASE Terminal!KindOf(i) = "approval"
      <3>1. i \in Terminal!Listed(p) BY <1>1, <2>1, <2>2, <2>5, HandedOut
      <3> QED BY <1>2, <2>3, <2>5, <3>1 DEF Terminal!UnderWay, Terminal!Kinds
    <2> QED BY <2>4, <2>5 DEF Terminal!KindOf
  <1> QED BY <1>5, <1>8, <1>9 DEF PromptInv

LEMMA CrashAsksKeeps == ASSUME AskIds, PromptInv, Terminal!Crash PROVE PromptInv'
  <1>1. /\ AskTyped /\ \A i \in Terminal!Ids : WaitInv(i)
        /\ UNCHANGED <<requested, decided, old, lost>> /\ up' = FALSE
        /\ inbox' = Terminal!Empty /\ queue' = Terminal!Empty /\ open' = Terminal!Nobody
        /\ shown' = << >> /\ lines' = Terminal!Nobody
        /\ waits' = [i \in Terminal!Ids |-> IF waits[i] = "waiting" THEN "gone" ELSE waits[i]]
    BY DEF PromptInv, Terminal!Crash
  <1>2. << >> \in Seq(Terminal!Ids) OBVIOUS
  <1>3. AskTyped' BY <1>1, <1>2 DEF AskTyped, By, Terminal!Empty, Terminal!Nobody
  <1>4. \A i \in Terminal!Ids : WaitInv(i)'
    BY <1>1 DEF WaitInv, Answered, Left, By, AskIds
  <1>5. \A i \in Terminal!Ids : OnTheWay(i)' BY <1>1 DEF OnTheWay
  <1> QED BY <1>3, <1>4, <1>5 DEF PromptInv

(* What lies in a list still does when it grows.                             *)
LEMMA AppendLists ==
  ASSUME NEW q \in Seq(Terminal!Ids), NEW e \in Terminal!Ids
  PROVE  /\ Append(q, e) \in Seq(Terminal!Ids)
         /\ Terminal!Listed(q) \cup {e} \subseteq Terminal!Listed(Append(q, e))
  <1>1. PICK n \in Nat : n = Len(q) BY LenProperties
  <1>2. /\ Append(q, e) \in Seq(Terminal!Ids) /\ Len(Append(q, e)) = n + 1 /\ Append(q, e)[n + 1] = e
        /\ \A i \in 1..n : Append(q, e)[i] = q[i]
    BY <1>1, AppendProperties
  <1>3. DOMAIN q = 1..n /\ DOMAIN Append(q, e) = 1..(n + 1) BY <1>1, <1>2, LenProperties
  <1>4. n + 1 \in 1..(n + 1) /\ \A i \in 1..n : i \in 1..(n + 1) BY <1>1
  <1> QED BY <1>2, <1>3, <1>4 DEF Terminal!Listed

LEMMA TailLists ==
  ASSUME NEW q \in Seq(Terminal!Ids), q # << >>
  PROVE  /\ Tail(q) \in Seq(Terminal!Ids) /\ Head(q) \in Terminal!Ids
         /\ Terminal!Listed(q) \subseteq Terminal!Listed(Tail(q)) \cup {Head(q)}
  <1>1. PICK n \in Nat \ {0} : n = Len(q) BY LenProperties, EmptySeq
  <1>2. /\ Tail(q) \in Seq(Terminal!Ids) /\ Len(Tail(q)) = n - 1 /\ Head(q) = q[1] /\ Head(q) \in Terminal!Ids
        /\ \A i \in 1..(n - 1) : Tail(q)[i] = q[i + 1]
    BY <1>1, HeadTailProperties
  <1>3. DOMAIN q = 1..n /\ DOMAIN Tail(q) = 1..(n - 1) BY <1>1, <1>2, LenProperties
  <1>4. ASSUME NEW i \in 1..n PROVE q[i] = Head(q) \/ \E j \in 1..(n - 1) : q[i] = Tail(q)[j]
    <2>1. CASE i = 1 BY <1>2, <2>1
    <2>2. CASE i # 1
      <3>1. PICK j \in 1..(n - 1) : i = j + 1
        <4>1. i - 1 \in 1..(n - 1) /\ i = (i - 1) + 1 BY <2>2
        <4> QED BY <4>1
      <3> QED BY <1>2, <3>1
    <2> QED BY <2>1, <2>2
  <1>5. ASSUME NEW x \in Terminal!Listed(q) PROVE x \in Terminal!Listed(Tail(q)) \cup {Head(q)}
    <2>1. PICK i \in 1..n : x = q[i] BY <1>3 DEF Terminal!Listed
    <2> QED BY <1>3, <1>4, <2>1 DEF Terminal!Listed
  <1> QED BY <1>2, <1>5

LEMMA RequestKeeps ==
  ASSUME AskIds, PromptInv, NEW i \in Terminal!Ids, Terminal!Request(i) PROVE PromptInv'
  <1>1. /\ AskTyped /\ \A j \in Terminal!Ids : WaitInv(j) /\ OnTheWay(j)
        /\ UNCHANGED <<decided, queue, open, shown, lines, up, old, lost>> /\ waits[i] = "new"
        /\ waits' = [waits EXCEPT ![i] = "waiting"] /\ requested' = requested \cup {i}
        /\ inbox' = IF i \in Elsewhere THEN inbox
                    ELSE [inbox EXCEPT ![Terminal!KindOf(i)] = Append(@, i)]
    BY DEF PromptInv, Terminal!Request
  <1>2. PICK k \in Terminal!Kinds : k = Terminal!KindOf(i) BY KindIs
  <1>3. PICK q : q = Append(inbox[k], i) OBVIOUS
  <1>4. q \in Seq(Terminal!Ids) /\ Terminal!Listed(inbox[k]) \cup {i} \subseteq Terminal!Listed(q)
    BY <1>1, <1>3, AppendLists DEF AskTyped
  <1>5. inbox' = inbox \/ inbox' = [inbox EXCEPT ![k] = q] BY <1>1, <1>2, <1>3
  <1>6. AskTyped' BY <1>1, <1>4, <1>5 DEF AskTyped, By
  <1>7. ASSUME NEW j \in Terminal!Ids PROVE WaitInv(j)'
    <2>1. CASE j = i BY <1>1, <2>1 DEF WaitInv, AskTyped, AskIds
    <2>2. CASE j # i
      <3>1. waits'[j] = waits[j] BY <1>1, <2>2 DEF AskTyped
      <3>2. WaitInv(j) /\ (j \in requested' <=> j \in requested) /\ decided' = decided
            /\ lost' = lost /\ old' = old
        BY <1>1, <2>2
      <3>3. (Answered(j)' <=> Answered(j)) /\ (Left(j)' <=> Left(j)) BY <3>2 DEF Answered, Left, By
      <3> QED BY <3>1, <3>2, <3>3 DEF WaitInv
    <2> QED BY <2>1, <2>2
  <1>8. \A l \in Terminal!Kinds : Terminal!Listed(inbox[l]) \subseteq Terminal!Listed(inbox'[l])
    BY <1>1, <1>4, <1>5 DEF AskTyped
  <1>9. ASSUME NEW j \in Terminal!Ids PROVE OnTheWay(j)'
    <2>1. CASE j = i
      <3>1. i \notin Elsewhere => i \in Terminal!Listed(inbox'[k])
        BY <1>1, <1>2, <1>3, <1>4 DEF AskTyped
      <3> QED BY <1>2, <2>1, <3>1 DEF OnTheWay, Terminal!UnderWay
    <2>2. CASE j # i
      <3>1. PICK l \in Terminal!Kinds : l = Terminal!KindOf(j) BY KindIs
      <3> QED BY <1>1, <1>8, <2>2, <3>1 DEF OnTheWay, Terminal!UnderWay, Answered, Left, By
    <2> QED BY <2>1, <2>2
  <1> QED BY <1>6, <1>7, <1>9 DEF PromptInv

(* A wait that ends, and what closes or ages a request.                      *)
LEMMA WaitEndsKeeps ==
  ASSUME AskIds, PromptInv, NEW i \in Terminal!Ids,
         \/ Terminal!PublishFails(i) \/ Terminal!Hear(i) \/ Terminal!TimeOut(i) \/ Terminal!Ages(i)
  PROVE  PromptInv'
  <1>1. /\ AskTyped /\ \A j \in Terminal!Ids : WaitInv(j) /\ OnTheWay(j)
        /\ UNCHANGED <<requested, inbox, queue, open, shown, lines, up>>
        /\ decided' = decided \/ decided' = decided \cup {<<i, "timeout">>}
        /\ lost' = lost \/ lost' = lost \cup {<<i, "timeout">>}
        /\ old \subseteq old'
    BY DEF PromptInv, Terminal!PublishFails, Terminal!Hear, Terminal!TimeOut, Terminal!Ages, Terminal!Close
  <1>2. PICK w \in Terminal!Ids \cup {"new", "waiting", "failed", "gone"} :
          /\ waits' = [waits EXCEPT ![i] = w]
          /\ \/ w = waits[i]
             \/ w = "failed" /\ (i \notin requested \/ Answered(i)' \/ (Left(i)' /\ i \in old'))
             \/ w \in Terminal!Ids /\ <<i, w>> \in decided'
    <2>1. CASE Terminal!PublishFails(i)
      <3>1. i \notin requested /\ waits' = [waits EXCEPT ![i] = "failed"]
        BY <1>1, <2>1 DEF Terminal!PublishFails, WaitInv
      <3> QED BY <3>1
    <2>2. CASE Terminal!Hear(i)
      <3>1. PICK d \in decided :
              d[1] = i /\ waits' = [waits EXCEPT ![i] = IF d[2] \in Terminal!Ids THEN d[2] ELSE "failed"]
        BY <2>2 DEF Terminal!Hear
      <3>2. d = <<i, d[2]>> /\ d[2] \in By BY <1>1, <3>1 DEF AskTyped
      <3>3. decided' = decided BY <2>2 DEF Terminal!Hear
      <3>4. CASE d[2] \in Terminal!Ids BY <3>1, <3>2, <3>3, <3>4
      <3>5. CASE d[2] \notin Terminal!Ids
        <4>1. Answered(i)' BY <3>1, <3>2, <3>3 DEF Answered, By
        <4>2. waits' = [waits EXCEPT ![i] = "failed"] BY <3>1, <3>5
        <4> QED BY <4>1, <4>2
      <3> QED BY <3>4, <3>5
    <2>3. CASE Terminal!TimeOut(i)
      <3>1. i \in old' BY <2>3 DEF Terminal!TimeOut
      <3>2. CASE decided' = decided \cup {<<i, "timeout">>}
        <4>1. Answered(i)' BY <3>2 DEF Answered, By
        <4> QED BY <2>3, <4>1 DEF Terminal!TimeOut
      <3>3. CASE lost' = lost \cup {<<i, "timeout">>}
        <4>1. Left(i)' BY <3>3 DEF Left, By
        <4> QED BY <2>3, <3>1, <4>1 DEF Terminal!TimeOut
      <3> QED BY <2>3, <3>2, <3>3 DEF Terminal!TimeOut, Terminal!Close
    <2>4. CASE Terminal!Ages(i)
      <3>1. waits' = [waits EXCEPT ![i] = waits[i]] /\ waits[i] \in Terminal!Ids \cup {"new", "waiting", "failed", "gone"}
        BY <1>1, <2>4 DEF Terminal!Ages, AskTyped
      <3> QED BY <3>1
    <2> QED BY <2>1, <2>2, <2>3, <2>4
  <1>3. AskTyped' BY <1>1, <1>2 DEF AskTyped, By
  <1>4. ASSUME NEW j \in Terminal!Ids PROVE (Answered(j) => Answered(j)') /\ (Left(j) => Left(j)')
    BY <1>1 DEF Answered, Left, By
  <1>5. decided \subseteq decided' BY <1>1
  <1>6. ASSUME NEW j \in Terminal!Ids PROVE WaitInv(j)'
    <2>1. CASE j = i
      <3>1. waits'[i] = w BY <1>1, <1>2 DEF AskTyped
      <3>2. CASE w = waits[i] BY <1>1, <1>4, <1>5, <2>1, <3>1, <3>2 DEF WaitInv
      <3>3. CASE w = "failed" /\ (i \notin requested \/ Answered(i)' \/ (Left(i)' /\ i \in old'))
        BY <1>1, <2>1, <3>1, <3>3 DEF WaitInv, AskIds
      <3>4. CASE w \in Terminal!Ids /\ <<i, w>> \in decided'
        BY <2>1, <3>1, <3>4 DEF WaitInv, AskIds
      <3> QED BY <1>2, <3>2, <3>3, <3>4
    <2>2. CASE j # i
      <3>1. waits'[j] = waits[j] BY <1>1, <1>2, <2>2 DEF AskTyped
      <3> QED BY <1>1, <1>4, <1>5, <3>1 DEF WaitInv
    <2> QED BY <2>1, <2>2
  <1>7. \A j \in Terminal!Ids : OnTheWay(j)'
    BY <1>1, <1>4 DEF OnTheWay, Terminal!UnderWay
  <1> QED BY <1>3, <1>6, <1>7 DEF PromptInv

(* From the subscription to the lock's queue, and from there to the screen.  *)
LEMMA ListenKeeps ==
  ASSUME AskIds, PromptInv, NEW k \in Terminal!Kinds, Terminal!Listen(k) PROVE PromptInv'
  <1>1. /\ AskTyped /\ \A j \in Terminal!Ids : WaitInv(j) /\ OnTheWay(j)
        /\ UNCHANGED <<waits, requested, decided, open, shown, lines, up, old, lost>> /\ inbox[k] # << >>
    BY DEF PromptInv, Terminal!Listen
  <1>2. PICK p, q : p = Tail(inbox[k]) /\ q = Append(queue[k], Head(inbox[k])) OBVIOUS
  <1>3. /\ p \in Seq(Terminal!Ids) /\ q \in Seq(Terminal!Ids)
        /\ Terminal!Listed(inbox[k]) \cup Terminal!Listed(queue[k])
              \subseteq Terminal!Listed(p) \cup Terminal!Listed(q)
    BY <1>1, <1>2, AppendLists, TailLists DEF AskTyped
  <1>4. inbox' = [inbox EXCEPT ![k] = p] /\ queue' = [queue EXCEPT ![k] = q]
    BY <1>2 DEF Terminal!Listen
  <1>5. AskTyped' BY <1>1, <1>3, <1>4 DEF AskTyped, By
  <1>6. \A j \in Terminal!Ids : WaitInv(j)' BY <1>1 DEF WaitInv, Answered, Left, By
  <1>7. \A l \in Terminal!Kinds :
           Terminal!Listed(inbox[l]) \cup Terminal!Listed(queue[l])
              \subseteq Terminal!Listed(inbox'[l]) \cup Terminal!Listed(queue'[l])
    BY <1>1, <1>3, <1>4 DEF AskTyped
  <1>8. ASSUME NEW j \in Terminal!Ids PROVE OnTheWay(j)'
    <2>1. PICK l \in Terminal!Kinds : l = Terminal!KindOf(j) BY KindIs
    <2> QED BY <1>1, <1>7, <2>1 DEF OnTheWay, Terminal!UnderWay, Answered, Left, By
  <1> QED BY <1>5, <1>6, <1>8 DEF PromptInv

LEMMA PromptKeeps ==
  ASSUME AskIds, PromptInv, NEW k \in Terminal!Kinds, Terminal!Prompt(k) PROVE PromptInv'
  <1>1. /\ AskTyped /\ \A j \in Terminal!Ids : WaitInv(j) /\ OnTheWay(j)
        /\ UNCHANGED <<waits, requested, decided, inbox, lines, up, old, lost>> /\ queue[k] # << >>
        /\ open[k] = Terminal!None
    BY DEF PromptInv, Terminal!Prompt
  <1>2. PICK p, h : p = Tail(queue[k]) /\ h = Head(queue[k]) OBVIOUS
  <1>3. /\ p \in Seq(Terminal!Ids) /\ h \in Terminal!Ids
        /\ Terminal!Listed(queue[k]) \subseteq Terminal!Listed(p) \cup {h}
    BY <1>1, <1>2, TailLists DEF AskTyped
  <1>4. /\ queue' = [queue EXCEPT ![k] = p] /\ open' = [open EXCEPT ![k] = h]
        /\ shown' = Append(shown, h)
    BY <1>2 DEF Terminal!Prompt
  <1>5. shown' \in Seq(Terminal!Ids) BY <1>1, <1>3, <1>4, AppendLists DEF AskTyped
  <1>6. AskTyped' BY <1>1, <1>3, <1>4, <1>5 DEF AskTyped, By
  <1>7. \A j \in Terminal!Ids : WaitInv(j)' BY <1>1 DEF WaitInv, Answered, Left, By
  <1>8. \A l \in Terminal!Kinds, j \in Terminal!Ids :
           j \in Terminal!Listed(queue[l]) \cup {open[l]}
              => j \in Terminal!Listed(queue'[l]) \cup {open'[l]}
    <2>1. \A j \in Terminal!Ids : j # Terminal!None BY DEF AskIds, Terminal!None
    <2> QED BY <1>1, <1>3, <1>4, <2>1 DEF AskTyped
  <1>9. ASSUME NEW j \in Terminal!Ids PROVE OnTheWay(j)'
    <2>1. PICK l \in Terminal!Kinds : l = Terminal!KindOf(j) BY KindIs
    <2> QED BY <1>1, <1>8, <2>1 DEF OnTheWay, Terminal!UnderWay, Answered, Left, By
  <1> QED BY <1>6, <1>7, <1>9 DEF PromptInv

LEMMA TypeKeeps ==
  ASSUME AskIds, PromptInv, NEW k \in Terminal!Kinds, Terminal!Type(k) PROVE PromptInv'
  <1>1. /\ AskTyped /\ \A j \in Terminal!Ids : WaitInv(j) /\ OnTheWay(j)
        /\ UNCHANGED <<waits, requested, decided, inbox, queue, open, up, old, lost>> /\ open[k] # Terminal!None
    BY DEF PromptInv, Terminal!Type
  <1>2. PICK h : h = Terminal!Meant(k) OBVIOUS
  <1>3. h \in Terminal!Ids
    <2>1. CASE shown = << >> BY <1>1, <1>2, <2>1 DEF Terminal!Meant, AskTyped
    <2>2. CASE shown # << >>
      <3>1. Len(shown) \in 1..Len(shown) BY <1>1, <2>2, LenProperties, EmptySeq DEF AskTyped
      <3>2. shown[Len(shown)] \in Terminal!Ids BY <1>1, <3>1, ElementOfSeq DEF AskTyped
      <3> QED BY <1>2, <2>2, <3>2 DEF Terminal!Meant
    <2> QED BY <2>1, <2>2
  <1>4. lines' = [lines EXCEPT ![k] = h] /\ shown' = Terminal!RemoveFirst(shown, h)
    BY <1>2 DEF Terminal!Type
  <1>5. shown' \in Seq(Terminal!Ids) BY <1>1, <1>4, PromptRemoved DEF AskTyped
  <1>6. AskTyped' BY <1>1, <1>3, <1>4, <1>5 DEF AskTyped, By
  <1>7. \A j \in Terminal!Ids : WaitInv(j)' /\ OnTheWay(j)'
    BY <1>1 DEF WaitInv, OnTheWay, Terminal!UnderWay, Answered, Left, By
  <1> QED BY <1>6, <1>7 DEF PromptInv

LEMMA AnswerKeeps ==
  ASSUME AskIds, PromptInv, NEW k \in Terminal!Kinds, Terminal!Answer(k) PROVE PromptInv'
  <1>1. /\ AskTyped /\ \A j \in Terminal!Ids : WaitInv(j) /\ OnTheWay(j)
        /\ UNCHANGED <<waits, requested, inbox, queue, up, old>> /\ open[k] # Terminal!None
    BY DEF PromptInv, Terminal!Answer
  <1>2. PICK i \in Terminal!Ids, by \in By :
          /\ i = open[k]
          /\ \/ decided' = decided \cup {<<i, by>>} /\ lost' = lost
             \/ lost' = lost \cup {<<i, by>>} /\ decided' = decided
    BY <1>1 DEF Terminal!Answer, Terminal!Close, AskTyped, By
  <1>3. /\ open' = [open EXCEPT ![k] = Terminal!None] /\ lines' = [lines EXCEPT ![k] = Terminal!None]
        /\ shown' = Terminal!RemoveFirst(shown, i)
    BY <1>2 DEF Terminal!Answer
  <1>4. shown' \in Seq(Terminal!Ids) BY <1>1, <1>3, PromptRemoved DEF AskTyped
  <1>5. AskTyped' BY <1>1, <1>2, <1>3, <1>4 DEF AskTyped, By
  <1>6. /\ decided \subseteq decided'
        /\ \A j \in Terminal!Ids : (Answered(j) => Answered(j)') /\ (Left(j) => Left(j)')
    BY <1>2 DEF Answered, Left, By
  <1>7. Answered(i)' \/ Left(i)' BY <1>2 DEF Answered, Left, By
  <1>8. \A j \in Terminal!Ids : WaitInv(j)' BY <1>1, <1>6 DEF WaitInv
  <1>9. ASSUME NEW j \in Terminal!Ids PROVE OnTheWay(j)'
    <2>1. CASE j = i BY <1>7, <2>1 DEF OnTheWay
    <2>2. CASE j # i
      <3>1. PICK l \in Terminal!Kinds : l = Terminal!KindOf(j) BY KindIs
      <3>2. j = open[l] => j = open'[l] BY <1>1, <1>2, <1>3, <2>2 DEF AskTyped
      <3> QED BY <1>1, <1>6, <3>1, <3>2 DEF OnTheWay, Terminal!UnderWay
    <2> QED BY <2>1, <2>2
  <1> QED BY <1>5, <1>8, <1>9 DEF PromptInv

LEMMA InitAsks == ASSUME AskIds, Terminal!Init PROVE PromptInv
  <1>1. << >> \in Seq(Terminal!Ids) OBVIOUS
  <1>2. AskTyped BY <1>1 DEF Terminal!Init, AskTyped, Terminal!Empty, Terminal!Nobody
  <1>3. \A i \in Terminal!Ids : WaitInv(i) /\ OnTheWay(i)
    BY DEF Terminal!Init, WaitInv, OnTheWay, AskIds
  <1> QED BY <1>2, <1>3 DEF PromptInv

(* Across crashes and restarts: what is open has its prompt on the way, or   *)
(* was left so by this very process, which could not store an answer to it   *)
(* or replay it; a wait ends with what the store says of its request, and    *)
(* one that failed with nothing in the store is closed by the next start     *)
(* that can.                                                                 *)
THEOREM PromptInvariant == ASSUME AskIds PROVE Terminal!Spec => []PromptInv
  <1>1. PromptInv /\ [Terminal!Next]_(Terminal!vars) => PromptInv'
    <2> SUFFICES ASSUME PromptInv, [Terminal!Next]_(Terminal!vars) PROVE PromptInv' OBVIOUS
    <2>1. CASE UNCHANGED <<up, waits, requested, decided, old, inbox, queue, open, shown, lines, lost>>
      BY <2>1 DEF PromptInv, AskTyped, WaitInv, OnTheWay, Answered, Left, By, Terminal!UnderWay
    <2>2. CASE UNCHANGED Terminal!vars \/ Terminal!CloseStdin
      BY <2>1, <2>2 DEF Terminal!vars, Terminal!CloseStdin
    <2>3. CASE Terminal!Start \/ Terminal!Crash BY <2>3, StartAsksKeeps, CrashAsksKeeps
    <2>4. ASSUME NEW i \in Terminal!Ids,
                 \/ Terminal!Request(i) \/ Terminal!PublishFails(i) \/ Terminal!Hear(i)
                 \/ Terminal!TimeOut(i) \/ Terminal!Ages(i)
          PROVE  PromptInv'
      BY <2>4, RequestKeeps, WaitEndsKeeps
    <2>5. ASSUME NEW k \in Terminal!Kinds,
                 Terminal!Listen(k) \/ Terminal!Prompt(k) \/ Terminal!Type(k) \/ Terminal!Answer(k)
          PROVE  PromptInv'
      BY <2>5, ListenKeeps, PromptKeeps, TypeKeeps, AnswerKeeps
    <2> QED BY <2>2, <2>3, <2>4, <2>5 DEF Terminal!Next
  <1> QED BY <1>1, InitAsks, PTL DEF Terminal!Spec

-----------------------------------------------------------------------------
(* Which lines a channel's prompts take.                                     *)
Apiece(s) == \A n, m \in 1..Len(s) : s[n] = s[m] => n = m

(* Each list is of its channel's own requests, the screen shows open prompts *)
(* only, each once, and a line read by a prompt was meant for it, or for one *)
(* of the other channel; so was every answer.                                *)
ScreenInv ==
    /\ \A k \in Terminal!Kinds : \A i \in Terminal!Ids :
          i \in Terminal!Listed(inbox[k]) \cup Terminal!Listed(queue[k]) \cup {open[k]} => Terminal!KindOf(i) = k
    /\ Apiece(shown) /\ \A n \in 1..Len(shown) : \E k \in Terminal!Kinds : shown[n] = open[k]
    /\ \A k \in Terminal!Kinds :
          lines[k] \in Terminal!Ids => open[k] \in Terminal!Ids
                                       /\ (lines[k] = open[k] \/ Terminal!KindOf(lines[k]) # k)
    /\ \A i \in Terminal!Ids, by \in Terminal!Ids :
          <<i, by>> \in decided => by = i \/ Terminal!KindOf(by) # Terminal!KindOf(i)

LEMMA OneIsRemoved ==
  ASSUME NEW S, NEW s \in Seq(S), NEW e, Apiece(s)
  PROVE  /\ Apiece(Terminal!RemoveFirst(s, e))
         /\ \A n \in 1..Len(Terminal!RemoveFirst(s, e)) :
               /\ Terminal!RemoveFirst(s, e)[n] # e
               /\ \E m \in 1..Len(s) : Terminal!RemoveFirst(s, e)[n] = s[m]
  <1>1. PICK n \in Nat : n = Len(s) BY LenProperties
  <1>2. ASSUME NEW j \in 1..n
        PROVE  /\ Len(Terminal!RemoveAt(s, j)) = n - 1
               /\ \A i \in 1..(n - 1) : Terminal!RemoveAt(s, j)[i] = IF i < j THEN s[i] ELSE s[i + 1]
    <2>1. PICK a, b \in Int : a = j - 1 /\ b = j + 1 OBVIOUS
    <2>2. PICK p, q : p = SubSeq(s, 1, a) /\ q = SubSeq(s, b, n) OBVIOUS
    <2>3. p \in Seq(S) /\ Len(p) = a /\ \A i \in 1..a : p[i] = s[i]
      <3>1. \A i \in 1..a : s[i] \in S BY <1>1, <2>1, ElementOfSeq
      <3>2. (IF 1 <= a THEN a - 1 + 1 ELSE 0) = a BY <2>1
      <3>3. \A i \in 1..(a - 1 + 1) : 1 + i - 1 = i /\ i \in 1..a BY <2>1
      <3>4. 1..a = 1..(a - 1 + 1) BY <2>1
      <3> QED BY <3>4, <2>1, <2>2, <3>1, <3>2, <3>3, SubSeqProperties
    <2>4. q \in Seq(S) /\ Len(q) = n - j /\ \A i \in 1..(n - j) : q[i] = s[j + i]
      <3>1. \A i \in b..n : s[i] \in S BY <1>1, <2>1, ElementOfSeq
      <3>2. (IF b <= n THEN n - b + 1 ELSE 0) = n - j BY <2>1
      <3>3. 1..(n - j) = 1..(n - b + 1) /\ \A i \in 1..(n - j) : b + i - 1 = j + i BY <2>1
      <3> QED BY <2>1, <2>2, <3>1, <3>2, <3>3, SubSeqProperties
    <2>5. Terminal!RemoveAt(s, j) = p \o q BY <1>1, <2>1, <2>2 DEF Terminal!RemoveAt
    <2>6. Len(p \o q) = n - 1
      <3>1. Len(p \o q) = Len(p) + Len(q) BY <2>3, <2>4, ConcatProperties
      <3>2. a + (n - j) = n - 1 BY <2>1
      <3> QED BY <2>3, <2>4, <3>1, <3>2
    <2>7. ASSUME NEW i \in 1..(n - 1) PROVE (p \o q)[i] = IF i < j THEN s[i] ELSE s[i + 1]
      <3>1. i \in 1..(Len(p) + Len(q)) BY <2>1, <2>3, <2>4
      <3>2. (p \o q)[i] = IF i <= Len(p) THEN p[i] ELSE q[i - Len(p)] BY <2>3, <2>4, <3>1, ConcatProperties
      <3>3. CASE i < j
        <4>1. i \in 1..a BY <2>1, <3>3
        <4> QED BY <2>3, <3>2, <3>3, <4>1
      <3>4. CASE ~(i < j)
        <4>1. PICK d \in 1..(n - j) : d = i - a BY <2>1, <3>4
        <4>2. j + d = i + 1 /\ ~(i <= a) BY <2>1, <3>4, <4>1
        <4> QED BY <2>3, <2>4, <3>2, <3>4, <4>1, <4>2
      <3> QED BY <3>3, <3>4
    <2> QED BY <2>5, <2>6, <2>7
  <1>3. CASE \E i \in 1..n : s[i] = e
    <2> DEFINE I == {i \in 1..n : s[i] = e}
    <2>1. I \in SUBSET Nat /\ I # {} BY <1>3
    <2>2. \E m \in I : \A k \in I : m <= k BY <2>1, LeastOf
    <2>3. PICK j \in 1..n : j = Terminal!Min(I) /\ s[j] = e BY <2>2 DEF Terminal!Min
    <2>4. PICK r : r = Terminal!RemoveFirst(s, e) /\ r = Terminal!RemoveAt(s, j)
      BY <1>1, <1>3, <2>1, <2>3 DEF Terminal!RemoveFirst, Terminal!SelectInSeq
    <2>5. /\ Len(r) = n - 1
          /\ \A i \in 1..(n - 1) : r[i] = IF i < j THEN s[i] ELSE s[i + 1]
      BY <1>2, <2>4
    <2>6. ASSUME NEW i \in 1..(n - 1)
          PROVE  \E k \in 1..n : r[i] = s[k] /\ k # j /\ k = IF i < j THEN i ELSE i + 1
      <3>1. CASE i < j BY <2>5, <3>1
      <3>2. CASE ~(i < j)
        <4>1. i + 1 \in 1..n /\ i + 1 # j BY <3>2
        <4> QED BY <2>5, <3>2, <4>1
      <3> QED BY <3>1, <3>2
    <2>7. ASSUME NEW i \in 1..(n - 1), NEW k \in 1..(n - 1), r[i] = r[k] PROVE i = k
      <3>1. PICK x \in 1..n : r[i] = s[x] /\ x = IF i < j THEN i ELSE i + 1 BY <2>6
      <3>2. PICK y \in 1..n : r[k] = s[y] /\ y = IF k < j THEN k ELSE k + 1 BY <2>6
      <3>3. x = y BY <1>1, <2>7, <3>1, <3>2 DEF Apiece
      <3> QED BY <3>1, <3>2, <3>3
    <2>8. \A i \in 1..(n - 1) : r[i] # e /\ \E k \in 1..n : r[i] = s[k]
      BY <1>1, <2>3, <2>6 DEF Apiece
    <2> QED BY <1>1, <2>4, <2>5, <2>7, <2>8 DEF Apiece
  <1>4. CASE ~(\E i \in 1..n : s[i] = e)
    <2>1. Terminal!RemoveFirst(s, e) = s BY <1>1, <1>4 DEF Terminal!RemoveFirst
    <2> QED BY <1>1, <1>4, <2>1
  <1> QED BY <1>3, <1>4

(* A step that leaves the screen and the answers alone, and puts requests    *)
(* only where their channel is.                                              *)
LEMMA ScreenStays ==
  ASSUME AskIds, AskTyped, ScreenInv, UNCHANGED <<open, shown, lines>>,
         \A i \in Terminal!Ids, by \in Terminal!Ids : <<i, by>> \in decided' => <<i, by>> \in decided,
         \A k \in Terminal!Kinds : \A i \in Terminal!Ids :
            i \in Terminal!Listed(inbox'[k]) \cup Terminal!Listed(queue'[k]) =>
               Terminal!KindOf(i) = k
               \/ i \in Terminal!Listed(inbox[k]) \cup Terminal!Listed(queue[k]) \cup {open[k]}
  PROVE  ScreenInv'
  BY DEF ScreenInv, Apiece

LEMMA OneMoreListed ==
  ASSUME NEW q \in Seq(Terminal!Ids), NEW e \in Terminal!Ids
  PROVE  Terminal!Listed(Append(q, e)) \subseteq Terminal!Listed(q) \cup {e}
  <1>1. PICK n \in Nat : n = Len(q) BY LenProperties
  <1>2. /\ Append(q, e) \in Seq(Terminal!Ids) /\ Len(Append(q, e)) = n + 1 /\ Append(q, e)[n + 1] = e
        /\ \A i \in 1..n : Append(q, e)[i] = q[i]
    BY <1>1, AppendProperties
  <1>3. DOMAIN q = 1..n /\ DOMAIN Append(q, e) = 1..(n + 1) BY <1>1, <1>2, LenProperties
  <1>4. \A i \in 1..(n + 1) : i \in 1..n \/ i = n + 1 BY <1>1
  <1> QED BY <1>2, <1>3, <1>4 DEF Terminal!Listed

LEMMA HeadAndTail ==
  ASSUME NEW q \in Seq(Terminal!Ids), q # << >>
  PROVE  Head(q) \in Terminal!Listed(q) /\ Terminal!Listed(Tail(q)) \subseteq Terminal!Listed(q)
  <1>1. PICK n \in Nat \ {0} : n = Len(q) BY LenProperties, EmptySeq
  <1>2. /\ Tail(q) \in Seq(Terminal!Ids) /\ Len(Tail(q)) = n - 1 /\ Head(q) = q[1]
        /\ \A i \in 1..(n - 1) : Tail(q)[i] = q[i + 1]
    BY <1>1, HeadTailProperties
  <1>3. DOMAIN q = 1..n /\ DOMAIN Tail(q) = 1..(n - 1) BY <1>1, <1>2, LenProperties
  <1>4. 1 \in 1..n /\ \A i \in 1..(n - 1) : i + 1 \in 1..n BY <1>1
  <1> QED BY <1>2, <1>3, <1>4 DEF Terminal!Listed

LEMMA ScreenStarts ==
  ASSUME AskIds, AskTyped, ScreenInv, Terminal!Start PROVE ScreenInv'
  <1>1. UNCHANGED <<queue, open, shown, lines>> BY DEF Terminal!Start
  <1>2. PICK skipped, unsealed :
          LET left == unsealed \cup {i \in Terminal!Unmet : Terminal!KindOf(i) \in skipped} IN
          /\ decided' = decided \cup {<<i, "restart">> : i \in (Terminal!Unmet \cap old) \ left}
          /\ \E a \in Terminal!Redelivered("ask"), p \in Terminal!Redelivered("approval") :
                inbox' = [k \in Terminal!Kinds |->
                            IF k \in skipped THEN << >> ELSE IF k = "ask" THEN a ELSE p]
    BY DEF Terminal!Start
  <1>3. \A i \in Terminal!Ids, by \in Terminal!Ids : <<i, by>> \in decided' => <<i, by>> \in decided
    BY <1>2 DEF AskIds
  <1>4. PICK a \in Terminal!Redelivered("ask"), p \in Terminal!Redelivered("approval") :
          inbox' = [k \in Terminal!Kinds |-> IF k \in skipped THEN << >> ELSE IF k = "ask" THEN a ELSE p]
    BY <1>2
  <1>5. \A k, q : q \in Terminal!Redelivered(k) => \A i \in Terminal!Listed(q) : Terminal!KindOf(i) = k
    BY DEF Terminal!Redelivered, Terminal!Listed
  <1>6. Terminal!Listed(<< >>) = {} BY DEF Terminal!Listed
  <1>7. ASSUME NEW k \in Terminal!Kinds, NEW i \in Terminal!Listed(inbox'[k]) PROVE Terminal!KindOf(i) = k
    BY <1>4, <1>5, <1>6, <1>7 DEF Terminal!Kinds
  <1> QED BY <1>1, <1>3, <1>7, ScreenStays

LEMMA ScreenFalls ==
  ASSUME AskIds, ScreenInv, Terminal!Crash PROVE ScreenInv'
  <1>1. /\ decided' = decided /\ inbox' = Terminal!Empty /\ queue' = Terminal!Empty
        /\ open' = Terminal!Nobody /\ shown' = << >> /\ lines' = Terminal!Nobody
    BY DEF Terminal!Crash
  <1>2. Len(shown') = 0 /\ Terminal!Listed(<< >>) = {} BY <1>1 DEF Terminal!Listed
  <1>3. \A k \in Terminal!Kinds : inbox'[k] = << >> /\ queue'[k] = << >> /\ open'[k] \notin Terminal!Ids
                                  /\ lines'[k] \notin Terminal!Ids
    BY <1>1 DEF Terminal!Empty, Terminal!Nobody, Terminal!None, AskIds
  <1> QED BY <1>1, <1>2, <1>3 DEF ScreenInv, Apiece

LEMMA ScreenAsked ==
  ASSUME AskIds, AskTyped, ScreenInv, NEW i \in Terminal!Ids,
         \/ Terminal!Request(i) \/ Terminal!PublishFails(i) \/ Terminal!Hear(i)
         \/ Terminal!TimeOut(i) \/ Terminal!Ages(i)
  PROVE  ScreenInv'
  <1>1. CASE Terminal!Request(i)
    <2>1. /\ UNCHANGED <<decided, queue, open, shown, lines>>
          /\ inbox' = IF i \in Elsewhere THEN inbox
                      ELSE [inbox EXCEPT ![Terminal!KindOf(i)] = Append(@, i)]
      BY <1>1 DEF Terminal!Request
    <2>2. PICK l \in Terminal!Kinds : l = Terminal!KindOf(i) BY KindIs
    <2>3. \A k \in Terminal!Kinds :
             inbox'[k] = inbox[k] \/ (k = l /\ inbox'[k] = Append(inbox[k], i))
      BY <2>1, <2>2 DEF AskTyped
    <2>4. Terminal!Listed(Append(inbox[l], i)) \subseteq Terminal!Listed(inbox[l]) \cup {i}
      BY OneMoreListed DEF AskTyped
    <2> QED BY <2>1, <2>2, <2>3, <2>4, ScreenStays
  <1>2. CASE Terminal!PublishFails(i) \/ Terminal!Hear(i) \/ Terminal!TimeOut(i) \/ Terminal!Ages(i)
    <2>1. /\ UNCHANGED <<inbox, queue, open, shown, lines>>
          /\ decided' = decided \/ decided' = decided \cup {<<i, "timeout">>}
      BY <1>2 DEF Terminal!PublishFails, Terminal!Hear, Terminal!TimeOut, Terminal!Ages, Terminal!Close
    <2>2. \A j \in Terminal!Ids, by \in Terminal!Ids : <<j, by>> \in decided' => <<j, by>> \in decided
      BY <2>1 DEF AskIds
    <2> QED BY <2>1, <2>2, ScreenStays
  <1> QED BY <1>1, <1>2

LEMMA ScreenListens ==
  ASSUME AskIds, AskTyped, ScreenInv, NEW l \in Terminal!Kinds, Terminal!Listen(l) PROVE ScreenInv'
  <1>1. /\ UNCHANGED <<decided, open, shown, lines>> /\ inbox[l] # << >>
        /\ inbox' = [inbox EXCEPT ![l] = Tail(@)]
        /\ queue' = [queue EXCEPT ![l] = Append(@, Head(inbox[l]))]
    BY DEF Terminal!Listen
  <1>2. PICK h \in Terminal!Ids : h = Head(inbox[l]) /\ h \in Terminal!Listed(inbox[l])
    BY <1>1, HeadAndTail, TailLists DEF AskTyped
  <1>3. /\ Terminal!Listed(Tail(inbox[l])) \subseteq Terminal!Listed(inbox[l])
        /\ Terminal!Listed(Append(queue[l], h)) \subseteq Terminal!Listed(queue[l]) \cup {h}
    BY <1>1, <1>2, HeadAndTail, OneMoreListed DEF AskTyped
  <1>4. \A k \in Terminal!Kinds :
           \/ inbox'[k] = inbox[k] /\ queue'[k] = queue[k]
           \/ k = l /\ inbox'[k] = Tail(inbox[k]) /\ queue'[k] = Append(queue[k], h)
    BY <1>1, <1>2 DEF AskTyped
  <1>5. \A k \in Terminal!Kinds : \A i \in Terminal!Ids :
           i \in Terminal!Listed(inbox'[k]) \cup Terminal!Listed(queue'[k]) =>
              i \in Terminal!Listed(inbox[k]) \cup Terminal!Listed(queue[k])
    BY <1>2, <1>3, <1>4
  <1> QED BY <1>1, <1>5, ScreenStays

(* The screen shows the other channel's prompt at most, which is of another  *)
(* kind, when a channel opens its next.                                      *)
LEMMA ScreenPrompts ==
  ASSUME AskIds, AskTyped, ScreenInv, NEW l \in Terminal!Kinds, Terminal!Prompt(l) PROVE ScreenInv'
  <1>1. /\ UNCHANGED <<decided, inbox, lines>> /\ queue[l] # << >> /\ open[l] = Terminal!None
        /\ queue' = [queue EXCEPT ![l] = Tail(@)] /\ open' = [open EXCEPT ![l] = Head(queue[l])]
        /\ shown' = Append(shown, Head(queue[l]))
    BY DEF Terminal!Prompt
  <1>2. PICK h \in Terminal!Ids : h = Head(queue[l]) /\ h \in Terminal!Listed(queue[l])
    BY <1>1, HeadAndTail, TailLists DEF AskTyped
  <1>3. Terminal!KindOf(h) = l BY <1>2 DEF ScreenInv
  <1>4. /\ open'[l] = h /\ \A k \in Terminal!Kinds : k # l => open'[k] = open[k] /\ queue'[k] = queue[k]
        /\ Terminal!Listed(queue'[l]) \subseteq Terminal!Listed(queue[l])
    BY <1>1, <1>2, HeadAndTail DEF AskTyped
  <1>5. \A k \in Terminal!Kinds : \A i \in Terminal!Ids :
           i \in Terminal!Listed(inbox'[k]) \cup Terminal!Listed(queue'[k]) \cup {open'[k]}
              => Terminal!KindOf(i) = k
    BY <1>1, <1>3, <1>4 DEF ScreenInv
  <1>6. PICK n \in Nat : n = Len(shown) BY LenProperties DEF AskTyped
  <1>7. /\ Len(shown') = n + 1 /\ shown'[n + 1] = h /\ \A i \in 1..n : shown'[i] = shown[i]
    BY <1>1, <1>2, <1>6, AppendProperties DEF AskTyped
  <1>8. ASSUME NEW i \in 1..n PROVE \E k \in Terminal!Kinds : k # l /\ shown'[i] = open[k] /\ shown'[i] # h
    <2>1. PICK k \in Terminal!Kinds : shown[i] = open[k] BY <1>6 DEF ScreenInv
    <2>2. shown[i] \in Terminal!Ids BY <1>6, ElementOfSeq DEF AskTyped
    <2>3. k # l BY <1>1, <2>1, <2>2 DEF AskIds, Terminal!None
    <2>4. Terminal!KindOf(shown[i]) = k BY <2>1, <2>2 DEF ScreenInv
    <2> QED BY <1>3, <1>7, <2>1, <2>3, <2>4
  <1>9. \A i \in 1..(n + 1) : i \in 1..n \/ i = n + 1 BY <1>6
  <1>10. Apiece(shown')
    <2>1. Apiece(shown) BY DEF ScreenInv
    <2> QED BY <1>6, <1>7, <1>8, <1>9, <2>1 DEF Apiece
  <1>11. \A i \in 1..Len(shown') : \E k \in Terminal!Kinds : shown'[i] = open'[k]
    BY <1>4, <1>7, <1>8, <1>9
  <1>12. \A k \in Terminal!Kinds :
            lines[k] \in Terminal!Ids => open'[k] \in Terminal!Ids
                                         /\ (lines[k] = open'[k] \/ Terminal!KindOf(lines[k]) # k)
    BY <1>1, <1>4 DEF ScreenInv, AskIds, Terminal!None
  <1> QED BY <1>1, <1>5, <1>10, <1>11, <1>12 DEF ScreenInv

LEMMA ScreenTyped ==
  ASSUME AskIds, AskTyped, ScreenInv, NEW l \in Terminal!Kinds, Terminal!Type(l) PROVE ScreenInv'
  <1>1. /\ UNCHANGED <<decided, inbox, queue, open>> /\ open[l] # Terminal!None
        /\ lines' = [lines EXCEPT ![l] = Terminal!Meant(l)]
        /\ shown' = Terminal!RemoveFirst(shown, Terminal!Meant(l))
    BY DEF Terminal!Type
  <1>2. open[l] \in Terminal!Ids BY <1>1 DEF AskTyped
  <1>3. PICK h : h = Terminal!Meant(l) OBVIOUS
  <1>4. h = open[l] \/ (h \in Terminal!Ids => Terminal!KindOf(h) # l)
    <2>1. CASE shown = << >> BY <1>3, <2>1 DEF Terminal!Meant
    <2>2. CASE shown # << >>
      <3>1. Len(shown) \in 1..Len(shown) BY <2>2, LenProperties, EmptySeq DEF AskTyped
      <3>2. PICK k \in Terminal!Kinds : h = open[k] BY <1>3, <2>2, <3>1 DEF Terminal!Meant, ScreenInv
      <3>3. h \in Terminal!Ids => Terminal!KindOf(h) = k BY <3>2 DEF ScreenInv
      <3> QED BY <3>2, <3>3
    <2> QED BY <2>1, <2>2
  <1>5. lines'[l] = h /\ \A k \in Terminal!Kinds : k # l => lines'[k] = lines[k] BY <1>1, <1>3 DEF AskTyped
  <1>6. \A k \in Terminal!Kinds :
           lines'[k] \in Terminal!Ids => open[k] \in Terminal!Ids
                                         /\ (lines'[k] = open[k] \/ Terminal!KindOf(lines'[k]) # k)
    BY <1>2, <1>4, <1>5 DEF ScreenInv
  <1>7. /\ Apiece(shown')
        /\ \A n \in 1..Len(shown') : \E m \in 1..Len(shown) : shown'[n] = shown[m]
    BY <1>1, OneIsRemoved DEF AskTyped, ScreenInv
  <1> QED BY <1>1, <1>6, <1>7 DEF ScreenInv

LEMMA ScreenAnswers ==
  ASSUME AskIds, AskTyped, ScreenInv, NEW l \in Terminal!Kinds, Terminal!Answer(l) PROVE ScreenInv'
  <1>1. /\ UNCHANGED <<inbox, queue>> /\ open[l] # Terminal!None
        /\ open' = [open EXCEPT ![l] = Terminal!None] /\ lines' = [lines EXCEPT ![l] = Terminal!None]
        /\ shown' = Terminal!RemoveFirst(shown, open[l])
        /\ \/ decided' = decided
           \/ decided' = decided \cup {<<open[l], IF lines[l] # Terminal!None THEN lines[l] ELSE "eof">>}
    BY DEF Terminal!Answer, Terminal!Close
  <1>2. open[l] \in Terminal!Ids BY <1>1 DEF AskTyped
  <1>3. /\ \A k \in Terminal!Kinds : k # l => open'[k] = open[k] /\ lines'[k] = lines[k]
        /\ open'[l] \notin Terminal!Ids /\ lines'[l] \notin Terminal!Ids
    BY <1>1 DEF AskTyped, AskIds, Terminal!None
  <1>4. /\ Apiece(shown')
        /\ \A n \in 1..Len(shown') : shown'[n] # open[l] /\ \E m \in 1..Len(shown) : shown'[n] = shown[m]
    BY <1>1, OneIsRemoved DEF AskTyped, ScreenInv
  <1>5. \A n \in 1..Len(shown') : \E k \in Terminal!Kinds : shown'[n] = open'[k]
    BY <1>3, <1>4 DEF ScreenInv
  <1>6. ASSUME NEW i \in Terminal!Ids, NEW by \in Terminal!Ids, <<i, by>> \in decided'
        PROVE  by = i \/ Terminal!KindOf(by) # Terminal!KindOf(i)
    <2>1. CASE <<i, by>> \in decided BY <2>1 DEF ScreenInv
    <2>2. CASE <<i, by>> \notin decided
      <3>1. i = open[l] /\ by = (IF lines[l] # Terminal!None THEN lines[l] ELSE "eof") BY <1>1, <1>6, <2>2
      <3>2. by = lines[l] BY <3>1 DEF AskIds
      <3>3. Terminal!KindOf(i) = l BY <1>2, <3>1 DEF ScreenInv
      <3> QED BY <3>1, <3>2, <3>3 DEF ScreenInv
    <2> QED BY <2>1, <2>2
  <1> QED BY <1>1, <1>3, <1>4, <1>5, <1>6 DEF ScreenInv

LEMMA ScreenBegins == ASSUME AskIds, Terminal!Init PROVE ScreenInv
  <1>1. Len(shown) = 0 /\ Terminal!Listed(<< >>) = {} BY DEF Terminal!Init, Terminal!Listed
  <1>2. \A k \in Terminal!Kinds : inbox[k] = << >> /\ queue[k] = << >> /\ open[k] \notin Terminal!Ids
                                  /\ lines[k] \notin Terminal!Ids
    BY DEF Terminal!Init, Terminal!Empty, Terminal!Nobody, Terminal!None, AskIds
  <1>3. decided = {} BY DEF Terminal!Init
  <1> QED BY <1>1, <1>2, <1>3 DEF ScreenInv, Apiece

(* A channel's lock keeps the lines of its own prompts apart.                *)
LEMMA LinesKeptApart == ASSUME AskIds PROVE Terminal!Spec => []ScreenInv
  <1>1. PromptInv /\ ScreenInv /\ [Terminal!Next]_(Terminal!vars) => ScreenInv'
    <2> SUFFICES ASSUME PromptInv, ScreenInv, [Terminal!Next]_(Terminal!vars) PROVE ScreenInv' OBVIOUS
    <2>1. AskTyped BY DEF PromptInv
    <2>2. CASE UNCHANGED Terminal!vars \/ Terminal!CloseStdin
      BY <2>2 DEF Terminal!vars, Terminal!CloseStdin, ScreenInv, Apiece, Terminal!Listed
    <2>3. CASE Terminal!Start \/ Terminal!Crash BY <2>1, <2>3, ScreenStarts, ScreenFalls
    <2>4. ASSUME NEW i \in Terminal!Ids,
                 \/ Terminal!Request(i) \/ Terminal!PublishFails(i) \/ Terminal!Hear(i)
                 \/ Terminal!TimeOut(i) \/ Terminal!Ages(i)
          PROVE  ScreenInv'
      BY <2>1, <2>4, ScreenAsked
    <2>5. ASSUME NEW k \in Terminal!Kinds,
                 Terminal!Listen(k) \/ Terminal!Prompt(k) \/ Terminal!Type(k) \/ Terminal!Answer(k)
          PROVE  ScreenInv'
      BY <2>1, <2>5, ScreenListens, ScreenPrompts, ScreenTyped, ScreenAnswers
    <2> QED BY <2>2, <2>3, <2>4, <2>5 DEF Terminal!Next
  <1> QED BY <1>1, ScreenBegins, PromptInvariant, PTL DEF Terminal!Spec

(* An open request has a prompt on its way in the process that runs; a run   *)
(* goes on with an answer in the store to its own request, and a wait that   *)
(* fails has closed it; but for what this process could not store or replay. *)
(* No answer was meant for another prompt of the same channel.               *)
THEOREM AsksAreMet == ASSUME AskIds PROVE Terminal!Spec => []Terminal!AskSound
  <1>1. PromptInv /\ ScreenInv => Terminal!AskSound
    BY UnmetIs, DroppedIs DEF PromptInv, WaitInv, OnTheWay, ScreenInv, Terminal!AskSound
  <1> QED BY <1>1, PromptInvariant, LinesKeptApart, PTL

-----------------------------------------------------------------------------
(* serve: the connectors, the router and its runs.                           *)
Serving == INSTANCE Serve

(* A connector is not a webhook's request.                                   *)
ConnectorNames == Feeders \cap Handlers = {}

Names == Wanted \cup {"none"}
CorrT == Corrs \cup {"none", "remote"} \cup (Feeders \X Nat)
EventT == [kind : {"message", "request", "succeeded", "failed"}, corr : CorrT, pipeline : Names,
           by : Feeders \cup Handlers \cup {"remote", "router"}, of : Nat]
RunT == [request : Nat, pc : {"spawned", "completed", "untold"}]
FeederT == [type : {"cron", "file_read", "stdin"}, pc : {"down", "running", "asking", "ended"},
            ticks : Nat, pipeline : Names]
HandlerT == [pc : {"idle", "message", "request"}, corr : Corrs \cup {"none"}, pipeline : Names, reply : Nat]

ServeTyped ==
    /\ log \in Seq(EventT) /\ inbox \in Seq(Nat) /\ run \in Seq(RunT)
    /\ feeder \in [Feeders -> FeederT] /\ handler \in [Handlers -> HandlerT]

(* The router's subscription holds each event once, and none it dispatched;  *)
(* a run is that of an accepted request, and the only one.                   *)
Queue ==
    /\ \A n \in 1..Len(inbox) : inbox[n] \in 1..Len(log)
    /\ \A n, m \in 1..Len(inbox) : n # m => inbox[n] # inbox[m]
RunsOf ==
    /\ \A r \in 1..Len(run) : run[r].request \in 1..Len(log) /\ Serving!Accepted(log[run[r].request])
    /\ \A r, s \in 1..Len(run) : r # s => run[r].request # run[s].request
    /\ \A r \in 1..Len(run), n \in 1..Len(inbox) : run[r].request # inbox[n]

(* A completion is that of one run, which is the one that says so.           *)
Completes(k) ==
    log[k].of # 0 =>
        /\ \E r \in 1..Len(run) : run[r].request = log[k].of /\ run[r].pc = "completed"
        /\ log[k].of < k /\ log[k].corr = log[log[k].of].corr
        /\ log[k].kind = "succeeded" => log[log[k].of].pipeline \in project.pipelines
CompletedOnce ==
    /\ \A k \in 1..Len(log) : Completes(k)
    /\ \A k, l \in 1..Len(log) : log[k].of # 0 /\ log[k].of = log[l].of => k = l
    /\ \A r \in 1..Len(run) : run[r].pc = "completed" => \E k \in 1..Len(log) : log[k].of = run[r].request

(* While the router may still hear of it, an accepted request was missed, is *)
(* in the subscription, or has its run.                                      *)
Reached ==
    phase \notin {"stopping", "stopped"} =>
        \A i \in 1..Len(log) : Serving!Accepted(log[i]) =>
            \/ \E m \in missed : m.request = i
            \/ \E n \in 1..Len(inbox) : inbox[n] = i
            \/ \E r \in 1..Len(run) : run[r].request = i

RouterInv == Queue /\ RunsOf /\ CompletedOnce /\ Reached

(* The events of one kind that b published on a correlation, up to n.        *)
Marks(l, kind, b, corr, n) == {k \in 1..n : l[k].kind = kind /\ l[k].by = b /\ l[k].corr = corr}
Owing(b, corr) ==
    \/ b \in Feeders /\ feeder[b].pc = "asking" /\ corr = <<b, feeder[b].ticks>>
    \/ b \in Handlers /\ handler[b].pc = "request" /\ corr = handler[b].corr

(* A request owed has its message, beside the messages of those published.   *)
Paid(b, corr) ==
    Cardinality(Marks(log, "request", b, corr, Len(log))) + (IF Owing(b, corr) THEN 1 ELSE 0)
        <= Cardinality(Marks(log, "message", b, corr, Len(log)))
Paired ==
    \A i \in 1..Len(log) : log[i].kind = "request" /\ log[i].by # "remote" =>
        Cardinality(Marks(log, "request", log[i].by, log[i].corr, i))
            <= Cardinality(Marks(log, "message", log[i].by, log[i].corr, i))
PairInv == Paired /\ \A b, corr : b # "remote" => Paid(b, corr)

ServeInv == ServeTyped /\ RouterInv /\ PairInv

LEMMA MarksAre ==
  ASSUME NEW l, NEW kind, NEW b, NEW corr, NEW n \in Nat
  PROVE  IsFiniteSet(Marks(l, kind, b, corr, n)) /\ Cardinality(Marks(l, kind, b, corr, n)) \in Nat
  <1>1. Marks(l, kind, b, corr, n) \in SUBSET (1..n) BY DEF Marks
  <1>2. IsFiniteSet(1..n) BY FS_Interval
  <1> QED BY <1>1, <1>2, FS_Subset, FS_CardinalityType

(* One more event is one more mark, if it is of the kind.                    *)
LEMMA OneMark ==
  ASSUME NEW l, NEW m, NEW n \in Nat, NEW e, m[n + 1] = e, \A k \in 1..n : m[k] = l[k],
         NEW kind, NEW b, NEW corr
  PROVE  /\ \A j \in 0..n : Marks(m, kind, b, corr, j) = Marks(l, kind, b, corr, j)
         /\ Cardinality(Marks(m, kind, b, corr, n + 1)) =
               Cardinality(Marks(l, kind, b, corr, n))
                 + (IF e.kind = kind /\ e.by = b /\ e.corr = corr THEN 1 ELSE 0)
  <1>1. ASSUME NEW j \in 0..n PROVE Marks(m, kind, b, corr, j) = Marks(l, kind, b, corr, j)
    <2>1. \A k \in 1..j : k \in 1..n OBVIOUS
    <2> QED BY <2>1 DEF Marks
  <1> DEFINE M == Marks(l, kind, b, corr, n)
  <1>2. M = Marks(m, kind, b, corr, n) BY <1>1
  <1>3. n + 1 \notin M BY DEF Marks
  <1>4. \A k : k \in 1..(n + 1) <=> k \in 1..n \/ k = n + 1 OBVIOUS
  <1>5. Marks(m, kind, b, corr, n + 1) =
           M \cup (IF e.kind = kind /\ e.by = b /\ e.corr = corr THEN {n + 1} ELSE {})
    BY <1>2, <1>4 DEF Marks
  <1>6. IsFiniteSet(M) /\ Cardinality(M) \in Nat BY MarksAre
  <1> HIDE DEF M
  <1>7. Cardinality(M \cup {n + 1}) = Cardinality(M) + 1 BY <1>3, <1>6, FS_AddElement
  <1>8. CASE e.kind = kind /\ e.by = b /\ e.corr = corr BY <1>1, <1>5, <1>7, <1>8 DEF M
  <1>9. CASE ~(e.kind = kind /\ e.by = b /\ e.corr = corr)
    <2>1. Marks(m, kind, b, corr, n + 1) = M BY <1>5, <1>9
    <2> QED BY <1>1, <1>6, <1>9, <2>1 DEF M
  <1> QED BY <1>8, <1>9

(* What EventBus::publish does.                                              *)
Landed(e, n) ==
    /\ log' \in Seq(EventT) /\ Len(log') = n + 1 /\ log'[n + 1] = e
    /\ \A k \in 1..n : log'[k] = log[k]
    /\ inbox' \in Seq(Nat) /\ missed \subseteq missed'
    /\ \A j \in 1..Len(inbox) : j \in 1..Len(inbox') /\ inbox'[j] = inbox[j]
    /\ \A j \in 1..Len(inbox') : \/ j \in 1..Len(inbox) /\ inbox'[j] = inbox[j]
                                 \/ j = Len(inbox) + 1 /\ inbox'[j] = n + 1
    /\ e.kind = "request" =>
          \/ \E m \in missed' : m.request = n + 1
          \/ \E j \in 1..Len(inbox') : inbox'[j] = n + 1

LEMMA EventLands ==
  ASSUME ServeTyped, NEW e \in EventT, Serving!Publish(e), NEW n \in Nat, n = Len(log)
  PROVE  Landed(e, n)
  <1>1. log' = Append(log, e) BY DEF Serving!Publish
  <1>2. /\ log' \in Seq(EventT) /\ Len(log') = n + 1 /\ log'[n + 1] = e
        /\ \A k \in 1..n : log'[k] = log[k]
    BY <1>1, AppendProperties DEF ServeTyped
  <1> DEFINE heard == Serving!Routing /\ Len(inbox) < Capacity
  <1>3. /\ inbox' = IF heard THEN Append(inbox, n + 1) ELSE inbox
        /\ heard => missed' = missed
        /\ ~heard /\ e.kind # "request" => missed' = missed
        /\ ~heard /\ e.kind = "request" => \E y : missed' = missed \cup {[request |-> n + 1, why |-> y]}
    BY DEF Serving!Publish
  <1> HIDE DEF heard
  <1>4. missed \subseteq missed' BY <1>3
  <1>5. PICK i \in Nat : i = Len(inbox) BY LenProperties DEF ServeTyped
  <1>6. CASE heard
    <2>1. /\ inbox' \in Seq(Nat) /\ Len(inbox') = i + 1 /\ inbox'[i + 1] = n + 1
          /\ \A j \in 1..i : inbox'[j] = inbox[j]
      BY <1>3, <1>5, <1>6, AppendProperties DEF ServeTyped
    <2>2. i + 1 \in 1..(i + 1) /\ \A j \in 1..(i + 1) : j \in 1..i \/ j = i + 1 BY <1>5
    <2>3. \A j \in 1..i : j \in 1..(i + 1) BY <1>5
    <2> QED BY <1>2, <1>4, <1>5, <2>1, <2>2, <2>3 DEF Landed
  <1>7. CASE ~heard
    <2>1. inbox' = inbox /\ inbox \in Seq(Nat) BY <1>3, <1>7 DEF ServeTyped
    <2>2. e.kind = "request" => \E m \in missed' : m.request = n + 1
      <3> SUFFICES ASSUME e.kind = "request" PROVE \E m \in missed' : m.request = n + 1 OBVIOUS
      <3>1. PICK y : missed' = missed \cup {[request |-> n + 1, why |-> y]} BY <1>3, <1>7
      <3>2. PICK m : m = [request |-> n + 1, why |-> y] OBVIOUS
      <3>3. m \in missed' BY <3>1, <3>2
      <3>4. m.request = n + 1 BY <3>2
      <3> QED BY <3>3, <3>4
    <2> QED BY <1>2, <1>4, <2>1, <2>2 DEF Landed
  <1> QED BY <1>6, <1>7

(* An event takes nothing from the router, whose runs stay those of their    *)
(* requests.                                                                 *)
LEMMA RouterListens ==
  ASSUME ServeTyped, Queue, RunsOf, Reached, NEW e \in EventT, Serving!Publish(e),
         UNCHANGED <<project, phase>>, Len(run') = Len(run),
         \A r \in 1..Len(run) : run'[r].request = run[r].request
  PROVE  Queue' /\ RunsOf' /\ Reached'
  <1>1. PICK n \in Nat : n = Len(log) BY LenProperties DEF ServeTyped
  <1>2. /\ Len(log') = n + 1 /\ log'[n + 1] = e /\ \A k \in 1..n : log'[k] = log[k]
        /\ missed \subseteq missed'
        /\ \A j \in 1..Len(inbox) : j \in 1..Len(inbox') /\ inbox'[j] = inbox[j]
        /\ \A j \in 1..Len(inbox') : \/ j \in 1..Len(inbox) /\ inbox'[j] = inbox[j]
                                     \/ j = Len(inbox) + 1 /\ inbox'[j] = n + 1
        /\ e.kind = "request" =>
              \/ \E m \in missed' : m.request = n + 1
              \/ \E j \in 1..Len(inbox') : inbox'[j] = n + 1
    <2>1. Landed(e, n) BY <1>1, EventLands
    <2> QED BY ONLY <2>1 DEF Landed
  <1>3. /\ \A k : k \in 1..(n + 1) <=> k \in 1..n \/ k = n + 1
        /\ n + 1 \notin 1..n
    OBVIOUS
  <1>4. Queue'
    <2>1. /\ \A j \in 1..Len(inbox) : inbox[j] \in 1..n
          /\ \A i, j \in 1..Len(inbox) : i # j => inbox[i] # inbox[j]
      BY <1>1 DEF Queue
    <2>2. \A j \in 1..Len(inbox') : inbox'[j] \in 1..(n + 1) BY <1>2, <1>3, <2>1
    <2>3. ASSUME NEW i \in 1..Len(inbox'), NEW j \in 1..Len(inbox'), i # j PROVE inbox'[i] # inbox'[j]
      <3>1. CASE i \in 1..Len(inbox) /\ inbox'[i] = inbox[i]
        <4>1. CASE j \in 1..Len(inbox) /\ inbox'[j] = inbox[j] BY <2>1, <2>3, <3>1, <4>1
        <4>2. CASE j = Len(inbox) + 1 /\ inbox'[j] = n + 1 BY <1>3, <2>1, <3>1, <4>2
        <4> QED BY <1>2, <4>1, <4>2
      <3>2. CASE i = Len(inbox) + 1 /\ inbox'[i] = n + 1
        <4>1. j \in 1..Len(inbox) /\ inbox'[j] = inbox[j] BY <1>2, <2>3, <3>2
        <4> QED BY <1>3, <2>1, <3>2, <4>1
      <3> QED BY <1>2, <3>1, <3>2
    <2> QED BY <1>2, <2>2, <2>3 DEF Queue
  <1>5. RunsOf'
    <2>1. \A r \in 1..Len(run) : run[r].request \in 1..n /\ Serving!Accepted(log[run[r].request])
      BY <1>1 DEF RunsOf
    <2>2. ASSUME NEW r \in 1..Len(run)
          PROVE  run'[r].request \in 1..(n + 1) /\ Serving!Accepted(log[run[r].request])'
      <3>1. run'[r].request = run[r].request /\ run[r].request \in 1..n BY <2>1
      <3>2. log'[run'[r].request] = log[run[r].request] BY <1>2, <3>1
      <3>3. Serving!Accepted(log[run[r].request])' BY <2>1, <3>2 DEF Serving!Accepted
      <3> QED BY <1>3, <3>1, <3>3
    <2>3. \A r \in 1..Len(run), j \in 1..Len(inbox') : run[r].request # inbox'[j]
      <3> SUFFICES ASSUME NEW r \in 1..Len(run), NEW j \in 1..Len(inbox') PROVE run[r].request # inbox'[j]
        OBVIOUS
      <3>1. CASE j \in 1..Len(inbox) /\ inbox'[j] = inbox[j] BY <3>1 DEF RunsOf
      <3>2. CASE inbox'[j] = n + 1 BY <1>3, <2>1, <3>2
      <3> QED BY <1>2, <3>1, <3>2
    <2>4. \A r, s \in 1..Len(run) : r # s => run'[r].request # run'[s].request BY DEF RunsOf
    <2>5. \A r \in 1..Len(run), j \in 1..Len(inbox') : run'[r].request # inbox'[j] BY <2>3
    <2> QED BY <1>2, <2>2, <2>4, <2>5 DEF RunsOf
  <1>6. Reached'
    <2>1. ASSUME phase \notin {"stopping", "stopped"}, NEW i \in 1..n, Serving!Accepted(log[i])
          PROVE  \/ \E m \in missed' : m.request = i
                 \/ \E j \in 1..Len(inbox') : inbox'[j] = i
                 \/ \E r \in 1..Len(run) : run'[r].request = i
      BY <1>1, <1>2, <2>1 DEF Reached
    <2>2. \A i \in 1..n : Serving!Accepted(log[i])' => Serving!Accepted(log[i])
      BY <1>2 DEF Serving!Accepted
    <2>3. Serving!Accepted(log[n + 1])' => e.kind = "request" BY <1>2 DEF Serving!Accepted
    <2> QED BY <1>2, <1>3, <2>1, <2>2, <2>3 DEF Reached
  <1> QED BY <1>4, <1>5, <1>6

(* And one that is no completion takes nothing from the completions.         *)
LEMMA RouterHears ==
  ASSUME ServeTyped, RouterInv, NEW e \in EventT, Serving!Publish(e), e.of = 0,
         UNCHANGED <<project, phase, run>>
  PROVE  RouterInv'
  <1>1. PICK n \in Nat : n = Len(log) BY LenProperties DEF ServeTyped
  <1>2. Len(log') = n + 1 /\ log'[n + 1] = e /\ \A k \in 1..n : log'[k] = log[k]
    <2>1. Landed(e, n) BY <1>1, EventLands
    <2> QED BY ONLY <2>1 DEF Landed
  <1>3. \A k : k \in 1..(n + 1) <=> k \in 1..n \/ k = n + 1 OBVIOUS
  <1>4. Queue' /\ RunsOf' /\ Reached' BY RouterListens DEF RouterInv
  <1>5. CompletedOnce'
    <2>1. ASSUME NEW k \in 1..n PROVE Completes(k)'
      <3>1. log[k].of # 0 => log[k].of \in 1..n
        BY <1>1 DEF RouterInv, CompletedOnce, Completes, RunsOf
      <3>2. Completes(k) BY <1>1 DEF RouterInv, CompletedOnce
      <3> QED BY <1>2, <3>1, <3>2 DEF Completes
    <2>2. Completes(n + 1)' BY <1>2 DEF Completes
    <2>3. \A k \in 1..(n + 1) : Completes(k)' BY <1>3, <2>1, <2>2
    <2>4. ASSUME NEW k \in 1..(n + 1), NEW l \in 1..(n + 1), log'[k].of # 0, log'[k].of = log'[l].of
          PROVE  k = l
      <3>1. k \in 1..n /\ l \in 1..n BY <1>2, <1>3, <2>4
      <3>2. log[k].of # 0 /\ log[k].of = log[l].of BY <1>2, <2>4, <3>1
      <3> QED BY <1>1, <3>1, <3>2 DEF RouterInv, CompletedOnce
    <2>5. ASSUME NEW r \in 1..Len(run), run[r].pc = "completed"
          PROVE  \E k \in 1..(n + 1) : log'[k].of = run[r].request
      <3>1. PICK k \in 1..n : log[k].of = run[r].request BY <1>1, <2>5 DEF RouterInv, CompletedOnce
      <3>2. k \in 1..(n + 1) /\ log'[k].of = run[r].request BY <1>2, <1>3, <3>1
      <3> QED BY <3>2
    <2> QED BY <1>2, <2>3, <2>4, <2>5 DEF CompletedOnce
  <1> QED BY <1>4, <1>5 DEF RouterInv

(* Nothing is published, and the router only goes on to stop.                *)
LEMMA RouterWaits ==
  ASSUME RouterInv, UNCHANGED <<project, log, inbox, run, missed>>,
         phase \in {"stopping", "stopped"} => phase' \in {"stopping", "stopped"}
  PROVE  RouterInv'
  <1>1. Queue' BY DEF RouterInv, Queue
  <1>2. RunsOf' BY DEF RouterInv, RunsOf, Serving!Accepted
  <1>3. CompletedOnce' BY DEF RouterInv, CompletedOnce, Completes
  <1>4. Reached' BY DEF RouterInv, Reached, Serving!Accepted
  <1> QED BY <1>1, <1>2, <1>3, <1>4 DEF RouterInv

(* A request that is published is paid for, and who owes one afterwards owed *)
(* it before or has just published its message.                              *)
LEMMA PairHears ==
  ASSUME ServeTyped, PairInv, NEW e \in EventT, Serving!Publish(e),
         e.kind = "request" /\ e.by # "remote" => Owing(e.by, e.corr) /\ ~Owing(e.by, e.corr)',
         \A b, corr : b # "remote" /\ Owing(b, corr)' =>
            Owing(b, corr) \/ (e.kind = "message" /\ e.by = b /\ e.corr = corr)
  PROVE  PairInv'
  <1>1. PICK n \in Nat : n = Len(log) BY LenProperties DEF ServeTyped
  <1>2. Len(log') = n + 1 /\ log'[n + 1] = e /\ \A k \in 1..n : log'[k] = log[k]
    <2>1. Landed(e, n) BY <1>1, EventLands
    <2> QED BY ONLY <2>1 DEF Landed
  <1>3. \A kind, b, corr :
           /\ \A j \in 0..n : Marks(log', kind, b, corr, j) = Marks(log, kind, b, corr, j)
           /\ Cardinality(Marks(log', kind, b, corr, n + 1)) =
                 Cardinality(Marks(log, kind, b, corr, n))
                   + (IF e.kind = kind /\ e.by = b /\ e.corr = corr THEN 1 ELSE 0)
    <2> SUFFICES ASSUME NEW kind, NEW b, NEW corr
                 PROVE  /\ \A j \in 0..n : Marks(log', kind, b, corr, j) = Marks(log, kind, b, corr, j)
                        /\ Cardinality(Marks(log', kind, b, corr, n + 1)) =
                              Cardinality(Marks(log, kind, b, corr, n))
                                + (IF e.kind = kind /\ e.by = b /\ e.corr = corr THEN 1 ELSE 0)
      OBVIOUS
    <2>1. PICK l, m : l = log /\ m = log' OBVIOUS
    <2>2. m[n + 1] = e /\ \A k \in 1..n : m[k] = l[k] BY <1>2, <2>1
    <2>3. /\ \A j \in 0..n : Marks(m, kind, b, corr, j) = Marks(l, kind, b, corr, j)
          /\ Cardinality(Marks(m, kind, b, corr, n + 1)) =
                Cardinality(Marks(l, kind, b, corr, n))
                  + (IF e.kind = kind /\ e.by = b /\ e.corr = corr THEN 1 ELSE 0)
      BY <2>2, OneMark
    <2> QED BY <2>1, <2>3
  <1>4. ASSUME NEW b, NEW corr, b # "remote" PROVE Paid(b, corr)'
    <2>1. PICK q \in Nat : q = Cardinality(Marks(log, "request", b, corr, n)) BY MarksAre
    <2>2. PICK g \in Nat : g = Cardinality(Marks(log, "message", b, corr, n)) BY MarksAre
    <2>3. q + (IF Owing(b, corr) THEN 1 ELSE 0) <= g BY <1>1, <1>4, <2>1, <2>2 DEF PairInv, Paid
    <2>4. PICK u : u = Cardinality(Marks(log', "request", b, corr, n + 1)) OBVIOUS
    <2>5. PICK v : v = Cardinality(Marks(log', "message", b, corr, n + 1)) OBVIOUS
    <2>6. /\ u = q + (IF e.kind = "request" /\ e.by = b /\ e.corr = corr THEN 1 ELSE 0)
          /\ v = g + (IF e.kind = "message" /\ e.by = b /\ e.corr = corr THEN 1 ELSE 0)
      BY <1>3, <2>1, <2>2, <2>4, <2>5
    <2>7. u + (IF Owing(b, corr)' THEN 1 ELSE 0) <= v
      <3>1. CASE e.kind = "request" /\ e.by = b /\ e.corr = corr
        <4>1. Owing(b, corr) /\ ~Owing(b, corr)' BY <1>4, <3>1
        <4>2. u = q + 1 /\ v = g BY <2>6, <3>1
        <4> QED BY <2>3, <4>1, <4>2
      <3>2. CASE e.kind = "message" /\ e.by = b /\ e.corr = corr
        <4>1. u = q /\ v = g + 1 BY <2>6, <3>2
        <4>2. q <= g BY <2>3
        <4> QED BY <4>1, <4>2
      <3>3. CASE ~(e.by = b /\ e.corr = corr) \/ e.kind \notin {"request", "message"}
        <4>1. u = q /\ v = g BY <2>6, <3>3
        <4>2. Owing(b, corr)' => Owing(b, corr) BY <1>4, <3>3
        <4> QED BY <2>3, <4>1, <4>2
      <3> QED BY <3>1, <3>2, <3>3
    <2> QED BY <1>2, <2>4, <2>5, <2>7 DEF Paid
  <1>5. Paired'
    <2> SUFFICES ASSUME NEW i \in 1..(n + 1), log'[i].kind = "request", log'[i].by # "remote"
                 PROVE  Cardinality(Marks(log', "request", log'[i].by, log'[i].corr, i))
                           <= Cardinality(Marks(log', "message", log'[i].by, log'[i].corr, i))
      BY <1>2 DEF Paired
    <2>1. CASE i \in 1..n
      <3>1. i \in 0..n /\ log'[i] = log[i] BY <1>2, <2>1
      <3>2. Cardinality(Marks(log, "request", log[i].by, log[i].corr, i))
               <= Cardinality(Marks(log, "message", log[i].by, log[i].corr, i))
        BY <1>1, <2>1, <3>1 DEF PairInv, Paired
      <3> QED BY <1>3, <3>1, <3>2
    <2>2. CASE i = n + 1
      <3>1. PICK b, corr : b = e.by /\ corr = e.corr OBVIOUS
      <3>2. log'[i] = e /\ b # "remote" BY <1>2, <2>2, <3>1
      <3>3. Paid(b, corr)' /\ ~Owing(b, corr)' BY <1>2, <1>4, <2>2, <3>1, <3>2
      <3>4. PICK u, v \in Nat : /\ u = Cardinality(Marks(log', "request", b, corr, n + 1))
                                /\ v = Cardinality(Marks(log', "message", b, corr, n + 1))
        BY MarksAre
      <3>5. u + 0 <= v BY <1>2, <3>3, <3>4 DEF Paid
      <3> QED BY <2>2, <3>1, <3>2, <3>4, <3>5
    <2> QED BY <2>1, <2>2
  <1> QED BY <1>4, <1>5 DEF PairInv

LEMMA PairWaits ==
  ASSUME ServeTyped, PairInv, UNCHANGED log,
         \A b, corr : b # "remote" /\ Owing(b, corr)' => Owing(b, corr)
  PROVE  PairInv'
  <1>1. ASSUME NEW b, NEW corr, b # "remote" PROVE Paid(b, corr)'
    <2>1. PICK n \in Nat : n = Len(log) BY LenProperties DEF ServeTyped
    <2>2. PICK q \in Nat : q = Cardinality(Marks(log, "request", b, corr, n)) BY MarksAre
    <2>3. PICK g \in Nat : g = Cardinality(Marks(log, "message", b, corr, n)) BY MarksAre
    <2>4. q + (IF Owing(b, corr) THEN 1 ELSE 0) <= g BY <1>1, <2>1, <2>2, <2>3 DEF PairInv, Paid
    <2>5. q + (IF Owing(b, corr)' THEN 1 ELSE 0) <= g BY <1>1, <2>4
    <2>6. log' = log BY log' = log
    <2> QED BY <2>1, <2>2, <2>3, <2>5, <2>6 DEF Paid
  <1>2. Paired' BY DEF PairInv, Paired
  <1> QED BY <1>1, <1>2 DEF PairInv

LEMMA EventIs ==
  ASSUME NEW kind \in {"message", "request", "succeeded", "failed"}, NEW corr \in CorrT,
         NEW p \in Names, NEW b \in Feeders \cup Handlers \cup {"remote", "router"}
  PROVE  LET e == Serving!Event(kind, corr, p, b) IN
         e \in EventT /\ e.kind = kind /\ e.corr = corr /\ e.by = b /\ e.of = 0
  BY DEF Serving!Event, EventT

(* A feeder goes on to x: it publishes a message, its request, or nothing.   *)
LEMMA FeederSteps ==
  ASSUME ConnectorNames, ServeInv, NEW c \in Feeders, NEW x \in FeederT, feeder' = [feeder EXCEPT ![c] = x],
         UNCHANGED <<project, phase, handler, run>>,
         \/ /\ UNCHANGED <<log, inbox, missed>> /\ x.pc # "asking"
         \/ \E p \in Names : /\ Serving!Publish(Serving!Event("message", <<c, feeder[c].ticks>>, p, c))
                             /\ x.pc = "asking" => x.ticks = feeder[c].ticks
         \/ \E p \in Names : /\ Serving!Publish(Serving!Event("request", <<c, feeder[c].ticks>>, p, c))
                             /\ feeder[c].pc = "asking" /\ x.pc # "asking"
  PROVE  ServeInv'
  <1>1. ServeTyped /\ RouterInv /\ PairInv BY DEF ServeInv
  <1>2. PICK t \in Nat : t = feeder[c].ticks BY <1>1 DEF ServeTyped, FeederT
  <1>3. /\ feeder' \in [Feeders -> FeederT] /\ feeder'[c] = x
        /\ \A d \in Feeders : d # c => feeder'[d] = feeder[d]
    BY <1>1 DEF ServeTyped
  <1>4. \A b, corr : Owing(b, corr)' => Owing(b, corr) \/ (b = c /\ x.pc = "asking" /\ corr = <<c, x.ticks>>)
    BY <1>3 DEF Owing
  <1>5. <<c, t>> \in CorrT /\ c \in Feeders \cup Handlers \cup {"remote", "router"} BY DEF CorrT
  <1>6. CASE UNCHANGED <<log, inbox, missed>> /\ x.pc # "asking"
    <2>1. ServeTyped' BY <1>1, <1>3, <1>6 DEF ServeTyped
    <2>2. RouterInv' BY <1>1, <1>6, RouterWaits
    <2>3. PairInv' BY <1>1, <1>4, <1>6, PairWaits
    <2> QED BY <2>1, <2>2, <2>3 DEF ServeInv
  <1>7. ASSUME NEW p \in Names, Serving!Publish(Serving!Event("message", <<c, t>>, p, c)),
               x.pc = "asking" => x.ticks = t
        PROVE  ServeInv'
    <2>1. PICK e : e = Serving!Event("message", <<c, t>>, p, c) OBVIOUS
    <2>2. e \in EventT /\ e.kind = "message" /\ e.corr = <<c, t>> /\ e.by = c /\ e.of = 0
      BY <1>5, <2>1, EventIs
    <2>3. Serving!Publish(e) BY <1>7, <2>1
    <2>4. log' \in Seq(EventT) /\ inbox' \in Seq(Nat)
      <3>1. PICK n \in Nat : n = Len(log) BY <1>1, LenProperties DEF ServeTyped
      <3>2. Landed(e, n) BY <1>1, <2>2, <2>3, <3>1, EventLands
      <3> QED BY ONLY <3>2 DEF Landed
    <2>5. ServeTyped' BY <1>1, <1>3, <2>4 DEF ServeTyped
    <2>6. RouterInv' BY <1>1, <2>2, <2>3, RouterHears
    <2>7. PairInv' BY <1>1, <1>4, <1>7, <2>2, <2>3, PairHears
    <2> QED BY <2>5, <2>6, <2>7 DEF ServeInv
  <1>8. ASSUME NEW p \in Names, Serving!Publish(Serving!Event("request", <<c, t>>, p, c)),
               feeder[c].pc = "asking", x.pc # "asking"
        PROVE  ServeInv'
    <2>1. PICK e : e = Serving!Event("request", <<c, t>>, p, c) OBVIOUS
    <2>2. e \in EventT /\ e.kind = "request" /\ e.corr = <<c, t>> /\ e.by = c /\ e.of = 0
      BY <1>5, <2>1, EventIs
    <2>3. Serving!Publish(e) BY <1>8, <2>1
    <2>4. log' \in Seq(EventT) /\ inbox' \in Seq(Nat)
      <3>1. PICK n \in Nat : n = Len(log) BY <1>1, LenProperties DEF ServeTyped
      <3>2. Landed(e, n) BY <1>1, <2>2, <2>3, <3>1, EventLands
      <3> QED BY ONLY <3>2 DEF Landed
    <2>5. ServeTyped' BY <1>1, <1>3, <2>4 DEF ServeTyped
    <2>6. RouterInv' BY <1>1, <2>2, <2>3, RouterHears
    <2>7. Owing(e.by, e.corr) BY <1>2, <1>8, <2>2 DEF Owing
    <2>8. ~Owing(e.by, e.corr)' BY <1>3, <1>8, <2>2 DEF Owing, ConnectorNames
    <2>9. PairInv' BY <1>1, <1>4, <1>8, <2>2, <2>3, <2>7, <2>8, PairHears
    <2> QED BY <2>5, <2>6, <2>9 DEF ServeInv
  <1> QED BY <1>2, <1>6, <1>7, <1>8

LEMMA HandlerSteps ==
  ASSUME ConnectorNames, ServeInv, NEW h \in Handlers, NEW x \in HandlerT,
         handler' = [handler EXCEPT ![h] = x], UNCHANGED <<project, phase, feeder, run>>,
         \/ UNCHANGED <<log, inbox, missed>> /\ x.pc # "request"
         \/ \E p \in Names : /\ Serving!Publish(Serving!Event("message", handler[h].corr, p, h))
                             /\ x.pc = "request" => x.corr = handler[h].corr
         \/ \E p \in Names : /\ Serving!Publish(Serving!Event("request", handler[h].corr, p, h))
                             /\ handler[h].pc = "request" /\ x.pc # "request"
  PROVE  ServeInv'
  <1>1. ServeTyped /\ RouterInv /\ PairInv BY DEF ServeInv
  <1>2. PICK t \in Corrs \cup {"none"} : t = handler[h].corr BY <1>1 DEF ServeTyped, HandlerT
  <1>3. /\ handler' \in [Handlers -> HandlerT] /\ handler'[h] = x
        /\ \A d \in Handlers : d # h => handler'[d] = handler[d]
    BY <1>1 DEF ServeTyped
  <1>4. \A b, corr : Owing(b, corr)' => Owing(b, corr) \/ (b = h /\ x.pc = "request" /\ corr = x.corr)
    BY <1>3 DEF Owing
  <1>5. t \in CorrT /\ h \in Feeders \cup Handlers \cup {"remote", "router"} BY DEF CorrT
  <1>6. CASE UNCHANGED <<log, inbox, missed>> /\ x.pc # "request"
    <2>1. ServeTyped' BY <1>1, <1>3, <1>6 DEF ServeTyped
    <2>2. RouterInv' BY <1>1, <1>6, RouterWaits
    <2>3. PairInv' BY <1>1, <1>4, <1>6, PairWaits
    <2> QED BY <2>1, <2>2, <2>3 DEF ServeInv
  <1>7. ASSUME NEW p \in Names, Serving!Publish(Serving!Event("message", t, p, h)),
               x.pc = "request" => x.corr = t
        PROVE  ServeInv'
    <2>1. PICK e : e = Serving!Event("message", t, p, h) OBVIOUS
    <2>2. e \in EventT /\ e.kind = "message" /\ e.corr = t /\ e.by = h /\ e.of = 0
      BY <1>5, <2>1, EventIs
    <2>3. Serving!Publish(e) BY <1>7, <2>1
    <2>4. log' \in Seq(EventT) /\ inbox' \in Seq(Nat)
      <3>1. PICK n \in Nat : n = Len(log) BY <1>1, LenProperties DEF ServeTyped
      <3>2. Landed(e, n) BY <1>1, <2>2, <2>3, <3>1, EventLands
      <3> QED BY ONLY <3>2 DEF Landed
    <2>5. ServeTyped' BY <1>1, <1>3, <2>4 DEF ServeTyped
    <2>6. RouterInv' BY <1>1, <2>2, <2>3, RouterHears
    <2>7. PairInv' BY <1>1, <1>4, <1>7, <2>2, <2>3, PairHears
    <2> QED BY <2>5, <2>6, <2>7 DEF ServeInv
  <1>8. ASSUME NEW p \in Names, Serving!Publish(Serving!Event("request", t, p, h)),
               handler[h].pc = "request", x.pc # "request"
        PROVE  ServeInv'
    <2>1. PICK e : e = Serving!Event("request", t, p, h) OBVIOUS
    <2>2. e \in EventT /\ e.kind = "request" /\ e.corr = t /\ e.by = h /\ e.of = 0
      BY <1>5, <2>1, EventIs
    <2>3. Serving!Publish(e) BY <1>8, <2>1
    <2>4. log' \in Seq(EventT) /\ inbox' \in Seq(Nat)
      <3>1. PICK n \in Nat : n = Len(log) BY <1>1, LenProperties DEF ServeTyped
      <3>2. Landed(e, n) BY <1>1, <2>2, <2>3, <3>1, EventLands
      <3> QED BY ONLY <3>2 DEF Landed
    <2>5. ServeTyped' BY <1>1, <1>3, <2>4 DEF ServeTyped
    <2>6. RouterInv' BY <1>1, <2>2, <2>3, RouterHears
    <2>7. Owing(e.by, e.corr) BY <1>2, <1>8, <2>2 DEF Owing
    <2>8. ~Owing(e.by, e.corr)' BY <1>3, <1>8, <2>2 DEF Owing, ConnectorNames
    <2>9. PairInv' BY <1>1, <1>4, <1>8, <2>2, <2>3, <2>7, <2>8, PairHears
    <2> QED BY <2>5, <2>6, <2>9 DEF ServeInv
  <1> QED BY <1>2, <1>6, <1>7, <1>8

(* What a connector, or a webhook's request, becomes.                        *)
Fed(y, x, g, p, t) == y = [x EXCEPT !.pc = g, !.pipeline = p, !.ticks = t]
Hooked(y, x, g, code) == y = [x EXCEPT !.pc = g, !.reply = code]
Fresh(y, code) == y = [Serving!Idle EXCEPT !.reply = code]

LEMMA FeederGoes ==
  ASSUME NEW x \in FeederT, NEW g \in {"down", "running", "asking", "ended"},
         NEW p \in Names, NEW t \in Nat, NEW y, Fed(y, x, g, p, t)
  PROVE  y \in FeederT /\ y.pc = g /\ y.ticks = t
  BY DEF Fed, FeederT

LEMMA HandlerGoes ==
  ASSUME NEW x \in HandlerT, NEW g \in {"idle", "message", "request"}, NEW code \in Nat,
         NEW y, Hooked(y, x, g, code)
  PROVE  y \in HandlerT /\ y.pc = g /\ y.corr = x.corr
  BY DEF Hooked, HandlerT

LEMMA HandlerRests ==
  ASSUME NEW code \in Nat, NEW y, Fresh(y, code) PROVE y \in HandlerT /\ y.pc = "idle"
  BY DEF Fresh, Serving!Idle, HandlerT, Names

LEMMA FeederKeeps ==
  ASSUME ConnectorNames, ServeInv, NEW c \in Feeders,
         Serving!Emit(c) \/ Serving!EmitRequest(c) \/ Serving!FeedEnds(c)
  PROVE  ServeInv'
  <1>1. ServeTyped /\ feeder \in [Feeders -> FeederT] /\ feeder[c] \in FeederT BY DEF ServeInv, ServeTyped
  <1>2. PICK t \in Nat, o \in Names : t = feeder[c].ticks /\ o = feeder[c].pipeline BY <1>1 DEF FeederT
  <1>3. PICK u \in Nat : u = t + 1 OBVIOUS
  <1>4. CASE Serving!Emit(c)
    <2>1. PICK p \in Names :
            /\ feeder[c].pc = "running" /\ UNCHANGED <<project, phase, handler, run>>
            /\ \/ /\ Serving!Publish(Serving!Event("message", <<c, feeder[c].ticks>>, p, c))
                  /\ feeder' = [feeder EXCEPT ![c].pc = IF p = "none" THEN "running" ELSE "asking",
                                              ![c].pipeline = p,
                                              ![c].ticks = IF p = "none" THEN @ + 1 ELSE @]
               \/ /\ UNCHANGED <<log, inbox, missed>>
                  /\ feeder' = [feeder EXCEPT ![c].ticks = @ + 1]
      BY <1>4 DEF Serving!Emit, Serving!PublishFails, Names
    <2>2. CASE /\ Serving!Publish(Serving!Event("message", <<c, feeder[c].ticks>>, p, c))
               /\ feeder' = [feeder EXCEPT ![c].pc = IF p = "none" THEN "running" ELSE "asking",
                                           ![c].pipeline = p,
                                           ![c].ticks = IF p = "none" THEN @ + 1 ELSE @]
      <3>1. PICK g \in {"running", "asking"}, v \in Nat :
              /\ g = (IF p = "none" THEN "running" ELSE "asking")
              /\ v = (IF p = "none" THEN feeder[c].ticks + 1 ELSE feeder[c].ticks)
        BY <1>2, <1>3
      <3>2. PICK x : Fed(x, feeder[c], g, p, v) BY DEF Fed
      <3>3. x \in FeederT /\ x.pc = g /\ x.ticks = v BY <1>1, <3>2, FeederGoes
      <3>4. feeder' = [feeder EXCEPT ![c] = x] BY <1>1, <2>2, <3>1, <3>2 DEF Fed
      <3>5. g = "asking" => v = feeder[c].ticks BY <3>1
      <3> QED BY <2>1, <2>2, <3>3, <3>4, <3>5, FeederSteps
    <2>3. CASE UNCHANGED <<log, inbox, missed>> /\ feeder' = [feeder EXCEPT ![c].ticks = @ + 1]
      <3>1. PICK x : Fed(x, feeder[c], "running", o, u) BY DEF Fed
      <3>2. x \in FeederT /\ x.pc = "running" BY <1>1, <3>1, FeederGoes
      <3>3. x = [feeder[c] EXCEPT !.ticks = @ + 1] BY <1>1, <1>2, <1>3, <2>1, <3>1 DEF FeederT, Fed
      <3>4. feeder' = [feeder EXCEPT ![c] = x] BY <1>1, <2>3, <3>3
      <3> QED BY <2>1, <2>3, <3>2, <3>4, FeederSteps
    <2> QED BY <2>1, <2>2, <2>3
  <1>5. CASE Serving!EmitRequest(c)
    <2>1. /\ feeder[c].pc = "asking" /\ UNCHANGED <<project, phase, handler, run>>
          /\ \/ Serving!Publish(Serving!Event("request", <<c, feeder[c].ticks>>, o, c))
             \/ UNCHANGED <<log, inbox, missed>>
          /\ feeder' = [feeder EXCEPT ![c].pc = "running", ![c].ticks = @ + 1]
      BY <1>2, <1>5 DEF Serving!EmitRequest, Serving!PublishFails
    <2>2. PICK x : Fed(x, feeder[c], "running", o, u) BY DEF Fed
    <2>3. x \in FeederT /\ x.pc = "running" BY <1>1, <2>2, FeederGoes
    <2>4. x = [feeder[c] EXCEPT !.pc = "running", !.ticks = @ + 1] BY <1>1, <1>2, <1>3, <2>2 DEF FeederT, Fed
    <2>5. feeder' = [feeder EXCEPT ![c] = x] BY <1>1, <2>1, <2>4
    <2> QED BY <2>1, <2>3, <2>5, FeederSteps
  <1>6. CASE Serving!FeedEnds(c)
    <2>1. UNCHANGED <<project, phase, handler, log, inbox, run, missed>>
          /\ feeder' = [feeder EXCEPT ![c].pc = "ended"]
      BY <1>6 DEF Serving!FeedEnds
    <2>2. PICK x : x = [feeder[c] EXCEPT !.pc = "ended"] OBVIOUS
    <2>3. x \in FeederT /\ x.pc = "ended" BY <1>1, <2>2 DEF FeederT
    <2>4. feeder' = [feeder EXCEPT ![c] = x] BY <1>1, <2>1, <2>2
    <2> QED BY <2>1, <2>3, <2>4, FeederSteps
  <1> QED BY <1>4, <1>5, <1>6

LEMMA HandlerKeeps ==
  ASSUME ConnectorNames, ServeInv, NEW h \in Handlers,
         \/ Serving!Refuse(h) \/ Serving!Accept(h) \/ Serving!HookMessage(h) \/ Serving!HookRequest(h)
  PROVE  ServeInv'
  <1>1. ServeTyped /\ handler \in [Handlers -> HandlerT] /\ handler[h] \in HandlerT
    BY DEF ServeInv, ServeTyped
  <1>2. PICK o \in Names : o = handler[h].pipeline BY <1>1 DEF HandlerT
  <1>5. CASE Serving!Refuse(h)
    <2>1. PICK code \in Nat : \E x : Fresh(x, code) /\ handler' = [handler EXCEPT ![h] = x]
      <3>1. 400 \in Nat /\ 401 \in Nat OBVIOUS
      <3>2. PICK x : Fresh(x, 400) BY DEF Fresh
      <3>3. PICK y : Fresh(y, 401) BY DEF Fresh
      <3>4. \/ handler' = [handler EXCEPT ![h] = [Serving!Idle EXCEPT !.reply = 400]]
            \/ handler' = [handler EXCEPT ![h] = [Serving!Idle EXCEPT !.reply = 401]]
        BY <1>5 DEF Serving!Refuse
      <3>5. handler' = [handler EXCEPT ![h] = x] \/ handler' = [handler EXCEPT ![h] = y]
        BY <3>2, <3>3, <3>4 DEF Fresh
      <3> QED BY <3>1, <3>2, <3>3, <3>5
    <2>2. UNCHANGED <<project, phase, feeder, run>> /\ UNCHANGED <<log, inbox, missed>>
      BY <1>5 DEF Serving!Refuse
    <2>3. PICK x : Fresh(x, code) /\ handler' = [handler EXCEPT ![h] = x] BY <2>1 DEF Fresh
    <2>4. x \in HandlerT /\ x.pc = "idle" BY <2>3, HandlerRests
    <2> QED BY <2>2, <2>3, <2>4, HandlerSteps
  <1>6. CASE Serving!Accept(h)
    <2>1. PICK corr \in Corrs, p \in Names :
            /\ handler' = [handler EXCEPT ![h] = [pc |-> "message", corr |-> corr, pipeline |-> p, reply |-> 0]]
            /\ UNCHANGED <<project, phase, feeder, log, inbox, run, missed>>
      BY <1>6 DEF Serving!Accept, Names
    <2>2. PICK x : x = [pc |-> "message", corr |-> corr, pipeline |-> p, reply |-> 0] OBVIOUS
    <2>3. x \in HandlerT /\ x.pc = "message" BY <2>2 DEF HandlerT
    <2> QED BY <2>1, <2>2, <2>3, HandlerSteps
  <1>7. CASE Serving!HookMessage(h)
    <2>1. /\ UNCHANGED <<project, phase, feeder, run>>
          /\ \/ /\ Serving!Publish(Serving!Event("message", handler[h].corr, o, h))
                /\ handler' = [handler EXCEPT ![h].pc = IF o = "none" THEN "idle" ELSE "request",
                                              ![h].reply = IF o = "none" THEN 200 ELSE 0]
             \/ /\ UNCHANGED <<log, inbox, missed>>
                /\ handler' = [handler EXCEPT ![h] = [Serving!Idle EXCEPT !.reply = 500]]
      BY <1>2, <1>7 DEF Serving!HookMessage, Serving!PublishFails
    <2>2. CASE /\ Serving!Publish(Serving!Event("message", handler[h].corr, o, h))
               /\ handler' = [handler EXCEPT ![h].pc = IF o = "none" THEN "idle" ELSE "request",
                                             ![h].reply = IF o = "none" THEN 200 ELSE 0]
      <3>1. PICK g \in {"idle", "request"}, code \in Nat :
              /\ g = (IF o = "none" THEN "idle" ELSE "request")
              /\ code = (IF o = "none" THEN 200 ELSE 0)
        OBVIOUS
      <3>2. PICK x : Hooked(x, handler[h], g, code) BY DEF Hooked
      <3>3. x \in HandlerT /\ x.corr = handler[h].corr BY <1>1, <3>2, HandlerGoes
      <3>4. handler' = [handler EXCEPT ![h] = x] BY <1>1, <2>2, <3>1, <3>2 DEF Hooked
      <3>5. \E p \in Names : /\ Serving!Publish(Serving!Event("message", handler[h].corr, p, h))
                             /\ x.pc = "request" => x.corr = handler[h].corr
        BY <2>2, <3>3
      <3>6. UNCHANGED <<project, phase, feeder, run>> BY <2>1
      <3> QED BY <3>3, <3>4, <3>5, <3>6, HandlerSteps
    <2>3. CASE /\ UNCHANGED <<log, inbox, missed>>
               /\ handler' = [handler EXCEPT ![h] = [Serving!Idle EXCEPT !.reply = 500]]
      <3>1. PICK x : Fresh(x, 500) BY DEF Fresh
      <3>2. x \in HandlerT /\ x.pc = "idle" BY <3>1, HandlerRests
      <3>3. handler' = [handler EXCEPT ![h] = x] BY <2>3, <3>1 DEF Fresh
      <3>4. UNCHANGED <<project, phase, feeder, run>> BY <2>1
      <3>5. UNCHANGED <<log, inbox, missed>> /\ x.pc # "request" BY <2>3, <3>2
      <3> QED BY <3>2, <3>3, <3>4, <3>5, HandlerSteps
    <2> QED BY <2>1, <2>2, <2>3
  <1>8. CASE Serving!HookRequest(h)
    <2>1. /\ handler[h].pc = "request" /\ UNCHANGED <<project, phase, feeder, run>>
          /\ \/ Serving!Publish(Serving!Event("request", handler[h].corr, o, h))
             \/ UNCHANGED <<log, inbox, missed>>
          /\ handler' = [handler EXCEPT ![h].pc = "idle", ![h].reply = 200]
      BY <1>2, <1>8 DEF Serving!HookRequest, Serving!PublishFails
    <2>2. PICK x : Hooked(x, handler[h], "idle", 200) BY DEF Hooked
    <2>3. x \in HandlerT /\ x.pc = "idle" BY <1>1, <2>2, HandlerGoes
    <2>4. handler' = [handler EXCEPT ![h] = x] BY <1>1, <2>1, <2>2 DEF Hooked
    <2> QED BY <2>1, <2>3, <2>4, HandlerSteps
  <1> QED BY <1>5, <1>6, <1>7, <1>8

LEMMA RemoteKeeps == ASSUME ServeInv, Serving!Remote PROVE ServeInv'
  <1>1. ServeTyped /\ RouterInv /\ PairInv BY DEF ServeInv
  <1>2. PICK p \in Names : /\ Serving!Publish(Serving!Event("request", "remote", p, "remote"))
                           /\ UNCHANGED <<project, phase, feeder, handler, run>>
    BY DEF Serving!Remote, Names
  <1>3. PICK e : e = Serving!Event("request", "remote", p, "remote") OBVIOUS
  <1>4. e \in EventT /\ e.by = "remote" /\ e.of = 0
    <2>1. "remote" \in CorrT BY DEF CorrT
    <2> QED BY <1>3, <2>1, EventIs
  <1>5. Serving!Publish(e) BY <1>2, <1>3
  <1>6. log' \in Seq(EventT) /\ inbox' \in Seq(Nat)
    <2>1. PICK n \in Nat : n = Len(log) BY <1>1, LenProperties DEF ServeTyped
    <2>2. Landed(e, n) BY <1>1, <1>4, <1>5, <2>1, EventLands
    <2> QED BY ONLY <2>2 DEF Landed
  <1>7. ServeTyped' BY <1>1, <1>2, <1>6 DEF ServeTyped
  <1>8. RouterInv' BY <1>1, <1>2, <1>4, <1>5, RouterHears
  <1>9. \A b, corr : Owing(b, corr)' => Owing(b, corr) BY <1>2 DEF Owing
  <1>10. PairInv' BY <1>1, <1>4, <1>5, <1>9, PairHears
  <1> QED BY <1>7, <1>8, <1>10 DEF ServeInv

LEMMA DispatchKeeps == ASSUME ServeInv, Serving!Dispatch PROVE ServeInv'
  <1>1. /\ ServeTyped /\ RouterInv /\ PairInv /\ inbox # << >> /\ inbox' = Tail(inbox)
        /\ UNCHANGED <<project, phase, feeder, handler, log, missed>>
    BY DEF ServeInv, Serving!Dispatch
  <1>2. PICK n \in Nat \ {0} : n = Len(inbox) BY <1>1, LenProperties, EmptySeq DEF ServeTyped
  <1>3. /\ inbox' \in Seq(Nat) /\ Len(inbox') = n - 1 /\ Head(inbox) = inbox[1]
        /\ \A j \in 1..(n - 1) : inbox'[j] = inbox[j + 1]
    BY <1>1, <1>2, HeadTailProperties DEF ServeTyped
  <1>4. 1 \in 1..n /\ \A j \in 1..(n - 1) : j + 1 \in 1..n /\ j + 1 # 1 OBVIOUS
  <1>5. \A j \in 1..n : j = 1 \/ \E k \in 1..(n - 1) : j = k + 1
    <2> SUFFICES ASSUME NEW j \in 1..n, j # 1 PROVE \E k \in 1..(n - 1) : j = k + 1 OBVIOUS
    <2>1. j - 1 \in 1..(n - 1) /\ j = (j - 1) + 1 OBVIOUS
    <2> QED BY <2>1
  <1>6. PICK i \in 1..Len(log) : i = inbox[1] BY <1>1, <1>2, <1>4 DEF RouterInv, Queue
  <1>7. Len(log) \in Nat /\ i \in Nat BY <1>1, LenProperties DEF ServeTyped
  <1>8. Queue'
    <2>1. \A j \in 1..n, k \in 1..n : j # k => inbox[j] # inbox[k] BY <1>1, <1>2 DEF RouterInv, Queue
    <2>2. \A j \in 1..(n - 1), k \in 1..(n - 1) : j # k => inbox'[j] # inbox'[k]
      <3> SUFFICES ASSUME NEW j \in 1..(n - 1), NEW k \in 1..(n - 1), j # k PROVE inbox'[j] # inbox'[k]
        OBVIOUS
      <3>1. j + 1 # k + 1 /\ j + 1 \in 1..n /\ k + 1 \in 1..n OBVIOUS
      <3> QED BY <1>3, <2>1, <3>1
    <2>3. \A j \in 1..(n - 1) : inbox'[j] \in 1..Len(log)
      BY <1>1, <1>2, <1>3, <1>4 DEF RouterInv, Queue
    <2> QED BY <1>1, <1>3, <2>2, <2>3 DEF Queue
  <1>9. CASE Serving!Accepted(log[i])
    <2>1. PICK m \in Nat : m = Len(run) BY <1>1, LenProperties DEF ServeTyped
    <2>2. PICK y \in RunT : y = [request |-> i, pc |-> "spawned"] BY <1>7 DEF RunT
    <2>3. run' = Append(run, y) BY <1>3, <1>6, <1>9, <2>2 DEF Serving!Dispatch
    <2>4. /\ run' \in Seq(RunT) /\ Len(run') = m + 1 /\ run'[m + 1] = y
          /\ \A r \in 1..m : run'[r] = run[r]
      BY <1>1, <2>1, <2>3, AppendProperties DEF ServeTyped
    <2>5. \A r : r \in 1..(m + 1) <=> r \in 1..m \/ r = m + 1 BY <2>1
    <2>6. y.request = i /\ y.pc = "spawned" BY <2>2
    <2>7. /\ \A r \in 1..m : run[r].request \in 1..Len(log) /\ Serving!Accepted(log[run[r].request])
          /\ \A r, s \in 1..m : r # s => run[r].request # run[s].request
          /\ \A r \in 1..m, j \in 1..n : run[r].request # inbox[j]
      BY <1>1, <1>2, <2>1 DEF RouterInv, RunsOf
    <2>8. RunsOf'
      <3>1. ASSUME NEW r \in 1..(m + 1)
            PROVE  run'[r].request \in 1..Len(log') /\ Serving!Accepted(log[run[r].request])'
        BY <1>1, <1>9, <2>4, <2>5, <2>6, <2>7 DEF Serving!Accepted
      <3>2. ASSUME NEW r \in 1..(m + 1), NEW s \in 1..(m + 1), r # s PROVE run'[r].request # run'[s].request
        BY <1>4, <1>6, <2>4, <2>5, <2>6, <2>7, <3>2
      <3>3. ASSUME NEW r \in 1..(m + 1), NEW j \in 1..(n - 1) PROVE run'[r].request # inbox'[j]
        <4>1. inbox'[j] = inbox[j + 1] /\ j + 1 \in 1..n /\ j + 1 # 1 BY <1>3, <1>4
        <4>2. inbox[j + 1] # i BY <1>1, <1>2, <1>4, <1>6, <4>1 DEF RouterInv, Queue
        <4> QED BY <2>4, <2>5, <2>6, <2>7, <4>1, <4>2
      <3> QED BY <1>3, <2>4, <3>1, <3>2, <3>3 DEF RunsOf
    <2>9. CompletedOnce'
      <3>1. \A k \in 1..Len(log) : Completes(k)'
        <4> SUFFICES ASSUME NEW k \in 1..Len(log) PROVE Completes(k)' OBVIOUS
        <4>1. Completes(k) BY <1>1 DEF RouterInv, CompletedOnce
        <4> QED BY <1>1, <2>1, <2>4, <2>5, <4>1 DEF Completes
      <3>2. \A r \in 1..(m + 1) : run'[r].pc = "completed" =>
               \E k \in 1..Len(log) : log[k].of = run'[r].request
        <4> SUFFICES ASSUME NEW r \in 1..(m + 1), run'[r].pc = "completed"
                     PROVE  \E k \in 1..Len(log) : log[k].of = run'[r].request
          OBVIOUS
        <4>1. r \in 1..m /\ run'[r] = run[r] BY <2>4, <2>5, <2>6
        <4> QED BY <1>1, <2>1, <4>1 DEF RouterInv, CompletedOnce
      <3>3. \A k, l \in 1..Len(log) : log[k].of # 0 /\ log[k].of = log[l].of => k = l
        BY <1>1 DEF RouterInv, CompletedOnce
      <3> QED BY <1>1, <2>4, <3>1, <3>2, <3>3 DEF CompletedOnce
    <2>10. Reached'
      <3> SUFFICES ASSUME phase \notin {"stopping", "stopped"}, NEW q \in 1..Len(log),
                          Serving!Accepted(log[q])
                   PROVE  \/ \E x \in missed : x.request = q
                          \/ \E j \in 1..(n - 1) : inbox'[j] = q
                          \/ \E r \in 1..(m + 1) : run'[r].request = q
        BY <1>1, <1>3, <2>4 DEF Reached, Serving!Accepted
      <3>1. \/ \E x \in missed : x.request = q
            \/ \E j \in 1..n : inbox[j] = q
            \/ \E r \in 1..m : run[r].request = q
        BY <1>1, <1>2, <2>1 DEF RouterInv, Reached
      <3>2. CASE \E j \in 1..n : inbox[j] = q
        <4>1. PICK j \in 1..n : inbox[j] = q BY <3>2
        <4>2. CASE j = 1 BY <1>6, <2>4, <2>5, <2>6, <4>1, <4>2
        <4>3. CASE j # 1 BY <1>3, <1>5, <4>1, <4>3
        <4> QED BY <4>2, <4>3
      <3> QED BY <2>4, <2>5, <3>1, <3>2
    <2>11. ServeTyped' BY <1>1, <1>3, <2>4 DEF ServeTyped
    <2>12. PairInv'
      <3>1. \A b, corr : Owing(b, corr)' => Owing(b, corr) BY <1>1 DEF Owing
      <3> QED BY <1>1, <3>1, PairWaits
    <2> QED BY <1>8, <2>8, <2>9, <2>10, <2>11, <2>12 DEF ServeInv, RouterInv
  <1>10. CASE ~Serving!Accepted(log[i])
    <2>1. UNCHANGED run BY <1>3, <1>6, <1>10 DEF Serving!Dispatch
    <2>2. ServeTyped' BY <1>1, <1>3, <2>1 DEF ServeTyped
    <2>3. RunsOf'
      BY <1>1, <1>2, <1>3, <1>4, <2>1 DEF RouterInv, RunsOf, Serving!Accepted
    <2>4. CompletedOnce' BY <1>1, <2>1 DEF RouterInv, CompletedOnce, Completes
    <2>5. Reached'
      <3> SUFFICES ASSUME phase \notin {"stopping", "stopped"}, NEW q \in 1..Len(log),
                          Serving!Accepted(log[q])
                   PROVE  \/ \E x \in missed : x.request = q
                          \/ \E j \in 1..(n - 1) : inbox'[j] = q
                          \/ \E r \in 1..Len(run) : run[r].request = q
        BY <1>1, <1>3, <2>1 DEF Reached, Serving!Accepted
      <3>1. \/ \E x \in missed : x.request = q
            \/ \E j \in 1..n : inbox[j] = q
            \/ \E r \in 1..Len(run) : run[r].request = q
        BY <1>1, <1>2 DEF RouterInv, Reached
      <3>2. CASE \E j \in 1..n : inbox[j] = q
        <4>1. PICK j \in 1..n : inbox[j] = q BY <3>2
        <4>2. j # 1 BY <1>6, <1>10, <4>1
        <4> QED BY <1>3, <1>5, <4>1, <4>2
      <3> QED BY <3>1, <3>2
    <2>6. PairInv'
      <3>1. \A b, corr : Owing(b, corr)' => Owing(b, corr) BY <1>1 DEF Owing
      <3> QED BY <1>1, <3>1, PairWaits
    <2> QED BY <1>8, <2>2, <2>3, <2>4, <2>5, <2>6 DEF ServeInv, RouterInv
  <1> QED BY <1>9, <1>10

(* The task of a run ends.                                                   *)
LEMMA RunEnds ==
  ASSUME ServeTyped, NEW r \in 1..Len(run), NEW g \in {"completed", "untold"},
         run' = [run EXCEPT ![r].pc = g]
  PROVE  /\ run' \in Seq(RunT) /\ Len(run') = Len(run) /\ run'[r].pc = g
         /\ \A s \in 1..Len(run) : run'[s].request = run[s].request /\ (s # r => run'[s] = run[s])
  <1>1. run \in [1..Len(run) -> RunT] BY LenProperties DEF ServeTyped
  <1>2. Len(run) \in Nat BY LenProperties DEF ServeTyped
  <1>3. run[r] \in RunT BY <1>1
  <1>4. PICK x : x = [run[r] EXCEPT !.pc = g] OBVIOUS
  <1>5. x \in RunT /\ x.pc = g /\ x.request = run[r].request BY <1>3, <1>4 DEF RunT
  <1>6. run' = [run EXCEPT ![r] = x] BY <1>1, <1>4
  <1>7. /\ run'[r] = x
        /\ \A s \in 1..Len(run) : s # r => run'[s] = run[s]
    BY <1>1, <1>6
  <1>8. run' \in Seq(RunT) /\ Len(run') = Len(run)
    <2>1. run \in Seq(RunT) BY DEF ServeTyped
    <2>2. PICK u, v : u = run /\ v = run' OBVIOUS
    <2>3. u \in Seq(RunT) /\ r \in 1..Len(u) /\ v = [u EXCEPT ![r] = x] BY <1>6, <2>1, <2>2
    <2>4. [u EXCEPT ![r] = x] \in Seq(RunT) /\ Len([u EXCEPT ![r] = x]) = Len(u)
      BY ONLY <1>5, <2>3, ExceptSeq
    <2> QED BY <2>2, <2>3, <2>4
  <1> QED BY <1>5, <1>7, <1>8

LEMMA CompleteKeeps == ASSUME ServeInv, NEW r \in DOMAIN run, Serving!Complete(r) PROVE ServeInv'
  <1>1. ServeTyped /\ RouterInv /\ PairInv /\ UNCHANGED <<project, phase, feeder, handler>>
    BY DEF ServeInv, Serving!Complete
  <1>2. r \in 1..Len(run) /\ run[r].pc = "spawned" BY <1>1, LenProperties DEF ServeTyped, Serving!Complete
  <1>3. PICK n \in Nat : n = Len(log) BY <1>1, LenProperties DEF ServeTyped
  <1>4. PICK q \in 1..n : q = run[r].request BY <1>1, <1>2, <1>3 DEF RouterInv, RunsOf
  <1>5. log[q] \in EventT BY <1>1, <1>3, LenProperties DEF ServeTyped
  <1>6. q # 0 /\ q \in Nat BY <1>4
  <1>7. \A s \in 1..Len(run) : run[s].request = q /\ run[s].pc = "completed" => FALSE
    BY <1>1, <1>2, <1>4 DEF RouterInv, RunsOf
  <1>8. /\ \A k \in 1..n : Completes(k)
        /\ \A k, l \in 1..n : log[k].of # 0 /\ log[k].of = log[l].of => k = l
        /\ \A s \in 1..Len(run) : run[s].pc = "completed" => \E k \in 1..n : log[k].of = run[s].request
    BY <1>1, <1>3 DEF RouterInv, CompletedOnce
  <1>9. \A b, corr : Owing(b, corr)' => Owing(b, corr) BY <1>1 DEF Owing
  <1>10. ASSUME NEW kind \in {"succeeded", "failed"},
                kind = "succeeded" => log[q].pipeline \in project.pipelines,
                Serving!Publish([Serving!Event(kind, log[q].corr, log[q].pipeline, "router") EXCEPT !.of = q]),
                run' = [run EXCEPT ![r].pc = "completed"]
         PROVE  ServeInv'
    <2>1. PICK e : e = [Serving!Event(kind, log[q].corr, log[q].pipeline, "router") EXCEPT !.of = q] OBVIOUS
    <2>2. PICK c \in CorrT, p \in Names : c = log[q].corr /\ p = log[q].pipeline BY <1>5 DEF EventT
    <2>3. /\ e \in EventT /\ e.of = q /\ e.kind = kind /\ e.corr = c
      BY <1>6, <2>1, <2>2 DEF Serving!Event, EventT
    <2>4. Serving!Publish(e) BY <1>10, <2>1
    <2>5. /\ run' \in Seq(RunT) /\ Len(run') = Len(run) /\ run'[r].pc = "completed"
          /\ \A s \in 1..Len(run) : run'[s].request = run[s].request /\ (s # r => run'[s] = run[s])
      BY <1>1, <1>2, <1>10, RunEnds
    <2>6. /\ log' \in Seq(EventT) /\ inbox' \in Seq(Nat) /\ Len(log') = n + 1 /\ log'[n + 1] = e
          /\ \A k \in 1..n : log'[k] = log[k]
      <3>1. Landed(e, n) BY <1>1, <1>3, <2>3, <2>4, EventLands
      <3> QED BY ONLY <3>1 DEF Landed
    <2>7. ServeTyped' BY <1>1, <2>5, <2>6 DEF ServeTyped
    <2>8. Queue' /\ RunsOf' /\ Reached' BY <1>1, <2>3, <2>4, <2>5, RouterListens DEF RouterInv
    <2>9. /\ \A k : k \in 1..(n + 1) <=> k \in 1..n \/ k = n + 1
          /\ q < n + 1
      OBVIOUS
    <2>10. ASSUME NEW k \in 1..n PROVE Completes(k)' /\ log[k].of # q
      <3>1. Completes(k) BY <1>8
      <3>2. CASE log[k].of = 0 BY <1>6, <2>6, <3>2 DEF Completes
      <3>3. CASE log[k].of # 0
        <4>1. PICK s \in 1..Len(run) : run[s].request = log[k].of /\ run[s].pc = "completed"
          BY <3>1, <3>3 DEF Completes
        <4>2. s # r /\ log[k].of # q BY <1>2, <1>7, <4>1
        <4>3. run'[s].request = log[k].of /\ run'[s].pc = "completed" BY <2>5, <4>1, <4>2
        <4>4. log[k].of \in 1..n BY <1>1, <1>3, <4>1 DEF RouterInv, RunsOf
        <4>5. /\ log'[k].of < k /\ log'[k].corr = log'[log'[k].of].corr
              /\ log'[k].kind = "succeeded" => log'[log'[k].of].pipeline \in project'.pipelines
          BY <1>1, <2>6, <3>1, <3>3, <4>4 DEF Completes
        <4>6. log'[k].of = log[k].of BY <2>6
        <4>7. Completes(k)' BY <2>5, <4>1, <4>3, <4>5, <4>6 DEF Completes
        <4> QED BY <4>2, <4>7
      <3> QED BY <3>2, <3>3
    <2>11. Completes(n + 1)'
      <3>1. run'[r].request = q BY <1>2, <1>4, <2>5
      <3>2. log'[q].corr = e.corr /\ (e.kind = "succeeded" => log'[q].pipeline \in project'.pipelines)
        BY <1>1, <1>10, <2>2, <2>3, <2>6
      <3> QED BY <1>2, <2>3, <2>5, <2>6, <2>9, <3>1, <3>2 DEF Completes
    <2>12. CompletedOnce'
      <3>1. \A k \in 1..(n + 1) : Completes(k)' BY <2>9, <2>10, <2>11
      <3>2. ASSUME NEW k \in 1..(n + 1), NEW l \in 1..(n + 1), log'[k].of # 0, log'[k].of = log'[l].of
            PROVE  k = l
        <4>1. CASE k \in 1..n /\ l \in 1..n
          <5>1. log'[k].of = log[k].of /\ log'[l].of = log[l].of BY <2>6, <4>1
          <5> QED BY <1>8, <3>2, <4>1, <5>1
        <4>2. CASE k \in 1..n /\ l = n + 1 BY <2>3, <2>6, <2>10, <3>2, <4>2
        <4>3. CASE k = n + 1 /\ l \in 1..n BY <2>3, <2>6, <2>10, <3>2, <4>3
        <4> QED BY <2>9, <4>1, <4>2, <4>3
      <3>3. ASSUME NEW s \in 1..Len(run), run'[s].pc = "completed"
            PROVE  \E k \in 1..(n + 1) : log'[k].of = run'[s].request
        <4>1. CASE s = r BY <1>4, <2>3, <2>5, <2>6, <2>9, <4>1
        <4>2. CASE s # r BY <1>8, <2>5, <2>6, <2>9, <3>3, <4>2
        <4> QED BY <4>1, <4>2
      <3> QED BY <2>5, <2>6, <3>1, <3>2, <3>3 DEF CompletedOnce
    <2>13. PairInv'
      <3>1. e.kind # "request" BY <2>3
      <3> QED BY <1>1, <1>9, <2>3, <2>4, <3>1, PairHears
    <2> QED BY <2>7, <2>8, <2>12, <2>13 DEF ServeInv, RouterInv
  <1>11. CASE UNCHANGED <<log, inbox, missed>> /\ run' = [run EXCEPT ![r].pc = "untold"]
    <2>1. /\ run' \in Seq(RunT) /\ Len(run') = Len(run) /\ run'[r].pc = "untold"
          /\ \A s \in 1..Len(run) : run'[s].request = run[s].request /\ (s # r => run'[s] = run[s])
      BY <1>1, <1>2, <1>11, RunEnds
    <2>2. ServeTyped' BY <1>1, <1>11, <2>1 DEF ServeTyped
    <2>3. Queue' BY <1>1, <1>11 DEF RouterInv, Queue
    <2>4. RunsOf' BY <1>1, <1>11, <2>1 DEF RouterInv, RunsOf, Serving!Accepted
    <2>5. Reached' BY <1>1, <1>11, <2>1 DEF RouterInv, Reached, Serving!Accepted
    <2>6. ASSUME NEW k \in 1..n PROVE Completes(k)'
      <3>1. Completes(k) BY <1>8
      <3>2. \A s \in 1..Len(run) : run[s].pc = "completed" => run'[s] = run[s] BY <1>2, <2>1
      <3> QED BY <1>1, <1>11, <2>1, <3>1, <3>2 DEF Completes
    <2>7. CompletedOnce'
      <3>1. \A s \in 1..Len(run) : run'[s].pc = "completed" => \E k \in 1..n : log[k].of = run'[s].request
        BY <1>8, <2>1
      <3> QED BY <1>3, <1>8, <1>11, <2>1, <2>6, <3>1 DEF CompletedOnce
    <2>8. PairInv' BY <1>1, <1>9, <1>11, PairWaits
    <2> QED BY <2>2, <2>3, <2>4, <2>5, <2>7, <2>8 DEF ServeInv, RouterInv
  <1> QED BY <1>4, <1>10, <1>11 DEF Serving!Complete, Serving!PublishFails

LEMMA PhaseKeeps ==
  ASSUME ServeInv, \/ Serving!Check \/ Serving!Build \/ Serving!StartChannels \/ Serving!Subscribe
                   \/ Serving!Stop
  PROVE  ServeInv'
  <1>1. /\ ServeTyped /\ RouterInv /\ PairInv
        /\ UNCHANGED <<project, handler, log, inbox, run, missed>>
        /\ phase \in {"stopping", "stopped"} => phase' \in {"stopping", "stopped"}
    BY DEF ServeInv, Serving!Check, Serving!Build, Serving!StartChannels, Serving!Subscribe, Serving!Stop
  <1>2. /\ feeder' \in [Feeders -> FeederT]
        /\ \A c \in Feeders : feeder'[c].pc = "asking" => feeder'[c] = feeder[c]
    <2>1. feeder \in [Feeders -> FeederT] BY <1>1 DEF ServeTyped
    <2>2. CASE Serving!Build
      <3>1. ASSUME NEW c \in Feeders
            PROVE  /\ [feeder[c] EXCEPT !.pc = "running"] \in FeederT
                   /\ [feeder[c] EXCEPT !.pc = "running"].pc = "running"
        <4>1. feeder[c] \in FeederT BY <2>1
        <4> QED BY <4>1 DEF FeederT
      <3>2. feeder' = [c \in Feeders |-> IF Serving!Readable THEN [feeder[c] EXCEPT !.pc = "running"]
                                         ELSE feeder[c]]
        BY <2>2 DEF Serving!Build
      <3>3. CASE Serving!Readable BY <3>1, <3>2, <3>3
      <3>4. CASE ~Serving!Readable BY <2>1, <3>2, <3>4
      <3> QED BY <3>3, <3>4
    <2>3. CASE UNCHANGED feeder BY <2>1, <2>3
    <2> QED BY <2>2, <2>3 DEF Serving!Check, Serving!StartChannels, Serving!Subscribe, Serving!Stop
  <1>3. ServeTyped' BY <1>1, <1>2 DEF ServeTyped
  <1>4. RouterInv' BY <1>1, RouterWaits
  <1>5. \A b, corr : Owing(b, corr)' => Owing(b, corr) BY <1>1, <1>2 DEF Owing
  <1>6. PairInv' BY <1>1, <1>5, PairWaits
  <1> QED BY <1>3, <1>4, <1>6 DEF ServeInv

LEMMA InterruptKeeps == ASSUME ServeInv, Serving!Interrupt PROVE ServeInv'
  <1>1. /\ ServeTyped /\ RouterInv /\ PairInv /\ phase' = "stopping" /\ inbox' = << >>
        /\ UNCHANGED <<project, handler, log, run, missed>>
        /\ feeder' = [c \in Feeders |-> IF feeder[c].pc = "running"
                                        THEN [feeder[c] EXCEPT !.pc = "ended"] ELSE feeder[c]]
    BY DEF ServeInv, Serving!Interrupt
  <1>2. ASSUME NEW c \in Feeders
        PROVE  /\ feeder'[c] \in FeederT
               /\ feeder'[c].pc = "asking" => feeder'[c] = feeder[c]
    <2>1. feeder[c] \in FeederT BY <1>1 DEF ServeTyped
    <2>2. CASE feeder[c].pc = "running"
      <3>1. PICK x : x = [feeder[c] EXCEPT !.pc = "ended"] OBVIOUS
      <3>2. x \in FeederT /\ x.pc = "ended" BY <2>1, <3>1 DEF FeederT
      <3>3. feeder'[c] = x BY <1>1, <2>2, <3>1
      <3> QED BY <3>2, <3>3
    <2>3. CASE feeder[c].pc # "running" BY <1>1, <2>1, <2>3
    <2> QED BY <2>2, <2>3
  <1>3. feeder' \in [Feeders -> FeederT] BY <1>1, <1>2
  <1>4. inbox' \in Seq(Nat) /\ Len(inbox') = 0 BY <1>1, EmptySeq
  <1>5. ServeTyped' BY <1>1, <1>3, <1>4 DEF ServeTyped
  <1>6. 1..0 = {} OBVIOUS
  <1>7. Queue' BY <1>4, <1>6 DEF Queue
  <1>8. RunsOf' BY <1>1, <1>4, <1>6 DEF RouterInv, RunsOf, Serving!Accepted
  <1>9. CompletedOnce' BY <1>1 DEF RouterInv, CompletedOnce, Completes
  <1>10. Reached' BY <1>1 DEF Reached
  <1>11. \A b, corr : Owing(b, corr)' => Owing(b, corr) BY <1>1, <1>2 DEF Owing
  <1>12. PairInv' BY <1>1, <1>11, PairWaits
  <1> QED BY <1>5, <1>7, <1>8, <1>9, <1>10, <1>12 DEF ServeInv, RouterInv

LEMMA InitServe == Serving!Init => ServeInv
  <1> SUFFICES ASSUME Serving!Init PROVE ServeInv OBVIOUS
  <1>1. log = << >> /\ inbox = << >> /\ run = << >> BY DEF Serving!Init
  <1>2. /\ log \in Seq(EventT) /\ inbox \in Seq(Nat) /\ run \in Seq(RunT)
        /\ Len(log) = 0 /\ Len(inbox) = 0 /\ Len(run) = 0
    BY <1>1, EmptySeq
  <1>3. /\ feeder \in [Feeders -> FeederT]
        /\ \A c \in Feeders : feeder[c].pc = "down"
    BY DEF Serving!Init, FeederT, Names
  <1>4. handler \in [Handlers -> HandlerT] /\ \A h \in Handlers : handler[h].pc = "idle"
    BY DEF Serving!Init, Serving!Idle, HandlerT, Names
  <1>5. ServeTyped BY <1>2, <1>3, <1>4 DEF ServeTyped
  <1>6. 1..0 = {} OBVIOUS
  <1>7. RouterInv BY <1>2, <1>6 DEF RouterInv, Queue, RunsOf, CompletedOnce, Reached
  <1>8. ASSUME NEW b, NEW corr PROVE Paid(b, corr)
    <2>1. Marks(log, "request", b, corr, 0) = {} /\ Marks(log, "message", b, corr, 0) = {}
      BY <1>6 DEF Marks
    <2>2. Cardinality({}) = 0 BY FS_EmptySet
    <2>3. ~Owing(b, corr) BY <1>3, <1>4 DEF Owing
    <2>4. 0 + 0 <= 0 OBVIOUS
    <2> QED BY <1>2, <2>1, <2>2, <2>3, <2>4 DEF Paid
  <1>9. PairInv BY <1>2, <1>6, <1>8 DEF PairInv, Paired
  <1> QED BY <1>5, <1>7, <1>9 DEF ServeInv

(* The router's queue, its runs and their completions belong to the          *)
(* requests one to one, and every request of a connector has its message.    *)
THEOREM ServeInvariant == ASSUME ConnectorNames PROVE Serving!Spec => []ServeInv
  <1>1. ServeInv /\ [Serving!Next]_Serving!vars => ServeInv'
    <2> SUFFICES ASSUME ServeInv, [Serving!Next]_Serving!vars PROVE ServeInv' OBVIOUS
    <2>1. CASE Serving!Check \/ Serving!Build \/ Serving!StartChannels \/ Serving!Subscribe \/ Serving!Stop
      BY <2>1, PhaseKeeps
    <2>2. ASSUME NEW c \in Feeders, Serving!Cron(c) \/ Serving!FileRead(c) \/ Serving!Stdin(c) PROVE ServeInv'
      BY <2>2, FeederKeeps DEF Serving!Cron, Serving!FileRead, Serving!Stdin
    <2>3. ASSUME NEW h \in Handlers, \/ Serving!Refuse(h) \/ Serving!Accept(h)
                                     \/ Serving!HookMessage(h) \/ Serving!HookRequest(h)
          PROVE  ServeInv'
      BY <2>3, HandlerKeeps
    <2>4. CASE Serving!Remote BY <2>4, RemoteKeeps
    <2>5. CASE Serving!Dispatch BY <2>5, DispatchKeeps
    <2>6. ASSUME NEW r \in DOMAIN run, Serving!Complete(r) PROVE ServeInv' BY <2>6, CompleteKeeps
    <2>7. CASE Serving!Interrupt BY <2>7, InterruptKeeps
    <2>8. CASE UNCHANGED Serving!vars
      <3>1. UNCHANGED <<project, phase, feeder, handler, log, inbox, run, missed>>
        BY <2>8 DEF Serving!vars
      <3>2. ServeTyped' BY <3>1 DEF ServeInv, ServeTyped
      <3>3. RouterInv' BY <3>1, RouterWaits DEF ServeInv
      <3>4. PairInv'
        <4>1. \A b, corr : Owing(b, corr)' => Owing(b, corr) BY <3>1 DEF Owing
        <4> QED BY <3>1, <4>1, PairWaits DEF ServeInv
      <3> QED BY <3>2, <3>3, <3>4 DEF ServeInv
    <2> QED BY <2>1, <2>2, <2>3, <2>4, <2>5, <2>6, <2>7, <2>8 DEF Serving!Next
  <1> QED BY <1>1, InitServe, PTL DEF Serving!Spec

LEMMA ServedOnce == ASSUME ServeInv PROVE Serving!OneRunPerRequest
  <1>1. ServeTyped /\ RouterInv BY DEF ServeInv
  <1>2. DOMAIN log = 1..Len(log) /\ DOMAIN run = 1..Len(run) /\ DOMAIN inbox = 1..Len(inbox)
    BY <1>1, LenProperties DEF ServeTyped
  <1>3. \A X : Serving!Cardinality(X) = Cardinality(X) BY DEF Serving!Cardinality, Cardinality
  <1> DEFINE Told(i, k) == /\ k > i /\ log[k].corr = log[i].corr
                           /\ log[k].kind = "succeeded" => log[i].pipeline \in project.pipelines
  <1> SUFFICES ASSUME NEW i \in 1..Len(log), log[i].kind = "request",
                      NEW runs, runs = {r \in DOMAIN run : run[r].request = i}
               PROVE  /\ Cardinality(runs) <= 1
                      /\ runs # {} => log[i].pipeline \in Serving!Served \/ project.all
                      /\ Cardinality(Serving!Completions(i)) =
                            Cardinality({r \in runs : run[r].pc = "completed"})
                      /\ \A k \in Serving!Completions(i) : Told(i, k)
                      /\ Serving!Routing /\ (\A m \in missed : m.request # i) /\ i \notin Serving!Range(inbox)
                            /\ Serving!Accepted(log[i]) => runs # {}
    BY <1>2, <1>3 DEF Serving!OneRunPerRequest
  <1>4. i # 0 /\ i \in Nat OBVIOUS
  <1>5. \A k \in 1..Len(log) : log[k].of = i => Completes(k) BY <1>1 DEF RouterInv, CompletedOnce
  <1>6. \A k : k \in Serving!Completions(i) <=> k \in 1..Len(log) /\ log[k].of = i
    BY <1>2 DEF Serving!Completions
  <1>7. ASSUME NEW k \in Serving!Completions(i)
        PROVE  /\ Told(i, k)
               /\ \E r \in runs : run[r].pc = "completed"
    BY <1>2, <1>4, <1>5, <1>6 DEF Completes
  <1> HIDE DEF Told
  <1>8. /\ Cardinality({}) = 0
        /\ \A x : Cardinality({x}) = 1
    BY FS_EmptySet, FS_Singleton
  <1>9. CASE runs = {}
    <2>1. Serving!Completions(i) = {} BY <1>7, <1>9
    <2>2. {r \in runs : run[r].pc = "completed"} = {} BY <1>9
    <2>3. ~(/\ Serving!Routing /\ (\A m \in missed : m.request # i) /\ i \notin Serving!Range(inbox)
            /\ Serving!Accepted(log[i]))
      BY <1>1, <1>2, <1>9 DEF RouterInv, Reached, Serving!Routing, Serving!Range
    <2>4. Cardinality(runs) = 0 /\ Cardinality(Serving!Completions(i)) = 0
          /\ Cardinality({r \in runs : run[r].pc = "completed"}) = 0
      BY <1>8, <1>9, <2>1, <2>2
    <2>5. \A k \in Serving!Completions(i) : Told(i, k) BY <1>7
    <2> QED BY <1>9, <2>3, <2>4, <2>5
  <1>10. ASSUME NEW s \in runs
         PROVE  /\ Cardinality(runs) = 1 /\ (log[i].pipeline \in Serving!Served \/ project.all)
                /\ Cardinality(Serving!Completions(i)) = Cardinality({r \in runs : run[r].pc = "completed"})
    <2>1. s \in 1..Len(run) /\ run[s].request = i BY <1>2
    <2>2. runs = {s} BY <1>1, <1>2, <2>1 DEF RouterInv, RunsOf
    <2>3. log[i].pipeline \in Serving!Served \/ project.all
      BY <1>1, <2>1 DEF RouterInv, RunsOf, Serving!Accepted, Serving!Served
    <2>4. CASE run[s].pc = "completed"
      <3>1. PICK k \in 1..Len(log) : log[k].of = i BY <1>1, <2>1, <2>4 DEF RouterInv, CompletedOnce
      <3>2. \A l \in 1..Len(log) : log[l].of = i => l = k BY <1>1, <1>4, <3>1 DEF RouterInv, CompletedOnce
      <3>3. Serving!Completions(i) = {k} BY <1>6, <3>1, <3>2
      <3>4. {r \in runs : run[r].pc = "completed"} = {s} BY <2>2, <2>4
      <3> QED BY <1>8, <2>2, <2>3, <3>3, <3>4
    <2>5. CASE run[s].pc # "completed"
      <3>1. Serving!Completions(i) = {} BY <1>7, <2>2, <2>5
      <3>2. {r \in runs : run[r].pc = "completed"} = {} BY <2>2, <2>5
      <3> QED BY <1>8, <2>2, <2>3, <3>1, <3>2
    <2> QED BY <2>4, <2>5
  <1>11. CASE runs # {}
    <2>1. PICK s \in runs : TRUE BY <1>11
    <2>2. \A k \in Serving!Completions(i) : Told(i, k) BY <1>7
    <2>3. /\ Cardinality(runs) = 1 /\ (log[i].pipeline \in Serving!Served \/ project.all)
          /\ Cardinality(Serving!Completions(i)) = Cardinality({r \in runs : run[r].pc = "completed"})
      BY <1>10, <2>1
    <2> QED BY <1>11, <2>2, <2>3
  <1> QED BY <1>9, <1>11

LEMMA MessagesFirst == ASSUME ServeInv PROVE Serving!MessageFirst
  <1>1. ServeTyped /\ Paired BY DEF ServeInv, PairInv
  <1>2. DOMAIN log = 1..Len(log) BY <1>1, LenProperties DEF ServeTyped
  <1>3. \A X : Serving!Cardinality(X) = Cardinality(X) BY DEF Serving!Cardinality, Cardinality
  <1> SUFFICES ASSUME NEW i \in 1..Len(log), log[i].kind = "request", log[i].by # "remote"
               PROVE  Cardinality(Marks(log, "request", log[i].by, log[i].corr, i))
                         <= Cardinality(Marks(log, "message", log[i].by, log[i].corr, i))
    BY <1>2, <1>3 DEF Serving!MessageFirst, Marks
  <1> QED BY <1>1 DEF Paired

(* A request is run at most once and answered at most once, on its own       *)
(* correlation, is not forgotten while the router listens, and comes after   *)
(* the message it stands for.                                                *)
THEOREM RequestsRunOnce == ASSUME ConnectorNames PROVE Serving!Spec => []Serving!ServeSound
  <1>1. ServeInv => Serving!ServeSound BY ServedOnce, MessagesFirst DEF Serving!ServeSound
  <1> QED BY <1>1, ServeInvariant, PTL

-----------------------------------------------------------------------------
(* The pool of shells.                                                      *)
Pool == INSTANCE ShellPool

(* There is a stream. *)
PoolBounds == Streams # {}

PoolEntry == [stream : Streams, shell : Pool!Shells]
PoolCall == [pc : {"idle", "spawned", "ready", "ran"}, stream : Streams,
             shell : Pool!Shells \cup {Pool!NoShell}, reply : Pool!Replies]

Pooled(q) == {q[i] : i \in 1..Len(q)}
OnePerStream(q) == \A i, j \in 1..Len(q) : q[i].stream = q[j].stream => i = j

PoolTyped ==
    /\ sessions \in Seq(PoolEntry)
    /\ process \in [Pool!Shells -> {"none", "alive", "dead"}]
    /\ home \in [Pool!Shells -> Streams]
    /\ call \in [Workers -> PoolCall]

InCall == {w \in Workers : call[w].pc # "idle"}

(* A shell in use was spawned for the stream that uses it. *)
AtHome ==
    /\ \A w \in InCall : /\ call[w].shell \in Pool!Shells /\ process[call[w].shell] # "none"
                       /\ home[call[w].shell] = call[w].stream
    /\ \A e \in Pooled(sessions) : process[e.shell] # "none" /\ home[e.shell] = e.stream

(* No two have the same, dead or alive; and a live one is with somebody. *)
Apart ==
    /\ \A w, v \in InCall : call[w].shell = call[v].shell => w = v
    /\ \A w \in InCall, e \in Pooled(sessions) : call[w].shell # e.shell
    /\ \A k \in Pool!Shells : process[k] = "alive" =>
          (\E w \in InCall : call[w].shell = k) \/ (\E e \in Pooled(sessions) : e.shell = k)

PoolInv == PoolTyped /\ OnePerStream(sessions) /\ AtHome /\ Apart

LEMMA Removed ==
  ASSUME sessions \in Seq(PoolEntry), NEW n \in Nat, n = Len(sessions), NEW j \in 1..n,
         NEW r, r = Pool!RemoveAt(sessions, j)
  PROVE  /\ r \in Seq(PoolEntry) /\ Len(r) = n - 1
         /\ \A i \in 1..(n - 1) : r[i] = IF i < j THEN sessions[i] ELSE sessions[i + 1]
  <1>1. PICK a, b \in Int : a = j - 1 /\ b = j + 1 OBVIOUS
  <1>2. PICK s, t : s = SubSeq(sessions, 1, a) /\ t = SubSeq(sessions, b, n) OBVIOUS
  <1>3. /\ s \in Seq(PoolEntry) /\ Len(s) = a
        /\ \A i \in 1..a : s[i] = sessions[i]
    <2>1. \A i \in 1..a : sessions[i] \in PoolEntry BY <1>1, ElementOfSeq
    <2>2. /\ SubSeq(sessions, 1, a) \in Seq(PoolEntry) /\ Len(SubSeq(sessions, 1, a)) = (IF 1 <= a THEN a - 1 + 1 ELSE 0)
          /\ \A i \in 1..(a - 1 + 1) : SubSeq(sessions, 1, a)[i] = sessions[1 + i - 1]
      BY <1>1, <2>1, SubSeqProperties
    <2>3. (IF 1 <= a THEN a - 1 + 1 ELSE 0) = a /\ \A i \in 1..a : i \in 1..(a - 1 + 1) /\ 1 + i - 1 = i
      BY <1>1
    <2> QED BY <1>2, <2>2, <2>3
  <1>4. /\ t \in Seq(PoolEntry) /\ Len(t) = n - j
        /\ \A i \in 1..(n - j) : t[i] = sessions[j + i]
    <2>1. \A i \in b..n : sessions[i] \in PoolEntry BY <1>1, ElementOfSeq
    <2>2. /\ SubSeq(sessions, b, n) \in Seq(PoolEntry) /\ Len(SubSeq(sessions, b, n)) = (IF b <= n THEN n - b + 1 ELSE 0)
          /\ \A i \in 1..(n - b + 1) : SubSeq(sessions, b, n)[i] = sessions[b + i - 1]
      BY <1>1, <2>1, SubSeqProperties
    <2>3. (IF b <= n THEN n - b + 1 ELSE 0) = n - j /\ \A i \in 1..(n - j) : i \in 1..(n - b + 1) /\ b + i - 1 = j + i
      BY <1>1
    <2> QED BY <1>2, <2>2, <2>3
  <1>5. r = s \o t BY <1>1, <1>2 DEF Pool!RemoveAt
  <1>6. /\ s \o t \in Seq(PoolEntry) /\ Len(s \o t) = a + (n - j)
        /\ \A i \in 1..(a + (n - j)) : (s \o t)[i] = IF i <= a THEN s[i] ELSE t[i - a]
    <2>1. /\ s \o t \in Seq(PoolEntry) /\ Len(s \o t) = Len(s) + Len(t)
          /\ \A i \in 1..Len(s) + Len(t) : (s \o t)[i] = IF i <= Len(s) THEN s[i] ELSE t[i - Len(s)]
      BY <1>3, <1>4, ConcatProperties
    <2> QED BY ONLY <1>3, <1>4, <2>1
  <1>7. a + (n - j) = n - 1 BY <1>1
  <1>8. ASSUME NEW i \in 1..(n - 1) PROVE r[i] = IF i < j THEN sessions[i] ELSE sessions[i + 1]
    <2>1. CASE i < j BY <1>1, <1>3, <1>5, <1>6, <1>7, <2>1
    <2>2. CASE ~(i < j)
      <3>1. PICK m \in 1..(n - j) : m = i - a /\ j + m = i + 1 BY <1>1, <2>2
      <3>2. r[i] = t[i - a]
        <4>1. i \in 1..(a + (n - j)) /\ ~(i <= a) BY <1>1, <1>7, <2>2
        <4> QED BY <1>5, <1>6, <4>1
      <3>3. t[m] = sessions[j + m] BY <1>4, <3>1
      <3> QED BY <2>2, <3>1, <3>2, <3>3
    <2> QED BY <2>1, <2>2
  <1> QED BY <1>5, <1>6, <1>7, <1>8

(* What is left of the pool when a stream's entry is taken out. *)
LEMMA TakenOut ==
  ASSUME sessions \in Seq(PoolEntry), OnePerStream(sessions), NEW s, NEW r, r = Pool!Without(s)
  PROVE  /\ r \in Seq(PoolEntry) /\ OnePerStream(r)
         /\ Pooled(r) = {e \in Pooled(sessions) : e.stream # s}
         /\ Len(r) = IF Pool!OfStream(s) = {} THEN Len(sessions) ELSE Len(sessions) - 1
         /\ Pool!OfStream(s) = {} => r = sessions
  <1>1. PICK n \in Nat : n = Len(sessions) /\ DOMAIN sessions = 1..n BY LenProperties
  <1>2. CASE Pool!OfStream(s) = {}
    <2>1. \A i \in 1..n : sessions[i].stream # s BY <1>1, <1>2 DEF Pool!OfStream
    <2>2. r = sessions BY <1>2 DEF Pool!Without
    <2>3. \A e \in Pooled(sessions) : e.stream # s BY <1>1, <2>1 DEF Pooled
    <2> QED BY <1>2, <2>2, <2>3
  <1>3. CASE Pool!OfStream(s) # {}
    <2>1. PICK j \in 1..n : sessions[j].stream = s /\ r = Pool!RemoveAt(sessions, j)
      <3>1. (CHOOSE i \in Pool!OfStream(s) : TRUE) \in Pool!OfStream(s) BY <1>3
      <3>2. r = Pool!RemoveAt(sessions, CHOOSE i \in Pool!OfStream(s) : TRUE) BY <1>3 DEF Pool!Without
      <3> QED BY <1>1, <3>1, <3>2 DEF Pool!OfStream
    <2>2. /\ r \in Seq(PoolEntry) /\ Len(r) = n - 1
          /\ \A i \in 1..(n - 1) : r[i] = IF i < j THEN sessions[i] ELSE sessions[i + 1]
      BY <1>1, <2>1, Removed
    <2>3. \A i \in 1..n : sessions[i].stream = s => i = j BY <1>1, <2>1 DEF OnePerStream
    <2>4. OnePerStream(r)
      <3>1. ASSUME NEW i \in 1..(n - 1), NEW k \in 1..(n - 1), r[i].stream = r[k].stream PROVE i = k
        <4>1. PICK a \in 1..n : r[i] = sessions[a] /\ a = (IF i < j THEN i ELSE i + 1)
          <5>1. (IF i < j THEN i ELSE i + 1) \in 1..n OBVIOUS
          <5> QED BY <2>2, <5>1
        <4>2. PICK b \in 1..n : r[k] = sessions[b] /\ b = (IF k < j THEN k ELSE k + 1)
          <5>1. (IF k < j THEN k ELSE k + 1) \in 1..n OBVIOUS
          <5> QED BY <2>2, <5>1
        <4>3. a = b BY <1>1, <3>1, <4>1, <4>2 DEF OnePerStream
        <4> QED BY <4>1, <4>2, <4>3
      <3> QED BY <2>2, <3>1 DEF OnePerStream
    <2>5. ASSUME NEW e \in Pooled(r) PROVE e \in Pooled(sessions) /\ e.stream # s
      <3>1. PICK i \in 1..(n - 1) : e = r[i] BY <2>2 DEF Pooled
      <3>2. PICK a \in 1..n : r[i] = sessions[a] /\ a # j
        <4>1. CASE i < j BY <2>2, <4>1
        <4>2. CASE ~(i < j) /\ i + 1 \in 1..n /\ i + 1 # j BY <2>2, <4>2
        <4>3. i + 1 \in 1..n /\ (~(i < j) => i + 1 # j) OBVIOUS
        <4> QED BY <4>1, <4>2, <4>3
      <3> QED BY <1>1, <2>3, <3>1, <3>2 DEF Pooled
    <2>6. ASSUME NEW e \in Pooled(sessions), e.stream # s PROVE e \in Pooled(r)
      <3>1. PICK a \in 1..n : e = sessions[a] /\ a # j BY <1>1, <2>1, <2>6 DEF Pooled
      <3>2. CASE a < j
        <4>1. a \in 1..(n - 1) BY <3>2
        <4> QED BY <2>2, <3>1, <3>2, <4>1 DEF Pooled
      <3>3. CASE ~(a < j)
        <4>1. PICK i \in 1..(n - 1) : i + 1 = a /\ ~(i < j)
          <5>1. a - 1 \in 1..(n - 1) /\ (a - 1) + 1 = a /\ ~(a - 1 < j) BY <3>1, <3>3
          <5> QED BY <5>1
        <4> QED BY <2>2, <3>1, <4>1 DEF Pooled
      <3> QED BY <3>2, <3>3
    <2> QED BY <1>1, <1>3, <2>2, <2>4, <2>5, <2>6
  <1> QED BY <1>2, <1>3

(* An entry is put at the end; its stream has none. *)
LEMMA PutBack ==
  ASSUME NEW q \in Seq(PoolEntry), OnePerStream(q), NEW e \in PoolEntry,
         \A f \in Pooled(q) : f.stream # e.stream
  PROVE  /\ Append(q, e) \in Seq(PoolEntry) /\ OnePerStream(Append(q, e))
         /\ Pooled(Append(q, e)) = Pooled(q) \cup {e}
         /\ Len(Append(q, e)) = Len(q) + 1
  <1>1. PICK n \in Nat : n = Len(q) BY LenProperties
  <1>2. PICK r : r = Append(q, e) OBVIOUS
  <1>3. r \in Seq(PoolEntry) /\ Len(r) = n + 1 /\ r[n + 1] = e /\ \A i \in 1..n : r[i] = q[i]
    BY <1>1, <1>2, AppendProperties
  <1>4. 1..(n + 1) = 1..n \cup {n + 1} BY <1>1
  <1>5. \A i \in 1..n : r[i] \in Pooled(q) BY <1>1, <1>3 DEF Pooled
  <1>6. Pooled(r) = Pooled(q) \cup {e} BY <1>1, <1>3, <1>4 DEF Pooled
  <1>7. OnePerStream(r) BY <1>1, <1>3, <1>4, <1>5 DEF OnePerStream
  <1> QED BY <1>1, <1>2, <1>3, <1>6, <1>7

(* The oldest m entries go. *)
OldestGone(r, m) ==
    /\ r \in Seq(PoolEntry) /\ OnePerStream(r)
    /\ \A e \in Pooled(r) : e \in Pooled(sessions)
    /\ \A e \in Pooled(sessions) : e \in Pooled(r) \/ \E i \in 1..m : e = sessions[i]
    /\ \A i \in 1..m : sessions[i] \in Pooled(sessions) /\ sessions[i] \notin Pooled(r)

LEMMA OldestGo ==
  ASSUME sessions \in Seq(PoolEntry), OnePerStream(sessions), NEW n \in Nat, n = Len(sessions), NEW m \in 1..n,
         NEW r, r = SubSeq(sessions, m + 1, n)
  PROVE  OldestGone(r, m) /\ Len(r) = n - m
  <1>1. PICK b \in Int : b = m + 1 OBVIOUS
  <1>2. \A i \in b..n : sessions[i] \in PoolEntry BY <1>1, ElementOfSeq
  <1>3. /\ r \in Seq(PoolEntry) /\ Len(r) = (IF b <= n THEN n - b + 1 ELSE 0)
        /\ \A i \in 1..(n - b + 1) : r[i] = sessions[b + i - 1]
    BY <1>1, <1>2, SubSeqProperties
  <1>4. Len(r) = n - m /\ \A i \in 1..(n - m) : i \in 1..(n - b + 1) /\ b + i - 1 = m + i BY <1>1, <1>3
  <1>5. \A i \in 1..(n - m) : r[i] = sessions[m + i] /\ m + i \in 1..n BY <1>3, <1>4
  <1>6. OnePerStream(r)
    <2>1. ASSUME NEW i \in 1..(n - m), NEW k \in 1..(n - m), r[i].stream = r[k].stream PROVE i = k
      <3>1. PICK x, y \in 1..n : x = m + i /\ y = m + k BY <1>5
      <3>2. sessions[x].stream = sessions[y].stream BY <1>5, <2>1, <3>1
      <3>3. x = y BY <3>2 DEF OnePerStream
      <3> QED BY <3>1, <3>3
    <2> QED BY <1>4, <2>1 DEF OnePerStream
  <1>7. ASSUME NEW i \in 1..m PROVE sessions[i] \notin Pooled(r) /\ sessions[i] \in Pooled(sessions)
    <2>1. ASSUME NEW k \in 1..(n - m), sessions[i] = r[k] PROVE FALSE
      <3>1. i \in 1..n /\ m + k \in 1..n /\ i # m + k OBVIOUS
      <3> QED BY <1>5, <2>1, <3>1 DEF OnePerStream
    <2>2. i \in 1..n OBVIOUS
    <2> QED BY <1>4, <2>1, <2>2 DEF Pooled
  <1>8. ASSUME NEW e \in Pooled(r) PROVE e \in Pooled(sessions) BY <1>4, <1>5 DEF Pooled
  <1>9. ASSUME NEW e \in Pooled(sessions) PROVE e \in Pooled(r) \/ \E i \in 1..m : e = sessions[i]
    <2>1. PICK a \in 1..n : e = sessions[a] BY DEF Pooled
    <2>2. CASE a <= m BY <2>1, <2>2
    <2>3. CASE ~(a <= m)
      <3>1. PICK i \in 1..(n - m) : m + i = a
        <4>1. a - m \in 1..(n - m) /\ m + (a - m) = a BY <2>3
        <4> QED BY <4>1
      <3> QED BY <1>4, <1>5, <2>1, <3>1 DEF Pooled
    <2> QED BY <2>2, <2>3
  <1> QED BY <1>3, <1>4, <1>6, <1>7, <1>8, <1>9 DEF OldestGone

(* What may be killed: entries that go, and shells nobody has.             *)
LEMMA KillIs ==
  ASSUME PoolTyped, NEW K, NEW p, p = Pool!Kill(K)
  PROVE  /\ p \in [Pool!Shells -> {"none", "alive", "dead"}]
         /\ \A k \in Pool!Shells : /\ k \in K => p[k] = "dead"
                                   /\ k \notin K => p[k] = process[k]
                                   /\ p[k] = "alive" => process[k] = "alive" /\ k \notin K
                                   /\ process[k] # "none" => p[k] # "none"
  BY DEF PoolTyped, Pool!Kill

LEMMA IdleCall ==
  ASSUME PoolBounds, NEW r \in Pool!Replies
  PROVE  /\ Pool!Idle \in PoolCall /\ Pool!Idle.pc = "idle"
         /\ [Pool!Idle EXCEPT !.reply = r] \in PoolCall /\ [Pool!Idle EXCEPT !.reply = r].pc = "idle"
  BY DEF PoolBounds, Pool!Idle, PoolCall, Pool!NoShell, Pool!Replies

(* One call changes: it starts with a shell, goes on with it, or ends.     *)
LEMMA OneCall ==
  ASSUME PoolTyped, NEW w \in Workers, NEW x \in PoolCall, call' = [call EXCEPT ![w] = x]
  PROVE  /\ call' \in [Workers -> PoolCall] /\ call'[w] = x
         /\ \A v \in Workers : v # w => call'[v] = call[v]
         /\ InCall' = IF x.pc = "idle" THEN InCall \ {w} ELSE InCall \cup {w}
  BY DEF PoolTyped, InCall

(* A call takes the stream's shell out of the pool, or a new one.          *)
LEMMA TakeShellKeeps ==
  ASSUME PoolBounds, PoolInv, NEW w \in Workers, NEW s \in Streams, Pool!TakeOrSpawn(w, s)
  PROVE  PoolInv'
  <1>1. PoolTyped /\ OnePerStream(sessions) /\ AtHome /\ Apart BY DEF PoolInv
  <1>2. call[w].pc = "idle" /\ w \notin InCall BY DEF Pool!TakeOrSpawn, InCall
  <1>3. /\ sessions' \in Seq(PoolEntry) /\ OnePerStream(sessions')
        /\ Pooled(sessions') = {e \in Pooled(sessions) : e.stream # s}
        /\ Pool!OfStream(s) = {} => sessions' = sessions
    BY <1>1, TakenOut DEF PoolTyped, Pool!TakeOrSpawn
  <1>4. PICK n \in Nat : n = Len(sessions) /\ DOMAIN sessions = 1..n BY <1>1, LenProperties DEF PoolTyped
  <1>5. \A e \in Pooled(sessions) : e \in PoolEntry BY <1>1, <1>4, ElementOfSeq DEF PoolTyped, Pooled
  <1>6. CASE \E i \in Pool!OfStream(s) :
               /\ process[sessions[i].shell] = "alive"
               /\ call' = [call EXCEPT ![w] = [pc |-> "ready", stream |-> s,
                                               shell |-> sessions[i].shell, reply |-> "none"]]
               /\ UNCHANGED <<process, home>>
    <2>1. PICK e \in Pooled(sessions) :
            /\ e.stream = s /\ UNCHANGED <<process, home>>
            /\ call' = [call EXCEPT ![w] = [pc |-> "ready", stream |-> s, shell |-> e.shell, reply |-> "none"]]
      BY <1>4, <1>6 DEF Pool!OfStream, Pooled
    <2> DEFINE x == [pc |-> "ready", stream |-> s, shell |-> e.shell, reply |-> "none"]
    <2>2. x \in PoolCall /\ x.pc = "ready" /\ x.stream = s /\ x.shell = e.shell /\ e \in PoolEntry
      BY <1>5 DEF PoolCall, PoolEntry, Pool!Replies
    <2>3. call' = [call EXCEPT ![w] = x] BY <2>1
    <2> HIDE DEF x
    <2>4. /\ call' \in [Workers -> PoolCall] /\ call'[w] = x /\ InCall' = InCall \cup {w}
          /\ \A v \in Workers : v # w => call'[v] = call[v]
      BY <1>1, <2>2, <2>3, OneCall
    <2>5. \A f \in Pooled(sessions) : f.stream = s <=> f = e
      BY <1>1, <1>4, <2>1 DEF OnePerStream, Pooled
    <2>6. PoolTyped' BY <1>1, <1>3, <2>1, <2>4 DEF PoolTyped
    <2>7. AtHome' BY <1>1, <1>3, <2>1, <2>2, <2>4 DEF AtHome, InCall, PoolEntry
    <2>8. Apart'
      <3>1. \A f \in Pooled(sessions) : f.shell = e.shell => f.stream = s BY <1>1, <2>1 DEF AtHome
      <3>2. \A v \in InCall : call[v].shell # e.shell BY <1>1 DEF Apart
      <3>3. \A v \in InCall : v # w BY <1>2
      <3>4. \A v \in InCall' : v = w \/ (v \in InCall /\ call'[v] = call[v]) BY <2>4 DEF InCall
      <3>5. ASSUME NEW k \in Pool!Shells, process'[k] = "alive"
            PROVE  (\E v \in InCall' : call'[v].shell = k) \/ (\E f \in Pooled(sessions)' : f.shell = k)
        <4>1. CASE \E v \in InCall : call[v].shell = k BY <2>4, <3>3, <4>1 DEF InCall
        <4>2. CASE \E f \in Pooled(sessions) : f.shell = k BY <1>3, <2>2, <2>4, <2>5, <4>2
        <4> QED BY <1>1, <2>1, <3>5, <4>1, <4>2 DEF Apart
      <3>6. \A v, u \in InCall' : call'[v].shell = call'[u].shell => v = u BY <1>1, <2>2, <2>4, <3>2, <3>4 DEF Apart
      <3>7. \A v \in InCall', f \in Pooled(sessions)' : call'[v].shell # f.shell
        BY <1>1, <1>3, <2>2, <2>4, <3>1, <3>4 DEF Apart
      <3> QED BY <3>5, <3>6, <3>7 DEF Apart
    <2> QED BY <1>3, <2>6, <2>7, <2>8 DEF PoolInv
  <1>7. CASE (\A i \in Pool!OfStream(s) : process[sessions[i].shell] = "dead") /\ Pool!Spawn(w, s)
    <2>1. PICK k \in Pool!Shells :
            /\ process[k] = "none" /\ process' = [process EXCEPT ![k] = "alive"] /\ home' = [home EXCEPT ![k] = s]
            /\ call' = [call EXCEPT ![w] = [pc |-> "spawned", stream |-> s, shell |-> k, reply |-> "none"]]
      BY <1>7 DEF Pool!Spawn
    <2> DEFINE x == [pc |-> "spawned", stream |-> s, shell |-> k, reply |-> "none"]
    <2>2. x \in PoolCall /\ x.pc = "spawned" /\ x.stream = s /\ x.shell = k BY DEF PoolCall, Pool!Replies
    <2>3. call' = [call EXCEPT ![w] = x] BY <2>1
    <2> HIDE DEF x
    <2>4. /\ call' \in [Workers -> PoolCall] /\ call'[w] = x /\ InCall' = InCall \cup {w}
          /\ \A v \in Workers : v # w => call'[v] = call[v]
      BY <1>1, <2>2, <2>3, OneCall
    <2>5. /\ process' \in [Pool!Shells -> {"none", "alive", "dead"}] /\ home' \in [Pool!Shells -> Streams]
          /\ process'[k] = "alive" /\ home'[k] = s
          /\ \A l \in Pool!Shells : l # k => process'[l] = process[l] /\ home'[l] = home[l]
      BY <1>1, <2>1 DEF PoolTyped
    <2>6. PoolTyped' BY <1>1, <1>3, <2>4, <2>5 DEF PoolTyped
    <2>7. \A v \in InCall : call[v].shell \in Pool!Shells /\ call[v].shell # k /\ v # w
      BY <1>1, <1>2, <2>1 DEF AtHome
    <2>8. \A e \in Pooled(sessions) : e.shell \in Pool!Shells /\ e.shell # k
      BY <1>1, <1>5, <2>1 DEF AtHome, PoolEntry
    <2>9. \A v \in InCall' : v = w \/ (v \in InCall /\ call'[v] = call[v]) BY <2>4 DEF InCall
    <2>10. AtHome'
      <3>1. \A v \in InCall' : /\ call'[v].shell \in Pool!Shells /\ process'[call'[v].shell] # "none"
                             /\ home'[call'[v].shell] = call'[v].stream
        BY <1>1, <2>2, <2>4, <2>5, <2>7, <2>9 DEF AtHome
      <3>2. \A e \in Pooled(sessions)' : process'[e.shell] # "none" /\ home'[e.shell] = e.stream
        BY <1>1, <1>3, <2>5, <2>8 DEF AtHome
      <3> QED BY <3>1, <3>2 DEF AtHome
    <2>11. Apart'
      <3>1. ASSUME NEW l \in Pool!Shells, process'[l] = "alive"
            PROVE  (\E v \in InCall' : call'[v].shell = l) \/ (\E f \in Pooled(sessions)' : f.shell = l)
        <4>1. CASE l = k BY <2>2, <2>4, <4>1
        <4>2. CASE l # k
          <5>1. process[l] = "alive" BY <2>5, <3>1, <4>2
          <5>2. CASE \E v \in InCall : call[v].shell = l BY <2>4, <2>7, <5>2 DEF InCall
          <5>3. CASE \E f \in Pooled(sessions) : f.shell = l
            <6>1. PICK f \in Pooled(sessions) : f.shell = l BY <5>3
            <6>2. f.stream # s
              <7>1. PICK i \in 1..n : f = sessions[i] BY <1>4, <6>1 DEF Pooled
              <7>2. i \in Pool!OfStream(s) => process[f.shell] = "dead" BY <1>7, <7>1
              <7> QED BY <1>4, <5>1, <6>1, <7>1, <7>2 DEF Pool!OfStream
            <6> QED BY <1>3, <6>1, <6>2
          <5> QED BY <1>1, <5>1, <5>2, <5>3 DEF Apart
        <4> QED BY <4>1, <4>2
      <3>2. \A v, u \in InCall' : call'[v].shell = call'[u].shell => v = u
        BY <1>1, <2>2, <2>4, <2>7, <2>9 DEF Apart
      <3>3. \A v \in InCall', f \in Pooled(sessions)' : call'[v].shell # f.shell
        BY <1>1, <1>3, <2>2, <2>4, <2>8, <2>9 DEF Apart
      <3> QED BY <3>1, <3>2, <3>3 DEF Apart
    <2> QED BY <1>3, <2>6, <2>10, <2>11 DEF PoolInv
  <1>8. CASE (\A i \in Pool!OfStream(s) : process[sessions[i].shell] = "dead") /\ Pool!SpawnFails(w, s)
    <2> DEFINE x == [call[w] EXCEPT !.reply = "shell_error"]
    <2>1. x \in PoolCall /\ x.pc = "idle" BY <1>1, <1>2 DEF PoolTyped, PoolCall, Pool!Replies
    <2>2. call' = [call EXCEPT ![w] = x] /\ UNCHANGED <<process, home>> BY <1>1, <1>8 DEF Pool!SpawnFails, PoolTyped
    <2> HIDE DEF x
    <2>3. /\ call' \in [Workers -> PoolCall] /\ InCall' = InCall
          /\ \A v \in Workers : v # w => call'[v] = call[v]
      <3>1. InCall \ {w} = InCall BY <1>2
      <3> QED BY <1>1, <2>1, <2>2, <3>1, OneCall
    <2>4. \A v \in InCall : v \in Workers /\ v # w /\ call'[v] = call[v] BY <1>2, <2>3 DEF InCall
    <2>5. PoolTyped' BY <1>1, <1>3, <2>2, <2>3 DEF PoolTyped
    <2>6. AtHome' BY <1>1, <1>3, <2>2, <2>3, <2>4 DEF AtHome
    <2>7. Apart'
      <3>1. ASSUME NEW l \in Pool!Shells, process[l] = "alive"
            PROVE  (\E v \in InCall : call[v].shell = l) \/ (\E f \in Pooled(sessions)' : f.shell = l)
        <4>1. CASE \E f \in Pooled(sessions) : f.shell = l
          <5>1. PICK f \in Pooled(sessions) : f.shell = l BY <4>1
          <5>2. PICK i \in 1..n : f = sessions[i] BY <1>4, <5>1 DEF Pooled
          <5>3. i \in Pool!OfStream(s) => process[f.shell] = "dead" BY <1>8, <5>2
          <5>4. f.stream # s BY <1>4, <3>1, <5>1, <5>2, <5>3 DEF Pool!OfStream
          <5> QED BY <1>3, <5>1, <5>4
        <4> QED BY <1>1, <3>1, <4>1 DEF Apart
      <3> QED BY <1>1, <1>3, <2>2, <2>3, <2>4, <3>1 DEF Apart
    <2> QED BY <1>3, <2>5, <2>6, <2>7 DEF PoolInv
  <1> QED BY <1>6, <1>7, <1>8 DEF Pool!TakeOrSpawn


(* The oldest go, and their shells with them.                              *)
LEMMA OldestAreKilled ==
  ASSUME PoolInv, NEW n \in Nat, n = Len(sessions), NEW m \in 1..n,
         sessions' = SubSeq(sessions, m + 1, n),
         process' = Pool!Kill({sessions[i].shell : i \in 1..m}), UNCHANGED home,
         call' \in [Workers -> PoolCall],
         \A w \in Workers : call'[w].shell = call[w].shell /\ call'[w].stream = call[w].stream,
         InCall' = InCall
  PROVE  PoolInv'
  <1>1. PoolTyped /\ OnePerStream(sessions) /\ AtHome /\ Apart BY DEF PoolInv
  <1>2. /\ sessions' \in Seq(PoolEntry) /\ OnePerStream(sessions')
        /\ \A e \in Pooled(sessions') : e \in Pooled(sessions)
        /\ \A e \in Pooled(sessions) : e \in Pooled(sessions') \/ \E i \in 1..m : e = sessions[i]
        /\ \A i \in 1..m : sessions[i] \in Pooled(sessions) /\ sessions[i] \notin Pooled(sessions')
    <2>1. PICK r : r = SubSeq(sessions, m + 1, n) OBVIOUS
    <2>2. sessions \in Seq(PoolEntry) /\ OnePerStream(sessions) BY <1>1 DEF PoolTyped
    <2>3. OldestGone(r, m) BY <2>1, <2>2, OldestGo
    <2> QED BY <2>1, <2>3 DEF OldestGone
  <1>3. \A e \in Pooled(sessions) : e \in PoolEntry BY <1>1, ElementOfSeq DEF PoolTyped, Pooled
  <1>4. \A e, f \in Pooled(sessions) : e.shell = f.shell => e = f
    <2>1. \A e, f \in Pooled(sessions) : e.shell = f.shell => e.stream = f.stream BY <1>1 DEF AtHome
    <2>2. ASSUME NEW e \in Pooled(sessions), NEW f \in Pooled(sessions), e.shell = f.shell PROVE e = f
      <3>1. PICK i \in 1..n : e = sessions[i] BY DEF Pooled
      <3>2. PICK j \in 1..n : f = sessions[j] BY DEF Pooled
      <3> QED BY <1>1, <2>1, <2>2, <3>1, <3>2 DEF OnePerStream
    <2> QED BY <2>2
  <1>5. PICK K : K = {sessions[i].shell : i \in 1..m} OBVIOUS
  <1>6. \A k \in K : \E e \in Pooled(sessions) : e.shell = k /\ e \notin Pooled(sessions')
    BY <1>2, <1>5
  <1>7. \A e \in Pooled(sessions') : e \in Pooled(sessions) /\ e.shell \notin K BY <1>2, <1>4, <1>6
  <1>8. \A e \in Pooled(sessions) : e \notin Pooled(sessions') => e.shell \in K BY <1>2, <1>5
  <1>9. /\ process' \in [Pool!Shells -> {"none", "alive", "dead"}]
        /\ \A k \in Pool!Shells : /\ process'[k] = "alive" => process[k] = "alive" /\ k \notin K
                                  /\ process[k] # "none" => process'[k] # "none"
    BY <1>1, <1>5, KillIs
  <1>10. PoolTyped' BY <1>1, <1>2, <1>9 DEF PoolTyped
  <1>11. \A w \in InCall : w \in Workers BY DEF InCall
  <1>12. AtHome'
    <2>1. \A w \in InCall' : /\ call'[w].shell \in Pool!Shells /\ process'[call'[w].shell] # "none"
                           /\ home'[call'[w].shell] = call'[w].stream
      BY <1>1, <1>9, <1>11 DEF AtHome
    <2>2. \A e \in Pooled(sessions') : process'[e.shell] # "none" /\ home'[e.shell] = e.stream
      BY <1>1, <1>3, <1>7, <1>9 DEF AtHome, PoolEntry
    <2> QED BY <2>1, <2>2 DEF AtHome
  <1>13. Apart'
    <2>1. ASSUME NEW k \in Pool!Shells, process'[k] = "alive"
          PROVE  (\E w \in InCall : call[w].shell = k) \/ (\E e \in Pooled(sessions') : e.shell = k)
      <3>1. process[k] = "alive" /\ k \notin K BY <1>9, <2>1
      <3> QED BY <1>1, <1>8, <3>1 DEF Apart
    <2>2. \A w, v \in InCall' : call'[w].shell = call'[v].shell => w = v BY <1>1, <1>11 DEF Apart
    <2>3. \A w \in InCall', e \in Pooled(sessions') : call'[w].shell # e.shell BY <1>1, <1>7, <1>11 DEF Apart
    <2>4. \A k \in Pool!Shells : process'[k] = "alive" =>
            (\E w \in InCall' : call'[w].shell = k) \/ (\E e \in Pooled(sessions') : e.shell = k)
      BY <1>11, <2>1
    <2> QED BY <2>2, <2>3, <2>4 DEF Apart
  <1> QED BY <1>2, <1>10, <1>12, <1>13 DEF PoolInv

(* Nobody comes or goes, and at most a shell dies.                         *)
LEMMA ShellsDie ==
  ASSUME PoolInv, NEW K, process' = Pool!Kill(K) \/ UNCHANGED process, UNCHANGED <<sessions, home>>,
         call' \in [Workers -> PoolCall],
         \A w \in Workers : call'[w].shell = call[w].shell /\ call'[w].stream = call[w].stream,
         InCall' = InCall
  PROVE  PoolInv'
  <1>1. PoolTyped /\ OnePerStream(sessions) /\ AtHome /\ Apart BY DEF PoolInv
  <1>2. /\ process' \in [Pool!Shells -> {"none", "alive", "dead"}]
        /\ \A k \in Pool!Shells : /\ process'[k] = "alive" => process[k] = "alive"
                                  /\ process[k] # "none" => process'[k] # "none"
    <2>1. CASE process' = Pool!Kill(K) BY <1>1, <2>1, KillIs
    <2>2. CASE UNCHANGED process BY <1>1, <2>2 DEF PoolTyped
    <2> QED BY <2>1, <2>2
  <1>3. \A e \in Pooled(sessions) : e \in PoolEntry BY <1>1, ElementOfSeq DEF PoolTyped, Pooled
  <1>4. \A w \in InCall : w \in Workers BY DEF InCall
  <1>5. PoolTyped' BY <1>1, <1>2 DEF PoolTyped
  <1>6. AtHome' BY <1>1, <1>2, <1>3, <1>4 DEF AtHome, PoolEntry
  <1>7. Apart' BY <1>1, <1>2, <1>4 DEF Apart
  <1> QED BY <1>1, <1>5, <1>6, <1>7 DEF PoolInv

LEMMA CallGoesOn ==
  ASSUME PoolTyped, NEW w \in Workers, call[w].pc # "idle",
         NEW pc \in {"spawned", "ready", "ran"}, NEW r \in Pool!Replies,
         call' = [call EXCEPT ![w].pc = pc, ![w].reply = r] \/ call' = [call EXCEPT ![w].pc = pc]
  PROVE  /\ call' \in [Workers -> PoolCall] /\ InCall' = InCall
         /\ \A v \in Workers : call'[v].shell = call[v].shell /\ call'[v].stream = call[v].stream
         /\ call'[w].pc = pc /\ \A v \in Workers : v # w => call'[v] = call[v]
  <1>1. call \in [Workers -> PoolCall] BY DEF PoolTyped
  <1>2. PICK x \in PoolCall : call' = [call EXCEPT ![w] = x] /\ x.pc = pc /\ x.shell = call[w].shell /\ x.stream = call[w].stream
    <2>1. CASE call' = [call EXCEPT ![w].pc = pc, ![w].reply = r]
      <3> DEFINE y == [call[w] EXCEPT !.pc = pc, !.reply = r]
      <3>1. y \in PoolCall /\ y.pc = pc /\ y.shell = call[w].shell /\ y.stream = call[w].stream BY <1>1 DEF PoolCall
      <3>2. call' = [call EXCEPT ![w] = y] BY <1>1, <2>1
      <3> HIDE DEF y
      <3> QED BY <3>1, <3>2
    <2>2. CASE call' = [call EXCEPT ![w].pc = pc]
      <3> DEFINE y == [call[w] EXCEPT !.pc = pc]
      <3>1. y \in PoolCall /\ y.pc = pc /\ y.shell = call[w].shell /\ y.stream = call[w].stream BY <1>1 DEF PoolCall
      <3>2. call' = [call EXCEPT ![w] = y] BY <1>1, <2>2
      <3> HIDE DEF y
      <3> QED BY <3>1, <3>2
    <2> QED BY <2>1, <2>2
  <1>3. call' \in [Workers -> PoolCall] /\ call'[w] = x /\ \A v \in Workers : v # w => call'[v] = call[v]
    BY <1>1, <1>2
  <1>4. InCall' = InCall BY <1>2, <1>3 DEF InCall
  <1> QED BY <1>2, <1>3, <1>4

LEMMA EvictKeeps ==
  ASSUME PoolInv, NEW w \in Workers, Pool!EvictLruIfFull(w) PROVE PoolInv'
  <1>1. PoolTyped BY DEF PoolInv
  <1>2. call[w].pc # "idle" /\ call' = [call EXCEPT ![w].pc = "ready"] /\ UNCHANGED home BY DEF Pool!EvictLruIfFull
  <1>3. /\ call' \in [Workers -> PoolCall] /\ InCall' = InCall
        /\ \A v \in Workers : call'[v].shell = call[v].shell /\ call'[v].stream = call[v].stream
    <2>1. "none" \in Pool!Replies BY DEF Pool!Replies
    <2> QED BY <1>1, <1>2, <2>1, CallGoesOn
  <1>4. CASE UNCHANGED <<sessions, process>> BY <1>2, <1>3, <1>4, ShellsDie
  <1>5. CASE sessions # << >> /\ sessions' = Tail(sessions) /\ process' = Pool!Kill({Head(sessions).shell})
    <2>1. PICK n \in Nat : n = Len(sessions) /\ n >= 1
      BY <1>1, <1>5, LenProperties, EmptySeq DEF PoolTyped
    <2>2. 1 \in 1..n /\ Tail(sessions) = SubSeq(sessions, 2, n) /\ Head(sessions) = sessions[1]
      BY <1>1, <1>5, <2>1, TailIsSubSeq DEF PoolTyped
    <2>3. {Head(sessions).shell} = {sessions[i].shell : i \in 1..1} BY <2>2
    <2>4. sessions' = SubSeq(sessions, 1 + 1, n) /\ process' = Pool!Kill({sessions[i].shell : i \in 1..1})
      <3>1. 1 + 1 = 2 OBVIOUS
      <3> QED BY <1>5, <2>2, <2>3, <3>1
    <2> QED BY <1>2, <1>3, <2>1, <2>2, <2>4, OldestAreKilled
  <1> QED BY <1>4, <1>5 DEF Pool!EvictLruIfFull

LEMMA ExecuteKeeps ==
  ASSUME PoolInv, NEW w \in Workers, Pool!Execute(w) \/ Pool!ExecuteHangs(w) \/ Pool!ExecuteOnDead(w)
  PROVE  PoolInv'
  <1>1. PoolTyped BY DEF PoolInv
  <1>2. PICK r \in Pool!Replies : call[w].pc = "ready" /\ call' = [call EXCEPT ![w].pc = "ran", ![w].reply = r]
    BY DEF Pool!Execute, Pool!ExecuteHangs, Pool!ExecuteOnDead, Pool!Replies
  <1>3. /\ call' \in [Workers -> PoolCall] /\ InCall' = InCall
        /\ \A v \in Workers : call'[v].shell = call[v].shell /\ call'[v].stream = call[v].stream
    BY <1>1, <1>2, CallGoesOn
  <1>4. (process' = Pool!Kill({call[w].shell}) \/ UNCHANGED process) /\ UNCHANGED <<sessions, home>>
    BY DEF Pool!Execute, Pool!ExecuteHangs, Pool!ExecuteOnDead
  <1> QED BY <1>3, <1>4, ShellsDie

(* The entry of a stream is dropped with its shell. *)
LEMMA CloseKeeps ==
  ASSUME PoolInv, NEW s \in Streams, Pool!CloseSession(s) PROVE PoolInv'
  <1>1. PoolTyped /\ OnePerStream(sessions) /\ AtHome /\ Apart /\ UNCHANGED <<home, call>>
    BY DEF PoolInv, Pool!CloseSession
  <1>2. /\ sessions' \in Seq(PoolEntry) /\ OnePerStream(sessions')
        /\ Pooled(sessions') = {e \in Pooled(sessions) : e.stream # s}
    BY <1>1, TakenOut DEF PoolTyped, Pool!CloseSession
  <1>3. \A e \in Pooled(sessions) : e \in PoolEntry BY <1>1, ElementOfSeq DEF PoolTyped, Pooled
  <1>4. PICK K : K = {sessions[i].shell : i \in Pool!OfStream(s)} OBVIOUS
  <1>5. \A k : k \in K <=> \E e \in Pooled(sessions) : e.stream = s /\ e.shell = k
    <2>1. DOMAIN sessions = 1..Len(sessions) BY <1>1, LenProperties DEF PoolTyped
    <2> QED BY <1>4, <2>1 DEF Pool!OfStream, Pooled
  <1>6. /\ process' \in [Pool!Shells -> {"none", "alive", "dead"}]
        /\ \A k \in Pool!Shells : /\ process'[k] = "alive" => process[k] = "alive" /\ k \notin K
                                  /\ process[k] # "none" => process'[k] # "none"
    BY <1>1, <1>4, KillIs DEF Pool!CloseSession
  <1>7. PoolTyped' BY <1>1, <1>2, <1>6 DEF PoolTyped
  <1>8. InCall' = InCall BY <1>1 DEF InCall
  <1>9. AtHome' BY <1>1, <1>2, <1>3, <1>6, <1>8 DEF AtHome, PoolEntry
  <1>10. Apart' BY <1>1, <1>2, <1>5, <1>6, <1>8 DEF Apart
  <1> QED BY <1>2, <1>7, <1>9, <1>10 DEF PoolInv

(* The shell goes back, in the place of another of its stream. *)
LEMMA GiveBackKeeps ==
  ASSUME PoolBounds, PoolInv, NEW w \in Workers, Pool!GiveBack(w) PROVE PoolInv'
  <1>1. PoolTyped /\ OnePerStream(sessions) /\ AtHome /\ Apart BY DEF PoolInv
  <1>2. w \in InCall /\ call[w] \in PoolCall /\ UNCHANGED home BY <1>1 DEF Pool!GiveBack, InCall, PoolTyped
  <1>3. PICK s \in Streams, k \in Pool!Shells :
          s = call[w].stream /\ k = call[w].shell /\ process[k] # "none" /\ home[k] = s
    BY <1>1, <1>2 DEF AtHome, PoolCall
  <1>4. PICK x \in PoolCall : x.pc = "idle" /\ call' = [call EXCEPT ![w] = x]
    <2>1. call[w].reply \in Pool!Replies BY <1>2 DEF PoolCall
    <2> QED BY <2>1, IdleCall DEF Pool!GiveBack
  <1>5. /\ call' \in [Workers -> PoolCall] /\ InCall' = InCall \ {w}
        /\ \A v \in Workers : v # w => call'[v] = call[v]
    BY <1>1, <1>4, OneCall
  <1>6. \A v \in InCall' : v \in InCall /\ v # w /\ call'[v] = call[v] BY <1>5 DEF InCall
  <1>7. \A v \in InCall : v # w => v \in InCall' /\ call[v].shell # k BY <1>1, <1>2, <1>3, <1>5 DEF Apart
  <1>8. \A e \in Pooled(sessions) : e \in PoolEntry BY <1>1, ElementOfSeq DEF PoolTyped, Pooled
  <1>9. CASE process[k] = "alive"
    <2>1. /\ sessions' = Append(Pool!Without(s), [stream |-> s, shell |-> k])
          /\ process' = Pool!Kill({sessions[i].shell : i \in Pool!OfStream(s)})
      BY <1>3, <1>9 DEF Pool!GiveBack
    <2>2. PICK q : q = Pool!Without(s) OBVIOUS
    <2>3. /\ q \in Seq(PoolEntry) /\ OnePerStream(q)
          /\ Pooled(q) = {e \in Pooled(sessions) : e.stream # s}
      BY <1>1, <2>2, TakenOut DEF PoolTyped
    <2>4. PICK e \in PoolEntry : e = [stream |-> s, shell |-> k] /\ e.stream = s /\ e.shell = k
      <3>1. [stream |-> s, shell |-> k] \in PoolEntry BY DEF PoolEntry
      <3> QED BY <3>1
    <2>5. /\ sessions' \in Seq(PoolEntry) /\ OnePerStream(sessions')
          /\ Pooled(sessions') = Pooled(q) \cup {e}
      BY <2>1, <2>2, <2>3, <2>4, PutBack
    <2>6. PICK K : K = {sessions[i].shell : i \in Pool!OfStream(s)} OBVIOUS
    <2>7. \A l : l \in K <=> \E f \in Pooled(sessions) : f.stream = s /\ f.shell = l
      <3>1. DOMAIN sessions = 1..Len(sessions) BY <1>1, LenProperties DEF PoolTyped
      <3> QED BY <2>6, <3>1 DEF Pool!OfStream, Pooled
    <2>8. /\ process' \in [Pool!Shells -> {"none", "alive", "dead"}]
          /\ \A l \in Pool!Shells : /\ process'[l] = "alive" => process[l] = "alive" /\ l \notin K
                                    /\ process[l] # "none" => process'[l] # "none"
      BY <1>1, <2>1, <2>6, KillIs
    <2>9. PoolTyped' BY <1>1, <1>2, <1>5, <2>5, <2>8 DEF PoolTyped
    <2>10. \A f \in Pooled(sessions') : f = e \/ (f \in Pooled(sessions) /\ f.stream # s) BY <2>3, <2>5
    <2>11. AtHome'
      <3>1. \A v \in InCall' : /\ call'[v].shell \in Pool!Shells /\ process'[call'[v].shell] # "none"
                             /\ home'[call'[v].shell] = call'[v].stream
        BY <1>1, <1>2, <1>6, <2>8 DEF AtHome
      <3>2. \A f \in Pooled(sessions') : process'[f.shell] # "none" /\ home'[f.shell] = f.stream
        BY <1>1, <1>2, <1>3, <1>8, <2>4, <2>8, <2>10 DEF AtHome, PoolEntry
      <3> QED BY <3>1, <3>2 DEF AtHome
    <2>12. Apart'
      <3>1. \A v, u \in InCall' : call'[v].shell = call'[u].shell => v = u BY <1>1, <1>6 DEF Apart
      <3>2. \A v \in InCall', f \in Pooled(sessions') : call'[v].shell # f.shell
        BY <1>1, <1>6, <1>7, <2>4, <2>10 DEF Apart
      <3>3. ASSUME NEW l \in Pool!Shells, process'[l] = "alive"
            PROVE  (\E v \in InCall' : call'[v].shell = l) \/ (\E f \in Pooled(sessions') : f.shell = l)
        <4>1. process[l] = "alive" /\ l \notin K BY <2>8, <3>3
        <4>2. CASE l = k BY <2>4, <2>5, <4>2
        <4>3. CASE l # k /\ \E v \in InCall : call[v].shell = l BY <1>3, <1>6, <1>7, <4>3
        <4>4. CASE \E f \in Pooled(sessions) : f.shell = l BY <2>3, <2>5, <2>7, <4>1, <4>4
        <4> QED BY <1>1, <4>1, <4>2, <4>3, <4>4 DEF Apart
      <3> QED BY <3>1, <3>2, <3>3 DEF Apart
    <2> QED BY <2>5, <2>9, <2>11, <2>12 DEF PoolInv
  <1>10. CASE process[k] # "alive"
    <2>1. UNCHANGED <<sessions, process>> BY <1>3, <1>10 DEF Pool!GiveBack
    <2>2. PoolTyped' BY <1>1, <1>2, <1>5, <2>1 DEF PoolTyped
    <2>3. AtHome' BY <1>1, <1>2, <1>6, <2>1 DEF AtHome
    <2>4. Apart'
      <3>1. ASSUME NEW l \in Pool!Shells, process[l] = "alive"
            PROVE  (\E v \in InCall' : call'[v].shell = l) \/ (\E f \in Pooled(sessions) : f.shell = l)
        BY <1>1, <1>3, <1>6, <1>7, <1>10, <3>1 DEF Apart
      <3> QED BY <1>1, <1>6, <2>1, <3>1 DEF Apart
    <2> QED BY <1>1, <2>1, <2>2, <2>3, <2>4 DEF PoolInv
  <1> QED BY <1>9, <1>10


LEMMA ReapKeeps == ASSUME PoolInv, Pool!ReapIdle PROVE PoolInv'
  <1>1. PoolTyped /\ UNCHANGED <<home, call>> BY DEF PoolInv, Pool!ReapIdle
  <1>2. PICK n \in Nat : n = Len(sessions) BY <1>1, LenProperties DEF PoolTyped
  <1>3. PICK m \in 1..n : /\ sessions' = SubSeq(sessions, m + 1, n)
                          /\ process' = Pool!Kill({sessions[i].shell : i \in 1..m})
    BY <1>2 DEF Pool!ReapIdle
  <1>4. call' \in [Workers -> PoolCall] /\ InCall' = InCall BY <1>1 DEF PoolTyped, InCall
  <1> QED BY <1>1, <1>2, <1>3, <1>4, OldestAreKilled

LEMMA InitPool == ASSUME PoolBounds, Pool!Init PROVE PoolInv
  <1>1. << >> \in Seq(PoolEntry) /\ Len(<< >>) = 0 OBVIOUS
  <1>2. Pool!Idle \in PoolCall /\ Pool!Idle.pc = "idle"
    <2>1. "none" \in Pool!Replies BY DEF Pool!Replies
    <2> QED BY <2>1, IdleCall
  <1>3. (CHOOSE s \in Streams : TRUE) \in Streams BY DEF PoolBounds
  <1>4. PoolTyped BY <1>1, <1>2, <1>3 DEF Pool!Init, PoolTyped
  <1>5. InCall = {} /\ Pooled(sessions) = {} /\ OnePerStream(sessions)
    BY <1>1, <1>2 DEF Pool!Init, InCall, Pooled, OnePerStream
  <1>6. AtHome BY <1>5 DEF AtHome
  <1>7. Apart BY <1>5 DEF Apart, Pool!Init
  <1> QED BY <1>4, <1>5, <1>6, <1>7 DEF PoolInv

(* Of the shells no two callers and entries ever have the same, and a live *)
(* one always has somebody who will close it.                              *)
THEOREM PoolInvariant == ASSUME PoolBounds PROVE Pool!Spec => []PoolInv
  <1>1. PoolInv /\ [Pool!Next]_Pool!vars => PoolInv'
    <2> SUFFICES ASSUME PoolInv, [Pool!Next]_Pool!vars PROVE PoolInv' OBVIOUS
    <2>1. CASE UNCHANGED Pool!vars
      BY <2>1 DEF Pool!vars, PoolInv, PoolTyped, OnePerStream, AtHome, Apart, InCall, Pooled
    <2>2. ASSUME NEW w \in Workers, Pool!RunCommand(w) PROVE PoolInv'
      BY <2>2, TakeShellKeeps, EvictKeeps, ExecuteKeeps, GiveBackKeeps DEF Pool!RunCommand
    <2>3. ASSUME NEW s \in Streams, Pool!CloseSession(s) PROVE PoolInv' BY <2>3, CloseKeeps
    <2>4. CASE Pool!ReapIdle BY <2>4, ReapKeeps
    <2>5. ASSUME NEW k \in Pool!Shells, Pool!ShellDies(k) PROVE PoolInv'
      <3>1. call' \in [Workers -> PoolCall] /\ InCall' = InCall /\ UNCHANGED call
        BY <2>5 DEF Pool!ShellDies, PoolInv, PoolTyped, InCall
      <3> QED BY <2>5, <3>1, ShellsDie DEF Pool!ShellDies
    <2> QED BY <2>1, <2>2, <2>3, <2>4, <2>5 DEF Pool!Next
  <1> QED BY <1>1, InitPool, PTL DEF Pool!Spec

(* A live shell has one holder, a call or an entry of the pool, and is of  *)
(* the stream it was spawned for.                                          *)
THEOREM ShellsAreKeptApart == ASSUME PoolBounds PROVE Pool!Spec => []Pool!OneHolder
  <1>1. PoolInv => Pool!OneHolder
    <2> SUFFICES ASSUME PoolInv PROVE Pool!OneHolder OBVIOUS
    <2>1. PoolTyped /\ OnePerStream(sessions) /\ AtHome /\ Apart BY DEF PoolInv
    <2>2. PICK n \in Nat : n = Len(sessions) /\ DOMAIN sessions = 1..n BY <2>1, LenProperties DEF PoolTyped
    <2>3. \A i \in 1..n : sessions[i] \in Pooled(sessions) BY <2>2 DEF Pooled
    <2>4. \A i, j \in 1..n : sessions[i].shell = sessions[j].shell => i = j
      BY <2>1, <2>2, <2>3 DEF AtHome, OnePerStream
    <2>5. ASSUME NEW k \in Pool!Live PROVE Pool!Cardinality(Pool!Holders(k)) = 1
      <3>1. k \in Pool!Shells /\ process[k] = "alive" BY DEF Pool!Live
      <3>2. Pool!Holders(k) = {w \in InCall : call[w].shell = k} \cup {i \in 1..n : sessions[i].shell = k}
        BY <2>2 DEF Pool!Holders, InCall
      <3>3. \E h : Pool!Holders(k) = {h}
        <4>1. CASE \E w \in InCall : call[w].shell = k
          <5>1. PICK w \in InCall : call[w].shell = k BY <4>1
          <5>2. {v \in InCall : call[v].shell = k} = {w} BY <2>1, <5>1 DEF Apart
          <5>3. {i \in 1..n : sessions[i].shell = k} = {} BY <2>1, <2>3, <5>1 DEF Apart
          <5> QED BY <3>2, <5>2, <5>3
        <4>2. CASE ~ \E w \in InCall : call[w].shell = k
          <5>1. PICK i \in 1..n : sessions[i].shell = k BY <2>1, <2>2, <3>1, <4>2 DEF Apart, Pooled
          <5>2. {j \in 1..n : sessions[j].shell = k} = {i} BY <2>4, <5>1
          <5>3. {w \in InCall : call[w].shell = k} = {} BY <4>2
          <5> QED BY <3>2, <5>2, <5>3
        <4> QED BY <4>1, <4>2
      <3>4. Cardinality(Pool!Holders(k)) = 1 BY <3>3, FS_Singleton
      <3> QED BY <3>4 DEF Pool!Cardinality, Cardinality
    <2> QED BY <2>1, <2>2, <2>3, <2>5 DEF Pool!OneHolder, AtHome, InCall
  <1> QED BY <1>1, PoolInvariant, PTL

-----------------------------------------------------------------------------
(* The pool may hold something, and the callers are finitely many. *)
PoolCapacity == PoolBounds /\ MaxSessions \in Nat \ {0} /\ IsFiniteSet(Workers)

(* Calls that may put a shell back, the capacity behind them.              *)
Returning == {w \in Workers : call[w].pc \in {"ready", "ran"}}

(* Only an entry that is in the pool, or was when its call took it out, is *)
(* put back beyond the limit.                                              *)
RoomInv == PoolInv /\ Len(sessions) + Cardinality(Returning) < MaxSessions + Cardinality(Workers)

LEMMA ReturningIs ==
  ASSUME PoolCapacity
  PROVE  /\ IsFiniteSet(Returning) /\ Cardinality(Returning) \in Nat /\ Cardinality(Workers) \in Nat
         /\ Cardinality(Returning) <= Cardinality(Workers)
         /\ \A w \in Workers : /\ Cardinality(Returning \ {w}) <= Cardinality(Returning)
                               /\ w \in Returning => Cardinality(Returning \ {w}) = Cardinality(Returning) - 1
                               /\ Cardinality(Returning \ {w}) \in Nat
                               /\ Cardinality(Returning \cup {w}) <= Cardinality(Returning) + 1
                               /\ Cardinality(Returning \cup {w}) <= Cardinality(Workers)
                               /\ Cardinality(Returning \cup {w}) \in Nat
  <1>1. IsFiniteSet(Workers) /\ Returning \in SUBSET Workers BY DEF PoolCapacity, Returning
  <1>2. IsFiniteSet(Returning) /\ Cardinality(Returning) <= Cardinality(Workers) BY <1>1, FS_Subset
  <1>3. Cardinality(Returning) \in Nat /\ Cardinality(Workers) \in Nat BY <1>1, <1>2, FS_CardinalityType
  <1>4. ASSUME NEW w \in Workers
        PROVE  /\ Cardinality(Returning \ {w}) <= Cardinality(Returning)
               /\ w \in Returning => Cardinality(Returning \ {w}) = Cardinality(Returning) - 1
               /\ Cardinality(Returning \ {w}) \in Nat
               /\ Cardinality(Returning \cup {w}) <= Cardinality(Returning) + 1
               /\ Cardinality(Returning \cup {w}) <= Cardinality(Workers)
               /\ Cardinality(Returning \cup {w}) \in Nat
    <2>1. /\ IsFiniteSet(Returning \ {w})
          /\ Cardinality(Returning \ {w}) = (IF w \in Returning THEN Cardinality(Returning) - 1 ELSE Cardinality(Returning))
      BY <1>2, FS_RemoveElement
    <2>2. /\ IsFiniteSet(Returning \cup {w})
          /\ Cardinality(Returning \cup {w}) = (IF w \in Returning THEN Cardinality(Returning) ELSE Cardinality(Returning) + 1)
      BY <1>2, FS_AddElement
    <2>3. Returning \cup {w} \in SUBSET Workers BY <1>1
    <2>4. Cardinality(Returning \cup {w}) <= Cardinality(Workers) BY <1>1, <2>3, FS_Subset
    <2>5. Cardinality(Returning \ {w}) \in Nat BY <2>1, FS_CardinalityType
    <2> QED BY <1>3, <2>1, <2>2, <2>4, <2>5
  <1> QED BY <1>2, <1>3, <1>4


(* One call comes nearer to giving back, or takes its entry out for it.    *)
LEMMA RoomStep ==
  ASSUME PoolCapacity, RoomInv, PoolInv', NEW w \in Workers,
         \/ Len(sessions') <= Len(sessions) /\ Returning' = Returning
         \/ Len(sessions') < Len(sessions) /\ Returning' = Returning \cup {w}
         \/ Len(sessions') < MaxSessions /\ Returning' = Returning \cup {w}
         \/ Len(sessions') <= Len(sessions) + 1 /\ w \in Returning /\ Returning' = Returning \ {w}
  PROVE  RoomInv'
  <1>1. PICK l, m, x, r, n \in Nat :
          /\ l = Len(sessions) /\ m = Len(sessions') /\ x = MaxSessions
          /\ r = Cardinality(Returning) /\ n = Cardinality(Workers)
    <2>1. Len(sessions) \in Nat BY LenProperties DEF RoomInv, PoolInv, PoolTyped
    <2>2. Len(sessions') \in Nat BY LenProperties DEF PoolInv, PoolTyped
    <2> QED BY <2>1, <2>2, ReturningIs DEF PoolCapacity
  <1>2. l + r < x + n BY <1>1 DEF RoomInv
  <1>3. r <= n BY <1>1, ReturningIs
  <1>4. CASE m <= l /\ Returning' = Returning
    <2>1. m + r < x + n BY <1>2, <1>4
    <2> QED BY <1>1, <1>4, <2>1 DEF RoomInv
  <1>5. CASE (m < l \/ m < x) /\ Returning' = Returning \cup {w}
    <2>1. PICK p \in Nat : p = Cardinality(Returning \cup {w}) /\ p <= r + 1 /\ p <= n BY <1>1, ReturningIs
    <2>2. m + p < x + n BY <1>2, <1>5, <2>1
    <2> QED BY <1>1, <1>5, <2>1, <2>2 DEF RoomInv
  <1>6. CASE m <= l + 1 /\ w \in Returning /\ Returning' = Returning \ {w}
    <2>1. PICK p \in Nat : p = Cardinality(Returning \ {w}) /\ p = r - 1 BY <1>1, <1>6, ReturningIs
    <2>2. m + p < x + n BY <1>2, <1>6, <2>1
    <2> QED BY <1>1, <1>6, <2>1, <2>2 DEF RoomInv
  <1> QED BY <1>1, <1>4, <1>5, <1>6

LEMMA CallsKeepRoom ==
  ASSUME PoolCapacity, RoomInv, PoolInv', NEW w \in Workers, Pool!RunCommand(w) PROVE RoomInv'
  <1>1. PoolInv /\ PoolTyped /\ OnePerStream(sessions) /\ sessions \in Seq(PoolEntry) BY DEF RoomInv, PoolInv, PoolTyped
  <1>2. PICK n \in Nat : n = Len(sessions) BY <1>1, LenProperties
  <1>3. call \in [Workers -> PoolCall] BY <1>1 DEF PoolTyped
  <1>4. ASSUME NEW s \in Streams, Pool!TakeOrSpawn(w, s) PROVE RoomInv'
    <2>1. w \notin Returning BY <1>4 DEF Pool!TakeOrSpawn, Returning
    <2>2. Len(sessions') = IF Pool!OfStream(s) = {} THEN n ELSE n - 1
      BY <1>1, <1>2, <1>4, TakenOut DEF Pool!TakeOrSpawn
    <2>3. CASE \E i \in Pool!OfStream(s) :
                 call' = [call EXCEPT ![w] = [pc |-> "ready", stream |-> s, shell |-> sessions[i].shell, reply |-> "none"]]
      <3>1. Returning' = Returning \cup {w} BY <1>3, <2>3 DEF Returning
      <3>2. Len(sessions') < n BY <1>2, <2>2, <2>3
      <3> QED BY <1>2, <3>1, <3>2, RoomStep
    <2>4. CASE Pool!Spawn(w, s) \/ Pool!SpawnFails(w, s)
      <3>1. Returning' = Returning
        BY <1>3, <2>1, <2>4 DEF Returning, Pool!Spawn, Pool!SpawnFails, PoolCall
      <3> QED BY <1>2, <2>2, <3>1, RoomStep
    <2> QED BY <1>4, <2>3, <2>4 DEF Pool!TakeOrSpawn
  <1>5. CASE Pool!EvictLruIfFull(w)
    <2>1. Returning' = Returning \cup {w} BY <1>3, <1>5 DEF Returning, Pool!EvictLruIfFull
    <2>2. Len(sessions') < MaxSessions \/ Len(sessions') < n
      <3>1. 0 < MaxSessions /\ Len(<< >>) = 0 BY DEF PoolCapacity
      <3>2. CASE sessions # << >> /\ sessions' = Tail(sessions)
        <4>1. Len(sessions') = n - 1 BY <1>1, <1>2, <3>2, HeadTailProperties
        <4> QED BY <4>1
      <3> QED BY <1>5, <3>1, <3>2 DEF Pool!EvictLruIfFull
    <2> QED BY <1>2, <2>1, <2>2, RoomStep
  <1>6. CASE Pool!Execute(w) \/ Pool!ExecuteHangs(w) \/ Pool!ExecuteOnDead(w)
    <2>1. UNCHANGED sessions BY <1>6 DEF Pool!Execute, Pool!ExecuteHangs, Pool!ExecuteOnDead
    <2>2. PICK r \in Pool!Replies : call[w].pc = "ready" /\ call' = [call EXCEPT ![w].pc = "ran", ![w].reply = r]
      BY <1>6 DEF Pool!Execute, Pool!ExecuteHangs, Pool!ExecuteOnDead, Pool!Replies
    <2>3. call'[w].pc = "ran" /\ \A v \in Workers : v # w => call'[v] = call[v]
      BY <1>1, <2>2, CallGoesOn
    <2>4. Returning' = Returning BY <2>2, <2>3 DEF Returning
    <2> QED BY <1>2, <2>1, <2>4, RoomStep
  <1>7. CASE Pool!GiveBack(w)
    <2>1. PICK x \in PoolCall : x.pc = "idle" /\ call' = [call EXCEPT ![w] = x]
      <3>1. call[w].reply \in Pool!Replies BY <1>3 DEF PoolCall
      <3> QED BY <1>7, <3>1, IdleCall DEF Pool!GiveBack, PoolCapacity
    <2>2. w \in Returning /\ Returning' = Returning \ {w} BY <1>3, <1>7, <2>1 DEF Returning, Pool!GiveBack
    <2>3. Len(sessions') <= n + 1
      <3>1. PICK s, k : s = call[w].stream /\ k = call[w].shell OBVIOUS
      <3>2. CASE UNCHANGED sessions BY <1>2, <3>2
      <3>3. CASE sessions' = Append(Pool!Without(s), [stream |-> s, shell |-> k])
        <4>1. PICK q : q = Pool!Without(s) OBVIOUS
        <4>2. /\ q \in Seq(PoolEntry) /\ OnePerStream(q) /\ Pooled(q) = {e \in Pooled(sessions) : e.stream # s}
              /\ Len(q) <= n
          <5>1. Len(q) = IF Pool!OfStream(s) = {} THEN n ELSE n - 1 BY <1>1, <1>2, <4>1, TakenOut
          <5> QED BY <1>1, <4>1, <5>1, TakenOut
        <4>3. [stream |-> s, shell |-> k] \in PoolEntry /\ Len(q) \in Nat
          <5>1. w \in InCall BY <1>7 DEF Pool!GiveBack, InCall
          <5> QED BY <1>1, <1>3, <3>1, <4>2, <5>1, LenProperties DEF PoolInv, AtHome, PoolEntry, PoolCall
        <4>4. Len(Append(q, [stream |-> s, shell |-> k])) = Len(q) + 1 BY <4>2, <4>3, AppendProperties
        <4> QED BY <3>3, <4>1, <4>2, <4>3, <4>4
      <3> QED BY <1>7, <3>1, <3>2, <3>3 DEF Pool!GiveBack
    <2> QED BY <1>2, <2>2, <2>3, RoomStep
  <1> QED BY <1>4, <1>5, <1>6, <1>7 DEF Pool!RunCommand

LEMMA OthersKeepRoom ==
  ASSUME PoolCapacity, RoomInv, PoolInv', UNCHANGED call, Len(sessions') <= Len(sessions)
  PROVE  RoomInv'
  <1>1. PICK l, m, x, r, n \in Nat :
          /\ l = Len(sessions) /\ m = Len(sessions') /\ x = MaxSessions
          /\ r = Cardinality(Returning) /\ n = Cardinality(Workers)
    <2>1. Len(sessions) \in Nat BY LenProperties DEF RoomInv, PoolInv, PoolTyped
    <2>2. Len(sessions') \in Nat BY LenProperties DEF PoolInv, PoolTyped
    <2> QED BY <2>1, <2>2, ReturningIs DEF PoolCapacity
  <1>2. l + r < x + n BY <1>1 DEF RoomInv
  <1>3. m + r < x + n BY <1>1, <1>2
  <1>4. Returning' = Returning BY DEF Returning
  <1> QED BY <1>1, <1>3, <1>4 DEF RoomInv

(* max_sessions is looked at when a shell is spawned only, so that calls   *)
(* which end together may overfill the pool, but by less than there are    *)
(* callers.                                                                *)
THEOREM PoolIsBounded == ASSUME PoolCapacity PROVE Pool!Spec => []Pool!OverfullByCallers
  <1> USE DEF PoolCapacity
  <1>1. PoolBounds OBVIOUS
  <1>2. PoolInv /\ PoolInv' /\ RoomInv /\ [Pool!Next]_Pool!vars => RoomInv'
    <2> SUFFICES ASSUME PoolInv, PoolInv', RoomInv, [Pool!Next]_Pool!vars PROVE RoomInv' OBVIOUS
    <2>1. PICK n \in Nat : n = Len(sessions) BY LenProperties DEF PoolInv, PoolTyped
    <2>2. CASE UNCHANGED Pool!vars BY <2>1, <2>2, OthersKeepRoom DEF Pool!vars
    <2>3. ASSUME NEW w \in Workers, Pool!RunCommand(w) PROVE RoomInv' BY <2>3, CallsKeepRoom
    <2>4. ASSUME NEW s \in Streams, Pool!CloseSession(s) PROVE RoomInv'
      <3>1. Len(sessions') = IF Pool!OfStream(s) = {} THEN n ELSE n - 1
        BY <2>1, <2>4, TakenOut DEF Pool!CloseSession, PoolInv, PoolTyped
      <3> QED BY <2>1, <2>4, <3>1, OthersKeepRoom DEF Pool!CloseSession
    <2>5. CASE Pool!ReapIdle
      <3>1. PICK m \in 1..n : sessions' = SubSeq(sessions, m + 1, n) BY <2>1, <2>5 DEF Pool!ReapIdle
      <3>2. Len(sessions') = n - m
        <4>1. PICK r : r = SubSeq(sessions, m + 1, n) OBVIOUS
        <4>2. Len(r) = n - m BY <2>1, <4>1, OldestGo DEF PoolInv, PoolTyped
        <4> QED BY <3>1, <4>1, <4>2
      <3> QED BY <2>1, <2>5, <3>2, OthersKeepRoom DEF Pool!ReapIdle
    <2>6. ASSUME NEW k \in Pool!Shells, Pool!ShellDies(k) PROVE RoomInv'
      BY <2>1, <2>6, OthersKeepRoom DEF Pool!ShellDies
    <2> QED BY <2>2, <2>3, <2>4, <2>5, <2>6 DEF Pool!Next
  <1>3. Pool!Init => RoomInv
    <2> SUFFICES ASSUME Pool!Init PROVE RoomInv OBVIOUS
    <2>1. Len(sessions) = 0 BY DEF Pool!Init
    <2>2. Returning = {} BY DEF Pool!Init, Pool!Idle, Returning
    <2>3. Cardinality(Returning) = 0 /\ Cardinality(Workers) \in Nat BY <2>2, FS_EmptySet, FS_CardinalityType
    <2>4. 0 + 0 < MaxSessions + Cardinality(Workers) BY <2>3
    <2> QED BY <2>1, <2>3, <2>4, InitPool DEF RoomInv
  <1>4. RoomInv => Pool!OverfullByCallers
    <2> SUFFICES ASSUME RoomInv PROVE Pool!OverfullByCallers OBVIOUS
    <2>1. PICK l, r, x, n \in Nat : /\ l = Len(sessions) /\ r = Cardinality(Returning)
                                    /\ x = MaxSessions /\ n = Cardinality(Workers)
      BY LenProperties, ReturningIs DEF RoomInv, PoolInv, PoolTyped
    <2>2. l < x + n BY <2>1 DEF RoomInv
    <2>3. Pool!Cardinality(Workers) = Cardinality(Workers) BY DEF Pool!Cardinality, Cardinality
    <2> QED BY <2>1, <2>2, <2>3 DEF Pool!OverfullByCallers
  <1> QED BY <1>1, <1>2, <1>3, <1>4, PoolInvariant, PTL DEF Pool!Spec

-----------------------------------------------------------------------------
(* The service that reports generations and spans.                         *)
Service == INSTANCE Services

RunCorrs == {CorrOf[s] : s \in Steps}
EventKinds == {"AgentProcessingStarted", "LlmCallStarted", "LlmCallCompleted", "LlmCallFailed",
               "ToolCallRequested", "ToolCallCompleted", "AgentProcessingCompleted"}
TraceEvent == [kind : EventKinds, corr : RunCorrs, call : Steps, gen : Nat, span : Nat]
TraceItem == [type : {"trace-create", "trace-update", "generation-create", "generation-update",
                      "span-create", "span-update"},
              id : Nat \cup RunCorrs, trace : RunCorrs]

TraceTyped ==
    /\ step \in [Steps -> [pc : {"idle", "ready", "calling", "answered", "failed", "tool"}, gen : Nat, span : Nat]]
    /\ events \in Seq(TraceEvent) /\ inbox \in Seq(Nat)
    /\ batch \in Seq(TraceItem) /\ sent \in Seq(TraceItem)
    /\ \A c \in DOMAIN trace_map : trace_map[c] \in RunCorrs
    /\ \A c \in DOMAIN active_generation : active_generation[c] \in Nat
    /\ \A c \in DOMAIN span_map : span_map[c] \in Nat

(* The items A, those lost L, and the map of what is under way, when the    *)
(* events up to h have been handled: an update follows its creation, none   *)
(* is there twice, and what is under way was created and not yet updated.   *)
Reported(A, L, h, map, create, update) ==
    /\ \A j \in 1..Len(A) : A[j].type = update =>
          \/ \E c \in L : c.type = create /\ c.id = A[j].id
          \/ \E i \in 1..j : A[i].type = create /\ A[i].id = A[j].id
    /\ \A i \in 1..Len(A) : A[i].type \in {create, update} => A[i].id \in 0..h
    /\ \A i, j \in 1..Len(A) : A[i].type \in {create, update} /\ A[i].type = A[j].type /\ A[i].id = A[j].id => i = j
    /\ \A k \in DOMAIN map :
          /\ map[k] \in 0..h
          /\ \/ \E c \in L : c.type = create /\ c.id = map[k]
             \/ \E i \in 1..Len(A) : A[i].type = create /\ A[i].id = map[k]
          /\ \A i \in 1..Len(A) : A[i].type = update => A[i].id # map[k]
          /\ \A l \in DOMAIN map : map[l] = map[k] => l = k

(* The events after the h-th wait in order.                                 *)
Ahead(q, h, e) ==
    /\ \A i \in 1..Len(q) : h < q[i] /\ q[i] <= e
    /\ \A i, j \in 1..Len(q) : i < j => q[i] < q[j]

TraceAll == sent \o batch
Generations(h) == Reported(TraceAll, lost, h, active_generation, "generation-create", "generation-update")
Spans(h) == Reported(TraceAll, lost, h, span_map, "span-create", "span-update")

TraceInv ==
    /\ TraceTyped
    /\ \E h \in 0..Len(events) : Ahead(inbox, h, Len(events)) /\ Generations(h) /\ Spans(h)
    /\ service = "stopped" => batch = << >>

(* One more item, or none.                                                  *)
Longer(A, B, x) == /\ Len(A) \in Nat /\ Len(B) = Len(A) + 1
                   /\ \A i \in 1..Len(A) : B[i] = A[i]
                   /\ B[Len(A) + 1] = x

LEMMA RaisedReport ==
  ASSUME NEW A, NEW L, NEW map, NEW c, NEW u, NEW h \in Nat, NEW n \in Nat, h <= n, Reported(A, L, h, map, c, u)
  PROVE  Reported(A, L, n, map, c, u)
  <1>1. \A i \in 0..h : i \in 0..n OBVIOUS
  <1> QED BY <1>1 DEF Reported

LEMMA DroppedReport ==
  ASSUME NEW A, NEW L, NEW map, NEW c, NEW u, NEW h, NEW k, Reported(A, L, h, map, c, u)
  PROVE  Reported(A, L, h, Service!Drop(map, k), c, u)
  <1>1. PICK m : m = Service!Drop(map, k) OBVIOUS
  <1>2. DOMAIN m = DOMAIN map \ {k} /\ \A l \in DOMAIN m : m[l] = map[l] /\ l \in DOMAIN map BY <1>1 DEF Service!Drop
  <1>3. Reported(A, L, h, m, c, u) BY <1>2 DEF Reported
  <1> QED BY <1>1, <1>3

(* An item of another kind.                                                 *)
LEMMA OtherReport ==
  ASSUME NEW A, NEW B, NEW x, NEW L, NEW map, NEW c, NEW u, NEW h, Longer(A, B, x), x.type \notin {c, u},
         Reported(A, L, h, map, c, u)
  PROVE  Reported(B, L, h, map, c, u)
  <1>1. PICK a \in Nat : a = Len(A) BY DEF Longer
  <1>2. Len(B) = a + 1 /\ (\A i \in 1..a : B[i] = A[i]) /\ B[a + 1] = x BY <1>1 DEF Longer
  <1>3. 1..(a + 1) = 1..a \cup {a + 1} OBVIOUS
  <1>4. \A j \in 1..a : \A i \in 1..j : i \in 1..a OBVIOUS
  <1>5. \A i \in 1..(a + 1) : B[i].type \in {c, u} => i \in 1..a /\ B[i] = A[i] BY <1>2, <1>3
  <1>6. \A j \in 1..(a + 1) : B[j].type = u =>
          \/ \E d \in L : d.type = c /\ d.id = B[j].id
          \/ \E i \in 1..j : B[i].type = c /\ B[i].id = B[j].id
    <2>1. SUFFICES ASSUME NEW j \in 1..(a + 1), B[j].type = u, ~(\E d \in L : d.type = c /\ d.id = B[j].id)
                   PROVE  \E i \in 1..j : B[i].type = c /\ B[i].id = B[j].id
      OBVIOUS
    <2>2. j \in 1..a /\ B[j] = A[j] BY <1>5, <2>1
    <2>3. PICK i \in 1..j : A[i].type = c /\ A[i].id = A[j].id BY <1>1, <2>1, <2>2 DEF Reported
    <2>4. B[i] = A[i] BY <1>2, <1>4, <2>2
    <2> QED BY <2>2, <2>3, <2>4
  <1>7. \A i \in 1..(a + 1) : B[i].type \in {c, u} => B[i].id \in 0..h BY <1>1, <1>5 DEF Reported
  <1>8. \A i, j \in 1..(a + 1) : B[i].type \in {c, u} /\ B[i].type = B[j].type /\ B[i].id = B[j].id => i = j
    <2>1. SUFFICES ASSUME NEW i \in 1..(a + 1), NEW j \in 1..(a + 1),
                          B[i].type \in {c, u}, B[i].type = B[j].type, B[i].id = B[j].id
                   PROVE  i = j
      OBVIOUS
    <2>2. i \in 1..a /\ j \in 1..a /\ B[i] = A[i] /\ B[j] = A[j] BY <1>5, <2>1
    <2> QED BY <1>1, <2>1, <2>2 DEF Reported
  <1>9. ASSUME NEW k \in DOMAIN map
        PROVE  /\ map[k] \in 0..h
               /\ \/ \E d \in L : d.type = c /\ d.id = map[k]
                  \/ \E i \in 1..(a + 1) : B[i].type = c /\ B[i].id = map[k]
               /\ \A i \in 1..(a + 1) : B[i].type = u => B[i].id # map[k]
               /\ \A l \in DOMAIN map : map[l] = map[k] => l = k
    <2>1. \/ \E d \in L : d.type = c /\ d.id = map[k]
          \/ \E i \in 1..a : A[i].type = c /\ A[i].id = map[k]
      BY <1>1 DEF Reported
    <2>2. \A i \in 1..a : B[i] = A[i] /\ i \in 1..(a + 1) BY <1>2, <1>3
    <2>3. \A i \in 1..(a + 1) : B[i].type = u => B[i].id # map[k] BY <1>1, <1>5 DEF Reported
    <2>4. map[k] \in 0..h /\ \A l \in DOMAIN map : map[l] = map[k] => l = k BY DEF Reported
    <2> QED BY <2>1, <2>2, <2>3, <2>4
  <1> QED BY <1>2, <1>6, <1>7, <1>8, <1>9 DEF Reported

(* Something is begun, under the number of its event.                       *)
LEMMA CreatedReport ==
  ASSUME NEW A, NEW B, NEW x, NEW L, NEW map, NEW c, NEW u, c # u, NEW h \in Nat, NEW n \in Nat, h < n,
         Longer(A, B, x), x.type = c, x.id = n, NEW k, Reported(A, L, h, map, c, u)
  PROVE  Reported(B, L, n, Service!Put(map, k, n), c, u)
  <1>1. PICK a \in Nat : a = Len(A) BY DEF Longer
  <1>2. Len(B) = a + 1 /\ (\A i \in 1..a : B[i] = A[i]) /\ B[a + 1] = x BY <1>1 DEF Longer
  <1>3. 1..(a + 1) = 1..a \cup {a + 1} OBVIOUS
  <1>4. \A j \in 1..a : \A i \in 1..j : i \in 1..a OBVIOUS
  <1>5. \A i \in 1..(a + 1) : (i \in 1..a /\ B[i] = A[i]) \/ (i = a + 1 /\ B[i] = x) BY <1>2, <1>3
  <1>6. n \notin 0..h /\ n \in 0..n /\ \A i \in 0..h : i \in 0..n OBVIOUS
  <1>7. \A j \in 1..(a + 1) : B[j].type = u =>
          \/ \E d \in L : d.type = c /\ d.id = B[j].id
          \/ \E i \in 1..j : B[i].type = c /\ B[i].id = B[j].id
    <2>1. SUFFICES ASSUME NEW j \in 1..(a + 1), B[j].type = u, ~(\E d \in L : d.type = c /\ d.id = B[j].id)
                   PROVE  \E i \in 1..j : B[i].type = c /\ B[i].id = B[j].id
      OBVIOUS
    <2>2. j \in 1..a /\ B[j] = A[j] BY <1>5, <2>1
    <2>3. PICK i \in 1..j : A[i].type = c /\ A[i].id = A[j].id BY <1>1, <2>1, <2>2 DEF Reported
    <2>4. B[i] = A[i] BY <1>2, <1>4, <2>2
    <2> QED BY <2>2, <2>3, <2>4
  <1>8. \A i \in 1..a : A[i].type \in {c, u} => A[i].id \in 0..h /\ A[i].id # n BY <1>1, <1>6 DEF Reported
  <1>9. \A i \in 1..(a + 1) : B[i].type \in {c, u} => B[i].id \in 0..n BY <1>5, <1>6, <1>8
  <1>10. \A i, j \in 1..(a + 1) : B[i].type \in {c, u} /\ B[i].type = B[j].type /\ B[i].id = B[j].id => i = j
    <2>1. SUFFICES ASSUME NEW i \in 1..(a + 1), NEW j \in 1..(a + 1),
                          B[i].type \in {c, u}, B[i].type = B[j].type, B[i].id = B[j].id
                   PROVE  i = j
      OBVIOUS
    <2>2. CASE i \in 1..a /\ j \in 1..a /\ B[i] = A[i] /\ B[j] = A[j] BY <1>1, <2>1, <2>2 DEF Reported
    <2>3. CASE i = a + 1 /\ j = a + 1 BY <2>3
    <2>4. CASE i = a + 1 /\ B[i] = x /\ j \in 1..a /\ B[j] = A[j] BY <1>8, <2>1, <2>4
    <2>5. CASE j = a + 1 /\ B[j] = x /\ i \in 1..a /\ B[i] = A[i] BY <1>8, <2>1, <2>5
    <2> QED BY <1>5, <2>2, <2>3, <2>4, <2>5
  <1>11. PICK m : m = Service!Put(map, k, n) OBVIOUS
  <1>12. DOMAIN m = DOMAIN map \cup {k} /\ m[k] = n /\ \A l \in DOMAIN map : l # k => m[l] = map[l]
    BY <1>11 DEF Service!Put
  <1>13. \A l \in DOMAIN map : map[l] \in 0..h /\ map[l] # n BY <1>6 DEF Reported
  <1>14. ASSUME NEW l \in DOMAIN m
         PROVE  /\ m[l] \in 0..n
                /\ \/ \E d \in L : d.type = c /\ d.id = m[l]
                   \/ \E i \in 1..(a + 1) : B[i].type = c /\ B[i].id = m[l]
                /\ \A i \in 1..(a + 1) : B[i].type = u => B[i].id # m[l]
                /\ \A o \in DOMAIN m : m[o] = m[l] => o = l
    <2>1. CASE l = k
      <3>1. m[l] = n BY <1>12, <2>1
      <3>2. a + 1 \in 1..(a + 1) OBVIOUS
      <3>3. \A i \in 1..(a + 1) : B[i].type = u => B[i].id # n BY <1>5, <1>8
      <3>4. \A o \in DOMAIN m : m[o] = n => o = k BY <1>12, <1>13
      <3> QED BY <1>2, <1>6, <2>1, <3>1, <3>2, <3>3, <3>4
    <2>2. CASE l # k
      <3>1. l \in DOMAIN map /\ m[l] = map[l] /\ map[l] # n /\ map[l] \in 0..n BY <1>6, <1>12, <1>13, <2>2
      <3>2. \/ \E d \in L : d.type = c /\ d.id = map[l]
            \/ \E i \in 1..a : A[i].type = c /\ A[i].id = map[l]
        BY <1>1, <3>1 DEF Reported
      <3>3. \A i \in 1..a : B[i] = A[i] /\ i \in 1..(a + 1) BY <1>2, <1>3
      <3>4. \A i \in 1..(a + 1) : B[i].type = u => B[i].id # map[l]
        <4>1. \A i \in 1..a : A[i].type = u => A[i].id # map[l] BY <1>1, <3>1 DEF Reported
        <4> QED BY <1>5, <4>1
      <3>5. \A o \in DOMAIN m : m[o] = map[l] => o = l
        <4>1. \A o \in DOMAIN map : map[o] = map[l] => o = l BY <3>1 DEF Reported
        <4> QED BY <1>12, <3>1, <4>1
      <3> QED BY <3>1, <3>2, <3>3, <3>4, <3>5
    <2> QED BY <2>1, <2>2
  <1>15. Reported(B, L, n, m, c, u) BY <1>2, <1>7, <1>9, <1>10, <1>14 DEF Reported
  <1> QED BY <1>11, <1>15

(* It ends, and is under way no more.                                       *)
LEMMA UpdatedReport ==
  ASSUME NEW A, NEW B, NEW x, NEW L, NEW map, NEW c, NEW u, c # u, NEW h \in Nat,
         NEW k \in DOMAIN map, Longer(A, B, x), x.type = u, x.id = map[k], Reported(A, L, h, map, c, u)
  PROVE  Reported(B, L, h, Service!Drop(map, k), c, u)
  <1>1. PICK a \in Nat : a = Len(A) BY DEF Longer
  <1>2. Len(B) = a + 1 /\ (\A i \in 1..a : B[i] = A[i]) /\ B[a + 1] = x BY <1>1 DEF Longer
  <1>3. 1..(a + 1) = 1..a \cup {a + 1} /\ a + 1 \in 1..(a + 1) OBVIOUS
  <1>4. \A j \in 1..a : \A i \in 1..j : i \in 1..a OBVIOUS
  <1>5. \A i \in 1..(a + 1) : (i \in 1..a /\ B[i] = A[i]) \/ (i = a + 1 /\ B[i] = x) BY <1>2, <1>3
  <1>6. /\ x.id \in 0..h
        /\ \/ \E d \in L : d.type = c /\ d.id = x.id
           \/ \E i \in 1..a : A[i].type = c /\ A[i].id = x.id
        /\ \A i \in 1..a : A[i].type = u => A[i].id # x.id
        /\ \A l \in DOMAIN map : map[l] = x.id => l = k
    BY <1>1 DEF Reported
  <1>7. \A j \in 1..(a + 1) : B[j].type = u =>
          \/ \E d \in L : d.type = c /\ d.id = B[j].id
          \/ \E i \in 1..j : B[i].type = c /\ B[i].id = B[j].id
    <2>1. SUFFICES ASSUME NEW j \in 1..(a + 1), B[j].type = u, ~(\E d \in L : d.type = c /\ d.id = B[j].id)
                   PROVE  \E i \in 1..j : B[i].type = c /\ B[i].id = B[j].id
      OBVIOUS
    <2>2. CASE j \in 1..a /\ B[j] = A[j]
      <3>1. PICK i \in 1..j : A[i].type = c /\ A[i].id = A[j].id BY <1>1, <2>1, <2>2 DEF Reported
      <3>2. B[i] = A[i] BY <1>2, <1>4, <2>2
      <3> QED BY <2>2, <3>1, <3>2
    <2>3. CASE j = a + 1 /\ B[j] = x
      <3>1. PICK i \in 1..a : A[i].type = c /\ A[i].id = x.id BY <1>6, <2>1, <2>3
      <3>2. B[i] = A[i] /\ i \in 1..j BY <1>2, <2>3
      <3> QED BY <2>3, <3>1, <3>2
    <2> QED BY <1>5, <2>2, <2>3
  <1>9. \A i \in 1..(a + 1) : B[i].type \in {c, u} => B[i].id \in 0..h BY <1>1, <1>5, <1>6 DEF Reported
  <1>10. \A i, j \in 1..(a + 1) : B[i].type \in {c, u} /\ B[i].type = B[j].type /\ B[i].id = B[j].id => i = j
    <2>1. SUFFICES ASSUME NEW i \in 1..(a + 1), NEW j \in 1..(a + 1),
                          B[i].type \in {c, u}, B[i].type = B[j].type, B[i].id = B[j].id
                   PROVE  i = j
      OBVIOUS
    <2>2. CASE i \in 1..a /\ j \in 1..a /\ B[i] = A[i] /\ B[j] = A[j] BY <1>1, <2>1, <2>2 DEF Reported
    <2>3. CASE i = a + 1 /\ j = a + 1 BY <2>3
    <2>4. CASE i = a + 1 /\ B[i] = x /\ j \in 1..a /\ B[j] = A[j] BY <1>6, <2>1, <2>4
    <2>5. CASE j = a + 1 /\ B[j] = x /\ i \in 1..a /\ B[i] = A[i] BY <1>6, <2>1, <2>5
    <2> QED BY <1>5, <2>2, <2>3, <2>4, <2>5
  <1>11. PICK m : m = Service!Drop(map, k) OBVIOUS
  <1>12. DOMAIN m = DOMAIN map \ {k} /\ \A l \in DOMAIN m : m[l] = map[l] /\ l \in DOMAIN map /\ l # k
    BY <1>11 DEF Service!Drop
  <1>14. ASSUME NEW l \in DOMAIN m
         PROVE  /\ m[l] \in 0..h
                /\ \/ \E d \in L : d.type = c /\ d.id = m[l]
                   \/ \E i \in 1..(a + 1) : B[i].type = c /\ B[i].id = m[l]
                /\ \A i \in 1..(a + 1) : B[i].type = u => B[i].id # m[l]
                /\ \A o \in DOMAIN m : m[o] = m[l] => o = l
    <2>1. l \in DOMAIN map /\ m[l] = map[l] /\ map[l] \in 0..h /\ map[l] # x.id BY <1>6, <1>12 DEF Reported
    <2>2. \/ \E d \in L : d.type = c /\ d.id = map[l]
          \/ \E i \in 1..a : A[i].type = c /\ A[i].id = map[l]
      BY <1>1, <2>1 DEF Reported
    <2>3. \A i \in 1..a : B[i] = A[i] /\ i \in 1..(a + 1) BY <1>2, <1>3
    <2>4. \A i \in 1..(a + 1) : B[i].type = u => B[i].id # map[l]
      <3>1. \A i \in 1..a : A[i].type = u => A[i].id # map[l] BY <1>1, <2>1 DEF Reported
      <3> QED BY <1>5, <2>1, <3>1
    <2>5. \A o \in DOMAIN m : m[o] = map[l] => o = l
      <3>1. \A o \in DOMAIN map : map[o] = map[l] => o = l BY <2>1 DEF Reported
      <3> QED BY <1>12, <3>1
    <2> QED BY <2>1, <2>2, <2>3, <2>4, <2>5
  <1>15. Reported(B, L, h, m, c, u) BY <1>2, <1>7, <1>9, <1>10, <1>14 DEF Reported
  <1> QED BY <1>11, <1>15

(* A batch the server did not take.                                         *)
LEMMA LostReport ==
  ASSUME NEW A \in Seq(TraceItem), NEW b \in Seq(TraceItem), NEW L, NEW map, NEW c, NEW u, NEW h,
         Reported(A \o b, L, h, map, c, u)
  PROVE  Reported(A, L \cup {b[i] : i \in 1..Len(b)}, h, map, c, u)
  <1>1. PICK B : B = A \o b OBVIOUS
  <1>2. PICK a, e \in Nat : a = Len(A) /\ e = Len(b) BY LenProperties
  <1>3. Len(B) = a + e /\ \A i \in 1..(a + e) : B[i] = IF i <= a THEN A[i] ELSE b[i - a]
    <2>1. Len(A \o b) = Len(A) + Len(b)
          /\ \A i \in 1..Len(A) + Len(b) : (A \o b)[i] = IF i <= Len(A) THEN A[i] ELSE b[i - Len(A)]
      BY ConcatProperties
    <2> QED BY <1>1, <1>2, <2>1
  <1>4. \A i \in 1..a : i \in 1..(a + e) /\ i <= a OBVIOUS
  <1>5. \A i \in 1..a : B[i] = A[i] BY <1>3, <1>4
  <1>6. PICK M : M = L \cup {b[i] : i \in 1..e} OBVIOUS
  <1>7. ASSUME NEW i \in 1..(a + e) PROVE (i \in 1..a) \/ B[i] \in M
    <2>1. CASE i <= a BY <2>1
    <2>2. CASE ~(i <= a)
      <3>1. i - a \in 1..e /\ B[i] = b[i - a] BY <1>3, <2>2
      <3> QED BY <1>6, <3>1
    <2> QED BY <2>1, <2>2
  <1>8. \A j \in 1..a : \A i \in 1..j : i \in 1..a OBVIOUS
  <1>9. \A j \in 1..a : A[j].type = u =>
          \/ \E d \in M : d.type = c /\ d.id = A[j].id
          \/ \E i \in 1..j : A[i].type = c /\ A[i].id = A[j].id
    <2>1. SUFFICES ASSUME NEW j \in 1..a, A[j].type = u, ~(\E d \in M : d.type = c /\ d.id = A[j].id)
                   PROVE  \E i \in 1..j : A[i].type = c /\ A[i].id = A[j].id
      OBVIOUS
    <2>2. j \in 1..(a + e) /\ B[j] = A[j] BY <1>4, <1>5
    <2>3. PICK i \in 1..j : B[i].type = c /\ B[i].id = B[j].id
      BY <1>1, <1>3, <1>6, <2>1, <2>2 DEF Reported
    <2> QED BY <1>5, <1>8, <2>2, <2>3
  <1>10. \A i \in 1..a : A[i].type \in {c, u} => A[i].id \in 0..h BY <1>1, <1>3, <1>4, <1>5 DEF Reported
  <1>11. \A i, j \in 1..a : A[i].type \in {c, u} /\ A[i].type = A[j].type /\ A[i].id = A[j].id => i = j
    <2>1. SUFFICES ASSUME NEW i \in 1..a, NEW j \in 1..a,
                          A[i].type \in {c, u}, A[i].type = A[j].type, A[i].id = A[j].id
                   PROVE  i = j
      OBVIOUS
    <2>2. i \in 1..(a + e) /\ j \in 1..(a + e) /\ B[i] = A[i] /\ B[j] = A[j] BY <1>4, <1>5
    <2> QED BY <1>1, <1>3, <2>1, <2>2 DEF Reported
  <1>12. ASSUME NEW k \in DOMAIN map
         PROVE  /\ map[k] \in 0..h
                /\ \/ \E d \in M : d.type = c /\ d.id = map[k]
                   \/ \E i \in 1..a : A[i].type = c /\ A[i].id = map[k]
                /\ \A i \in 1..a : A[i].type = u => A[i].id # map[k]
                /\ \A l \in DOMAIN map : map[l] = map[k] => l = k
    <2>1. map[k] \in 0..h /\ \A l \in DOMAIN map : map[l] = map[k] => l = k BY DEF Reported
    <2>2. \A i \in 1..(a + e) : B[i].type = u => B[i].id # map[k] BY <1>1, <1>3 DEF Reported
    <2>3. \/ \E d \in L : d.type = c /\ d.id = map[k]
          \/ \E i \in 1..(a + e) : B[i].type = c /\ B[i].id = map[k]
      BY <1>1, <1>3 DEF Reported
    <2>4. \/ \E d \in M : d.type = c /\ d.id = map[k]
          \/ \E i \in 1..a : A[i].type = c /\ A[i].id = map[k]
      BY <1>5, <1>6, <1>7, <2>3
    <2> QED BY <1>4, <1>5, <2>1, <2>2, <2>4
  <1>13. Reported(A, M, h, map, c, u) BY <1>2, <1>9, <1>10, <1>11, <1>12 DEF Reported
  <1> QED BY <1>2, <1>6, <1>13

(* What is reported after one event, before the batch goes out or stays.   *)
LEMMA MappedReport ==
  ASSUME TraceTyped, NEW n \in 1..Len(events), NEW h \in Nat, h < n, Generations(h), Spans(h),
         NEW to, to = Service!MapEvent(n)
  PROVE  /\ to.item \in Seq(TraceItem)
         /\ Reported(TraceAll \o to.item, lost, n, to.gens, "generation-create", "generation-update")
         /\ Reported(TraceAll \o to.item, lost, n, to.spans, "span-create", "span-update")
         /\ \A c \in DOMAIN to.traces : to.traces[c] \in RunCorrs
         /\ \A c \in DOMAIN to.gens : to.gens[c] \in Nat
         /\ \A c \in DOMAIN to.spans : to.spans[c] \in Nat
  <1> DEFINE gc == "generation-create"
             gu == "generation-update"
             sc == "span-create"
             su == "span-update"
  <1>1. n \in Nat /\ h <= n BY LenProperties DEF TraceTyped
  <1>2. PICK A : A = TraceAll OBVIOUS
  <1>3. A \in Seq(TraceItem) BY <1>2, ConcatProperties DEF TraceTyped, TraceAll
  <1>4. Reported(A, lost, h, active_generation, gc, gu) /\ Reported(A, lost, h, span_map, sc, su)
    BY <1>2 DEF Generations, Spans
  <1>5. Reported(A, lost, n, active_generation, gc, gu) /\ Reported(A, lost, n, span_map, sc, su)
    BY <1>1, <1>4, RaisedReport
  <1>6. PICK e : e = events[n] OBVIOUS
  <1>7. e \in TraceEvent BY <1>6, ElementOfSeq DEF TraceTyped
  <1>8. e.corr \in RunCorrs BY <1>7 DEF TraceEvent
  <1>9. A \o << >> = A /\ << >> \in Seq(TraceItem) BY <1>3
  <1>10. ASSUME NEW x \in TraceItem PROVE <<x>> \in Seq(TraceItem) /\ Longer(A, A \o <<x>>, x)
    <2>1. <<x>> \in Seq(TraceItem) OBVIOUS
    <2>2. A \o <<x>> = Append(A, x) BY <1>3, <1>10, AppendIsConcat
    <2>3. Len(A) \in Nat BY <1>3, LenProperties
    <2> QED BY <1>3, <1>10, <2>1, <2>2, <2>3, AppendProperties DEF Longer
  <1>11. /\ \A c \in DOMAIN trace_map : trace_map[c] \in RunCorrs
         /\ \A c \in DOMAIN active_generation : active_generation[c] \in Nat
         /\ \A c \in DOMAIN span_map : span_map[c] \in Nat
    BY DEF TraceTyped
  <1>12. \A k : \A c \in DOMAIN Service!Put(trace_map, k, e.corr) : Service!Put(trace_map, k, e.corr)[c] \in RunCorrs
    BY <1>8, <1>11 DEF Service!Put
  <1>13. \A k : \A c \in DOMAIN Service!Drop(trace_map, k) : Service!Drop(trace_map, k)[c] \in RunCorrs
    BY <1>11 DEF Service!Drop
  <1>14. ASSUME NEW k
         PROVE  /\ \A c \in DOMAIN Service!Drop(active_generation, k) : Service!Drop(active_generation, k)[c] \in Nat
                /\ \A c \in DOMAIN Service!Drop(span_map, k) : Service!Drop(span_map, k)[c] \in Nat
                /\ \A c \in DOMAIN Service!Put(active_generation, k, n) : Service!Put(active_generation, k, n)[c] \in Nat
                /\ \A c \in DOMAIN Service!Put(span_map, k, n) : Service!Put(span_map, k, n)[c] \in Nat
    BY <1>1, <1>11 DEF Service!Drop, Service!Put
  <1>15. gc # gu /\ sc # su OBVIOUS
  <1>20. CASE e.kind = "AgentProcessingStarted"
    <2>1. PICK x : x = Service!Item("trace-create", e.corr, e.corr) OBVIOUS
    <2>2. x \in TraceItem /\ x.type = "trace-create" BY <1>8, <2>1 DEF Service!Item, TraceItem
    <2>3. to.item = <<x>> /\ to.traces = Service!Put(trace_map, e.corr, e.corr)
          /\ to.gens = active_generation /\ to.spans = span_map
      BY <1>6, <1>20, <2>1 DEF Service!MapEvent
    <2>4. Longer(A, A \o <<x>>, x) /\ <<x>> \in Seq(TraceItem) BY <1>10, <2>2
    <2>5. x.type \notin {gc, gu} /\ x.type \notin {sc, su} BY <2>2
    <2>6. Reported(A \o <<x>>, lost, n, active_generation, gc, gu) /\ Reported(A \o <<x>>, lost, n, span_map, sc, su)
      BY <1>5, <2>4, <2>5, OtherReport
    <2> QED BY <1>2, <1>11, <1>12, <2>3, <2>4, <2>6
  <1>21. CASE e.kind = "LlmCallStarted" /\ e.corr \in DOMAIN trace_map
    <2>1. PICK x : x = Service!Item("generation-create", n, trace_map[e.corr]) OBVIOUS
    <2>2. x \in TraceItem /\ x.type = gc /\ x.id = n BY <1>1, <1>11, <1>21, <2>1 DEF Service!Item, TraceItem
    <2>3. to.item = <<x>> /\ to.traces = trace_map
          /\ to.gens = Service!Put(active_generation, e.corr, n) /\ to.spans = span_map
      BY <1>6, <1>21, <2>1 DEF Service!MapEvent
    <2>4. Longer(A, A \o <<x>>, x) /\ <<x>> \in Seq(TraceItem) BY <1>10, <2>2
    <2>5. x.type \notin {sc, su} BY <2>2
    <2>6. Reported(A \o <<x>>, lost, n, span_map, sc, su) BY <1>5, <2>4, <2>5, OtherReport
    <2>7. Reported(A \o <<x>>, lost, n, Service!Put(active_generation, e.corr, n), gc, gu)
      BY <1>1, <1>4, <1>15, <2>2, <2>4, CreatedReport
    <2> QED BY <1>2, <1>11, <1>14, <2>3, <2>4, <2>6, <2>7
  <1>22. CASE e.kind = "LlmCallCompleted" /\ e.corr \in DOMAIN active_generation
    <2>1. to.traces = trace_map /\ to.gens = Service!Drop(active_generation, e.corr) /\ to.spans = span_map
      BY <1>6, <1>22 DEF Service!MapEvent
    <2>2. CASE e.corr \notin DOMAIN trace_map
      <3>1. to.item = << >> BY <1>6, <1>22, <2>2 DEF Service!MapEvent
      <3>2. Reported(A, lost, n, to.gens, gc, gu) BY <1>5, <2>1, DroppedReport
      <3> QED BY <1>2, <1>5, <1>9, <1>11, <1>14, <2>1, <3>1, <3>2
    <2>3. CASE e.corr \in DOMAIN trace_map
      <3>1. PICK x : x = Service!Item("generation-update", active_generation[e.corr], trace_map[e.corr]) OBVIOUS
      <3>2. x \in TraceItem /\ x.type = gu /\ x.id = active_generation[e.corr]
        BY <1>11, <1>22, <2>3, <3>1 DEF Service!Item, TraceItem
      <3>3. to.item = <<x>> BY <1>6, <1>22, <2>3, <3>1 DEF Service!MapEvent
      <3>4. Longer(A, A \o <<x>>, x) /\ <<x>> \in Seq(TraceItem) BY <1>10, <3>2
      <3>5. x.type \notin {sc, su} BY <3>2
      <3>6. Reported(A \o <<x>>, lost, n, span_map, sc, su) BY <1>5, <3>4, <3>5, OtherReport
      <3>7. Reported(A \o <<x>>, lost, n, Service!Drop(active_generation, e.corr), gc, gu)
        BY <1>1, <1>5, <1>15, <1>22, <3>2, <3>4, UpdatedReport
      <3> QED BY <1>2, <1>11, <1>14, <2>1, <3>3, <3>4, <3>6, <3>7
    <2> QED BY <2>2, <2>3
  <1>23. CASE e.kind = "ToolCallRequested" /\ e.corr \in DOMAIN trace_map
    <2>1. PICK x : x = Service!Item("span-create", n, trace_map[e.corr]) OBVIOUS
    <2>2. x \in TraceItem /\ x.type = sc /\ x.id = n BY <1>1, <1>11, <1>23, <2>1 DEF Service!Item, TraceItem
    <2>3. to.item = <<x>> /\ to.traces = trace_map
          /\ to.gens = active_generation /\ to.spans = Service!Put(span_map, e.call, n)
      BY <1>6, <1>23, <2>1 DEF Service!MapEvent
    <2>4. Longer(A, A \o <<x>>, x) /\ <<x>> \in Seq(TraceItem) BY <1>10, <2>2
    <2>5. x.type \notin {gc, gu} BY <2>2
    <2>6. Reported(A \o <<x>>, lost, n, active_generation, gc, gu) BY <1>5, <2>4, <2>5, OtherReport
    <2>7. Reported(A \o <<x>>, lost, n, Service!Put(span_map, e.call, n), sc, su)
      BY <1>1, <1>4, <1>15, <2>2, <2>4, CreatedReport
    <2> QED BY <1>2, <1>11, <1>14, <2>3, <2>4, <2>6, <2>7
  <1>24. CASE e.kind = "ToolCallCompleted" /\ e.call \in DOMAIN span_map
    <2>1. to.traces = trace_map /\ to.gens = active_generation /\ to.spans = Service!Drop(span_map, e.call)
      BY <1>6, <1>24 DEF Service!MapEvent
    <2>2. CASE e.corr \notin DOMAIN trace_map
      <3>1. to.item = << >> BY <1>6, <1>24, <2>2 DEF Service!MapEvent
      <3>2. Reported(A, lost, n, to.spans, sc, su) BY <1>5, <2>1, DroppedReport
      <3> QED BY <1>2, <1>5, <1>9, <1>11, <1>14, <2>1, <3>1, <3>2
    <2>3. CASE e.corr \in DOMAIN trace_map
      <3>1. PICK x : x = Service!Item("span-update", span_map[e.call], trace_map[e.corr]) OBVIOUS
      <3>2. x \in TraceItem /\ x.type = su /\ x.id = span_map[e.call]
        BY <1>11, <1>24, <2>3, <3>1 DEF Service!Item, TraceItem
      <3>3. to.item = <<x>> BY <1>6, <1>24, <2>3, <3>1 DEF Service!MapEvent
      <3>4. Longer(A, A \o <<x>>, x) /\ <<x>> \in Seq(TraceItem) BY <1>10, <3>2
      <3>5. x.type \notin {gc, gu} BY <3>2
      <3>6. Reported(A \o <<x>>, lost, n, active_generation, gc, gu) BY <1>5, <3>4, <3>5, OtherReport
      <3>7. Reported(A \o <<x>>, lost, n, Service!Drop(span_map, e.call), sc, su)
        BY <1>1, <1>5, <1>15, <1>24, <3>2, <3>4, UpdatedReport
      <3> QED BY <1>2, <1>11, <1>14, <2>1, <3>3, <3>4, <3>6, <3>7
    <2> QED BY <2>2, <2>3
  <1>25. CASE e.kind = "AgentProcessingCompleted" /\ e.corr \in DOMAIN trace_map
    <2>1. PICK x : x = Service!Item("trace-update", trace_map[e.corr], trace_map[e.corr]) OBVIOUS
    <2>2. x \in TraceItem /\ x.type = "trace-update" BY <1>11, <1>25, <2>1 DEF Service!Item, TraceItem
    <2>3. to.item = <<x>> /\ to.traces = Service!Drop(trace_map, e.corr)
          /\ to.gens = Service!Drop(active_generation, e.corr) /\ to.spans = span_map
      BY <1>6, <1>25, <2>1 DEF Service!MapEvent
    <2>4. Longer(A, A \o <<x>>, x) /\ <<x>> \in Seq(TraceItem) BY <1>10, <2>2
    <2>5. x.type \notin {gc, gu} /\ x.type \notin {sc, su} BY <2>2
    <2>6. Reported(A \o <<x>>, lost, n, active_generation, gc, gu) /\ Reported(A \o <<x>>, lost, n, span_map, sc, su)
      BY <1>5, <2>4, <2>5, OtherReport
    <2>7. Reported(A \o <<x>>, lost, n, to.gens, gc, gu) BY <2>3, <2>6, DroppedReport
    <2> QED BY <1>2, <1>11, <1>13, <1>14, <2>3, <2>4, <2>6, <2>7
  <1>26. CASE ~ \/ e.kind = "AgentProcessingStarted"
                \/ e.kind = "LlmCallStarted" /\ e.corr \in DOMAIN trace_map
                \/ e.kind = "LlmCallCompleted" /\ e.corr \in DOMAIN active_generation
                \/ e.kind = "ToolCallRequested" /\ e.corr \in DOMAIN trace_map
                \/ e.kind = "ToolCallCompleted" /\ e.call \in DOMAIN span_map
                \/ e.kind = "AgentProcessingCompleted" /\ e.corr \in DOMAIN trace_map
    <2>1. to.item = << >> /\ to.traces = trace_map /\ to.gens = active_generation /\ to.spans = span_map
      BY <1>6, <1>26 DEF Service!MapEvent
    <2> QED BY <1>2, <1>5, <1>9, <1>11, <2>1
  <1> QED BY <1>20, <1>21, <1>22, <1>23, <1>24, <1>25, <1>26

(* The batch is taken, or it is lost.                                       *)
LEMMA FlushedReport ==
  ASSUME TraceTyped, NEW flushed \in Seq(TraceItem), Service!Flush(flushed), NEW map, NEW c, NEW u, NEW n,
         Reported(sent \o flushed, lost, n, map, c, u)
  PROVE  /\ sent' \in Seq(TraceItem) /\ batch' = << >>
         /\ Reported(sent' \o batch', lost', n, map, c, u)
  <1>1. sent \in Seq(TraceItem) BY DEF TraceTyped
  <1>2. CASE batch' = << >> /\ sent' = sent \o flushed /\ UNCHANGED lost
    <2>1. sent \o flushed \in Seq(TraceItem) BY <1>1, ConcatProperties
    <2>2. (sent \o flushed) \o << >> = sent \o flushed BY <2>1
    <2> QED BY <1>2, <2>1, <2>2
  <1>3. CASE batch' = << >> /\ lost' = lost \cup Service!Range(flushed) /\ UNCHANGED sent
    <2>1. Service!Range(flushed) = {flushed[i] : i \in 1..Len(flushed)}
      <3>1. DOMAIN flushed = 1..Len(flushed) BY LenProperties
      <3> QED BY <3>1 DEF Service!Range
    <2>2. Reported(sent, lost \cup {flushed[i] : i \in 1..Len(flushed)}, n, map, c, u) BY <1>1, LostReport
    <2>3. sent \o << >> = sent BY <1>1
    <2> QED BY <1>1, <1>3, <2>1, <2>2, <2>3
  <1> QED BY <1>2, <1>3 DEF Service!Flush

LEMMA HandleEventKeeps == ASSUME TraceInv, Service!HandleEvent PROVE TraceInv'
  <1>1. TraceTyped BY DEF TraceInv
  <1>2. PICK h \in 0..Len(events) : Ahead(inbox, h, Len(events)) /\ Generations(h) /\ Spans(h) BY DEF TraceInv
  <1>3. inbox # << >> /\ inbox \in Seq(Nat) BY <1>1 DEF Service!HandleEvent, TraceTyped
  <1>4. PICK n : n = Head(inbox) OBVIOUS
  <1>5. PICK q \in Nat : q = Len(inbox) BY <1>3, LenProperties
  <1>6. q >= 1 /\ n = inbox[1] /\ Tail(inbox) \in Seq(Nat) /\ Len(Tail(inbox)) = q - 1
        /\ \A i \in 1..(q - 1) : Tail(inbox)[i] = inbox[i + 1]
    BY <1>3, <1>4, <1>5, HeadTailProperties, EmptySeq
  <1>7. PICK e \in Nat : e = Len(events) BY <1>1, LenProperties DEF TraceTyped
  <1>8. n \in Nat /\ h < n /\ n <= e /\ h \in Nat
    <2>1. 1 \in 1..q BY <1>5, <1>6
    <2>2. inbox[1] \in Nat BY <1>3, <1>5, <2>1, ElementOfSeq
    <2> QED BY <1>2, <1>5, <1>6, <1>7, <2>1, <2>2 DEF Ahead
  <1>9. n \in 1..Len(events) BY <1>7, <1>8
  <1>10. Ahead(Tail(inbox), n, e)
    <2>1. ASSUME NEW i \in 1..(q - 1) PROVE i + 1 \in 1..q /\ 1 \in 1..q /\ 1 < i + 1 BY <1>5
    <2>2. \A i \in 1..(q - 1) : n < Tail(inbox)[i] /\ Tail(inbox)[i] <= e
      BY <1>2, <1>5, <1>6, <1>7, <2>1 DEF Ahead
    <2>3. ASSUME NEW i \in 1..(q - 1), NEW j \in 1..(q - 1), i < j PROVE Tail(inbox)[i] < Tail(inbox)[j]
      <3>1. i + 1 < j + 1 BY <2>3
      <3> QED BY <1>2, <1>5, <1>6, <2>1, <3>1 DEF Ahead
    <2> QED BY <1>6, <2>2, <2>3 DEF Ahead
  <1>11. PICK to : to = Service!MapEvent(n) OBVIOUS
  <1>12. /\ to.item \in Seq(TraceItem)
         /\ Reported(TraceAll \o to.item, lost, n, to.gens, "generation-create", "generation-update")
         /\ Reported(TraceAll \o to.item, lost, n, to.spans, "span-create", "span-update")
         /\ \A c \in DOMAIN to.traces : to.traces[c] \in RunCorrs
         /\ \A c \in DOMAIN to.gens : to.gens[c] \in Nat
         /\ \A c \in DOMAIN to.spans : to.spans[c] \in Nat
    BY <1>1, <1>2, <1>8, <1>9, <1>11, MappedReport
  <1>13. PICK flushed : flushed = batch \o to.item OBVIOUS
  <1>14. flushed \in Seq(TraceItem) BY <1>1, <1>12, <1>13, ConcatProperties DEF TraceTyped
  <1>15. TraceAll \o to.item = sent \o flushed
    <2>1. sent \in Seq(TraceItem) /\ batch \in Seq(TraceItem) BY <1>1 DEF TraceTyped
    <2>2. PICK it \in Seq(TraceItem) : it = to.item BY <1>12
    <2>3. PICK a \in Seq(TraceItem), b \in Seq(TraceItem) : a = sent /\ b = batch BY <2>1
    <2>4. (a \o b) \o it = a \o (b \o it) BY ONLY a \in Seq(TraceItem), b \in Seq(TraceItem), it \in Seq(TraceItem), ConcatAssociative
    <2> QED BY <1>13, <2>2, <2>3, <2>4 DEF TraceAll
  <1>16. /\ service \in {"running", "flushing"} /\ UNCHANGED <<step, events, service>> /\ inbox' = Tail(inbox)
         /\ trace_map' = to.traces /\ active_generation' = to.gens /\ span_map' = to.spans
         /\ Service!Flush(flushed) \/ (batch' = flushed /\ UNCHANGED <<sent, lost>>)
    BY <1>4, <1>11, <1>13 DEF Service!HandleEvent
  <1>17. /\ sent' \in Seq(TraceItem) /\ batch' \in Seq(TraceItem)
         /\ Reported(sent' \o batch', lost', n, to.gens, "generation-create", "generation-update")
         /\ Reported(sent' \o batch', lost', n, to.spans, "span-create", "span-update")
    <2>1. CASE Service!Flush(flushed)
      <3>1. << >> \in Seq(TraceItem) OBVIOUS
      <3> QED BY <1>1, <1>12, <1>14, <1>15, <2>1, <3>1, FlushedReport
    <2>2. CASE batch' = flushed /\ UNCHANGED <<sent, lost>> BY <1>1, <1>12, <1>14, <1>15, <2>2 DEF TraceTyped
    <2> QED BY <1>16, <2>1, <2>2
  <1>18. TraceTyped' BY <1>1, <1>6, <1>12, <1>16, <1>17 DEF TraceTyped
  <1>19. Generations(n)' /\ Spans(n)' BY <1>16, <1>17 DEF Generations, Spans, TraceAll
  <1>20. Ahead(inbox', n, Len(events')) BY <1>7, <1>10, <1>16
  <1>21. n \in 0..Len(events') BY <1>7, <1>8, <1>16
  <1>22. service' # "stopped" BY <1>16
  <1> QED BY <1>18, <1>19, <1>20, <1>21, <1>22 DEF TraceInv

LEMMA AgentActsKeeps == ASSUME TraceInv, NEW s \in Steps, Service!AgentActs(s) PROVE TraceInv'
  <1>1. TraceTyped BY DEF TraceInv
  <1>2. PICK h \in 0..Len(events) : Ahead(inbox, h, Len(events)) /\ Generations(h) /\ Spans(h) BY DEF TraceInv
  <1>3. PICK e \in Nat : e = Len(events) BY <1>1, LenProperties DEF TraceTyped
  <1>4. PICK n : n = e + 1 OBVIOUS
  <1>5. PICK k \in EventKinds, pc \in {"idle", "ready", "calling", "answered", "failed", "tool"} : Service!Publish(s, k, pc)
    BY DEF Service!AgentActs, EventKinds
  <1>6. UNCHANGED <<service, trace_map, active_generation, span_map, batch, sent, lost>> BY DEF Service!AgentActs
  <1>7. PICK x : x = [kind |-> k, corr |-> CorrOf[s], call |-> s, gen |-> step[s].gen, span |-> step[s].span] OBVIOUS
  <1>8. /\ events' = Append(events, x)
        /\ inbox' = inbox \/ inbox' = Append(inbox, n)
        /\ step' = [step EXCEPT ![s].pc = pc,
                                ![s].gen = IF k = "LlmCallStarted" THEN n ELSE @,
                                ![s].span = IF k = "ToolCallRequested" THEN n ELSE @]
    BY <1>3, <1>4, <1>5, <1>7 DEF Service!Publish
  <1>9. n \in Nat BY <1>3, <1>4
  <1>10. step' \in [Steps -> [pc : {"idle", "ready", "calling", "answered", "failed", "tool"}, gen : Nat, span : Nat]]
    <2> DEFINE PC == {"idle", "ready", "calling", "answered", "failed", "tool"}
               R == [pc : PC, gen : Nat, span : Nat]
    <2>1. step \in [Steps -> R] BY <1>1 DEF TraceTyped
    <2>2. PICK g \in Nat, p \in Nat : /\ g = IF k = "LlmCallStarted" THEN n ELSE step[s].gen
                                     /\ p = IF k = "ToolCallRequested" THEN n ELSE step[s].span
      BY <1>9, <2>1
    <2>3. PICK y \in R : y = [pc |-> pc, gen |-> g, span |-> p] BY <2>2
    <2>4. step' = [step EXCEPT ![s] = y]
      <3>1. PICK c \in R : c = step[s] BY <2>1
      <3>5. PICK d : d = [c EXCEPT !.pc = pc, !.gen = g, !.span = p] OBVIOUS
      <3>6. d \in R /\ d.pc = pc /\ d.gen = g /\ d.span = p BY <3>5
      <3>2. [c EXCEPT !.pc = pc, !.gen = g, !.span = p] = y BY <2>3, <3>5, <3>6
      <3>3. PICK t : t = [step EXCEPT ![s] = y] OBVIOUS
      <3>4. step' \in [Steps -> R] /\ step'[s] = y /\ \A o \in Steps : o # s => step'[o] = step[o]
        BY <1>8, <2>1, <2>2, <2>3, <3>1, <3>2
      <3> QED BY <2>1, <3>4
    <2> QED BY <2>1, <2>3, <2>4
  <1>11. x \in TraceEvent BY <1>1, <1>5, <1>7 DEF TraceTyped, TraceEvent, RunCorrs
  <1>12. events' \in Seq(TraceEvent) /\ Len(events') = n BY <1>1, <1>3, <1>4, <1>8, <1>11, AppendProperties DEF TraceTyped
  <1>13. PICK q \in Nat : q = Len(inbox) BY <1>1, LenProperties DEF TraceTyped
  <1>14. inbox \in Seq(Nat) BY <1>1 DEF TraceTyped
  <1>15. h \in Nat /\ h < n /\ h \in 0..n BY <1>2, <1>3, <1>4
  <1>16. \A i \in 1..q : inbox[i] \in Nat BY <1>13, <1>14, ElementOfSeq
  <1>17. Ahead(inbox, h, n)
    <2>1. \A i \in 1..q : inbox[i] <= n BY <1>2, <1>3, <1>4, <1>13, <1>16 DEF Ahead
    <2> QED BY <1>2, <1>13, <2>1 DEF Ahead
  <1>18. inbox' \in Seq(Nat) /\ Ahead(inbox', h, n)
    <2>1. CASE inbox' = inbox BY <1>14, <1>17, <2>1
    <2>2. CASE inbox' = Append(inbox, n)
      <3>1. PICK p : p = Append(inbox, n) OBVIOUS
      <3>2. /\ p \in Seq(Nat) /\ Len(p) = q + 1 /\ p[q + 1] = n
            /\ \A i \in 1..q : p[i] = inbox[i]
        BY <1>9, <1>13, <1>14, <3>1, AppendProperties
      <3>3. \A i \in 1..(q + 1) : i \in 1..q \/ i = q + 1 OBVIOUS
      <3>4. \A i \in 1..q : inbox[i] < n BY <1>2, <1>3, <1>4, <1>13, <1>16 DEF Ahead
      <3>5. \A i \in 1..(q + 1) : h < p[i] /\ p[i] <= n BY <1>9, <1>13, <1>15, <1>17, <3>2, <3>3 DEF Ahead
      <3>6. ASSUME NEW i \in 1..(q + 1), NEW j \in 1..(q + 1), i < j PROVE p[i] < p[j]
        <4>1. i \in 1..q BY <3>6
        <4>2. CASE j \in 1..q BY <1>13, <1>17, <3>2, <3>6, <4>1, <4>2 DEF Ahead
        <4>3. CASE j = q + 1 BY <3>2, <3>4, <4>1, <4>3
        <4> QED BY <3>3, <4>2, <4>3
      <3>7. Ahead(p, h, n) BY <3>2, <3>5, <3>6 DEF Ahead
      <3> QED BY <2>2, <3>1, <3>2, <3>7
    <2> QED BY <1>8, <2>1, <2>2
  <1>19. TraceTyped' BY <1>1, <1>6, <1>10, <1>12, <1>18 DEF TraceTyped
  <1>20. Generations(h)' /\ Spans(h)' BY <1>2, <1>6 DEF Generations, Spans, TraceAll
  <1>21. (service = "stopped" => batch = << >>)' BY <1>6 DEF TraceInv
  <1> QED BY <1>12, <1>15, <1>18, <1>19, <1>20, <1>21 DEF TraceInv

LEMMA DrainedKeeps == ASSUME TraceInv, Service!Drained PROVE TraceInv'
  <1>1. TraceTyped BY DEF TraceInv
  <1>2. PICK h \in 0..Len(events) : Ahead(inbox, h, Len(events)) /\ Generations(h) /\ Spans(h) BY DEF TraceInv
  <1>3. Service!Flush(batch) /\ UNCHANGED <<step, events, inbox, trace_map, active_generation, span_map>>
    BY DEF Service!Drained
  <1>4. batch \in Seq(TraceItem) BY <1>1 DEF TraceTyped
  <1>5. /\ sent' \in Seq(TraceItem) /\ batch' = << >>
        /\ Reported(sent' \o batch', lost', h, active_generation, "generation-create", "generation-update")
        /\ Reported(sent' \o batch', lost', h, span_map, "span-create", "span-update")
    BY <1>1, <1>2, <1>3, <1>4, FlushedReport DEF Generations, Spans, TraceAll
  <1>6. << >> \in Seq(TraceItem) OBVIOUS
  <1>7. TraceTyped' BY <1>1, <1>3, <1>5, <1>6 DEF TraceTyped
  <1>8. Generations(h)' /\ Spans(h)' BY <1>3, <1>5 DEF Generations, Spans, TraceAll
  <1>9. Ahead(inbox', h, Len(events')) /\ h \in 0..Len(events') BY <1>2, <1>3
  <1> QED BY <1>5, <1>7, <1>8, <1>9 DEF TraceInv

LEMMA TraceStays ==
  ASSUME TraceInv, UNCHANGED <<step, events, inbox, trace_map, active_generation, span_map, batch, sent, lost>>,
         service' = service \/ service' # "stopped"
  PROVE  TraceInv'
  <1>1. PICK h \in 0..Len(events) : Ahead(inbox, h, Len(events)) /\ Generations(h) /\ Spans(h) BY DEF TraceInv
  <1>2. TraceTyped' BY DEF TraceInv, TraceTyped
  <1>3. Generations(h)' /\ Spans(h)' BY <1>1 DEF Generations, Spans, TraceAll
  <1>4. Ahead(inbox', h, Len(events')) /\ h \in 0..Len(events') BY <1>1
  <1> QED BY <1>2, <1>3, <1>4 DEF TraceInv

(* The service's invariant.  (services/mod.rs, services/langfuse.rs.)      *)
THEOREM TraceInvariant == Service!Spec => []TraceInv
  <1>1. Service!Init => TraceInv
    <2>1. SUFFICES ASSUME Service!Init PROVE TraceInv OBVIOUS
    <2>2. /\ step = [s \in Steps |-> [pc |-> "idle", gen |-> 0, span |-> 0]]
          /\ events = << >> /\ inbox = << >> /\ batch = << >> /\ sent = << >> /\ lost = {}
          /\ trace_map = << >> /\ active_generation = << >> /\ span_map = << >>
      BY <2>1 DEF Service!Init, Service!NoEntries
    <2>3. DOMAIN << >> = {} /\ Len(<< >>) = 0 /\ << >> \o << >> = << >> OBVIOUS
    <2>4. \A i \in 1..0 : FALSE OBVIOUS
    <2>5. step \in [Steps -> [pc : {"idle", "ready", "calling", "answered", "failed", "tool"}, gen : Nat, span : Nat]]
      BY <2>2
    <2>6. TraceTyped BY <2>2, <2>3, <2>5 DEF TraceTyped
    <2>7. \A c, u : Reported(<< >>, {}, 0, << >>, c, u) BY <2>3, <2>4 DEF Reported
    <2>8. Generations(0) /\ Spans(0) BY <2>2, <2>3, <2>7 DEF Generations, Spans, TraceAll
    <2>9. Ahead(inbox, 0, Len(events)) /\ 0 \in 0..Len(events) BY <2>2, <2>3, <2>4 DEF Ahead
    <2> QED BY <2>2, <2>6, <2>8, <2>9 DEF TraceInv
  <1>2. ASSUME TraceInv, [Service!Next]_(Service!vars) PROVE TraceInv'
    <2>1. ASSUME NEW s \in Steps, Service!AgentActs(s) PROVE TraceInv' BY <1>2, <2>1, AgentActsKeeps
    <2>2. CASE Service!HandleEvent BY <1>2, <2>2, HandleEventKeeps
    <2>3. CASE Service!Shutdown BY <1>2, <2>3, TraceStays DEF Service!Shutdown
    <2>4. CASE Service!Drained BY <1>2, <2>4, DrainedKeeps
    <2>5. CASE Service!BusDropped BY <1>2, <2>5, TraceStays DEF Service!BusDropped
    <2>6. CASE UNCHANGED Service!vars BY <1>2, <2>6, TraceStays DEF Service!vars
    <2> QED BY <1>2, <2>1, <2>2, <2>3, <2>4, <2>5, <2>6 DEF Service!Next
  <1> QED BY <1>1, <1>2, PTL DEF Service!Spec

(* Nothing is sent twice, a generation or span is reported before its end  *)
(* unless its batch was lost, and a service that has stopped has sent all  *)
(* it had.                                                                 *)
THEOREM TracesAreSentOnce == Service!Spec => []Service!SentOnce
  <1>1. ASSUME TraceInv PROVE Service!SentOnce
    <2>1. TraceTyped BY <1>1 DEF TraceInv
    <2>2. PICK h \in 0..Len(events) : Generations(h) /\ Spans(h) BY <1>1 DEF TraceInv
    <2>3. PICK A : A = sent \o batch OBVIOUS
    <2>4. A \in Seq(TraceItem) BY <2>1, <2>3, ConcatProperties DEF TraceTyped
    <2>5. DOMAIN A = 1..Len(A) BY <2>4, LenProperties
    <2>6. /\ Reported(A, lost, h, active_generation, "generation-create", "generation-update")
          /\ Reported(A, lost, h, span_map, "span-create", "span-update")
      BY <2>2, <2>3 DEF Generations, Spans, TraceAll
    <2>7. ASSUME NEW i \in 1..Len(A), NEW j \in 1..Len(A), i # j, A[i] = A[j]
          PROVE  A[i].type \in {"trace-create", "trace-update"}
      <3>1. A[i] \in TraceItem BY <2>4, ElementOfSeq
      <3>2. A[i].type \notin {"generation-create", "generation-update"} BY <2>6, <2>7 DEF Reported
      <3>3. A[i].type \notin {"span-create", "span-update"} BY <2>6, <2>7 DEF Reported
      <3> QED BY <3>1, <3>2, <3>3 DEF TraceItem
    <2>8. ASSUME NEW j \in 1..Len(A), NEW c, NEW u, NEW map, Reported(A, lost, h, map, c, u), A[j].type = u
          PROVE  \E d \in Service!Range(SubSeq(A, 1, j)) \cup lost : d.type = c /\ d.id = A[j].id
      <3>1. CASE \E d \in lost : d.type = c /\ d.id = A[j].id BY <3>1
      <3>2. ASSUME NEW i \in 1..j, A[i].type = c, A[i].id = A[j].id
            PROVE  A[i] \in Service!Range(SubSeq(A, 1, j))
        <4>1. Len(A) \in Nat /\ j \in Nat /\ j <= Len(A) BY <2>4, LenProperties
        <4>2. PICK b : b = SubSeq(A, 1, j) OBVIOUS
        <4>3. 1 \in 1..(Len(A) + 1) /\ j \in (1 - 1)..Len(A) BY <4>1
        <4>4. b \in Seq(TraceItem) /\ Len(b) = j /\ b[i] = A[i]
          BY <2>4, <4>1, <4>2, <4>3
        <4>5. DOMAIN b = 1..j BY <4>4, LenProperties
        <4> QED BY <4>2, <4>4, <4>5 DEF Service!Range
      <3> QED BY <2>8, <3>1, <3>2 DEF Reported
    <2>9. \A i, j \in DOMAIN A :
            /\ i # j /\ A[i] = A[j] => A[i].type \in {"trace-create", "trace-update"}
            /\ A[j].type = "span-update" =>
                  \E c \in Service!Range(SubSeq(A, 1, j)) \cup lost : c.type = "span-create" /\ c.id = A[j].id
            /\ A[j].type = "generation-update" =>
                  \E c \in Service!Range(SubSeq(A, 1, j)) \cup lost : c.type = "generation-create" /\ c.id = A[j].id
      BY <2>5, <2>6, <2>7, <2>8
    <2>10. service = "stopped" => batch = << >> BY <1>1 DEF TraceInv
    <2>11. SUFFICES ASSUME NEW i \in DOMAIN (sent \o batch), NEW j \in DOMAIN (sent \o batch)
                    PROVE /\ i # j /\ (sent \o batch)[i] = (sent \o batch)[j] =>
                                (sent \o batch)[i].type \in {"trace-create", "trace-update"} \/
                                    ((sent \o batch)[i].type = "generation-update" /\ \E k \in Steps, l \in Steps : k # l /\ CorrOf[k] = CorrOf[l])
                          /\ (sent \o batch)[j].type = "span-update" =>
                                \E c \in Service!Range(SubSeq(sent \o batch, 1, j)) \cup lost : c.type = "span-create" /\ c.id = (sent \o batch)[j].id
                          /\ (sent \o batch)[j].type = "generation-update" =>
                                \E c \in Service!Range(SubSeq(sent \o batch, 1, j)) \cup lost : c.type = "generation-create" /\ c.id = (sent \o batch)[j].id
      BY <2>10 DEF Service!SentOnce
    <2> QED BY <2>3, <2>9
  <1> QED BY <1>1, TraceInvariant, PTL

-----------------------------------------------------------------------------
(* The outbound sinks.                                                      *)
Sink == INSTANCE Sinks

(* What a project may declare: no sink has the name of nobody, retries and  *)
(* delays are numbers.                                                      *)
SinksDeclared ==
    /\ "none" \notin Sink!Sinks
    /\ \A s \in Sink!Sinks : SinkConfigs[s].attempts \in Nat /\ SinkConfigs[s].backoff \in Seq(Nat)
    /\ Hints \subseteq Nat

SinkEvent == [kind : Kinds \cup {Sink!Dispatched, Sink!Failed}, sink : Sink!Sinks \cup {"none"}, trigger : Nat]
Replies == {"success", "client_error", "server_error", "rate_limited", "network_error", "error_body"}
SinkTask == [pc : {"waiting", "sending", "sleeping", "telling", "stopped", "panicked"}, event : Nat,
             attempt : Nat, delay : Nat, replies : Seq(Replies), result : {"none", Sink!Dispatched, Sink!Failed}]

SinkTyped ==
    /\ log \in Seq(SinkEvent)
    /\ queue \in [Sink!Sinks -> Seq(Nat)]
    /\ handled \in [Sink!Sinks -> Seq(Nat)]
    /\ task \in [Sink!Sinks -> SinkTask]

(* What was taken, and what the subscription holds: events of a log of e    *)
(* events, in its order.                                                    *)
InBusOrder(d, q, e) ==
    /\ \A i \in 1..Len(d) : d[i] \in 1..e
    /\ \A i, j \in 1..Len(d) : i < j => d[i] < d[j]
    /\ \A i \in 1..Len(q) : q[i] \in 1..e
    /\ \A i, j \in 1..Len(q) : i < j => q[i] < q[j]
    /\ \A i \in 1..Len(d), j \in 1..Len(q) : d[i] < q[j]

(* A sink is at work on the last event it took.                             *)
Current(d, t) ==
    IF t.pc \in {"waiting", "stopped"} THEN t.event = 0
    ELSE 1 <= Len(d) /\ t.event = d[Len(d)]

Taken(d) == {d[i] : i \in 1..Len(d)}
Outcomes(s) == {i \in 1..Len(log) : log[i].sink = s}
Reports(s) == {log[i].trigger : i \in Outcomes(s)}
Kept(s) == {e \in Taken(handled[s]) : <<s, e>> \notin untold /\ e # task[s].event}

OutcomeInv ==
    \A s \in Sink!Sinks :
        /\ InBusOrder(handled[s], queue[s], Len(log))
        /\ SinkConfigs[s].type # "stdout" =>
              /\ Current(handled[s], task[s])
              /\ Reports(s) = Kept(s)
              /\ \A i, j \in Outcomes(s) : i < j => log[i].trigger < log[j].trigger
              /\ \A e : <<s, e>> \in untold => e \in Taken(handled[s]) /\ e # task[s].event

(* One reply an attempt; after any but the last another may follow.         *)
Retryable == {"server_error", "rate_limited", "network_error"}
RetriesOf(cfg, t) ==
    /\ \A i \in 1..(Len(t.replies) - 1) : t.replies[i] \in Retryable
    /\ Len(t.replies) <= cfg.attempts
    /\ t.pc = "sending" => Len(t.replies) + 1 = t.attempt /\ t.attempt <= cfg.attempts
                           /\ \A i \in 1..Len(t.replies) : t.replies[i] \in Retryable
    /\ t.pc = "sleeping" => Len(t.replies) = t.attempt /\ t.attempt < cfg.attempts
                           /\ \A i \in 1..Len(t.replies) : t.replies[i] \in Retryable
    /\ t.delay \in 0..Sink!MaxDelay \cup {cfg.backoff[i] : i \in 1..Len(cfg.backoff)}
    /\ t.pc = "telling" => t.result \in {Sink!Dispatched, Sink!Failed}

RetryInv == \A s \in Sink!Sinks : RetriesOf(SinkConfigs[s], task[s])

SinkInv == SinkTyped /\ OutcomeInv /\ RetryInv

(* A task that has been given nothing, or has just been given something.    *)
LEMMA FreshRetries ==
  ASSUME SinksDeclared, NEW s \in Sink!Sinks, NEW t \in SinkTask, t.replies = << >>, t.delay = 0,
         t.pc # "sleeping", t.pc = "sending" => t.attempt = 1 /\ SinkConfigs[s].attempts > 0,
         t.pc = "telling" => t.result \in {Sink!Dispatched, Sink!Failed}
  PROVE  RetriesOf(SinkConfigs[s], t)
  <1>1. PICK a \in Nat : a = SinkConfigs[s].attempts BY DEF SinksDeclared
  <1>2. Len(t.replies) = 0 /\ 0 - 1 = -1 BY <1>1
  <1>3. (\A i \in 1..0 : FALSE) /\ (\A i \in 1..-1 : FALSE) OBVIOUS
  <1>4. 0 <= a /\ (a > 0 => 1 <= a) /\ 0 + 1 = 1 BY <1>1
  <1>5. 0 \in 0..Sink!MaxDelay BY DEF Sink!MaxDelay
  <1> QED BY <1>1, <1>2, <1>3, <1>4, <1>5 DEF RetriesOf

(* One more reply.                                                          *)
LEMMA RepliedRetries ==
  ASSUME SinksDeclared, NEW s \in Sink!Sinks, NEW t \in SinkTask, t.pc = "sending", RetriesOf(SinkConfigs[s], t),
         NEW reply \in Replies, NEW u \in SinkTask, u.replies = Append(t.replies, reply), u.attempt = t.attempt,
         u.pc # "sending",
         u.pc = "sleeping" => u.attempt < SinkConfigs[s].attempts /\ reply \in Retryable,
         u.pc = "telling" => u.result \in {Sink!Dispatched, Sink!Failed},
         u.delay \in 0..Sink!MaxDelay \cup {SinkConfigs[s].backoff[i] : i \in 1..Len(SinkConfigs[s].backoff)}
  PROVE  RetriesOf(SinkConfigs[s], u)
  <1>1. PICK a \in Nat : a = SinkConfigs[s].attempts BY DEF SinksDeclared
  <1>2. t.replies \in Seq(Replies) /\ t.attempt \in Nat BY DEF SinkTask
  <1>3. PICK r \in Nat : r = Len(t.replies) BY <1>2, LenProperties
  <1>4. r + 1 = t.attempt /\ t.attempt <= a /\ \A i \in 1..r : t.replies[i] \in Retryable
    BY <1>1, <1>3 DEF RetriesOf
  <1>5. PICK q : q = u.replies OBVIOUS
  <1>6. Len(q) = r + 1 /\ q[r + 1] = reply /\ \A i \in 1..r : q[i] = t.replies[i]
    BY <1>2, <1>3, <1>5, AppendProperties
  <1>7. \A i \in 1..r : q[i] \in Retryable BY <1>4, <1>6
  <1>8. (r + 1) - 1 = r /\ r + 1 <= a /\ \A i \in 1..(r + 1) : i \in 1..r \/ i = r + 1 BY <1>2, <1>4
  <1>9. reply \in Retryable => \A i \in 1..(r + 1) : q[i] \in Retryable BY <1>6, <1>7, <1>8
  <1> QED BY <1>1, <1>4, <1>5, <1>6, <1>7, <1>8, <1>9 DEF RetriesOf

(* What is published is delivered to the sinks that listen and have room.   *)
LEMMA DeliveredInOrder ==
  ASSUME NEW e \in Nat, NEW d \in Seq(Nat), NEW q \in Seq(Nat), InBusOrder(d, q, e)
  PROVE  /\ InBusOrder(d, q, e + 1)
         /\ Append(q, e + 1) \in Seq(Nat) /\ InBusOrder(d, Append(q, e + 1), e + 1)
  <1>1. \A i \in 1..e : i \in 1..(e + 1) /\ i < e + 1 OBVIOUS
  <1>2. InBusOrder(d, q, e + 1) BY <1>1 DEF InBusOrder
  <1>3. PICK n \in Nat : n = Len(q) BY LenProperties
  <1>4. PICK p : p = Append(q, e + 1) OBVIOUS
  <1>5. p \in Seq(Nat) /\ Len(p) = n + 1 /\ p[n + 1] = e + 1 /\ \A i \in 1..n : p[i] = q[i]
    BY <1>3, <1>4, AppendProperties
  <1>6. \A i \in 1..(n + 1) : i \in 1..n \/ i = n + 1 OBVIOUS
  <1>7. e + 1 \in 1..(e + 1) OBVIOUS
  <1>8. \A i \in 1..(n + 1) : p[i] \in 1..(e + 1) BY <1>1, <1>3, <1>5, <1>6, <1>7 DEF InBusOrder
  <1>9. ASSUME NEW i \in 1..(n + 1), NEW j \in 1..(n + 1), i < j PROVE p[i] < p[j]
    <2>1. i \in 1..n BY <1>9
    <2>2. CASE j \in 1..n BY <1>3, <1>5, <1>9, <2>1, <2>2 DEF InBusOrder
    <2>3. CASE j = n + 1
      <3>1. q[i] \in 1..e BY <1>3, <2>1 DEF InBusOrder
      <3> QED BY <1>1, <1>5, <2>1, <2>3, <3>1
    <2> QED BY <1>6, <2>2, <2>3
  <1>10. ASSUME NEW i \in 1..Len(d), NEW j \in 1..(n + 1) PROVE d[i] < p[j]
    <2>1. CASE j \in 1..n BY <1>3, <1>5, <2>1 DEF InBusOrder
    <2>2. CASE j = n + 1
      <3>1. d[i] \in 1..e BY DEF InBusOrder
      <3> QED BY <1>1, <1>5, <2>2, <3>1
    <2> QED BY <1>6, <2>1, <2>2
  <1>11. InBusOrder(d, p, e + 1) BY <1>1, <1>5, <1>8, <1>9, <1>10 DEF InBusOrder
  <1> QED BY <1>2, <1>4, <1>5, <1>11

LEMMA DeliveredIs ==
  ASSUME SinkTyped, NEW kind, NEW sink, NEW trigger \in Nat,
         kind \in Kinds \cup {Sink!Dispatched, Sink!Failed}, sink \in Sink!Sinks \cup {"none"},
         \A s \in Sink!Sinks : InBusOrder(handled[s], queue[s], Len(log)),
         Sink!Deliver(queue, kind, sink, trigger), handled' = handled
  PROVE  /\ log' \in Seq(SinkEvent) /\ Len(log) \in Nat /\ Len(log') = Len(log) + 1
         /\ \A i \in 1..Len(log) : log'[i] = log[i]
         /\ log'[Len(log) + 1] = [kind |-> kind, sink |-> sink, trigger |-> trigger]
         /\ queue' \in [Sink!Sinks -> Seq(Nat)]
         /\ \A s \in Sink!Sinks : InBusOrder(handled'[s], queue'[s], Len(log'))
  <1>1. PICK e \in Nat : e = Len(log) BY LenProperties DEF SinkTyped
  <1>2. PICK x : x = [kind |-> kind, sink |-> sink, trigger |-> trigger] OBVIOUS
  <1>3. x \in SinkEvent BY <1>2 DEF SinkEvent
  <1>4. log' = Append(log, x) BY <1>2 DEF Sink!Deliver
  <1>5. log' \in Seq(SinkEvent) /\ Len(log') = e + 1 /\ log'[e + 1] = x /\ \A i \in 1..e : log'[i] = log[i]
    BY <1>1, <1>3, <1>4, AppendProperties DEF SinkTyped
  <1>6. queue' = [s \in Sink!Sinks |-> IF Sink!Listens(s) /\ Len(queue[s]) < Capacity
                                       THEN Append(queue[s], e + 1) ELSE queue[s]]
    BY <1>1 DEF Sink!Deliver
  <1>7. ASSUME NEW s \in Sink!Sinks PROVE queue'[s] \in Seq(Nat) /\ InBusOrder(handled[s], queue'[s], e + 1)
    <2>1. PICK d \in Seq(Nat), q \in Seq(Nat) : d = handled[s] /\ q = queue[s] BY DEF SinkTyped
    <2>2. queue'[s] = q \/ queue'[s] = Append(q, e + 1) BY <1>6, <2>1
    <2>3. InBusOrder(d, q, e) BY <1>1, <2>1
    <2>4. /\ InBusOrder(d, q, e + 1)
          /\ Append(q, e + 1) \in Seq(Nat) /\ InBusOrder(d, Append(q, e + 1), e + 1)
      BY <2>3, DeliveredInOrder
    <2> QED BY <2>1, <2>2, <2>4
  <1>8. DOMAIN queue' = Sink!Sinks /\ queue' = [s \in Sink!Sinks |-> queue'[s]] BY <1>6
  <1>9. queue' \in [Sink!Sinks -> Seq(Nat)] BY <1>7, <1>8
  <1> QED BY <1>1, <1>2, <1>5, <1>7, <1>9

(* What the log says of a sink that tells nothing.                          *)
LEMMA QuietReports ==
  ASSUME SinkTyped, log' \in Seq(SinkEvent), NEW s, NEW e \in Nat, e = Len(log), Len(log') = e + 1,
         \A i \in 1..e : log'[i] = log[i], log'[e + 1].sink # s
  PROVE  /\ Outcomes(s)' = Outcomes(s) /\ Reports(s)' = Reports(s)
         /\ \A i \in Outcomes(s) : log'[i] = log[i]
  <1>1. \A i \in 1..(e + 1) : i \in 1..e \/ i = e + 1 OBVIOUS
  <1>2. \A i \in 1..e : i \in 1..(e + 1) OBVIOUS
  <1>3. Outcomes(s)' = Outcomes(s) BY <1>1, <1>2 DEF Outcomes
  <1>4. \A i \in Outcomes(s) : log'[i] = log[i] BY DEF Outcomes
  <1>5. Reports(s)' = Reports(s) BY <1>3, <1>4 DEF Reports
  <1> QED BY <1>3, <1>4, <1>5

LEMMA PublishEventKeeps == ASSUME SinksDeclared, SinkInv, NEW kind \in Kinds, Sink!Publish(kind) PROVE SinkInv'
  <1>1. SinkTyped /\ OutcomeInv /\ RetryInv BY DEF SinkInv
  <1>2. Sink!Deliver(queue, kind, "none", 0) /\ UNCHANGED <<task, handled, untold, cancelled>> BY DEF Sink!Publish
  <1>3. \A s \in Sink!Sinks : InBusOrder(handled[s], queue[s], Len(log)) BY <1>1 DEF OutcomeInv
  <1>4. /\ log' \in Seq(SinkEvent) /\ Len(log) \in Nat /\ Len(log') = Len(log) + 1
        /\ \A i \in 1..Len(log) : log'[i] = log[i]
        /\ log'[Len(log) + 1] = [kind |-> kind, sink |-> "none", trigger |-> 0]
        /\ queue' \in [Sink!Sinks -> Seq(Nat)]
        /\ \A s \in Sink!Sinks : InBusOrder(handled'[s], queue'[s], Len(log'))
    BY <1>1, <1>2, <1>3, DeliveredIs
  <1>5. SinkTyped' BY <1>1, <1>2, <1>4 DEF SinkTyped
  <1>6. RetryInv' BY <1>1, <1>2 DEF RetryInv
  <1>7. ASSUME NEW s \in Sink!Sinks
        PROVE  /\ Outcomes(s)' = Outcomes(s) /\ Reports(s)' = Reports(s)
               /\ \A i \in Outcomes(s) : log'[i] = log[i]
    <2>1. log'[Len(log) + 1].sink # s BY <1>4 DEF SinksDeclared
    <2> QED BY <1>1, <1>4, <2>1, QuietReports
  <1>8. \A s \in Sink!Sinks : Kept(s)' = Kept(s) BY <1>2 DEF Kept
  <1>9. OutcomeInv'
    <2>1. ASSUME NEW s \in Sink!Sinks, SinkConfigs[s].type # "stdout"
          PROVE  /\ Current(handled'[s], task'[s])
                 /\ Reports(s)' = Kept(s)'
                 /\ \A i, j \in Outcomes(s)' : i < j => log'[i].trigger < log'[j].trigger
                 /\ \A e : <<s, e>> \in untold' => e \in Taken(handled'[s]) /\ e # task'[s].event
      <3>1. \A i, j \in Outcomes(s)' : i < j => log'[i].trigger < log'[j].trigger
        BY <1>1, <1>7, <2>1 DEF OutcomeInv
      <3> QED BY <1>1, <1>2, <1>7, <1>8, <2>1, <3>1 DEF OutcomeInv
    <2> QED BY <1>4, <2>1 DEF OutcomeInv
  <1> QED BY <1>5, <1>6, <1>9 DEF SinkInv

(* A sink goes on with its event, and nobody is told.                       *)
LEMMA WorkKeeps ==
  ASSUME SinksDeclared, SinkInv, NEW s \in Sink!Sinks, NEW t \in SinkTask, task' = [task EXCEPT ![s] = t],
         t.event = task[s].event,
         t.pc \in {"waiting", "stopped"} <=> task[s].pc \in {"waiting", "stopped"},
         RetriesOf(SinkConfigs[s], t),
         queue' = queue \/ queue' = [queue EXCEPT ![s] = << >>],
         UNCHANGED <<log, handled, untold>>
  PROVE  SinkInv'
  <1>1. SinkTyped /\ OutcomeInv /\ RetryInv BY DEF SinkInv
  <1>2. task' \in [Sink!Sinks -> SinkTask] /\ task'[s] = t /\ \A o \in Sink!Sinks : o # s => task'[o] = task[o]
    BY <1>1 DEF SinkTyped
  <1>3. << >> \in Seq(Nat) /\ Len(<< >>) = 0 /\ \A i \in 1..0 : FALSE OBVIOUS
  <1>4. /\ queue' \in [Sink!Sinks -> Seq(Nat)]
        /\ \A o \in Sink!Sinks : queue'[o] = queue[o] \/ queue'[o] = << >>
    BY <1>1, <1>3 DEF SinkTyped
  <1>5. SinkTyped' BY <1>1, <1>2, <1>4 DEF SinkTyped
  <1>6. RetryInv' BY <1>1, <1>2 DEF RetryInv
  <1>7. \A o \in Sink!Sinks : task'[o].event = task[o].event BY <1>2
  <1>8. \A o \in Sink!Sinks : Current(handled[o], task[o]) => Current(handled[o], task'[o])
    BY <1>2 DEF Current
  <1>9. ASSUME NEW o \in Sink!Sinks PROVE InBusOrder(handled[o], queue'[o], Len(log))
    <2>1. InBusOrder(handled[o], queue[o], Len(log)) BY <1>1 DEF OutcomeInv
    <2>2. InBusOrder(handled[o], << >>, Len(log)) BY <1>3, <2>1 DEF InBusOrder
    <2> QED BY <1>4, <2>1, <2>2
  <1>10. \A o \in Sink!Sinks : Kept(o)' = Kept(o) BY <1>7 DEF Kept
  <1>11. \A o \in Sink!Sinks : Outcomes(o)' = Outcomes(o) /\ Reports(o)' = Reports(o) BY DEF Outcomes, Reports
  <1>12. OutcomeInv'
    <2>1. ASSUME NEW o \in Sink!Sinks, SinkConfigs[o].type # "stdout"
          PROVE  /\ Current(handled'[o], task'[o])
                 /\ Reports(o)' = Kept(o)'
                 /\ \A i, j \in Outcomes(o)' : i < j => log'[i].trigger < log'[j].trigger
                 /\ \A e : <<o, e>> \in untold' => e \in Taken(handled'[o]) /\ e # task'[o].event
      BY <1>1, <1>7, <1>8, <1>10, <1>11, <2>1 DEF OutcomeInv
    <2> QED BY <1>9, <2>1 DEF OutcomeInv
  <1> QED BY <1>5, <1>6, <1>12 DEF SinkInv

(* What a reply, or its absence, makes of a task.                           *)
TaskIs(p, v, n, d, q, o) == [pc |-> p, event |-> v, attempt |-> n, delay |-> d, replies |-> q, result |-> o]
TaskPcs == {"waiting", "sending", "sleeping", "telling", "stopped", "panicked"}
TaskResults == {"none", Sink!Dispatched, Sink!Failed}

LEMMA TaskParts ==
  ASSUME NEW t \in SinkTask
  PROVE  \E p \in TaskPcs, v \in Nat, n \in Nat, d \in Nat, q \in Seq(Replies), o \in TaskResults :
            t = TaskIs(p, v, n, d, q, o)
  <1>1. t.pc \in TaskPcs /\ t.event \in Nat /\ t.attempt \in Nat /\ t.delay \in Nat
        /\ t.replies \in Seq(Replies) /\ t.result \in TaskResults
    BY DEF SinkTask, TaskPcs, TaskResults
  <1>2. t = TaskIs(t.pc, t.event, t.attempt, t.delay, t.replies, t.result) BY DEF SinkTask, TaskIs
  <1> QED BY <1>1, <1>2

LEMMA TaskTyped ==
  ASSUME NEW p \in TaskPcs, NEW v \in Nat, NEW n \in Nat, NEW d \in Nat, NEW q \in Seq(Replies), NEW o \in TaskResults,
         NEW t, t = TaskIs(p, v, n, d, q, o)
  PROVE  t \in SinkTask /\ t.pc = p /\ t.event = v /\ t.attempt = n /\ t.delay = d /\ t.replies = q /\ t.result = o
  BY DEF TaskIs, SinkTask, TaskPcs, TaskResults

TurnedTo(t, z) == [t EXCEPT !.pc = z]
WithResult(t, z) == [t EXCEPT !.result = z]
WithDelay(t, z) == [t EXCEPT !.delay = z]

LEMMA TaskTurns ==
  ASSUME NEW p, NEW v, NEW n, NEW d, NEW q, NEW o, NEW z
  PROVE  /\ TurnedTo(TaskIs(p, v, n, d, q, o), z) = TaskIs(z, v, n, d, q, o)
         /\ WithResult(TaskIs(p, v, n, d, q, o), z) = TaskIs(p, v, n, d, q, z)
         /\ WithDelay(TaskIs(p, v, n, d, q, o), z) = TaskIs(p, v, n, z, q, o)
  <1>1. TurnedTo(TaskIs(p, v, n, d, q, o), z) = TaskIs(z, v, n, d, q, o) BY DEF TurnedTo, TaskIs
  <1>2. WithResult(TaskIs(p, v, n, d, q, o), z) = TaskIs(p, v, n, d, q, z) BY DEF WithResult, TaskIs
  <1>3. WithDelay(TaskIs(p, v, n, d, q, o), z) = TaskIs(p, v, n, z, q, o) BY DEF WithDelay, TaskIs
  <1> QED BY <1>1, <1>2, <1>3

(* One attempt, its reply, or the wait for the next.                        *)
LEMMA AttemptKeeps ==
  ASSUME SinksDeclared, SinkInv, NEW s \in Sink!Sinks,
         Sink!Succeeds(s) \/ Sink!Refused(s) \/ Sink!TryLater(s) \/ Sink!Panics(s)
  PROVE  SinkInv'
  <1>1. SinkTyped /\ RetryInv BY DEF SinkInv
  <1>2. PICK t : t = task[s] OBVIOUS
  <1>3. t \in SinkTask /\ RetriesOf(SinkConfigs[s], t) BY <1>1, <1>2 DEF SinkTyped, RetryInv
  <1>4. t.pc = "sending" /\ UNCHANGED <<log, handled, untold>>
        /\ (queue' = queue \/ queue' = [queue EXCEPT ![s] = << >>])
    BY <1>2 DEF Sink!Succeeds, Sink!Refused, Sink!TryLater, Sink!Panics
  <1>5. PICK b \in Seq(Nat), a \in Nat : b = SinkConfigs[s].backoff /\ a = SinkConfigs[s].attempts
    BY DEF SinksDeclared
  <1>6. t.attempt \in Nat /\ t.attempt >= 1
    <2>1. t.attempt \in Nat /\ t.replies \in Seq(Replies) BY <1>3 DEF SinkTask
    <2>2. PICK r \in Nat : r = Len(t.replies) BY <2>1, LenProperties
    <2>3. r + 1 = t.attempt BY <1>3, <1>4, <2>2 DEF RetriesOf
    <2> QED BY <2>1, <2>2, <2>3
  <1> DEFINE Delays == 0..Sink!MaxDelay \cup {SinkConfigs[s].backoff[i] : i \in 1..Len(SinkConfigs[s].backoff)}
  <1>7. t.delay \in Delays BY <1>3 DEF RetriesOf
  <1>8. Delays \subseteq Nat
    <2>1. \A i \in 1..Len(b) : b[i] \in Nat BY <1>5, ElementOfSeq
    <2>2. 0..Sink!MaxDelay \subseteq Nat BY DEF Sink!MaxDelay
    <2> QED BY <1>5, <2>1, <2>2
  <1>9. ASSUME NEW hint \in Hints \cup {Sink!NoHint}
        PROVE  (IF hint = Sink!NoHint THEN Sink!DelayFor(SinkConfigs[s], t.attempt) ELSE Sink!Clamped(hint)) \in Delays
    <2>1. hint \in Nat BY DEF SinksDeclared, Sink!NoHint
    <2>2. Sink!Clamped(hint) \in 0..Sink!MaxDelay BY <2>1 DEF Sink!Clamped, Sink!MaxDelay
    <2>3. Sink!DelayFor(SinkConfigs[s], t.attempt) \in Delays
      <3>1. CASE b = << >>
        <4>1. 1 \in 0..Sink!MaxDelay BY DEF Sink!MaxDelay
        <4> QED BY <1>5, <3>1, <4>1 DEF Sink!DelayFor
      <3>2. CASE b # << >>
        <4>1. PICK n \in Nat : n = Len(b) BY LenProperties
        <4>2. n >= 1 BY <3>2, <4>1, EmptySeq
        <4>3. PICK k : k = IF t.attempt < n THEN t.attempt ELSE n OBVIOUS
        <4>4. k \in 1..n BY <1>6, <4>2, <4>3
        <4>5. Sink!DelayFor(SinkConfigs[s], t.attempt) = b[k] BY <1>5, <3>2, <4>1, <4>3 DEF Sink!DelayFor
        <4> QED BY <1>5, <4>1, <4>4, <4>5
      <3> QED BY <3>1, <3>2
    <2> QED BY <2>2, <2>3
  <1>10. PICK p \in TaskPcs, v \in Nat, n \in Nat, d \in Nat, q \in Seq(Replies), o \in TaskResults :
            t = TaskIs(p, v, n, d, q, o)
    BY <1>3, TaskParts
  <1>11. t.attempt = n /\ t.replies = q /\ t.delay = d /\ t.event = v /\ t.result = o BY <1>10, TaskTyped
  <1> HIDE DEF Delays
  <1>12. ASSUME NEW reply
         PROVE  Sink!Sent(s, reply) = TaskIs(p, v, n, d, Append(q, reply), o)
    <2>1. Sink!Sent(s, reply) = [t EXCEPT !.replies = Append(@, reply)] BY <1>2 DEF Sink!Sent
    <2> QED BY <1>10, <2>1 DEF TaskIs
  <1>13. ASSUME NEW reply \in Replies, NEW z \in {"sleeping", "telling", "panicked"}, NEW w \in Delays, NEW y \in TaskResults,
                task' = [task EXCEPT ![s] = TaskIs(z, v, n, w, Append(q, reply), y)],
                z = "sleeping" => n < SinkConfigs[s].attempts /\ reply \in Retryable,
                z = "telling" => y \in {Sink!Dispatched, Sink!Failed}
         PROVE  SinkInv'
    <2>1. PICK u : u = TaskIs(z, v, n, w, Append(q, reply), y) OBVIOUS
    <2>2. Append(q, reply) \in Seq(Replies) /\ w \in Nat /\ z \in TaskPcs BY <1>8, AppendProperties DEF TaskPcs
    <2>3. u \in SinkTask /\ u.pc = z /\ u.event = v /\ u.attempt = n /\ u.delay = w /\ u.replies = Append(q, reply)
          /\ u.result = y
      <3>1. PICK g \in Seq(Replies), k \in Nat, l \in TaskPcs : g = Append(q, reply) /\ k = w /\ l = z BY <2>2
      <3>2. u = TaskIs(l, v, n, k, g, y) BY <2>1, <3>1
      <3>3. u \in SinkTask BY <3>2 DEF TaskIs, SinkTask, TaskPcs, TaskResults
      <3>4. u.pc = l /\ u.event = v /\ u.attempt = n /\ u.delay = k /\ u.replies = g /\ u.result = y
        BY <3>2 DEF TaskIs
      <3> QED BY <3>1, <3>3, <3>4
    <2>4. u.pc # "sending" /\ (u.pc = "sleeping" => u.attempt < SinkConfigs[s].attempts /\ reply \in Retryable)
          /\ (u.pc = "telling" => u.result \in {Sink!Dispatched, Sink!Failed})
      BY <1>13, <2>3
    <2>5. u.delay \in 0..Sink!MaxDelay \cup {SinkConfigs[s].backoff[i] : i \in 1..Len(SinkConfigs[s].backoff)}
      BY <2>3 DEF Delays
    <2>6. RetriesOf(SinkConfigs[s], u)
      <3>1. u.replies = Append(t.replies, reply) /\ u.attempt = t.attempt BY <1>11, <2>3
      <3> QED BY <1>3, <1>4, <2>3, <2>4, <2>5, <3>1, RepliedRetries
    <2>7. task' = [task EXCEPT ![s] = u] BY <1>13, <2>1
    <2>8. u.pc \notin {"waiting", "stopped"} /\ task[s].pc \notin {"waiting", "stopped"} BY <1>2, <1>4, <2>3
    <2> QED BY <1>2, <1>4, <1>11, <2>3, <2>6, <2>7, <2>8, WorkKeeps
  <1>14. d \in Delays BY <1>7, <1>11
  <1>15. CASE Sink!Succeeds(s)
    <2>1. task' = [task EXCEPT ![s] = [TaskIs(p, v, n, d, Append(q, "success"), o)
                                          EXCEPT !.pc = "telling", !.result = Sink!Dispatched]]
      BY <1>12, <1>15 DEF Sink!Succeeds
    <2>2. task' = [task EXCEPT ![s] = TaskIs("telling", v, n, d, Append(q, "success"), Sink!Dispatched)]
      <3>1. PICK x, y : x = TaskIs(p, v, n, d, Append(q, "success"), o) /\ y = TaskIs("telling", v, n, d, Append(q, "success"), o) OBVIOUS
      <3>2. TurnedTo(x, "telling") = y BY <3>1, TaskTurns
      <3>3. WithResult(y, Sink!Dispatched) = TaskIs("telling", v, n, d, Append(q, "success"), Sink!Dispatched) BY <3>1, TaskTurns
      <3>4. [x EXCEPT !.pc = "telling", !.result = Sink!Dispatched] = WithResult(y, Sink!Dispatched) BY <3>2 DEF TurnedTo, WithResult
      <3> QED BY <2>1, <3>1, <3>3, <3>4
    <2>3. "success" \in Replies BY DEF Replies
    <2>4. Sink!Dispatched \in TaskResults BY DEF TaskResults
    <2>5. "telling" # "sleeping" /\ "telling" \in {"sleeping", "telling", "panicked"} OBVIOUS
    <2> QED BY <1>13, <1>14, <2>2, <2>3, <2>4, <2>5
  <1>16. CASE Sink!Refused(s)
    <2>1. task' = [task EXCEPT ![s] = [TaskIs(p, v, n, d, Append(q, "client_error"), o)
                                          EXCEPT !.pc = "telling", !.result = Sink!Failed]]
      BY <1>12, <1>16 DEF Sink!Refused
    <2>2. task' = [task EXCEPT ![s] = TaskIs("telling", v, n, d, Append(q, "client_error"), Sink!Failed)]
      <3>1. PICK x, y : x = TaskIs(p, v, n, d, Append(q, "client_error"), o) /\ y = TaskIs("telling", v, n, d, Append(q, "client_error"), o) OBVIOUS
      <3>2. TurnedTo(x, "telling") = y BY <3>1, TaskTurns
      <3>3. WithResult(y, Sink!Failed) = TaskIs("telling", v, n, d, Append(q, "client_error"), Sink!Failed) BY <3>1, TaskTurns
      <3>4. [x EXCEPT !.pc = "telling", !.result = Sink!Failed] = WithResult(y, Sink!Failed) BY <3>2 DEF TurnedTo, WithResult
      <3> QED BY <2>1, <3>1, <3>3, <3>4
    <2>3. "client_error" \in Replies BY DEF Replies
    <2>4. Sink!Failed \in TaskResults BY DEF TaskResults
    <2>5. "telling" # "sleeping" /\ "telling" \in {"sleeping", "telling", "panicked"} OBVIOUS
    <2> QED BY <1>13, <1>14, <2>2, <2>3, <2>4, <2>5
  <1>17. CASE Sink!Panics(s)
    <2>1. task' = [task EXCEPT ![s] = [TaskIs(p, v, n, d, Append(q, "error_body"), o) EXCEPT !.pc = "panicked"]]
      BY <1>12, <1>17 DEF Sink!Panics
    <2>2. task' = [task EXCEPT ![s] = TaskIs("panicked", v, n, d, Append(q, "error_body"), o)]
      <3>1. PICK x, y : x = TaskIs(p, v, n, d, Append(q, "error_body"), o) /\ y = TaskIs("panicked", v, n, d, Append(q, "error_body"), o) OBVIOUS
      <3>2. TurnedTo(x, "panicked") = y BY <3>1, TaskTurns
      <3> QED BY <2>1, <3>1, <3>2 DEF TurnedTo
    <2>3. "error_body" \in Replies BY DEF Replies
    <2>5. "panicked" \notin {"sleeping", "telling"} /\ "panicked" \in {"sleeping", "telling", "panicked"} OBVIOUS
    <2> QED BY <1>13, <1>14, <2>2, <2>3, <2>5
  <1>18. CASE Sink!TryLater(s)
    <2>1. PICK reply \in Retryable, hint \in Hints \cup {Sink!NoHint} :
            task' = [task EXCEPT ![s] =
               IF t.attempt < SinkConfigs[s].attempts
               THEN [Sink!Sent(s, reply) EXCEPT !.pc = "sleeping",
                        !.delay = IF hint = Sink!NoHint THEN Sink!DelayFor(SinkConfigs[s], t.attempt)
                                  ELSE Sink!Clamped(hint)]
               ELSE [Sink!Sent(s, reply) EXCEPT !.pc = "telling", !.result = Sink!Failed]]
      BY <1>2, <1>18 DEF Sink!TryLater, Retryable
    <2>2. PICK w : w = IF hint = Sink!NoHint THEN Sink!DelayFor(SinkConfigs[s], t.attempt) ELSE Sink!Clamped(hint)
      OBVIOUS
    <2>3. w \in Delays /\ reply \in Replies BY <1>9, <2>2 DEF Retryable, Replies
    <2>4. CASE n < SinkConfigs[s].attempts
      <3>1. task' = [task EXCEPT ![s] = [TaskIs(p, v, n, d, Append(q, reply), o) EXCEPT !.pc = "sleeping", !.delay = w]]
        BY <1>11, <1>12, <2>1, <2>2, <2>4
      <3>2. task' = [task EXCEPT ![s] = TaskIs("sleeping", v, n, w, Append(q, reply), o)]
        <4>1. PICK x, y : x = TaskIs(p, v, n, d, Append(q, reply), o) /\ y = TaskIs("sleeping", v, n, d, Append(q, reply), o) OBVIOUS
        <4>2. TurnedTo(x, "sleeping") = y BY <4>1, TaskTurns
        <4>3. WithDelay(y, w) = TaskIs("sleeping", v, n, w, Append(q, reply), o) BY <4>1, TaskTurns
        <4>4. [x EXCEPT !.pc = "sleeping", !.delay = w] = WithDelay(y, w) BY <4>2 DEF TurnedTo, WithDelay
        <4> QED BY <3>1, <4>1, <4>3, <4>4
      <3>3. "sleeping" \in {"sleeping", "telling", "panicked"} OBVIOUS
      <3> QED BY <1>13, <2>3, <2>4, <3>2, <3>3
    <2>5. CASE ~(n < SinkConfigs[s].attempts)
      <3>1. task' = [task EXCEPT ![s] = [TaskIs(p, v, n, d, Append(q, reply), o)
                                            EXCEPT !.pc = "telling", !.result = Sink!Failed]]
        BY <1>11, <1>12, <2>1, <2>5
      <3>2. task' = [task EXCEPT ![s] = TaskIs("telling", v, n, d, Append(q, reply), Sink!Failed)]
        <4>1. PICK x, y : x = TaskIs(p, v, n, d, Append(q, reply), o) /\ y = TaskIs("telling", v, n, d, Append(q, reply), o) OBVIOUS
        <4>2. TurnedTo(x, "telling") = y BY <4>1, TaskTurns
        <4>3. WithResult(y, Sink!Failed) = TaskIs("telling", v, n, d, Append(q, reply), Sink!Failed) BY <4>1, TaskTurns
        <4>4. [x EXCEPT !.pc = "telling", !.result = Sink!Failed] = WithResult(y, Sink!Failed) BY <4>2 DEF TurnedTo, WithResult
        <4> QED BY <3>1, <4>1, <4>3, <4>4
      <3>3. "telling" # "sleeping" /\ "telling" \in {"sleeping", "telling", "panicked"} OBVIOUS
      <3>4. Sink!Failed \in TaskResults BY DEF TaskResults
      <3> QED BY <1>13, <1>14, <2>3, <3>2, <3>3, <3>4
    <2> QED BY <2>4, <2>5
  <1> QED BY <1>15, <1>16, <1>17, <1>18

LEMMA WakesKeeps == ASSUME SinksDeclared, SinkInv, NEW s \in Sink!Sinks, Sink!Wakes(s) PROVE SinkInv'
  <1>1. SinkTyped /\ RetryInv BY DEF SinkInv
  <1>2. PICK t : t = task[s] OBVIOUS
  <1>3. t \in SinkTask /\ RetriesOf(SinkConfigs[s], t) BY <1>1, <1>2 DEF SinkTyped, RetryInv
  <1>4. PICK u : u = [t EXCEPT !.pc = "sending", !.attempt = t.attempt + 1, !.delay = 0] OBVIOUS
  <1>5. u \in SinkTask /\ u.pc = "sending" /\ u.attempt = t.attempt + 1 /\ u.delay = 0 /\ u.replies = t.replies /\ u.event = t.event
    <2>1. PICK p \in TaskPcs, v \in Nat, n \in Nat, d \in Nat, q \in Seq(Replies), o \in TaskResults :
             t = TaskIs(p, v, n, d, q, o)
      BY <1>3, TaskParts
    <2>2. t.attempt = n /\ t.replies = q /\ t.event = v BY <2>1, TaskTyped
    <2>3. u = TaskIs("sending", v, n + 1, 0, q, o)
      <3>1. PICK x, y : x = TaskIs("sending", v, n, d, q, o) /\ y = TaskIs("sending", v, n + 1, d, q, o) OBVIOUS
      <3>2. [t EXCEPT !.pc = "sending"] = x BY <2>1, <3>1 DEF TaskIs
      <3>3. [x EXCEPT !.attempt = n + 1] = y BY <3>1 DEF TaskIs
      <3>4. [y EXCEPT !.delay = 0] = TaskIs("sending", v, n + 1, 0, q, o) BY <3>1 DEF TaskIs
      <3>5. u = [[[t EXCEPT !.pc = "sending"] EXCEPT !.attempt = n + 1] EXCEPT !.delay = 0] BY <1>4, <2>2
      <3> QED BY <3>2, <3>3, <3>4, <3>5
    <2>4. PICK a \in TaskPcs, b \in Nat, c \in Nat : a = "sending" /\ b = n + 1 /\ c = 0 BY DEF TaskPcs
    <2>5. u = TaskIs(a, v, b, c, q, o) BY <2>3, <2>4
    <2>6. u \in SinkTask /\ u.pc = a /\ u.event = v /\ u.attempt = b /\ u.delay = c /\ u.replies = q
      BY <2>5, TaskTyped
    <2> QED BY <2>2, <2>4, <2>6
  <1>6. t.pc = "sleeping" /\ task' = [task EXCEPT ![s] = u] /\ UNCHANGED <<log, queue, handled, untold>>
    <2>1. /\ task[s].pc = "sleeping" /\ UNCHANGED <<log, queue, handled, untold>>
          /\ task' = [task EXCEPT ![s].pc = "sending", ![s].attempt = @ + 1, ![s].delay = 0]
      BY DEF Sink!Wakes
    <2>2. task \in [Sink!Sinks -> SinkTask] BY <1>1 DEF SinkTyped
    <2> QED BY <1>2, <1>4, <2>1, <2>2
  <1>7. RetriesOf(SinkConfigs[s], u)
    <2>1. PICK a \in Nat : a = SinkConfigs[s].attempts BY DEF SinksDeclared
    <2>2. t.replies \in Seq(Replies) /\ t.attempt \in Nat BY <1>3 DEF SinkTask
    <2>3. PICK r \in Nat : r = Len(t.replies) BY <2>2, LenProperties
    <2>4. r = t.attempt /\ t.attempt < a BY <1>3, <1>6, <2>1, <2>3 DEF RetriesOf
    <2>5. r + 1 = t.attempt + 1 /\ t.attempt + 1 <= a BY <2>1, <2>2, <2>4
    <2>6. 0 \in 0..Sink!MaxDelay BY DEF Sink!MaxDelay
    <2> QED BY <1>3, <1>5, <1>6, <2>1, <2>3, <2>5, <2>6 DEF RetriesOf
  <1> QED BY <1>2, <1>5, <1>6, <1>7, WorkKeeps

LEMMA StopKeeps == ASSUME SinksDeclared, SinkInv, NEW s \in Sink!Sinks, Sink!Stop(s) PROVE SinkInv'
  <1>1. SinkTyped /\ RetryInv BY DEF SinkInv
  <1>2. PICK t : t = task[s] OBVIOUS
  <1>3. t \in SinkTask /\ RetriesOf(SinkConfigs[s], t) BY <1>1, <1>2 DEF SinkTyped, RetryInv
  <1>4. PICK u : u = [t EXCEPT !.pc = "stopped"] OBVIOUS
  <1>5. u \in SinkTask /\ u.pc = "stopped" /\ u.delay = t.delay /\ u.replies = t.replies /\ u.event = t.event
    BY <1>3, <1>4 DEF SinkTask
  <1>6. t.pc = "waiting" /\ task' = [task EXCEPT ![s] = u] /\ queue' = [queue EXCEPT ![s] = << >>]
        /\ UNCHANGED <<log, handled, untold>>
    BY <1>1, <1>2, <1>4 DEF Sink!Stop, SinkTyped
  <1>7. RetriesOf(SinkConfigs[s], u) BY <1>3, <1>5 DEF RetriesOf
  <1> QED BY <1>2, <1>5, <1>6, <1>7, WorkKeeps

(* The event at the head of the subscription leaves it.                     *)
LEMMA HeadLeaves ==
  ASSUME NEW e \in Nat, NEW d \in Seq(Nat), NEW q \in Seq(Nat), q # << >>, InBusOrder(d, q, e)
  PROVE  /\ Head(q) \in 1..e /\ Tail(q) \in Seq(Nat)
         /\ InBusOrder(d, Tail(q), e)
         /\ Append(d, Head(q)) \in Seq(Nat) /\ InBusOrder(Append(d, Head(q)), Tail(q), e)
         /\ \A i \in 1..Len(d) : d[i] < Head(q)
         /\ Len(Append(d, Head(q))) = Len(d) + 1 /\ Append(d, Head(q))[Len(d) + 1] = Head(q)
         /\ Taken(Append(d, Head(q))) = Taken(d) \cup {Head(q)}
  <1>1. PICK n \in Nat, m \in Nat : n = Len(q) /\ m = Len(d) BY LenProperties
  <1>2. PICK p, x : p = Tail(q) /\ x = Head(q) OBVIOUS
  <1>3. n >= 1 /\ x = q[1] /\ p \in Seq(Nat) /\ Len(p) = n - 1 /\ \A i \in 1..(n - 1) : p[i] = q[i + 1]
    BY <1>1, <1>2, HeadTailProperties, EmptySeq
  <1>4. 1 \in 1..n /\ \A i \in 1..(n - 1) : i + 1 \in 1..n /\ 1 < i + 1 BY <1>1, <1>3
  <1>5. x \in 1..e /\ x \in Nat BY <1>1, <1>3, <1>4 DEF InBusOrder
  <1>6. PICK f : f = Append(d, x) OBVIOUS
  <1>7. f \in Seq(Nat) /\ Len(f) = m + 1 /\ f[m + 1] = x /\ \A i \in 1..m : f[i] = d[i]
    BY <1>1, <1>5, <1>6, AppendProperties
  <1>8. \A i \in 1..m : d[i] < x BY <1>1, <1>3, <1>4 DEF InBusOrder
  <1>9. \A i \in 1..(n - 1) : x < p[i] /\ p[i] \in 1..e BY <1>1, <1>3, <1>4 DEF InBusOrder
  <1>10. ASSUME NEW i \in 1..(n - 1), NEW j \in 1..(n - 1), i < j PROVE p[i] < p[j]
    <2>1. i + 1 < j + 1 BY <1>10
    <2> QED BY <1>1, <1>3, <1>4, <2>1 DEF InBusOrder
  <1>11. \A i \in 1..m, j \in 1..(n - 1) : d[i] < p[j] BY <1>1, <1>3, <1>4 DEF InBusOrder
  <1>12. InBusOrder(d, p, e) BY <1>1, <1>3, <1>9, <1>10, <1>11 DEF InBusOrder
  <1>13. \A i \in 1..(m + 1) : i \in 1..m \/ i = m + 1 OBVIOUS
  <1>14. \A i \in 1..m : i \in 1..(m + 1) /\ i # m + 1 OBVIOUS
  <1>15. \A i \in 1..(m + 1) : f[i] \in 1..e BY <1>1, <1>5, <1>7, <1>13 DEF InBusOrder
  <1>16. ASSUME NEW i \in 1..(m + 1), NEW j \in 1..(m + 1), i < j PROVE f[i] < f[j]
    <2>1. i \in 1..m BY <1>16
    <2>2. CASE j \in 1..m BY <1>1, <1>7, <1>16, <2>1, <2>2 DEF InBusOrder
    <2>3. CASE j = m + 1 BY <1>7, <1>8, <2>1, <2>3
    <2> QED BY <1>13, <2>2, <2>3
  <1>17. \A i \in 1..(m + 1), j \in 1..(n - 1) : f[i] < p[j] BY <1>7, <1>9, <1>11, <1>13
  <1>18. InBusOrder(f, p, e) BY <1>3, <1>7, <1>9, <1>10, <1>15, <1>16, <1>17 DEF InBusOrder
  <1>19. Taken(f) = Taken(d) \cup {x}
    <2>1. m + 1 \in 1..(m + 1) OBVIOUS
    <2> QED BY <1>1, <1>7, <1>13, <1>14, <2>1 DEF Taken
  <1> QED BY <1>1, <1>2, <1>3, <1>5, <1>6, <1>7, <1>8, <1>12, <1>18, <1>19

LEMMA SkipKeeps == ASSUME SinksDeclared, SinkInv, NEW s \in Sink!Sinks, Sink!Skip(s) PROVE SinkInv'
  <1>1. SinkTyped /\ OutcomeInv /\ RetryInv BY DEF SinkInv
  <1>2. queue[s] # << >> /\ queue' = [queue EXCEPT ![s] = Tail(queue[s])] /\ UNCHANGED <<log, task, handled, untold>>
    BY DEF Sink!Skip
  <1>3. PICK e \in Nat, d \in Seq(Nat), q \in Seq(Nat) : e = Len(log) /\ d = handled[s] /\ q = queue[s]
    BY <1>1, LenProperties DEF SinkTyped
  <1>4. InBusOrder(d, q, e) BY <1>1, <1>3 DEF OutcomeInv
  <1>5. Tail(q) \in Seq(Nat) /\ InBusOrder(d, Tail(q), e) BY <1>2, <1>3, <1>4, HeadLeaves
  <1>6. queue' \in [Sink!Sinks -> Seq(Nat)] /\ queue'[s] = Tail(q) /\ \A o \in Sink!Sinks : o # s => queue'[o] = queue[o]
    BY <1>1, <1>2, <1>3, <1>5 DEF SinkTyped
  <1>7. SinkTyped' BY <1>1, <1>2, <1>6 DEF SinkTyped
  <1>8. RetryInv' BY <1>1, <1>2 DEF RetryInv
  <1>9. \A o \in Sink!Sinks : InBusOrder(handled[o], queue'[o], Len(log)) BY <1>1, <1>3, <1>5, <1>6 DEF OutcomeInv
  <1>10. OutcomeInv'
    <2>1. \A o \in Sink!Sinks : Outcomes(o)' = Outcomes(o) /\ Reports(o)' = Reports(o) /\ Kept(o)' = Kept(o)
      BY <1>2 DEF Outcomes, Reports, Kept
    <2>2. ASSUME NEW o \in Sink!Sinks, SinkConfigs[o].type # "stdout"
          PROVE  /\ Current(handled'[o], task'[o])
                 /\ Reports(o)' = Kept(o)'
                 /\ \A i, j \in Outcomes(o)' : i < j => log'[i].trigger < log'[j].trigger
                 /\ \A z : <<o, z>> \in untold' => z \in Taken(handled'[o]) /\ z # task'[o].event
      BY <1>1, <1>2, <2>1, <2>2 DEF OutcomeInv
    <2> QED BY <1>2, <1>9, <2>2 DEF OutcomeInv
  <1> QED BY <1>7, <1>8, <1>10 DEF SinkInv

LEMMA TakeEventKeeps == ASSUME SinksDeclared, SinkInv, NEW s \in Sink!Sinks, Sink!Take(s) PROVE SinkInv'
  <1>1. SinkTyped /\ OutcomeInv /\ RetryInv BY DEF SinkInv
  <1>2. /\ task[s].pc = "waiting" /\ queue[s] # << >>
        /\ queue' = [queue EXCEPT ![s] = Tail(queue[s])]
        /\ handled' = [handled EXCEPT ![s] = Append(handled[s], Head(queue[s]))]
        /\ Sink!DispatchPost(s) \/ Sink!AppendToFile(s) \/ Sink!WriteToStdout(s)
        /\ UNCHANGED <<log, untold>>
    BY DEF Sink!Take
  <1>3. PICK e \in Nat, d \in Seq(Nat), q \in Seq(Nat) : e = Len(log) /\ d = handled[s] /\ q = queue[s]
    BY <1>1, LenProperties DEF SinkTyped
  <1>4. PICK x : x = Head(q) OBVIOUS
  <1>5. PICK f : f = Append(d, x) OBVIOUS
  <1>6. InBusOrder(d, q, e) BY <1>1, <1>3 DEF OutcomeInv
  <1>7. /\ x \in 1..e /\ x # 0 /\ x \in Nat /\ Tail(q) \in Seq(Nat)
        /\ f \in Seq(Nat) /\ InBusOrder(f, Tail(q), e)
        /\ \A i \in 1..Len(d) : d[i] < x
        /\ Len(f) = Len(d) + 1 /\ f[Len(d) + 1] = x
        /\ Taken(f) = Taken(d) \cup {x}
    <2>1. q # << >> BY <1>2, <1>3
    <2>2. /\ x \in 1..e /\ Tail(q) \in Seq(Nat)
          /\ f \in Seq(Nat) /\ InBusOrder(f, Tail(q), e)
          /\ \A i \in 1..Len(d) : d[i] < x
          /\ Len(f) = Len(d) + 1 /\ f[Len(d) + 1] = x
          /\ Taken(f) = Taken(d) \cup {x}
      BY <1>4, <1>5, <1>6, <2>1, HeadLeaves
    <2>3. x # 0 /\ x \in Nat BY <2>2
    <2> QED BY <2>2, <2>3
  <1>8. queue' \in [Sink!Sinks -> Seq(Nat)] /\ queue'[s] = Tail(q) /\ \A o \in Sink!Sinks : o # s => queue'[o] = queue[o]
    BY <1>1, <1>2, <1>3, <1>7 DEF SinkTyped
  <1>9. handled' \in [Sink!Sinks -> Seq(Nat)] /\ handled'[s] = f /\ \A o \in Sink!Sinks : o # s => handled'[o] = handled[o]
    BY <1>1, <1>2, <1>3, <1>4, <1>5, <1>7 DEF SinkTyped
  <1>10. \/ UNCHANGED task /\ SinkConfigs[s].type = "stdout"
         \/ \E u \in SinkTask :
               /\ task' = [task EXCEPT ![s] = u] /\ u.event = x /\ u.pc \in {"sending", "telling"}
               /\ RetriesOf(SinkConfigs[s], u)
    <2>1. CASE Sink!WriteToStdout(s) BY <2>1 DEF Sink!WriteToStdout
    <2>2. ASSUME NEW pc \in {"sending", "telling"}, NEW r \in {"none", Sink!Dispatched, Sink!Failed}, Sink!Go(s, pc, r),
                 pc = "sending" => SinkConfigs[s].attempts > 0,
                 pc = "telling" => r \in {Sink!Dispatched, Sink!Failed}
          PROVE  \E u \in SinkTask :
                   /\ task' = [task EXCEPT ![s] = u] /\ u.event = x /\ u.pc \in {"sending", "telling"}
                   /\ RetriesOf(SinkConfigs[s], u)
      <3>1. PICK n : n = IF pc = "sending" THEN 1 ELSE 0 OBVIOUS
      <3>2. PICK u : u = [pc |-> pc, event |-> x, attempt |-> n, delay |-> 0, replies |-> << >>, result |-> r] OBVIOUS
      <3>3. << >> \in Seq(Replies) /\ n \in Nat BY <3>1
      <3>4. u \in SinkTask /\ u.event = x /\ u.pc = pc /\ u.replies = << >> /\ u.delay = 0 /\ u.attempt = n /\ u.result = r
        BY <1>7, <3>2, <3>3 DEF SinkTask
      <3>5. RetriesOf(SinkConfigs[s], u) BY <2>2, <3>1, <3>4, FreshRetries
      <3>6. task' = [task EXCEPT ![s] = u]
        <4>1. task' = [task EXCEPT ![s] = [Sink!Waiting EXCEPT !.pc = pc, !.event = x, !.result = r, !.attempt = n]]
          BY <1>3, <1>4, <2>2, <3>1 DEF Sink!Go
        <4>2. PICK w : w = [Sink!Waiting EXCEPT !.pc = pc, !.event = x, !.result = r, !.attempt = n] OBVIOUS
        <4>3. PICK z : z = Sink!Waiting OBVIOUS
        <4>4. z = TaskIs("waiting", 0, 0, 0, << >>, "none") BY <4>3 DEF Sink!Waiting, TaskIs
        <4>5. TurnedTo(z, pc) = TaskIs(pc, 0, 0, 0, << >>, "none") BY <4>4, TaskTurns
        <4>6. PICK a, b, c : /\ a = TaskIs(pc, 0, 0, 0, << >>, "none") /\ b = TaskIs(pc, x, 0, 0, << >>, "none")
                             /\ c = TaskIs(pc, x, 0, 0, << >>, r)
          OBVIOUS
        <4>7. [a EXCEPT !.event = x] = b BY <4>6 DEF TaskIs
        <4>8. [b EXCEPT !.result = r] = c BY <4>6 DEF TaskIs
        <4>9. [c EXCEPT !.attempt = n] = u BY <3>2, <4>6 DEF TaskIs
        <4>10. w = [[[TurnedTo(z, pc) EXCEPT !.event = x] EXCEPT !.result = r] EXCEPT !.attempt = n]
          BY <4>2, <4>3 DEF TurnedTo
        <4>11. w = u BY <4>5, <4>6, <4>7, <4>8, <4>9, <4>10
        <4> QED BY <4>1, <4>2, <4>11
      <3> QED BY <3>4, <3>5, <3>6
    <2>3. CASE Sink!DispatchPost(s) BY <2>2, <2>3 DEF Sink!DispatchPost
    <2>4. CASE Sink!AppendToFile(s) BY <2>2, <2>4 DEF Sink!AppendToFile
    <2> QED BY <1>2, <2>1, <2>3, <2>4
  <1>11. /\ task' \in [Sink!Sinks -> SinkTask] /\ \A o \in Sink!Sinks : o # s => task'[o] = task[o]
         /\ \/ task'[s] = task[s] /\ SinkConfigs[s].type = "stdout"
            \/ task'[s].event = x /\ task'[s].pc \in {"sending", "telling"}
         /\ RetriesOf(SinkConfigs[s], task'[s])
    BY <1>1, <1>10 DEF SinkTyped, RetryInv
  <1>12. SinkTyped' BY <1>1, <1>2, <1>8, <1>9, <1>11 DEF SinkTyped
  <1>13. RetryInv' BY <1>1, <1>11 DEF RetryInv
  <1>14. \A o \in Sink!Sinks : InBusOrder(handled'[o], queue'[o], e)
    BY <1>1, <1>3, <1>7, <1>8, <1>9 DEF OutcomeInv
  <1>15. \A o \in Sink!Sinks : Outcomes(o)' = Outcomes(o) /\ Reports(o)' = Reports(o) BY <1>2 DEF Outcomes, Reports
  <1>16. ASSUME SinkConfigs[s].type # "stdout"
         PROVE  /\ Current(handled'[s], task'[s])
                /\ Reports(s)' = Kept(s)'
                /\ \A z : <<s, z>> \in untold' => z \in Taken(handled'[s]) /\ z # task'[s].event
    <2>1. task[s].event = 0 BY <1>1, <1>2, <1>16 DEF OutcomeInv, Current
    <2>2. task'[s].event = x /\ task'[s].pc \in {"sending", "telling"} BY <1>11, <1>16
    <2>3. PICK m \in Nat : m = Len(d) BY LenProperties
    <2>4. Current(handled'[s], task'[s])
      <3>1. 1 <= m + 1 BY <2>3
      <3> QED BY <1>7, <1>9, <2>2, <2>3, <3>1 DEF Current
    <2>5. \A z \in Taken(d) : z # x /\ z # 0
      <3>1. ASSUME NEW i \in 1..m PROVE d[i] # x /\ d[i] # 0
        <4>1. d[i] \in 1..e /\ d[i] < x BY <1>6, <1>7, <2>3 DEF InBusOrder
        <4> QED BY <1>7, <4>1
      <3> QED BY <2>3, <3>1 DEF Taken
    <2>6. Kept(s)' = Kept(s)
      <3>1. Kept(s)' = {z \in Taken(f) : <<s, z>> \notin untold /\ z # x} BY <1>2, <1>9, <2>2 DEF Kept
      <3>2. Kept(s) = {z \in Taken(d) : <<s, z>> \notin untold /\ z # 0} BY <1>3, <2>1 DEF Kept
      <3> QED BY <1>7, <2>5, <3>1, <3>2
    <2>7. \A z : <<s, z>> \in untold' => z \in Taken(f) /\ z # x
      <3>1. \A z : <<s, z>> \in untold => z \in Taken(d) BY <1>1, <1>3, <1>16 DEF OutcomeInv
      <3> QED BY <1>2, <1>7, <2>5, <3>1
    <2>8. Reports(s) = Kept(s) BY <1>1, <1>16 DEF OutcomeInv
    <2> QED BY <1>9, <1>15, <2>2, <2>4, <2>6, <2>7, <2>8
  <1>17. OutcomeInv'
    <2>1. ASSUME NEW o \in Sink!Sinks, SinkConfigs[o].type # "stdout"
          PROVE  /\ Current(handled'[o], task'[o])
                 /\ Reports(o)' = Kept(o)'
                 /\ \A i, j \in Outcomes(o)' : i < j => log'[i].trigger < log'[j].trigger
                 /\ \A z : <<o, z>> \in untold' => z \in Taken(handled'[o]) /\ z # task'[o].event
      <3>1. \A i, j \in Outcomes(o)' : i < j => log'[i].trigger < log'[j].trigger
        BY <1>1, <1>2, <1>15, <2>1 DEF OutcomeInv
      <3>2. CASE o = s BY <1>16, <2>1, <3>1, <3>2
      <3>3. CASE o # s
        <4>1. Kept(o)' = Kept(o) BY <1>2, <1>9, <1>11, <3>3 DEF Kept
        <4>2. Reports(o) = Kept(o) /\ Current(handled[o], task[o])
              /\ \A z : <<o, z>> \in untold => z \in Taken(handled[o]) /\ z # task[o].event
          BY <1>1, <2>1 DEF OutcomeInv
        <4> QED BY <1>2, <1>9, <1>11, <1>15, <3>1, <3>3, <4>1, <4>2
      <3> QED BY <3>2, <3>3
    <2>2. Len(log') = e BY <1>2, <1>3
    <2> QED BY <1>14, <2>1, <2>2 DEF OutcomeInv
  <1> QED BY <1>12, <1>13, <1>17 DEF SinkInv

(* The outcome of a sink's event is published, or is not.                   *)
LEMMA TellKeeps == ASSUME SinksDeclared, SinkInv, NEW s \in Sink!Sinks, Sink!Tell(s) PROVE SinkInv'
  <1>1. SinkTyped /\ OutcomeInv /\ RetryInv BY DEF SinkInv
  <1>2. PICK t : t = task[s] OBVIOUS
  <1>3. t \in SinkTask /\ RetriesOf(SinkConfigs[s], t) BY <1>1, <1>2 DEF SinkTyped, RetryInv
  <1>4. PICK x \in Nat : x = t.event BY <1>3 DEF SinkTask
  <1>5. PICK k : k = t.result OBVIOUS
  <1>6. /\ t.pc = "telling" /\ k \in {Sink!Dispatched, Sink!Failed}
        /\ task' = [task EXCEPT ![s] = Sink!Waiting] /\ UNCHANGED handled
        /\ \/ Sink!Deliver(queue, k, s, x) /\ UNCHANGED untold
           \/ untold' = untold \cup {<<s, x>>} /\ UNCHANGED <<log, queue>>
    BY <1>2, <1>3, <1>4, <1>5 DEF Sink!Tell, RetriesOf
  <1>7. PICK u : u = Sink!Waiting OBVIOUS
  <1>8. u \in SinkTask /\ u.pc = "waiting" /\ u.event = 0 /\ u.replies = << >> /\ u.delay = 0
    <2>1. << >> \in Seq(Replies) OBVIOUS
    <2> QED BY <1>7, <2>1 DEF Sink!Waiting, SinkTask
  <1>9. task' \in [Sink!Sinks -> SinkTask] /\ task'[s] = u /\ \A o \in Sink!Sinks : o # s => task'[o] = task[o]
    BY <1>1, <1>6, <1>7, <1>8 DEF SinkTyped
  <1>10. RetryInv'
    <2>1. RetriesOf(SinkConfigs[s], u) BY <1>8, FreshRetries
    <2> QED BY <1>1, <1>9, <2>1 DEF RetryInv
  <1>11. PICK e \in Nat : e = Len(log) BY <1>1, LenProperties DEF SinkTyped
  <1>12. \A o \in Sink!Sinks : InBusOrder(handled[o], queue[o], e) BY <1>1, <1>11 DEF OutcomeInv
  <1>13. PICK d \in Seq(Nat) : d = handled[s] BY <1>1 DEF SinkTyped
  <1>14. \A i \in 1..Len(d) : d[i] \in 1..e BY <1>12, <1>13 DEF InBusOrder
  <1>15. \A z \in Taken(d) : z \in Nat /\ z # 0 BY <1>14 DEF Taken
  <1>16. ASSUME SinkConfigs[s].type # "stdout"
         PROVE  /\ x \in Taken(d) /\ <<s, x>> \notin untold
                /\ \A z \in Taken(d) : z = x \/ z < x
    <2>1. 1 <= Len(d) /\ x = d[Len(d)] BY <1>1, <1>2, <1>4, <1>6, <1>13, <1>16 DEF OutcomeInv, Current
    <2>2. PICK m \in Nat : m = Len(d) BY LenProperties
    <2>3. x \in Taken(d) BY <2>1, <2>2 DEF Taken
    <2>4. <<s, x>> \notin untold BY <1>1, <1>2, <1>4, <1>16 DEF OutcomeInv
    <2>5. ASSUME NEW i \in 1..m PROVE d[i] = x \/ d[i] < x
      <3>1. i = m \/ i < m BY <2>2
      <3>2. m \in 1..m BY <2>1, <2>2
      <3>3. i < m => d[i] < d[m] BY <1>12, <1>13, <2>2, <3>2 DEF InBusOrder
      <3> QED BY <2>1, <2>2, <3>1, <3>3
    <2> QED BY <2>2, <2>3, <2>4, <2>5 DEF Taken
  <1>17. \A o \in Sink!Sinks : o # s => Kept(o) = {z \in Taken(handled[o]) : <<o, z>> \notin untold' /\ z # task'[o].event}
    <2>1. \A o \in Sink!Sinks : o # s => \A z : <<o, z>> \in untold' <=> <<o, z>> \in untold BY <1>6
    <2> QED BY <1>9, <2>1 DEF Kept
  <1>18. \A o \in Sink!Sinks : o # s => Kept(o)' = Kept(o) BY <1>6, <1>17 DEF Kept
  <1>19. Kept(s)' = {z \in Taken(d) : <<s, z>> \notin untold' /\ z # 0} BY <1>6, <1>8, <1>9, <1>13 DEF Kept
  <1>20. Kept(s) = {z \in Taken(d) : <<s, z>> \notin untold /\ z # x} BY <1>2, <1>4, <1>13 DEF Kept
  <1>21. Current(handled[s], u) BY <1>8 DEF Current
  <1>22. CASE Sink!Deliver(queue, k, s, x) /\ UNCHANGED untold
    <2>1. /\ log' \in Seq(SinkEvent) /\ Len(log') = e + 1
          /\ \A i \in 1..e : log'[i] = log[i]
          /\ log'[e + 1] = [kind |-> k, sink |-> s, trigger |-> x]
          /\ queue' \in [Sink!Sinks -> Seq(Nat)]
          /\ \A o \in Sink!Sinks : InBusOrder(handled'[o], queue'[o], Len(log'))
      <3>1. k \in Kinds \cup {Sink!Dispatched, Sink!Failed} /\ s \in Sink!Sinks \cup {"none"} BY <1>6
      <3> QED BY <1>1, <1>6, <1>11, <1>12, <1>22, <3>1, DeliveredIs
    <2>2. log'[e + 1].sink = s /\ log'[e + 1].trigger = x BY <2>1
    <2>3. SinkTyped' BY <1>1, <1>6, <1>9, <2>1 DEF SinkTyped
    <2>4. ASSUME NEW o \in Sink!Sinks, o # s, SinkConfigs[o].type # "stdout"
          PROVE  /\ Current(handled'[o], task'[o])
                 /\ Reports(o)' = Kept(o)'
                 /\ \A i, j \in Outcomes(o)' : i < j => log'[i].trigger < log'[j].trigger
                 /\ \A z : <<o, z>> \in untold' => z \in Taken(handled'[o]) /\ z # task'[o].event
      <3>1. log'[e + 1].sink # o BY <2>2, <2>4
      <3>2. Outcomes(o)' = Outcomes(o) /\ Reports(o)' = Reports(o) /\ \A i \in Outcomes(o) : log'[i] = log[i]
        BY <1>1, <1>11, <2>1, <3>1, QuietReports
      <3>3. \A i, j \in Outcomes(o)' : i < j => log'[i].trigger < log'[j].trigger
        BY <1>1, <2>4, <3>2 DEF OutcomeInv
      <3>4. Reports(o) = Kept(o) /\ Current(handled[o], task[o])
            /\ \A z : <<o, z>> \in untold => z \in Taken(handled[o]) /\ z # task[o].event
        BY <1>1, <2>4 DEF OutcomeInv
      <3> QED BY <1>6, <1>9, <1>18, <1>22, <2>4, <3>2, <3>3, <3>4
    <2>5. ASSUME SinkConfigs[s].type # "stdout"
          PROVE  /\ Current(handled'[s], task'[s])
                 /\ Reports(s)' = Kept(s)'
                 /\ \A i, j \in Outcomes(s)' : i < j => log'[i].trigger < log'[j].trigger
                 /\ \A z : <<s, z>> \in untold' => z \in Taken(handled'[s]) /\ z # task'[s].event
      <3>1. \A i \in 1..(e + 1) : i \in 1..e \/ i = e + 1 OBVIOUS
      <3>2. e + 1 \in 1..(e + 1) /\ \A i \in 1..e : i \in 1..(e + 1) /\ i < e + 1 /\ ~(e + 1 < i) OBVIOUS
      <3>3. Outcomes(s)' = Outcomes(s) \cup {e + 1} BY <1>11, <2>1, <2>2, <3>1, <3>2 DEF Outcomes
      <3>4. \A i \in Outcomes(s) : i \in 1..e /\ log'[i] = log[i] BY <1>11, <2>1 DEF Outcomes
      <3>5. Reports(s)' = Reports(s) \cup {x} BY <2>2, <3>3, <3>4 DEF Reports
      <3>6. Reports(s) = Kept(s) BY <1>1, <2>5 DEF OutcomeInv
      <3>7. Kept(s)' = Kept(s) \cup {x} BY <1>15, <1>16, <1>19, <1>20, <1>22, <2>5
      <3>8. \A i \in Outcomes(s) : log[i].trigger < x
        <4>1. \A i \in Outcomes(s) : log[i].trigger \in Kept(s) BY <3>6 DEF Reports
        <4> QED BY <1>16, <1>20, <2>5, <4>1
      <3>9. ASSUME NEW i \in Outcomes(s)', NEW j \in Outcomes(s)', i < j PROVE log'[i].trigger < log'[j].trigger
        <4>1. i \in Outcomes(s)
          <5>1. CASE i = e + 1
            <6>1. j \in 1..e \/ j = e + 1 BY <3>3, <3>4
            <6>2. j # e + 1 BY <3>9, <5>1
            <6> QED BY <3>2, <3>9, <5>1, <6>1, <6>2
          <5> QED BY <3>3, <5>1
        <4>2. CASE j \in Outcomes(s)
          <5>1. log[i].trigger < log[j].trigger BY <1>1, <2>5, <3>9, <4>1, <4>2 DEF OutcomeInv
          <5> QED BY <3>4, <4>1, <4>2, <5>1
        <4>3. CASE j = e + 1 BY <2>2, <3>4, <3>8, <4>1, <4>3
        <4> QED BY <3>3, <4>2, <4>3
      <3>10. \A z : <<s, z>> \in untold' => z \in Taken(handled'[s]) /\ z # task'[s].event
        <4>1. \A z : <<s, z>> \in untold => z \in Taken(d) BY <1>1, <1>13, <2>5 DEF OutcomeInv
        <4> QED BY <1>6, <1>8, <1>9, <1>13, <1>15, <1>22, <4>1
      <3> QED BY <1>6, <1>9, <1>21, <3>5, <3>6, <3>7, <3>9, <3>10
    <2>6. OutcomeInv' BY <2>1, <2>4, <2>5 DEF OutcomeInv
    <2> QED BY <1>10, <2>3, <2>6 DEF SinkInv
  <1>23. CASE untold' = untold \cup {<<s, x>>} /\ UNCHANGED <<log, queue>>
    <2>1. SinkTyped' BY <1>1, <1>6, <1>9, <1>23 DEF SinkTyped
    <2>2. \A o \in Sink!Sinks : Outcomes(o)' = Outcomes(o) /\ Reports(o)' = Reports(o) BY <1>23 DEF Outcomes, Reports
    <2>3. ASSUME NEW o \in Sink!Sinks, SinkConfigs[o].type # "stdout"
          PROVE  /\ Current(handled'[o], task'[o])
                 /\ Reports(o)' = Kept(o)'
                 /\ \A i, j \in Outcomes(o)' : i < j => log'[i].trigger < log'[j].trigger
                 /\ \A z : <<o, z>> \in untold' => z \in Taken(handled'[o]) /\ z # task'[o].event
      <3>1. \A i, j \in Outcomes(o)' : i < j => log'[i].trigger < log'[j].trigger
        BY <1>1, <1>23, <2>2, <2>3 DEF OutcomeInv
      <3>2. Reports(o) = Kept(o) /\ Current(handled[o], task[o])
            /\ \A z : <<o, z>> \in untold => z \in Taken(handled[o]) /\ z # task[o].event
        BY <1>1, <2>3 DEF OutcomeInv
      <3>3. CASE o # s
        <4>1. \A z : <<o, z>> \in untold' => <<o, z>> \in untold BY <1>23, <3>3
        <4> QED BY <1>6, <1>9, <1>18, <2>2, <3>1, <3>2, <3>3, <4>1
      <3>4. CASE o = s
        <4>1. \A z : <<s, z>> \in untold' <=> <<s, z>> \in untold \/ z = x BY <1>23
        <4>2. x \in Taken(d) /\ <<s, x>> \notin untold BY <1>16, <2>3, <3>4
        <4>3. \A z : <<s, z>> \in untold' => z \in Taken(d) BY <1>13, <3>2, <3>4, <4>1, <4>2
        <4>4. Kept(s)' = Kept(s) BY <1>15, <1>19, <1>20, <4>1, <4>2
        <4>5. \A z : <<s, z>> \in untold' => z \in Taken(handled'[s]) /\ z # task'[s].event
          BY <1>6, <1>8, <1>9, <1>13, <1>15, <4>3
        <4> QED BY <1>6, <1>9, <1>21, <2>2, <3>1, <3>2, <3>4, <4>4, <4>5
      <3> QED BY <3>3, <3>4
    <2>4. \A o \in Sink!Sinks : InBusOrder(handled'[o], queue'[o], Len(log')) BY <1>6, <1>11, <1>12, <1>23
    <2>5. OutcomeInv' BY <2>3, <2>4 DEF OutcomeInv
    <2> QED BY <1>10, <2>1, <2>5 DEF SinkInv
  <1> QED BY <1>6, <1>22, <1>23

LEMMA SinkStarts == ASSUME SinksDeclared, Sink!Init PROVE SinkInv
  <1>1. << >> \in Seq(Replies) /\ << >> \in Seq(Nat) /\ << >> \in Seq(SinkEvent) OBVIOUS
  <1>2. Len(<< >>) = 0 /\ (\A i \in 1..0 : FALSE) OBVIOUS
  <1>3. PICK u : u = Sink!Waiting OBVIOUS
  <1>4. u \in SinkTask /\ u.pc = "waiting" /\ u.event = 0 /\ u.replies = << >> /\ u.delay = 0
    BY <1>1, <1>3 DEF Sink!Waiting, SinkTask
  <1>5. SinkTyped BY <1>1, <1>3, <1>4 DEF Sink!Init, SinkTyped
  <1>6. \A s \in Sink!Sinks : task[s] = u /\ handled[s] = << >> /\ queue[s] = << >> BY <1>3 DEF Sink!Init
  <1>7. \A s \in Sink!Sinks : RetriesOf(SinkConfigs[s], u) BY <1>4, FreshRetries
  <1>8. RetryInv BY <1>6, <1>7 DEF RetryInv
  <1>9. log = << >> /\ untold = {} BY DEF Sink!Init
  <1>10. InBusOrder(<< >>, << >>, 0) BY <1>2 DEF InBusOrder
  <1>11. \A s \in Sink!Sinks : Outcomes(s) = {} /\ Reports(s) = {} /\ Kept(s) = {}
    BY <1>2, <1>6, <1>9 DEF Outcomes, Reports, Kept, Taken
  <1>12. Current(<< >>, u) BY <1>4 DEF Current
  <1>13. OutcomeInv BY <1>2, <1>6, <1>9, <1>10, <1>11, <1>12 DEF OutcomeInv
  <1> QED BY <1>5, <1>8, <1>13 DEF SinkInv

(* The invariant of the sinks.                                              *)
THEOREM SinkInvariant == SinksDeclared => (Sink!Spec => []SinkInv)
  <1> SUFFICES ASSUME SinksDeclared PROVE Sink!Spec => []SinkInv OBVIOUS
  <1>1. Sink!Init => SinkInv BY SinkStarts
  <1>2. SinkInv /\ [Sink!Next]_Sink!vars => SinkInv'
    <2> SUFFICES ASSUME SinkInv, [Sink!Next]_Sink!vars PROVE SinkInv' OBVIOUS
    <2>1. CASE UNCHANGED Sink!vars
      BY <2>1 DEF Sink!vars, SinkInv, SinkTyped, OutcomeInv, RetryInv, Outcomes, Reports, Kept
    <2>2. ASSUME NEW s \in Sink!Sinks, Sink!Cancel(s) PROVE SinkInv'
      BY <2>2 DEF Sink!Cancel, SinkInv, SinkTyped, OutcomeInv, RetryInv, Outcomes, Reports, Kept
    <2> QED BY <2>1, <2>2, PublishEventKeeps, SkipKeeps, TakeEventKeeps, AttemptKeeps, WakesKeeps, TellKeeps, StopKeeps
            DEF Sink!Next
  <1> QED BY <1>1, <1>2, PTL DEF Sink!Spec

(* A sink tells of what it has taken in the order of the bus, each event    *)
(* once and none but those that could not be published, the one at hand and *)
(* the one it panicked on left out; no more attempts are made than are      *)
(* configured, none after a final answer, and no server makes a sink sleep  *)
(* longer than five minutes or what the project asks for.                   *)
THEOREM OutcomesAreTold == SinksDeclared => (Sink!Spec => []Sink!SinksSound)
  <1> SUFFICES ASSUME SinksDeclared PROVE Sink!Spec => []Sink!SinksSound OBVIOUS
  <1>1. SinkInv => Sink!OutcomeInOrder
    <2> SUFFICES ASSUME SinkInv, NEW s \in Sink!Sinks, SinkConfigs[s].type # "stdout"
                 PROVE  /\ Sink!Told(s) = {e \in Sink!Range(handled[s]) : <<s, e>> \notin untold /\ e # task[s].event}
                        /\ \A i, j \in Sink!OutcomesOf(s) : i < j => log[i].trigger < log[j].trigger
                        /\ \A i, j \in DOMAIN handled[s] : i < j => handled[s][i] < handled[s][j]
      BY DEF Sink!OutcomeInOrder
    <2>1. SinkTyped /\ OutcomeInv BY DEF SinkInv
    <2>2. DOMAIN log = 1..Len(log) /\ DOMAIN handled[s] = 1..Len(handled[s]) BY <2>1, LenProperties DEF SinkTyped
    <2>3. Sink!OutcomesOf(s) = Outcomes(s) /\ Sink!Told(s) = Reports(s)
      BY <2>2 DEF Sink!OutcomesOf, Sink!Told, Outcomes, Reports
    <2>4. Sink!Range(handled[s]) = Taken(handled[s]) BY <2>2 DEF Sink!Range, Taken
    <2>5. Reports(s) = Kept(s) /\ InBusOrder(handled[s], queue[s], Len(log))
          /\ \A i, j \in Outcomes(s) : i < j => log[i].trigger < log[j].trigger
      BY <2>1 DEF OutcomeInv
    <2> QED BY <2>2, <2>3, <2>4, <2>5 DEF Kept, InBusOrder
  <1>2. SinkInv => Sink!RetriesJustified
    <2> SUFFICES ASSUME SinkInv, NEW s \in Sink!Sinks
                 PROVE  /\ Len(task[s].replies) <= SinkConfigs[s].attempts
                        /\ \A i \in 1..(Len(task[s].replies) - 1) :
                              task[s].replies[i] \in {"server_error", "rate_limited", "network_error"}
                        /\ task[s].delay \in 0..Sink!MaxDelay \cup Sink!Range(SinkConfigs[s].backoff)
      BY DEF Sink!RetriesJustified
    <2>1. RetriesOf(SinkConfigs[s], task[s]) BY DEF SinkInv, RetryInv
    <2>2. DOMAIN SinkConfigs[s].backoff = 1..Len(SinkConfigs[s].backoff) BY LenProperties DEF SinksDeclared
    <2>3. Sink!Range(SinkConfigs[s].backoff) = {SinkConfigs[s].backoff[i] : i \in 1..Len(SinkConfigs[s].backoff)}
      BY <2>2 DEF Sink!Range
    <2> QED BY <2>1, <2>3 DEF RetriesOf, Retryable
  <1>3. SinkInv => Sink!SinksSound BY <1>1, <1>2 DEF Sink!SinksSound
  <1> QED BY <1>3, SinkInvariant, PTL
================================================================================
