----------------------------- MODULE AgentMemory -----------------------------
(***************************************************************************)
(* The workflow memory of a run: MemoryBridge of engine/tools.rs over the  *)
(* MemoryProjection of esaa/projections.rs.  The steps of a level run in   *)
(* parallel and share one bridge.  A write reads the projection under its  *)
(* lock, publishes the event without the lock, and applies it to the       *)
(* projection under the lock again.                                        *)
(*                                                                         *)
(* An event is its position in the log; a key shows the event applied to   *)
(* it last.  Values need no model of their own: the event stands for the   *)
(* value it wrote.  written_at_seq is the placeholder of the bridge, never *)
(* the event's sequence, and so is previous_value_seq of a later event.    *)
(***************************************************************************)
EXTENDS Naturals, Sequences, FiniteSets

CONSTANTS
    Tasks,   \* steps of the run that use its memory
    Keys,    \* memory keys
    MaxOps   \* bound on the operations

VARIABLES
    log,    \* the published events: [key, kind, prev, after]
    shown,  \* key -> the event applied last, 0 if none
    op,     \* task -> the operation under way
    done,   \* the events whose operation has returned
    ops     \* operations begun (a bound only)

vars == <<log, shown, op, done, ops>>

Kinds == {"write", "delete"}
Absent == 0           \* no previous value
Placeholder == 1      \* u64::MAX
Idle == [pc |-> "idle", kind |-> "write", key |-> CHOOSE k \in Keys : TRUE,
         prev |-> Absent, after |-> {}, event |-> 0, reply |-> "none"]

Init ==
    /\ log = << >>
    /\ shown = [k \in Keys |-> 0]
    /\ op = [t \in Tasks |-> Idle]
    /\ done = {}
    /\ ops = 0

(* MemoryProjection::get and seq_for: a deleted key has no entry. *)
Present(k) == shown[k] # 0 /\ log[shown[k]].kind = "write"
SeqFor(k) == IF Present(k) THEN Placeholder ELSE Absent

(* The value a read_memory shows: the event that wrote it, 0 for none. *)
Get(k) == IF Present(k) THEN shown[k] ELSE 0
-----------------------------------------------------------------------------
(* write and delete up to the publish; delete refuses an absent key. *)
Begin(t, kind, k) ==
    /\ op[t].pc = "idle"
    /\ ops < MaxOps
    /\ ops' = ops + 1
    /\ op' = [op EXCEPT ![t] =
                 IF kind = "delete" /\ ~Present(k)
                 THEN [Idle EXCEPT !.reply = "not_found"]
                 ELSE [Idle EXCEPT !.pc = "publish", !.kind = kind, !.key = k,
                                   !.prev = SeqFor(k), !.after = done]]
    /\ UNCHANGED <<log, shown, done>>

(* EventBus::publish; when it fails the projection is not touched. *)
Publish(t) ==
    /\ op[t].pc = "publish"
    /\ log' = Append(log, [key |-> op[t].key, kind |-> op[t].kind,
                           prev |-> op[t].prev, after |-> op[t].after])
    /\ op' = [op EXCEPT ![t].pc = "apply", ![t].event = Len(log) + 1]
    /\ UNCHANGED <<shown, done, ops>>

PublishFails(t) ==
    /\ op[t].pc = "publish"
    /\ op' = [op EXCEPT ![t] = [Idle EXCEPT !.reply = "error"]]
    /\ UNCHANGED <<log, shown, done, ops>>

(* The projection waits for its own subscription to the bus, which may     *)
(* apply an event that another task has meanwhile published.               *)
Apply_later(t) ==
    /\ op[t].pc = "apply"
    /\ \/ shown' = [shown EXCEPT ![op[t].key] = op[t].event]
       \/ UNCHANGED shown
    /\ done' = done \cup {op[t].event}
    /\ op' = [op EXCEPT ![t] = [Idle EXCEPT !.reply = "ok"]]
    /\ UNCHANGED <<log, ops>>

(* MemoryProjection::apply, and the return of the tool. *)
Apply(t) ==
    /\ op[t].pc = "apply"
    /\ shown' = [shown EXCEPT ![op[t].key] = op[t].event]
    /\ done' = done \cup {op[t].event}
    /\ op' = [op EXCEPT ![t] = [Idle EXCEPT !.reply = "ok"]]
    /\ UNCHANGED <<log, ops>>

Next ==
    \E t \in Tasks :
        \/ \E kind \in Kinds, k \in Keys : Begin(t, kind, k)
        \/ Publish(t) \/ PublishFails(t) \/ Apply(t)

Spec == Init /\ [][Next]_vars
-----------------------------------------------------------------------------
TypeOK ==
    /\ log \in Seq([key : Keys, kind : Kinds, prev : {Absent, Placeholder},
                    after : SUBSET (1..MaxOps)])
    /\ shown \in [Keys -> 0..MaxOps]
    /\ op \in [Tasks -> [pc : {"idle", "publish", "apply"}, kind : Kinds, key : Keys,
                         prev : {Absent, Placeholder}, after : SUBSET (1..MaxOps),
                         event : 0..MaxOps, reply : {"none", "ok", "error", "not_found"}]]
    /\ done \in SUBSET (1..MaxOps)
    /\ ops \in 0..MaxOps

(* A write that has returned is what a read shows, or what a read shows    *)
(* was written by an operation that had not returned when the write began  *)
(* ("a write_memory followed by read_memory in the same iteration always   *)
(* sees the write"): no value that was overwritten comes back, and nothing *)
(* is shown that the log does not hold.                                    *)
MemoryIsRecent ==
    /\ \A k \in Keys, e \in done :
          log[e].key = k => shown[k] # 0 /\ shown[k] \notin log[e].after
    /\ \A k \in Keys : shown[k] # 0 => shown[k] \in DOMAIN log /\ log[shown[k]].key = k
=============================================================================
