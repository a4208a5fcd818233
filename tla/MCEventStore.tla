----------------------------- MODULE MCEventStore -----------------------------
(* Constants of EventStore for TLC. *)
EXTENDS EventStore, TLC

CONSTANTS s1, s2, e1, e2, e3, o1, o2, written, edited, p1, p2

Fresh_ == [rows |-> [s \in Streams |-> << >>], last_id |-> 0]

(* A database from before 0.8: s1 holds one legacy row and one v1 row. *)
Legacy == [event_id |-> o1, sequence |-> 1, data |-> written,
           prev_hash |-> NoHash, hash |-> NoHash, id |-> 1]
V1 == [event_id |-> o2, sequence |-> 2, data |-> written,
       prev_hash |-> NoHash, hash |-> compute_hash_v1(o2, written, NoHash), id |-> 2]
Upgraded == [rows |-> [s \in Streams |-> IF s = s1 THEN <<Legacy, V1>> ELSE << >>],
             last_id |-> 2]

OnlyUpgraded == {Upgraded}
OnlyFresh  == {Fresh_}
=============================================================================
