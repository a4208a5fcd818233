---------------------------- MODULE MCTailDelivery ----------------------------
(* Constants of TailDelivery for TLC. *)
EXTENDS TailDelivery, TLC

CONSTANTS a, b, c, d, o, s, t

OneOld == <<o>>

(* s takes everything through a channel of two, t only a and c through a channel of one. *)
Capacities == [x \in Subs |-> IF x = s THEN 2 ELSE 1]
Filters == [x \in Subs |-> IF x = s THEN Events ELSE {a, c} \cap Events]
=============================================================================
