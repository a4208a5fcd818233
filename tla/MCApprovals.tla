----------------------------- MODULE MCApprovals -----------------------------
(* Constants of Approvals for TLC: what each of the five requests is. *)
EXTENDS Approvals, TLC

CONSTANTS p, q, a, b, h, n, x, k1, k2

Owners == [r \in Requests |-> IF r = h /\ q \in Procs THEN q ELSE p]
Corrs == [r \in Requests |-> IF r = x THEN 2 ELSE 1]
Routes == [r \in Requests |-> CASE r \in {a, x} -> "terminal" [] r = b -> "telegram"
                                 [] r = h -> "http"     [] OTHER -> "none"]
Verdicts == [r \in Requests |-> CASE r = b -> "approved" [] r = x -> "denied" [] OTHER -> "human"]
Marked == {b, x} \cap Requests
=============================================================================
