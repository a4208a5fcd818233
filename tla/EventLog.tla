------------------------------- MODULE EventLog -------------------------------
(***************************************************************************)
(* What an event store promises its callers, with no transactions, hashes  *)
(* or global ids: every stream is a list that only grows at its end, an    *)
(* event enters it at most once however often it is appended, and what the *)
(* replies of append tell is true.  A caller that heard nothing, or an     *)
(* error that leaves it open, may append the same event again, and the     *)
(* append it gave up may take effect after it did.                         *)
(* The backends are shown to implement this specification.                 *)
(***************************************************************************)
EXTENDS Integers, Sequences

CONSTANTS Streams, Events, OldLogs    \* OldLogs: what the database may hold at open

VARIABLES
    log,      \* log[s]: the events of stream s, in sequence order
    reply     \* reply[e]: what the publishers of e know of it

logVars == <<log, reply>>

Logged(e) == \E s \in Streams : \E i \in DOMAIN log[s] : log[s][i] = e

LogInit ==
    /\ log \in OldLogs
    /\ reply = [e \in Events |-> IF Logged(e) THEN "ok" ELSE "none"]

(* append takes effect: the event becomes visible at the end of its stream. *)
(* Whoever was told that it failed for good is not lied to.                 *)
Write(s, e) ==
    /\ reply[e] \in {"none", "unknown"}
    /\ ~Logged(e)
    /\ log' = [log EXCEPT ![s] = Append(@, e)]
    /\ UNCHANGED reply

(* append returns Ok. *)
Acknowledge(e) ==
    /\ reply[e] \in {"none", "unknown"}
    /\ Logged(e)
    /\ reply' = [reply EXCEPT ![e] = "ok"]
    /\ UNCHANGED log

(* append returns Err, and neither it nor an earlier try has had an effect. *)
Refuse(e) ==
    /\ reply[e] = "none"
    /\ ~Logged(e)
    /\ reply' = [reply EXCEPT ![e] = "err"]
    /\ UNCHANGED log

(* append is refused because an earlier try of the event is stored. *)
Duplicate(e) ==
    /\ reply[e] = "unknown"
    /\ Logged(e)
    /\ reply' = [reply EXCEPT ![e] = "refused"]
    /\ UNCHANGED log

(* The publisher does not hear, or hears an error that says nothing: the event *)
(* may be logged, or may be later on.                                          *)
Lose(e) ==
    /\ reply[e] = "none"
    /\ reply' = [reply EXCEPT ![e] = "unknown"]
    /\ UNCHANGED log

(* An event that was refused is appended again. *)
Retry(e) ==
    /\ reply[e] = "err"
    /\ reply' = [reply EXCEPT ![e] = "none"]
    /\ UNCHANGED log

LogNext ==
    \/ \E s \in Streams, e \in Events : Write(s, e)
    \/ \E e \in Events : Acknowledge(e) \/ Refuse(e) \/ Duplicate(e) \/ Lose(e) \/ Retry(e)

LogSpec == LogInit /\ [][LogNext]_logVars
=============================================================================
