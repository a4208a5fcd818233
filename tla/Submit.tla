-------------------------------- MODULE Submit --------------------------------
(***************************************************************************)
(* EventDrivenConnector (events/connector.rs): a caller publishes a user's *)
(* message under a correlation id of its own and waits for the             *)
(* ResponseReady of that id, up to a time-out.  Its subscription is a      *)
(* queue of four events (EventBus::subscribe_correlation).  A streaming    *)
(* caller first leaves the sender of its stream in the StreamRegistry,     *)
(* where the worker that answers may take it, once.                        *)
(***************************************************************************)
EXTENDS Naturals, Sequences, FiniteSets

CONSTANTS
    Callers,     \* calls under way, each with its correlation id
    Capacity,    \* the capacity of a correlation's queue
    MaxProgress  \* events a run publishes before its answer, at most

VARIABLES
    call,      \* caller -> [pc, mode, result]
    inbox,     \* caller -> what its subscription holds
    registry,  \* StreamRegistry.senders: the callers whose sender is there
    worker,    \* caller -> [pc, published, taken]: the run that answers it
    senders    \* StreamRegistry senders taken, per caller

vars == <<call, inbox, registry, worker, senders>>

Init ==
    /\ \E mode \in [Callers -> {"wait", "stream", "forget"}] :
          call = [c \in Callers |-> [pc |-> "begin", mode |-> mode[c], result |-> "none"]]
    /\ inbox = [c \in Callers |-> << >>]
    /\ registry = {}
    /\ worker = [c \in Callers |-> [pc |-> "none", published |-> 0]]
    /\ senders = [c \in Callers |-> 0]

Go(c, pc) == call' = [call EXCEPT ![c].pc = pc]
Return(c, result) == call' = [call EXCEPT ![c].pc = "returned", ![c].result = result]

(* The sender goes in before the message goes out.                         *)
Register(c) ==
    /\ call[c].pc = "begin" /\ call[c].mode = "stream"
    /\ registry' = registry \cup {c}
    /\ Go(c, "subscribe")
    /\ UNCHANGED <<inbox, worker, senders>>

Subscribe(c) ==
    /\ call[c].pc = "subscribe" \/ (call[c].pc = "begin" /\ call[c].mode = "wait")
    /\ Go(c, "publish")
    /\ UNCHANGED <<inbox, registry, worker, senders>>

(* submit publishes and returns; the message is also an event of the       *)
(* correlation, the first one a subscription gets.                         *)
Publish(c) ==
    /\ call[c].pc = "publish" \/ (call[c].pc = "begin" /\ call[c].mode = "forget")
    /\ worker' = [worker EXCEPT ![c].pc = "running"]
    /\ IF call[c].mode = "forget" THEN Return(c, "submitted") /\ UNCHANGED inbox
       ELSE Go(c, "waiting") /\ inbox' = [inbox EXCEPT ![c] = Append(@, "message")]
    /\ UNCHANGED <<registry, senders>>

\* a slip: the sender is left behind when the message cannot be published
PublishFails_leaves(c) ==
    /\ call[c].pc = "publish" \/ (call[c].pc = "begin" /\ call[c].mode = "forget")
    /\ Return(c, "publish_failed")
    /\ UNCHANGED <<inbox, registry, worker, senders>>

PublishFails(c) ==
    /\ call[c].pc = "publish" \/ (call[c].pc = "begin" /\ call[c].mode = "forget")
    /\ registry' = registry \ {c}
    /\ Return(c, "publish_failed")
    /\ UNCHANGED <<inbox, worker, senders>>

(* The run: takes the sender if it streams, publishes what it does, and    *)
(* at the end its answer, or none.                                         *)
Take(c) ==
    /\ worker[c].pc = "running" /\ c \in registry
    /\ registry' = registry \ {c}
    /\ senders' = [senders EXCEPT ![c] = @ + 1]
    /\ UNCHANGED <<call, inbox, worker>>

Deliver(c, event) ==
    inbox' = IF call[c].pc = "waiting" /\ Len(inbox[c]) < Capacity
             THEN [inbox EXCEPT ![c] = Append(@, event)] ELSE inbox

Progress(c) ==
    /\ worker[c].pc = "running" /\ worker[c].published < MaxProgress
    /\ worker' = [worker EXCEPT ![c].published = @ + 1]
    /\ Deliver(c, "progress")
    /\ UNCHANGED <<call, registry, senders>>

Respond(c) ==
    /\ worker[c].pc = "running"
    /\ \/ worker' = [worker EXCEPT ![c].pc = "answered"] /\ Deliver(c, "response")
       \/ worker' = [worker EXCEPT ![c].pc = "silent"] /\ UNCHANGED inbox
    /\ UNCHANGED <<call, registry, senders>>

(* The waiting loop: the answer ends it, any other event is passed over.   *)
Receive(c) ==
    /\ call[c].pc = "waiting" /\ inbox[c] # << >>
    /\ inbox' = [inbox EXCEPT ![c] = Tail(@)]
    /\ IF Head(inbox[c]) = "response" THEN Return(c, "answer") ELSE UNCHANGED call
    /\ UNCHANGED <<registry, worker, senders>>

(* The deadline, and a bus that is gone: the sender is removed.            *)
GiveUp(c) ==
    /\ call[c].pc = "waiting"
    /\ \E why \in {"timeout", "bus_closed"} : Return(c, why)
    /\ registry' = registry \ {c}
    /\ inbox' = [inbox EXCEPT ![c] = << >>]
    /\ UNCHANGED <<worker, senders>>

Step(c) ==
    \/ Register(c) \/ Subscribe(c) \/ Publish(c) \/ PublishFails(c)
    \/ Receive(c) \/ GiveUp(c)

Next == \E c \in Callers : Step(c) \/ Take(c) \/ Progress(c) \/ Respond(c)

Spec == Init /\ [][Next]_vars
-----------------------------------------------------------------------------
TypeOK ==
    /\ \A c \in Callers :
          /\ call[c].pc \in {"begin", "subscribe", "publish", "waiting", "returned"}
          /\ Len(inbox[c]) <= Capacity
          /\ senders[c] \in 0..1
    /\ registry \subseteq Callers

(* An answer is the answer of the caller's own run.  A caller that still   *)
(* waits when its run has answered has the answer in its queue, unless the *)
(* message and what the run published before were enough to fill it.  And  *)
(* a call that failed leaves no sender in the registry: nothing streams    *)
(* into a caller that has gone, and the registry does not grow with        *)
(* failures.                                                               *)
SubmitSound ==
    \A c \in Callers :
        /\ call[c].result = "answer" => worker[c].pc = "answered"
        /\ call[c].pc = "waiting" /\ worker[c].pc = "answered" /\ 1 + worker[c].published < Capacity =>
              \E i \in 1..Len(inbox[c]) : inbox[c][i] = "response"
        /\ call[c].result \notin {"none", "answer"} => c \notin registry
        /\ senders[c] > 0 => call[c].mode = "stream"

(* "Uses a small channel (4) since only a handful of events match a single *)
(* correlation": an answer published while the caller waits is not dropped *)
(* from its queue.                                                         *)
ResponseHeard ==
    \A c \in Callers :
        call[c].pc = "waiting" /\ worker[c].pc = "answered" =>
            \E i \in DOMAIN inbox[c] : inbox[c][i] = "response"
=============================================================================
