------------------------------- MODULE Approvals -------------------------------
(***************************************************************************)
(* Human approvals (esaa/orchestrator.rs, approval.rs, webhook.rs): an     *)
(* intention that needs a human becomes an ApprovalRequested event, a      *)
(* channel shows it to somebody, and a decision event answers it.  The     *)
(* requester waits on a small channel of its own that gets every event of  *)
(* its correlation, until an answer or the deadline.                       *)
(*                                                                         *)
(* All of it is events: decisions may come twice, late, from a prompt, a   *)
(* callback or the replay that a restarting process does, and the process  *)
(* of the requester may die before any of them.  Appending an event and    *)
(* sending it to the subscribers of the same process is one step here;     *)
(* module TailDelivery takes it apart.                                     *)
(***************************************************************************)
EXTENDS Integers, Sequences, FiniteSets

CONSTANTS
    Procs,          \* processes on the store
    Watching,       \* those with a tail watcher (zymi serve)
    Requests,       \* intentions, each with the approval id it would get
    Owner,          \* Owner[r]: the process whose pipeline emits r
    Corr,           \* Corr[r]: correlation id
    Channel,        \* Channel[r]: where r is routed, "none" if nowhere
    Contract,       \* Contract[r]: what the contracts say of r
    Forced,         \* requests whose tool is marked requires_approval
    Clicks,         \* HTTP requests that decide: POST /approvals, Telegram callbacks
    InboxCapacity,  \* subscribe_correlation's channel
    StoreErrors,    \* whether an append may fail
    MaxStarts, MaxNoise    \* bounds: starts of a process, other events of a correlation

Channels == {"terminal", "telegram", "http", "none"}

ASSUME ApprovalAssumption ==
    /\ Procs # {} /\ Watching \subseteq Procs
    /\ Requests # {}
    /\ Owner \in [Requests -> Procs]
    /\ Channel \in [Requests -> Channels]
    /\ Contract \in [Requests -> {"approved", "human", "denied"}]
    /\ Forced \subseteq Requests
    /\ InboxCapacity \in Nat \ {0}
    /\ StoreErrors \in BOOLEAN
    /\ MaxStarts \in Nat /\ MaxNoise \in Nat

VARIABLES
    log,        \* the approval events of the store, in order
    req,        \* req[r]: where process_intention(r) is
    inbox,      \* inbox[r]: its correlation subscription
    aged, due,  \* aged: event older than the timeout; due: the deadline has passed
    up,         \* up[p]: the process runs
    replay,     \* replay[p]: its start-up replay
    cursor,     \* cursor[p]: its tail watcher's
    prompts,    \* prompts[p][r]: terminal prompts open in p
    listening,  \* processes whose Telegram sender has subscribed
    shown,      \* requests sent to the Telegram chat
    click,      \* click[k]: a decision request being handled
    starts, noise,
    missed      \* history: requests whose decision met a full channel

network == <<prompts, listening, shown, missed>>
processes == <<up, replay, cursor, starts>>
vars == <<log, req, inbox, aged, due, up, replay, cursor, prompts, listening, shown,
          click, starts, noise, missed>>

------------------------------------------------------------------------------

Entry == [kind : {"requested", "granted", "denied"}, request : Requests,
          by : {"human", "timeout", "restart", "no_channel", "requester"}, proc : Procs]
Message == [kind : {"requested", "granted", "denied", "other"}, request : Requests]

Decision(e) == e.kind \in {"granted", "denied"}
Of(r) == {i \in DOMAIN log : log[i].request = r}
Requested(r) == \E i \in Of(r) : log[i].kind = "requested"
Decided(r) == \E i \in Of(r) : Decision(log[i])
NeedsHuman(r) == Contract[r] = "human" \/ (Contract[r] = "approved" /\ r \in Forced)
Idle == [pc |-> "idle", request |-> CHOOSE r \in Requests : TRUE, granted |-> FALSE,
         proc |-> CHOOSE p \in Procs : TRUE]
NoReplay == [pc |-> "off", todo |-> {}, old |-> {}]

Init ==
    /\ log = << >>
    /\ req = [r \in Requests |-> "new"]
    /\ inbox = [r \in Requests |-> << >>]
    /\ aged = {} /\ due = {}
    /\ up = [p \in Procs |-> FALSE]
    /\ replay = [p \in Procs |-> NoReplay]
    /\ cursor = [p \in Procs |-> 0]
    /\ prompts = [p \in Procs |-> [r \in Requests |-> 0]]
    /\ listening = {}
    /\ shown = {}
    /\ click = [k \in Clicks |-> Idle]
    /\ starts = [p \in Procs |-> 0]
    /\ noise = 0
    /\ missed = {}

------------------------------------------------------------------------------
(* Events and who gets them. *)

(* The subscription starts after the publish. *)
Subscribed_late(r) == req[r] = "waiting"

(* subscribe_correlation is in force: from before the request is published. *)
Subscribed(r) == req[r] \in {"subscribed", "asked", "waiting"}

(* try_send of a message of r's correlation to the requesters in process p: *)
(* who has no room does not get it.                                         *)
Listens(q, p, r) == Owner[q] = p /\ Subscribed(q) /\ Corr[q] = Corr[r]
Room(q) == Len(inbox[q]) < InboxCapacity
Send(p, r, kind) ==
    /\ inbox' = [q \in Requests |->
                   IF Listens(q, p, r) /\ Room(q)
                     THEN Append(inbox[q], [kind |-> kind, request |-> r])
                     ELSE inbox[q]]
    /\ missed' = IF kind \in {"granted", "denied"} /\ Listens(r, p, r) /\ ~Room(r)
                    THEN missed \cup {r} ELSE missed

(* ... and the channels in process p, if it is a request. *)
Show(p, r, kind) ==
    /\ prompts' = IF kind = "requested" /\ Channel[r] = "terminal"
                    THEN [prompts EXCEPT ![p][r] = @ + 1] ELSE prompts
    /\ shown' = IF kind = "requested" /\ Channel[r] = "telegram" /\ p \in listening
                  THEN shown \cup {r} ELSE shown
    /\ UNCHANGED listening

Deliver(p, r, kind) == Send(p, r, kind) /\ Show(p, r, kind)

(* bus.publish: into the store, then to the subscribers in p. *)
Publish(p, kind, r, by) ==
    /\ log' = Append(log, [kind |-> kind, request |-> r, by |-> by, proc |-> p])
    /\ Deliver(p, r, kind)

(* A publish whose append fails is logged and forgotten. *)
PublishFails == StoreErrors /\ UNCHANGED <<log, inbox, network>>

Ready(p) == up[p] /\ replay[p].pc = "done"

------------------------------------------------------------------------------
(* The orchestrator: process_intention and request_approval_via_bus. *)

(* Nobody to ask is taken for a yes. *)
Evaluate_fail_open(r) ==
    /\ req[r] = "new"
    /\ Ready(Owner[r])
    /\ req' = [req EXCEPT ![r] =
                 IF Contract[r] = "denied"                       THEN "denied"
                 ELSE IF NeedsHuman(r) /\ Channel[r] # "none"    THEN "subscribed"
                 ELSE "approved"]
    /\ UNCHANGED <<log, inbox, aged, due, processes, network, click, noise>>

(* The contracts' verdict, upgraded by requires_approval. *)
Evaluate(r) ==
    /\ req[r] = "new"
    /\ Ready(Owner[r])
    /\ req' = [req EXCEPT ![r] =
                 IF Contract[r] = "denied"      THEN "denied"
                 ELSE IF ~NeedsHuman(r)         THEN "approved"
                 ELSE IF Channel[r] = "none"    THEN "no_channel"
                 ELSE "subscribed"]
    /\ UNCHANGED <<log, inbox, aged, due, processes, network, click, noise>>

(* No channel: a request and a denial are recorded, nobody is asked. *)
RecordUnroutable(r) ==
    /\ req[r] = "no_channel"
    /\ \/ Publish(Owner[r], "requested", r, "requester")
       \/ PublishFails
    /\ req' = [req EXCEPT ![r] = "no_channel_requested"]
    /\ UNCHANGED <<aged, due, processes, click, noise>>
DenyUnroutable(r) ==
    /\ req[r] = "no_channel_requested"
    /\ \/ Publish(Owner[r], "denied", r, "no_channel")
       \/ PublishFails
    /\ req' = [req EXCEPT ![r] = "no_handler"]
    /\ UNCHANGED <<aged, due, processes, click, noise>>

(* The request is published; if it cannot be, the answer is no. *)
Ask(r) ==
    /\ req[r] = "subscribed"
    /\ \/ /\ Publish(Owner[r], "requested", r, "requester")
          /\ req' = [req EXCEPT ![r] = "asked"]
       \/ /\ PublishFails
          /\ req' = [req EXCEPT ![r] = "refused"]
    /\ UNCHANGED <<aged, due, processes, click, noise>>
Await(r) ==
    /\ req[r] = "asked"
    /\ req' = [req EXCEPT ![r] = "waiting"]
    /\ UNCHANGED <<log, inbox, aged, due, processes, network, click, noise>>

(* The wait is over, and the subscription with it. *)
End(r, pc) ==
    /\ req' = [req EXCEPT ![r] = pc]
    /\ inbox' = [inbox EXCEPT ![r] = << >>]

(* Matching the answer by its correlation alone. *)
Receive_any_id(r) ==
    /\ req[r] = "waiting"
    /\ inbox[r] # << >>
    /\ IF Decision(Head(inbox[r]))
         THEN End(r, IF Head(inbox[r]).kind = "granted" THEN "approved" ELSE "rejected")
         ELSE inbox' = [inbox EXCEPT ![r] = Tail(@)] /\ UNCHANGED req
    /\ UNCHANGED <<log, aged, due, processes, network, click, noise>>

(* recv: only a decision with the request's own id ends the wait. *)
Receive(r) ==
    LET m == Head(inbox[r])
    IN  /\ req[r] = "waiting"
        /\ inbox[r] # << >>
        /\ IF m.request = r /\ Decision(m)
             THEN End(r, IF m.kind = "granted" THEN "approved" ELSE "rejected")
             ELSE inbox' = [inbox EXCEPT ![r] = Tail(@)] /\ UNCHANGED req
        /\ UNCHANGED <<log, aged, due, processes, network, click, noise>>

(* The deadline is looked at only between messages. *)
Timeout_on_message(r) ==
    /\ req[r] = "waiting"
    /\ r \in due
    /\ inbox[r] # << >>
    /\ End(r, "timing_out")
    /\ UNCHANGED <<log, aged, due, processes, network, click, noise>>

(* The deadline ends it too, whether or not there is something left to receive. *)
Timeout(r) ==
    /\ req[r] = "waiting"
    /\ r \in due
    /\ End(r, "timing_out")
    /\ UNCHANGED <<log, aged, due, processes, network, click, noise>>

(* Rejecting without a word. *)
SealTimeout_silent(r) ==
    /\ req[r] = "timing_out"
    /\ req' = [req EXCEPT ![r] = "rejected"]
    /\ UNCHANGED <<log, inbox, aged, due, processes, network, click, noise>>

(* The denial for the audit trail. *)
SealTimeout(r) ==
    /\ req[r] = "timing_out"
    /\ \/ Publish(Owner[r], "denied", r, "timeout")
       \/ PublishFails
    /\ req' = [req EXCEPT ![r] = "rejected"]
    /\ UNCHANGED <<aged, due, processes, click, noise>>

(* Time passes.  The event's time stamp is older than the wait. *)
Age(r) ==
    /\ r \notin aged
    /\ Requested(r)
    /\ aged' = aged \cup {r}
    /\ UNCHANGED <<log, req, inbox, due, processes, network, click, noise>>
Expire_at_once(r) ==                    \* the deadline is not `timeout` from now
    /\ r \notin due
    /\ req[r] = "waiting"
    /\ due' = due \cup {r}
    /\ UNCHANGED <<log, req, inbox, aged, processes, network, click, noise>>
Expire(r) ==
    /\ r \in aged \ due
    /\ req[r] = "waiting"
    /\ due' = due \cup {r}
    /\ UNCHANGED <<log, req, inbox, aged, processes, network, click, noise>>

(* Another event of the correlation, from a step that runs at the same time. *)
Noise(r) ==
    /\ noise < MaxNoise
    /\ up[Owner[r]]
    /\ noise' = noise + 1
    /\ Send(Owner[r], r, "other")
    /\ UNCHANGED <<log, req, aged, due, processes, prompts, listening, shown, click>>

------------------------------------------------------------------------------
(* Channels *)

(* Somebody answers a prompt at the terminal (one at a time, but in any order *)
(* here), or it cannot be shown, which denies.  Whether the request has been  *)
(* decided in the meantime is not looked at.                                  *)
AnswerPrompt(p, r) ==
    /\ up[p]
    /\ prompts[p][r] > 0
    /\ \/ \E kind \in {"granted", "denied"} :
            /\ log' = Append(log, [kind |-> kind, request |-> r, by |-> "human", proc |-> p])
            /\ Send(p, r, kind)
       \/ StoreErrors /\ UNCHANGED <<log, inbox, missed>>
    /\ prompts' = [prompts EXCEPT ![p][r] = @ - 1]
    /\ UNCHANGED <<req, aged, due, processes, listening, shown, click, noise>>

(* telegram_sender_loop subscribes in its own task, after start has returned. *)
SenderSubscribes(p) ==
    /\ up[p]
    /\ p \notin listening
    /\ \E r \in Requests : Channel[r] = "telegram"
    /\ listening' = listening \cup {p}
    /\ UNCHANGED <<log, req, inbox, aged, due, processes, prompts, shown, missed, click, noise>>

(* decide_approval and telegram_callback_handler: scan the store for the request *)
(* and for a decision ...                                                        *)
Offered(r) == \/ Channel[r] = "http" /\ Requested(r)
              \/ Channel[r] = "telegram" /\ r \in shown

ClickScan(k, p, r) ==
    /\ up[p]
    /\ click[k].pc = "idle"
    /\ Offered(r)
    /\ \E granted \in BOOLEAN :
          click' = [click EXCEPT ![k] = [pc |-> IF Decided(r) THEN "done" ELSE "scanned",
                                         request |-> r, granted |-> granted, proc |-> p]]
    /\ UNCHANGED <<log, req, inbox, aged, due, processes, network, noise>>

(* ... and publish the verdict. *)
ClickPublish(k) ==
    /\ click[k].pc = "scanned"
    /\ \/ Publish(click[k].proc, IF click[k].granted THEN "granted" ELSE "denied",
                  click[k].request, "human")
       \/ PublishFails
    /\ click' = [click EXCEPT ![k].pc = "done"]
    /\ UNCHANGED <<req, aged, due, processes, noise>>

------------------------------------------------------------------------------
(* Processes *)

(* The channels are started, then the replay runs. *)
Start(p) ==
    /\ ~up[p]
    /\ starts[p] < MaxStarts
    /\ up' = [up EXCEPT ![p] = TRUE]
    /\ starts' = [starts EXCEPT ![p] = @ + 1]
    /\ replay' = [replay EXCEPT ![p] = [NoReplay EXCEPT !.pc = "scan"]]
    /\ UNCHANGED <<log, req, inbox, aged, due, cursor, network, click, noise>>

(* A replay that cannot read the store is logged and given up. *)
ScanFails == IF StoreErrors THEN {{}} ELSE {}

(* replay_unfulfilled_approvals: requests without a decision, and their ages. *)
ReplayScan(p) ==
    /\ replay[p].pc = "scan"
    /\ \E open \in {{r \in Requests : Requested(r) /\ ~Decided(r)}} \cup ScanFails :
          replay' = [replay EXCEPT ![p] = [pc |-> "act", todo |-> open, old |-> open \cap aged]]
    /\ UNCHANGED <<log, req, inbox, aged, due, up, cursor, starts, network, click, noise>>

ReplaySeal_redelivers(p, r) ==          \* the age is not looked at
    /\ replay[p].pc = "act"
    /\ r \in replay[p].todo \cap replay[p].old
    /\ Deliver(p, r, "requested")
    /\ replay' = [replay EXCEPT ![p].todo = @ \ {r}]
    /\ UNCHANGED <<log, req, aged, due, up, cursor, starts, click, noise>>

(* One of them: too old, so it is denied ... *)
ReplaySeal(p, r) ==
    /\ replay[p].pc = "act"
    /\ r \in replay[p].todo \cap replay[p].old
    /\ \/ Publish(p, "denied", r, "restart")
       \/ PublishFails
    /\ replay' = [replay EXCEPT ![p].todo = @ \ {r}]
    /\ UNCHANGED <<req, aged, due, up, cursor, starts, click, noise>>

(* ... or still young, so this process's channels get it again. *)
ReplayRedeliver(p, r) ==
    /\ replay[p].pc = "act"
    /\ r \in replay[p].todo \ replay[p].old
    /\ Deliver(p, r, "requested")
    /\ replay' = [replay EXCEPT ![p].todo = @ \ {r}]
    /\ UNCHANGED <<log, req, aged, due, up, cursor, starts, click, noise>>

(* Done; a serving process starts its tail watcher at the end of the store. *)
ReplayEnd(p) ==
    /\ replay[p].pc = "act" /\ replay[p].todo = {}
    /\ replay' = [replay EXCEPT ![p] = [NoReplay EXCEPT !.pc = "done"]]
    /\ cursor' = [cursor EXCEPT ![p] = Len(log)]
    /\ UNCHANGED <<log, req, inbox, aged, due, up, starts, network, click, noise>>

(* The tail watcher hands on what another process wrote. *)
WatcherStep(p) ==
    LET e == log[cursor[p] + 1]
    IN  /\ p \in Watching
        /\ Ready(p)
        /\ cursor[p] < Len(log)
        /\ cursor' = [cursor EXCEPT ![p] = @ + 1]
        /\ IF e.proc = p
             THEN UNCHANGED <<inbox, network>>
             ELSE Deliver(p, e.request, e.kind)
        /\ UNCHANGED <<log, req, aged, due, up, replay, starts, click, noise>>

Over(r) == req[r] \in {"approved", "denied", "rejected", "refused", "no_handler"}

(* Everything in the memory of the process is gone. *)
Crash(p) ==
    /\ up[p]
    /\ up' = [up EXCEPT ![p] = FALSE]
    /\ replay' = [replay EXCEPT ![p] = NoReplay]
    /\ prompts' = [prompts EXCEPT ![p] = [r \in Requests |-> 0]]
    /\ listening' = listening \ {p}
    /\ req' = [r \in Requests |->
                 IF Owner[r] = p /\ req[r] # "new" /\ ~Over(r) THEN "lost" ELSE req[r]]
    /\ inbox' = [r \in Requests |-> IF Owner[r] = p THEN << >> ELSE inbox[r]]
    /\ click' = [k \in Clicks |->
                   IF click[k].pc = "scanned" /\ click[k].proc = p
                     THEN [click[k] EXCEPT !.pc = "done"] ELSE click[k]]
    /\ UNCHANGED <<log, aged, due, cursor, shown, starts, noise, missed>>

------------------------------------------------------------------------------

Orchestrator(r) ==
    \/ Evaluate(r) \/ RecordUnroutable(r) \/ DenyUnroutable(r)
    \/ Ask(r) \/ Await(r) \/ Receive(r) \/ Timeout(r) \/ SealTimeout(r)
Replay(p) ==
    \/ ReplayScan(p) \/ ReplayEnd(p)
    \/ \E r \in Requests : ReplaySeal(p, r) \/ ReplayRedeliver(p, r)

Next ==
    \/ \E r \in Requests : Orchestrator(r) \/ Age(r) \/ Expire(r) \/ Noise(r)
    \/ \E p \in Procs, r \in {r \in Requests : Channel[r] = "terminal"} : AnswerPrompt(p, r)
    \/ \E k \in Clicks, p \in Procs, r \in Requests : ClickScan(k, p, r)
    \/ \E k \in Clicks : ClickPublish(k)
    \/ \E p \in Procs : Start(p) \/ Replay(p) \/ WatcherStep(p) \/ SenderSubscribes(p) \/ Crash(p)

(* Time passes; a task that can run does; a process that is down is started again *)
(* (MaxStarts permitting).  Humans owe nobody an answer.                           *)
Fairness ==
    /\ \A r \in Requests :
          /\ WF_vars(Age(r)) /\ WF_vars(Expire(r))
          /\ WF_vars(Ask(r) \/ Await(r) \/ RecordUnroutable(r) \/ DenyUnroutable(r) \/ SealTimeout(r))
          /\ WF_vars(Receive(r) \/ Timeout(r))
    /\ \A p \in Procs : WF_vars(Start(p)) /\ WF_vars(Replay(p)) /\ WF_vars(SenderSubscribes(p))
    /\ \A k \in Clicks : WF_vars(ClickPublish(k))

Spec == Init /\ [][Next]_vars
FairSpec == Spec /\ Fairness

------------------------------------------------------------------------------
(* Properties *)

Pcs == {"new", "subscribed", "asked", "waiting", "timing_out", "no_channel", "no_channel_requested",
        "approved", "denied", "rejected", "refused", "no_handler", "lost"}

(* Every variable keeps its type. *)
TypeOK ==
    /\ log \in Seq(Entry)
    /\ req \in [Requests -> Pcs]
    /\ inbox \in [Requests -> Seq(Message)]
    /\ aged \subseteq Requests /\ due \subseteq aged
    /\ up \in [Procs -> BOOLEAN]
    /\ replay \in [Procs -> [pc : {"off", "scan", "act", "done"}, todo : SUBSET Requests,
                          old : SUBSET Requests]]
    /\ cursor \in [Procs -> Nat]
    /\ prompts \in [Procs -> [Requests -> Nat]]
    /\ listening \subseteq Procs
    /\ shown \subseteq Requests /\ missed \subseteq Requests
    /\ click \in [Clicks -> [pc : {"idle", "scanned", "done"}, request : Requests,
                             granted : BOOLEAN, proc : Procs]]
    /\ starts \in [Procs -> Nat] /\ noise \in Nat

GrantedByHuman(r) ==
    \E i, j \in Of(r) : i < j /\ log[i].kind = "requested" /\ log[j].kind = "granted"
                          /\ log[j].by = "human"

(* No tool that needs a human runs without one: the orchestrator says Approved  *)
(* only if the store holds, for this very request and after it, a grant that a   *)
(* human gave, however requests of one correlation, restarts and other           *)
(* processes mix their answers.                                                  *)
ApprovedByHuman ==
    \A r \in Requests : req[r] = "approved" /\ NeedsHuman(r) => GrantedByHuman(r)

DecidedHere(r) == \E i \in Of(r) : Decision(log[i]) /\ log[i].proc = Owner[r]
Answered(r) == \E i \in DOMAIN inbox[r] : inbox[r][i].request = r /\ Decision(inbox[r][i])

(* While a requester waits, a decision that its own process published is in its *)
(* channel, because it listens before it asks, whichever of them comes first;   *)
(* unless other events of the run had filled the channel when it was sent.      *)
DecisionHeard ==
    \A r \in Requests :
        req[r] = "waiting" /\ DecidedHere(r) => Answered(r) \/ r \in missed

(* bus.rs:199-200, "Uses a small channel (4) since only a handful of events match *)
(* a single correlation": no decision is pushed out of a channel.                 *)
HandfulFits == \A r \in Requests : req[r] = "waiting" /\ DecidedHere(r) => Answered(r)

(* A wait that ended leaves a decision in the audit trail, the timeout included. *)
AuditCloses ==
    \A r \in Requests : req[r] \in {"rejected", "no_handler"} \/ (req[r] = "approved" /\ NeedsHuman(r))
        => Decided(r)

(* No second, contradictory decision on a request answered by callbacks. *)
OneVerdict ==
    \A r \in Requests : \A i, j \in Of(r) :
        (log[i].by = "human" /\ log[j].by = "human") => log[i].kind = log[j].kind

(* Nobody waits for ever. *)
WaitEnds == \A r \in Requests : req[r] = "waiting" ~> req[r] # "waiting"

(* A request that is too old by the time a process starts is closed by its replay. *)
ExpiredIsSealed ==
    \A r \in Requests, p \in Procs :
        (replay[p].pc = "scan" /\ r \in aged) ~> (Decided(r) \/ ~up[p])
=============================================================================
