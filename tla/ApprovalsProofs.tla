---------------------------- MODULE ApprovalsProofs ----------------------------
(***************************************************************************)
(* Theorems about approvals, for any processes, requests, routes, decision *)
(* requests, channel size and number of restarts: the types, and that what *)
(* needs a human runs only after a human has granted it.                   *)
(***************************************************************************)
EXTENDS Approvals, SequenceTheorems, TLAPS

(* The store holds an event of this kind about r. *)
Told(kind, r) == \E j \in Of(r) : log[j].kind = kind
Granted == {r \in Requests : Told("granted", r)}
Verdicts == {"granted", "denied"}

(* Only humans grant, and only what has been requested. *)
GrantsAnswer ==
    \A j \in DOMAIN log : log[j].kind = "granted" =>
        /\ log[j].by = "human"
        /\ \E i \in DOMAIN log : /\ i < j
                                 /\ log[i].kind = "requested"
                                 /\ log[i].request = log[j].request

(* A decision that a requester has still to receive is in the store. *)
InboxTrue ==
    \A q, r \in Requests, kind \in Verdicts : \A i \in DOMAIN inbox[q] :
        inbox[q][i].kind = kind /\ inbox[q][i].request = r => Told(kind, r)

(* Nobody is asked about, or decides, what was never requested. *)
AskedFirst ==
    /\ \A p \in Procs, r \in Requests : prompts[p][r] > 0 => Requested(r)
    /\ \A r \in shown : Requested(r)
    /\ \A k \in Clicks : click[k].pc = "scanned" => Requested(click[k].request)
    /\ \A p \in Procs : \A r \in replay[p].todo : Requested(r)

ApprovedHasGrant == \A r \in Requests : req[r] = "approved" /\ NeedsHuman(r) => r \in Granted

Inv == GrantsAnswer /\ InboxTrue /\ AskedFirst /\ ApprovedHasGrant

------------------------------------------------------------------------------
(* Types *)

LEMMA SendType ==
  ASSUME TypeOK, NEW p \in Procs, NEW r \in Requests,
         NEW kind \in {"requested", "granted", "denied", "other"}, Send(p, r, kind)
  PROVE  inbox' \in [Requests -> Seq(Message)] /\ missed' \subseteq Requests
  <1> DEFINE m == [kind |-> kind, request |-> r]
  <1>1. m \in Message BY DEF Message
  <1>2. \A q \in Requests : inbox[q] \in Seq(Message) BY DEF TypeOK
  <1>3. \A q \in Requests : Append(inbox[q], m) \in Seq(Message) BY <1>1, <1>2, AppendProperties
  <1>4. inbox' \in [Requests -> Seq(Message)] BY <1>2, <1>3 DEF Send
  <1>5. missed' \subseteq Requests BY DEF Send, TypeOK
  <1> QED BY <1>4, <1>5

LEMMA ShowType ==
  ASSUME TypeOK, NEW p \in Procs, NEW r \in Requests, NEW kind, Show(p, r, kind)
  PROVE  /\ prompts' \in [Procs -> [Requests -> Nat]]
         /\ listening' \subseteq Procs
         /\ shown' \subseteq Requests
  <1>1. prompts \in [Procs -> [Requests -> Nat]] BY DEF TypeOK
  <1>2. prompts[p] \in [Requests -> Nat] BY <1>1
  <1>3. [prompts[p] EXCEPT ![r] = @ + 1] \in [Requests -> Nat] BY <1>2
  <1>4. [prompts EXCEPT ![p][r] = @ + 1] \in [Procs -> [Requests -> Nat]] BY <1>1, <1>3
  <1> QED BY <1>1, <1>4 DEF Show, TypeOK

NetType ==
    /\ inbox \in [Requests -> Seq(Message)]
    /\ prompts \in [Procs -> [Requests -> Nat]]
    /\ listening \subseteq Procs
    /\ shown \subseteq Requests /\ missed \subseteq Requests
Kinds == {"requested", "granted", "denied"}
Sources == {"human", "timeout", "restart", "no_channel", "requester"}

LEMMA DeliverType ==
  ASSUME TypeOK, NEW p \in Procs, NEW r \in Requests, NEW kind \in Kinds, Deliver(p, r, kind)
  PROVE  NetType'
  BY SendType, ShowType DEF Deliver, NetType, Kinds

LEMMA LogType ==
  ASSUME TypeOK, NEW e \in Entry, log' = Append(log, e)
  PROVE  log' \in Seq(Entry)
  BY AppendProperties DEF TypeOK

LEMMA PublishType ==
  ASSUME TypeOK, NEW p \in Procs, NEW r \in Requests, NEW kind \in Kinds, NEW by \in Sources,
         Publish(p, kind, r, by)
  PROVE  log' \in Seq(Entry) /\ NetType'
  <1>1. [kind |-> kind, request |-> r, by |-> by, proc |-> p] \in Entry
    BY DEF Entry, Kinds, Sources
  <1> QED BY <1>1, LogType, DeliverType DEF Publish

LEMMA FailType ==
  ASSUME TypeOK, PublishFails
  PROVE  log' \in Seq(Entry) /\ NetType'
  BY DEF TypeOK, PublishFails, NetType, network

LEMMA EndType ==
  ASSUME TypeOK, NEW r \in Requests, NEW pc \in Pcs, End(r, pc)
  PROVE  req' \in [Requests -> Pcs] /\ inbox' \in [Requests -> Seq(Message)]
  BY DEF TypeOK, End

ReplayState == [pc : {"off", "scan", "act", "done"}, todo : SUBSET Requests, old : SUBSET Requests]
ClickState == [pc : {"idle", "scanned", "done"}, request : Requests, granted : BOOLEAN, proc : Procs]

LEMMA ReplayTodoType ==
  ASSUME TypeOK, NEW p \in Procs, NEW r, replay' = [replay EXCEPT ![p].todo = @ \ {r}]
  PROVE  replay' \in [Procs -> ReplayState]
  <1>1. replay \in [Procs -> ReplayState] BY DEF TypeOK, ReplayState
  <1>2. [replay[p] EXCEPT !.todo = @ \ {r}] \in ReplayState BY <1>1 DEF ReplayState
  <1>3. replay' = [replay EXCEPT ![p] = [replay[p] EXCEPT !.todo = @ \ {r}]] BY <1>1
  <1> QED BY <1>1, <1>2, <1>3

LEMMA ClickDoneType ==
  ASSUME TypeOK, NEW k \in Clicks
  PROVE  [click[k] EXCEPT !.pc = "done"] \in ClickState
  <1>1. click[k] \in ClickState BY DEF TypeOK, ClickState
  <1> QED BY <1>1 DEF ClickState

LEMMA OwnerType == \A r \in Requests : Owner[r] \in Procs
  BY ApprovalAssumption

------------------------------------------------------------------------------

LEMMA InitType == Init => TypeOK
  <1> SUFFICES ASSUME Init PROVE TypeOK OBVIOUS
  <1>1. Idle \in [pc : {"idle", "scanned", "done"}, request : Requests,
                  granted : BOOLEAN, proc : Procs]
    BY ApprovalAssumption DEF Idle
  <1>2. NoReplay \in [pc : {"off", "scan", "act", "done"}, todo : SUBSET Requests,
                      old : SUBSET Requests]
    BY DEF NoReplay
  <1> QED BY <1>1, <1>2 DEF Init, TypeOK, Pcs

(* What a step of the orchestrator that publishes has to be typed in. *)
LEMMA PublishedType ==
  ASSUME TypeOK, log' \in Seq(Entry), NetType', req' \in [Requests -> Pcs],
         UNCHANGED <<aged, due, processes, click, noise>>
  PROVE  TypeOK'
  BY DEF TypeOK, NetType, processes

LEMMA OrchestratorType ==
  ASSUME TypeOK, NEW r \in Requests, Orchestrator(r)
  PROVE  TypeOK'
  <1> USE OwnerType
  <1>1. CASE Evaluate(r)
    BY <1>1 DEF Evaluate, TypeOK, Pcs, processes, network
  <1>2. CASE RecordUnroutable(r)
    <2>1. log' \in Seq(Entry) /\ NetType'
      BY <1>2, PublishType, FailType DEF RecordUnroutable, Kinds, Sources
    <2>2. req' \in [Requests -> Pcs] /\ UNCHANGED <<aged, due, processes, click, noise>>
      BY <1>2 DEF RecordUnroutable, TypeOK, Pcs
    <2> QED BY <2>1, <2>2, PublishedType
  <1>3. CASE DenyUnroutable(r)
    <2>1. log' \in Seq(Entry) /\ NetType'
      BY <1>3, PublishType, FailType DEF DenyUnroutable, Kinds, Sources
    <2>2. req' \in [Requests -> Pcs] /\ UNCHANGED <<aged, due, processes, click, noise>>
      BY <1>3 DEF DenyUnroutable, TypeOK, Pcs
    <2> QED BY <2>1, <2>2, PublishedType
  <1>4. CASE Ask(r)
    <2>1. log' \in Seq(Entry) /\ NetType'
      BY <1>4, PublishType, FailType DEF Ask, Kinds, Sources
    <2>2. req' \in [Requests -> Pcs] /\ UNCHANGED <<aged, due, processes, click, noise>>
      <3>1. req \in [Requests -> Pcs] BY DEF TypeOK
      <3>2. "asked" \in Pcs /\ "refused" \in Pcs BY DEF Pcs
      <3> HIDE DEF TypeOK
      <3>3. req' = [req EXCEPT ![r] = "asked"] \/ req' = [req EXCEPT ![r] = "refused"]
        BY <1>4 DEF Ask
      <3> QED BY <1>4, <3>1, <3>2, <3>3 DEF Ask
    <2> QED BY <2>1, <2>2, PublishedType
  <1>5. CASE Await(r)
    BY <1>5 DEF Await, TypeOK, Pcs, processes, network
  <1>6. CASE Receive(r)
    <2>1. inbox[r] \in Seq(Message) /\ inbox[r] # << >> BY <1>6 DEF Receive, TypeOK
    <2>2. Tail(inbox[r]) \in Seq(Message) BY <2>1, HeadTailProperties
    <2>3. [inbox EXCEPT ![r] = Tail(@)] \in [Requests -> Seq(Message)] BY <2>2 DEF TypeOK
    <2>4. req' \in [Requests -> Pcs] /\ inbox' \in [Requests -> Seq(Message)]
      <3>1. CASE Head(inbox[r]).request = r /\ Decision(Head(inbox[r]))
        BY <1>6, <3>1, EndType DEF Receive, Pcs
      <3>2. CASE ~(Head(inbox[r]).request = r /\ Decision(Head(inbox[r])))
        BY <1>6, <2>3, <3>2 DEF Receive, TypeOK
      <3> QED BY <3>1, <3>2
    <2> QED BY <1>6, <2>4 DEF Receive, TypeOK, processes, network
  <1>7. CASE Timeout(r)
    <2>1. req' \in [Requests -> Pcs] /\ inbox' \in [Requests -> Seq(Message)]
      BY <1>7, EndType DEF Timeout, Pcs
    <2> QED BY <1>7, <2>1 DEF Timeout, TypeOK, processes, network
  <1>8. CASE SealTimeout(r)
    <2>1. log' \in Seq(Entry) /\ NetType'
      BY <1>8, PublishType, FailType DEF SealTimeout, Kinds, Sources
    <2>2. req' \in [Requests -> Pcs] /\ UNCHANGED <<aged, due, processes, click, noise>>
      BY <1>8 DEF SealTimeout, TypeOK, Pcs
    <2> QED BY <2>1, <2>2, PublishedType
  <1> QED BY <1>1, <1>2, <1>3, <1>4, <1>5, <1>6, <1>7, <1>8 DEF Orchestrator

LEMMA ReplayType ==
  ASSUME TypeOK, NEW p \in Procs, Replay(p)
  PROVE  TypeOK'
  <1>1. CASE ReplayScan(p)
    BY <1>1 DEF ReplayScan, ScanFails, NoReplay, TypeOK, network
  <1>2. CASE ReplayEnd(p)
    <2>1. Len(log) \in Nat BY DEF TypeOK
    <2> QED BY <1>2, <2>1 DEF ReplayEnd, NoReplay, TypeOK, network
  <1>3. ASSUME NEW r \in Requests, ReplaySeal(p, r) PROVE TypeOK'
    <2>1. log' \in Seq(Entry) /\ NetType'
      BY <1>3, PublishType, FailType DEF ReplaySeal, Kinds, Sources
    <2>2. replay' \in [Procs -> ReplayState] BY <1>3, ReplayTodoType DEF ReplaySeal
    <2> QED BY <1>3, <2>1, <2>2 DEF ReplaySeal, NetType, TypeOK, ReplayState
  <1>4. ASSUME NEW r \in Requests, ReplayRedeliver(p, r) PROVE TypeOK'
    <2>1. NetType' BY <1>4, DeliverType DEF ReplayRedeliver, Kinds
    <2>2. replay' \in [Procs -> ReplayState] BY <1>4, ReplayTodoType DEF ReplayRedeliver
    <2> QED BY <1>4, <2>1, <2>2 DEF ReplayRedeliver, NetType, TypeOK, ReplayState
  <1> QED BY <1>1, <1>2, <1>3, <1>4 DEF Replay

LEMMA StepType == TypeOK /\ [Next]_vars => TypeOK'
  <1> SUFFICES ASSUME TypeOK, [Next]_vars PROVE TypeOK' OBVIOUS
  <1> USE OwnerType
  <1>1. ASSUME NEW r \in Requests, Orchestrator(r) PROVE TypeOK'
    BY <1>1, OrchestratorType
  <1>2. ASSUME NEW r \in Requests, Age(r) PROVE TypeOK'
    BY <1>2 DEF Age, TypeOK, processes, network
  <1>3. ASSUME NEW r \in Requests, Expire(r) PROVE TypeOK'
    BY <1>3 DEF Expire, TypeOK, processes, network
  <1>4. ASSUME NEW r \in Requests, Noise(r) PROVE TypeOK'
    <2>1. inbox' \in [Requests -> Seq(Message)] /\ missed' \subseteq Requests
      BY <1>4, SendType DEF Noise
    <2> QED BY <1>4, <2>1 DEF Noise, TypeOK, processes, network
  <1>5. ASSUME NEW p \in Procs, NEW r \in Requests, AnswerPrompt(p, r) PROVE TypeOK'
    <2>1. log' \in Seq(Entry) /\ inbox' \in [Requests -> Seq(Message)] /\ missed' \subseteq Requests
      <3>1. ASSUME NEW kind \in {"granted", "denied"},
                   log' = Append(log, [kind |-> kind, request |-> r, by |-> "human", proc |-> p]),
                   Send(p, r, kind)
            PROVE  log' \in Seq(Entry) /\ inbox' \in [Requests -> Seq(Message)] /\ missed' \subseteq Requests
        <4>1. [kind |-> kind, request |-> r, by |-> "human", proc |-> p] \in Entry BY DEF Entry
        <4> QED BY <3>1, <4>1, LogType, SendType
      <3>2. CASE UNCHANGED <<log, inbox, missed>> BY <3>2 DEF TypeOK
      <3> QED BY <1>5, <3>1, <3>2 DEF AnswerPrompt
    <2>2. prompts' \in [Procs -> [Requests -> Nat]]
      <3>1. prompts \in [Procs -> [Requests -> Nat]] /\ prompts[p] \in [Requests -> Nat]
        BY DEF TypeOK
      <3>2. prompts[p][r] \in Nat /\ prompts[p][r] > 0 BY <1>5, <3>1 DEF AnswerPrompt
      <3>3. prompts[p][r] - 1 \in Nat BY <3>2
      <3>4. [prompts[p] EXCEPT ![r] = @ - 1] \in [Requests -> Nat] BY <3>1, <3>3
      <3>a. prompts' = [prompts EXCEPT ![p][r] = @ - 1] BY <1>5 DEF AnswerPrompt
      <3>5. prompts' = [prompts EXCEPT ![p] = [prompts[p] EXCEPT ![r] = @ - 1]]
        BY ONLY <3>1, <3>a
      <3> QED BY <3>1, <3>4, <3>5
    <2> QED BY <1>5, <2>1, <2>2 DEF AnswerPrompt, TypeOK, processes
  <1>6. ASSUME NEW k \in Clicks, NEW p \in Procs, NEW r \in Requests, ClickScan(k, p, r)
        PROVE  TypeOK'
    <2>1. click' \in [Clicks -> ClickState]
      <3>1. click \in [Clicks -> ClickState] BY DEF TypeOK, ClickState
      <3>2. \A granted \in BOOLEAN, pc \in {"done", "scanned"} :
               [pc |-> pc, request |-> r, granted |-> granted, proc |-> p] \in ClickState
        BY DEF ClickState
      <3> QED BY <1>6, <3>1, <3>2 DEF ClickScan
    <2> QED BY <1>6, <2>1 DEF ClickScan, TypeOK, processes, network, ClickState
  <1>7. ASSUME NEW k \in Clicks, ClickPublish(k) PROVE TypeOK'
    <2>1. click[k].proc \in Procs /\ click[k].request \in Requests BY DEF TypeOK
    <2>2. (IF click[k].granted THEN "granted" ELSE "denied") \in Kinds BY DEF Kinds
    <2>3. log' \in Seq(Entry) /\ NetType'
      BY <1>7, <2>1, <2>2, PublishType, FailType DEF ClickPublish, Sources
    <2>4. click \in [Clicks -> ClickState] BY DEF TypeOK, ClickState
    <2>5. click' = [click EXCEPT ![k] = [click[k] EXCEPT !.pc = "done"]]
      BY <1>7, <2>4 DEF ClickPublish
    <2>6. click' \in [Clicks -> ClickState] BY <2>4, <2>5, ClickDoneType
    <2> QED BY <1>7, <2>3, <2>6 DEF ClickPublish, NetType, TypeOK, processes, ClickState
  <1>8. ASSUME NEW p \in Procs, Start(p) PROVE TypeOK'
    <2>1. [NoReplay EXCEPT !.pc = "scan"] \in ReplayState BY DEF NoReplay, ReplayState
    <2>2. replay' \in [Procs -> ReplayState] BY <1>8, <2>1 DEF Start, TypeOK, ReplayState
    <2>3. starts' \in [Procs -> Nat] BY <1>8 DEF Start, TypeOK
    <2>4. up' \in [Procs -> BOOLEAN] BY <1>8 DEF Start, TypeOK
    <2> QED BY <1>8, <2>2, <2>3, <2>4 DEF Start, TypeOK, network, ReplayState
  <1>9. ASSUME NEW p \in Procs, Replay(p) PROVE TypeOK'
    BY <1>9, ReplayType
  <1>10. ASSUME NEW p \in Procs, WatcherStep(p) PROVE TypeOK'
    <2> DEFINE e == log[cursor[p] + 1]
    <2>1. log \in Seq(Entry) /\ cursor[p] \in Nat /\ cursor[p] < Len(log)
      BY <1>10 DEF WatcherStep, TypeOK
    <2>2. cursor[p] + 1 \in 1 .. Len(log) BY <2>1
    <2>3. e \in Entry BY <2>1, <2>2
    <2>4. e.request \in Requests /\ e.kind \in Kinds BY <2>3 DEF Entry, Kinds
    <2> HIDE DEF e
    <2>5. NetType'
      <3>1. CASE UNCHANGED <<inbox, network>> BY <3>1 DEF NetType, TypeOK, network
      <3>2. CASE Deliver(p, e.request, e.kind) BY <2>4, <3>2, DeliverType
      <3> QED BY <1>10, <3>1, <3>2 DEF WatcherStep, e
    <2>6. cursor' \in [Procs -> Nat] BY <1>10, <2>1 DEF WatcherStep, TypeOK
    <2> QED BY <1>10, <2>5, <2>6 DEF WatcherStep, NetType, TypeOK
  <1>11. ASSUME NEW p \in Procs, SenderSubscribes(p) PROVE TypeOK'
    BY <1>11 DEF SenderSubscribes, TypeOK, processes
  <1>12. ASSUME NEW p \in Procs, Crash(p) PROVE TypeOK'
    <2>1. req' \in [Requests -> Pcs] BY <1>12 DEF Crash, TypeOK, Pcs
    <2>2. inbox' \in [Requests -> Seq(Message)] BY <1>12 DEF Crash, TypeOK
    <2>3. prompts' \in [Procs -> [Requests -> Nat]] BY <1>12 DEF Crash, TypeOK
    <2>4. click' \in [Clicks -> ClickState]
      <3>1. \A k \in Clicks : click[k] \in ClickState BY DEF TypeOK, ClickState
      <3>2. \A k \in Clicks : [click[k] EXCEPT !.pc = "done"] \in ClickState BY ClickDoneType
      <3> QED BY <1>12, <3>1, <3>2 DEF Crash
    <2>5. replay' \in [Procs -> ReplayState]
      <3>1. NoReplay \in ReplayState BY DEF NoReplay, ReplayState
      <3>2. replay \in [Procs -> ReplayState] BY DEF TypeOK, ReplayState
      <3> QED BY <1>12, <3>1, <3>2 DEF Crash
    <2>6. up' \in [Procs -> BOOLEAN] /\ listening' \subseteq Procs BY <1>12 DEF Crash, TypeOK
    <2> QED BY <1>12, <2>1, <2>2, <2>3, <2>4, <2>5, <2>6 DEF Crash, TypeOK, ReplayState, ClickState
  <1>13. CASE UNCHANGED vars
    BY <1>13 DEF vars, processes, network, TypeOK
  <1> QED BY <1>1, <1>2, <1>3, <1>4, <1>5, <1>6, <1>7, <1>8, <1>9, <1>10, <1>11, <1>12, <1>13
          DEF Next

(* Every variable of the approval protocol keeps its type, and a deadline only *)
(* passes for a request that is old enough.                                    *)
THEOREM TypeCorrect == Spec => []TypeOK
  BY InitType, StepType, PTL DEF Spec

------------------------------------------------------------------------------
(* What needs a human. *)

Grown == log' = log \/ \E e \in Entry : log' = Append(log, e)

(* An event that has been written stays written. *)
LEMMA GrowKeeps ==
  ASSUME TypeOK, Grown
  PROVE  /\ \A r : Requested(r) => Requested(r)'
         /\ \A r : Decided(r) => Decided(r)'
         /\ \A kind, r : Told(kind, r) => Told(kind, r)'
         /\ \A r : r \in Granted => r \in Granted'
  <1>1. \A i \in DOMAIN log : i \in DOMAIN log' /\ log'[i] = log[i]
    <2>1. CASE log' = log BY <2>1
    <2>2. ASSUME NEW e \in Entry, log' = Append(log, e)
          PROVE  \A i \in DOMAIN log : i \in DOMAIN log' /\ log'[i] = log[i]
      <3>1. log \in Seq(Entry) /\ Len(log) \in Nat BY DEF TypeOK
      <3> QED BY <2>2, <3>1, AppendProperties
    <2> QED BY <2>1, <2>2 DEF Grown
  <1> QED BY <1>1 DEF Requested, Decided, Decision, Granted, Told, Of

(* Adding an event that grants only by a human, and only what was requested. *)
LEMMA LogTrue ==
  ASSUME TypeOK, GrantsAnswer, NEW e \in Entry, log' = Append(log, e),
         e.kind = "granted" => e.by = "human" /\ Requested(e.request)
  PROVE  Grown /\ GrantsAnswer' /\ Told(e.kind, e.request)'
  <1>1. log \in Seq(Entry) /\ Len(log) \in Nat /\ DOMAIN log = 1 .. Len(log) BY DEF TypeOK
  <1>2. /\ DOMAIN log' = 1 .. (Len(log) + 1)
        /\ log'[Len(log) + 1] = e
        /\ \A i \in 1 .. Len(log) : log'[i] = log[i]
    BY <1>1, AppendProperties
  <1>3. ASSUME NEW j \in DOMAIN log', log'[j].kind = "granted"
        PROVE  /\ log'[j].by = "human"
               /\ \E i \in DOMAIN log' : /\ i < j
                                         /\ log'[i].kind = "requested"
                                         /\ log'[i].request = log'[j].request
    <2>1. CASE j \in 1 .. Len(log)
      <3>1. log[j].kind = "granted" BY <1>2, <1>3, <2>1
      <3>2. PICK i \in DOMAIN log : /\ i < j
                                    /\ log[i].kind = "requested"
                                    /\ log[i].request = log[j].request
        BY <1>1, <2>1, <3>1 DEF GrantsAnswer
      <3>3. log[j].by = "human" BY <1>1, <2>1, <3>1 DEF GrantsAnswer
      <3> QED BY <1>1, <1>2, <2>1, <3>2, <3>3
    <2>2. CASE j = Len(log) + 1
      <3>1. PICK i \in DOMAIN log : log[i].request = e.request /\ log[i].kind = "requested"
        BY <1>2, <1>3, <2>2 DEF Requested, Of
      <3>2. e.by = "human" BY <1>2, <1>3, <2>2
      <3> QED BY <1>1, <1>2, <2>2, <3>1, <3>2
    <2> QED BY <1>2, <1>1, <2>1, <2>2
  <1>4. GrantsAnswer' BY <1>3 DEF GrantsAnswer
  <1>5. Told(e.kind, e.request)'
    <2>1. Len(log) + 1 \in DOMAIN log' BY <1>1, <1>2
    <2> QED BY <1>2, <2>1 DEF Told, Of
  <1> QED BY <1>4, <1>5 DEF Grown

(* Sending a decision that is in the store. *)
LEMMA SendTrue ==
  ASSUME TypeOK, InboxTrue, Grown, NEW p \in Procs, NEW r \in Requests, NEW kind,
         kind \in Verdicts => Told(kind, r)', Send(p, r, kind)
  PROVE  InboxTrue'
  <1> DEFINE m == [kind |-> kind, request |-> r]
  <1> SUFFICES ASSUME NEW q \in Requests, NEW i \in DOMAIN inbox'[q],
                      NEW k \in Verdicts, NEW x \in Requests,
                      inbox'[q][i].kind = k, inbox'[q][i].request = x
               PROVE  Told(k, x)'
    BY DEF InboxTrue
  <1>1. inbox[q] \in Seq(Message) /\ Len(inbox[q]) \in Nat BY DEF TypeOK
  <1>2. inbox'[q] = inbox[q] \/ inbox'[q] = Append(inbox[q], m) BY DEF Send
  <1>3. CASE i \in DOMAIN inbox[q] /\ inbox'[q][i] = inbox[q][i]
    <2>1. Told(k, x) BY <1>3 DEF InboxTrue
    <2> QED BY <1>3, <2>1, GrowKeeps
  <1>4. CASE inbox'[q][i] = m BY <1>4
  <1> HIDE DEF m
  <1>5. \/ i \in DOMAIN inbox[q] /\ inbox'[q][i] = inbox[q][i]
        \/ inbox'[q][i] = m
    <2>1. CASE inbox'[q] = inbox[q] BY <2>1
    <2>2. CASE inbox'[q] = Append(inbox[q], m)
      <3>1. /\ DOMAIN inbox'[q] = 1 .. (Len(inbox[q]) + 1)
            /\ inbox'[q][Len(inbox[q]) + 1] = m
            /\ \A j \in 1 .. Len(inbox[q]) : inbox'[q][j] = inbox[q][j]
        BY <1>1, <2>2, AppendProperties DEF m
      <3>2. DOMAIN inbox[q] = 1 .. Len(inbox[q]) BY <1>1
      <3> QED BY <1>1, <3>1, <3>2
    <2> QED BY <1>2, <2>1, <2>2
  <1> QED BY <1>3, <1>4, <1>5

(* Inboxes from which messages were only taken stay true. *)
LEMMA TakenTrue ==
  ASSUME TypeOK, InboxTrue, Grown,
         \A q \in Requests : inbox'[q] = inbox[q] \/ inbox'[q] = << >>
                               \/ (inbox[q] # << >> /\ inbox'[q] = Tail(inbox[q]))
  PROVE  InboxTrue'
  <1> SUFFICES ASSUME NEW q \in Requests, NEW i \in DOMAIN inbox'[q],
                      NEW k \in Verdicts, NEW x \in Requests,
                      inbox'[q][i].kind = k, inbox'[q][i].request = x
               PROVE  Told(k, x)'
    BY DEF InboxTrue
  <1>1. inbox[q] \in Seq(Message) /\ Len(inbox[q]) \in Nat BY DEF TypeOK
  <1>2. \E j \in DOMAIN inbox[q] : inbox'[q][i] = inbox[q][j]
    <2>1. CASE inbox'[q] = inbox[q] BY <2>1
    <2>2. CASE inbox'[q] = << >> BY <2>2
    <2>3. CASE inbox[q] # << >> /\ inbox'[q] = Tail(inbox[q])
      <3>1. Len(inbox'[q]) = Len(inbox[q]) - 1 /\ inbox'[q] \in Seq(Message)
            /\ \A j \in 1 .. Len(inbox[q]) - 1 : inbox'[q][j] = inbox[q][j + 1]
        BY <1>1, <2>3, HeadTailProperties
      <3>2. i \in 1 .. Len(inbox[q]) - 1 BY <1>1, <3>1
      <3>3. i + 1 \in DOMAIN inbox[q] BY <1>1, <3>2
      <3> QED BY <3>1, <3>2, <3>3
    <2> QED BY <2>1, <2>2, <2>3
  <1>3. PICK j \in DOMAIN inbox[q] : inbox'[q][i] = inbox[q][j] BY <1>2
  <1>4. Told(k, x) BY <1>3 DEF InboxTrue
  <1> QED BY <1>3, <1>4, GrowKeeps

(* A channel shows only what the store holds. *)
LEMMA ShowTrue ==
  ASSUME TypeOK, AskedFirst, Grown, NEW p \in Procs, NEW r \in Requests, NEW kind,
         kind = "requested" => Requested(r)', Show(p, r, kind)
  PROVE  /\ \A o \in Procs, s \in Requests : prompts'[o][s] > 0 => Requested(s)'
         /\ \A s \in shown' : Requested(s)'
  <1>1. \A o \in Procs, s \in Requests : prompts'[o][s] > 0 => Requested(s)'
    <2> SUFFICES ASSUME NEW o \in Procs, NEW s \in Requests, prompts'[o][s] > 0
                 PROVE  Requested(s)'
      OBVIOUS
    <2>1. CASE kind = "requested" /\ s = r BY <2>1
    <2>2. CASE ~(kind = "requested" /\ s = r)
      <3>1. prompts'[o][s] = prompts[o][s] BY <2>2 DEF Show, TypeOK
      <3> QED BY <3>1, GrowKeeps DEF AskedFirst
    <2> QED BY <2>1, <2>2
  <1>2. \A s \in shown' : Requested(s)' BY GrowKeeps DEF Show, AskedFirst
  <1> QED BY <1>1, <1>2

(* One publish: what it grants a human has granted after it was requested. *)
LEMMA PublishTrue ==
  ASSUME TypeOK, Inv, NEW p \in Procs, NEW r \in Requests, NEW kind \in Kinds, NEW by \in Sources,
         kind = "granted" => by = "human" /\ Requested(r), Publish(p, kind, r, by)
  PROVE  /\ Grown /\ GrantsAnswer' /\ InboxTrue'
         /\ \A o \in Procs, s \in Requests : prompts'[o][s] > 0 => Requested(s)'
         /\ \A s \in shown' : Requested(s)'
  <1> DEFINE e == [kind |-> kind, request |-> r, by |-> by, proc |-> p]
  <1>1. e \in Entry BY DEF Entry, Kinds, Sources
  <1>2. log' = Append(log, e) BY DEF Publish
  <1>3. /\ Grown /\ GrantsAnswer'
        /\ Told(kind, r)'
    BY <1>1, <1>2, LogTrue DEF Inv
  <1>4. InboxTrue' BY <1>3, SendTrue DEF Publish, Deliver, Inv
  <1>5. kind = "requested" => Requested(r)'
    <2>1. log \in Seq(Entry) /\ Len(log) \in Nat BY DEF TypeOK
    <2>2. Len(log) + 1 \in DOMAIN log' /\ log'[Len(log) + 1] = e
      BY <1>1, <1>2, <2>1, AppendProperties
    <2> QED BY <2>2 DEF Requested, Of
  <1> QED BY <1>3, <1>4, <1>5, ShowTrue DEF Publish, Deliver, Inv

LEMMA PublishFailsTrue ==
  ASSUME TypeOK, Inv, PublishFails
  PROVE  /\ Grown /\ GrantsAnswer' /\ InboxTrue'
         /\ \A o \in Procs, s \in Requests : prompts'[o][s] > 0 => Requested(s)'
         /\ \A s \in shown' : Requested(s)'
  <1>1. Grown BY DEF PublishFails, Grown
  <1> QED BY <1>1, GrowKeeps DEF PublishFails, network, Inv, GrantsAnswer, InboxTrue, AskedFirst,
                                 Told, Requested, Of

(* A step that neither writes nor sends. *)
LEMMA QuietTrue ==
  ASSUME TypeOK, Inv, UNCHANGED log,
         \A q \in Requests : inbox'[q] = inbox[q] \/ inbox'[q] = << >>
                               \/ (inbox[q] # << >> /\ inbox'[q] = Tail(inbox[q]))
  PROVE  Grown /\ GrantsAnswer' /\ InboxTrue'
  <1>1. Grown BY DEF Grown
  <1>2. InboxTrue' BY <1>1, TakenTrue DEF Inv
  <1>3. GrantsAnswer' BY DEF Inv, GrantsAnswer
  <1> QED BY <1>1, <1>2, <1>3

NetTrue ==
    /\ \A p \in Procs, r \in Requests : prompts[p][r] > 0 => Requested(r)
    /\ \A r \in shown : Requested(r)
WorkTrue ==
    /\ \A k \in Clicks : click[k].pc = "scanned" => Requested(click[k].request)
    /\ \A p \in Procs : \A r \in replay[p].todo : Requested(r)

LEMMA AskedParts == AskedFirst <=> NetTrue /\ WorkTrue
  BY DEF AskedFirst, NetTrue, WorkTrue
LEMMA AskedPartsNext == AskedFirst' <=> NetTrue' /\ WorkTrue'
  BY DEF AskedFirst, NetTrue, WorkTrue

LEMMA NetKept == ASSUME TypeOK, Inv, Grown, UNCHANGED network PROVE NetTrue'
  BY GrowKeeps, AskedParts DEF network, NetTrue, Inv
LEMMA WorkKept == ASSUME TypeOK, Inv, Grown, UNCHANGED <<click, replay>> PROVE WorkTrue'
  BY GrowKeeps, AskedParts DEF WorkTrue, Inv
LEMMA ApprovedKept ==
  ASSUME TypeOK, Inv, Grown,
         \A r \in Requests : req'[r] = "approved" => req[r] = "approved"
  PROVE  ApprovedHasGrant'
  <1>1. \A r \in Requests : NeedsHuman(r)' = NeedsHuman(r) BY DEF NeedsHuman
  <1> QED BY <1>1, GrowKeeps DEF ApprovedHasGrant, Inv

LEMMA OrchestratorInv ==
  ASSUME TypeOK, Inv, NEW r \in Requests, Orchestrator(r)
  PROVE  Inv'
  <1> USE OwnerType
  <1> DEFINE Net == Grown /\ GrantsAnswer' /\ InboxTrue' /\ NetTrue'
  <1>a. ASSUME Net, UNCHANGED <<click, replay>>,
               \A q \in Requests : req'[q] = "approved" => req[q] = "approved"
        PROVE  Inv'
    BY <1>a, WorkKept, ApprovedKept, AskedPartsNext DEF Inv
  <1>b. ASSUME UNCHANGED <<log, inbox, network>> PROVE Net
    BY <1>b, QuietTrue, NetKept
  <1>c. ASSUME NEW kind \in Kinds, kind # "granted", NEW by \in Sources,
               Publish(Owner[r], kind, r, by) \/ PublishFails
        PROVE  Net
    <2>1. CASE Publish(Owner[r], kind, r, by) BY <1>c, <2>1, PublishTrue DEF NetTrue
    <2>2. CASE PublishFails BY <2>2, PublishFailsTrue DEF NetTrue
    <2> QED BY <1>c, <2>1, <2>2
  <1> HIDE DEF Net
  <1>1. CASE Evaluate(r)
    <2>1. Net BY <1>1, <1>b DEF Evaluate
    <2>2. WorkTrue' BY <1>1, <2>1, WorkKept DEF Evaluate, processes, Net
    <2>3. ApprovedHasGrant'
      <3> SUFFICES ASSUME NEW q \in Requests, req'[q] = "approved", NeedsHuman(q)
                   PROVE  q \in Granted'
        BY DEF ApprovedHasGrant, NeedsHuman
      <3>1. q # r \/ req'[r] # "approved"
        <4>1. ASSUME q = r PROVE req'[r] # "approved"
          BY <1>1, <4>1, ApprovalAssumption DEF Evaluate, TypeOK, NeedsHuman
        <4> QED BY <4>1
      <3>2. req[q] = "approved" BY <1>1, <3>1 DEF Evaluate, TypeOK
      <3>3. q \in Granted BY <3>2 DEF Inv, ApprovedHasGrant
      <3> QED BY <2>1, <3>3, GrowKeeps DEF Net
    <2> QED BY <2>1, <2>2, <2>3, AskedPartsNext DEF Inv, Net
  <1>2. CASE RecordUnroutable(r)
    <2>1. Net BY <1>2, <1>c DEF RecordUnroutable, Kinds, Sources
    <2> QED BY <1>2, <2>1, <1>a DEF RecordUnroutable, processes, TypeOK
  <1>3. CASE DenyUnroutable(r)
    <2>1. Net BY <1>3, <1>c DEF DenyUnroutable, Kinds, Sources
    <2> QED BY <1>3, <2>1, <1>a DEF DenyUnroutable, processes, TypeOK
  <1>4. CASE Ask(r)
    <2>1. Net BY <1>4, <1>c DEF Ask, Kinds, Sources
    <2> QED BY <1>4, <2>1, <1>a DEF Ask, processes, TypeOK
  <1>5. CASE Await(r)
    <2>1. Net BY <1>5, <1>b DEF Await
    <2> QED BY <1>5, <2>1, <1>a DEF Await, processes, TypeOK
  <1>6. CASE Receive(r)
    <2> DEFINE m == Head(inbox[r])
    <2>1. \A q \in Requests : inbox'[q] = inbox[q] \/ inbox'[q] = << >>
                                \/ (inbox[q] # << >> /\ inbox'[q] = Tail(inbox[q]))
      BY <1>6 DEF Receive, End, TypeOK
    <2>2. Net BY <1>6, <2>1, QuietTrue, NetKept DEF Receive, Net
    <2>3. WorkTrue' BY <1>6, <2>2, WorkKept DEF Receive, processes, Net
    <2>4. ApprovedHasGrant'
      <3>1. CASE m.request = r /\ Decision(m) /\ m.kind = "granted"
        <4>1. inbox[r] \in Seq(Message) /\ inbox[r] # << >> BY <1>6 DEF Receive, TypeOK
        <4>2. 1 \in DOMAIN inbox[r] /\ m = inbox[r][1] BY <4>1
        <4>3. r \in Granted BY <3>1, <4>2 DEF Inv, InboxTrue, Granted, Verdicts
        <4>4. r \in Granted' BY <2>2, <4>3, GrowKeeps DEF Net
        <4>5. \A q \in Requests : q # r => req'[q] = req[q]
          BY <1>6, <3>1 DEF Receive, End, TypeOK
        <4> QED BY <2>2, <4>4, <4>5, GrowKeeps DEF Net, Inv, ApprovedHasGrant, NeedsHuman
      <3>2. CASE ~(m.request = r /\ Decision(m) /\ m.kind = "granted")
        <4>1. \A q \in Requests : req'[q] = "approved" => req[q] = "approved"
          BY <1>6, <3>2 DEF Receive, End, TypeOK
        <4> QED BY <2>2, <4>1, ApprovedKept DEF Net
      <3> QED BY <3>1, <3>2
    <2> QED BY <2>2, <2>3, <2>4, AskedPartsNext DEF Inv, Net
  <1>7. CASE Timeout(r)
    <2>1. \A q \in Requests : inbox'[q] = inbox[q] \/ inbox'[q] = << >>
                                \/ (inbox[q] # << >> /\ inbox'[q] = Tail(inbox[q]))
      BY <1>7 DEF Timeout, End, TypeOK
    <2>2. Net BY <1>7, <2>1, QuietTrue, NetKept DEF Timeout, Net
    <2> QED BY <1>7, <2>2, <1>a DEF Timeout, End, processes, TypeOK
  <1>8. CASE SealTimeout(r)
    <2>1. Net BY <1>8, <1>c DEF SealTimeout, Kinds, Sources
    <2> QED BY <1>8, <2>1, <1>a DEF SealTimeout, processes, TypeOK
  <1> QED BY <1>1, <1>2, <1>3, <1>4, <1>5, <1>6, <1>7, <1>8 DEF Orchestrator

LEMMA ReplayInv ==
  ASSUME TypeOK, Inv, NEW p \in Procs, Replay(p)
  PROVE  Inv'
  <1> DEFINE Todo(q) == \A s \in replay'[q].todo : Requested(s)'
  <1>a. ASSUME Grown, UNCHANGED click, \A q \in Procs : Todo(q) PROVE WorkTrue'
    BY <1>a, GrowKeeps, AskedParts DEF WorkTrue, Inv
  <1>b. ASSUME Grown, UNCHANGED req PROVE ApprovedHasGrant'
    BY <1>b, ApprovedKept
  <1>1. CASE ReplayScan(p)
    <2>1. Grown /\ GrantsAnswer' /\ InboxTrue' BY <1>1, QuietTrue DEF ReplayScan
    <2>2. NetTrue' BY <1>1, <2>1, NetKept DEF ReplayScan
    <2>3. ASSUME NEW q \in Procs PROVE Todo(q)
      <3>1. \A s \in replay'[q].todo : Requested(s)
        BY <1>1, AskedParts DEF ReplayScan, ScanFails, TypeOK, WorkTrue, Inv
      <3> QED BY <2>1, <3>1, GrowKeeps
    <2>4. WorkTrue' BY <1>1, <2>1, <2>3, <1>a DEF ReplayScan
    <2>5. ApprovedHasGrant' BY <1>1, <2>1, <1>b DEF ReplayScan
    <2> QED BY <2>1, <2>2, <2>4, <2>5, AskedPartsNext DEF Inv
  <1>2. CASE ReplayEnd(p)
    <2>1. Grown /\ GrantsAnswer' /\ InboxTrue' BY <1>2, QuietTrue DEF ReplayEnd
    <2>2. NetTrue' BY <1>2, <2>1, NetKept DEF ReplayEnd
    <2>3. ASSUME NEW q \in Procs PROVE Todo(q)
      <3>1. \A s \in replay'[q].todo : Requested(s)
        BY <1>2, AskedParts DEF ReplayEnd, NoReplay, TypeOK, WorkTrue, Inv
      <3> QED BY <2>1, <3>1, GrowKeeps
    <2>4. WorkTrue' BY <1>2, <2>1, <2>3, <1>a DEF ReplayEnd
    <2>5. ApprovedHasGrant' BY <1>2, <2>1, <1>b DEF ReplayEnd
    <2> QED BY <2>1, <2>2, <2>4, <2>5, AskedPartsNext DEF Inv
  <1>c. ASSUME NEW r, replay' = [replay EXCEPT ![p].todo = @ \ {r}], Grown
        PROVE  \A q \in Procs : Todo(q)
    <2> SUFFICES ASSUME NEW q \in Procs PROVE Todo(q) OBVIOUS
    <2>1. replay'[q].todo \subseteq replay[q].todo BY <1>c DEF TypeOK
    <2>2. \A s \in replay[q].todo : Requested(s) BY AskedParts DEF WorkTrue, Inv
    <2> QED BY <1>c, <2>1, <2>2, GrowKeeps
  <1>3. ASSUME NEW r \in Requests, ReplaySeal(p, r) PROVE Inv'
    <2>1. Grown /\ GrantsAnswer' /\ InboxTrue' /\ NetTrue'
      <3>1. CASE Publish(p, "denied", r, "restart")
        BY <3>1, PublishTrue DEF NetTrue, Kinds, Sources
      <3>2. CASE PublishFails BY <3>2, PublishFailsTrue DEF NetTrue
      <3> QED BY <1>3, <3>1, <3>2 DEF ReplaySeal
    <2>2. WorkTrue' BY <1>3, <2>1, <1>a, <1>c DEF ReplaySeal
    <2>3. ApprovedHasGrant' BY <1>3, <2>1, <1>b DEF ReplaySeal
    <2> QED BY <2>1, <2>2, <2>3, AskedPartsNext DEF Inv
  <1>4. ASSUME NEW r \in Requests, ReplayRedeliver(p, r) PROVE Inv'
    <2>1. Grown /\ GrantsAnswer' BY <1>4 DEF ReplayRedeliver, Grown, Inv, GrantsAnswer
    <2>2. Requested(r)'
      <3>1. Requested(r) BY <1>4, AskedParts DEF ReplayRedeliver, WorkTrue, Inv
      <3> QED BY <2>1, <3>1, GrowKeeps
    <2>3. InboxTrue' BY <1>4, <2>1, SendTrue DEF ReplayRedeliver, Deliver, Inv, Verdicts
    <2>4. NetTrue' BY <1>4, <2>1, <2>2, ShowTrue DEF ReplayRedeliver, Deliver, Inv, NetTrue
    <2>5. WorkTrue' BY <1>4, <2>1, <1>a, <1>c DEF ReplayRedeliver
    <2>6. ApprovedHasGrant' BY <1>4, <2>1, <1>b DEF ReplayRedeliver
    <2> QED BY <2>1, <2>3, <2>4, <2>5, <2>6, AskedPartsNext DEF Inv
  <1> QED BY <1>1, <1>2, <1>3, <1>4 DEF Replay

LEMMA InitInv == Init => Inv
  <1> SUFFICES ASSUME Init PROVE Inv OBVIOUS
  <1>1. GrantsAnswer /\ InboxTrue /\ ApprovedHasGrant
    BY DEF Init, GrantsAnswer, InboxTrue, ApprovedHasGrant
  <1>2. AskedFirst BY DEF Init, AskedFirst, Idle, NoReplay
  <1> QED BY <1>1, <1>2 DEF Inv

LEMMA StepInv == TypeOK /\ Inv /\ [Next]_vars => Inv'
  <1> SUFFICES ASSUME TypeOK, Inv, [Next]_vars PROVE Inv' OBVIOUS
  <1> USE OwnerType
  <1>a. ASSUME UNCHANGED <<log, inbox, network, click, replay, req>> PROVE Inv'
    <2>1. Grown /\ GrantsAnswer' /\ InboxTrue' BY <1>a, QuietTrue
    <2> QED BY <1>a, <2>1, NetKept, WorkKept, ApprovedKept, AskedPartsNext DEF Inv
  <1>1. ASSUME NEW r \in Requests, Orchestrator(r) PROVE Inv'
    BY <1>1, OrchestratorInv
  <1>2. ASSUME NEW r \in Requests, Age(r) PROVE Inv'
    BY <1>2, <1>a DEF Age, processes
  <1>3. ASSUME NEW r \in Requests, Expire(r) PROVE Inv'
    BY <1>3, <1>a DEF Expire, processes
  <1>4. ASSUME NEW r \in Requests, Noise(r) PROVE Inv'
    <2>1. Grown /\ GrantsAnswer' BY <1>4 DEF Noise, Grown, Inv, GrantsAnswer
    <2>2. InboxTrue' BY <1>4, <2>1, SendTrue DEF Noise, Inv, Verdicts
    <2>3. NetTrue' BY <1>4, <2>1, GrowKeeps, AskedParts DEF Noise, NetTrue, Inv
    <2> QED BY <1>4, <2>1, <2>2, <2>3, WorkKept, ApprovedKept, AskedPartsNext
            DEF Noise, processes, Inv
  <1>5. ASSUME NEW p \in Procs, NEW r \in Requests, AnswerPrompt(p, r) PROVE Inv'
    <2>1. Requested(r) BY <1>5, AskedParts DEF AnswerPrompt, NetTrue, Inv
    <2>2. Grown /\ GrantsAnswer' /\ InboxTrue'
      <3>1. ASSUME NEW kind \in {"granted", "denied"},
                   log' = Append(log, [kind |-> kind, request |-> r, by |-> "human", proc |-> p]),
                   Send(p, r, kind)
            PROVE  Grown /\ GrantsAnswer' /\ InboxTrue'
        <4> DEFINE e == [kind |-> kind, request |-> r, by |-> "human", proc |-> p]
        <4>1. e \in Entry BY DEF Entry
        <4>2. Grown /\ GrantsAnswer' /\ Told(kind, r)'
          BY <2>1, <3>1, <4>1, LogTrue DEF Inv
        <4> QED BY <3>1, <4>2, SendTrue DEF Inv
      <3>2. CASE UNCHANGED <<log, inbox>> BY <3>2, QuietTrue
      <3> QED BY <1>5, <3>1, <3>2 DEF AnswerPrompt
    <2>3. NetTrue'
      <3>1. \A o \in Procs, q \in Requests : prompts'[o][q] > 0 => prompts[o][q] > 0
        BY <1>5 DEF AnswerPrompt, TypeOK
      <3>2. NetTrue BY AskedParts DEF Inv
      <3> QED BY <1>5, <2>2, <3>1, <3>2, GrowKeeps DEF AnswerPrompt, NetTrue
    <2> QED BY <1>5, <2>2, <2>3, WorkKept, ApprovedKept, AskedPartsNext
            DEF AnswerPrompt, processes, Inv
  <1>6. ASSUME NEW k \in Clicks, NEW p \in Procs, NEW r \in Requests, ClickScan(k, p, r)
        PROVE  Inv'
    <2>1. Grown /\ GrantsAnswer' /\ InboxTrue' BY <1>6, QuietTrue DEF ClickScan
    <2>2. Requested(r)
      BY <1>6, AskedParts DEF ClickScan, Offered, NetTrue, Inv
    <2>3. WorkTrue'
      <3>0. PICK granted \in BOOLEAN :
              click' = [click EXCEPT ![k] = [pc |-> IF Decided(r) THEN "done" ELSE "scanned",
                                             request |-> r, granted |-> granted, proc |-> p]]
        BY <1>6 DEF ClickScan
      <3>a. click \in [Clicks -> ClickState] BY DEF TypeOK, ClickState
      <3>b. /\ click'[k].request = r
            /\ \A c \in Clicks : c # k => click'[c] = click[c]
        BY <3>0, <3>a
      <3>c. \A c \in Clicks : click[c].pc = "scanned" => Requested(click[c].request)
        BY AskedParts DEF WorkTrue, Inv
      <3>1. \A c \in Clicks : click'[c].pc = "scanned" => Requested(click'[c].request)
        BY <2>2, <3>b, <3>c
      <3>2. \A q \in Procs : \A x \in replay[q].todo : Requested(x)
        BY AskedParts DEF WorkTrue, Inv
      <3>3. replay' = replay BY <1>6 DEF ClickScan, processes
      <3> QED BY <2>1, <3>1, <3>2, <3>3, GrowKeeps DEF WorkTrue
    <2> QED BY <1>6, <2>1, <2>3, NetKept, ApprovedKept, AskedPartsNext DEF ClickScan, Inv
  <1>7. ASSUME NEW k \in Clicks, ClickPublish(k) PROVE Inv'
    <2> DEFINE kind == IF click[k].granted THEN "granted" ELSE "denied"
    <2>1. click[k].proc \in Procs /\ click[k].request \in Requests BY DEF TypeOK
    <2>2. Requested(click[k].request) BY <1>7, AskedParts DEF ClickPublish, WorkTrue, Inv
    <2>3. kind \in Kinds BY DEF Kinds
    <2>4. Publish(click[k].proc, kind, click[k].request, "human") \/ PublishFails
      BY <1>7 DEF ClickPublish
    <2> HIDE DEF kind
    <2>5. Grown /\ GrantsAnswer' /\ InboxTrue' /\ NetTrue'
      <3>1. CASE Publish(click[k].proc, kind, click[k].request, "human")
        BY <2>1, <2>2, <2>3, <3>1, PublishTrue DEF NetTrue, Sources
      <3>2. CASE PublishFails BY <3>2, PublishFailsTrue DEF NetTrue
      <3> QED BY <2>4, <3>1, <3>2
    <2>6. WorkTrue'
      <3>1. \A c \in Clicks : click'[c].pc = "scanned" => Requested(click'[c].request)
        BY <1>7, AskedParts DEF ClickPublish, WorkTrue, Inv, TypeOK
      <3>2. \A q \in Procs : \A x \in replay[q].todo : Requested(x)
        BY AskedParts DEF WorkTrue, Inv
      <3>3. replay' = replay BY <1>7 DEF ClickPublish, processes
      <3> QED BY <2>5, <3>1, <3>2, <3>3, GrowKeeps DEF WorkTrue
    <2> QED BY <1>7, <2>5, <2>6, ApprovedKept, AskedPartsNext DEF ClickPublish, Inv
  <1>8. ASSUME NEW p \in Procs, Start(p) PROVE Inv'
    <2>1. Grown /\ GrantsAnswer' /\ InboxTrue' BY <1>8, QuietTrue DEF Start
    <2>2. WorkTrue'
      <3>1. \A q \in Procs : \A x \in replay'[q].todo : Requested(x)
        BY <1>8, AskedParts DEF Start, NoReplay, WorkTrue, Inv, TypeOK
      <3>2. \A c \in Clicks : click[c].pc = "scanned" => Requested(click[c].request)
        BY AskedParts DEF WorkTrue, Inv
      <3>3. click' = click BY <1>8 DEF Start
      <3> QED BY <2>1, <3>1, <3>2, <3>3, GrowKeeps DEF WorkTrue
    <2> QED BY <1>8, <2>1, <2>2, NetKept, ApprovedKept, AskedPartsNext DEF Start, Inv
  <1>9. ASSUME NEW p \in Procs, Replay(p) PROVE Inv'
    BY <1>9, ReplayInv
  <1>10. ASSUME NEW p \in Procs, WatcherStep(p) PROVE Inv'
    <2>1. log \in Seq(Entry) /\ cursor[p] \in Nat /\ cursor[p] < Len(log)
      BY <1>10 DEF WatcherStep, TypeOK
    <2>2. PICK e \in Entry : e = log[cursor[p] + 1] BY <2>1
    <2>9. cursor[p] + 1 \in DOMAIN log BY <2>1
    <2>3. Told(e.kind, e.request) BY <2>2, <2>9 DEF Told, Of
    <2>4. e.kind = "requested" => Requested(e.request) BY <2>2, <2>9 DEF Requested, Of
    <2>5. e.request \in Requests BY <2>2 DEF Entry
    <2>6. UNCHANGED <<inbox, network>> \/ Deliver(p, e.request, e.kind)
      BY <1>10, <2>2 DEF WatcherStep
    <2>7. Grown /\ GrantsAnswer' BY <1>10 DEF WatcherStep, Grown, Inv, GrantsAnswer
    <2>8. InboxTrue' /\ NetTrue'
      <3>1. CASE UNCHANGED <<inbox, network>>
        BY <1>10, <2>7, <3>1, QuietTrue, NetKept DEF WatcherStep
      <3>2. CASE Deliver(p, e.request, e.kind)
        <4>1. Told(e.kind, e.request)' BY <2>3, <2>7, GrowKeeps
        <4>2. e.kind = "requested" => Requested(e.request)' BY <2>4, <2>7, GrowKeeps
        <4>3. InboxTrue' BY <2>5, <2>7, <3>2, <4>1, SendTrue DEF Deliver, Inv
        <4>4. NetTrue' BY <2>5, <2>7, <3>2, <4>2, ShowTrue DEF Deliver, Inv, NetTrue
        <4> QED BY <4>3, <4>4
      <3> QED BY <2>6, <3>1, <3>2
    <2> QED BY <1>10, <2>7, <2>8, WorkKept, ApprovedKept, AskedPartsNext DEF WatcherStep, Inv
  <1>11. ASSUME NEW p \in Procs, SenderSubscribes(p) PROVE Inv'
    <2>1. Grown /\ GrantsAnswer' /\ InboxTrue' BY <1>11, QuietTrue DEF SenderSubscribes
    <2>2. NetTrue' BY <1>11, <2>1, GrowKeeps, AskedParts DEF SenderSubscribes, NetTrue, Inv
    <2> QED BY <1>11, <2>1, <2>2, WorkKept, ApprovedKept, AskedPartsNext
            DEF SenderSubscribes, processes, Inv
  <1>12. ASSUME NEW p \in Procs, Crash(p) PROVE Inv'
    <2>1. \A q \in Requests : inbox'[q] = inbox[q] \/ inbox'[q] = << >> BY <1>12 DEF Crash
    <2>2. Grown /\ GrantsAnswer' /\ InboxTrue' BY <1>12, <2>1, QuietTrue DEF Crash
    <2>3. NetTrue'
      <3>1. \A o \in Procs, q \in Requests : prompts'[o][q] > 0 => prompts[o][q] > 0
        BY <1>12 DEF Crash, TypeOK
      <3>2. NetTrue BY AskedParts DEF Inv
      <3> QED BY <1>12, <2>2, <3>1, <3>2, GrowKeeps DEF Crash, NetTrue
    <2>4. WorkTrue'
      <3>1. \A c \in Clicks : click'[c].pc = "scanned" => click'[c] = click[c]
        BY <1>12 DEF Crash, TypeOK
      <3>2. \A q \in Procs : \A x \in replay'[q].todo : x \in replay[q].todo
        BY <1>12 DEF Crash, NoReplay, TypeOK
      <3>3. WorkTrue BY AskedParts DEF Inv
      <3> QED BY <2>2, <3>1, <3>2, <3>3, GrowKeeps DEF WorkTrue
    <2>5. \A q \in Requests : req'[q] = "approved" => req[q] = "approved" BY <1>12 DEF Crash
    <2> QED BY <2>2, <2>3, <2>4, <2>5, ApprovedKept, AskedPartsNext DEF Inv
  <1>13. CASE UNCHANGED vars
    BY <1>13, <1>a DEF vars, processes, network
  <1> QED BY <1>1, <1>2, <1>3, <1>4, <1>5, <1>6, <1>7, <1>8, <1>9, <1>10, <1>11, <1>12, <1>13
          DEF Next

LEMMA InvApproved == TypeOK /\ Inv => ApprovedByHuman
  <1> SUFFICES ASSUME TypeOK, Inv, NEW r \in Requests, req[r] = "approved", NeedsHuman(r)
               PROVE  GrantedByHuman(r)
    BY DEF ApprovedByHuman
  <1>1. PICK j \in DOMAIN log : log[j].kind = "granted" /\ log[j].request = r
    BY DEF Inv, ApprovedHasGrant, Granted, Told, Of
  <1>2. /\ log[j].by = "human"
        /\ \E i \in DOMAIN log : i < j /\ log[i].kind = "requested" /\ log[i].request = r
    BY <1>1 DEF Inv, GrantsAnswer
  <1> QED BY <1>1, <1>2 DEF GrantedByHuman, Of

(* The invariant behind approvals: what is in the store, in the channels, in the *)
(* prompts and in the replays agrees on who granted what.                        *)
THEOREM Invariant == Spec => [](TypeOK /\ Inv)
  BY InitType, InitInv, StepType, StepInv, PTL DEF Spec

(* An intention that needs a human is approved only if the store holds a human's *)
(* grant of that very request, after the request.                                *)
THEOREM NothingRunsUnapproved == Spec => []ApprovedByHuman
  BY Invariant, InvApproved, PTL

------------------------------------------------------------------------------
(* The audit trail. *)

Publishes(p, r, kind, by) == log' = Append(log, [kind |-> kind, request |-> r, by |-> by, proc |-> p])

LEMMA PublishesGrows ==
  ASSUME TypeOK, NEW p \in Procs, NEW r \in Requests, NEW kind \in Kinds, NEW by \in Sources,
         Publishes(p, r, kind, by)
  PROVE  /\ Grown
         /\ Told(kind, r)'
  <1> DEFINE e == [kind |-> kind, request |-> r, by |-> by, proc |-> p]
  <1>1. e \in Entry BY DEF Entry, Kinds, Sources
  <1>2. log \in Seq(Entry) /\ Len(log) \in Nat BY DEF TypeOK
  <1>3. log' = Append(log, e) BY DEF Publishes
  <1>4. Len(log) + 1 \in DOMAIN log' /\ log'[Len(log) + 1] = e BY <1>1, <1>2, <1>3, AppendProperties
  <1> QED BY <1>1, <1>3, <1>4 DEF Grown, Told, Of

(* What any step does to the store. *)
LEMMA NextGrows == TypeOK /\ [Next]_vars => Grown
  <1> SUFFICES ASSUME TypeOK, [Next]_vars PROVE Grown OBVIOUS
  <1> USE OwnerType
  <1>a. ASSUME NEW p \in Procs, NEW r \in Requests, NEW kind \in Kinds, NEW by \in Sources,
               Publish(p, kind, r, by) \/ PublishFails
        PROVE  Grown
    <2>1. CASE Publish(p, kind, r, by) BY <2>1, PublishesGrows DEF Publish, Publishes
    <2>2. CASE PublishFails BY <2>2 DEF PublishFails, Grown
    <2> QED BY <1>a, <2>1, <2>2
  <1>b. ASSUME log' = log PROVE Grown BY <1>b DEF Grown
  <1>1. ASSUME NEW r \in Requests, Orchestrator(r) PROVE Grown
    <2>1. CASE log' = log BY <2>1, <1>b
    <2>2. CASE RecordUnroutable(r) BY <1>a, <2>2 DEF RecordUnroutable, Kinds, Sources
    <2>3. CASE DenyUnroutable(r) BY <1>a, <2>3 DEF DenyUnroutable, Kinds, Sources
    <2>4. CASE Ask(r) BY <1>a, <2>4 DEF Ask, Kinds, Sources
    <2>5. CASE SealTimeout(r) BY <1>a, <2>5 DEF SealTimeout, Kinds, Sources
    <2>6. Evaluate(r) \/ Await(r) \/ Receive(r) \/ Timeout(r) => log' = log
      BY DEF Evaluate, Await, Receive, Timeout
    <2> QED BY <1>1, <2>1, <2>2, <2>3, <2>4, <2>5, <2>6 DEF Orchestrator
  <1>2. ASSUME NEW r \in Requests, Age(r) \/ Expire(r) \/ Noise(r) PROVE Grown
    BY <1>2, <1>b DEF Age, Expire, Noise
  <1>3. ASSUME NEW p \in Procs, NEW r \in Requests, AnswerPrompt(p, r) PROVE Grown
    <2>1. ASSUME NEW kind \in {"granted", "denied"}, Publishes(p, r, kind, "human") PROVE Grown
      BY <2>1, PublishesGrows DEF Kinds, Sources
    <2> QED BY <1>3, <1>b, <2>1 DEF AnswerPrompt, Publishes
  <1>4. ASSUME NEW k \in Clicks, NEW p \in Procs, NEW r \in Requests, ClickScan(k, p, r) PROVE Grown
    BY <1>4, <1>b DEF ClickScan
  <1>5. ASSUME NEW k \in Clicks, ClickPublish(k) PROVE Grown
    <2>1. click[k].proc \in Procs /\ click[k].request \in Requests BY DEF TypeOK
    <2> DEFINE kind == IF click[k].granted THEN "granted" ELSE "denied"
    <2>2. kind \in Kinds /\ "human" \in Sources BY DEF Kinds, Sources
    <2>3. Publish(click[k].proc, kind, click[k].request, "human") \/ PublishFails
      BY <1>5 DEF ClickPublish
    <2> HIDE DEF kind
    <2> QED BY <1>a, <2>1, <2>2, <2>3
  <1>6. ASSUME NEW p \in Procs, Replay(p) PROVE Grown
    <2>1. CASE log' = log BY <2>1, <1>b
    <2>2. ASSUME NEW r \in Requests, ReplaySeal(p, r) PROVE Grown
      BY <1>a, <2>2 DEF ReplaySeal, Kinds, Sources
    <2>3. ReplayScan(p) \/ ReplayEnd(p) \/ (\E r \in Requests : ReplayRedeliver(p, r)) => log' = log
      BY DEF ReplayScan, ReplayEnd, ReplayRedeliver
    <2> QED BY <1>6, <2>1, <2>2, <2>3 DEF Replay
  <1>7. ASSUME NEW p \in Procs, Start(p) \/ WatcherStep(p) \/ SenderSubscribes(p) \/ Crash(p) PROVE Grown
    BY <1>7, <1>b DEF Start, WatcherStep, SenderSubscribes, Crash
  <1>8. CASE UNCHANGED vars BY <1>8, <1>b DEF vars
  <1> QED BY <1>1, <1>2, <1>3, <1>4, <1>5, <1>6, <1>7, <1>8 DEF Next

(* Where a refusal comes from. *)
Refusals == {"rejected", "no_handler"}
LEMMA RefusedBy ==
  ASSUME TypeOK, [Next]_vars, NEW r \in Requests, req'[r] \in Refusals, req[r] \notin Refusals
  PROVE  Receive(r) \/ DenyUnroutable(r) \/ SealTimeout(r)
  <1>1. ASSUME NEW q \in Requests, Orchestrator(q) PROVE Receive(r) \/ DenyUnroutable(r) \/ SealTimeout(r)
    <2>1. q = r BY <1>1 DEF Orchestrator, Evaluate, RecordUnroutable, DenyUnroutable, Ask, Await, Receive,
                            Timeout, SealTimeout, End, TypeOK
    <2>2. ~Evaluate(r) /\ ~RecordUnroutable(r) /\ ~Ask(r) /\ ~Await(r) /\ ~Timeout(r)
      BY DEF Evaluate, RecordUnroutable, Ask, Await, Timeout, End, TypeOK, Refusals
    <2> QED BY <1>1, <2>1, <2>2 DEF Orchestrator
  <1>2. req' # req OBVIOUS
  <1>3. ASSUME NEW p \in Procs, Crash(p) PROVE FALSE BY <1>3 DEF Crash, Refusals, Over
  <1> QED BY <1>1, <1>2, <1>3 DEF Next, Age, Expire, Noise, AnswerPrompt, ClickScan, ClickPublish, Start,
                                  Replay, ReplayScan, ReplayEnd, ReplaySeal, ReplayRedeliver, WatcherStep,
                                  SenderSubscribes, vars

LEMMA StepAudit ==
  ASSUME ~StoreErrors, TypeOK, Inv, AuditCloses, [Next]_vars
  PROVE  AuditCloses'
  <1> USE OwnerType
  <1>1. Grown /\ Inv' BY NextGrows, StepInv
  <1>2. ASSUME NEW r \in Requests, Told("granted", r)' \/ Told("denied", r)' PROVE Decided(r)'
    BY <1>2 DEF Told, Decided, Decision
  <1>3. ASSUME NEW r \in Requests, req'[r] = "approved", NeedsHuman(r) PROVE Decided(r)'
    <2>1. r \in Granted' BY <1>1, <1>3 DEF Inv, ApprovedHasGrant, NeedsHuman
    <2> QED BY <1>2, <2>1 DEF Granted
  <1>4. ASSUME NEW r \in Requests, req'[r] \in Refusals PROVE Decided(r)'
    <2>1. CASE req[r] \in Refusals
      <3>1. Decided(r) BY <2>1 DEF AuditCloses, Refusals
      <3> QED BY <1>1, <3>1, GrowKeeps
    <2>2. CASE Receive(r)
      <3>1. inbox[r] \in Seq(Message) /\ inbox[r] # << >> BY <2>2 DEF Receive, TypeOK
      <3>2. 1 \in DOMAIN inbox[r] /\ Head(inbox[r]) = inbox[r][1] BY <3>1
      <3>3. CASE Head(inbox[r]).request = r /\ Decision(Head(inbox[r]))
        <4>1. PICK kind \in Verdicts : inbox[r][1].kind = kind BY <3>2, <3>3 DEF Decision, Verdicts
        <4>2. Told(kind, r) BY <3>2, <3>3, <4>1 DEF Inv, InboxTrue
        <4> QED BY <1>1, <1>2, <4>2, GrowKeeps DEF Verdicts
      <3>4. CASE ~(Head(inbox[r]).request = r /\ Decision(Head(inbox[r])))
        <4>1. req[r] \in Refusals BY <1>4, <2>2, <3>4 DEF Receive
        <4> QED BY <2>1, <4>1
      <3> QED BY <3>3, <3>4
    <2>3. CASE DenyUnroutable(r)
      <3>1. Publishes(Owner[r], r, "denied", "no_channel")
        BY <2>3 DEF DenyUnroutable, PublishFails, Publish, Publishes
      <3>2. Told("denied", r)' BY <3>1, PublishesGrows DEF Kinds, Sources
      <3> QED BY <1>2, <3>2
    <2>4. CASE SealTimeout(r)
      <3>1. Publishes(Owner[r], r, "denied", "timeout")
        BY <2>4 DEF SealTimeout, PublishFails, Publish, Publishes
      <3>2. Told("denied", r)' BY <3>1, PublishesGrows DEF Kinds, Sources
      <3> QED BY <1>2, <3>2
    <2> QED BY <1>4, <2>1, <2>2, <2>3, <2>4, RefusedBy
  <1> QED BY <1>3, <1>4 DEF AuditCloses, Refusals, NeedsHuman

(* Where appends do not fail, every wait that ended, by an answer, a refusal or *)
(* the deadline, has left its decision in the store.                            *)
THEOREM EveryWaitIsAudited ==
  ASSUME ~StoreErrors
  PROVE  Spec => []AuditCloses
  <1>1. Init => AuditCloses BY DEF Init, AuditCloses
  <1>2. TypeOK /\ Inv /\ AuditCloses /\ [Next]_vars => AuditCloses' BY StepAudit
  <1> QED BY <1>1, <1>2, Invariant, PTL DEF Spec

------------------------------------------------------------------------------
(* Decisions are heard. *)

(* A request that is not published yet is not in the store at all. *)
Unmentioned == \A r \in Requests : req[r] \in {"new", "subscribed"} => Of(r) = {}

(* From the moment the request is published. *)
Heard == \A r \in Requests : req[r] \in {"asked", "waiting"} => (DecidedHere(r) => Answered(r) \/ r \in missed)

HeardInv == Unmentioned /\ Heard

LEMMA InboxKeeps ==
  ASSUME TypeOK, NEW p \in Procs, NEW x \in Requests, NEW kind \in Kinds \cup {"other"}, Send(p, x, kind)
  PROVE  /\ \A q \in Requests : \A i \in DOMAIN inbox[q] : i \in DOMAIN inbox'[q] /\ inbox'[q][i] = inbox[q][i]
         /\ \A q \in Requests : Answered(q) => Answered(q)'
         /\ missed \subseteq missed'
         /\ Owner[x] = p /\ Subscribed(x) /\ kind \in Verdicts => (Answered(x) \/ x \in missed)'
  <1> DEFINE m == [kind |-> kind, request |-> x]
  <1>0. m \in Message BY DEF m, Message, Kinds
  <1>1. ASSUME NEW q \in Requests, NEW i \in DOMAIN inbox[q]
        PROVE  i \in DOMAIN inbox'[q] /\ inbox'[q][i] = inbox[q][i]
    <2>1. inbox[q] \in Seq(Message) /\ DOMAIN inbox[q] = 1 .. Len(inbox[q]) /\ Len(inbox[q]) \in Nat
      BY DEF TypeOK
    <2>2. inbox'[q] = inbox[q] \/ inbox'[q] = Append(inbox[q], m) BY DEF Send
    <2> HIDE DEF m
    <2>3. CASE inbox'[q] = Append(inbox[q], m) BY <1>0, <2>1, <2>3, AppendProperties
    <2> QED BY <2>2, <2>3
  <1>2. \A q \in Requests : Answered(q) => Answered(q)' BY <1>1 DEF Answered, Decision
  <1>4. missed \subseteq missed' BY DEF Send
  <1>5. ASSUME ~Room(x), Owner[x] = p, Subscribed(x), kind \in Verdicts PROVE x \in missed'
    BY <1>5 DEF Send, Listens, Verdicts
  <1>3. ASSUME Room(x), Owner[x] = p, Subscribed(x), kind \in Verdicts PROVE Answered(x)'
    <2>1. inbox[x] \in Seq(Message) /\ Len(inbox[x]) \in Nat BY DEF TypeOK
    <2>2. inbox'[x] = Append(inbox[x], m) BY <1>3 DEF Send, Listens
    <2>3. m.request = x /\ m.kind \in Verdicts BY <1>3
    <2> HIDE DEF m
    <2>4. Len(inbox[x]) + 1 \in DOMAIN inbox'[x] /\ inbox'[x][Len(inbox[x]) + 1] = m
      BY <1>0, <2>1, <2>2, AppendProperties
    <2> QED BY <2>3, <2>4 DEF Answered, Decision, Verdicts
  <1> QED BY <1>1, <1>2, <1>3, <1>4, <1>5

(* An event is written and sent in one process. *)
LEMMA HeardAppend ==
  ASSUME TypeOK, HeardInv, NEW p \in Procs, NEW x \in Requests, NEW kind \in Kinds, NEW by \in Sources,
         Publishes(p, x, kind, by), Send(p, x, kind),
         \/ req' = req /\ req[x] \notin {"new", "subscribed"}
         \/ /\ \A r \in Requests \ {x} : req'[r] = req[r]
            /\ req'[x] \notin {"new", "subscribed", "asked", "waiting"}
         \/ /\ \A r \in Requests \ {x} : req'[r] = req[r]
            /\ req[x] = "subscribed" /\ req'[x] = "asked" /\ kind = "requested"
  PROVE  HeardInv'
  <1> DEFINE e == [kind |-> kind, request |-> x, by |-> by, proc |-> p]
  <1>1. e \in Entry BY DEF Entry, Kinds, Sources
  <1>2. log \in Seq(Entry) /\ Len(log) \in Nat /\ DOMAIN log = 1 .. Len(log) BY DEF TypeOK
  <1>3. log' = Append(log, e) BY DEF Publishes
  <1>e. e.kind = kind /\ e.request = x /\ e.proc = p OBVIOUS
  <1> HIDE DEF e
  <1>4. /\ DOMAIN log' = 1 .. Len(log) + 1 /\ log'[Len(log) + 1] = e
        /\ \A i \in 1 .. Len(log) : log'[i] = log[i]
    BY <1>1, <1>2, <1>3, AppendProperties
  <1>5. \A r \in Requests : r # x => Of(r)' = Of(r) /\ (DecidedHere(r)' => DecidedHere(r))
    <2> SUFFICES ASSUME NEW r \in Requests, r # x PROVE Of(r)' = Of(r) /\ (DecidedHere(r)' => DecidedHere(r))
      OBVIOUS
    <2>1. Of(r)' = Of(r) BY <1>2, <1>4, <1>e DEF Of
    <2>2. \A i \in Of(r) : log'[i] = log[i] BY <1>2, <1>4 DEF Of
    <2> QED BY <2>1, <2>2 DEF DecidedHere, Decision
  <1>6. DecidedHere(x)' => DecidedHere(x) \/ (kind \in Verdicts /\ Owner[x] = p)
    <2> SUFFICES ASSUME NEW i \in Of(x)', Decision(log'[i]), log'[i].proc = Owner[x]
                 PROVE  DecidedHere(x) \/ (kind \in Verdicts /\ Owner[x] = p)
      BY DEF DecidedHere, Decision
    <2>1. CASE i \in 1 .. Len(log) BY <1>2, <1>4, <2>1 DEF DecidedHere, Of, Decision
    <2>2. CASE i = Len(log) + 1 BY <1>4, <1>e, <2>2 DEF Decision, Verdicts
    <2>3. i \in 1 .. Len(log) + 1 BY <1>4 DEF Of
    <2> QED BY <1>2, <2>1, <2>2, <2>3
  <1>7. Unmentioned' BY <1>5 DEF HeardInv, Unmentioned
  <1>8. ASSUME NEW r \in Requests, req'[r] \in {"asked", "waiting"}, DecidedHere(r)' PROVE (Answered(r) \/ r \in missed)'
    <2>1. CASE r # x
      <3>1. req[r] \in {"asked", "waiting"} BY <1>8, <2>1
      <3>2. Answered(r) \/ r \in missed BY <1>5, <1>8, <2>1, <3>1 DEF HeardInv, Heard
      <3> QED BY <3>2, InboxKeeps
    <2>2. CASE r = x /\ req' = req /\ req[x] \notin {"new", "subscribed"}
      <3>1. CASE DecidedHere(x)
        <4>1. Answered(x) \/ x \in missed BY <1>8, <2>2, <3>1 DEF HeardInv, Heard
        <4> QED BY <2>2, <4>1, InboxKeeps
      <3>2. CASE kind \in Verdicts /\ Owner[x] = p
        <4>1. Subscribed(x) BY <1>8, <2>2 DEF Subscribed
        <4> QED BY <2>2, <3>2, <4>1, InboxKeeps
      <3> QED BY <1>6, <1>8, <2>2, <3>1, <3>2
    <2>3. CASE r = x /\ req[x] = "subscribed" /\ kind = "requested"
      <3>1. ~DecidedHere(x) BY <2>3 DEF HeardInv, Unmentioned, DecidedHere
      <3> QED BY <1>6, <1>8, <2>3, <3>1 DEF Verdicts
    <2> QED BY <1>8, <2>1, <2>2, <2>3
  <1> QED BY <1>7, <1>8 DEF HeardInv, Heard

(* Nothing is written. *)
LEMMA HeardQuiet ==
  ASSUME TypeOK, HeardInv, log' = log,
         \A r \in Requests : req'[r] \in {"new", "subscribed"} => req[r] \in {"new", "subscribed"},
         \A r \in Requests : req'[r] \in {"asked", "waiting"} =>
            req[r] \in {"asked", "waiting"} /\ (Answered(r) => Answered(r)'),
         missed \subseteq missed'
  PROVE  HeardInv'
  <1>1. \A r \in Requests : Of(r)' = Of(r) /\ DecidedHere(r)' = DecidedHere(r) BY DEF Of, DecidedHere, Decision
  <1> QED BY <1>1 DEF HeardInv, Unmentioned, Heard

(* An event about a request that is in the store, from whoever answers it. *)
LEMMA HeardAnswer ==
  ASSUME TypeOK, HeardInv, NEW p \in Procs, NEW x \in Requests, NEW kind \in Kinds, NEW by \in Sources,
         Requested(x), Publish(p, kind, x, by) \/ PublishFails, UNCHANGED req
  PROVE  HeardInv'
  <1>1. req[x] \notin {"new", "subscribed"} BY DEF HeardInv, Unmentioned, Requested
  <1>2. CASE Publish(p, kind, x, by) BY <1>1, <1>2, HeardAppend DEF Publish, Publishes, Deliver
  <1>3. CASE PublishFails BY <1>3, HeardQuiet DEF PublishFails, network, Answered, Decision
  <1> QED BY <1>2, <1>3

(* The last word of a requester. *)
LEMMA HeardLast ==
  ASSUME TypeOK, HeardInv, NEW x \in Requests, NEW kind \in Kinds, NEW by \in Sources,
         Publish(Owner[x], kind, x, by) \/ PublishFails,
         NEW to \in Pcs \ {"new", "subscribed", "asked", "waiting"}, req' = [req EXCEPT ![x] = to]
  PROVE  HeardInv'
  <1>1. (\A r \in Requests \ {x} : req'[r] = req[r]) /\ req'[x] = to BY DEF TypeOK
  <1>2. CASE Publish(Owner[x], kind, x, by)
    BY <1>1, <1>2, HeardAppend, OwnerType DEF Publish, Publishes, Deliver
  <1>3. CASE PublishFails
    <2>1. log' = log /\ inbox' = inbox /\ missed' = missed BY <1>3 DEF PublishFails, network
    <2> QED BY <1>1, <2>1, HeardQuiet DEF Answered, Decision
  <1> QED BY <1>2, <1>3

(* The inboxes only grow, and nothing is written. *)
LEMMA HeardSend ==
  ASSUME TypeOK, HeardInv, NEW p \in Procs, NEW x \in Requests, NEW kind \in Kinds \cup {"other"},
         Send(p, x, kind), UNCHANGED <<log, req>>
  PROVE  HeardInv'
  BY InboxKeeps, HeardQuiet

(* A requester takes what is not its answer from its inbox, or stops waiting. *)
LEMMA HeardReceive ==
  ASSUME TypeOK, HeardInv, NEW r \in Requests, Receive(r)
  PROVE  HeardInv'
  <1> DEFINE m == Head(inbox[r])
  <1>1. log' = log /\ missed' = missed /\ inbox[r] # << >> /\ inbox[r] \in Seq(Message)
    BY DEF Receive, TypeOK, network
  <1>2. CASE m.request = r /\ Decision(m)
    <2>1. /\ \A q \in Requests \ {r} : req'[q] = req[q] /\ inbox'[q] = inbox[q]
          /\ req'[r] \in {"approved", "rejected"}
      BY <1>2 DEF Receive, End, TypeOK
    <2>2. \A q \in Requests \ {r} : Answered(q) => Answered(q)' BY <2>1 DEF Answered, Decision
    <2> QED BY <1>1, <2>1, <2>2, HeardQuiet
  <1>3. CASE ~(m.request = r /\ Decision(m))
    <2>1. req' = req /\ inbox' = [inbox EXCEPT ![r] = Tail(@)] BY <1>3 DEF Receive
    <2>2. \A q \in Requests \ {r} : inbox'[q] = inbox[q] BY <2>1 DEF TypeOK
    <2>3. inbox'[r] = Tail(inbox[r]) BY <2>1 DEF TypeOK
    <2>4. /\ DOMAIN inbox[r] = 1 .. Len(inbox[r]) /\ Len(inbox[r]) \in Nat
          /\ DOMAIN Tail(inbox[r]) = 1 .. Len(inbox[r]) - 1 /\ m = inbox[r][1]
          /\ \A i \in 1 .. Len(inbox[r]) - 1 : Tail(inbox[r])[i] = inbox[r][i + 1]
      BY <1>1
    <2>5. ASSUME Answered(r) PROVE Answered(r)'
      <3>1. PICK i \in DOMAIN inbox[r] : inbox[r][i].request = r /\ Decision(inbox[r][i])
        BY <2>5 DEF Answered
      <3>2. i # 1 BY <1>3, <2>4, <3>1
      <3>3. i - 1 \in DOMAIN inbox'[r] /\ inbox'[r][i - 1] = inbox[r][i] BY <2>3, <2>4, <3>2
      <3> QED BY <3>1, <3>3 DEF Answered, Decision
    <2>6. \A q \in Requests \ {r} : Answered(q) => Answered(q)' BY <2>2 DEF Answered, Decision
    <2> QED BY <1>1, <2>1, <2>5, <2>6, HeardQuiet
  <1> QED BY <1>2, <1>3

LEMMA StepHeard ==
  ASSUME TypeOK, Inv, HeardInv, [Next]_vars
  PROVE  HeardInv'
  <1> USE OwnerType
  <1>1. ASSUME NEW r \in Requests, Orchestrator(r) PROVE HeardInv'
    <2>1. CASE Evaluate(r) \/ Await(r)
      <3>1. log' = log /\ inbox' = inbox /\ missed' = missed BY <2>1 DEF Evaluate, Await, network
      <3>2. \A q \in Requests \ {r} : req'[q] = req[q] BY <2>1 DEF Evaluate, Await, TypeOK
      <3>3. \/ req[r] = "new" /\ req'[r] \notin {"asked", "waiting"}
            \/ req[r] = "asked" /\ req'[r] = "waiting"
        BY <2>1 DEF Evaluate, Await, TypeOK
      <3>4. \A q \in Requests : Answered(q)' = Answered(q) BY <3>1 DEF Answered, Decision
      <3> QED BY <3>1, <3>2, <3>3, <3>4, HeardQuiet
    <2>2. CASE RecordUnroutable(r)
      BY <2>2, HeardLast DEF RecordUnroutable, Kinds, Sources, Pcs
    <2>3. CASE DenyUnroutable(r)
      BY <2>3, HeardLast DEF DenyUnroutable, Kinds, Sources, Pcs
    <2>4. CASE Ask(r) /\ req' = [req EXCEPT ![r] = "asked"]
      <3>1. req[r] = "subscribed" /\ req'[r] = "asked" /\ \A q \in Requests \ {r} : req'[q] = req[q]
        BY <2>4 DEF Ask, TypeOK
      <3>2. Publish(Owner[r], "requested", r, "requester") BY <2>4, <3>1 DEF Ask, TypeOK
      <3> QED BY <3>1, <3>2, HeardAppend DEF Publish, Publishes, Deliver, Kinds, Sources
    <2>5. CASE Ask(r) /\ PublishFails /\ req' = [req EXCEPT ![r] = "refused"]
      BY <2>5, HeardLast DEF Kinds, Sources, Pcs
    <2>6. CASE Receive(r) BY <2>6, HeardReceive
    <2>7. CASE Timeout(r)
      <3>1. /\ log' = log /\ missed' = missed /\ req'[r] = "timing_out"
            /\ \A q \in Requests \ {r} : req'[q] = req[q] /\ inbox'[q] = inbox[q]
        BY <2>7 DEF Timeout, End, TypeOK, network
      <3>2. \A q \in Requests \ {r} : Answered(q) => Answered(q)' BY <3>1 DEF Answered, Decision
      <3> QED BY <3>1, <3>2, HeardQuiet
    <2>8. CASE SealTimeout(r)
      BY <2>8, HeardLast DEF SealTimeout, Kinds, Sources, Pcs
    <2> QED BY <1>1, <2>1, <2>2, <2>3, <2>4, <2>5, <2>6, <2>7, <2>8 DEF Orchestrator, Ask
  <1>2. ASSUME log' = log, inbox' = inbox, req' = req, missed' = missed PROVE HeardInv'
    <2>1. \A q \in Requests : Answered(q)' = Answered(q) BY <1>2 DEF Answered, Decision
    <2> QED BY <1>2, <2>1, HeardQuiet
  <1>3. ASSUME NEW r \in Requests, Noise(r) PROVE HeardInv'
    BY <1>3, HeardSend DEF Noise
  <1>4. ASSUME NEW p \in Procs, NEW r \in Requests, AnswerPrompt(p, r) PROVE HeardInv'
    <2>1. Requested(r) BY <1>4 DEF AnswerPrompt, Inv, AskedFirst
    <2>2. req[r] \notin {"new", "subscribed"} /\ req' = req
      BY <1>4, <2>1 DEF AnswerPrompt, HeardInv, Unmentioned, Requested
    <2>3. ASSUME NEW kind \in {"granted", "denied"}, Publishes(p, r, kind, "human"), Send(p, r, kind)
          PROVE  HeardInv'
      BY <2>2, <2>3, HeardAppend DEF Kinds, Sources
    <2>4. CASE UNCHANGED <<log, inbox, missed>> BY <1>2, <2>2, <2>4
    <2> QED BY <1>4, <2>3, <2>4 DEF AnswerPrompt, Publishes
  <1>5. ASSUME NEW k \in Clicks, ClickPublish(k) PROVE HeardInv'
    <2> DEFINE kind == IF click[k].granted THEN "granted" ELSE "denied"
    <2>1. click[k].proc \in Procs /\ click[k].request \in Requests BY DEF TypeOK
    <2>2. kind \in Kinds /\ "human" \in Sources BY DEF Kinds, Sources
    <2>3. Requested(click[k].request) /\ req' = req BY <1>5 DEF ClickPublish, Inv, AskedFirst
    <2>4. Publish(click[k].proc, kind, click[k].request, "human") \/ PublishFails
      BY <1>5 DEF ClickPublish
    <2> HIDE DEF kind
    <2> QED BY <2>1, <2>2, <2>3, <2>4, HeardAnswer
  <1>6. ASSUME NEW p \in Procs, Replay(p) PROVE HeardInv'
    <2>1. CASE ReplayScan(p) \/ ReplayEnd(p) BY <1>2, <2>1 DEF ReplayScan, ReplayEnd, network
    <2>2. ASSUME NEW r \in Requests, ReplaySeal(p, r) PROVE HeardInv'
      <3>1. Requested(r) /\ req' = req BY <2>2 DEF ReplaySeal, Inv, AskedFirst
      <3>2. Publish(p, "denied", r, "restart") \/ PublishFails BY <2>2 DEF ReplaySeal
      <3> QED BY <3>1, <3>2, HeardAnswer DEF Kinds, Sources
    <2>3. ASSUME NEW r \in Requests, ReplayRedeliver(p, r) PROVE HeardInv'
      BY <2>3, HeardSend DEF ReplayRedeliver, Deliver, Kinds
    <2> QED BY <1>6, <2>1, <2>2, <2>3 DEF Replay
  <1>7. ASSUME NEW p \in Procs, WatcherStep(p) PROVE HeardInv'
    <2> DEFINE e == log[cursor[p] + 1]
    <2>1. log \in Seq(Entry) /\ cursor[p] \in Nat /\ cursor[p] < Len(log)
      BY <1>7 DEF WatcherStep, TypeOK
    <2>2. e \in Entry BY <2>1
    <2>3. e.request \in Requests /\ e.kind \in Kinds BY <2>2 DEF Entry, Kinds
    <2>4. UNCHANGED <<log, req>> BY <1>7 DEF WatcherStep
    <2>5. (inbox' = inbox /\ missed' = missed) \/ Send(p, e.request, e.kind)
      BY <1>7 DEF WatcherStep, Deliver, network
    <2> HIDE DEF e
    <2> QED BY <1>2, <2>3, <2>4, <2>5, HeardSend
  <1>8. ASSUME NEW p \in Procs, Crash(p) PROVE HeardInv'
    <2>1. log' = log /\ missed' = missed BY <1>8 DEF Crash
    <2>2. ASSUME NEW r \in Requests
          PROVE  \/ req'[r] = "lost"
                 \/ req'[r] = req[r] /\ (Owner[r] = p => req[r] = "new" \/ Over(r))
                    /\ (Owner[r] # p => inbox'[r] = inbox[r])
      BY <1>8, <2>2 DEF Crash
    <2>3. ASSUME NEW r \in Requests, req'[r] \in {"asked", "waiting"}
          PROVE  req[r] \in {"asked", "waiting"} /\ (Answered(r) => Answered(r)')
      <3>1. req'[r] = req[r] /\ Owner[r] # p BY <2>2, <2>3 DEF Over
      <3>2. inbox'[r] = inbox[r] BY <2>2, <2>3, <3>1
      <3> QED BY <2>3, <3>1, <3>2 DEF Answered, Decision
    <2> QED BY <2>1, <2>2, <2>3, HeardQuiet
  <1>9. ASSUME NEW r \in Requests, Age(r) \/ Expire(r) PROVE HeardInv'
    BY <1>2, <1>9 DEF Age, Expire, network
  <1>10. ASSUME NEW k \in Clicks, NEW p \in Procs, NEW r \in Requests, ClickScan(k, p, r) PROVE HeardInv'
    BY <1>2, <1>10 DEF ClickScan, network
  <1>11. ASSUME NEW p \in Procs, Start(p) \/ SenderSubscribes(p) PROVE HeardInv'
    BY <1>2, <1>11 DEF Start, SenderSubscribes, network
  <1>12. CASE UNCHANGED vars BY <1>2, <1>12 DEF vars
  <1> QED BY <1>1, <1>3, <1>4, <1>5, <1>6, <1>7, <1>8, <1>9, <1>10, <1>11, <1>12 DEF Next

(* A requester that waits finds every decision its own process published in its   *)
(* channel, unless the channel was full when it was sent: it listens before it    *)
(* asks, and takes out nothing but what is not its answer.  Of any size, then, a  *)
(* full channel is the only way a decision is lost.                               *)
THEOREM DecisionsAreHeard == Spec => []DecisionHeard
  <1>1. Init => HeardInv BY DEF Init, HeardInv, Unmentioned, Heard, Of
  <1>2. TypeOK /\ Inv /\ HeardInv /\ [Next]_vars => HeardInv' BY StepHeard
  <1>3. HeardInv => DecisionHeard BY DEF HeardInv, Heard, DecisionHeard
  <1> QED BY <1>1, <1>2, <1>3, Invariant, PTL DEF Spec
=============================================================================
