------------------------------ MODULE McpClient ------------------------------
(***************************************************************************)
(* One MCP server as its clients see it: the registry entry that holds the *)
(* connection and restarts it after a failed call (mcp/registry.rs), the   *)
(* connection with its child process (mcp/connection.rs), and the          *)
(* newline-delimited JSON-RPC transport with its reader task and its table *)
(* of pending requests (plugin/transport.rs).                              *)
(*                                                                         *)
(* Connections are numbered in the order they are spawned.  A request is   *)
(* known by who sent it and for which of its calls; a frame carries the    *)
(* request id and the request it answers, so that an answer that reaches   *)
(* somebody else can be told apart.                                        *)
(***************************************************************************)
EXTENDS Naturals, FiniteSets

CONSTANTS
    Callers,      \* tasks that call tools of this server
    MaxRestarts,  \* RestartPolicy.max_restarts
    MaxCalls      \* bound on the calls of the registry

VARIABLES
    restartable, \* Entry.restart.is_some()
    slot,        \* Entry.conn: the connection in the registry
    writer,      \* the callers that hold the write lock of the slot
    attempts,    \* Entry.attempts
    child,       \* connection -> its process
    reader,      \* connection -> its reader task runs
    pending,     \* connection -> the requests [id, from] that wait for a frame
    next_id,     \* connection -> the id of its next request
    asked,       \* connection -> requests the process has read and not answered
    answers,     \* connection -> frames on the process's stdout
    call,        \* caller -> its registry call
    calls        \* calls made so far (numbers them, and a bound)

vars == <<restartable, slot, writer, attempts, child, reader, pending, next_id,
          asked, answers, call, calls>>
wire == <<pending, next_id, asked, answers>>

Conns == 1..(MaxRestarts + 1)
NoConn == 0
Ids == 1..(2 * MaxCalls)
Running == {"up", "hung"}
(* A call of call_tool ends with one of these.  The last three are those   *)
(* of is_restart_triggering.                                               *)
Triggers == {"closed", "io", "timeout"}
Results == {"ok", "rpc", "malformed"} \cup Triggers
(* What try_restart itself may fail with. *)
RestartErrors == {"not_restartable", "exhausted", "spawn", "handshake"}
Idle == [pc |-> "idle", n |-> 0, conn |-> NoConn, id |-> 0, tries |-> 0,
         result |-> "none", answers |-> 0]

Init ==
    /\ restartable \in BOOLEAN
    /\ slot = 1
    /\ writer = {}
    /\ attempts = 0
    /\ child = [c \in Conns |-> IF c = 1 THEN "up" ELSE "none"]
    /\ reader = [c \in Conns |-> c = 1]
    /\ pending = [c \in Conns |-> {}]
    /\ next_id = [c \in Conns |-> 1]
    /\ asked = [c \in Conns |-> {}]
    /\ answers = [c \in Conns |-> {}]
    /\ call = [w \in Callers |-> Idle]
    /\ calls = 0

Waits(w) == [id |-> call[w].id, from |-> call[w].n]
(* The answer of the registry: the end of the call. *)
Return(w, r, of) == [Idle EXCEPT !.n = call[w].n, !.result = r, !.answers = of]

(* call_tool failed.  The first failure that looks like a dead process asks *)
(* for a restart; the failure of the retry is the answer.                   *)
Failed(w, r) ==
    IF r \in Triggers /\ call[w].tries = 1
    THEN IF restartable
         THEN [call[w] EXCEPT !.pc = "restart", !.result = r]
         ELSE Return(w, "not_restartable", 0)
    ELSE Return(w, r, 0)
-----------------------------------------------------------------------------
(* McpRegistry::call: the connection is read under the read lock. *)
Call(w) ==
    /\ call[w].pc = "idle"
    /\ calls < MaxCalls
    /\ writer = {}
    /\ calls' = calls + 1
    /\ call' = [call EXCEPT ![w] = [Idle EXCEPT !.pc = "send", !.n = calls + 1,
                                                !.conn = slot, !.tries = 1]]
    /\ UNCHANGED <<restartable, slot, writer, attempts, child, reader, wire>>

(* Transport::request up to the flush: the pending entry is made first and *)
(* removed again when the write fails.                                     *)
Send(w) ==
    LET c == call[w].conn IN
    /\ call[w].pc = "send"
    /\ next_id' = [next_id EXCEPT ![c] = @ + 1]
    /\ \/ /\ child[c] \in Running
          /\ pending' = [pending EXCEPT ![c] = @ \cup {[id |-> next_id[c], from |-> call[w].n]}]
          /\ asked' = [asked EXCEPT ![c] = @ \cup {[id |-> next_id[c], from |-> call[w].n]}]
          /\ call' = [call EXCEPT ![w].pc = "wait", ![w].id = next_id[c]]
       \/ /\ child[c] = "dead"
          /\ call' = [call EXCEPT ![w] = Failed(w, "io")]
          /\ UNCHANGED <<pending, asked>>
    /\ UNCHANGED <<restartable, slot, writer, attempts, child, reader, answers, calls>>

(* A request that timed out gives its id back. *)
Timeout_reuses(w) ==
    LET c == call[w].conn IN
    /\ call[w].pc = "wait"
    /\ pending' = [pending EXCEPT ![c] = {p \in @ : p.id # call[w].id}]
    /\ next_id' = [next_id EXCEPT ![c] = call[w].id]
    /\ call' = [call EXCEPT ![w] = Failed(w, "timeout")]
    /\ UNCHANGED <<restartable, slot, writer, attempts, child, reader, asked, answers, calls>>

(* The time-out of the request: a late answer will find no entry. *)
Timeout(w) ==
    LET c == call[w].conn IN
    /\ call[w].pc = "wait"
    /\ pending' = [pending EXCEPT ![c] = {p \in @ : p.id # call[w].id}]
    /\ call' = [call EXCEPT ![w] = Failed(w, "timeout")]
    /\ UNCHANGED <<restartable, slot, writer, attempts, child, reader, next_id, asked,
                   answers, calls>>

(* run_reader takes a frame: the pending entry of its id, if there still   *)
(* is one, gets it.  A JSON-RPC error and a result that is no tool result  *)
(* are answers too.                                                        *)
ReadFrame(c) ==
    /\ reader[c]
    /\ \E a \in answers[c] :
          /\ answers' = [answers EXCEPT ![c] = @ \ {a}]
          /\ pending' = [pending EXCEPT ![c] = {p \in @ : p.id # a.id}]
          /\ \/ /\ \A p \in pending[c] : p.id # a.id
                /\ UNCHANGED call
             \/ \E w \in Callers, r \in {"ok", "rpc", "malformed"} :
                   /\ call[w].pc = "wait"
                   /\ call[w].conn = c
                   /\ Waits(w) \in pending[c]
                   /\ call[w].id = a.id
                   /\ call' = [call EXCEPT ![w] = Return(w, r, a.from)]
    /\ UNCHANGED <<restartable, slot, writer, attempts, child, reader, next_id, asked, calls>>

(* The end of the child's stdout: every pending request fails, and the     *)
(* reader is gone.                                                         *)
ReaderEof(c) ==
    /\ reader[c]
    /\ child[c] = "dead"
    /\ answers[c] = {}
    /\ reader' = [reader EXCEPT ![c] = FALSE]
    /\ pending' = [pending EXCEPT ![c] = {}]
    /\ call' = [w \in Callers |->
                   IF call[w].pc = "wait" /\ call[w].conn = c /\ Waits(w) \in pending[c]
                   THEN Failed(w, "closed") ELSE call[w]]
    /\ UNCHANGED <<restartable, slot, writer, attempts, child, next_id, asked, answers, calls>>
-----------------------------------------------------------------------------
(* try_restart under the write lock.  The connection it compares with the  *)
(* slot was read from the slot under the same lock, so the branch that     *)
(* would reuse somebody else's fresh connection is never taken.            *)
Acquire(w) ==
    /\ call[w].pc = "restart"
    /\ writer = {}
    /\ \/ /\ attempts >= MaxRestarts
          /\ call' = [call EXCEPT ![w] = Return(w, "exhausted", 0)]
          /\ UNCHANGED <<writer, attempts>>
       \/ /\ attempts < MaxRestarts
          /\ attempts' = attempts + 1
          /\ writer' = {w}
          /\ call' = [call EXCEPT ![w].pc = "teardown"]
    /\ UNCHANGED <<restartable, slot, child, reader, wire, calls>>

(* The old process is left to die by itself. *)
Teardown_leaves(w) ==
    /\ call[w].pc = "teardown"
    /\ call' = [call EXCEPT ![w].pc = "spawn"]
    /\ UNCHANGED <<restartable, slot, writer, attempts, child, reader, wire, calls>>

(* shutdown of the connection in the slot: it has a short grace, then it   *)
(* is killed.                                                              *)
Teardown(w) ==
    /\ call[w].pc = "teardown"
    /\ child' = [child EXCEPT ![slot] = "dead"]
    /\ call' = [call EXCEPT ![w].pc = "spawn"]
    /\ UNCHANGED <<restartable, slot, writer, attempts, reader, wire, calls>>

(* connect, after the backoff: the process is spawned, or cannot be. *)
Fresh == CHOOSE c \in Conns : child[c] = "none" /\ \A d \in 1..(c - 1) : child[d] # "none"

Spawn(w) ==
    /\ call[w].pc = "spawn"
    /\ child' = [child EXCEPT ![Fresh] = "up"]
    /\ reader' = [reader EXCEPT ![Fresh] = TRUE]
    /\ call' = [call EXCEPT ![w].pc = "handshake", ![w].conn = Fresh]
    /\ UNCHANGED <<restartable, slot, writer, attempts, wire, calls>>

SpawnFails(w) ==
    /\ call[w].pc = "spawn"
    /\ writer' = {}
    /\ call' = [call EXCEPT ![w] = Return(w, "spawn", 0)]
    /\ UNCHANGED <<restartable, slot, attempts, child, reader, wire, calls>>

(* initialize is answered in time: the connection is swapped in and the    *)
(* call is tried once more on it.                                          *)
HandshakeOk(w) ==
    /\ call[w].pc = "handshake"
    /\ child[call[w].conn] = "up"
    /\ slot' = call[w].conn
    /\ writer' = {}
    /\ call' = [call EXCEPT ![w].pc = "send", ![w].tries = 2]
    /\ UNCHANGED <<restartable, attempts, child, reader, wire, calls>>

(* It is not: the connection is dropped, which kills the process and       *)
(* aborts the reader.  The slot keeps the dead connection.                 *)
HandshakeFails(w) ==
    /\ call[w].pc = "handshake"
    /\ child' = [child EXCEPT ![call[w].conn] = "dead"]
    /\ reader' = [reader EXCEPT ![call[w].conn] = FALSE]
    /\ writer' = {}
    /\ call' = [call EXCEPT ![w] = Return(w, "handshake", 0)]
    /\ UNCHANGED <<restartable, slot, attempts, wire, calls>>
-----------------------------------------------------------------------------
(* shutdown_all, at the end of the runtime. *)
ShutdownAll ==
    /\ writer = {}
    /\ child[slot] \in Running
    /\ child' = [child EXCEPT ![slot] = "dead"]
    /\ UNCHANGED <<restartable, slot, writer, attempts, reader, wire, call, calls>>

(* The process: it answers in any order, stops answering, or dies. *)
Answer(c) ==
    /\ child[c] = "up"
    /\ \E a \in asked[c] :
          /\ asked' = [asked EXCEPT ![c] = @ \ {a}]
          /\ answers' = [answers EXCEPT ![c] = @ \cup {a}]
    /\ UNCHANGED <<restartable, slot, writer, attempts, child, reader, pending, next_id,
                   call, calls>>

Hang(c) ==
    /\ child[c] = "up"
    /\ child' = [child EXCEPT ![c] = "hung"]
    /\ UNCHANGED <<restartable, slot, writer, attempts, reader, wire, call, calls>>

ChildDies(c) ==
    /\ child[c] \in Running
    /\ child' = [child EXCEPT ![c] = "dead"]
    /\ UNCHANGED <<restartable, slot, writer, attempts, reader, wire, call, calls>>

Restart(w) ==
    \/ Acquire(w) \/ Teardown(w) \/ Spawn(w) \/ SpawnFails(w)
    \/ HandshakeOk(w) \/ HandshakeFails(w)

Step(w) == Send(w) \/ Timeout(w) \/ Restart(w)

Next ==
    \/ \E w \in Callers : Call(w) \/ Step(w)
    \/ \E c \in Conns : ReadFrame(c) \/ ReaderEof(c) \/ Answer(c) \/ Hang(c) \/ ChildDies(c)
    \/ ShutdownAll

(* A call that has begun is driven on: its task is polled, its timers      *)
(* fire, and the write lock is handed to those that wait for it.  Nothing  *)
(* is promised about the server, nor about new calls.                      *)
Fairness == \A w \in Callers : WF_vars(Step(w))

Spec == Init /\ [][Next]_vars
FairSpec == Spec /\ Fairness
-----------------------------------------------------------------------------
Requests == [id : Ids, from : 1..MaxCalls]

TypeOK ==
    /\ restartable \in BOOLEAN
    /\ slot \in Conns
    /\ writer \in SUBSET Callers
    /\ attempts \in 0..MaxRestarts
    /\ child \in [Conns -> {"none", "up", "hung", "dead"}]
    /\ reader \in [Conns -> BOOLEAN]
    /\ pending \in [Conns -> SUBSET Requests]
    /\ next_id \in [Conns -> 1..(2 * MaxCalls + 1)]
    /\ asked \in [Conns -> SUBSET Requests]
    /\ answers \in [Conns -> SUBSET Requests]
    /\ call \in [Callers ->
          [pc : {"idle", "send", "wait", "restart", "teardown", "spawn", "handshake"},
           n : 0..MaxCalls, conn : Conns \cup {NoConn}, id : Ids \cup {0}, tries : 0..2,
           result : {"none"} \cup Results \cup RestartErrors, answers : 0..MaxCalls]]
    /\ calls \in 0..MaxCalls

(* However calls, crashes, failed restarts and late restarts interleave,   *)
(* at most one process of the server runs, so two of them never work on    *)
(* the same files, and a failed restart leaves none behind.                *)
OneChild == Cardinality({c \in Conns : child[c] \in Running}) <= 1

(* An answer reaches the call it answers: neither a late frame of a        *)
(* request that timed out nor one of another caller ends a call.           *)
OwnAnswer ==
    \A w \in Callers : call[w].pc = "idle" /\ call[w].answers # 0 => call[w].answers = call[w].n

(* Every call ends, whatever the server and the other callers do. *)
CallsEnd ==
    \A w \in Callers : call[w].pc # "idle" ~> call[w].pc = "idle"

(* "A later caller who arrives after the swap sees `Arc::ptr_eq` false and *)
(* reuses the new conn": a caller only tears down the connection on which  *)
(* its own call failed.                                                    *)
RestartsTheFailed ==
    \A w \in Callers : call[w].pc = "teardown" => call[w].conn = slot
=============================================================================
