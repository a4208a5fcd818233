------------------------------ MODULE ShellPool ------------------------------
(***************************************************************************)
(* The pool of persistent shells of runtime/shell_session.rs, as the shell *)
(* tools of runtime/action_executor.rs use it: one long-lived process per  *)
(* stream, taken out of the pool while a command runs in it and put back   *)
(* afterwards; the oldest one goes when a new one is spawned into a full   *)
(* pool; a reaper closes the idle ones; the end of a run closes its own.   *)
(*                                                                         *)
(* The pool is the sequence of its entries, least recently used first:     *)
(* last_used is set at the moment an entry is put back.  The lifecycle     *)
(* events only tell of these steps and are left out, and so is what a      *)
(* command prints.                                                         *)
(***************************************************************************)
EXTENDS Naturals, Sequences, FiniteSets, SequencesExt

CONSTANTS
    Workers,      \* tasks that run one tool call at a time
    Streams,      \* stream ids: runs of pipelines
    MaxSessions,  \* ShellConfig.max_sessions
    MaxShells,    \* bound on the shells spawned
    MaxCalls      \* bound on the tool calls

VARIABLES
    sessions,  \* the map of the pool: entries [stream, shell], oldest use first
    process,   \* shell -> "none" before it is spawned, "alive", "dead"
    home,      \* shell -> the stream it was spawned for
    call,      \* worker -> its run_command: [pc, stream, shell]
    calls      \* tool calls made so far (a bound only)

vars == <<sessions, process, home, call, calls>>

Shells == 1..MaxShells
NoShell == 0
Idle == [pc |-> "idle", stream |-> CHOOSE s \in Streams : TRUE, shell |-> NoShell, reply |-> "none"]

(* What execute_shell and execute_declarative_shell answer. *)
Replies == {"none", "ok", "exit_code", "too_large", "timed_out", "shell_error"}

Init ==
    /\ sessions = << >>
    /\ process = [k \in Shells |-> "none"]
    /\ home = [k \in Shells |-> CHOOSE s \in Streams : TRUE]
    /\ call = [w \in Workers |-> Idle]
    /\ calls = 0

Pooled == {sessions[i].shell : i \in DOMAIN sessions}
OfStream(s) == {i \in DOMAIN sessions : sessions[i].stream = s}
(* A stream has one entry at most: the map's key is its id. *)
Without(s) ==
    IF OfStream(s) = {} THEN sessions ELSE RemoveAt(sessions, CHOOSE i \in OfStream(s) : TRUE)
Live == {k \in Shells : process[k] = "alive"}
Kill(K) == [k \in Shells |-> IF k \in K THEN "dead" ELSE process[k]]
-----------------------------------------------------------------------------
(* ShellSession::spawn *)
Spawn(w, s) ==
    \E k \in Shells :
        /\ process[k] = "none"
        /\ \A j \in 1..(k - 1) : process[j] # "none"
        /\ process' = [process EXCEPT ![k] = "alive"]
        /\ home' = [home EXCEPT ![k] = s]
        /\ call' = [call EXCEPT ![w] = [pc |-> "spawned", stream |-> s, shell |-> k, reply |-> "none"]]

SpawnFails(w, s) ==
    /\ call' = [call EXCEPT ![w].reply = "shell_error"]
    /\ UNCHANGED <<process, home>>

(* The entry stays in the map while its shell is in use. *)
TakeOrSpawn_shared(w, s) ==
    /\ call[w].pc = "idle"
    /\ calls < MaxCalls
    /\ calls' = calls + 1
    /\ UNCHANGED sessions
    /\ \/ \E i \in OfStream(s) :
             /\ process[sessions[i].shell] = "alive"
             /\ call' = [call EXCEPT ![w] = [pc |-> "ready", stream |-> s,
                                             shell |-> sessions[i].shell, reply |-> "none"]]
             /\ UNCHANGED <<process, home>>
       \/ /\ \A i \in OfStream(s) : process[sessions[i].shell] = "dead"
          /\ Spawn(w, s) \/ SpawnFails(w, s)

(* run_command takes the stream's entry out of the map; a live shell is    *)
(* used, a dead or missing one replaced.                                   *)
TakeOrSpawn(w, s) ==
    /\ call[w].pc = "idle"
    /\ calls < MaxCalls
    /\ calls' = calls + 1
    /\ sessions' = Without(s)
    /\ \/ \E i \in OfStream(s) :
             /\ process[sessions[i].shell] = "alive"
             /\ call' = [call EXCEPT ![w] = [pc |-> "ready", stream |-> s,
                                             shell |-> sessions[i].shell, reply |-> "none"]]
             /\ UNCHANGED <<process, home>>
       \/ /\ \A i \in OfStream(s) : process[sessions[i].shell] = "dead"
          /\ Spawn(w, s) \/ SpawnFails(w, s)

(* The capacity is compared with > instead of >=. *)
EvictLruIfFull_late(w) ==
    /\ call[w].pc = "spawned"
    /\ call' = [call EXCEPT ![w].pc = "ready"]
    /\ \/ /\ Len(sessions) <= MaxSessions
          /\ UNCHANGED <<sessions, process>>
       \/ /\ Len(sessions) > MaxSessions
          /\ sessions' = Tail(sessions)
          /\ process' = Kill({Head(sessions).shell})
    /\ UNCHANGED <<home, calls>>

(* evict_lru_if_full, which only a call that spawned runs. *)
EvictLruIfFull(w) ==
    /\ call[w].pc = "spawned"
    /\ call' = [call EXCEPT ![w].pc = "ready"]
    /\ \/ /\ Len(sessions) < MaxSessions \/ sessions = << >>
          /\ UNCHANGED <<sessions, process>>
       \/ /\ Len(sessions) >= MaxSessions /\ sessions # << >>
          /\ sessions' = Tail(sessions)
          /\ process' = Kill({Head(sessions).shell})
    /\ UNCHANGED <<home, calls>>

(* execute: the command ends by itself, or its children are killed at the  *)
(* time-out and the shell comes back; the reply is what the executor makes *)
(* of the output.                                                          *)
Execute(w) ==
    /\ call[w].pc = "ready"
    /\ process[call[w].shell] = "alive"
    /\ \E r \in {"ok", "exit_code", "too_large", "timed_out"} :
          call' = [call EXCEPT ![w].pc = "ran", ![w].reply = r]
    /\ UNCHANGED <<sessions, process, home, calls>>

(* The shell does not come back within the grace period: it is killed. *)
ExecuteHangs(w) ==
    /\ call[w].pc = "ready"
    /\ process' = Kill({call[w].shell})
    /\ call' = [call EXCEPT ![w].pc = "ran", ![w].reply = "shell_error"]
    /\ UNCHANGED <<sessions, home, calls>>

(* Writing to a dead shell fails, reading from it ends: SessionDead. *)
ExecuteOnDead(w) ==
    /\ call[w].pc = "ready"
    /\ process[call[w].shell] = "dead"
    /\ call' = [call EXCEPT ![w].pc = "ran", ![w].reply = "shell_error"]
    /\ UNCHANGED <<sessions, process, home, calls>>

(* The session goes back into the map if it survived.  An entry that       *)
(* another call of the stream has put there meanwhile is replaced, and     *)
(* dropping it kills its shell; dropping a dead session changes nothing.   *)
GiveBack(w) ==
    LET s == call[w].stream
        k == call[w].shell IN
    /\ call[w].pc = "ran"
    /\ IF process[k] = "alive"
       THEN /\ sessions' = Append(Without(s), [stream |-> s, shell |-> k])
            /\ process' = Kill({sessions[i].shell : i \in OfStream(s)})
       ELSE UNCHANGED <<sessions, process>>
    /\ call' = [call EXCEPT ![w] = [Idle EXCEPT !.reply = call[w].reply]]
    /\ UNCHANGED <<home, calls>>

RunCommand(w) ==
    \/ \E s \in Streams : TakeOrSpawn(w, s)
    \/ EvictLruIfFull(w) \/ Execute(w) \/ ExecuteHangs(w) \/ ExecuteOnDead(w)
    \/ GiveBack(w)
-----------------------------------------------------------------------------
(* close_session, called at the end of a run; two runs may share a stream, *)
(* so a call of it may be under way.                                       *)
CloseSession(s) ==
    /\ OfStream(s) # {}
    /\ sessions' = Without(s)
    /\ process' = Kill({sessions[i].shell : i \in OfStream(s)})
    /\ UNCHANGED <<home, call, calls>>

(* reap_idle kills every entry whose last use is older than the limit:     *)
(* some of the oldest.                                                     *)
ReapIdle ==
    \E n \in 1..Len(sessions) :
        /\ sessions' = SubSeq(sessions, n + 1, Len(sessions))
        /\ process' = Kill({sessions[i].shell : i \in 1..n})
        /\ UNCHANGED <<home, call, calls>>

(* A shell exits by itself: a command said `exit`, or the system killed it. *)
ShellDies(k) ==
    /\ process[k] = "alive"
    /\ process' = Kill({k})
    /\ UNCHANGED <<sessions, home, call, calls>>

Next ==
    \/ \E w \in Workers : RunCommand(w)
    \/ \E s \in Streams : CloseSession(s)
    \/ ReapIdle
    \/ \E k \in Shells : ShellDies(k)

Spec == Init /\ [][Next]_vars
-----------------------------------------------------------------------------
TypeOK ==
    /\ sessions \in Seq([stream : Streams, shell : Shells])
    /\ process \in [Shells -> {"none", "alive", "dead"}]
    /\ home \in [Shells -> Streams]
    /\ call \in [Workers -> [pc : {"idle", "spawned", "ready", "ran"}, stream : Streams,
                             shell : Shells \cup {NoShell}, reply : Replies]]
    /\ calls \in 0..MaxCalls

Holders(k) ==
    {w \in Workers : call[w].pc # "idle" /\ call[w].shell = k}
        \cup {i \in DOMAIN sessions : sessions[i].shell = k}

(* Every live shell has exactly one holder, either one call or one entry   *)
(* of the pool, of the stream it was spawned for: no command runs in a     *)
(* shell that another one uses or that another run left behind, and no     *)
(* process outlives the code that would close it (drops, evictions, the    *)
(* reaper and a replaced entry included).                                  *)
OneHolder ==
    /\ \A k \in Live : Cardinality(Holders(k)) = 1
    /\ \A w \in Workers : call[w].pc # "idle" => home[call[w].shell] = call[w].stream
    /\ \A i \in DOMAIN sessions : home[sessions[i].shell] = sessions[i].stream

(* max_sessions counts entries of the map only when a shell is spawned, so *)
(* calls that end together can overfill the pool: but never by as many as  *)
(* there are callers.                                                      *)
OverfullByCallers == Len(sessions) < MaxSessions + Cardinality(Workers)

(* "Each stream_id gets at most one session." (the pool's own comment) *)
OneShellPerStream ==
    \A j, k \in Live : home[j] = home[k] => j = k
=============================================================================
