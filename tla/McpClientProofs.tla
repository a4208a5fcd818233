--------------------------- MODULE McpClientProofs ---------------------------
(***************************************************************************)
(* Theorems about the client of an MCP server, for any number of callers,  *)
(* calls and restarts: one child process, and an answer for its asker.     *)
(***************************************************************************)
EXTENDS McpClient, FiniteSetTheorems, WellFoundedInduction, TLAPS

(* What the registry is built with. *)
ClientBounds == IsFiniteSet(Callers) /\ MaxRestarts \in Nat /\ MaxCalls \in Nat

Phases == {"idle", "send", "wait", "restart", "teardown", "spawn", "handshake"}
CallT == [pc : Phases, n : 0..MaxCalls, conn : Conns \cup {NoConn}, id : Ids \cup {0},
          tries : 0..2, result : {"none"} \cup Results \cup RestartErrors,
          answers : 0..MaxCalls]

Restarting == {"teardown", "spawn", "handshake"}
Up == {c \in Conns : child[c] \in Running}
Known(c) == pending[c] \cup asked[c] \cup answers[c]
Sending(c) == {w \in Callers : call[w].pc = "send" /\ call[w].conn = c}

(* A caller at work has a number and a connection. *)
AtWork ==
    \A w \in Callers : call[w].pc # "idle" => call[w].n \in 1..calls /\ call[w].conn \in Conns

(* On one connection an id is one request, wherever its frames are, and the *)
(* next request gets an id that none of them has.                           *)
OneRequestPerId ==
    \A c \in Conns :
        /\ \A r \in Known(c) : r.id < next_id[c]
        /\ \A r, q \in Known(c) : r.id = q.id => r = q

(* The callers inside try_restart are those that hold the lock: one. *)
LockHeld ==
    /\ \A w \in Callers : w \in writer <=> call[w].pc \in Restarting
    /\ \A v, w \in writer : v = w

(* Which process may run, at each point of a restart. *)
ChildOf ==
    /\ child[slot] # "none"
    /\ writer = {} => Up \subseteq {slot}
    /\ \A w \in writer :
         /\ call[w].pc = "teardown" => Up \subseteq {slot}
         /\ call[w].pc = "spawn" => Up = {}
         /\ call[w].pc = "handshake" =>
              /\ Up \subseteq {call[w].conn}
              /\ child[call[w].conn] # "none"
              /\ call[w].conn # slot

(* Each restart that was counted may spawn one connection more. *)
Spawned ==
    \A c \in Conns : child[c] # "none" =>
        /\ c <= attempts + 1
        /\ \A w \in Callers : call[w].pc \in {"teardown", "spawn"} => c <= attempts

(* A connection that is not in the slot yet has carried nothing ... *)
NotYetIn(c) ==
    child[c] = "none" \/ \E w \in writer : call[w].pc = "handshake" /\ call[w].conn = c
Unused == \A c \in Conns : NotYetIn(c) => next_id[c] = 1 /\ Sending(c) = {}

(* ... and no connection carries more requests than there were calls. *)
IdsCounted == \A c \in Conns : next_id[c] + Cardinality(Sending(c)) <= calls + 1

(* The inductive invariant. *)
ClientInv ==
    /\ TypeOK /\ AtWork /\ OneRequestPerId /\ LockHeld /\ ChildOf /\ Spawned
    /\ Unused /\ IdsCounted /\ OwnAnswer

------------------------------------------------------------------------------
(* Helpers. *)

LEMMA CallType ==
  ASSUME TypeOK
  PROVE  /\ call \in [Callers -> CallT]
         /\ \A w \in Callers : call[w] \in CallT
  BY DEF TypeOK, CallT, Phases

LEMMA BoundsType ==
  ASSUME ClientBounds
  PROVE  /\ 1 \in Conns /\ Conns \subseteq Nat /\ NoConn \notin Conns
         /\ \A n \in 0..MaxCalls : n # 0 => n \in Ids
         /\ Ids \subseteq Nat
  BY DEF ClientBounds, Conns, Ids, NoConn

LEMMA IdleType ==
  ASSUME ClientBounds
  PROVE  Idle \in CallT
  BY DEF ClientBounds, Idle, CallT, Phases

(* A call that ends keeps its number, and has nobody's answer but the one *)
(* it is given.                                                           *)
LEMMA Returns ==
  ASSUME ClientBounds, TypeOK, NEW w \in Callers,
         NEW r \in Results \cup RestartErrors, NEW of \in 0..MaxCalls
  PROVE  /\ Return(w, r, of) \in CallT
         /\ Return(w, r, of).pc = "idle" /\ Return(w, r, of).n = call[w].n
         /\ Return(w, r, of).answers = of
  <1>1. call[w].n \in 0..MaxCalls BY CallType DEF CallT
  <1> QED BY <1>1, IdleType DEF Return, CallT, Idle, Phases

(* A failed call is over, or asks for a restart on the connection it had. *)
LEMMA Fails ==
  ASSUME ClientBounds, TypeOK, NEW w \in Callers, NEW r \in Triggers
  PROVE  /\ Failed(w, r) \in CallT
         /\ Failed(w, r).n = call[w].n
         /\ \/ Failed(w, r).pc = "idle" /\ Failed(w, r).answers = 0
            \/ Failed(w, r).pc = "restart" /\ Failed(w, r).conn = call[w].conn
  <1>1. r \in Results \cup RestartErrors /\ "not_restartable" \in Results \cup RestartErrors
    BY DEF Results, RestartErrors
  <1>2. 0 \in 0..MaxCalls BY DEF ClientBounds
  <1>3. ASSUME NEW x \in Results \cup RestartErrors
        PROVE  /\ Return(w, x, 0) \in CallT
               /\ Return(w, x, 0).pc = "idle" /\ Return(w, x, 0).n = call[w].n
               /\ Return(w, x, 0).answers = 0
    BY <1>2, Returns
  <1> DEFINE k == [call[w] EXCEPT !.pc = "restart", !.result = r]
  <1>4. k \in CallT /\ k.n = call[w].n /\ k.pc = "restart" /\ k.conn = call[w].conn
    <2>1. call[w] \in CallT BY CallType
    <2> QED BY <1>1, <2>1 DEF CallT, Phases
  <1> HIDE DEF k
  <1>5. Failed(w, r) \in {k, Return(w, "not_restartable", 0), Return(w, r, 0)}
    BY DEF Failed, k
  <1> QED BY <1>1, <1>3, <1>4, <1>5

LEMMA SendingFinite ==
  ASSUME ClientBounds, NEW c
  PROVE  IsFiniteSet(Sending(c)) /\ Cardinality(Sending(c)) \in Nat
  <1>1. Sending(c) \subseteq Callers BY DEF Sending
  <1> QED BY <1>1, FS_Subset, FS_CardinalityType DEF ClientBounds

LEMMA OneMore ==
  ASSUME NEW T, NEW x, IsFiniteSet(T), NEW S, S \subseteq T \cup {x}
  PROVE  Cardinality(S) <= Cardinality(T) + 1 /\ Cardinality(S) \in Nat
  <1>1. IsFiniteSet(T \cup {x}) /\ Cardinality(T) \in Nat
        /\ Cardinality(T \cup {x}) \in {Cardinality(T), Cardinality(T) + 1}
    BY FS_AddElement, FS_CardinalityType
  <1>2. IsFiniteSet(S) /\ Cardinality(S) <= Cardinality(T \cup {x})
    BY <1>1, FS_Subset
  <1>3. Cardinality(S) \in Nat BY <1>2, FS_CardinalityType
  <1> QED BY <1>1, <1>2, <1>3

(* One caller's record changes. *)
LEMMA OneCall ==
  ASSUME TypeOK, NEW w \in Callers, NEW k, call' = [call EXCEPT ![w] = k]
  PROVE  call'[w] = k /\ \A v \in Callers : v # w => call'[v] = call[v]
  BY DEF TypeOK

(* The id a request is about to get is one of those counted. *)
LEMMA NextIdIs ==
  ASSUME ClientBounds, ClientInv, NEW w \in Callers, call[w].pc = "send"
  PROVE  /\ call[w].conn \in Conns /\ call[w].n \in 1..MaxCalls
         /\ next_id[call[w].conn] \in Ids /\ next_id[call[w].conn] <= MaxCalls
         /\ next_id[call[w].conn] + 1 \in 1..(2 * MaxCalls + 1)
  <1> DEFINE c == call[w].conn
  <1>1. /\ c \in Conns /\ call[w].n \in 1..calls /\ calls \in 0..MaxCalls
        /\ next_id \in [Conns -> 1..(2 * MaxCalls + 1)] /\ MaxCalls \in Nat
    BY DEF ClientInv, AtWork, TypeOK, ClientBounds
  <1>2. w \in Sending(c) BY DEF Sending
  <1>3. IsFiniteSet(Sending(c)) /\ Cardinality(Sending(c)) \in Nat BY SendingFinite
  <1>4. Cardinality(Sending(c)) # 0 BY <1>2, <1>3, FS_EmptySet
  <1>5. next_id[c] + Cardinality(Sending(c)) <= calls + 1
    BY <1>1 DEF ClientInv, IdsCounted
  <1> HIDE DEF c
  <1>6. next_id[c] \in 1..(2 * MaxCalls + 1) BY <1>1
  <1>7. next_id[c] <= MaxCalls BY <1>1, <1>3, <1>4, <1>5, <1>6
  <1> QED BY <1>1, <1>6, <1>7 DEF Ids, c

(* A connection is still free when a restart spawns one, and it is the first *)
(* free one that is taken.                                                   *)
LEMMA FreshIs ==
  ASSUME ClientBounds, ClientInv, NEW w \in Callers, call[w].pc = "spawn"
  PROVE  /\ Fresh \in Conns /\ child[Fresh] = "none" /\ Fresh <= attempts + 1
         /\ Fresh # slot /\ \A c \in Conns : child[c] # "none" => c <= attempts
  <1> DEFINE Free == {c \in Conns : child[c] = "none"}
             R == OpToRel(<, Nat)
  <1>1. attempts \in 0..MaxRestarts /\ MaxRestarts \in Nat BY DEF ClientInv, TypeOK, ClientBounds
  <1>2. \A c \in Conns : child[c] # "none" => c <= attempts
    BY DEF ClientInv, Spawned
  <1>3. attempts + 1 \in Free
    <2>1. attempts + 1 \in Conns BY <1>1 DEF Conns
    <2>2. ~(attempts + 1 <= attempts) BY <1>1
    <2> QED BY <1>2, <2>1, <2>2
  <1>4. Free \subseteq Nat BY <1>1 DEF Conns
  <1>5. IsWellFoundedOn(R, Nat) BY NatLessThanWellFounded
  <1>6. \A x, y \in Nat : <<x, y>> \in R <=> x < y BY DEF OpToRel
  <1> HIDE DEF R
  <1>7. PICK m \in Free : \A y \in Free : ~(<<y, m>> \in R)
    BY <1>3, <1>4, <1>5, WFMin
  <1>8. \A d \in 1..(m - 1) : child[d] # "none"
    <2> SUFFICES ASSUME NEW d \in 1..(m - 1), child[d] = "none" PROVE FALSE OBVIOUS
    <2>1. m \in Conns /\ m \in Nat /\ d \in Nat /\ d < m BY <1>4
    <2>2. d \in Conns BY <1>1, <2>1 DEF Conns
    <2>3. d \in Free BY <2>2
    <2> QED BY <1>6, <1>7, <2>1, <2>3
  <1>9. Fresh \in Conns /\ child[Fresh] = "none" /\ \A d \in 1..(Fresh - 1) : child[d] # "none"
    BY <1>7, <1>8 DEF Fresh
  <1>10. Fresh <= attempts + 1
    <2> SUFFICES ASSUME ~(Fresh <= attempts + 1) PROVE FALSE OBVIOUS
    <2>1. attempts + 1 \in 1..(Fresh - 1)
      <3>1. Fresh \in Nat BY <1>1, <1>9 DEF Conns
      <3> QED BY <1>1, <3>1
    <2> QED BY <1>3, <1>9, <2>1
  <1>11. Fresh # slot BY <1>9 DEF ClientInv, ChildOf
  <1> QED BY <1>2, <1>9, <1>10, <1>11

------------------------------------------------------------------------------
(* Types. *)

LEMMA InitClient == ASSUME ClientBounds, Init PROVE ClientInv
  <1>1. TypeOK
    <2>1. call \in [Callers -> CallT] BY IdleType DEF Init
    <2>2. 0 \in 0..MaxRestarts /\ 0 \in 0..MaxCalls /\ 1 \in 1..(2 * MaxCalls + 1)
      BY DEF ClientBounds
    <2> QED BY <2>1, <2>2, BoundsType DEF Init, TypeOK, CallT, Phases
  <1>2. \A w \in Callers : call[w].pc = "idle" /\ call[w].answers = 0 BY DEF Init, Idle
  <1>3. /\ writer = {} /\ slot = 1 /\ attempts = 0 /\ calls = 0 /\ 1 \in Conns /\ Conns \subseteq Nat
        /\ \A c \in Conns : /\ Known(c) = {} /\ next_id[c] = 1
                            /\ child[c] = IF c = 1 THEN "up" ELSE "none"
    BY BoundsType DEF Init, Known
  <1>4. \A c \in Conns : Sending(c) = {} BY <1>2 DEF Sending
  <1>5. AtWork /\ OneRequestPerId /\ LockHeld /\ OwnAnswer
    BY <1>2, <1>3 DEF AtWork, OneRequestPerId, LockHeld, OwnAnswer, Restarting
  <1>6. ChildOf BY <1>3 DEF ChildOf, Up, Running
  <1>7. Spawned BY <1>2, <1>3 DEF Spawned
  <1>8. Unused BY <1>3, <1>4 DEF Unused
  <1>9. IdsCounted BY <1>3, <1>4, FS_EmptySet DEF IdsCounted
  <1> QED BY <1>1, <1>5, <1>6, <1>7, <1>8, <1>9 DEF ClientInv

(* The fields of a call an action fills in. *)
LEMMA CallSets ==
  ASSUME ClientBounds, NEW k \in CallT
  PROVE  /\ \A p \in Phases : [k EXCEPT !.pc = p] \in CallT
         /\ \A i \in Ids : [k EXCEPT !.pc = "wait", !.id = i] \in CallT
         /\ \A c \in Conns : [k EXCEPT !.pc = "handshake", !.conn = c] \in CallT
         /\ [k EXCEPT !.pc = "send", !.tries = 2] \in CallT
  <1>1. ASSUME NEW p \in Phases PROVE [k EXCEPT !.pc = p] \in CallT BY DEF CallT
  <1>2. ASSUME NEW i \in Ids PROVE [k EXCEPT !.pc = "wait", !.id = i] \in CallT
    BY DEF CallT, Phases
  <1>3. ASSUME NEW c \in Conns PROVE [k EXCEPT !.pc = "handshake", !.conn = c] \in CallT
    BY DEF CallT, Phases
  <1>4. [k EXCEPT !.pc = "send", !.tries = 2] \in CallT
    <2>1. 2 \in 0..2 OBVIOUS
    <2> QED BY <2>1 DEF CallT, Phases
  <1> QED BY <1>1, <1>2, <1>3, <1>4

------------------------------------------------------------------------------
(* What a step may leave alone. *)

(* One caller's record becomes k. *)
LEMMA CallAfter ==
  ASSUME ClientInv, NEW w \in Callers, NEW k \in CallT,
         call' = [call EXCEPT ![w] = k], calls' \in Nat, calls <= calls',
         k.pc # "idle" => k.n \in 1..calls' /\ k.conn \in Conns,
         k.pc = "idle" => k.answers \in {0, k.n}
  PROVE  call' \in [Callers -> CallT] /\ AtWork' /\ OwnAnswer'
  <1>1. /\ call \in [Callers -> CallT] /\ AtWork /\ OwnAnswer /\ calls \in Nat
    BY CallType DEF ClientInv, TypeOK
  <1>2. call'[w] = k /\ \A v \in Callers : v # w => call'[v] = call[v] BY <1>1
  <1>3. call' \in [Callers -> CallT] BY <1>1
  <1>4. AtWork' BY <1>1, <1>2 DEF AtWork
  <1>5. OwnAnswer' BY <1>1, <1>2 DEF OwnAnswer
  <1> QED BY <1>3, <1>4, <1>5

(* A caller has no part in a restart, or the step leaves it alone. *)
Aside(v) == call'[v] = call[v] \/ (call[v].pc \notin Restarting /\ call'[v].pc \notin Restarting)

LEMMA OneAside ==
  ASSUME NEW w \in Callers, call[w].pc \notin Restarting, call'[w].pc \notin Restarting,
         \A v \in Callers : v # w => call'[v] = call[v]
  PROVE  \A v \in Callers : Aside(v)
  BY DEF Aside

LEMMA LockUntouched ==
  ASSUME ClientInv, UNCHANGED <<slot, writer, attempts>>, Up' \subseteq Up,
         \A c \in Conns : child'[c] = "none" <=> child[c] = "none",
         \A v \in Callers : Aside(v)
  PROVE  LockHeld' /\ ChildOf' /\ Spawned' /\ \A c \in Conns : NotYetIn(c)' => NotYetIn(c)
  <1>1. /\ LockHeld /\ ChildOf /\ Spawned /\ writer \subseteq Callers /\ slot \in Conns
        /\ AtWork
    BY DEF ClientInv, TypeOK
  <1>2. \A v \in writer : call'[v] = call[v] /\ v \in Callers BY <1>1 DEF LockHeld, Aside
  <1>3. LockHeld' BY <1>1 DEF LockHeld, Aside
  <1>4. ChildOf'
    <2>1. child'[slot] # "none" BY <1>1 DEF ChildOf
    <2>2. ASSUME NEW v \in writer, call[v].pc = "handshake" PROVE child'[call[v].conn] # "none"
      BY <1>1, <1>2, <2>2 DEF ChildOf, AtWork
    <2> QED BY <1>1, <1>2, <2>1, <2>2 DEF ChildOf
  <1>5. Spawned' BY <1>1 DEF Spawned, Restarting, Aside
  <1>6. \A c \in Conns : NotYetIn(c)' => NotYetIn(c) BY <1>2 DEF NotYetIn
  <1> QED BY <1>3, <1>4, <1>5, <1>6

LEMMA CountUntouched ==
  ASSUME ClientBounds, ClientInv, UNCHANGED <<next_id, calls>>,
         \A c \in Conns : Sending(c)' \subseteq Sending(c),
         \A c \in Conns : NotYetIn(c)' => NotYetIn(c)
  PROVE  Unused' /\ IdsCounted'
  <1>1. Unused /\ IdsCounted BY DEF ClientInv
  <1>2. Unused' BY <1>1 DEF Unused
  <1>3. ASSUME NEW c \in Conns, NEW S, S = Sending(c)'
        PROVE  next_id[c] + Cardinality(S) <= calls + 1
    <2>1. IsFiniteSet(Sending(c)) /\ Cardinality(Sending(c)) \in Nat BY SendingFinite
    <2>2. S \subseteq Sending(c) BY <1>3
    <2>3. Cardinality(S) <= Cardinality(Sending(c)) /\ Cardinality(S) \in Nat
      BY <2>1, <2>2, FS_Subset, FS_CardinalityType
    <2>4. next_id[c] \in Nat /\ calls \in Nat BY DEF ClientInv, TypeOK
    <2> QED BY <1>1, <2>1, <2>3, <2>4 DEF IdsCounted
  <1>4. IdsCounted' BY <1>3 DEF IdsCounted
  <1> QED BY <1>2, <1>4

LEMMA FramesUntouched ==
  ASSUME ClientInv, UNCHANGED next_id, \A c \in Conns : Known(c)' \subseteq Known(c)
  PROVE  OneRequestPerId'
  <1>1. OneRequestPerId BY DEF ClientInv
  <1> QED BY <1>1 DEF OneRequestPerId

LEMMA OneLess ==
  ASSUME NEW T, NEW x \in T, IsFiniteSet(T), NEW S, S = T \ {x}
  PROVE  Cardinality(S) = Cardinality(T) - 1 /\ Cardinality(S) \in Nat
  <1>1. IsFiniteSet(S) BY FS_Subset
  <1> QED BY <1>1, FS_RemoveElement, FS_CardinalityType

(* Nobody starts to send. *)
LEMMA NobodySends ==
  ASSUME \A v \in Callers : call'[v] = call[v] \/ call'[v].pc # "send"
  PROVE  \A c \in Conns : Sending(c)' \subseteq Sending(c)
  BY DEF Sending

LEMMA UpFewer ==
  ASSUME \A c \in Conns : child'[c] \in Running => child[c] \in Running
  PROVE  Up' \subseteq Up
  BY DEF Up

------------------------------------------------------------------------------
(* Calls. *)

LEMMA CallKeeps ==
  ASSUME ClientBounds, ClientInv, NEW w \in Callers, Call(w)
  PROVE  ClientInv'
  <1> DEFINE k == [Idle EXCEPT !.pc = "send", !.n = calls + 1, !.conn = slot, !.tries = 1]
  <1>1. /\ TypeOK /\ calls \in 0..MaxCalls /\ calls + 1 \in 0..MaxCalls /\ calls + 1 \in 1..calls'
        /\ calls' = calls + 1 /\ calls' \in Nat /\ calls <= calls' /\ slot \in Conns /\ writer = {}
    BY DEF ClientInv, TypeOK, ClientBounds, Call
  <1>2. UNCHANGED <<restartable, slot, writer, attempts, child, reader, pending, next_id, asked,
                    answers>>
    BY DEF Call, wire
  <1>3. call' = [call EXCEPT ![w] = k] /\ call[w].pc = "idle" BY DEF Call
  <1>4. k \in CallT /\ k.pc = "send" /\ k.n = calls + 1 /\ k.conn = slot
    <2>1. 1 \in 0..2 OBVIOUS
    <2> QED BY <1>1, <2>1, IdleType DEF Idle, CallT, Phases
  <1> HIDE DEF k
  <1>5. call' \in [Callers -> CallT] /\ AtWork' /\ OwnAnswer' BY <1>1, <1>3, <1>4, CallAfter
  <1>6. call'[w] = k /\ \A v \in Callers : v # w => call'[v] = call[v] BY <1>1, <1>3, OneCall
  <1>7. /\ LockHeld' /\ ChildOf' /\ Spawned'
        /\ \A c \in Conns : NotYetIn(c)' => NotYetIn(c)
    <2>1. Up' \subseteq Up BY <1>2 DEF Up
    <2>3. k.pc \notin Restarting /\ call[w].pc \notin Restarting BY <1>3, <1>4 DEF Restarting
    <2>2. \A v \in Callers : Aside(v)
      BY <1>6, <2>3, OneAside
    <2> QED BY <1>2, <2>1, <2>2, LockUntouched
  <1>8. OneRequestPerId'
    <2>1. \A c \in Conns : Known(c)' \subseteq Known(c) BY <1>2 DEF Known
    <2> QED BY <1>2, <2>1, FramesUntouched
  <1>9. ASSUME NEW c \in Conns
        PROVE  /\ \A v \in Sending(c)' : v \in Sending(c) \/ v = w
               /\ c # slot => Sending(c)' = Sending(c)
    BY <1>2, <1>3, <1>4, <1>6 DEF Sending
  <1>10. Unused'
    <2>1. \A c \in Conns : NotYetIn(c) => c # slot
      BY <1>1 DEF NotYetIn, ClientInv, ChildOf
    <2>2. ASSUME NEW c \in Conns, NotYetIn(c)' PROVE next_id'[c] = 1 /\ Sending(c)' = {}
      <3>1. NotYetIn(c) /\ c # slot BY <1>7, <2>1, <2>2
      <3>2. next_id[c] = 1 /\ Sending(c) = {} BY <3>1 DEF Unused, ClientInv
      <3>3. Sending(c)' = Sending(c) BY <1>9, <3>1
      <3> QED BY <1>2, <3>2, <3>3
    <2> QED BY <2>2 DEF Unused
  <1>11. IdsCounted'
    <2> SUFFICES ASSUME NEW c \in Conns, NEW S, S = Sending(c)'
                 PROVE  next_id[c] + Cardinality(S) <= calls + 1 + 1
      BY <1>1, <1>2 DEF IdsCounted
    <2>1. IsFiniteSet(Sending(c)) /\ Cardinality(Sending(c)) \in Nat BY SendingFinite
    <2>2. next_id[c] + Cardinality(Sending(c)) <= calls + 1 /\ next_id[c] \in Nat /\ calls \in Nat
      BY DEF ClientInv, IdsCounted, TypeOK
    <2>3. S \subseteq Sending(c) \cup {w}
      <3>1. \A v \in Sending(c)' : v \in Sending(c) \/ v = w BY <1>9
      <3> QED BY <3>1
    <2>4. Cardinality(S) <= Cardinality(Sending(c)) + 1 /\ Cardinality(S) \in Nat
      BY <2>1, <2>3, OneMore
    <2> QED BY <2>1, <2>2, <2>4
  <1>12. TypeOK'
    <2>1. TypeOK BY <1>1
    <2> QED BY <1>1, <1>2, <1>5, <2>1 DEF TypeOK, CallT, Phases
  <1> QED BY <1>5, <1>7, <1>8, <1>10, <1>11, <1>12 DEF ClientInv

(* The request, or the failure to write it, takes the next id. *)
LEMMA SendKeeps ==
  ASSUME ClientBounds, ClientInv, NEW w \in Callers, Send(w)
  PROVE  ClientInv'
  <1>0. PICK c \in Conns : c = call[w].conn BY NextIdIs DEF Send
  <1>1. /\ TypeOK /\ call[w].pc = "send" /\ call[w].n \in 1..MaxCalls
        /\ next_id[c] \in Ids /\ next_id[c] + 1 \in 1..(2 * MaxCalls + 1)
        /\ next_id[c] \in Nat /\ call[w] \in CallT /\ calls \in Nat
    BY <1>0, NextIdIs, BoundsType, CallType DEF Send, ClientInv, TypeOK
  <1>2. /\ UNCHANGED <<restartable, slot, writer, attempts, child, reader, answers, calls>>
        /\ next_id' = [next_id EXCEPT ![c] = next_id[c] + 1]
    BY <1>0 DEF Send
  <1>3. PICK req \in Requests : /\ req = [id |-> next_id[c], from |-> call[w].n]
                               /\ req.id = next_id[c]
    <2> DEFINE q == [id |-> next_id[c], from |-> call[w].n]
    <2>1. q \in Requests /\ q.id = next_id[c] BY <1>1 DEF Requests
    <2> QED BY <2>1
  <1>4. PICK k \in CallT :
          /\ call' = [call EXCEPT ![w] = k]
          /\ k.pc \in {"wait", "idle", "restart"} /\ k.n = call[w].n
          /\ k.pc # "idle" => k.conn = c
          /\ k.pc = "idle" => k.answers = 0
    <2>1. CASE call' = [call EXCEPT ![w].pc = "wait", ![w].id = next_id[c]]
      <3> DEFINE k == [call[w] EXCEPT !.pc = "wait", !.id = next_id[c]]
      <3>1. k \in CallT BY <1>1, CallSets
      <3>2. k.pc = "wait" /\ k.n = call[w].n /\ k.conn = c BY <1>0, <1>1 DEF CallT
      <3>3. call' = [call EXCEPT ![w] = k] BY <2>1, CallType, <1>1
      <3> QED BY <3>1, <3>2, <3>3
    <2>2. CASE call' = [call EXCEPT ![w] = Failed(w, "io")]
      <3>1. "io" \in Triggers BY DEF Triggers
      <3> QED BY <1>0, <1>1, <2>2, <3>1, Fails
    <2> QED BY <1>0, <2>1, <2>2 DEF Send
  <1>5. /\ pending' \in [Conns -> SUBSET Requests] /\ asked' \in [Conns -> SUBSET Requests]
        /\ \A d \in Conns : d # c => pending'[d] = pending[d] /\ asked'[d] = asked[d]
        /\ pending'[c] \cup asked'[c] \subseteq pending[c] \cup asked[c] \cup {req}
    <2>1. /\ pending \in [Conns -> SUBSET Requests] /\ asked \in [Conns -> SUBSET Requests]
      BY <1>1 DEF TypeOK
    <2>2. \/ /\ pending' = [pending EXCEPT ![c] = @ \cup {req}]
             /\ asked' = [asked EXCEPT ![c] = @ \cup {req}]
          \/ pending' = pending /\ asked' = asked
      BY <1>0, <1>3 DEF Send
    <2> QED BY <1>1, <1>3, <2>1, <2>2
  <1>6. /\ call'[w] = k /\ \A v \in Callers : v # w => call'[v] = call[v]
        /\ call' \in [Callers -> CallT] /\ AtWork' /\ OwnAnswer'
    <2>1. call[w].n \in 1..calls BY <1>1 DEF ClientInv, AtWork
    <2>2. call'[w] = k /\ \A v \in Callers : v # w => call'[v] = call[v] BY <1>1, <1>4, OneCall
    <2>3. calls' = calls /\ calls \in Nat /\ calls <= calls BY <1>1, <1>2
    <2>4. call' \in [Callers -> CallT] /\ AtWork' /\ OwnAnswer'
      BY <1>4, <2>1, <2>3, CallAfter
    <2> QED BY <2>2, <2>4
  <1>7. /\ LockHeld' /\ ChildOf' /\ Spawned'
        /\ \A d \in Conns : NotYetIn(d)' => NotYetIn(d)
    <2>1. Up' \subseteq Up BY <1>2 DEF Up
    <2>3. k.pc \notin Restarting /\ call[w].pc \notin Restarting BY <1>1, <1>4 DEF Restarting
    <2>2. \A v \in Callers : Aside(v)
      BY <1>6, <2>3, OneAside
    <2> QED BY <1>2, <2>1, <2>2, LockUntouched
  <1>8. next_id \in [Conns -> 1..(2 * MaxCalls + 1)] /\ next_id'[c] = next_id[c] + 1
        /\ \A d \in Conns : d # c => next_id'[d] = next_id[d]
    BY <1>1, <1>2 DEF TypeOK
  <1>9. OneRequestPerId'
    <2> SUFFICES ASSUME NEW d \in Conns
                 PROVE  /\ \A r \in Known(d)' : r.id < next_id'[d]
                        /\ \A r, q \in Known(d)' : r.id = q.id => r = q
      BY DEF OneRequestPerId
    <2>1. /\ \A r \in Known(d) : r.id < next_id[d]
          /\ \A r, q \in Known(d) : r.id = q.id => r = q
      BY DEF ClientInv, OneRequestPerId
    <2>2. CASE d # c
      <3>1. Known(d)' = Known(d) BY <1>2, <1>5, <2>2 DEF Known
      <3> QED BY <1>8, <2>1, <2>2, <3>1
    <2>3. CASE d = c
      <3>1. \A r \in Known(c)' : r \in Known(c) \/ r = req BY <1>2, <1>5 DEF Known
      <3>2. \A r \in Known(c) : r.id \in Nat
        <4>1. Known(c) \subseteq Requests BY <1>1 DEF Known, TypeOK
        <4> QED BY <4>1, BoundsType DEF Requests
      <3>3. ASSUME NEW r \in Known(c)' PROVE r.id < next_id'[c]
        <4>1. CASE r = req BY <4>1, <1>1, <1>3, <1>8
        <4>2. CASE r \in Known(c) BY <4>2, <1>1, <1>8, <2>1, <2>3, <3>2
        <4> QED BY <3>1, <4>1, <4>2
      <3>4. \A r \in Known(c) : r.id # req.id BY <1>1, <1>3, <2>1, <2>3, <3>2
      <3>5. ASSUME NEW r \in Known(c)', NEW q \in Known(c)', r.id = q.id PROVE r = q
        BY <2>1, <2>3, <3>1, <3>4, <3>5
      <3> QED BY <2>3, <3>3, <3>5
    <2> QED BY <2>2, <2>3
  <1>10. Sending(c)' = Sending(c) \ {w} /\ w \in Sending(c)
         /\ \A d \in Conns : d # c => Sending(d)' = Sending(d)
    BY <1>0, <1>1, <1>4, <1>6 DEF Sending
  <1>11. Unused'
    <2>1. \A d \in Conns : NotYetIn(d) => d # c BY <1>10 DEF ClientInv, Unused
    <2> QED BY <1>7, <1>8, <1>10, <2>1 DEF Unused, ClientInv
  <1>12. IdsCounted'
    <2> SUFFICES ASSUME NEW d \in Conns, NEW S, S = Sending(d)'
                 PROVE  next_id'[d] + Cardinality(S) <= calls + 1
      BY <1>2 DEF IdsCounted
    <2>1. IsFiniteSet(Sending(d)) /\ Cardinality(Sending(d)) \in Nat BY SendingFinite
    <2>2. next_id[d] + Cardinality(Sending(d)) <= calls + 1 /\ next_id[d] \in Nat
      BY <1>8 DEF ClientInv, IdsCounted
    <2>3. CASE d # c BY <1>8, <1>10, <2>2, <2>3
    <2>4. CASE d = c
      <3>1. S = Sending(d) \ {w} /\ w \in Sending(d) BY <1>10, <2>4
      <3>2. Cardinality(S) = Cardinality(Sending(d)) - 1 /\ Cardinality(S) \in Nat
        BY <2>1, <3>1, OneLess
      <3>3. next_id'[d] = next_id[d] + 1 BY <1>8, <2>4
      <3> QED BY <1>1, <2>1, <2>2, <3>2, <3>3
    <2> QED BY <2>3, <2>4
  <1>13. TypeOK'
    <2>1. next_id' \in [Conns -> 1..(2 * MaxCalls + 1)] BY <1>1, <1>2, <1>8
    <2>2. TypeOK BY <1>1
    <2> QED BY <1>2, <1>5, <1>6, <2>1, <2>2 DEF TypeOK, CallT, Phases
  <1> QED BY <1>6, <1>7, <1>9, <1>11, <1>12, <1>13 DEF ClientInv

(* A call is let be, or is over with its own answer or none, or asks for a *)
(* restart.                                                                *)
Settled(v) ==
    \/ call'[v] = call[v]
    \/ /\ call[v].pc \notin Restarting /\ call'[v].pc \in {"idle", "restart"}
       /\ call'[v].pc = "restart" => call'[v].n \in 1..calls /\ call'[v].conn \in Conns
       /\ call'[v].pc = "idle" => call'[v].answers \in {0, call'[v].n}

(* Requests are answered, given up or read, and processes stop. *)
LEMMA Settles ==
  ASSUME ClientBounds, ClientInv, UNCHANGED <<restartable, slot, writer, attempts, next_id, calls>>,
         child' \in [Conns -> {"none", "up", "hung", "dead"}], reader' \in [Conns -> BOOLEAN],
         \A c \in Conns : child'[c] \in Running => child[c] \in Running,
         \A c \in Conns : child'[c] = "none" <=> child[c] = "none",
         call' \in [Callers -> CallT], \A v \in Callers : Settled(v),
         pending' \in [Conns -> SUBSET Requests], asked' \in [Conns -> SUBSET Requests],
         answers' \in [Conns -> SUBSET Requests], \A c \in Conns : Known(c)' \subseteq Known(c)
  PROVE  ClientInv'
  <1>1. TypeOK /\ AtWork /\ OwnAnswer BY DEF ClientInv
  <1>2. AtWork' /\ OwnAnswer' BY <1>1 DEF AtWork, OwnAnswer, Settled
  <1>3. \A v \in Callers : Aside(v) BY DEF Aside, Settled, Restarting
  <1>4. Up' \subseteq Up BY UpFewer
  <1>5. /\ LockHeld' /\ ChildOf' /\ Spawned'
        /\ \A d \in Conns : NotYetIn(d)' => NotYetIn(d)
    BY <1>3, <1>4, LockUntouched
  <1>6. \A d \in Conns : Sending(d)' \subseteq Sending(d)
    <2>1. \A v \in Callers : call'[v] = call[v] \/ call'[v].pc # "send" BY DEF Settled
    <2> QED BY <2>1, NobodySends
  <1>7. Unused' /\ IdsCounted' BY <1>5, <1>6, CountUntouched
  <1>8. OneRequestPerId' BY FramesUntouched
  <1>9. TypeOK' BY <1>1 DEF TypeOK, CallT, Phases
  <1> QED BY <1>2, <1>5, <1>7, <1>8, <1>9 DEF ClientInv

(* One caller settles, or none does. *)
LEMMA OneSettles ==
  ASSUME TypeOK, NEW w \in Callers, NEW k \in CallT, call' = [call EXCEPT ![w] = k],
         call[w].pc \notin Restarting, k.pc \in {"idle", "restart"},
         k.pc = "restart" => k.n \in 1..calls /\ k.conn \in Conns,
         k.pc = "idle" => k.answers \in {0, k.n}
  PROVE  call' \in [Callers -> CallT] /\ \A v \in Callers : Settled(v)
  <1>1. call \in [Callers -> CallT] BY CallType
  <1>2. call' \in [Callers -> CallT] BY <1>1
  <1>3. call'[w] = k /\ \A v \in Callers : v # w => call'[v] = call[v] BY OneCall
  <1> QED BY <1>2, <1>3 DEF Settled

LEMMA NoneSettles ==
  ASSUME TypeOK, UNCHANGED call
  PROVE  call' \in [Callers -> CallT] /\ \A v \in Callers : Settled(v)
  BY CallType DEF Settled

LEMMA TimeoutKeeps ==
  ASSUME ClientBounds, ClientInv, NEW w \in Callers, Timeout(w)
  PROVE  ClientInv'
  <1>1. /\ TypeOK /\ call[w].pc = "wait" /\ call[w].n \in 1..calls /\ call[w].conn \in Conns
    BY DEF Timeout, ClientInv, AtWork
  <1>2. PICK c \in Conns : c = call[w].conn BY <1>1
  <1>3. PICK k \in CallT : /\ k = Failed(w, "timeout") /\ k.pc \in {"idle", "restart"}
                           /\ k.n = call[w].n
                           /\ k.pc # "idle" => k.conn = c
                           /\ k.pc = "idle" => k.answers = 0
    <2>1. "timeout" \in Triggers BY DEF Triggers
    <2> QED BY <1>1, <1>2, <2>1, Fails
  <1>4. call' = [call EXCEPT ![w] = k] BY <1>3 DEF Timeout
  <1>5. /\ pending' \in [Conns -> SUBSET Requests] /\ asked' \in [Conns -> SUBSET Requests]
        /\ answers' \in [Conns -> SUBSET Requests]
        /\ \A d \in Conns : /\ pending'[d] \subseteq pending[d]
                            /\ asked'[d] = asked[d] /\ answers'[d] = answers[d]
    <2>1. /\ pending \in [Conns -> SUBSET Requests] /\ asked \in [Conns -> SUBSET Requests]
          /\ answers \in [Conns -> SUBSET Requests]
      BY <1>1 DEF TypeOK
    <2>2. /\ pending' = [pending EXCEPT ![c] = {p \in pending[c] : p.id # call[w].id}]
          /\ asked' = asked /\ answers' = answers
      BY <1>2 DEF Timeout
    <2> QED BY <2>1, <2>2
  <1>6. \A d \in Conns : Known(d)' \subseteq Known(d) BY <1>5 DEF Known
  <1>7. UNCHANGED <<restartable, slot, writer, attempts, child, reader, next_id, calls>>
    BY DEF Timeout
  <1>8. call' \in [Callers -> CallT] /\ \A v \in Callers : Settled(v)
    <2>1. call[w].pc \notin Restarting BY <1>1 DEF Restarting
    <2>2. /\ k.pc = "restart" => k.n \in 1..calls /\ k.conn \in Conns
          /\ k.pc = "idle" => k.answers \in {0, k.n}
      BY <1>1, <1>3
    <2> QED BY <1>1, <1>3, <1>4, <2>1, <2>2, OneSettles
  <1>9. /\ child' \in [Conns -> {"none", "up", "hung", "dead"}] /\ reader' \in [Conns -> BOOLEAN]
        /\ child' = child
    BY <1>1, <1>7 DEF TypeOK
  <1> QED BY <1>5, <1>6, <1>7, <1>8, <1>9, Settles

(* A frame finds only the request it answers. *)
LEMMA ReadFrameKeeps ==
  ASSUME ClientBounds, ClientInv, NEW c \in Conns, ReadFrame(c)
  PROVE  ClientInv'
  <1>1. TypeOK BY DEF ClientInv
  <1>2. /\ pending \in [Conns -> SUBSET Requests] /\ asked \in [Conns -> SUBSET Requests]
        /\ answers \in [Conns -> SUBSET Requests]
    BY <1>1 DEF TypeOK
  <1>3. UNCHANGED <<restartable, slot, writer, attempts, child, reader, next_id, asked, calls>>
    BY DEF ReadFrame
  <1>4. PICK a \in answers[c] :
          /\ answers' = [answers EXCEPT ![c] = @ \ {a}]
          /\ pending' = [pending EXCEPT ![c] = {p \in @ : p.id # a.id}]
          /\ \/ /\ \A p \in pending[c] : p.id # a.id
                /\ UNCHANGED call
             \/ \E w \in Callers, r \in {"ok", "rpc", "malformed"} :
                   /\ call[w].pc = "wait"
                   /\ call[w].conn = c
                   /\ Waits(w) \in pending[c]
                   /\ call[w].id = a.id
                   /\ call' = [call EXCEPT ![w] = Return(w, r, a.from)]
    BY DEF ReadFrame
  <1>5. /\ pending' \in [Conns -> SUBSET Requests] /\ asked' \in [Conns -> SUBSET Requests]
        /\ answers' \in [Conns -> SUBSET Requests]
        /\ \A d \in Conns : /\ pending'[d] \subseteq pending[d] /\ asked'[d] = asked[d]
                            /\ answers'[d] \subseteq answers[d]
    BY <1>2, <1>3, <1>4
  <1>6. \A d \in Conns : Known(d)' \subseteq Known(d) BY <1>5 DEF Known
  <1>7. ASSUME UNCHANGED call PROVE call' \in [Callers -> CallT] /\ \A v \in Callers : Settled(v)
    BY <1>1, <1>7, NoneSettles
  <1>8. ASSUME NEW w \in Callers, NEW r \in {"ok", "rpc", "malformed"},
               call[w].pc = "wait", Waits(w) \in pending[c], call[w].id = a.id,
               call' = [call EXCEPT ![w] = Return(w, r, a.from)]
        PROVE  call' \in [Callers -> CallT] /\ \A v \in Callers : Settled(v)
    <2>2. a.from = call[w].n
      <3>1. Waits(w).id = a.id /\ Waits(w).from = call[w].n BY <1>8 DEF Waits
      <3>2. a \in Known(c) /\ Waits(w) \in Known(c) BY <1>4, <1>8 DEF Known
      <3>3. a = Waits(w) BY <3>1, <3>2 DEF ClientInv, OneRequestPerId
      <3> QED BY <3>1, <3>3
    <2>3. call[w].n \in 0..MaxCalls BY <1>1, CallType DEF CallT
    <2>4. r \in Results \cup RestartErrors BY DEF Results
    <2>5. PICK k \in CallT : k = Return(w, r, a.from) /\ k.pc = "idle" /\ k.answers = k.n
      BY <1>1, <2>2, <2>3, <2>4, Returns
    <2>6. call[w].pc \notin Restarting BY <1>8 DEF Restarting
    <2>7. call' = [call EXCEPT ![w] = k] BY <1>8, <2>5
    <2> QED BY <1>1, <2>5, <2>6, <2>7, OneSettles
  <1>9. call' \in [Callers -> CallT] /\ \A v \in Callers : Settled(v) BY <1>4, <1>7, <1>8
  <1>10. /\ child' \in [Conns -> {"none", "up", "hung", "dead"}] /\ reader' \in [Conns -> BOOLEAN]
         /\ child' = child
    BY <1>1, <1>3 DEF TypeOK
  <1> QED BY <1>3, <1>5, <1>6, <1>9, <1>10, Settles

(* The end of the output fails every request that waits on it. *)
LEMMA ReaderEofKeeps ==
  ASSUME ClientBounds, ClientInv, NEW c \in Conns, ReaderEof(c)
  PROVE  ClientInv'
  <1>1. TypeOK /\ AtWork BY DEF ClientInv
  <1>2. /\ UNCHANGED <<restartable, slot, writer, attempts, child, next_id, asked, answers, calls>>
        /\ pending' = [pending EXCEPT ![c] = {}]
        /\ reader' = [reader EXCEPT ![c] = FALSE]
        /\ call' = [w \in Callers |->
                   IF call[w].pc = "wait" /\ call[w].conn = c /\ Waits(w) \in pending[c]
                   THEN Failed(w, "closed") ELSE call[w]]
    BY DEF ReaderEof
  <1>3. /\ pending' \in [Conns -> SUBSET Requests] /\ asked' \in [Conns -> SUBSET Requests]
        /\ answers' \in [Conns -> SUBSET Requests]
        /\ \A d \in Conns : pending'[d] \subseteq pending[d]
    BY <1>1, <1>2 DEF TypeOK
  <1>4. \A d \in Conns : Known(d)' \subseteq Known(d) BY <1>2, <1>3 DEF Known
  <1>5. ASSUME NEW v \in Callers PROVE call'[v] \in CallT /\ Settled(v)
    <2>1. CASE call'[v] = call[v] BY <1>1, <2>1, CallType DEF Settled
    <2>2. CASE call'[v] # call[v]
      <3>1. call'[v] = Failed(v, "closed") /\ call[v].pc = "wait" BY <1>2, <2>2
      <3>2. call[v].n \in 1..calls /\ call[v].conn \in Conns BY <1>1, <3>1 DEF AtWork
      <3>3. PICK k \in CallT : /\ k = Failed(v, "closed") /\ k.n = call[v].n
                               /\ \/ k.pc = "idle" /\ k.answers = 0
                                  \/ k.pc = "restart" /\ k.conn = call[v].conn
        <4>1. "closed" \in Triggers BY DEF Triggers
        <4> QED BY <1>1, <4>1, Fails
      <3>4. call'[v] = k BY <3>1, <3>3
      <3> QED BY <3>1, <3>2, <3>3, <3>4 DEF Settled, Restarting
    <2> QED BY <2>1, <2>2
  <1>6. call' \in [Callers -> CallT] BY <1>2, <1>5
  <1>7. /\ child' \in [Conns -> {"none", "up", "hung", "dead"}] /\ reader' \in [Conns -> BOOLEAN]
        /\ child' = child
    BY <1>1, <1>2 DEF TypeOK
  <1> QED BY <1>2, <1>3, <1>4, <1>5, <1>6, <1>7, Settles

------------------------------------------------------------------------------
(* The process. *)

LEMMA AnswerKeeps ==
  ASSUME ClientBounds, ClientInv, NEW c \in Conns, Answer(c)
  PROVE  ClientInv'
  <1>1. TypeOK BY DEF ClientInv
  <1>2. UNCHANGED <<restartable, slot, writer, attempts, child, reader, pending, next_id, call, calls>>
    BY DEF Answer
  <1>3. PICK a \in asked[c] : /\ asked' = [asked EXCEPT ![c] = @ \ {a}]
                              /\ answers' = [answers EXCEPT ![c] = @ \cup {a}]
    BY DEF Answer
  <1>4. /\ pending' \in [Conns -> SUBSET Requests] /\ asked' \in [Conns -> SUBSET Requests]
        /\ answers' \in [Conns -> SUBSET Requests]
        /\ \A d \in Conns : asked'[d] \cup answers'[d] \subseteq asked[d] \cup answers[d]
    BY <1>1, <1>2, <1>3 DEF TypeOK
  <1>5. \A d \in Conns : Known(d)' \subseteq Known(d) BY <1>2, <1>4 DEF Known
  <1>6. call' \in [Callers -> CallT] /\ \A v \in Callers : Settled(v)
    BY <1>1, <1>2, NoneSettles
  <1>7. /\ child' \in [Conns -> {"none", "up", "hung", "dead"}] /\ reader' \in [Conns -> BOOLEAN]
        /\ child' = child
    BY <1>1, <1>2 DEF TypeOK
  <1> QED BY <1>2, <1>4, <1>5, <1>6, <1>7, Settles

(* A process stops, or stops answering. *)
LEMMA ChildStops ==
  ASSUME ClientBounds, ClientInv, NEW c \in Conns, child[c] \in Running,
         NEW x \in {"hung", "dead"}, child' = [child EXCEPT ![c] = x],
         UNCHANGED <<restartable, slot, writer, attempts, reader, wire, call, calls>>
  PROVE  ClientInv'
  <1>1. TypeOK BY DEF ClientInv
  <1>2. UNCHANGED <<pending, next_id, asked, answers>> BY DEF wire
  <1>3. /\ child' \in [Conns -> {"none", "up", "hung", "dead"}]
        /\ \A d \in Conns : child'[d] \in Running => child[d] \in Running
        /\ \A d \in Conns : child'[d] = "none" <=> child[d] = "none"
    BY <1>1 DEF TypeOK, Running
  <1>4. /\ pending' \in [Conns -> SUBSET Requests] /\ asked' \in [Conns -> SUBSET Requests]
        /\ answers' \in [Conns -> SUBSET Requests] /\ reader' \in [Conns -> BOOLEAN]
    BY <1>1, <1>2 DEF TypeOK
  <1>5. \A d \in Conns : Known(d)' \subseteq Known(d) BY <1>2 DEF Known
  <1>6. call' \in [Callers -> CallT] /\ \A v \in Callers : Settled(v)
    BY <1>1, NoneSettles
  <1> QED BY <1>2, <1>3, <1>4, <1>5, <1>6, Settles

LEMMA ProcessKeeps ==
  ASSUME ClientBounds, ClientInv,
         ShutdownAll \/ \E c \in Conns : Hang(c) \/ ChildDies(c)
  PROVE  ClientInv'
  <1>1. slot \in Conns BY DEF ClientInv, TypeOK
  <1>2. CASE ShutdownAll BY <1>1, <1>2, ChildStops DEF ShutdownAll
  <1>3. ASSUME NEW c \in Conns, Hang(c) PROVE ClientInv'
    <2>1. child[c] \in Running BY <1>3 DEF Hang, Running
    <2> QED BY <1>3, <2>1, ChildStops DEF Hang
  <1>4. ASSUME NEW c \in Conns, ChildDies(c) PROVE ClientInv'
    BY <1>4, ChildStops DEF ChildDies
  <1> QED BY <1>2, <1>3, <1>4

------------------------------------------------------------------------------
(* Restarts. *)

(* A caller inside try_restart is the only one there. *)
LEMMA AloneInside ==
  ASSUME ClientInv, NEW w \in Callers, call[w].pc \in Restarting
  PROVE  writer = {w} /\ \A v \in Callers : v # w => call[v].pc \notin Restarting
  <1>1. LockHeld /\ writer \subseteq Callers BY DEF ClientInv, TypeOK
  <1> QED BY <1>1 DEF LockHeld

(* A step of a restart, as far as the caller that makes it goes. *)
LEMMA RestartMoves ==
  ASSUME ClientBounds, ClientInv, NEW w \in Callers, NEW k \in CallT,
         call' = [call EXCEPT ![w] = k], k.n = call[w].n, call[w].pc # "idle",
         UNCHANGED <<wire, calls>>,
         k.pc # "idle" => k.conn \in Conns, k.pc = "idle" => k.answers = 0,
         \A v \in Callers : v # w => call[v].pc \notin Restarting,
         writer' = IF k.pc \in Restarting THEN {w} ELSE {}
  PROVE  /\ call'[w] = k /\ \A v \in Callers : v # w => call'[v] = call[v]
         /\ call' \in [Callers -> CallT] /\ AtWork' /\ OwnAnswer' /\ OneRequestPerId' /\ LockHeld'
         /\ UNCHANGED <<pending, next_id, asked, answers>>
  <1>1. /\ TypeOK /\ calls \in Nat /\ calls <= calls' /\ calls' \in Nat /\ calls' = calls
        /\ UNCHANGED <<pending, next_id, asked, answers>>
        /\ call[w].n \in 1..calls
    BY DEF ClientInv, TypeOK, AtWork, wire
  <1>2. call'[w] = k /\ \A v \in Callers : v # w => call'[v] = call[v] BY <1>1, OneCall
  <1>3. call' \in [Callers -> CallT] /\ AtWork' /\ OwnAnswer' BY <1>1, CallAfter
  <1>4. OneRequestPerId'
    <2>1. \A c \in Conns : Known(c)' \subseteq Known(c) BY <1>1 DEF Known
    <2> QED BY <1>1, <2>1, FramesUntouched
  <1>5. LockHeld' BY <1>2 DEF LockHeld
  <1> QED BY <1>1, <1>2, <1>3, <1>4, <1>5

LEMMA AcquireKeeps ==
  ASSUME ClientBounds, ClientInv, NEW w \in Callers, Acquire(w)
  PROVE  ClientInv'
  <1>1. /\ TypeOK /\ AtWork /\ ChildOf /\ Spawned /\ call[w].pc = "restart" /\ writer = {}
        /\ UNCHANGED <<restartable, slot, child, reader, wire, calls>>
        /\ UNCHANGED <<pending, next_id, asked, answers>>
    BY DEF ClientInv, Acquire, wire
  <1>2. call[w] \in CallT /\ call[w].n \in 1..calls /\ call[w].conn \in Conns
    BY <1>1, CallType DEF AtWork
  <1>3. CASE /\ call' = [call EXCEPT ![w] = Return(w, "exhausted", 0)]
             /\ UNCHANGED <<writer, attempts>>
    <2>1. "exhausted" \in Results \cup RestartErrors /\ 0 \in 0..MaxCalls
      BY DEF RestartErrors, ClientBounds
    <2>2. PICK k \in CallT : /\ k = Return(w, "exhausted", 0) /\ k.pc = "idle"
                             /\ k.answers = 0
      BY <1>1, <2>1, Returns
    <2>3. call[w].pc \notin Restarting BY <1>1 DEF Restarting
    <2>4. call' = [call EXCEPT ![w] = k] BY <1>3, <2>2
    <2>5. call' \in [Callers -> CallT] /\ \A v \in Callers : Settled(v)
      BY <1>1, <2>2, <2>3, <2>4, OneSettles
    <2>6. /\ pending' \in [Conns -> SUBSET Requests] /\ asked' \in [Conns -> SUBSET Requests]
          /\ answers' \in [Conns -> SUBSET Requests] /\ reader' \in [Conns -> BOOLEAN]
          /\ child' \in [Conns -> {"none", "up", "hung", "dead"}] /\ child' = child
      BY <1>1 DEF TypeOK
    <2>7. \A d \in Conns : Known(d)' \subseteq Known(d) BY <1>1 DEF Known
    <2> QED BY <1>1, <1>3, <2>5, <2>6, <2>7, Settles
  <1>4. CASE /\ attempts < MaxRestarts
             /\ attempts' = attempts + 1
             /\ writer' = {w}
             /\ call' = [call EXCEPT ![w].pc = "teardown"]
    <2>1. PICK k \in CallT : /\ k = [call[w] EXCEPT !.pc = "teardown"] /\ k.pc = "teardown"
                             /\ k.n = call[w].n /\ k.conn = call[w].conn
      <3>1. [call[w] EXCEPT !.pc = "teardown"] \in CallT BY <1>2, CallSets DEF Phases
      <3> QED BY <1>2, <3>1 DEF CallT
    <2>2. call' = [call EXCEPT ![w] = k] BY <1>4, <2>1, <1>1, CallType
    <2>3. \A v \in Callers : call[v].pc \notin Restarting BY <1>1 DEF ClientInv, LockHeld
    <2>4. writer' = IF k.pc \in Restarting THEN {w} ELSE {} BY <1>4, <2>1 DEF Restarting
    <2>5. /\ call'[w] = k /\ \A v \in Callers : v # w => call'[v] = call[v]
          /\ call' \in [Callers -> CallT] /\ AtWork' /\ OwnAnswer' /\ OneRequestPerId' /\ LockHeld'
      BY <1>1, <1>2, <2>1, <2>2, <2>3, <2>4, RestartMoves
    <2>6. ChildOf'
      <3>1. Up' = Up BY <1>1 DEF Up
      <3> QED BY <1>1, <1>4, <2>1, <2>5, <3>1 DEF ChildOf
    <2>7. attempts \in Nat /\ attempts' \in 0..MaxRestarts /\ Conns \subseteq Nat
      BY <1>1, <1>4, BoundsType DEF TypeOK, ClientBounds
    <2>8. Spawned'
      <3>1. \A c \in Conns : child'[c] # "none" => c <= attempts' /\ c <= attempts' + 1
        BY <1>1, <1>4, <2>7 DEF Spawned
      <3> QED BY <3>1 DEF Spawned
    <2>9. \A c \in Conns : NotYetIn(c)' => NotYetIn(c)
      BY <1>1, <1>4, <2>1, <2>5 DEF NotYetIn
    <2>10. \A v \in Callers : call'[v] = call[v] \/ call'[v].pc # "send" BY <2>1, <2>5
    <2>11. Unused' /\ IdsCounted' BY <1>1, <2>9, <2>10, NobodySends, CountUntouched
    <2>12. TypeOK' BY <1>1, <1>4, <2>5, <2>7 DEF TypeOK, CallT, Phases
    <2> QED BY <2>5, <2>6, <2>8, <2>11, <2>12 DEF ClientInv
  <1> QED BY <1>3, <1>4 DEF Acquire

LEMMA TeardownKeeps ==
  ASSUME ClientBounds, ClientInv, NEW w \in Callers, Teardown(w)
  PROVE  ClientInv'
  <1>1. /\ TypeOK /\ AtWork /\ ChildOf /\ Spawned /\ call[w].pc = "teardown"
        /\ UNCHANGED <<restartable, slot, writer, attempts, reader, wire, calls>>
        /\ child' = [child EXCEPT ![slot] = "dead"]
    BY DEF ClientInv, Teardown
  <1>2. call[w] \in CallT /\ call[w].n \in 1..calls /\ call[w].conn \in Conns
    BY <1>1, CallType DEF AtWork
  <1>3. writer = {w} /\ \A v \in Callers : v # w => call[v].pc \notin Restarting
    BY <1>1, AloneInside DEF Restarting
  <1>4. PICK k \in CallT : /\ k = [call[w] EXCEPT !.pc = "spawn"] /\ k.pc = "spawn"
                           /\ k.n = call[w].n /\ k.conn = call[w].conn
    <2>1. [call[w] EXCEPT !.pc = "spawn"] \in CallT BY <1>2, CallSets DEF Phases
    <2> QED BY <1>2, <2>1 DEF CallT
  <1>5. call' = [call EXCEPT ![w] = k] BY <1>1, <1>4, CallType DEF Teardown
  <1>6. writer' = IF k.pc \in Restarting THEN {w} ELSE {} BY <1>1, <1>3, <1>4 DEF Restarting
  <1>7. /\ call'[w] = k /\ \A v \in Callers : v # w => call'[v] = call[v]
        /\ call' \in [Callers -> CallT] /\ AtWork' /\ OwnAnswer' /\ OneRequestPerId' /\ LockHeld'
        /\ UNCHANGED <<pending, next_id, asked, answers>>
    BY <1>1, <1>2, <1>3, <1>4, <1>5, <1>6, RestartMoves
  <1>8. /\ child' \in [Conns -> {"none", "up", "hung", "dead"}]
        /\ child'[slot] = "dead" /\ \A d \in Conns : d # slot => child'[d] = child[d]
        /\ slot \in Conns
    BY <1>1 DEF TypeOK
  <1>9. Up' = {}
    <2>1. Up \subseteq {slot} BY <1>1, <1>3 DEF ChildOf
    <2> QED BY <1>8, <2>1 DEF Up, Running
  <1>10. ChildOf' BY <1>1, <1>3, <1>4, <1>7, <1>8, <1>9 DEF ChildOf
  <1>11. \A d \in Conns : child'[d] = "none" <=> child[d] = "none"
    BY <1>1, <1>8 DEF ChildOf
  <1>12. Spawned'
    <2>1. \A c \in Conns : child[c] # "none" => c <= attempts /\ c <= attempts + 1
      BY <1>1 DEF Spawned
    <2> QED BY <1>1, <1>11, <2>1 DEF Spawned
  <1>13. \A c \in Conns : NotYetIn(c)' => NotYetIn(c)
    BY <1>1, <1>3, <1>4, <1>7, <1>11 DEF NotYetIn
  <1>14. Unused' /\ IdsCounted'
    <2>1. \A v \in Callers : call'[v] = call[v] \/ call'[v].pc # "send" BY <1>4, <1>7
    <2> QED BY <1>1, <1>7, <1>13, <2>1, NobodySends, CountUntouched
  <1>15. TypeOK' BY <1>1, <1>7, <1>8 DEF TypeOK, CallT, Phases
  <1> QED BY <1>7, <1>10, <1>12, <1>14, <1>15 DEF ClientInv

LEMMA SpawnKeeps ==
  ASSUME ClientBounds, ClientInv, NEW w \in Callers, Spawn(w)
  PROVE  ClientInv'
  <1>1. /\ TypeOK /\ AtWork /\ ChildOf /\ Spawned /\ Unused /\ call[w].pc = "spawn"
        /\ UNCHANGED <<restartable, slot, writer, attempts, wire, calls>>
    BY DEF ClientInv, Spawn
  <1>2. PICK f \in Conns : /\ f = Fresh /\ child[f] = "none" /\ f <= attempts + 1 /\ f # slot
                          /\ \A c \in Conns : child[c] # "none" => c <= attempts
    BY <1>1, FreshIs
  <1>3. call[w] \in CallT BY <1>1, CallType
  <1>4. writer = {w} /\ \A v \in Callers : v # w => call[v].pc \notin Restarting
    BY <1>1, AloneInside DEF Restarting
  <1>5. PICK k \in CallT : /\ k = [call[w] EXCEPT !.pc = "handshake", !.conn = f]
                           /\ k.pc = "handshake" /\ k.n = call[w].n /\ k.conn = f
    <2>1. [call[w] EXCEPT !.pc = "handshake", !.conn = f] \in CallT BY <1>3, CallSets
    <2> QED BY <1>3, <2>1 DEF CallT
  <1>6. /\ call' = [call EXCEPT ![w] = k]
        /\ child' = [child EXCEPT ![f] = "up"] /\ reader' = [reader EXCEPT ![f] = TRUE]
    BY <1>1, <1>2, <1>5, CallType DEF Spawn
  <1>7. writer' = IF k.pc \in Restarting THEN {w} ELSE {} BY <1>1, <1>4, <1>5 DEF Restarting
  <1>8. /\ call'[w] = k /\ \A v \in Callers : v # w => call'[v] = call[v]
        /\ call' \in [Callers -> CallT] /\ AtWork' /\ OwnAnswer' /\ OneRequestPerId' /\ LockHeld'
        /\ UNCHANGED <<pending, next_id, asked, answers>>
    BY <1>1, <1>4, <1>5, <1>6, <1>7, RestartMoves
  <1>9. /\ child' \in [Conns -> {"none", "up", "hung", "dead"}] /\ reader' \in [Conns -> BOOLEAN]
        /\ child'[f] = "up" /\ \A d \in Conns : d # f => child'[d] = child[d]
    BY <1>1, <1>2, <1>6 DEF TypeOK
  <1>10. ChildOf'
    <2>1. Up = {} BY <1>1, <1>4 DEF ChildOf
    <2>2. Up' \subseteq {f} BY <1>9, <2>1 DEF Up
    <2>3. child'[slot] # "none" BY <1>1, <1>2, <1>9 DEF ChildOf, TypeOK
    <2>4. writer' = {w} /\ slot' = slot BY <1>1, <1>4
    <2>5. call'[w].pc = "handshake" /\ call'[w].conn = f BY <1>5, <1>8
    <2>6. child'[f] # "none" /\ f # slot BY <1>2, <1>9
    <2> QED BY <2>2, <2>3, <2>4, <2>5, <2>6 DEF ChildOf
  <1>11. Spawned'
    <2>1. attempts \in Nat /\ Conns \subseteq Nat BY <1>1, BoundsType DEF TypeOK, ClientBounds
    <2>2. \A c \in Conns : child'[c] # "none" => c <= attempts + 1 BY <1>2, <1>9, <2>1
    <2>3. \A v \in Callers : call'[v].pc \notin {"teardown", "spawn"}
      BY <1>4, <1>5, <1>8 DEF Restarting
    <2> QED BY <1>1, <2>2, <2>3 DEF Spawned
  <1>12. \A c \in Conns : NotYetIn(c)' => NotYetIn(c)
    <2>1. ASSUME NEW c \in Conns, NotYetIn(c)' PROVE child[c] = "none"
      <3>1. CASE child'[c] = "none" BY <1>9, <3>1
      <3>2. CASE \E v \in writer' : call'[v].pc = "handshake" /\ call'[v].conn = c
        <4>1. k.conn = c BY <1>1, <1>4, <1>8, <3>2
        <4> QED BY <1>2, <1>5, <4>1
      <3> QED BY <2>1, <3>1, <3>2 DEF NotYetIn
    <2> QED BY <2>1 DEF NotYetIn
  <1>13. Unused' /\ IdsCounted'
    <2>1. \A v \in Callers : call'[v] = call[v] \/ call'[v].pc # "send" BY <1>5, <1>8
    <2> QED BY <1>1, <1>8, <1>12, <2>1, NobodySends, CountUntouched
  <1>14. TypeOK' BY <1>1, <1>8, <1>9 DEF TypeOK, CallT, Phases
  <1> QED BY <1>8, <1>10, <1>11, <1>13, <1>14 DEF ClientInv

(* A restart that fails leaves no process, and gives the lock back. *)
LEMMA GivesUp ==
  ASSUME ClientBounds, ClientInv, NEW w \in Callers, call[w].pc \in Restarting,
         NEW r \in RestartErrors, call' = [call EXCEPT ![w] = Return(w, r, 0)],
         writer' = {}, UNCHANGED <<restartable, slot, attempts, wire, calls>>,
         child' \in [Conns -> {"none", "up", "hung", "dead"}], reader' \in [Conns -> BOOLEAN],
         \A c \in Conns : child'[c] \notin Running,
         \A c \in Conns : child'[c] = "none" <=> child[c] = "none"
  PROVE  ClientInv'
  <1>1. TypeOK /\ ChildOf /\ Spawned BY DEF ClientInv
  <1>2. writer = {w} /\ \A v \in Callers : v # w => call[v].pc \notin Restarting
    BY AloneInside
  <1>3. r \in Results \cup RestartErrors /\ 0 \in 0..MaxCalls BY DEF ClientBounds
  <1>4. PICK k \in CallT : /\ k = Return(w, r, 0) /\ k.pc = "idle" /\ k.n = call[w].n
                           /\ k.answers = 0
    BY <1>1, <1>3, Returns
  <1>5. call' = [call EXCEPT ![w] = k] /\ call[w].pc # "idle" BY <1>4 DEF Restarting
  <1>6. writer' = IF k.pc \in Restarting THEN {w} ELSE {} BY <1>4 DEF Restarting
  <1>7. /\ call'[w] = k /\ \A v \in Callers : v # w => call'[v] = call[v]
        /\ call' \in [Callers -> CallT] /\ AtWork' /\ OwnAnswer' /\ OneRequestPerId' /\ LockHeld'
        /\ UNCHANGED <<pending, next_id, asked, answers>>
    <2>1. k.pc # "idle" => k.conn \in Conns BY <1>4
    <2>2. UNCHANGED <<wire, calls>> OBVIOUS
    <2>3. k.n = call[w].n /\ (k.pc = "idle" => k.answers = 0) BY <1>4
    <2>4. ClientBounds /\ ClientInv /\ w \in Callers /\ k \in CallT OBVIOUS
    <2> QED BY ONLY <1>2, <1>5, <1>6, <2>1, <2>2, <2>3, <2>4, RestartMoves
  <1>8. ChildOf'
    <2>1. Up' = {} BY DEF Up
    <2>2. child'[slot] # "none" BY <1>1 DEF ChildOf, TypeOK
    <2> QED BY <2>1, <2>2 DEF ChildOf
  <1>9. Spawned'
    <2>1. \A v \in Callers : call'[v].pc \notin {"teardown", "spawn"}
      BY <1>2, <1>4, <1>7 DEF Restarting
    <2> QED BY <1>1, <2>1 DEF Spawned
  <1>10. \A c \in Conns : NotYetIn(c)' => NotYetIn(c) BY DEF NotYetIn
  <1>11. Unused' /\ IdsCounted'
    <2>1. \A v \in Callers : call'[v] = call[v] \/ call'[v].pc # "send" BY <1>4, <1>7
    <2> QED BY <1>7, <1>10, <2>1, NobodySends, CountUntouched
  <1>12. TypeOK' BY <1>1, <1>7 DEF TypeOK, CallT, Phases
  <1> QED BY <1>7, <1>8, <1>9, <1>11, <1>12 DEF ClientInv

LEMMA FailedRestartKeeps ==
  ASSUME ClientBounds, ClientInv, NEW w \in Callers, SpawnFails(w) \/ HandshakeFails(w)
  PROVE  ClientInv'
  <1>1. TypeOK /\ ChildOf /\ AtWork BY DEF ClientInv
  <1>2. call[w].pc \in Restarting BY DEF SpawnFails, HandshakeFails, Restarting
  <1>3. writer = {w} BY <1>2, AloneInside
  <1>4. /\ child \in [Conns -> {"none", "up", "hung", "dead"}] /\ reader \in [Conns -> BOOLEAN]
    BY <1>1 DEF TypeOK
  <1>5. CASE SpawnFails(w)
    <2>1. "spawn" \in RestartErrors BY DEF RestartErrors
    <2>2. Up = {} BY <1>1, <1>3, <1>5 DEF ChildOf, SpawnFails
    <2>3. child' = child /\ reader' = reader BY <1>5 DEF SpawnFails
    <2>4. \A c \in Conns : child'[c] \notin Running BY <2>2, <2>3 DEF Up
    <2> QED BY <1>2, <1>4, <1>5, <2>1, <2>3, <2>4, GivesUp DEF SpawnFails
  <1>6. CASE HandshakeFails(w)
    <2>1. "handshake" \in RestartErrors BY DEF RestartErrors
    <2>2. call[w].pc = "handshake" BY <1>6 DEF HandshakeFails
    <2>3. PICK f \in Conns : f = call[w].conn BY <1>1, <2>2 DEF AtWork
    <2>4. Up \subseteq {f} /\ child[f] # "none" BY <1>1, <1>3, <2>2, <2>3 DEF ChildOf
    <2>5. child' = [child EXCEPT ![f] = "dead"] /\ reader' = [reader EXCEPT ![f] = FALSE]
      BY <1>6, <2>3 DEF HandshakeFails
    <2>6. /\ child' \in [Conns -> {"none", "up", "hung", "dead"}] /\ reader' \in [Conns -> BOOLEAN]
          /\ child'[f] = "dead" /\ \A d \in Conns : d # f => child'[d] = child[d]
      BY <1>4, <2>5
    <2>7. \A c \in Conns : child'[c] \notin Running BY <2>4, <2>6 DEF Up, Running
    <2>8. \A c \in Conns : child'[c] = "none" <=> child[c] = "none" BY <2>4, <2>6
    <2> QED BY <1>2, <1>6, <2>1, <2>6, <2>7, <2>8, GivesUp DEF HandshakeFails
  <1> QED BY <1>5, <1>6

(* The fresh connection has carried nothing, and the call is counted. *)
LEMMA HandshakeOkKeeps ==
  ASSUME ClientBounds, ClientInv, NEW w \in Callers, HandshakeOk(w)
  PROVE  ClientInv'
  <1>1. /\ TypeOK /\ AtWork /\ ChildOf /\ Spawned /\ Unused /\ IdsCounted
        /\ call[w].pc = "handshake"
        /\ UNCHANGED <<restartable, attempts, child, reader, wire, calls>> /\ writer' = {}
    BY DEF ClientInv, HandshakeOk
  <1>2. PICK f \in Conns : f = call[w].conn BY <1>1 DEF AtWork
  <1>3. call[w] \in CallT /\ call[w].n \in 1..calls BY <1>1, CallType DEF AtWork
  <1>4. writer = {w} /\ \A v \in Callers : v # w => call[v].pc \notin Restarting
    BY <1>1, AloneInside DEF Restarting
  <1>5. PICK k \in CallT : /\ k = [call[w] EXCEPT !.pc = "send", !.tries = 2]
                           /\ k.pc = "send" /\ k.n = call[w].n /\ k.conn = f
    <2>1. [call[w] EXCEPT !.pc = "send", !.tries = 2] \in CallT BY <1>3, CallSets
    <2> QED BY <1>2, <1>3, <2>1 DEF CallT
  <1>6. call' = [call EXCEPT ![w] = k] /\ slot' = f
    BY <1>1, <1>2, <1>5, CallType DEF HandshakeOk
  <1>7. writer' = IF k.pc \in Restarting THEN {w} ELSE {} BY <1>1, <1>5 DEF Restarting
  <1>8. /\ call'[w] = k /\ \A v \in Callers : v # w => call'[v] = call[v]
        /\ call' \in [Callers -> CallT] /\ AtWork' /\ OwnAnswer' /\ OneRequestPerId' /\ LockHeld'
        /\ UNCHANGED <<pending, next_id, asked, answers>>
    BY <1>1, <1>4, <1>5, <1>6, <1>7, RestartMoves
  <1>9. Up \subseteq {f} /\ child[f] # "none" BY <1>1, <1>2, <1>4 DEF ChildOf
  <1>10. ChildOf'
    <2>1. Up' = Up BY <1>1 DEF Up
    <2> QED BY <1>1, <1>6, <1>9, <2>1 DEF ChildOf
  <1>11. Spawned'
    <2>1. \A v \in Callers : call'[v].pc \notin {"teardown", "spawn"}
      BY <1>4, <1>5, <1>8 DEF Restarting
    <2> QED BY <1>1, <2>1 DEF Spawned
  <1>12. \A c \in Conns : NotYetIn(c)' => NotYetIn(c) /\ c # f
    BY <1>1, <1>9 DEF NotYetIn
  <1>13. /\ \A v \in Sending(f)' : v \in Sending(f) \/ v = w
         /\ \A c \in Conns : c # f => Sending(c)' = Sending(c)
    <2>1. \A v \in Callers : v # w => call'[v] = call[v] BY <1>8
    <2>2. \A v \in Sending(f)' : v \in Sending(f) \/ v = w BY <2>1 DEF Sending
    <2>3. call[w].pc # "send" /\ call'[w].conn = f BY <1>1, <1>5, <1>8
    <2>4. ASSUME NEW c \in Conns, c # f PROVE Sending(c)' = Sending(c)
      BY <2>1, <2>3, <2>4 DEF Sending
    <2> QED BY <2>2, <2>4
  <1>14. Unused' BY <1>1, <1>8, <1>12, <1>13 DEF Unused
  <1>15. IdsCounted'
    <2> SUFFICES ASSUME NEW c \in Conns, NEW S, S = Sending(c)'
                 PROVE  next_id[c] + Cardinality(S) <= calls + 1
      BY <1>1, <1>8 DEF IdsCounted
    <2>1. CASE c # f BY <1>1, <1>13, <2>1 DEF IdsCounted
    <2>2. CASE c = f
      <3>1. NotYetIn(f) BY <1>1, <1>2, <1>4 DEF NotYetIn
      <3>2. next_id[f] = 1 /\ Sending(f) = {} BY <1>1, <3>1 DEF Unused
      <3>3. S \subseteq {} \cup {w} BY <1>13, <2>2, <3>2
      <3>4. Cardinality(S) <= 0 + 1 /\ Cardinality(S) \in Nat
        BY <3>3, OneMore, FS_EmptySet
      <3>5. calls \in Nat /\ 1 <= calls BY <1>1, <1>3 DEF TypeOK
      <3> QED BY <2>2, <3>2, <3>4, <3>5
    <2> QED BY <2>1, <2>2
  <1>16. TypeOK' BY <1>1, <1>6, <1>8 DEF TypeOK, CallT, Phases
  <1> QED BY <1>8, <1>10, <1>11, <1>14, <1>15, <1>16 DEF ClientInv

------------------------------------------------------------------------------
(* The theorems. *)

LEMMA ClientStep == ASSUME ClientBounds, ClientInv, [Next]_vars PROVE ClientInv'
  <1>1. CASE UNCHANGED vars
    <2>1. TypeOK BY DEF ClientInv
    <2>2. call' \in [Callers -> CallT] /\ \A v \in Callers : Settled(v)
      BY <1>1, <2>1, NoneSettles DEF vars
    <2>3. /\ pending' \in [Conns -> SUBSET Requests] /\ asked' \in [Conns -> SUBSET Requests]
          /\ answers' \in [Conns -> SUBSET Requests] /\ reader' \in [Conns -> BOOLEAN]
          /\ child' \in [Conns -> {"none", "up", "hung", "dead"}]
          /\ UNCHANGED <<restartable, slot, writer, attempts, child, next_id, calls>>
      BY <1>1, <2>1 DEF TypeOK, vars
    <2>4. \A d \in Conns : Known(d)' \subseteq Known(d) BY <1>1 DEF Known, vars
    <2> QED BY <2>2, <2>3, <2>4, Settles
  <1>2. ASSUME NEW w \in Callers, Call(w) \/ Step(w) PROVE ClientInv'
    <2>1. CASE Call(w) BY <2>1, CallKeeps
    <2>2. CASE Send(w) BY <2>2, SendKeeps
    <2>3. CASE Timeout(w) BY <2>3, TimeoutKeeps
    <2>4. CASE Acquire(w) BY <2>4, AcquireKeeps
    <2>5. CASE Teardown(w) BY <2>5, TeardownKeeps
    <2>6. CASE Spawn(w) BY <2>6, SpawnKeeps
    <2>7. CASE SpawnFails(w) \/ HandshakeFails(w) BY <2>7, FailedRestartKeeps
    <2>8. CASE HandshakeOk(w) BY <2>8, HandshakeOkKeeps
    <2> QED BY <1>2, <2>1, <2>2, <2>3, <2>4, <2>5, <2>6, <2>7, <2>8 DEF Step, Restart
  <1>3. ASSUME NEW c \in Conns, ReadFrame(c) \/ ReaderEof(c) \/ Answer(c) \/ Hang(c) \/ ChildDies(c)
        PROVE  ClientInv'
    BY <1>3, ReadFrameKeeps, ReaderEofKeeps, AnswerKeeps, ProcessKeeps
  <1>4. CASE ShutdownAll BY <1>4, ProcessKeeps
  <1> QED BY <1>1, <1>2, <1>3, <1>4 DEF Next

(* For any number of callers, calls and restarts, with processes that die, *)
(* hang or answer late at any point, the invariant below holds: its parts  *)
(* say who holds the write lock, which child may run at each point of      *)
(* try_restart, and that an id stands for one request of a connection.     *)
THEOREM ClientInvariant == ASSUME ClientBounds PROVE Spec => []ClientInv
  <1>1. Init => ClientInv BY InitClient
  <1>2. ClientInv /\ [Next]_vars => ClientInv' BY ClientStep
  <1> QED BY <1>1, <1>2, PTL DEF Spec

(* A frame of run_reader ends the call whose request it answers, never     *)
(* another: not after a time-out, and not across a restart.                *)
THEOREM AnswersReachTheirCall == ASSUME ClientBounds PROVE Spec => []OwnAnswer
  <1>1. ClientInv => OwnAnswer BY DEF ClientInv
  <1> QED BY <1>1, ClientInvariant, PTL

(* Restarts, failed ones and late ones included, never leave two processes *)
(* of the server running.                                                  *)
THEOREM OneChildRuns == ASSUME ClientBounds PROVE Spec => []OneChild
  <1>1. ASSUME ClientInv PROVE OneChild
    <2>1. /\ ChildOf /\ LockHeld /\ writer \subseteq Callers BY <1>1 DEF ClientInv, TypeOK
    <2>2. PICK c : Up \subseteq {c}
      <3>1. CASE writer = {} BY <2>1, <3>1 DEF ChildOf
      <3>2. ASSUME NEW w \in writer PROVE \E c : Up \subseteq {c}
        <4>1. call[w].pc \in Restarting BY <2>1 DEF LockHeld
        <4> QED BY <2>1, <4>1 DEF ChildOf, Restarting
      <3> QED BY <3>1, <3>2
    <2>3. IsFiniteSet({}) /\ Cardinality({}) = 0 /\ Up \subseteq {} \cup {c}
      BY <2>2, FS_EmptySet
    <2>4. Cardinality(Up) <= 1
      <3>1. Cardinality(Up) <= 0 + 1 /\ Cardinality(Up) \in Nat BY <2>3, OneMore
      <3> QED BY <3>1
    <2> QED BY <2>4 DEF OneChild, Up
  <1> QED BY <1>1, ClientInvariant, PTL
=============================================================================
