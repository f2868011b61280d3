------------------------------ MODULE RpcProofs ------------------------------
(***************************************************************************)
(* Proofs about Rpc for any number of callers, slots and commands.         *)
(*                                                                         *)
(* Types: the types, without the upper bound on `remaining'.               *)
(* Queue: the queue of the semaphore lists the blocked callers, once each. *)
(* Ids:   ids in use are below next_id, an id has one owner, and every     *)
(*        message under way that carries a pending id names its owner.     *)
(* Slots follow by counting the callers that hold one.                     *)
(***************************************************************************)
EXTENDS Rpc, FiniteSetTheorems, TLAPS

Types ==
    /\ remaining \in Nat
    /\ sem_blocked \in Seq(Callers)
    /\ status \in [Callers -> SlotHolding \cup Resting \cup {"blocked"}]
    /\ is_shutting_down \in BOOLEAN
    /\ next_id \in 0 .. MaxCommands
    /\ pendings \in SUBSET Message
    /\ to_write \in Seq(Message)
    /\ write_event \in BOOLEAN
    /\ wire \in SUBSET Message
    /\ inbox \in SUBSET Response
    /\ buffer \in SUBSET Response
    /\ read_parse_active \in BOOLEAN
    /\ got \in [Callers -> Callers]

Queue ==
    /\ \A i, j \in 1 .. Len(sem_blocked) : sem_blocked[i] = sem_blocked[j] => i = j
    /\ \A c \in Callers :
           status[c] = "blocked" <=> \E i \in 1 .. Len(sem_blocked) : sem_blocked[i] = c

Known(m, n, P) == m.id < n /\ \A p \in P : p.id = m.id => p.who = m.who

Ids ==
    /\ \A i \in 1 .. Len(to_write) : Known(to_write[i], next_id, pendings)
    /\ \A m \in wire \cup inbox \cup buffer : Known(m, next_id, pendings)
    /\ \A p \in pendings : p.id < next_id
    /\ \A p, q \in pendings : p.id = q.id \/ p.who = q.who => p = q
    /\ is_shutting_down => pendings = {}

Status == SlotHolding \cup Resting \cup {"blocked"}

-----------------------------------------------------------------------------
(* The semaphore. *)

\* What Unblock does to the queue and to the status of the callers.
LEMMA UnblockQueue ==
    ASSUME sem_blocked \in Seq(Callers), remaining \in Nat,
           NEW n \in Nat, NEW s \in [Callers -> Status],
           Unblock(n, s)
    PROVE  /\ ServedNext(n) \in 0 .. Len(sem_blocked)
           /\ ServedNext(n) <= n
           /\ n = ServedNext(n) \/ ServedNext(n) = Len(sem_blocked)
           /\ remaining' = remaining + n - ServedNext(n)
           /\ remaining' \in Nat
           /\ sem_blocked' \in Seq(Callers)
           /\ Len(sem_blocked') = Len(sem_blocked) - ServedNext(n)
           /\ \A i \in 1 .. Len(sem_blocked') : sem_blocked'[i] = sem_blocked[i + ServedNext(n)]
           /\ \A c \in Callers : status'[c] =
                  IF \E i \in 1 .. ServedNext(n) : sem_blocked[i] = c THEN "out" ELSE s[c]
           /\ status' \in [Callers -> Status]
<1> DEFINE k == ServedNext(n)
<1>1. k \in 0 .. Len(sem_blocked) /\ k <= n /\ (n = k \/ k = Len(sem_blocked))
  BY DEF ServedNext
<1>2. remaining' = remaining + n - k
  BY DEF Unblock
<1>3. sem_blocked' = SubSeq(sem_blocked, k + 1, Len(sem_blocked))
  BY DEF Unblock
<1>4. status' = [c \in Callers |-> IF c \in {sem_blocked[i] : i \in 1 .. k} THEN "out" ELSE s[c]]
  BY DEF Unblock
<1> HIDE DEF k
<1>5. /\ sem_blocked' \in Seq(Callers)
      /\ Len(sem_blocked') = Len(sem_blocked) - k
      /\ \A i \in 1 .. Len(sem_blocked') : sem_blocked'[i] = sem_blocked[i + k]
  BY <1>1, <1>3
<1>6. remaining' \in Nat
  BY <1>1, <1>2
<1>7. \A c \in Callers : status'[c] =
          IF \E i \in 1 .. k : sem_blocked[i] = c THEN "out" ELSE s[c]
  BY <1>4
<1>8. status' \in [Callers -> Status]
  BY <1>4 DEF Status, SlotHolding
<1> QED BY <1>1, <1>2, <1>5, <1>6, <1>7, <1>8 DEF k

\* Unblock keeps the queue and the status of the callers in step, when the
\* callers that give up a slot are neither queued before nor after.
LEMMA UnblockKeepsQueue ==
    ASSUME sem_blocked \in Seq(Callers), remaining \in Nat, Queue,
           NEW n \in Nat, NEW s \in [Callers -> Status],
           \A c \in Callers : s[c] = "blocked" <=> status[c] = "blocked",
           Unblock(n, s)
    PROVE  Queue'
<1> DEFINE k == ServedNext(n)
<1>1. /\ k \in 0 .. Len(sem_blocked)
      /\ sem_blocked' \in Seq(Callers)
      /\ Len(sem_blocked') = Len(sem_blocked) - k
      /\ \A i \in 1 .. Len(sem_blocked') : sem_blocked'[i] = sem_blocked[i + k]
      /\ \A c \in Callers : status'[c] =
             IF \E i \in 1 .. k : sem_blocked[i] = c THEN "out" ELSE s[c]
  BY UnblockQueue
<1> HIDE DEF k
<1>2. \A i, j \in 1 .. Len(sem_blocked') : sem_blocked'[i] = sem_blocked'[j] => i = j
  <2> SUFFICES ASSUME NEW i \in 1 .. Len(sem_blocked'), NEW j \in 1 .. Len(sem_blocked'),
                      sem_blocked'[i] = sem_blocked'[j]
               PROVE  i = j
    OBVIOUS
  <2>1. i + k \in 1 .. Len(sem_blocked) /\ j + k \in 1 .. Len(sem_blocked)
    BY <1>1
  <2>2. sem_blocked[i + k] = sem_blocked[j + k]
    BY <1>1
  <2>3. i + k = j + k
    BY <2>1, <2>2 DEF Queue
  <2> QED BY <2>3, <1>1
<1>3. ASSUME NEW c \in Callers
      PROVE  status'[c] = "blocked" <=> \E i \in 1 .. Len(sem_blocked') : sem_blocked'[i] = c
  <2>1. CASE \E i \in 1 .. k : sem_blocked[i] = c
    <3>1. status'[c] = "out"
      BY <1>1, <2>1
    <3>2. ASSUME NEW j \in 1 .. Len(sem_blocked'), sem_blocked'[j] = c PROVE FALSE
      <4>1. PICK i \in 1 .. k : sem_blocked[i] = c
        BY <2>1
      <4>2a. Len(sem_blocked) \in Nat /\ Len(sem_blocked') \in Nat
        BY <1>1
      <4>2b. j + k \in 1 .. Len(sem_blocked) /\ i \in 1 .. Len(sem_blocked)
        BY <1>1, <4>2a
      <4>2. j + k \in 1 .. Len(sem_blocked) /\ sem_blocked[j + k] = c /\ i \in 1 .. Len(sem_blocked)
        BY <1>1, <3>2, <4>2b
      <4>3. j + k = i
        BY <4>1, <4>2 DEF Queue
      <4> QED BY <4>3, <1>1
    <3> QED BY <3>1, <3>2
  <2>2. CASE ~ \E i \in 1 .. k : sem_blocked[i] = c
    <3>1. status'[c] = s[c]
      BY <1>1, <2>2
    <3>2. status'[c] = "blocked" <=> \E i \in 1 .. Len(sem_blocked) : sem_blocked[i] = c
      BY <3>1 DEF Queue
    <3>3. ASSUME NEW i \in 1 .. Len(sem_blocked), sem_blocked[i] = c
          PROVE  \E j \in 1 .. Len(sem_blocked') : sem_blocked'[j] = c
      <4>1. i - k \in 1 .. Len(sem_blocked') /\ (i - k) + k = i
        BY <1>1, <2>2, <3>3
      <4>2. sem_blocked'[i - k] = c
        BY <4>1, <1>1, <3>3
      <4> QED BY <4>1, <4>2
    <3>4. ASSUME NEW j \in 1 .. Len(sem_blocked'), sem_blocked'[j] = c
          PROVE  \E i \in 1 .. Len(sem_blocked) : sem_blocked[i] = c
      <4>1. j + k \in 1 .. Len(sem_blocked) /\ sem_blocked[j + k] = c
        BY <1>1, <3>4
      <4> QED BY <4>1
    <3> QED BY <3>2, <3>3, <3>4
  <2> QED BY <2>1, <2>2
<1> QED BY <1>2, <1>3 DEF Queue

-----------------------------------------------------------------------------
(* Types and the queue are inductive. *)

LEMMA InitTypes == RpcInit => Types /\ Queue /\ Ids
<1> SUFFICES ASSUME RpcInit PROVE Types /\ Queue /\ Ids
  OBVIOUS
<1> USE DEF RpcInit
<1>1. Types
  <2>1. is_shutting_down \in BOOLEAN /\ write_event \in BOOLEAN /\ read_parse_active \in BOOLEAN
    BY Zenon
  <2>2. /\ remaining \in Nat /\ next_id \in 0 .. MaxCommands
        /\ sem_blocked \in Seq(Callers) /\ to_write \in Seq(Message)
    BY RpcAssumption
  <2>3. /\ status \in [Callers -> SlotHolding \cup Resting \cup {"blocked"}]
        /\ got \in [Callers -> Callers]
    BY DEF Resting
  <2> QED BY <2>1, <2>2, <2>3 DEF Types
<1>2. Queue
  BY DEF Queue
<1>3. Ids
  BY DEF Ids
<1> QED BY <1>1, <1>2, <1>3

\* Every step keeps the types.
LEMMA StepTypes == Types /\ [RpcNext]_rpcVars => Types'
<1> SUFFICES ASSUME Types, [RpcNext]_rpcVars PROVE Types'
  OBVIOUS
<1> USE DEF Types
<1>1. ASSUME NEW c \in Callers, CommandPass(c) PROVE Types'
  BY <1>1 DEF CommandPass, SlotHolding, sem, socket, parser
<1>2. ASSUME NEW c \in Callers, CommandBlock(c) PROVE Types'
  BY <1>2 DEF CommandBlock, socket, parser
<1>3. ASSUME NEW q \in Seq(Message), NEW k \in 0 .. Len(q), OnWrite(q, k)
      PROVE  wire' \in SUBSET Message /\ to_write' \in Seq(Message) /\ write_event' \in BOOLEAN
  <2>1. wire' \in SUBSET Message
    BY <1>3 DEF OnWrite
  <2>2. to_write' \in Seq(Message)
    BY <1>3 DEF OnWrite
  <2>3. write_event' \in BOOLEAN
    BY <1>3, Zenon DEF OnWrite
  <2> QED BY <2>1, <2>2, <2>3
<1>4. ASSUME NEW c \in Callers, CoreCommand(c) PROVE Types'
  <2> DEFINE m == [id |-> next_id, who |-> c]
             q == Append(to_write, m)
  <2>1. m \in Message /\ q \in Seq(Message) /\ Len(q) = Len(to_write) + 1
    BY DEF Message
  <2>2. PICK k \in 0 .. Len(q) : OnWrite(q, k)
    BY <1>4, <2>1 DEF CoreCommand
  <2>3. wire' \in SUBSET Message /\ to_write' \in Seq(Message) /\ write_event' \in BOOLEAN
    BY <1>3, <2>1, <2>2
  <2>4. pendings' \in SUBSET Message
    BY <1>4, <2>1 DEF CoreCommand
  <2>5. next_id' \in 0 .. MaxCommands
    BY <1>4, RpcAssumption DEF CoreCommand
  <2>6. status' \in [Callers -> SlotHolding \cup Resting \cup {"blocked"}]
    BY <1>4 DEF CoreCommand, SlotHolding
  <2> QED BY <1>4, <2>3, <2>4, <2>5, <2>6 DEF CoreCommand, sem, parser
<1>5. ASSUME NEW c \in Callers, CoreCommandShutdown(c) PROVE Types'
  <2>1. [status EXCEPT ![c] = "shutdown"] \in [Callers -> Status]
    BY DEF Status, Resting
  <2>2. Unblock(1, [status EXCEPT ![c] = "shutdown"])
    BY <1>5 DEF CoreCommandShutdown
  <2>3. remaining' \in Nat /\ sem_blocked' \in Seq(Callers) /\ status' \in [Callers -> Status]
    BY <2>1, <2>2, UnblockQueue
  <2> QED BY <1>5, <2>3 DEF CoreCommandShutdown, Status, socket, parser
<1>6. CASE OnWriteReady
  <2>1. PICK k \in 1 .. Len(to_write) : OnWrite(to_write, k)
    BY <1>6 DEF OnWriteReady
  <2>2. wire' \in SUBSET Message /\ to_write' \in Seq(Message) /\ write_event' \in BOOLEAN
    BY <1>3, <2>1
  <2> QED BY <1>6, <2>2 DEF OnWriteReady, sem, parser
<1>7. ASSUME NEW m \in wire, NEW kind \in Kind, Lightningd(m, kind) PROVE Types'
  <2>1. [id |-> m.id, who |-> m.who, kind |-> kind] \in Response
    BY DEF Message, Response
  <2> QED BY <1>7, <2>1 DEF Lightningd, sem, parser
<1>8. CASE OnRead
  BY <1>8 DEF OnRead, sem
<1>9. CASE OnReadParse
  <2>1. PICK f \in [Answered -> buffer] :
        /\ \A p \in Answered : f[p] \in Matched(p)
        /\ pendings' = pendings \ Answered
        /\ status' = [c \in Callers |->
               IF \E p \in Answered : p.who = c
               THEN LET p == CHOOSE q \in Answered : q.who = c
                    IN  IF f[p].kind = "result" THEN "in" ELSE "errlog"
               ELSE status[c]]
        /\ got' = [c \in Callers |->
               IF \E p \in Answered : p.who = c
               THEN f[CHOOSE q \in Answered : q.who = c].who
               ELSE got[c]]
    BY <1>9 DEF OnReadParse, ProcessResponses
  <2>2. status' \in [Callers -> SlotHolding \cup Resting \cup {"blocked"}]
    BY <2>1 DEF SlotHolding
  <2>3. got' \in [Callers -> Callers]
    <3>1. ASSUME NEW c \in Callers, \E p \in Answered : p.who = c
          PROVE  f[CHOOSE q \in Answered : q.who = c].who \in Callers
      BY <3>1, <2>1 DEF Response
    <3> QED BY <2>1, <3>1
  <2> QED BY <1>9, <2>1, <2>2, <2>3 DEF OnReadParse, sem, socket
<1>10. ASSUME NEW c \in Callers, Return(c) PROVE Types'
  <2> DEFINE s == [status EXCEPT ![c] = IF status[c] = "in" THEN "ok" ELSE "err"]
  <2>1. s \in [Callers -> Status]
    BY DEF Status, Resting
  <2>2. Unblock(1, s)
    BY <1>10 DEF Return
  <2>3. remaining' \in Nat /\ sem_blocked' \in Seq(Callers) /\ status' \in [Callers -> Status]
    BY <2>1, <2>2, UnblockQueue
  <2> QED BY <1>10, <2>3 DEF Return, Status, socket, parser
<1>11. CASE RpcShutdown
  <2> DEFINE F == {p.who : p \in pendings}
             s == [c \in Callers |-> IF c \in F THEN "shutdown" ELSE status[c]]
  <2>1. s \in [Callers -> Status]
    BY DEF Status, Resting
  <2>2. Unblock(Cardinality(F), s)
    BY <1>11 DEF RpcShutdown
  <2>3. Cardinality(F) \in Nat
    <3>1. F \subseteq Callers
      BY DEF Message
    <3> QED BY <3>1, RpcAssumption, FS_Subset, FS_CardinalityType
  <2>4. remaining' \in Nat /\ sem_blocked' \in Seq(Callers) /\ status' \in [Callers -> Status]
    BY <2>1, <2>2, <2>3, UnblockQueue
  <2> QED BY <1>11, <2>4 DEF RpcShutdown, Status, parser
<1>12. CASE UNCHANGED rpcVars
  BY <1>12 DEF rpcVars, sem, socket, parser
<1> QED BY <1>1, <1>2, <1>4, <1>5, <1>6, <1>7, <1>8, <1>9, <1>10, <1>11, <1>12 DEF RpcNext

\* Every step keeps the queue.
LEMMA StepQueue == Types /\ Queue /\ NoForgottenWaiter /\ [RpcNext]_rpcVars => Queue'
<1> SUFFICES ASSUME Types, Queue, NoForgottenWaiter, [RpcNext]_rpcVars PROVE Queue'
  OBVIOUS
<1>0. /\ sem_blocked \in Seq(Callers) /\ remaining \in Nat
      /\ status \in [Callers -> Status] /\ pendings \in SUBSET Message
  BY DEF Types, Status
<1>1. ASSUME NEW c \in Callers, CommandPass(c) PROVE Queue'
  BY <1>0, <1>1 DEF CommandPass, Queue, Waiting, Resting
<1>2. ASSUME NEW c \in Callers, CommandBlock(c) PROVE Queue'
  <2>1. /\ Len(sem_blocked') = Len(sem_blocked) + 1
        /\ sem_blocked'[Len(sem_blocked) + 1] = c
        /\ \A i \in 1 .. Len(sem_blocked) : sem_blocked'[i] = sem_blocked[i]
    BY <1>0, <1>2 DEF CommandBlock
  <2>2. \A i \in 1 .. Len(sem_blocked) : sem_blocked[i] # c
    BY <1>0, <1>2 DEF CommandBlock, Queue, Waiting, Resting
  <2>3. \A i, j \in 1 .. Len(sem_blocked') : sem_blocked'[i] = sem_blocked'[j] => i = j
    BY <1>0, <2>1, <2>2 DEF Queue
  <2>4. ASSUME NEW d \in Callers
        PROVE  status'[d] = "blocked" <=> \E i \in 1 .. Len(sem_blocked') : sem_blocked'[i] = d
    <3>1. CASE d = c
      <4>1. status'[d] = "blocked" /\ Len(sem_blocked) + 1 \in 1 .. Len(sem_blocked')
        BY <1>0, <1>2, <2>1, <3>1 DEF CommandBlock
      <4> QED BY <4>1, <2>1, <3>1
    <3>2. CASE d # c
      <4>1. status'[d] = status[d]
        BY <1>0, <1>2, <3>2 DEF CommandBlock
      <4>2. (\E i \in 1 .. Len(sem_blocked') : sem_blocked'[i] = d)
              <=> \E i \in 1 .. Len(sem_blocked) : sem_blocked[i] = d
        BY <1>0, <2>1, <3>2
      <4> QED BY <4>1, <4>2 DEF Queue
    <3> QED BY <3>1, <3>2
  <2> QED BY <2>3, <2>4 DEF Queue
<1>4. ASSUME NEW c \in Callers, CoreCommand(c) PROVE Queue'
  BY <1>0, <1>4 DEF CoreCommand, Queue, sem
<1>5. ASSUME NEW c \in Callers, CoreCommandShutdown(c) PROVE Queue'
  <2> DEFINE s == [status EXCEPT ![c] = "shutdown"]
  <2>1. /\ s \in [Callers -> Status]
        /\ \A d \in Callers : s[d] = "blocked" <=> status[d] = "blocked"
        /\ Unblock(1, s)
    BY <1>0, <1>5 DEF CoreCommandShutdown, Status, Resting
  <2> HIDE DEF s
  <2> QED BY <1>0, <2>1, UnblockKeepsQueue
<1>6. CASE OnWriteReady
  BY <1>6 DEF OnWriteReady, Queue, sem
<1>7. ASSUME NEW m \in wire, NEW kind \in Kind, Lightningd(m, kind) PROVE Queue'
  BY <1>7 DEF Lightningd, Queue, sem
<1>8. CASE OnRead
  BY <1>8 DEF OnRead, Queue, sem
<1>10. ASSUME NEW c \in Callers, Return(c) PROVE Queue'
  <2> DEFINE s == [status EXCEPT ![c] = IF status[c] = "in" THEN "ok" ELSE "err"]
  <2>1. /\ s \in [Callers -> Status]
        /\ \A d \in Callers : s[d] = "blocked" <=> status[d] = "blocked"
        /\ Unblock(1, s)
    BY <1>0, <1>10 DEF Return, Status, Resting
  <2> HIDE DEF s
  <2> QED BY <1>0, <2>1, UnblockKeepsQueue
<1>9. CASE OnReadParse
  <2>1. \A c \in Callers : (\E p \in Answered : p.who = c) => status[c] = "sent"
    BY DEF NoForgottenWaiter, Answered
  <2>2. \A c \in Callers : status'[c] = "blocked" <=> status[c] = "blocked"
    BY <1>9, <2>1 DEF OnReadParse, ProcessResponses
  <2>3. sem_blocked' = sem_blocked
    BY <1>9 DEF OnReadParse, sem
  <2> QED BY <2>2, <2>3 DEF Queue
<1>11. CASE RpcShutdown
  <2> DEFINE F == {p.who : p \in pendings}
             s == [c \in Callers |-> IF c \in F THEN "shutdown" ELSE status[c]]
  <2>1. \A c \in F : c \in Callers /\ status[c] = "sent"
    BY <1>0 DEF NoForgottenWaiter, Message
  <2>2. Cardinality(F) \in Nat
    BY <2>1, RpcAssumption, FS_Subset, FS_CardinalityType
  <2>3. /\ s \in [Callers -> Status]
        /\ \A d \in Callers : s[d] = "blocked" <=> status[d] = "blocked"
    BY <1>0, <2>1 DEF Status, Resting
  <2>4. Unblock(Cardinality(F), s)
    BY <1>11 DEF RpcShutdown
  <2> HIDE DEF s, F
  <2> QED BY <1>0, <2>2, <2>3, <2>4, UnblockKeepsQueue
<1>12. CASE UNCHANGED rpcVars
  BY <1>12 DEF rpcVars, sem, Queue
<1> QED BY <1>1, <1>2, <1>4, <1>5, <1>6, <1>7, <1>8, <1>9, <1>10, <1>11, <1>12 DEF RpcNext

-----------------------------------------------------------------------------
(* Ids, continuations and answers. *)

\* Known survives a step that adds no pending id and does not lower next_id.
LEMMA KnownKept ==
    ASSUME NEW m, m.id \in Nat, next_id \in Nat, next_id' \in Nat, Known(m, next_id, pendings),
           next_id <= next_id',
           \A p \in pendings' : p \in pendings \/ p.id = next_id
    PROVE  Known(m, next_id', pendings')
BY DEF Known

\* Every step keeps the ids apart.
LEMMA StepIds ==
    Types /\ Types' /\ NoForgottenWaiter /\ Ids /\ [RpcNext]_rpcVars => Ids'
<1> SUFFICES ASSUME Types, Types', NoForgottenWaiter, Ids, [RpcNext]_rpcVars PROVE Ids'
  OBVIOUS
<1>0. /\ next_id \in Nat /\ next_id' \in Nat
      /\ pendings \in SUBSET Message /\ to_write \in Seq(Message)
      /\ wire \in SUBSET Message /\ inbox \in SUBSET Response /\ buffer \in SUBSET Response
      /\ \A m \in Message \cup Response : m.id \in Nat
  BY RpcAssumption DEF Types, Message, Response
<1>1. ASSUME UNCHANGED <<next_id, pendings, socket, parser, is_shutting_down>> PROVE Ids'
  BY <1>1 DEF Ids, Known, socket, parser
<1>2. ASSUME NEW q \in Seq(Message), NEW k \in 0 .. Len(q), OnWrite(q, k),
             \A i \in 1 .. Len(q) : Known(q[i], next_id', pendings'), \A m \in wire : Known(m, next_id', pendings')
      PROVE  (\A i \in 1 .. Len(to_write') : Known(to_write'[i], next_id', pendings'))
             /\ (\A m \in wire' : Known(m, next_id', pendings'))
  <2>1. \A i \in 1 .. Len(to_write') : Known(to_write'[i], next_id', pendings')
    <3> SUFFICES ASSUME NEW i \in 1 .. Len(to_write') PROVE Known(to_write'[i], next_id', pendings')
      OBVIOUS
    <3>1. i + k \in 1 .. Len(q) /\ to_write'[i] = q[i + k]
      BY <1>2 DEF OnWrite
    <3> QED BY <3>1, <1>2
  <2>2. \A m \in wire' : Known(m, next_id', pendings')
    <3> SUFFICES ASSUME NEW m \in wire' PROVE Known(m, next_id', pendings')
      OBVIOUS
    <3>1. CASE m \in wire
      BY <3>1, <1>2
    <3>2. CASE m \notin wire
      <4>1. PICK i \in 1 .. k : m = q[i]
        BY <3>2, <1>2 DEF OnWrite
      <4>2. i \in 1 .. Len(q)
        OBVIOUS
      <4> QED BY <4>1, <4>2, <1>2
    <3> QED BY <3>1, <3>2
  <2> QED BY <2>1, <2>2
<1>3. ASSUME NEW c \in Callers, CoreCommand(c) PROVE Ids'
  <2> DEFINE m == [id |-> next_id, who |-> c]
             q == Append(to_write, m)
  <2>1. /\ m \in Message /\ q \in Seq(Message) /\ Len(q) = Len(to_write) + 1
        /\ q[Len(to_write) + 1] = m /\ \A i \in 1 .. Len(to_write) : q[i] = to_write[i]
    BY <1>0 DEF Message
  <2>2. PICK k \in 0 .. Len(q) : OnWrite(q, k)
    BY <1>3, <2>1 DEF CoreCommand
  <2>3. pendings' = pendings \cup {m} /\ next_id' = next_id + 1
    BY <1>3, <1>0 DEF CoreCommand, Ids
  <2>3a. m.id = next_id
    OBVIOUS
  <2>4. \A x \in Message \cup Response : Known(x, next_id, pendings) => Known(x, next_id', pendings')
    <3>1. \A p \in pendings' : p \in pendings \/ p.id = next_id
      BY <2>3, <2>3a
    <3>2. next_id <= next_id'
      BY <1>0, <2>3
    <3> QED BY <1>0, <3>1, <3>2, KnownKept
  <2>5. Known(m, next_id', pendings')
    <3>1. m.id < next_id'
      BY <1>0, <2>3
    <3>2. \A p \in pendings' : p.id = m.id => p.who = m.who
      BY <1>0, <2>3 DEF Ids
    <3> QED BY <3>1, <3>2 DEF Known
  <2> HIDE DEF m, q
  <2>6. (\A i \in 1 .. Len(to_write) : Known(to_write[i], next_id', pendings')) /\ (\A x \in wire : Known(x, next_id', pendings'))
    BY <1>0, <2>4 DEF Ids
  <2>7. \A i \in 1 .. Len(q) : Known(q[i], next_id', pendings')
    BY <1>0, <2>1, <2>5, <2>6
  <2>8. (\A i \in 1 .. Len(to_write') : Known(to_write'[i], next_id', pendings')) /\ (\A x \in wire' : Known(x, next_id', pendings'))
    BY <1>2, <2>1, <2>2, <2>6, <2>7
  <2>9. \A x \in inbox' \cup buffer' : Known(x, next_id', pendings')
    BY <1>0, <1>3, <2>4 DEF Ids, CoreCommand, parser
  <2>10. \A p \in pendings' : p.id < next_id'
    BY <1>0, <2>3, <2>3a DEF Ids
  <2>11. \A p, r \in pendings' : p.id = r.id \/ p.who = r.who => p = r
    <3>1. \A p \in pendings : p.id # next_id /\ p.who # c
      BY <1>0, <1>3 DEF Ids, NoForgottenWaiter, CoreCommand
    <3>2. m.who = c /\ m.id = next_id
      BY DEF m
    <3> QED BY <2>3, <3>1, <3>2 DEF Ids
  <2>12. ~is_shutting_down'
    BY <1>3 DEF CoreCommand
  <2> QED BY <2>8, <2>9, <2>10, <2>11, <2>12 DEF Ids
<1>4. CASE OnWriteReady
  <2>1. PICK k \in 1 .. Len(to_write) : OnWrite(to_write, k)
    BY <1>4 DEF OnWriteReady
  <2>2. UNCHANGED <<next_id, pendings, inbox, buffer, is_shutting_down>>
    BY <1>4 DEF OnWriteReady, parser
  <2>3. next_id' = next_id /\ pendings' = pendings
    BY <2>2
  <2>4. (\A i \in 1 .. Len(to_write') : Known(to_write'[i], next_id', pendings')) /\ (\A x \in wire' : Known(x, next_id', pendings'))
    <3>1. k \in 0 .. Len(to_write)
      BY <1>0
    <3> QED BY <1>0, <1>2, <2>1, <2>3, <3>1 DEF Ids
  <2> QED BY <2>2, <2>3, <2>4 DEF Ids
<1>5. ASSUME NEW m \in wire, NEW kind \in Kind, Lightningd(m, kind) PROVE Ids'
  <2> DEFINE r == [id |-> m.id, who |-> m.who, kind |-> kind]
  <2>1. UNCHANGED <<next_id, pendings, to_write, buffer, is_shutting_down>>
    BY <1>5 DEF Lightningd, parser
  <2>2. next_id' = next_id /\ pendings' = pendings
    BY <2>1
  <2>3. Known(r, next_id, pendings)
    BY DEF Ids, Known
  <2>4. wire' \subseteq wire /\ inbox' = inbox \cup {r}
    BY <1>5 DEF Lightningd
  <2> HIDE DEF r
  <2> QED BY <2>1, <2>2, <2>3, <2>4 DEF Ids
<1>6. CASE OnRead
  BY <1>6 DEF OnRead, Ids, Known
<1>7. CASE OnReadParse
  <2>1. pendings' \subseteq pendings /\ buffer' = {}
    BY <1>7 DEF OnReadParse, ProcessResponses
  <2>2. UNCHANGED <<next_id, socket, is_shutting_down>>
    BY <1>7 DEF OnReadParse
  <2> QED BY <2>1, <2>2 DEF Ids, Known, socket
<1>8. CASE RpcShutdown
  <2>1. pendings' = {} /\ UNCHANGED <<next_id, to_write, wire, inbox, buffer>>
    BY <1>8 DEF RpcShutdown, parser
  <2> QED BY <2>1 DEF Ids, Known
<1>9. CASE UNCHANGED rpcVars
  BY <1>1, <1>9 DEF rpcVars
<1>10. ASSUME NEW c \in Callers,
              CommandPass(c) \/ CommandBlock(c) \/ CoreCommandShutdown(c) \/ Return(c)
       PROVE  Ids'
  BY <1>1, <1>10 DEF CommandPass, CommandBlock, CoreCommandShutdown, Return
<1> QED BY <1>3, <1>4, <1>5, <1>6, <1>7, <1>8, <1>9, <1>10 DEF RpcNext

\* The callers that wait for an answer are those of pendings, after a step.
LEMMA StepWaiter ==
    Types /\ Queue /\ Ids /\ NoForgottenWaiter /\ [RpcNext]_rpcVars => NoForgottenWaiter'
<1> SUFFICES ASSUME Types, Queue, Ids, NoForgottenWaiter, [RpcNext]_rpcVars
             PROVE  NoForgottenWaiter'
  OBVIOUS
<1>0. /\ sem_blocked \in Seq(Callers) /\ remaining \in Nat
      /\ status \in [Callers -> Status] /\ pendings \in SUBSET Message
  BY DEF Types, Status
<1>1. ASSUME NEW n \in Nat, NEW s \in [Callers -> Status], Unblock(n, s),
             \A c \in Callers : status[c] = "blocked" => s[c] = "blocked"
      PROVE  \A c \in Callers : status'[c] = "sent" <=> s[c] = "sent"
  <2>1. /\ \A c \in Callers : status'[c] =
               IF \E i \in 1 .. ServedNext(n) : sem_blocked[i] = c THEN "out" ELSE s[c]
        /\ ServedNext(n) \in 0 .. Len(sem_blocked)
    BY <1>0, <1>1, UnblockQueue
  <2> SUFFICES ASSUME NEW c \in Callers PROVE status'[c] = "sent" <=> s[c] = "sent"
    OBVIOUS
  <2>2. CASE \E i \in 1 .. ServedNext(n) : sem_blocked[i] = c
    <3>1. \E i \in 1 .. Len(sem_blocked) : sem_blocked[i] = c
      BY <2>1, <2>2, <1>0
    <3>2. s[c] = "blocked"
      BY <3>1, <1>1 DEF Queue
    <3> QED BY <2>1, <2>2, <3>2
  <2>3. CASE ~ \E i \in 1 .. ServedNext(n) : sem_blocked[i] = c
    BY <2>1, <2>3
  <2> QED BY <2>2, <2>3
<1>2. ASSUME NEW c \in Callers, CommandPass(c) \/ CommandBlock(c) PROVE NoForgottenWaiter'
  BY <1>0, <1>2 DEF CommandPass, CommandBlock, Waiting, Resting, NoForgottenWaiter
<1>3. ASSUME NEW c \in Callers, CoreCommand(c) PROVE NoForgottenWaiter'
  <2> DEFINE m == [id |-> next_id, who |-> c]
  <2>1. pendings' = pendings \cup {m}
    <3>1. \A p \in pendings : p.id # next_id
      BY <1>0 DEF Ids, Message, Types
    <3> QED BY <1>3, <3>1 DEF CoreCommand
  <2>2. status' = [status EXCEPT ![c] = "sent"]
    BY <1>3 DEF CoreCommand
  <2>3. m.who = c
    OBVIOUS
  <2> HIDE DEF m
  <2>4. ASSUME NEW d \in Callers
        PROVE  status'[d] = "sent" <=> \E p \in pendings' : p.who = d
    <3>1. CASE d = c
      BY <3>1, <1>0, <2>1, <2>2, <2>3
    <3>2. CASE d # c
      BY <3>2, <1>0, <2>1, <2>2, <2>3 DEF NoForgottenWaiter
    <3> QED BY <3>1, <3>2
  <2> QED BY <2>4 DEF NoForgottenWaiter
<1>4. ASSUME NEW c \in Callers, CoreCommandShutdown(c) PROVE NoForgottenWaiter'
  <2> DEFINE s == [status EXCEPT ![c] = "shutdown"]
  <2>1. /\ s \in [Callers -> Status] /\ Unblock(1, s)
        /\ \A d \in Callers : status[d] = "blocked" => s[d] = "blocked"
        /\ \A d \in Callers : status[d] = "sent" <=> s[d] = "sent"
    BY <1>0, <1>4 DEF CoreCommandShutdown, Status, Resting
  <2>2. pendings' = pendings
    BY <1>4 DEF CoreCommandShutdown
  <2> HIDE DEF s
  <2> QED BY <1>1, <2>1, <2>2 DEF NoForgottenWaiter
<1>5. ASSUME NEW c \in Callers, Return(c) PROVE NoForgottenWaiter'
  <2> DEFINE s == [status EXCEPT ![c] = IF status[c] = "in" THEN "ok" ELSE "err"]
  <2>1. /\ s \in [Callers -> Status] /\ Unblock(1, s)
        /\ \A d \in Callers : status[d] = "blocked" => s[d] = "blocked"
        /\ \A d \in Callers : status[d] = "sent" <=> s[d] = "sent"
    BY <1>0, <1>5 DEF Return, Status, Resting
  <2>2. pendings' = pendings
    BY <1>5 DEF Return
  <2> HIDE DEF s
  <2> QED BY <1>1, <2>1, <2>2 DEF NoForgottenWaiter
<1>6. CASE OnReadParse
  <2>1. pendings' = pendings \ Answered
    BY <1>6 DEF OnReadParse, ProcessResponses
  <2>2. \A c \in Callers :
            /\ (\E p \in Answered : p.who = c) => status'[c] # "sent"
            /\ ~(\E p \in Answered : p.who = c) => status'[c] = status[c]
    BY <1>6 DEF OnReadParse, ProcessResponses
  <2>3. \A p \in Answered : p \in pendings
    BY DEF Answered
  <2>4. ASSUME NEW c \in Callers PROVE status'[c] = "sent" <=> \E p \in pendings' : p.who = c
    <3>1. CASE \E p \in Answered : p.who = c
      <4>1. PICK p \in Answered : p.who = c
        BY <3>1
      <4>2. \A r \in pendings : r.who = c => r = p
        BY <4>1, <2>3 DEF Ids
      <4> QED BY <4>1, <4>2, <2>1, <2>2
    <3>2. CASE ~ \E p \in Answered : p.who = c
      BY <3>2, <2>1, <2>2 DEF NoForgottenWaiter
    <3> QED BY <3>1, <3>2
  <2> QED BY <2>4 DEF NoForgottenWaiter
<1>7. CASE RpcShutdown
  <2> DEFINE F == {p.who : p \in pendings}
             s == [c \in Callers |-> IF c \in F THEN "shutdown" ELSE status[c]]
  <2>1. \A c \in F : c \in Callers /\ status[c] = "sent"
    BY <1>0 DEF NoForgottenWaiter, Message
  <2>2. Cardinality(F) \in Nat
    BY <2>1, RpcAssumption, FS_Subset, FS_CardinalityType
  <2>3. /\ s \in [Callers -> Status]
        /\ \A d \in Callers : status[d] = "blocked" => s[d] = "blocked"
        /\ \A d \in Callers : s[d] # "sent"
    BY <1>0, <2>1 DEF Status, Resting, NoForgottenWaiter
  <2>4. Unblock(Cardinality(F), s) /\ pendings' = {}
    BY <1>7 DEF RpcShutdown
  <2> HIDE DEF s, F
  <2> QED BY <1>1, <2>2, <2>3, <2>4 DEF NoForgottenWaiter
<1>8. CASE UNCHANGED <<status, pendings>>
  BY <1>8 DEF NoForgottenWaiter
<1> QED BY <1>2, <1>3, <1>4, <1>5, <1>6, <1>7, <1>8
    DEF RpcNext, rpcVars, OnWriteReady, Lightningd, OnRead

\* An answer is delivered to the caller whose command it answers.
LEMMA StepMine == Types /\ Ids /\ AnswerIsMine /\ [RpcNext]_rpcVars => AnswerIsMine'
<1> SUFFICES ASSUME Types, Ids, AnswerIsMine, [RpcNext]_rpcVars PROVE AnswerIsMine'
  OBVIOUS
<1>1. CASE OnReadParse
  <2> SUFFICES ASSUME NEW c \in Callers PROVE got'[c] = c
    BY DEF AnswerIsMine
  <2>1. PICK f \in [Answered -> buffer] :
        /\ \A p \in Answered : f[p] \in Matched(p)
        /\ got' = [d \in Callers |->
               IF \E p \in Answered : p.who = d
               THEN f[CHOOSE q \in Answered : q.who = d].who
               ELSE got[d]]
    BY <1>1 DEF OnReadParse, ProcessResponses
  <2>2. CASE \E p \in Answered : p.who = c
    <3> DEFINE p == CHOOSE q \in Answered : q.who = c
    <3>1. p \in Answered /\ p.who = c
      BY <2>2
    <3>2. got'[c] = f[p].who
      BY <2>1, <2>2
    <3> HIDE DEF p
    <3>3. p \in pendings /\ f[p] \in buffer /\ f[p].id = p.id
      BY <2>1, <3>1 DEF Answered, Matched
    <3>4. f[p].who = p.who
      BY <3>3 DEF Ids, Known
    <3> QED BY <3>1, <3>2, <3>4
  <2>3. CASE ~ \E p \in Answered : p.who = c
    BY <2>1, <2>3 DEF AnswerIsMine
  <2> QED BY <2>2, <2>3
<1>2. CASE UNCHANGED got
  BY <1>2 DEF AnswerIsMine
<1> QED BY <1>1, <1>2 DEF RpcNext, rpcVars, CommandPass, CommandBlock, CoreCommand,
      CoreCommandShutdown, Return, OnWriteReady, Lightningd, OnRead, RpcShutdown

\* The write watcher is armed exactly while requests are left over.
LEMMA StepArmed == Types /\ WriterArmed /\ [RpcNext]_rpcVars => WriterArmed'
<1> SUFFICES ASSUME Types, WriterArmed, [RpcNext]_rpcVars PROVE WriterArmed'
  OBVIOUS
<1>1. ASSUME NEW c \in Callers, CoreCommand(c) PROVE WriterArmed'
  BY <1>1 DEF CoreCommand, OnWrite, WriterArmed
<1>2. CASE OnWriteReady
  BY <1>2 DEF OnWriteReady, OnWrite, WriterArmed
<1>3. CASE RpcShutdown
  BY <1>3 DEF RpcShutdown, WriterArmed
<1>4. CASE UNCHANGED <<to_write, write_event, is_shutting_down>>
  BY <1>4 DEF WriterArmed
<1> QED BY <1>1, <1>2, <1>3, <1>4 DEF RpcNext, rpcVars, socket, CommandPass, CommandBlock,
      CoreCommandShutdown, Return, Lightningd, OnRead, OnReadParse

-----------------------------------------------------------------------------
(* Slots. *)

Holders(s) == {c \in Callers : s[c] \in SlotHolding}

\* The first k elements of a sequence without repetitions are k elements.
LEMMA PrefixCardinality ==
    ASSUME NEW s \in Seq(Callers), NEW k \in 0 .. Len(s),
           \A i, j \in 1 .. Len(s) : s[i] = s[j] => i = j
    PROVE  /\ IsFiniteSet({s[i] : i \in 1 .. k})
           /\ Cardinality({s[i] : i \in 1 .. k}) = k
<1> DEFINE B == {s[i] : i \in 1 .. k}
           f == [i \in 1 .. k |-> s[i]]
<1>1. k \in Nat
  OBVIOUS
<1>2. f \in Bijection(1 .. k, B)
  <2>1. f \in [1 .. k -> B]
    OBVIOUS
  <2>2. \A i, j \in 1 .. k : f[i] = f[j] => i = j
    OBVIOUS
  <2>3. \A b \in B : \E i \in 1 .. k : f[i] = b
    OBVIOUS
  <2> QED BY <2>1, <2>2, <2>3 DEF Bijection, Injection, Surjection, IsInjective
<1>3. ExistsBijection(1 .. k, B)
  BY <1>2 DEF ExistsBijection
<1> HIDE DEF B
<1>4. Cardinality(B) = k
  BY <1>1, <1>3, FS_CountingElements
<1>5. IsFiniteSet(B)
  BY <1>1, <1>3, FS_NatBijection
<1> QED BY <1>4, <1>5 DEF B

\* Unblock keeps the slots accounted for when as many callers stop holding one
\* as slots are given up.
LEMMA UnblockKeepsSlots ==
    ASSUME sem_blocked \in Seq(Callers), remaining \in Nat,
           status \in [Callers -> Status], Queue, SlotsAccounted,
           NEW F \in SUBSET Holders(status), NEW s \in [Callers -> Status],
           \A c \in Callers : s[c] = IF c \in F THEN s[c] ELSE status[c],
           \A c \in F : s[c] \in Resting,
           Unblock(Cardinality(F), s)
    PROVE  SlotsAccounted'
<1> DEFINE n == Cardinality(F)
           k == ServedNext(n)
           H == Holders(status)
           B == {sem_blocked[i] : i \in 1 .. k}
<1>1. IsFiniteSet(H) /\ IsFiniteSet(F) /\ n \in Nat
  <2>1. H \in SUBSET Callers /\ F \in SUBSET Callers
    BY DEF Holders
  <2> QED BY <2>1, RpcAssumption, FS_Subset, FS_CardinalityType
<1>2. /\ k \in 0 .. Len(sem_blocked)
      /\ k <= n
      /\ n = k \/ k = Len(sem_blocked)
      /\ remaining' = remaining + n - k
      /\ sem_blocked' \in Seq(Callers)
      /\ Len(sem_blocked') = Len(sem_blocked) - k
      /\ \A c \in Callers : status'[c] =
             IF \E i \in 1 .. k : sem_blocked[i] = c THEN "out" ELSE s[c]
  <2> HIDE DEF n
  <2>1. Unblock(n, s)
    BY DEF n
  <2> QED BY <1>1, <2>1, UnblockQueue
<1> HIDE DEF k
<1>3. IsFiniteSet(B) /\ Cardinality(B) = k
  <2>1. \A i, j \in 1 .. Len(sem_blocked) : sem_blocked[i] = sem_blocked[j] => i = j
    BY DEF Queue
  <2>2. k \in 0 .. Len(sem_blocked)
    BY <1>2
  <2> QED BY <2>1, <2>2, PrefixCardinality, Zenon
<1>4. B \subseteq Callers /\ \A c \in B : status[c] = "blocked"
  <2> SUFFICES ASSUME NEW c \in B PROVE c \in Callers /\ status[c] = "blocked"
    OBVIOUS
  <2>1. PICK i \in 1 .. k : c = sem_blocked[i]
    OBVIOUS
  <2>2. i \in 1 .. Len(sem_blocked)
    BY <1>2
  <2> QED BY <2>1, <2>2 DEF Queue
<1>5. B \cap H = {} /\ B \cap F = {}
  <2>1. \A c \in H : status[c] # "blocked"
    BY DEF Holders, SlotHolding
  <2> HIDE DEF B, H
  <2>2. F \subseteq H
    BY DEF H
  <2> QED BY <1>4, <2>1, <2>2
<1>6. Holders(status') = (H \ F) \cup B
  <2>1. \A c \in Callers : c \in B <=> \E i \in 1 .. k : sem_blocked[i] = c
    OBVIOUS
  <2> HIDE DEF B
  <2>2. \A c \in Callers : status'[c] = IF c \in B THEN "out" ELSE s[c]
    BY <1>2, <2>1
  <2>3. \A c \in F : s[c] \notin SlotHolding
    BY DEF Resting, SlotHolding
  <2>4. "out" \in SlotHolding
    BY DEF SlotHolding
  <2> QED BY <1>4, <2>2, <2>3, <2>4 DEF Holders
<1> HIDE DEF B, H, n
<1>7. IsFiniteSet(H \ F) /\ Cardinality(H \ F) = Cardinality(H) - n
  <2>1. H \cap F = F
    BY DEF H
  <2>2. IsFiniteSet(H \ F) /\ Cardinality(H \ F) = Cardinality(H) - Cardinality(H \cap F)
    BY <1>1, FS_Difference
  <2> QED BY <2>1, <2>2 DEF n
<1>8. (H \ F) \cap B = {}
  BY <1>5
<1>8a. Cardinality({}) = 0
  BY FS_EmptySet
<1>9. Cardinality((H \ F) \cup B) = Cardinality(H \ F) + k
  <2>1. Cardinality(H \ F) \in Nat
    BY <1>7, FS_CardinalityType
  <2>2. Cardinality((H \ F) \cup B) = Cardinality(H \ F) + Cardinality(B) - Cardinality((H \ F) \cap B)
    BY <1>3, <1>7, FS_Union
  <2>3. Cardinality((H \ F) \cap B) = 0
    BY <1>8, <1>8a, Zenon
  <2> QED BY <1>2, <1>3, <2>1, <2>2, <2>3
<1>10. Cardinality(H) \in Nat /\ remaining + Cardinality(H) = MaxConcurrent
  BY <1>1, FS_CardinalityType DEF SlotsAccounted, Holders, H
<1>11. remaining' + Cardinality(Holders(status')) = MaxConcurrent
  BY <1>1, <1>2, <1>6, <1>7, <1>9, <1>10
<1>12. sem_blocked' # << >> => remaining' = 0
  <2> SUFFICES ASSUME sem_blocked' # << >> PROVE remaining' = 0
    OBVIOUS
  <2>1. Len(sem_blocked') > 0 /\ Len(sem_blocked) > 0
    BY <1>2
  <2>2. n = k /\ remaining = 0
    BY <1>2, <2>1 DEF SlotsAccounted
  <2> QED BY <1>1, <1>2, <2>2
<1> QED BY <1>11, <1>12 DEF SlotsAccounted, Holders

\* Every step keeps the slots accounted for.
LEMMA StepSlots ==
    Types /\ Queue /\ NoForgottenWaiter /\ SlotsAccounted /\ [RpcNext]_rpcVars => SlotsAccounted'
<1> SUFFICES ASSUME Types, Queue, NoForgottenWaiter, SlotsAccounted, [RpcNext]_rpcVars
             PROVE  SlotsAccounted'
  OBVIOUS
<1>0. /\ sem_blocked \in Seq(Callers) /\ remaining \in Nat
      /\ status \in [Callers -> Status] /\ pendings \in SUBSET Message
  BY DEF Types, Status
<1>1. /\ IsFiniteSet(Holders(status)) /\ Cardinality(Holders(status)) \in Nat
      /\ remaining + Cardinality(Holders(status)) = MaxConcurrent
  <2>1. Holders(status) \in SUBSET Callers
    BY DEF Holders
  <2> QED BY <2>1, RpcAssumption, FS_Subset, FS_CardinalityType DEF SlotsAccounted, Holders
<1>2. ASSUME UNCHANGED sem, Holders(status') = Holders(status) PROVE SlotsAccounted'
  BY <1>2 DEF SlotsAccounted, Holders, sem
<1>3. ASSUME NEW c \in Callers, CommandPass(c) PROVE SlotsAccounted'
  <2>1. Holders(status') = Holders(status) \cup {c} /\ c \notin Holders(status)
    BY <1>0, <1>3 DEF CommandPass, Waiting, Resting, SlotHolding, Holders
  <2>2. Cardinality(Holders(status')) = Cardinality(Holders(status)) + 1
    BY <1>1, <2>1, FS_AddElement
  <2>3. remaining' + Cardinality(Holders(status')) = MaxConcurrent
    BY <1>0, <1>1, <1>3, <2>2 DEF CommandPass
  <2>4. sem_blocked' = << >>
    BY <1>3, <1>0 DEF CommandPass, SlotsAccounted
  <2> QED BY <2>3, <2>4 DEF SlotsAccounted, Holders
<1>4. ASSUME NEW c \in Callers, CommandBlock(c) PROVE SlotsAccounted'
  <2>1. Holders(status') = Holders(status)
    BY <1>0, <1>4 DEF CommandBlock, Waiting, Resting, SlotHolding, Holders
  <2> QED BY <1>1, <1>4, <2>1 DEF CommandBlock, SlotsAccounted, Holders
<1>5. ASSUME NEW c \in Callers, CoreCommand(c) PROVE SlotsAccounted'
  <2>1. Holders(status') = Holders(status)
    BY <1>0, <1>5 DEF CoreCommand, SlotHolding, Holders
  <2> QED BY <1>2, <1>5, <2>1 DEF CoreCommand
<1>6. ASSUME NEW c \in Callers, NEW s \in [Callers -> Status], status[c] \in SlotHolding,
             s[c] \in Resting, \A d \in Callers : d # c => s[d] = status[d],
             Unblock(1, s)
      PROVE  SlotsAccounted'
  <2> DEFINE F == {c}
  <2>1. F \in SUBSET Holders(status)
    BY <1>6 DEF Holders
  <2>2. Cardinality(F) = 1
    BY FS_Singleton
  <2>3. /\ \A d \in Callers : s[d] = IF d \in F THEN s[d] ELSE status[d]
        /\ \A d \in F : s[d] \in Resting
        /\ Unblock(Cardinality(F), s)
    BY <1>6, <2>2
  <2> HIDE DEF F
  <2> QED BY <1>0, <2>1, <2>3, UnblockKeepsSlots
<1>7. ASSUME NEW c \in Callers, CoreCommandShutdown(c) PROVE SlotsAccounted'
  <2> DEFINE s == [status EXCEPT ![c] = "shutdown"]
  <2>1. /\ s \in [Callers -> Status] /\ Unblock(1, s)
        /\ status[c] \in SlotHolding /\ s[c] \in Resting
        /\ \A d \in Callers : d # c => s[d] = status[d]
    BY <1>0, <1>7 DEF CoreCommandShutdown, Status, Resting, SlotHolding
  <2> HIDE DEF s
  <2> QED BY <1>6, <2>1
<1>8. ASSUME NEW c \in Callers, Return(c) PROVE SlotsAccounted'
  <2> DEFINE s == [status EXCEPT ![c] = IF status[c] = "in" THEN "ok" ELSE "err"]
  <2>1. /\ s \in [Callers -> Status] /\ Unblock(1, s)
        /\ status[c] \in SlotHolding /\ s[c] \in Resting
        /\ \A d \in Callers : d # c => s[d] = status[d]
    BY <1>0, <1>8 DEF Return, Status, Resting, SlotHolding
  <2> HIDE DEF s
  <2> QED BY <1>6, <2>1
<1>9. CASE OnReadParse
  <2>1. \A c \in Callers : (\E p \in Answered : p.who = c) => status[c] = "sent"
    BY DEF NoForgottenWaiter, Answered
  <2>2. \A c \in Callers : status'[c] \in SlotHolding <=> status[c] \in SlotHolding
    BY <1>9, <2>1 DEF OnReadParse, ProcessResponses, SlotHolding
  <2>3. Holders(status') = Holders(status)
    BY <2>2 DEF Holders
  <2> QED BY <1>2, <1>9, <2>3 DEF OnReadParse
<1>10. CASE RpcShutdown
  <2> DEFINE F == {p.who : p \in pendings}
             s == [c \in Callers |-> IF c \in F THEN "shutdown" ELSE status[c]]
  <2>1. \A c \in F : c \in Callers /\ status[c] = "sent"
    BY <1>0 DEF NoForgottenWaiter, Message
  <2>2. F \in SUBSET Holders(status)
    BY <2>1 DEF Holders, SlotHolding
  <2>3. /\ s \in [Callers -> Status]
        /\ \A c \in Callers : s[c] = IF c \in F THEN s[c] ELSE status[c]
        /\ \A c \in F : s[c] \in Resting
    BY <1>0, <2>1 DEF Status, Resting
  <2>4. Unblock(Cardinality(F), s)
    BY <1>10 DEF RpcShutdown
  <2> HIDE DEF s, F
  <2> QED BY <1>0, <2>2, <2>3, <2>4, UnblockKeepsSlots
<1>11. CASE UNCHANGED <<sem, status>>
  BY <1>2, <1>11
<1> QED BY <1>3, <1>4, <1>5, <1>7, <1>8, <1>9, <1>10, <1>11
    DEF RpcNext, rpcVars, OnWriteReady, Lightningd, OnRead

-----------------------------------------------------------------------------

Inv == Types /\ Queue /\ Ids /\ NoForgottenWaiter /\ SlotsAccounted
           /\ AnswerIsMine /\ WriterArmed

LEMMA InitInv == RpcInit => Inv
<1> SUFFICES ASSUME RpcInit PROVE Inv
  OBVIOUS
<1>1. Types /\ Queue /\ Ids
  BY InitTypes
<1>2. NoForgottenWaiter /\ AnswerIsMine
  BY DEF RpcInit, NoForgottenWaiter, AnswerIsMine
<1>3. WriterArmed
  BY Zenon DEF RpcInit, WriterArmed
<1>4. SlotsAccounted
  <2>1. {c \in Callers : status[c] \in SlotHolding} = {}
    BY DEF RpcInit, SlotHolding
  <2>2. Cardinality({c \in Callers : status[c] \in SlotHolding}) = 0
    BY <2>1, FS_EmptySet, Zenon
  <2>3. remaining = MaxConcurrent /\ MaxConcurrent \in Nat /\ sem_blocked = << >>
    BY RpcAssumption DEF RpcInit
  <2> QED BY <2>2, <2>3 DEF SlotsAccounted
<1> QED BY <1>1, <1>2, <1>3, <1>4 DEF Inv

LEMMA StepInv == Inv /\ [RpcNext]_rpcVars => Inv'
BY StepTypes, StepQueue, StepIds, StepWaiter, StepSlots, StepMine, StepArmed DEF Inv

LEMMA InvAlways == RpcSpec => []Inv
BY InitInv, StepInv, PTL DEF RpcSpec

\* Each slot of Ev::Semaphore is free or held by one caller, and its assertion
\* holds, for any number of callers and slots.
THEOREM SlotsAlways == RpcSpec => []SlotsAccounted
<1>1. Inv => SlotsAccounted
  BY DEF Inv
<1> QED BY <1>1, InvAlways, PTL

\* No continuation of Rpc::command is lost or resumed twice.
THEOREM NoForgottenWaiterAlways == RpcSpec => []NoForgottenWaiter
<1>1. Inv => NoForgottenWaiter
  BY DEF Inv
<1> QED BY <1>1, InvAlways, PTL

\* A caller is resumed with the answer to its own command.
THEOREM AnswerIsMineAlways == RpcSpec => []AnswerIsMine
<1>1. Inv => AnswerIsMine
  BY DEF Inv
<1> QED BY <1>1, InvAlways, PTL

\* The types of Rpc::Impl and the semaphore, the bound on free slots included.
THEOREM TypeCorrect == RpcSpec => []RpcTypeOK
<1>1. Inv => RpcTypeOK
  <2> SUFFICES ASSUME Inv PROVE RpcTypeOK
    OBVIOUS
  <2>1. Types
    BY DEF Inv
  <2>2. Holders(status) \in SUBSET Callers
    BY DEF Holders
  <2>3. Cardinality(Holders(status)) \in Nat
    BY <2>2, RpcAssumption, FS_Subset, FS_CardinalityType
  <2>4. remaining + Cardinality(Holders(status)) = MaxConcurrent
    BY DEF Inv, SlotsAccounted, Holders
  <2>5. remaining \in 0 .. MaxConcurrent
    BY <2>1, <2>3, <2>4, RpcAssumption DEF Types
  <2> QED BY <2>1, <2>5 DEF Types, RpcTypeOK
<1> QED BY <1>1, InvAlways, PTL
=============================================================================
