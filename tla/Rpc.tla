--------------------------------- MODULE Rpc ---------------------------------
(***************************************************************************)
(* Boss::Mod::Rpc, the one JSON-RPC connection to lightningd that every    *)
(* module shares, and the Ev::Semaphore that bounds how many commands are  *)
(* out at a time.                                                          *)
(*                                                                         *)
(* A caller gets a slot of the semaphore or queues for one.  With a slot   *)
(* it logs, takes an id, appends the request to the write buffer and       *)
(* leaves its continuation in `pendings'.  Responses arrive in any order   *)
(* and are matched by id.  Shutdown fails everybody.                          *)
(***************************************************************************)
EXTENDS Integers, Sequences, FiniteSets

CONSTANTS
    Callers,            \* greenthreads that call Rpc::command
    MaxConcurrent,      \* max_concurrent_rpcs
    MaxCommands,        \* bound on commands sent, that is on next_id
    AllowMalformed      \* lightningd may answer with neither result nor error

ASSUME RpcAssumption ==
    /\ MaxConcurrent \in Nat \ {0}
    /\ MaxCommands \in Nat
    /\ AllowMalformed \in BOOLEAN
    /\ IsFiniteSet(Callers)

VARIABLES
    remaining,          \* Semaphore: free slots
    sem_blocked,        \* Semaphore: queue of callers without a slot
    status,             \* where each caller is
    is_shutting_down,
    next_id,
    pendings,           \* id and owner of each continuation
    to_write,           \* requests not yet handed to the socket
    write_event,        \* the write watcher is armed
    wire,               \* requests lightningd has read and not answered
    inbox,              \* responses in the socket
    buffer,             \* responses in the parser
    read_parse_active,
    got                 \* whose request the last answer of a caller answers

sem == <<remaining, sem_blocked>>
socket == <<to_write, write_event, wire, inbox>>
parser == <<buffer, read_parse_active>>
rpcVars == <<sem, status, is_shutting_down, next_id, pendings, socket, parser, got>>

Message == [id : Nat, who : Callers]
Kind == {"result", "error"} \cup (IF AllowMalformed THEN {"neither"} ELSE {})
Response == [id : Nat, who : Callers, kind : Kind]

\* out: has a slot, before or in the log that precedes core_command.
\* sent: in pendings.  in, errlog: answered, in the log that follows.
SlotHolding == {"out", "sent", "in", "errlog"}
Resting == {"idle", "ok", "err", "shutdown"}
Waiting(c) == status[c] \notin Resting

RpcInit ==
    /\ remaining = MaxConcurrent
    /\ sem_blocked = << >>
    /\ status = [c \in Callers |-> "idle"]
    /\ is_shutting_down = FALSE
    /\ next_id = 0
    /\ pendings = {}
    /\ to_write = << >>
    /\ write_event = FALSE
    /\ wire = {}
    /\ inbox = {}
    /\ buffer = {}
    /\ read_parse_active = FALSE
    /\ got = [c \in Callers |-> c]

-----------------------------------------------------------------------------
(* Ev::Semaphore. *)

\* Semaphore::run: take a slot, or queue.
CommandPass(c) ==
    /\ ~Waiting(c)
    /\ remaining > 0
    /\ remaining' = remaining - 1
    /\ status' = [status EXCEPT ![c] = "out"]
    /\ UNCHANGED <<sem_blocked, is_shutting_down, next_id, pendings, socket, parser, got>>

CommandBlock(c) ==
    /\ ~Waiting(c)
    /\ remaining = 0
    /\ sem_blocked' = Append(sem_blocked, c)
    /\ status' = [status EXCEPT ![c] = "blocked"]
    /\ UNCHANGED <<remaining, is_shutting_down, next_id, pendings, socket, parser, got>>

\* How many of n slots go to queued callers.
ServedNext(n) == IF n <= Len(sem_blocked) THEN n ELSE Len(sem_blocked)

\* Semaphore::unblock, n times: each slot goes to the front of the queue, or
\* back to the pool.  s is the status of the callers that gave them up.
Unblock(n, s) ==
    LET served == ServedNext(n)
        next == {sem_blocked[i] : i \in 1 .. served}
    IN  /\ remaining' = remaining + n - served
        /\ sem_blocked' = SubSeq(sem_blocked, served + 1, Len(sem_blocked))
        /\ status' = [c \in Callers |-> IF c \in next THEN "out" ELSE s[c]]

-----------------------------------------------------------------------------
(* Rpc::Impl. *)

\* Mutant of OnWrite: the watcher is not armed again.
OnWriteForgets(queue, k) ==
    /\ wire' = wire \cup {queue[i] : i \in 1 .. k}
    /\ to_write' = SubSeq(queue, k + 1, Len(queue))
    /\ write_event' = FALSE

\* on_write: hand the first k requests to the socket.  The watcher is armed
\* exactly when some are left over.
OnWrite(queue, k) ==
    /\ wire' = wire \cup {queue[i] : i \in 1 .. k}
    /\ to_write' = SubSeq(queue, k + 1, Len(queue))
    /\ write_event' = (to_write' # << >>)

\* Mutant of CoreCommand: the id is not advanced.
CoreCommandSameId(c) ==
    /\ status[c] = "out"
    /\ ~is_shutting_down
    /\ next_id < MaxCommands
    /\ \E k \in 0 .. Len(to_write) + 1 :
           OnWrite(Append(to_write, [id |-> next_id, who |-> c]), k)
    /\ pendings' = {p \in pendings : p.id # next_id}
                       \cup {[id |-> next_id, who |-> c]}
    /\ status' = [status EXCEPT ![c] = "sent"]
    /\ UNCHANGED <<sem, is_shutting_down, next_id, inbox, parser, got>>

\* core_command.
CoreCommand(c) ==
    /\ status[c] = "out"
    /\ ~is_shutting_down
    /\ next_id < MaxCommands
    /\ next_id' = next_id + 1
    /\ \E k \in 0 .. Len(to_write) + 1 :
           OnWrite(Append(to_write, [id |-> next_id, who |-> c]), k)
    /\ pendings' = {p \in pendings : p.id # next_id}
                       \cup {[id |-> next_id, who |-> c]}
    /\ status' = [status EXCEPT ![c] = "sent"]
    /\ UNCHANGED <<sem, is_shutting_down, inbox, parser, got>>

CoreCommandShutdown(c) ==
    /\ status[c] = "out"
    /\ is_shutting_down
    /\ Unblock(1, [status EXCEPT ![c] = "shutdown"])
    /\ UNCHANGED <<is_shutting_down, next_id, pendings, socket, parser, got>>

\* on_write_static.
OnWriteReady ==
    /\ write_event
    /\ \E k \in 1 .. Len(to_write) : OnWrite(to_write, k)
    /\ UNCHANGED <<sem, status, is_shutting_down, next_id, pendings, inbox,
                   parser, got>>

\* lightningd answers a request it has read, in any order.
Lightningd(m, kind) ==
    /\ m \in wire
    /\ wire' = wire \ {m}
    /\ inbox' = inbox \cup {[id |-> m.id, who |-> m.who, kind |-> kind]}
    /\ UNCHANGED <<sem, status, is_shutting_down, next_id, pendings, to_write,
                   write_event, parser, got>>

\* on_read and on_read_static.  Shutdown stops the read watcher.
OnRead ==
    /\ ~is_shutting_down
    /\ inbox # {}
    /\ buffer' = buffer \cup inbox
    /\ inbox' = {}
    /\ read_parse_active' = TRUE
    /\ UNCHANGED <<sem, status, is_shutting_down, next_id, pendings, to_write,
                   write_event, wire, got>>

\* The responses process_response acts on.
Matched(p) == {r \in buffer : r.id = p.id /\ r.kind # "neither"}
Answered == {p \in pendings : Matched(p) # {}}

\* on_read_parse: process_response for every response of the buffer.  The
\* continuations log first, so none of them gives up its slot here.
ProcessResponses ==
    \E f \in [Answered -> buffer] :
        /\ \A p \in Answered : f[p] \in Matched(p)
        /\ pendings' = pendings \ Answered
        /\ status' = [c \in Callers |->
               IF \E p \in Answered : p.who = c
               THEN LET p == CHOOSE q \in Answered : q.who = c
                    IN  IF f[p].kind = "result" THEN "in" ELSE "errlog"
               ELSE status[c]]
        /\ got' = [c \in Callers |->
               IF \E p \in Answered : p.who = c
               THEN f[CHOOSE q \in Answered : q.who = c].who
               ELSE got[c]]

OnReadParse ==
    /\ read_parse_active
    /\ ProcessResponses
    /\ buffer' = {}
    /\ read_parse_active' = FALSE
    /\ UNCHANGED <<sem, is_shutting_down, next_id, socket>>

\* The log after the answer is done and the semaphore's handler runs.
Return(c) ==
    /\ status[c] \in {"in", "errlog"}
    /\ Unblock(1, [status EXCEPT ![c] = IF status[c] = "in" THEN "ok" ELSE "err"])
    /\ UNCHANGED <<is_shutting_down, next_id, pendings, socket, parser, got>>

\* shutdown.
RpcShutdown ==
    /\ ~is_shutting_down
    /\ is_shutting_down' = TRUE
    /\ write_event' = FALSE
    /\ pendings' = {}
    /\ LET failed == {p.who : p \in pendings}
       IN  Unblock(Cardinality(failed),
                   [c \in Callers |-> IF c \in failed THEN "shutdown" ELSE status[c]])
    /\ UNCHANGED <<next_id, to_write, wire, inbox, parser, got>>

RpcNext ==
    \/ \E c \in Callers :
           \/ CommandPass(c) \/ CommandBlock(c)
           \/ CoreCommand(c) \/ CoreCommandShutdown(c)
           \/ Return(c)
    \/ \E m \in wire, kind \in Kind : Lightningd(m, kind)
    \/ OnWriteReady \/ OnRead \/ OnReadParse
    \/ RpcShutdown

RpcSpec == RpcInit /\ [][RpcNext]_rpcVars

-----------------------------------------------------------------------------

\* Type correctness of Rpc::Impl and the semaphore.
RpcTypeOK ==
    /\ remaining \in 0 .. MaxConcurrent
    /\ sem_blocked \in Seq(Callers)
    /\ status \in [Callers -> SlotHolding \cup Resting \cup {"blocked"}]
    /\ is_shutting_down \in BOOLEAN
    /\ next_id \in 0 .. MaxCommands
    /\ pendings \in SUBSET Message
    /\ to_write \in Seq(Message)
    /\ write_event \in BOOLEAN
    /\ wire \in SUBSET Message
    /\ inbox \in SUBSET Response
    /\ buffer \in SUBSET Response
    /\ read_parse_active \in BOOLEAN
    /\ got \in [Callers -> Callers]

\* Semaphore::unblock asserts that a free slot and a queued caller never
\* coexist; more, every slot is either free or held by exactly one caller,
\* through errors, logs and the mass failure of shutdown().
SlotsAccounted ==
    /\ remaining + Cardinality({c \in Callers : status[c] \in SlotHolding}) = MaxConcurrent
    /\ sem_blocked # << >> => remaining = 0

\* pendings and the callers that wait for an answer are the same people: no
\* continuation is dropped, resumed twice or left behind by shutdown().
NoForgottenWaiter ==
    \A c \in Callers :
        status[c] = "sent" <=> \E p \in pendings : p.who = c

\* However lightningd orders its answers, and whatever ids late answers carry,
\* a caller is resumed with the answer to its own command.
AnswerIsMine == \A c \in Callers : got[c] = c

\* Requests that did not fit in the socket have an armed write watcher, unless
\* the connection is shutting down: none is stuck in the buffer.
WriterArmed ==
    (to_write # << >> /\ ~is_shutting_down) <=> write_event

\* lightningd answers every request it reads, with a result or an error.
LightningdAnswers ==
    /\ \A i \in 0 .. MaxCommands - 1, c \in Callers :
          WF_rpcVars(\E kind \in Kind : Lightningd([id |-> i, who |-> c], kind))
    /\ [](\A r \in inbox : r.kind # "neither")

\* If lightningd answers, with a result or an error, every command that is sent
\* returns (process_response ignores an answer that is neither).
SentReturns ==
    LightningdAnswers => \A c \in Callers : status[c] = "sent" ~> status[c] \in Resting
=============================================================================
