----------------------------- MODULE BlockTracker -----------------------------
(***************************************************************************)
(* S::Bus::raise (S::Detail::Signal), on the greenthreads of               *)
(* Ev::concurrent, and Boss::Mod::BlockTracker, the loop that raises       *)
(* Msg::Block.                                                             *)
(*                                                                         *)
(* A raise starts one greenthread per subscriber and resumes the raiser    *)
(* when all are done, with the last exception if one of them failed.  The  *)
(* tracker waits for a higher block, raises it and loops.                  *)
(***************************************************************************)
EXTENDS Integers, FiniteSets

CONSTANTS
    Subscribers,    \* how many callbacks Msg::Block has
    MaxHeight,      \* bound on the height of the chain
    MayFail         \* subscribers may fail

ASSUME BlockTrackerAssumption ==
    Subscribers \in Nat \ {0} /\ MaxHeight \in Nat /\ MayFail \in BOOLEAN

VARIABLES
    loop,       \* where the loop of the tracker is
    height,     \* BlockTracker::height
    chain,      \* height of the chain
    rpc,        \* height waitblockheight was asked for, 0 when not waiting
    value,      \* RaiseData::value: the raised height, 0 once freed
    it,         \* subscriber that raise_loop is at
    starting,   \* RaiseData::starting
    running,    \* RaiseData::running
    exc,        \* RaiseData::exc is set
    callback,   \* each subscriber: "none", "queued", "running" or "done"
    seen,       \* last height each subscriber was called with
    process     \* "up" or "terminated"

raise == <<value, it, starting, running, exc, callback, seen>>
trackerVars == <<loop, height, chain, rpc, raise, process>>

Sub == 1 .. Subscribers

TrackerInit ==
    /\ loop = "start"
    /\ height = 0
    /\ chain \in 0 .. MaxHeight
    /\ rpc = 0
    /\ value = 0
    /\ it = 0
    /\ starting = FALSE
    /\ running = 0
    /\ exc = FALSE
    /\ callback = [s \in Sub |-> "none"]
    /\ seen = [s \in Sub |-> 0]
    /\ process = "up"

\* A block arrives.
Mine ==
    /\ process = "up" /\ chain < MaxHeight
    /\ chain' = chain + 1
    /\ UNCHANGED <<loop, height, rpc, raise, process>>

-----------------------------------------------------------------------------
(* BlockTracker::loop. *)

WaitBlock ==
    /\ process = "up" /\ loop = "start"
    /\ loop' = "rpc"
    /\ rpc' = height + 1
    /\ UNCHANGED <<height, chain, raise, process>>

\* The result, and the log before the raise; make RaiseData.
NewBlock ==
    /\ process = "up" /\ loop = "rpc" /\ chain >= rpc
    /\ height' = chain
    /\ rpc' = 0
    /\ loop' = "raising"
    /\ value' = chain
    /\ it' = 1
    /\ starting' = TRUE
    /\ running' = 0
    /\ exc' = FALSE
    /\ callback' = [s \in Sub |-> "none"]
    /\ UNCHANGED <<chain, seen, process>>

\* waitblockheight times out with an RPC error: loop again.
WaitTimeout ==
    /\ process = "up" /\ loop = "rpc" /\ chain < rpc
    /\ loop' = "start"
    /\ rpc' = 0
    /\ UNCHANGED <<height, chain, raise, process>>

-----------------------------------------------------------------------------
(* S::Detail::Signal. *)

\* trigger: free the value and resume the raiser.  An exception travels up the
\* loop into Ev::concurrent, which reports it and goes on.
Trigger(e) ==
    /\ value' = 0
    /\ loop' = IF e THEN "dead" ELSE "start"

\* raise_loop at a subscriber, after its yield.
RaiseStart ==
    /\ process = "up" /\ loop = "raising" /\ it \in Sub
    /\ running' = running + 1
    /\ callback' = [callback EXCEPT ![it] = "queued"]
    /\ it' = it + 1
    /\ UNCHANGED <<loop, height, chain, rpc, value, starting, exc, seen, process>>

\* Mutant of FinishStartup: subscribers that are done already are not noticed.
FinishStartupNever ==
    /\ process = "up" /\ loop = "raising" /\ it = Subscribers + 1 /\ starting
    /\ starting' = FALSE
    /\ UNCHANGED <<loop, height, chain, rpc, value, it, running, exc, callback, seen, process>>

\* raise_loop at the end of the list: finish_startup.
FinishStartup ==
    /\ process = "up" /\ loop = "raising" /\ it = Subscribers + 1 /\ starting
    /\ starting' = FALSE
    /\ IF running = 0 THEN Trigger(exc) ELSE UNCHANGED <<value, loop>>
    /\ UNCHANGED <<height, chain, rpc, it, running, exc, callback, seen, process>>

\* The greenthread of subscriber s starts.
CallbackStart(s) ==
    /\ process = "up" /\ callback[s] = "queued"
    /\ callback' = [callback EXCEPT ![s] = "running"]
    /\ seen' = [seen EXCEPT ![s] = value]
    /\ UNCHANGED <<loop, height, chain, rpc, value, it, starting, running, exc, process>>

\* finish_raise.
FinishRaise(e) ==
    /\ running' = running - 1
    /\ exc' = (exc \/ e)
    /\ IF ~starting /\ running' = 0 THEN Trigger(exc') ELSE UNCHANGED <<value, loop>>

\* It ends, well or with an exception.
CallbackEnd(s, e) ==
    /\ process = "up" /\ callback[s] = "running"
    /\ callback' = [callback EXCEPT ![s] = "done"]
    /\ FinishRaise(e)
    /\ UNCHANGED <<height, chain, rpc, it, starting, seen, process>>

\* lightningd closes the input of the plugin: Boss::Main shuts down and exits.
TrackerShutdown ==
    /\ process = "up"
    /\ process' = "terminated"
    /\ UNCHANGED <<loop, height, chain, rpc, raise>>

Exited == process = "terminated" /\ UNCHANGED trackerVars

LoopStep ==
    \/ WaitBlock \/ NewBlock \/ RaiseStart \/ FinishStartup
    \/ \E s \in Sub : CallbackStart(s)
    \/ \E s \in Sub : CallbackEnd(s, FALSE)

TrackerNext ==
    \/ Mine \/ WaitTimeout \/ LoopStep
    \/ \E s \in Sub : MayFail /\ CallbackEnd(s, TRUE)
    \/ TrackerShutdown \/ Exited

-----------------------------------------------------------------------------

\* Every block of the chain is raised, itself or by a later one, unless a
\* subscriber failed or the process ended.
EveryBlockRaised ==
    \A h \in 1 .. MaxHeight :
        chain = h ~> (loop = "dead" \/ process # "up" \/ \A s \in Sub : seen[s] >= h)

===============================================================================
