----------------------------- MODULE MCRuntime ------------------------------
(***************************************************************************)
(* What every module of the program stands on, checked side by side: the   *)
(* database gate, the RPC connection, the thread pool, and the bus with    *)
(* the block tracker.  They share no state; a behaviour follows one of     *)
(* them, its subject.                                                      *)
(***************************************************************************)
EXTENDS Sqlite3Db, Rpc, ThreadPool, BlockTracker

VARIABLE subject

runtimeVars == <<subject, dbVars, rpcVars, poolVars, trackerVars>>

RuntimeInit ==
    /\ subject \in {"db", "rpc", "pool", "tracker"}
    /\ DbInit /\ RpcInit /\ PoolInit /\ TrackerInit
    /\ subject # "tracker" => chain = 0

RuntimeNext ==
    /\ UNCHANGED subject
    /\ \/ subject = "db" /\ DbNext /\ UNCHANGED <<rpcVars, poolVars, trackerVars>>
       \/ subject = "rpc" /\ RpcNext /\ UNCHANGED <<dbVars, poolVars, trackerVars>>
       \/ subject = "pool" /\ PoolNext /\ UNCHANGED <<dbVars, rpcVars, trackerVars>>
       \/ subject = "tracker" /\ TrackerNext /\ UNCHANGED <<dbVars, rpcVars, poolVars>>

-----------------------------------------------------------------------------
\* The event loop runs every ready continuation, and every caller of
\* transact() in the program ends its Tx by itself: it never keeps it.
DbFairness ==
    \A t \in Threads :
        WF_dbVars(subject = "db" /\ Resume(t)) /\ WF_dbVars(subject = "db" /\ End(t))

\* libev serves every watcher and idle task.  Nothing is assumed of
\* lightningd, of the callers or of the arrival of Shutdown.
RpcFairness ==
    /\ \A c \in Callers :
           /\ WF_rpcVars(subject = "rpc" /\ (CoreCommand(c) \/ CoreCommandShutdown(c)))
           /\ WF_rpcVars(subject = "rpc" /\ Return(c))
    /\ WF_rpcVars(subject = "rpc" /\ OnWriteReady)
    /\ WF_rpcVars(subject = "rpc" /\ OnRead) /\ WF_rpcVars(subject = "rpc" /\ OnReadParse)

\* Every runnable thread is scheduled, the mutex is not withheld from a thread
\* for ever, and a task ends.
PoolFairness ==
    /\ WF_poolVars(subject = "pool" /\ MainStep)
    /\ SF_poolVars(subject = "pool" /\ AddPush) /\ SF_poolVars(subject = "pool" /\ IoHandlerGrab)
    /\ SF_poolVars(subject = "pool" /\ DestroyShutdown)
    /\ \A w \in Workers :
           /\ WF_poolVars(subject = "pool" /\ RunWork(w)) /\ WF_poolVars(subject = "pool" /\ WriteByte(w))
           /\ SF_poolVars(subject = "pool" /\ (GetWorkWait(w) \/ GetWorkExit(w) \/ GetWorkTake(w)))
           /\ SF_poolVars(subject = "pool" /\ PutResult(w))

\* The event loop serves every greenthread and lightningd answers.
TrackerFairness ==
    /\ WF_trackerVars(subject = "tracker" /\ (WaitBlock \/ NewBlock \/ RaiseStart \/ FinishStartup))
    /\ \A s \in Sub :
           /\ WF_trackerVars(subject = "tracker" /\ CallbackStart(s))
           /\ WF_trackerVars(subject = "tracker" /\ \E e \in BOOLEAN : CallbackEnd(s, e))

RuntimeFairSpec ==
    /\ RuntimeInit /\ [][RuntimeNext]_runtimeVars
    /\ DbFairness /\ RpcFairness /\ PoolFairness /\ TrackerFairness
=============================================================================
