------------------------------ MODULE ThreadPool ------------------------------
(***************************************************************************)
(* Ev::ThreadPool: the only preemptive threads of the program.             *)
(*                                                                         *)
(* The main thread queues work and runs the results; the background        *)
(* threads take work under a mutex and a condition variable, and announce  *)
(* each result with one byte in a pipe that the event loop watches.  A     *)
(* write to a full pipe blocks while the mutex is held.                    *)
(***************************************************************************)
EXTENDS Integers, Sequences, FiniteSets

CONSTANTS
    Workers,        \* the background threads
    MaxTasks,       \* bound on calls of add
    PipeCapacity    \* bytes the pipe holds

ASSUME ThreadPoolAssumption ==
    /\ MaxTasks \in Nat
    /\ PipeCapacity \in Nat \ {0}
    /\ Workers # {}

VARIABLES
    main,           \* where the main thread is
    num_tasks,
    io_waiter,      \* the watcher exists
    added,          \* number of calls of add; tasks are 1 .. added
    ran,            \* tasks whose result the main thread has run
    holder,         \* who keeps mtx across a step
    shutdown,
    work_queue,
    result_queue,
    pipe,           \* bytes in the pipe
    thread_pc,      \* where each background thread is
    work            \* the task each background thread has

mains == <<main, num_tasks, io_waiter, added, ran>>
shared == <<holder, shutdown, work_queue, result_queue, pipe>>
threads == <<thread_pc, work>>
poolVars == <<mains, shared, threads>>

Task == 1 .. MaxTasks

\* get: about to take mtx and look for work.  wait: in cnd.wait.
\* put: has a result, about to take mtx.  write: in write(), holding mtx.
WorkerPC == {"get", "wait", "run", "put", "write", "exited"}

PoolInit ==
    /\ main = "loop"
    /\ num_tasks = 0
    /\ io_waiter = FALSE
    /\ added = 0
    /\ ran = << >>
    /\ holder = {}
    /\ shutdown = FALSE
    /\ work_queue = << >>
    /\ result_queue = << >>
    /\ pipe = 0
    /\ thread_pc = [w \in Workers |-> "get"]
    /\ work = [w \in Workers |-> 0]

-----------------------------------------------------------------------------
(* The main thread. *)

\* The event loop runs something that calls add, or the destructor.
CallAdd ==
    /\ main = "loop" /\ added < MaxTasks
    /\ main' = "add"
    /\ UNCHANGED <<num_tasks, io_waiter, added, ran, shared, threads>>

AddPush ==
    /\ main = "add" /\ holder = {}
    /\ main' = "notify"
    /\ added' = added + 1
    /\ work_queue' = Append(work_queue, added + 1)
    /\ UNCHANGED <<num_tasks, io_waiter, ran, holder, shutdown, result_queue, pipe,
                   threads>>

\* Mutant of Notify: the waiter is started by the first task only.
NotifyOnce(w) ==
    /\ main = "notify"
    /\ main' = "loop"
    /\ num_tasks' = num_tasks + 1
    /\ io_waiter' = (io_waiter \/ added = 1)
    /\ thread_pc' = IF thread_pc[w] = "wait" THEN [thread_pc EXCEPT ![w] = "get"] ELSE thread_pc
    /\ UNCHANGED <<added, ran, shared, work>>

\* Mutant of Notify: nobody is woken.
NotifyNobody(w) ==
    /\ main = "notify"
    /\ main' = "loop"
    /\ num_tasks' = num_tasks + 1
    /\ io_waiter' = TRUE
    /\ UNCHANGED <<added, ran, shared, threads>>

\* cnd.notify_one wakes some waiting thread if there is one; the count and
\* the watcher follow.
Notify(w) ==
    /\ main = "notify"
    /\ thread_pc[w] = "wait" \/ \A v \in Workers : thread_pc[v] # "wait"
    /\ main' = "loop"
    /\ num_tasks' = num_tasks + 1
    /\ io_waiter' = TRUE
    /\ thread_pc' = IF thread_pc[w] = "wait" THEN [thread_pc EXCEPT ![w] = "get"] ELSE thread_pc
    /\ UNCHANGED <<added, ran, shared, work>>

\* io_handler, when libev finds a byte.
IoHandlerRead ==
    /\ main = "loop" /\ io_waiter /\ pipe > 0
    /\ pipe' = pipe - 1
    /\ main' = "grab"
    /\ UNCHANGED <<num_tasks, io_waiter, added, ran, holder, shutdown, work_queue,
                   result_queue, threads>>

\* The rest of io_handler.  result() runs greenthreads, which may go on to
\* call add.
IoHandlerGrab ==
    /\ main = "grab" /\ holder = {}
    /\ result_queue' = Tail(result_queue)
    /\ ran' = Append(ran, Head(result_queue))
    /\ num_tasks' = num_tasks - 1
    /\ io_waiter' = (num_tasks' # 0)
    /\ main' = "loop"
    /\ UNCHANGED <<added, holder, shutdown, work_queue, pipe, threads>>

\* ~Impl.
Destroy ==
    /\ main = "loop"
    /\ main' = "dtor"
    /\ io_waiter' = FALSE
    /\ UNCHANGED <<num_tasks, added, ran, shared, threads>>

DestroyShutdown ==
    /\ main = "dtor" /\ holder = {}
    /\ shutdown' = TRUE
    /\ main' = "join"
    /\ thread_pc' = [w \in Workers |-> IF thread_pc[w] = "wait" THEN "get" ELSE thread_pc[w]]
    /\ UNCHANGED <<num_tasks, io_waiter, added, ran, holder, work_queue, result_queue,
                   pipe, work>>

DestroyJoin ==
    /\ main = "join"
    /\ \A w \in Workers : thread_pc[w] = "exited"
    /\ main' = "gone"
    /\ UNCHANGED <<num_tasks, io_waiter, added, ran, shared, threads>>

-----------------------------------------------------------------------------
(* The background threads. *)

\* get_work.
GetWorkWait(w) ==
    /\ thread_pc[w] = "get" /\ holder = {}
    /\ work_queue = << >> /\ ~shutdown
    /\ thread_pc' = [thread_pc EXCEPT ![w] = "wait"]
    /\ UNCHANGED <<mains, shared, work>>

GetWorkExit(w) ==
    /\ thread_pc[w] = "get" /\ holder = {}
    /\ shutdown
    /\ thread_pc' = [thread_pc EXCEPT ![w] = "exited"]
    /\ UNCHANGED <<mains, shared, work>>

GetWorkTake(w) ==
    /\ thread_pc[w] = "get" /\ holder = {}
    /\ work_queue # << >> /\ ~shutdown
    /\ work_queue' = Tail(work_queue)
    /\ work' = [work EXCEPT ![w] = Head(work_queue)]
    /\ thread_pc' = [thread_pc EXCEPT ![w] = "run"]
    /\ UNCHANGED <<mains, holder, shutdown, result_queue, pipe>>

\* A condition variable may wake up by itself.
SpuriousWakeup(w) ==
    /\ thread_pc[w] = "wait"
    /\ thread_pc' = [thread_pc EXCEPT ![w] = "get"]
    /\ UNCHANGED <<mains, shared, work>>

RunWork(w) ==
    /\ thread_pc[w] = "run"
    /\ thread_pc' = [thread_pc EXCEPT ![w] = "put"]
    /\ UNCHANGED <<mains, shared, work>>

\* put_result: queue the result, then write the byte, mtx held throughout.
PutResult(w) ==
    /\ thread_pc[w] = "put" /\ holder = {}
    /\ holder' = {w}
    /\ result_queue' = Append(result_queue, work[w])
    /\ work' = [work EXCEPT ![w] = 0]
    /\ thread_pc' = [thread_pc EXCEPT ![w] = "write"]
    /\ UNCHANGED <<mains, shutdown, work_queue, pipe>>

\* The write.  background() then looks for work without releasing mtx; that
\* this is a step of its own only adds behaviours.
WriteByte(w) ==
    /\ thread_pc[w] = "write" /\ pipe < PipeCapacity
    /\ pipe' = pipe + 1
    /\ holder' = {}
    /\ thread_pc' = [thread_pc EXCEPT ![w] = "get"]
    /\ UNCHANGED <<mains, shutdown, work_queue, result_queue, work>>

MainStep ==
    \/ AddPush \/ \E w \in Workers : Notify(w)
    \/ IoHandlerRead \/ IoHandlerGrab
    \/ DestroyShutdown \/ DestroyJoin

WorkerStep(w) ==
    \/ GetWorkWait(w) \/ GetWorkExit(w) \/ GetWorkTake(w)
    \/ RunWork(w) \/ PutResult(w) \/ WriteByte(w)

\* The pool is gone: nothing is left to do.
Gone == main = "gone" /\ UNCHANGED poolVars

PoolNext ==
    \/ MainStep \/ CallAdd \/ Destroy
    \/ \E w \in Workers : WorkerStep(w) \/ SpuriousWakeup(w)
    \/ Gone

PoolSpec == PoolInit /\ [][PoolNext]_poolVars
-----------------------------------------------------------------------------

\* io_handler pops result_queue without looking whether it is empty: there is
\* a result for every byte it reads, because the byte follows the result under
\* the same lock.
ResultForEveryByte == main = "grab" => result_queue # << >>

\* A thread that sleeps leaves no work behind: while work is queued and no
\* notification is on its way, somebody is awake to take it.
NoLostWakeup ==
    (work_queue # << >> /\ main # "notify") =>
        \E w \in Workers : thread_pc[w] # "wait"

\* Every task's result is run, unless the pool is destroyed first.
EveryTaskRuns ==
    \A t \in Task :
        t <= added ~> (main = "gone" \/ \E i \in 1 .. Len(ran) : ran[i] = t)

===============================================================================
