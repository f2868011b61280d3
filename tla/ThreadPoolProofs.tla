--------------------------- MODULE ThreadPoolProofs ---------------------------
(***************************************************************************)
(* Proofs about ThreadPool for any number of threads and tasks.            *)
(*                                                                         *)
(* Bytes: the queued results are the bytes in the pipe, the byte the main  *)
(* thread has read but not acted on, and the result whose byte the holder  *)
(* of the mutex is about to write.                                         *)
(***************************************************************************)
EXTENDS ThreadPool, TLAPS

Pending == IF main = "grab" THEN 1 ELSE 0
Unwritten == IF holder = {} THEN 0 ELSE 1

Bytes ==
    /\ pipe \in Nat
    /\ result_queue \in Seq(Int)
    /\ work \in [Workers -> Int]
    /\ thread_pc \in [Workers -> WorkerPC]
    /\ work_queue \in Seq(Int)
    /\ added \in Int
    /\ \A w \in Workers : thread_pc[w] = "write" <=> w \in holder
    /\ \A v, w \in holder : v = w
    /\ holder \subseteq Workers
    /\ Len(result_queue) = pipe + Pending + Unwritten

\* The initial queue, pipe and lock are empty.
LEMMA InitBytes == PoolInit => Bytes
BY ThreadPoolAssumption DEF PoolInit, Bytes, Pending, Unwritten, WorkerPC

\* Every step keeps results and bytes matched.
LEMMA StepBytes == Bytes /\ [PoolNext]_poolVars => Bytes'
<1> SUFFICES ASSUME Bytes, [PoolNext]_poolVars PROVE Bytes'
  OBVIOUS
<1> USE DEF Bytes, Pending, Unwritten
<1>1. CASE CallAdd
  BY <1>1 DEF CallAdd, shared, threads
<1>2. CASE AddPush
  BY <1>2 DEF AddPush, threads
<1>3. ASSUME NEW w \in Workers, Notify(w) PROVE Bytes'
  BY <1>3 DEF Notify, shared, WorkerPC
<1>4. CASE IoHandlerRead
  BY <1>4 DEF IoHandlerRead, threads
<1>5. CASE IoHandlerGrab
  <2>1. Len(result_queue) > 0
    BY <1>5 DEF IoHandlerGrab
  <2>2. result_queue' \in Seq(Int) /\ Len(result_queue') = Len(result_queue) - 1
    BY <1>5, <2>1 DEF IoHandlerGrab
  <2> QED BY <1>5, <2>2 DEF IoHandlerGrab, threads
<1>6. CASE Destroy
  BY <1>6 DEF Destroy, shared, threads
<1>7. CASE DestroyShutdown
  BY <1>7 DEF DestroyShutdown, WorkerPC
<1>8. CASE DestroyJoin
  BY <1>8 DEF DestroyJoin, shared, threads
<1>9. ASSUME NEW w \in Workers,
             GetWorkWait(w) \/ GetWorkExit(w) \/ RunWork(w) \/ SpuriousWakeup(w)
      PROVE  Bytes'
  BY <1>9 DEF GetWorkWait, GetWorkExit, RunWork, SpuriousWakeup, shared, mains, WorkerPC
<1>10. ASSUME NEW w \in Workers, GetWorkTake(w) PROVE Bytes'
  <2>1. work_queue' \in Seq(Int) /\ work' \in [Workers -> Int]
    BY <1>10 DEF GetWorkTake
  <2> QED BY <1>10, <2>1 DEF GetWorkTake, mains, WorkerPC
<1>11. ASSUME NEW w \in Workers, PutResult(w) PROVE Bytes'
  <2>1. /\ result_queue' \in Seq(Int) /\ Len(result_queue') = Len(result_queue) + 1
        /\ work' \in [Workers -> Int]
    BY <1>11 DEF PutResult
  <2>2. holder = {} /\ holder' = {w}
    BY <1>11 DEF PutResult
  <2>3. thread_pc' \in [Workers -> WorkerPC] /\ \A v \in Workers : thread_pc'[v] = "write" <=> v \in holder'
    BY <1>11, <2>2 DEF PutResult, WorkerPC
  <2> QED BY <1>11, <2>1, <2>2, <2>3 DEF PutResult, mains
<1>12. ASSUME NEW w \in Workers, WriteByte(w) PROVE Bytes'
  <2>1. holder = {w} /\ holder' = {}
    BY <1>12 DEF WriteByte
  <2>2. thread_pc' \in [Workers -> WorkerPC] /\ \A v \in Workers : thread_pc'[v] = "write" <=> v \in holder'
    BY <1>12, <2>1 DEF WriteByte, WorkerPC
  <2> QED BY <1>12, <2>1, <2>2, ThreadPoolAssumption DEF WriteByte, mains
<1>13. CASE UNCHANGED poolVars
  BY <1>13 DEF poolVars, mains, shared, threads
<1> QED BY <1>1, <1>2, <1>3, <1>4, <1>5, <1>6, <1>7, <1>8, <1>9, <1>10, <1>11, <1>12, <1>13
    DEF PoolNext, MainStep, WorkerStep, Gone

\* io_handler's unchecked pop always finds a result.
THEOREM ResultForEveryByteAlways == PoolSpec => []ResultForEveryByte
<1>1. Bytes => ResultForEveryByte
  BY DEF Bytes, Pending, Unwritten, ResultForEveryByte
<1> QED BY <1>1, InitBytes, StepBytes, PTL DEF PoolSpec

\* Queued work is never left to sleeping threads alone: get_work looks at the
\* queue under the lock before it waits, and add notifies after every push.
THEOREM NoLostWakeupAlways == PoolSpec => []NoLostWakeup
<1> DEFINE I == Bytes /\ NoLostWakeup
<1>1. PoolInit => I
  BY InitBytes DEF PoolInit, NoLostWakeup
<1>2. I /\ [PoolNext]_poolVars => I'
  <2> SUFFICES ASSUME Bytes, NoLostWakeup, [PoolNext]_poolVars PROVE NoLostWakeup'
    BY StepBytes
  <2>0. thread_pc \in [Workers -> WorkerPC] /\ work_queue \in Seq(Int)
    BY DEF Bytes
  <2> USE DEF NoLostWakeup
  <2>1. CASE AddPush
    BY <2>1 DEF AddPush
  <2>2. ASSUME NEW w \in Workers, Notify(w) PROVE NoLostWakeup'
    BY <2>2, <2>0 DEF Notify
  <2>3. CASE DestroyShutdown
    BY <2>3, <2>0 DEF DestroyShutdown
  <2>4. ASSUME NEW w \in Workers, GetWorkWait(w) PROVE NoLostWakeup'
    BY <2>4 DEF GetWorkWait, shared
  <2>5. ASSUME NEW w \in Workers,
               GetWorkExit(w) \/ GetWorkTake(w) \/ RunWork(w) \/ SpuriousWakeup(w)
               \/ PutResult(w) \/ WriteByte(w)
        PROVE  NoLostWakeup'
    <3>1. thread_pc'[w] # "wait"
      BY <2>5, <2>0 DEF GetWorkExit, GetWorkTake, RunWork, SpuriousWakeup, PutResult, WriteByte
    <3> QED BY <3>1
  <2>6. CASE CallAdd \/ Destroy \/ IoHandlerRead \/ IoHandlerGrab \/ DestroyJoin \/ UNCHANGED poolVars
    BY <2>6 DEF CallAdd, Destroy, IoHandlerRead, IoHandlerGrab, DestroyJoin, poolVars, mains,
                shared, threads
  <2> QED BY <2>1, <2>2, <2>3, <2>4, <2>5, <2>6 DEF PoolNext, MainStep, WorkerStep, Gone
<1> QED BY <1>1, <1>2, PTL DEF PoolSpec
===============================================================================
