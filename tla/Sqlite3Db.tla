------------------------------ MODULE Sqlite3Db ------------------------------
(***************************************************************************)
(* Sqlite3::Db and Sqlite3::Tx: the one-at-a-time transaction gate that    *)
(* every module of the program shares.                                     *)
(*                                                                         *)
(* A greenthread calls Db::transact.  It gets a Tx at once when no Tx is   *)
(* in flight, and joins the FIFO queue `blocked' otherwise.  Ending a Tx   *)
(* (commit, failed commit, rollback, destruction) passes the gate directly *)
(* to the front of the queue.  A transaction here writes two rows, `a' and *)
(* `b', one after the other, so that a half-applied transaction shows.     *)
(***************************************************************************)
EXTENDS Integers, Sequences

CONSTANTS
    Threads,        \* the greenthreads that use the database
    MaxBeginFails   \* how many BEGIN statements sqlite may refuse

ASSUME MaxBeginFailsAssumption == MaxBeginFails \in Nat

VARIABLES
    in_transaction, \* Db::Impl::in_transaction
    blocked,        \* Db::Impl::blocked, by greenthread
    pc,             \* where each greenthread is
    begun,          \* the sqlite connection has an open transaction
    view,           \* rows as the connection sees them, open writes included
    disk,           \* rows as committed
    beginFails      \* BEGINs refused so far

gate == <<in_transaction, blocked, pc, begun, beginFails>>
rows == <<view, disk>>
dbVars == <<gate, rows>>

Row == [a : Threads \cup {"none"}, b : Threads \cup {"none"}]

\* idle: no Tx.  granted: the Tx is made, the yield of transact() is pending.
\* open, half, full: the caller holds the Tx and has written 0, 1, 2 rows.
\* lost: the continuation of transact() was destroyed without being run.
TxHolding == {"granted", "open", "half", "full"}
PC == {"idle", "blocked", "lost"} \cup TxHolding

DbInit ==
    /\ in_transaction = FALSE
    /\ blocked = << >>
    /\ pc = [t \in Threads |-> "idle"]
    /\ begun = FALSE
    /\ view = [a |-> "none", b |-> "none"]
    /\ disk = view
    /\ beginFails = 0

-----------------------------------------------------------------------------

\* Db::transact.  Impl(Db const&) releases the gate before it reports a
\* refused BEGIN, and nobody can be queued while the gate is free.
TransactBlock(t) ==
    /\ pc[t] = "idle"
    /\ in_transaction
    /\ blocked' = Append(blocked, t)
    /\ pc' = [pc EXCEPT ![t] = "blocked"]
    /\ UNCHANGED <<in_transaction, begun, beginFails, rows>>

TransactPass(t) ==
    /\ pc[t] = "idle"
    /\ ~in_transaction
    /\ ~begun
    /\ in_transaction' = TRUE
    /\ begun' = TRUE
    /\ pc' = [pc EXCEPT ![t] = "granted"]
    /\ UNCHANGED <<blocked, beginFails, rows>>

TransactFail(t) ==
    /\ pc[t] = "idle"
    /\ ~in_transaction
    /\ beginFails < MaxBeginFails
    /\ beginFails' = beginFails + 1
    /\ UNCHANGED <<in_transaction, blocked, pc, begun, rows>>

\* The Ev::yield at the end of transact() is over.
Resume(t) ==
    /\ pc[t] = "granted"
    /\ pc' = [pc EXCEPT ![t] = "open"]
    /\ UNCHANGED <<in_transaction, blocked, begun, beginFails, rows>>

-----------------------------------------------------------------------------

\* Mutant of Release: the gate is opened even when greenthreads wait.
ReleaseForgetsQueue(t, pcEnd) ==
    /\ pc' = [pc EXCEPT ![t] = pcEnd]
    /\ begun' = FALSE
    /\ in_transaction' = FALSE
    /\ UNCHANGED <<blocked, beginFails>>

\* Tx::Impl::release and Db::transaction_finish, once sqlite has ended the
\* transaction of t (pcEnd is where t goes on).  The constructor of the next Tx
\* can throw after it has released the gate in turn; the outer release()
\* swallows that, so the k waiters whose BEGIN is refused are dropped.
Release(t, pcEnd) ==
    \E k \in 0 .. Len(blocked) :
      /\ beginFails + k <= MaxBeginFails
      /\ beginFails' = beginFails + k
      /\ LET dropped == {blocked[i] : i \in 1 .. k}
             after   == [u \in Threads |->
                            IF u = t THEN pcEnd
                            ELSE IF u \in dropped THEN "lost" ELSE pc[u]]
         IN \/ /\ k < Len(blocked)
               /\ pc' = [after EXCEPT ![blocked[k + 1]] = "granted"]
               /\ blocked' = SubSeq(blocked, k + 2, Len(blocked))
               /\ begun' = TRUE
               /\ UNCHANGED in_transaction
            \/ /\ k = Len(blocked)
               /\ pc' = after
               /\ blocked' = << >>
               /\ begun' = FALSE
               /\ in_transaction' = FALSE

\* Tx::query / Tx::query_execute by the holder: the two writes in order.
Query(t) ==
    /\ \/ /\ pc[t] = "open"
          /\ view' = [view EXCEPT !.a = t]
          /\ pc' = [pc EXCEPT ![t] = "half"]
       \/ /\ pc[t] = "half"
          /\ view' = [view EXCEPT !.b = t]
          /\ pc' = [pc EXCEPT ![t] = "full"]
    /\ UNCHANGED <<in_transaction, blocked, begun, beginFails, disk>>

\* Tx::commit, COMMIT accepted.  A caller commits once it has made all its
\* writes, or none.
Commit(t) ==
    /\ pc[t] \in {"open", "full"}
    /\ disk' = view
    /\ UNCHANGED view
    /\ Release(t, "idle")

\* Mutant of CommitFail: the transaction that could not commit is not ended.
CommitFailNoRollback(t) ==
    /\ pc[t] \in {"open", "full"}
    /\ UNCHANGED rows
    /\ Release(t, "idle")

\* Tx::commit, COMMIT refused: ROLLBACK, release, throw.
CommitFail(t) ==
    /\ pc[t] \in {"open", "full"}
    /\ view' = disk
    /\ UNCHANGED disk
    /\ Release(t, "idle")

\* Tx::rollback, or ~Tx when the caller returns early or throws: the
\* destructor of Tx::Impl runs ROLLBACK if the transaction is still active.
Rollback(t) ==
    /\ pc[t] \in {"open", "half", "full"}
    /\ view' = disk
    /\ UNCHANGED disk
    /\ Release(t, "idle")

\* The process dies and restarts: sqlite discards the open transaction.
DbCrash ==
    /\ in_transaction' = FALSE
    /\ blocked' = << >>
    /\ pc' = [t \in Threads |-> "idle"]
    /\ begun' = FALSE
    /\ view' = disk
    /\ UNCHANGED <<disk, beginFails>>

End(t) == Commit(t) \/ CommitFail(t) \/ Rollback(t)

Step ==
    \E t \in Threads :
       \/ TransactBlock(t) \/ TransactPass(t) \/ TransactFail(t)
       \/ Resume(t) \/ Query(t)
       \/ Commit(t) \/ CommitFail(t) \/ Rollback(t)

DbNext == Step \/ DbCrash

DbSpec == DbInit /\ [][DbNext]_dbVars

-----------------------------------------------------------------------------

\* Every variable stays in its type.
DbTypeOK ==
    /\ in_transaction \in BOOLEAN
    /\ blocked \in Seq(Threads)
    /\ pc \in [Threads -> PC]
    /\ begun \in BOOLEAN
    /\ view \in Row
    /\ disk \in Row
    /\ beginFails \in 0 .. MaxBeginFails

\* "ensuring exclusive access" (Db.hpp): two greenthreads never hold a Tx at
\* the same time, the flag is set exactly while one does, and sqlite's own
\* transaction is open exactly then, so no statement runs outside of one.
Exclusive ==
    /\ \A t, u \in Threads :
          pc[t] \in TxHolding /\ pc[u] \in TxHolding => t = u
    /\ in_transaction <=> \E t \in Threads : pc[t] \in TxHolding
    /\ begun <=> in_transaction

\* The queue is exactly the blocked greenthreads, each once, and nobody is
\* left waiting behind a free gate.
NoOrphanWaiter ==
    /\ \A t \in Threads :
          pc[t] = "blocked" <=> \E i \in 1 .. Len(blocked) : blocked[i] = t
    /\ \A i, j \in 1 .. Len(blocked) : blocked[i] = blocked[j] => i = j
    /\ blocked # << >> => in_transaction

\* A committed state is never half of a transaction, whatever commits,
\* refusals, early returns and crashes happen; and the next holder starts from
\* the committed rows.
Atomic ==
    /\ disk.a = disk.b
    /\ ~begun => view = disk
    /\ \A t \in Threads : pc[t] \in {"granted", "open"} => view = disk

\* No greenthread waits for a Tx for ever: it gets one, or sqlite refuses its
\* BEGIN, or the process is restarted.
Served == \A t \in Threads : pc[t] = "blocked" ~> pc[t] # "blocked"
=============================================================================
