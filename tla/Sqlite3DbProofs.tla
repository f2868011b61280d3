--------------------------- MODULE Sqlite3DbProofs ---------------------------
(***************************************************************************)
(* The transaction gate keeps its promises for any set of greenthreads and *)
(* any number of refused BEGINs.                                           *)
(***************************************************************************)
EXTENDS Sqlite3Db, TLAPS

\* What the holder has written so far is what the connection sees: without it
\* Atomic would not survive a commit.
Written ==
    \A t \in Threads :
       /\ pc[t] = "half" => view.a = t
       /\ pc[t] = "full" => view.a = view.b

IInv == DbTypeOK /\ Exclusive /\ NoOrphanWaiter /\ Atomic /\ Written

\* What Release does to the gate, whoever calls it: it stays exclusive, and the
\* queue stays the set of blocked greenthreads, each once.
LEMMA ReleaseKeepsGate ==
    ASSUME DbTypeOK, Exclusive, NoOrphanWaiter,
           NEW t \in Threads, pc[t] \in TxHolding, Release(t, "idle")
    PROVE  /\ in_transaction' \in BOOLEAN
           /\ blocked' \in Seq(Threads)
           /\ pc' \in [Threads -> PC]
           /\ begun' \in BOOLEAN
           /\ beginFails' \in 0 .. MaxBeginFails
           /\ Exclusive'
           /\ NoOrphanWaiter'
           /\ \A u \in Threads : pc'[u] \in TxHolding => pc'[u] = "granted"
  <1> USE MaxBeginFailsAssumption DEF DbTypeOK
  <1>1. PICK k \in 0 .. Len(blocked) :
          /\ beginFails + k <= MaxBeginFails
          /\ beginFails' = beginFails + k
          /\ LET dropped == {blocked[i] : i \in 1 .. k}
                 after   == [u \in Threads |->
                                IF u = t THEN "idle"
                                ELSE IF u \in dropped THEN "lost" ELSE pc[u]]
             IN \/ /\ k < Len(blocked)
                   /\ pc' = [after EXCEPT ![blocked[k + 1]] = "granted"]
                   /\ blocked' = SubSeq(blocked, k + 2, Len(blocked))
                   /\ begun' = TRUE
                   /\ UNCHANGED in_transaction
                \/ /\ k = Len(blocked)
                   /\ pc' = after
                   /\ blocked' = << >>
                   /\ begun' = FALSE
                   /\ in_transaction' = FALSE
    BY DEF Release
  <1> DEFINE dropped == {blocked[i] : i \in 1 .. k}
             after   == [u \in Threads |->
                            IF u = t THEN "idle"
                            ELSE IF u \in dropped THEN "lost" ELSE pc[u]]
  <1>2. /\ Len(blocked) \in Nat
        /\ \A i \in 1 .. Len(blocked) : blocked[i] \in Threads /\ blocked[i] # t
                                        /\ pc[blocked[i]] = "blocked"
    BY DEF NoOrphanWaiter, TxHolding
  <1>3. after \in [Threads -> PC]
    BY DEF PC, TxHolding
  <1>4. \A u \in Threads : pc[u] \in TxHolding => u = t
    BY DEF Exclusive
  <1>5. \A u \in Threads : after[u] \notin TxHolding
    BY <1>4 DEF TxHolding
  <1>6. \A u \in Threads : after[u] = "blocked"
                              <=> \E i \in (k + 1) .. Len(blocked) : blocked[i] = u
    <2> SUFFICES ASSUME NEW u \in Threads
                 PROVE  after[u] = "blocked"
                           <=> \E i \in (k + 1) .. Len(blocked) : blocked[i] = u
      OBVIOUS
    <2>1. ASSUME after[u] = "blocked"
          PROVE  \E i \in (k + 1) .. Len(blocked) : blocked[i] = u
      <3>1. u # t /\ u \notin dropped /\ pc[u] = "blocked"
        BY <2>1
      <3>2. PICK i \in 1 .. Len(blocked) : blocked[i] = u
        BY <3>1 DEF NoOrphanWaiter
      <3>3. ~(i \in 1 .. k)
        BY <3>1, <3>2
      <3> QED BY <1>2, <3>2, <3>3
    <2>2. ASSUME NEW i \in (k + 1) .. Len(blocked), blocked[i] = u
          PROVE  after[u] = "blocked"
      <3>1. i \in 1 .. Len(blocked)
        BY <1>2
      <3>2. u \notin dropped
        BY <1>2, <2>2, <3>1 DEF NoOrphanWaiter
      <3> QED BY <1>2, <2>2, <3>1, <3>2
    <2> QED BY <2>1, <2>2
  <1>7. beginFails' \in 0 .. MaxBeginFails
    BY <1>1
  <1>8. CASE k < Len(blocked)
    <2> DEFINE n == blocked[k + 1]
    <2>0. k # Len(blocked)
      BY <1>2, <1>8
    <2>1. /\ pc' = [after EXCEPT ![n] = "granted"]
          /\ blocked' = SubSeq(blocked, k + 2, Len(blocked))
          /\ begun' = TRUE
          /\ in_transaction' = in_transaction
      BY <1>1, <2>0, Zenon
    <2>2. n \in Threads /\ n # t
      BY <1>2, <1>8
    <2>3. /\ blocked' \in Seq(Threads)
          /\ Len(blocked') = Len(blocked) - (k + 1)
          /\ \A i \in 1 .. Len(blocked') : blocked'[i] = blocked[i + k + 1]
      BY <1>2, <1>8, <2>1
    <2>4. pc' \in [Threads -> PC]
      BY <1>3, <2>1, <2>2 DEF PC, TxHolding
    <2>5. in_transaction
      BY DEF Exclusive
    <2>6. \A u \in Threads : pc'[u] \in TxHolding <=> u = n
      BY <1>3, <1>5, <2>1, <2>2 DEF TxHolding
    <2>7. Exclusive'
      BY <2>1, <2>2, <2>5, <2>6 DEF Exclusive
    <2>8. \A u \in Threads : pc'[u] = "blocked"
                                <=> \E i \in 1 .. Len(blocked') : blocked'[i] = u
      <3> SUFFICES ASSUME NEW u \in Threads
                   PROVE  pc'[u] = "blocked"
                             <=> \E i \in 1 .. Len(blocked') : blocked'[i] = u
        OBVIOUS
      <3>1. ASSUME pc'[u] = "blocked"
            PROVE  \E i \in 1 .. Len(blocked') : blocked'[i] = u
        <4>1. u # n /\ after[u] = "blocked"
          BY <1>3, <2>1, <2>2, <3>1
        <4>2. PICK i \in (k + 1) .. Len(blocked) : blocked[i] = u
          BY <1>6, <4>1
        <4>3. i # k + 1
          BY <4>1, <4>2
        <4>4. i - (k + 1) \in 1 .. Len(blocked')
          BY <1>2, <2>3, <4>2, <4>3
        <4>5. blocked'[i - (k + 1)] = u
          BY <1>2, <2>3, <4>2, <4>4
        <4> QED BY <4>4, <4>5
      <3>2. ASSUME NEW i \in 1 .. Len(blocked'), blocked'[i] = u
            PROVE  pc'[u] = "blocked"
        <4>1. /\ i + k + 1 \in (k + 1) .. Len(blocked)
              /\ i + k + 1 \in 1 .. Len(blocked)
              /\ blocked[i + k + 1] = u
              /\ k + 1 \in 1 .. Len(blocked)
              /\ i + k + 1 # k + 1
          BY <1>2, <1>8, <2>3, <3>2
        <4>2. u # n
          BY <4>1 DEF NoOrphanWaiter
        <4>3. after[u] = "blocked"
          BY <1>6, <4>1
        <4> QED BY <1>3, <2>1, <2>2, <4>2, <4>3
      <3> QED BY <3>1, <3>2
    <2>9. \A i, j \in 1 .. Len(blocked') : blocked'[i] = blocked'[j] => i = j
      <3> SUFFICES ASSUME NEW i \in 1 .. Len(blocked'), NEW j \in 1 .. Len(blocked'),
                          blocked'[i] = blocked'[j]
                   PROVE  i = j
        OBVIOUS
      <3>1. i + k + 1 \in 1 .. Len(blocked) /\ j + k + 1 \in 1 .. Len(blocked)
        BY <1>2, <1>8, <2>3
      <3>2. blocked[i + k + 1] = blocked[j + k + 1]
        BY <2>3
      <3> QED BY <3>1, <3>2 DEF NoOrphanWaiter
    <2>10. NoOrphanWaiter'
      BY <2>1, <2>5, <2>8, <2>9 DEF NoOrphanWaiter
    <2>11. \A u \in Threads : pc'[u] \in TxHolding => pc'[u] = "granted"
      BY <1>3, <2>1, <2>2, <2>6
    <2>12. in_transaction' \in BOOLEAN /\ begun' \in BOOLEAN
      BY <2>1, Zenon DEF DbTypeOK
    <2> HIDE DEF dropped, after, n
    <2> QED BY <1>7, <2>3, <2>4, <2>7, <2>10, <2>11, <2>12
  <1>9. CASE k = Len(blocked)
    <2>1. /\ pc' = after
          /\ blocked' = << >>
          /\ begun' = FALSE
          /\ in_transaction' = FALSE
      BY <1>1, <1>2, <1>9
    <2>2. Exclusive'
      BY <1>5, <2>1 DEF Exclusive
    <2>3. \A u \in Threads : pc'[u] # "blocked"
      BY <1>2, <1>6, <1>9, <2>1
    <2>4. NoOrphanWaiter'
      BY <2>1, <2>3 DEF NoOrphanWaiter
    <2>5. in_transaction' \in BOOLEAN /\ begun' \in BOOLEAN
      BY <2>1, Zenon
    <2>6. blocked' \in Seq(Threads) /\ pc' \in [Threads -> PC]
      BY <1>3, <2>1
    <2>7. \A u \in Threads : pc'[u] \in TxHolding => pc'[u] = "granted"
      BY <1>5, <2>1
    <2> HIDE DEF dropped, after
    <2> QED BY <1>7, <2>2, <2>4, <2>5, <2>6, <2>7
  <1> QED BY <1>2, <1>8, <1>9

\* Every conjunct of the inductive invariant holds initially.
LEMMA InitIInv == DbInit => IInv
  <1> SUFFICES ASSUME DbInit PROVE IInv
    OBVIOUS
  <1> USE MaxBeginFailsAssumption DEF DbInit
  <1>1. in_transaction \in BOOLEAN /\ begun \in BOOLEAN
    BY Zenon
  <1>2. DbTypeOK
    BY <1>1 DEF DbTypeOK, PC, TxHolding, Row
  <1>3. Exclusive
    BY DEF Exclusive, TxHolding
  <1>4. NoOrphanWaiter
    BY DEF NoOrphanWaiter
  <1>5. Atomic /\ Written
    BY DEF Atomic, Written
  <1> QED BY <1>2, <1>3, <1>4, <1>5 DEF IInv

\* A step that only moves the greenthread that holds the Tx from one holding
\* point to another leaves the gate as it is.
LEMMA HolderMoves ==
    ASSUME DbTypeOK, Exclusive, NoOrphanWaiter,
           NEW t \in Threads, NEW p \in TxHolding, pc[t] \in TxHolding,
           pc' = [pc EXCEPT ![t] = p],
           UNCHANGED <<in_transaction, blocked, begun>>
    PROVE  /\ pc' \in [Threads -> PC]
           /\ Exclusive'
           /\ NoOrphanWaiter'
           /\ \A u \in Threads : pc'[u] \in TxHolding => u = t /\ pc'[u] = p
  <1>1. pc' \in [Threads -> PC]
    BY DEF DbTypeOK, PC
  <1>2. \A u \in Threads : u # t => pc'[u] = pc[u] /\ pc[u] \notin TxHolding
    BY DEF DbTypeOK, Exclusive
  <1>3. pc'[t] = p
    BY DEF DbTypeOK
  <1>4. Exclusive'
    BY <1>2, <1>3 DEF Exclusive
  <1>5. p # "blocked" /\ pc[t] # "blocked"
    BY DEF TxHolding
  <1>6. NoOrphanWaiter'
    BY <1>2, <1>3, <1>5 DEF NoOrphanWaiter
  <1> QED BY <1>1, <1>2, <1>3, <1>4, <1>6

\* Every step of the gate, the crash included, keeps the inductive invariant.
LEMMA NextIInv == IInv /\ [DbNext]_dbVars => IInv'
  <1> SUFFICES ASSUME IInv, [DbNext]_dbVars PROVE IInv'
    OBVIOUS
  <1>0. DbTypeOK /\ Exclusive /\ NoOrphanWaiter /\ Atomic /\ Written
    BY DEF IInv
  <1> USE MaxBeginFailsAssumption
  <1>1. ASSUME NEW t \in Threads, TransactBlock(t) PROVE IInv'
    <2> USE <1>1 DEF TransactBlock
    <2>1. DbTypeOK'
      BY <1>0 DEF DbTypeOK, PC, rows
    <2>2. \A u \in Threads : u # t => pc'[u] = pc[u]
      BY <1>0 DEF DbTypeOK
    <2>3. pc'[t] = "blocked"
      BY <1>0 DEF DbTypeOK
    <2>4. \A u \in Threads : pc'[u] \in TxHolding <=> pc[u] \in TxHolding
      BY <2>2, <2>3 DEF TxHolding
    <2>5. Exclusive'
      BY <1>0, <2>4 DEF Exclusive
    <2>6. /\ Len(blocked) \in Nat
          /\ Len(blocked') = Len(blocked) + 1
          /\ \A i \in 1 .. Len(blocked) : blocked'[i] = blocked[i] /\ blocked[i] # t
          /\ blocked'[Len(blocked) + 1] = t
      BY <1>0 DEF DbTypeOK, NoOrphanWaiter
    <2>7. \A u \in Threads : pc'[u] = "blocked"
                                <=> \E i \in 1 .. Len(blocked') : blocked'[i] = u
      <3> SUFFICES ASSUME NEW u \in Threads
                   PROVE  pc'[u] = "blocked"
                             <=> \E i \in 1 .. Len(blocked') : blocked'[i] = u
        OBVIOUS
      <3>1. CASE u = t
        BY <2>3, <2>6, <3>1
      <3>2. CASE u # t
        <4>1. pc'[u] = "blocked" <=> \E i \in 1 .. Len(blocked) : blocked[i] = u
          BY <1>0, <2>2, <3>2 DEF NoOrphanWaiter
        <4> QED BY <2>6, <3>2, <4>1
      <3> QED BY <3>1, <3>2
    <2>8. \A i, j \in 1 .. Len(blocked') : blocked'[i] = blocked'[j] => i = j
      BY <1>0, <2>6 DEF NoOrphanWaiter
    <2>9. NoOrphanWaiter'
      BY <2>7, <2>8 DEF NoOrphanWaiter
    <2>10. Atomic' /\ Written'
      BY <1>0, <2>2, <2>3 DEF Atomic, Written, rows
    <2> QED BY <2>1, <2>5, <2>9, <2>10 DEF IInv
  <1>2. ASSUME NEW t \in Threads, TransactPass(t) PROVE IInv'
    <2> USE <1>2 DEF TransactPass
    <2>1. in_transaction' \in BOOLEAN /\ begun' \in BOOLEAN
      BY Zenon
    <2>2. DbTypeOK'
      BY <1>0, <2>1 DEF DbTypeOK, PC, TxHolding, rows
    <2>3. \A u \in Threads : pc[u] \notin TxHolding
      BY <1>0 DEF Exclusive
    <2>4. /\ \A u \in Threads : u # t => pc'[u] = pc[u]
          /\ pc'[t] = "granted"
      BY <1>0 DEF DbTypeOK
    <2>5. Exclusive'
      BY <2>3, <2>4 DEF Exclusive, TxHolding
    <2>6. blocked = << >>
      BY <1>0 DEF NoOrphanWaiter
    <2>7. NoOrphanWaiter'
      BY <1>0, <2>4, <2>6 DEF NoOrphanWaiter
    <2>8. Atomic' /\ Written'
      BY <1>0, <2>3, <2>4 DEF Atomic, Written, rows, TxHolding
    <2> QED BY <2>2, <2>5, <2>7, <2>8 DEF IInv
  <1>3. ASSUME NEW t \in Threads, TransactFail(t) PROVE IInv'
    <2> USE <1>3 DEF TransactFail
    <2>1. DbTypeOK'
      BY <1>0 DEF DbTypeOK, rows
    <2>2. Exclusive' /\ NoOrphanWaiter'
      BY <1>0 DEF Exclusive, NoOrphanWaiter
    <2>3. Atomic' /\ Written'
      BY <1>0 DEF Atomic, Written, rows
    <2> QED BY <2>1, <2>2, <2>3 DEF IInv
  <1>4. ASSUME NEW t \in Threads, Resume(t) PROVE IInv'
    <2> USE <1>4 DEF Resume
    <2>1. /\ pc' \in [Threads -> PC] /\ Exclusive' /\ NoOrphanWaiter'
          /\ \A u \in Threads : pc'[u] \in TxHolding => u = t /\ pc'[u] = "open"
      BY <1>0, HolderMoves DEF TxHolding
    <2>2. DbTypeOK'
      BY <1>0, <2>1 DEF DbTypeOK, rows
    <2>3. Atomic' /\ Written'
      BY <1>0, <2>1 DEF Atomic, Written, rows, TxHolding
    <2> QED BY <2>1, <2>2, <2>3 DEF IInv
  <1>5. ASSUME NEW t \in Threads, Query(t) PROVE IInv'
    <2>1. CASE /\ pc[t] = "open"
               /\ view' = [view EXCEPT !.a = t]
               /\ pc' = [pc EXCEPT ![t] = "half"]
      <3>1. /\ pc' \in [Threads -> PC] /\ Exclusive' /\ NoOrphanWaiter'
            /\ \A u \in Threads : pc'[u] \in TxHolding => u = t /\ pc'[u] = "half"
        BY <1>0, <1>5, <2>1, HolderMoves DEF Query, TxHolding
      <3>2. DbTypeOK'
        BY <1>0, <1>5, <2>1, <3>1 DEF DbTypeOK, Query, Row
      <3>3. begun
        BY <1>0, <2>1 DEF Exclusive, TxHolding
      <3>4. Atomic' /\ Written'
        BY <1>0, <1>5, <2>1, <3>1, <3>3
           DEF DbTypeOK, Row, Atomic, Written, Query, TxHolding
      <3> QED BY <3>1, <3>2, <3>4 DEF IInv
    <2>2. CASE /\ pc[t] = "half"
               /\ view' = [view EXCEPT !.b = t]
               /\ pc' = [pc EXCEPT ![t] = "full"]
      <3>1. /\ pc' \in [Threads -> PC] /\ Exclusive' /\ NoOrphanWaiter'
            /\ \A u \in Threads : pc'[u] \in TxHolding => u = t /\ pc'[u] = "full"
        BY <1>0, <1>5, <2>2, HolderMoves DEF Query, TxHolding
      <3>2. DbTypeOK'
        BY <1>0, <1>5, <2>2, <3>1 DEF DbTypeOK, Query, Row
      <3>3. begun
        BY <1>0, <2>2 DEF Exclusive, TxHolding
      <3>4. Atomic' /\ Written'
        BY <1>0, <1>5, <2>2, <3>1, <3>3
           DEF DbTypeOK, Row, Atomic, Written, Query, TxHolding
      <3> QED BY <3>1, <3>2, <3>4 DEF IInv
    <2> QED BY <1>5, <2>1, <2>2 DEF Query
  <1>6. ASSUME NEW t \in Threads, Release(t, "idle"), pc[t] \in TxHolding,
               view' \in Row, disk' \in Row, view' = disk', disk'.a = disk'.b
        PROVE  IInv'
    <2>1. /\ in_transaction' \in BOOLEAN
          /\ blocked' \in Seq(Threads)
          /\ pc' \in [Threads -> PC]
          /\ begun' \in BOOLEAN
          /\ beginFails' \in 0 .. MaxBeginFails
          /\ Exclusive' /\ NoOrphanWaiter'
          /\ \A u \in Threads : pc'[u] \in TxHolding => pc'[u] = "granted"
      BY <1>0, <1>6, ReleaseKeepsGate
    <2>2. DbTypeOK'
      BY <1>6, <2>1 DEF DbTypeOK
    <2>3. Atomic' /\ Written'
      BY <1>6, <2>1 DEF Atomic, Written, TxHolding
    <2> QED BY <2>1, <2>2, <2>3 DEF IInv
  <1>7. ASSUME NEW t \in Threads, Commit(t) PROVE IInv'
    <2>1. view.a = view.b
      BY <1>0, <1>7 DEF Commit, Written, Atomic
    <2> QED BY <1>0, <1>6, <1>7, <2>1 DEF Commit, DbTypeOK, TxHolding
  <1>8. ASSUME NEW t \in Threads, CommitFail(t) PROVE IInv'
    BY <1>0, <1>6, <1>8 DEF CommitFail, DbTypeOK, TxHolding, Atomic
  <1>9. ASSUME NEW t \in Threads, Rollback(t) PROVE IInv'
    BY <1>0, <1>6, <1>9 DEF Rollback, DbTypeOK, TxHolding, Atomic
  <1>10. ASSUME DbCrash PROVE IInv'
    <2> USE <1>10 DEF DbCrash
    <2>1. in_transaction' \in BOOLEAN /\ begun' \in BOOLEAN
      BY Zenon
    <2>2. DbTypeOK'
      BY <1>0, <2>1 DEF DbTypeOK, PC
    <2>3. Exclusive' /\ NoOrphanWaiter'
      BY DEF Exclusive, NoOrphanWaiter, TxHolding
    <2>4. Atomic' /\ Written'
      BY <1>0 DEF Atomic, Written
    <2> QED BY <2>2, <2>3, <2>4 DEF IInv
  <1>11. ASSUME UNCHANGED dbVars PROVE IInv'
    <2>1. DbTypeOK' /\ Exclusive' /\ NoOrphanWaiter'
      BY <1>0, <1>11 DEF dbVars, gate, rows, DbTypeOK, Exclusive, NoOrphanWaiter
    <2>2. Atomic' /\ Written'
      BY <1>0, <1>11 DEF dbVars, gate, rows, Atomic, Written
    <2> QED BY <2>1, <2>2 DEF IInv
  <1> QED BY <1>1, <1>2, <1>3, <1>4, <1>5, <1>7, <1>8, <1>9, <1>10, <1>11
          DEF DbNext, Step

\* Sqlite3::Db gives "exclusive access" (Db.hpp): for any number of
\* greenthreads, at most one holds a Tx, in_transaction says whether one does,
\* and sqlite's own transaction is open exactly then.
THEOREM ExclusiveAlways == DbSpec => []Exclusive
  <1>1. DbSpec => []IInv
    BY InitIInv, NextIInv, PTL DEF DbSpec
  <1>2. IInv => Exclusive
    BY DEF IInv
  <1> QED BY <1>1, <1>2, PTL

\* Every variable of the gate stays in its type.
THEOREM TypeCorrect == DbSpec => []DbTypeOK
  <1>1. DbSpec => []IInv
    BY InitIInv, NextIInv, PTL DEF DbSpec
  <1>2. IInv => DbTypeOK
    BY DEF IInv
  <1> QED BY <1>1, <1>2, PTL

\* The queue of Db::Impl holds each blocked greenthread once, and is empty
\* whenever the gate is free: no lost wake-up.
THEOREM NoOrphanWaiterAlways == DbSpec => []NoOrphanWaiter
  <1>1. DbSpec => []IInv
    BY InitIInv, NextIInv, PTL DEF DbSpec
  <1>2. IInv => NoOrphanWaiter
    BY DEF IInv
  <1> QED BY <1>1, <1>2, PTL

\* "Writes will only be committed when the tx is committed" (Tx.hpp): the
\* committed rows are never half of a transaction, and a new holder never sees
\* writes that a refused commit, a rollback or a crash should have undone.
THEOREM AtomicAlways == DbSpec => []Atomic
  <1>1. DbSpec => []IInv
    BY InitIInv, NextIInv, PTL DEF DbSpec
  <1>2. IInv => Atomic
    BY DEF IInv
  <1> QED BY <1>1, <1>2, PTL
=============================================================================
